-------------------------- MODULE LanguageServer_proof --------------------------
(***************************************************************************)
(* The language server, proved for every set of files, directories and     *)
(* contents, and for any number of changes: it has all files, forgets      *)
(* those that were deleted, and what is shown is what the documents that   *)
(* there are give.                                                         *)
(*                                                                         *)
(* The first two are about the documents alone.  For the third, what the   *)
(* loading of documents reports has to be in one of them, or in none       *)
(* (ReportedPlaces): no diagnostic is about a place that is not shown.     *)
(***************************************************************************)
EXTENDS LanguageServer, FiniteSetTheorems, SequenceTheorems, WellFoundedInduction,
        TLAPS

\* What the editor has open of a file that is on the disk, the server has.
TrackedAsOpen ==
    \A u \in (DOMAIN buffers \cap DOMAIN disk) \ (Due \cup astray) :
        u \in DOMAIN documents /\ documents[u] = buffers[u]

\* A file that is there again before its deletion was notified.
Reborn == DOMAIN disk \cap Due \subseteq astray

\* No document but of a file that is there, or whose deletion is yet to be
\* notified.
NoneIsLeft == DOMAIN documents \subseteq DOMAIN disk \cup Due \cup astray

FilesAreUris == DOMAIN disk \subseteq Uris /\ DOMAIN documents \subseteq Uris

\* What the editor has deleted was a file, or a directory with files in it.
TrashedPaths ==
    \A path \in trashed :
        path \in Seq(STRING) /\ \E u \in Uris : IsPrefix(path, Path[u])

\* The inductive invariant.
IInv == TrashedPaths /\ FilesAreUris /\ Reborn /\ TrackedAsOpen /\ NoneIsLeft /\ HasAllFiles

-----------------------------------------------------------------------------
(* Files and directories.                                                  *)

LEMMA PrefixAgrees ==
    ASSUME NEW s \in Seq(STRING), NEW t \in Seq(STRING), Len(s) <= Len(t)
    PROVE  IsPrefix(s, t) <=> \A i \in 1 .. Len(s) : s[i] = t[i]
<1>1. Len(s) \in Nat /\ Len(t) \in Nat
    BY LenProperties
<1>2. /\ SubSeq(s, 1, Len(s)) \in Seq(STRING)
      /\ Len(SubSeq(s, 1, Len(s))) = Len(s)
      /\ \A i \in 1 .. Len(s) : SubSeq(s, 1, Len(s))[i] = s[i]
    BY <1>1, ElementOfSeq, SubSeqProperties
<1>3. /\ SubSeq(t, 1, Len(s)) \in Seq(STRING)
      /\ Len(SubSeq(t, 1, Len(s))) = Len(s)
      /\ \A i \in 1 .. Len(s) : SubSeq(t, 1, Len(s))[i] = t[i]
    BY <1>1, ElementOfSeq, SubSeqProperties
<1> QED
    BY <1>1, <1>2, <1>3, SeqEqual DEF IsPrefix

\* Where two paths agree as far as both go, one begins the other: of the
\* files on the disk, remove_documents_in_dir forgets those in the directory.
LEMMA OnlyInDirectory ==
    ASSUME NEW path \in Seq(STRING), NEW u \in Uris, NEW w \in Uris,
           IsPrefix(path, Path[w]), InDirectory(path, Path[u])
    PROVE  IsPrefix(path, Path[u])
<1>1. Path[u] \in Seq(STRING) /\ Path[w] \in Seq(STRING)
    BY ServerAssumption
<1>2. /\ Len(path) \in Nat /\ Len(Path[u]) \in Nat /\ Len(Path[w]) \in Nat
      /\ DOMAIN path = 1 .. Len(path) /\ DOMAIN Path[u] = 1 .. Len(Path[u])
    BY <1>1, LenProperties
<1>3. Len(path) <= Len(Path[w])
    BY DEF IsPrefix
<1>4. CASE Len(path) <= Len(Path[u])
    BY <1>1, <1>2, <1>4, PrefixAgrees DEF InDirectory
<1>5. CASE Len(Path[u]) < Len(path)
    <2>1. \A i \in 1 .. Len(Path[u]) : Path[u][i] = path[i]
        BY <1>2, <1>5 DEF InDirectory
    <2>2. \A i \in 1 .. Len(path) : path[i] = Path[w][i]
        BY <1>1, <1>3, PrefixAgrees
    <2>3. \A i \in 1 .. Len(Path[u]) : Path[u][i] = Path[w][i]
        BY <1>2, <1>5, <2>1, <2>2
    <2>4. IsPrefix(Path[u], Path[w])
        BY <1>1, <1>2, <1>3, <1>5, <2>3, PrefixAgrees
    <2> QED
        BY <1>2, <1>3, <1>5, <2>4, ServerAssumption
<1> QED
    BY <1>2, <1>4, <1>5

LEMMA AllInDirectory ==
    ASSUME NEW path \in Seq(STRING), NEW u \in Uris, IsPrefix(path, Path[u])
    PROVE  InDirectory(path, Path[u])
<1>1. Path[u] \in Seq(STRING)
    BY ServerAssumption
<1>2. DOMAIN path = 1 .. Len(path) /\ Len(path) <= Len(Path[u])
    BY LenProperties DEF IsPrefix
<1> QED
    BY <1>1, <1>2, PrefixAgrees DEF InDirectory

-----------------------------------------------------------------------------
(* What the handlers do to the documents.                                  *)

LEMMA Taking ==
    ASSUME NEW f, NEW S
    PROVE  /\ DOMAIN Without(f, S) = DOMAIN f \ S
           /\ \A w \in DOMAIN f \ S : Without(f, S)[w] = f[w]
BY DEF Without

\* The documents in a directory go, if there are any.
LEMMA DeletingForgets ==
    ASSUME NEW path, DidDeleteFiles(path)
    PROVE  LET there == {u \in DOMAIN documents : InDirectory(path, Path[u])}
           IN  /\ DOMAIN documents' = DOMAIN documents \ there
               /\ \A u \in DOMAIN documents \ there : documents'[u] = documents[u]
<1> DEFINE there == {u \in DOMAIN documents : InDirectory(path, Path[u])}
<1>1. CASE there = {}
    BY <1>1 DEF DidDeleteFiles
<1>2. CASE there # {}
    <2>1. documents' = Without(documents, there)
        BY <1>2 DEF DidDeleteFiles, ForgetDocuments
    <2> QED
        BY <2>1, Taking
<1> QED
    BY <1>1, <1>2

-----------------------------------------------------------------------------
(* The steps.                                                              *)

LEMMA InitIInv == Init => IInv
<1> SUFFICES ASSUME Init PROVE IInv
    OBVIOUS
<1>1. DOMAIN disk \subseteq Uris
    BY DEF Init
<1>2. /\ DOMAIN buffers = {} /\ DOMAIN documents = {} /\ unseen = DOMAIN disk
      /\ trashed = {} /\ Due = {}
    BY DEF Init, Due
<1> QED
    BY <1>1, <1>2
    DEF IInv, TrashedPaths, FilesAreUris, Reborn, TrackedAsOpen, NoneIsLeft, HasAllFiles

LEMMA OpenKeeps == ASSUME IInv, NEW u \in Uris, Open(u) PROVE IInv'
<1>1. /\ documents' = With(documents, u, disk[u]) /\ buffers' = With(buffers, u, disk[u])
      /\ u \in DOMAIN disk /\ UNCHANGED <<disk, unseen, Due, trashed, astray>>
    BY DEF Open, Upsert, Due
<1>2. /\ DOMAIN documents' = DOMAIN documents \cup {u} /\ documents'[u] = disk[u]
      /\ \A w \in DOMAIN documents \ {u} : documents'[w] = documents[w]
    BY <1>1 DEF With, At
<1>3. /\ DOMAIN buffers' = DOMAIN buffers \cup {u} /\ buffers'[u] = disk[u]
      /\ \A w \in DOMAIN buffers \ {u} : buffers'[w] = buffers[w]
    BY <1>1 DEF With, At
<1>4. TrashedPaths' /\ FilesAreUris' /\ Reborn' /\ NoneIsLeft'
    BY <1>1, <1>2, <1>3 DEF IInv, TrashedPaths, FilesAreUris, Reborn, NoneIsLeft
<1>5. TrackedAsOpen'
    BY <1>1, <1>2, <1>3 DEF IInv, Reborn, TrackedAsOpen
<1>6. HasAllFiles'
    BY <1>1, <1>2, <1>3 DEF IInv, Reborn, TrackedAsOpen, HasAllFiles, Latest
<1> QED
    BY <1>4, <1>5, <1>6 DEF IInv

LEMMA EditKeeps == ASSUME IInv, NEW u \in Uris, NEW c, Edit(u, c) PROVE IInv'
<1>1. /\ documents' = With(documents, u, c) /\ buffers' = With(buffers, u, c)
      /\ u \in DOMAIN buffers /\ UNCHANGED <<disk, unseen, Due, trashed>>
      /\ astray' = IF u \in DOMAIN disk THEN astray ELSE astray \cup {u}
    BY DEF Edit, Upsert, Due
<1>2. /\ DOMAIN documents' = DOMAIN documents \cup {u} /\ documents'[u] = c
      /\ \A w \in DOMAIN documents \ {u} : documents'[w] = documents[w]
    BY <1>1 DEF With, At
<1>3. /\ DOMAIN buffers' = DOMAIN buffers \cup {u} /\ buffers'[u] = c
      /\ \A w \in DOMAIN buffers \ {u} : buffers'[w] = buffers[w]
    BY <1>1 DEF With, At
<1>4. TrashedPaths' /\ FilesAreUris' /\ Reborn' /\ NoneIsLeft'
    BY <1>1, <1>2, <1>3 DEF IInv, TrashedPaths, FilesAreUris, Reborn, NoneIsLeft
<1>5. TrackedAsOpen'
    BY <1>1, <1>2, <1>3 DEF IInv, Reborn, TrackedAsOpen
<1>6. HasAllFiles'
    BY <1>1, <1>2, <1>3 DEF IInv, Reborn, TrackedAsOpen, HasAllFiles, Latest
<1> QED
    BY <1>4, <1>5, <1>6 DEF IInv

LEMMA SaveKeeps == ASSUME IInv, NEW u \in Uris, Save(u) PROVE IInv'
<1>1. /\ disk' = With(disk, u, buffers[u]) /\ u \in DOMAIN buffers
      /\ UNCHANGED <<buffers, unseen, Due, trashed, documents>>
      /\ astray' = IF u \in DOMAIN disk THEN astray ELSE astray \cup {u}
    BY DEF Save, Due
<1>2. /\ DOMAIN disk' = DOMAIN disk \cup {u} /\ disk'[u] = buffers[u]
      /\ \A w \in DOMAIN disk \ {u} : disk'[w] = disk[w]
    BY <1>1 DEF With, At
<1>3. TrashedPaths' /\ FilesAreUris' /\ Reborn' /\ NoneIsLeft'
    BY <1>1, <1>2 DEF IInv, TrashedPaths, FilesAreUris, Reborn, NoneIsLeft
<1>4. TrackedAsOpen'
    BY <1>1, <1>2 DEF IInv, Reborn, TrackedAsOpen
<1>5. HasAllFiles'
    BY <1>1, <1>2 DEF IInv, Reborn, TrackedAsOpen, HasAllFiles, Latest
<1> QED
    BY <1>3, <1>4, <1>5 DEF IInv

LEMMA CloseKeeps == ASSUME IInv, NEW u \in Uris, Close(u) PROVE IInv'
<1>1. /\ buffers' = Without(buffers, {u}) /\ u \in DOMAIN buffers
      /\ u \in DOMAIN disk => buffers[u] = disk[u]
      /\ UNCHANGED <<disk, unseen, Due, trashed, astray, documents>>
    BY DEF Close, Clean, Due
<1>2. /\ DOMAIN buffers' = DOMAIN buffers \ {u}
      /\ \A w \in DOMAIN buffers \ {u} : buffers'[w] = buffers[w]
    BY <1>1, Taking
<1>3. TrashedPaths' /\ FilesAreUris' /\ Reborn' /\ NoneIsLeft'
    BY <1>1, <1>2 DEF IInv, TrashedPaths, FilesAreUris, Reborn, NoneIsLeft
<1>4. TrackedAsOpen'
    BY <1>1, <1>2 DEF IInv, Reborn, TrackedAsOpen
<1>5. HasAllFiles'
    BY <1>1, <1>2 DEF IInv, Reborn, TrackedAsOpen, HasAllFiles, Latest
<1> QED
    BY <1>3, <1>4, <1>5 DEF IInv

LEMMA WriteKeeps == ASSUME IInv, NEW u \in Uris, NEW c, Write(u, c) PROVE IInv'
<1>1. /\ disk' = With(disk, u, c)
      /\ u \in DOMAIN buffers => u \in DOMAIN disk
      /\ unseen' = unseen \cup {u}
      /\ astray' = IF u \in Due THEN astray \cup {u} ELSE astray
      /\ UNCHANGED <<buffers, Due, trashed, documents>>
    BY DEF Write, Clean, Due
<1>2. /\ DOMAIN disk' = DOMAIN disk \cup {u} /\ disk'[u] = c
      /\ \A w \in DOMAIN disk \ {u} : disk'[w] = disk[w]
    BY <1>1 DEF With, At
<1>3. TrashedPaths' /\ FilesAreUris' /\ Reborn' /\ NoneIsLeft'
    BY <1>1, <1>2 DEF IInv, TrashedPaths, FilesAreUris, Reborn, NoneIsLeft
<1>4. TrackedAsOpen'
    BY <1>1, <1>2 DEF IInv, Reborn, TrackedAsOpen
<1>5. HasAllFiles'
    BY <1>1, <1>2 DEF IInv, Reborn, TrackedAsOpen, HasAllFiles, Latest
<1> QED
    BY <1>3, <1>4, <1>5 DEF IInv

LEMMA SeeChangeKeeps == ASSUME IInv, NEW u \in Uris, SeeChange(u) PROVE IInv'
<1>1. unseen' = unseen \ {u} /\ UNCHANGED <<disk, Due, trashed, astray>>
    BY DEF SeeChange, Due
<1>2. CASE u \in DOMAIN disk /\ ~(u \in DOMAIN buffers /\ Clean(u))
    <2>1. /\ documents' = With(documents, u, disk[u])
          /\ buffers' = With(buffers, u, disk[u])
        BY <1>2 DEF SeeChange, Upsert
    <2>2. /\ DOMAIN documents' = DOMAIN documents \cup {u} /\ documents'[u] = disk[u]
          /\ \A w \in DOMAIN documents \ {u} : documents'[w] = documents[w]
        BY <2>1 DEF With, At
    <2>3. /\ DOMAIN buffers' = DOMAIN buffers \cup {u} /\ buffers'[u] = disk[u]
          /\ \A w \in DOMAIN buffers \ {u} : buffers'[w] = buffers[w]
        BY <2>1 DEF With, At
    <2>4. TrashedPaths' /\ FilesAreUris' /\ Reborn' /\ NoneIsLeft'
        BY <1>1, <1>2, <2>2, <2>3 DEF IInv, TrashedPaths, FilesAreUris, Reborn, NoneIsLeft
    <2>5. TrackedAsOpen'
        BY <1>1, <1>2, <2>2, <2>3 DEF IInv, Reborn, TrackedAsOpen
    <2>6. HasAllFiles'
        BY <1>1, <1>2, <2>2, <2>3 DEF IInv, Reborn, TrackedAsOpen, HasAllFiles, Latest
    <2> QED
        BY <2>4, <2>5, <2>6 DEF IInv
<1>3. CASE ~(u \in DOMAIN disk /\ ~(u \in DOMAIN buffers /\ Clean(u)))
    <2>1. UNCHANGED <<buffers, documents>>
        BY <1>3 DEF SeeChange
    <2>2. TrashedPaths' /\ FilesAreUris' /\ Reborn' /\ NoneIsLeft'
        BY <1>1, <1>3, <2>1 DEF IInv, TrashedPaths, FilesAreUris, Reborn, NoneIsLeft
    <2>3. TrackedAsOpen'
        BY <1>1, <1>3, <2>1 DEF IInv, Reborn, TrackedAsOpen
    <2>4. HasAllFiles'
        BY <1>1, <1>3, <2>1 DEF Clean, IInv, Reborn, TrackedAsOpen, HasAllFiles, Latest
    <2> QED
        BY <2>2, <2>3, <2>4 DEF IInv
<1> QED
    BY <1>2, <1>3

LEMMA DeleteKeeps == ASSUME IInv, NEW u \in Uris, Delete(u) PROVE IInv'
<1>1. /\ disk' = Without(disk, {u}) /\ Due' = Due \cup {u}
      /\ UNCHANGED <<buffers, unseen, trashed, astray, documents>>
    BY DEF Delete, Due
<1>2. /\ DOMAIN disk' = DOMAIN disk \ {u}
      /\ \A w \in DOMAIN disk \ {u} : disk'[w] = disk[w]
    BY <1>1, Taking
<1>3. TrashedPaths' /\ FilesAreUris' /\ Reborn' /\ NoneIsLeft'
    BY <1>1, <1>2 DEF IInv, TrashedPaths, FilesAreUris, Reborn, NoneIsLeft
<1>4. TrackedAsOpen'
    BY <1>1, <1>2 DEF IInv, Reborn, TrackedAsOpen
<1>5. HasAllFiles'
    BY <1>1, <1>2 DEF IInv, Reborn, TrackedAsOpen, HasAllFiles, Latest
<1> QED
    BY <1>3, <1>4, <1>5 DEF IInv

LEMMA SeeDeletedKeeps == ASSUME IInv, SeeDeleted PROVE IInv'
<1>1. /\ documents' = Without(documents, deleted \cap DOMAIN documents)
      /\ UNCHANGED <<disk, buffers, unseen, trashed, astray>>
    BY DEF SeeDeleted, DidChangeWatchedFiles, ForgetDocuments, Watched
<1>2. /\ DOMAIN documents' = DOMAIN documents \ deleted
      /\ \A w \in DOMAIN documents \ deleted : documents'[w] = documents[w]
    BY <1>1 DEF Without
<1>3. deleted \subseteq Due /\ Due' \subseteq Due /\ Due \subseteq Due' \cup deleted
    BY DEF SeeDeleted, Due
<1>4. TrashedPaths' /\ FilesAreUris' /\ Reborn' /\ NoneIsLeft'
    BY <1>1, <1>2, <1>3 DEF IInv, TrashedPaths, FilesAreUris, Reborn, NoneIsLeft
<1>5. TrackedAsOpen'
    BY <1>1, <1>2, <1>3 DEF IInv, Reborn, TrackedAsOpen
<1>6. HasAllFiles'
    BY <1>1, <1>2, <1>3 DEF IInv, Reborn, TrackedAsOpen, HasAllFiles, Latest
<1> QED
    BY <1>4, <1>5, <1>6 DEF IInv

LEMMA DeleteInEditorKeeps ==
    ASSUME IInv, NEW path \in Seq(STRING), DeleteInEditor(path)
    PROVE  IInv'
<1> DEFINE gone == {u \in DOMAIN disk : IsPrefix(path, Path[u])}
           within == {u \in Uris : IsPrefix(path, Path[u])}
<1>1. /\ disk' = Without(disk, gone) /\ buffers' = Without(buffers, gone)
      /\ deleted' = deleted \cup {u \in gone : Path[u] = path}
      /\ trashed' = trashed \cup {path}
      /\ UNCHANGED <<unseen, astray, documents>>
    BY DEF DeleteInEditor
<1>2. gone \subseteq within /\ DOMAIN disk \ gone \subseteq Uris \ within
    BY DEF IInv, FilesAreUris
<1>3. Due' = Due \cup within
    <2>1. deleted' \subseteq deleted \cup within /\ deleted \subseteq deleted'
        BY <1>1, <1>2
    <2> QED
        BY <1>1, <2>1 DEF Due
<1>4. TrashedPaths'
    <2>1. \E u \in Uris : IsPrefix(path, Path[u])
        BY DEF DeleteInEditor, IInv, FilesAreUris
    <2> QED
        BY <1>1, <2>1 DEF IInv, TrashedPaths
<1> HIDE DEF gone, within
<1>5. /\ DOMAIN disk' = DOMAIN disk \ gone
      /\ \A u \in DOMAIN disk \ gone : disk'[u] = disk[u]
      /\ DOMAIN buffers' = DOMAIN buffers \ gone
      /\ \A u \in DOMAIN buffers \ gone : buffers'[u] = buffers[u]
    BY <1>1, Taking
<1>6. UNCHANGED <<unseen, astray, documents>>
    BY <1>1
<1>7. FilesAreUris' /\ Reborn' /\ NoneIsLeft'
    BY <1>2, <1>3, <1>5, <1>6 DEF IInv, FilesAreUris, Reborn, NoneIsLeft
<1>8. TrackedAsOpen'
    BY <1>2, <1>3, <1>5, <1>6 DEF IInv, Reborn, TrackedAsOpen
<1>9. HasAllFiles'
    BY <1>2, <1>3, <1>5, <1>6 DEF IInv, Reborn, TrackedAsOpen, HasAllFiles, Latest
<1> QED
    BY <1>4, <1>7, <1>8, <1>9 DEF IInv

LEMMA NotifyDeletedKeeps == ASSUME IInv, NEW path, NotifyDeleted(path) PROVE IInv'
<1> DEFINE within == {u \in Uris : IsPrefix(path, Path[u])}
           there == {u \in DOMAIN documents : InDirectory(path, Path[u])}
<1>1. path \in trashed /\ UNCHANGED <<disk, buffers, unseen, deleted, astray>>
    BY DEF NotifyDeleted
<1>2. TrashedPaths'
    BY DEF NotifyDeleted, IInv, TrashedPaths
<1>3. there = within \cap DOMAIN documents
    <2>1. path \in Seq(STRING) /\ \E w \in Uris : IsPrefix(path, Path[w])
        BY <1>1 DEF IInv, TrashedPaths
    <2> QED
        BY <2>1, OnlyInDirectory, AllInDirectory DEF IInv, FilesAreUris
<1>4. /\ DOMAIN documents' = DOMAIN documents \ there
      /\ \A u \in DOMAIN documents \ there : documents'[u] = documents[u]
    BY DeletingForgets DEF NotifyDeleted
<1>5. within \subseteq Due /\ Due' \subseteq Due /\ Due \subseteq Due' \cup within
    BY DEF NotifyDeleted, Due
<1> HIDE DEF within, there
<1>6. FilesAreUris' /\ Reborn' /\ NoneIsLeft'
    BY <1>1, <1>3, <1>4, <1>5 DEF IInv, FilesAreUris, Reborn, NoneIsLeft
<1>7. TrackedAsOpen'
    BY <1>1, <1>3, <1>4, <1>5 DEF IInv, Reborn, TrackedAsOpen
<1>8. HasAllFiles'
    BY <1>1, <1>3, <1>4, <1>5 DEF IInv, Reborn, TrackedAsOpen, HasAllFiles, Latest
<1> QED
    BY <1>2, <1>6, <1>7, <1>8 DEF IInv

LEMMA NextIInv == IInv /\ [Next]_vars => IInv'
<1> SUFFICES ASSUME IInv, [Next]_vars PROVE IInv'
    OBVIOUS
<1>1. ASSUME NEW u \in Uris,
             Open(u) \/ Save(u) \/ Close(u) \/ SeeChange(u) \/ Delete(u)
      PROVE  IInv'
    BY <1>1, OpenKeeps, SaveKeeps, CloseKeeps, SeeChangeKeeps, DeleteKeeps
<1>2. ASSUME NEW u \in Uris, NEW c \in Contents, Edit(u, c) \/ Write(u, c)
      PROVE  IInv'
    BY <1>2, EditKeeps, WriteKeeps
<1>3. CASE SeeDeleted
    BY <1>3, SeeDeletedKeeps
<1>4. ASSUME NEW path \in Directories \cup {Path[u] : u \in Uris}, DeleteInEditor(path)
      PROVE  IInv'
    <2>1. path \in Seq(STRING)
        BY ServerAssumption
    <2> QED
        BY <1>4, <2>1, DeleteInEditorKeeps
<1>5. ASSUME NEW path, NotifyDeleted(path) PROVE IInv'
    BY <1>5, NotifyDeletedKeeps
<1>6. CASE UNCHANGED vars
    <2>1. UNCHANGED <<disk, buffers, unseen, trashed, Due, astray, documents>>
        BY <1>6 DEF vars, editor, Due
    <2> QED
        BY <2>1 DEF IInv, TrashedPaths, FilesAreUris, Reborn, TrackedAsOpen, NoneIsLeft,
                    HasAllFiles, Latest
<1> QED
    BY <1>1, <1>2, <1>3, <1>4, <1>5, <1>6 DEF Next

-----------------------------------------------------------------------------

\* "We care about all Polar files in a workspace folder" (on_notification):
\* once the watchers have seen a file and its changes, the server has it as the
\* editor or the disk does, for any files and directories.
THEOREM FilesAreKnown == Spec => []HasAllFiles
<1>1. IInv => HasAllFiles
    BY DEF IInv
<1> QED
    BY InitIInv, NextIInv, <1>1, PTL DEF Spec

\* A file that was deleted is forgotten once that was notified
\* (on_did_delete_files, on_did_change_watched_files): no document is left of
\* it even where the editor has it open.
THEOREM DeletedAreForgotten == Spec => []DeletedIsForgotten
<1>1. IInv => DeletedIsForgotten
    BY DEF IInv, NoneIsLeft, DeletedIsForgotten
<1> QED
    BY InitIInv, NextIInv, <1>1, PTL DEF Spec

(***************************************************************************)
(* Where diagnostics are: in one of the sources that are loaded, or in     *)
(* none.  A is a set of places.                                            *)
(***************************************************************************)

ArePlaced(declarations, A) ==
    \A n \in DOMAIN declarations :
        LET d == declarations[n]
        IN  /\ d = [is |-> d.is, type |-> d.type, at |-> d.at, first |-> d.first]
            /\ d.at \in A /\ d.first \in A

PlacedKb(k, A) ==
    /\ IsKb(k)
    /\ \A rule \in k.rules : rule.at \in A
    /\ \A type \in k.types : type.at \in A
    /\ \A resource \in DOMAIN k.decls : ArePlaced(k.decls[resource], A)
    /\ \A resource \in DOMAIN k.shorthand : \A s \in k.shorthand[resource] : s.at \in A

ArePlacedErrors(diagnostics, A) == \A d \in diagnostics : d.at \in A

Placed(acc, A) == PlacedKb(acc.kb, A) /\ ArePlacedErrors(acc.diagnostics, A)

LEMMA AddPlaced ==
    ASSUME NEW acc, NEW A, Placed(acc, A), NEW k, PlacedKb(k, A),
           NEW diagnostics, ArePlacedErrors(diagnostics, A)
    PROVE  Placed(Add(acc, k, diagnostics), A)
BY DEF Placed, Add, ArePlacedErrors

LEMMA MergePlaced ==
    ASSUME NEW old, NEW new, NEW A, ArePlaced(old, A), ArePlaced(new, A)
    PROVE  ArePlaced(MergeDeclarations(old, new), A)
<1> DEFINE merged == MergeDeclarations(old, new)
<1>1. DOMAIN merged = DOMAIN old \cup DOMAIN new
    BY DEF MergeDeclarations
<1>2. ASSUME NEW n \in DOMAIN merged
      PROVE  LET d == merged[n]
             IN  /\ d = [is |-> d.is, type |-> d.type, at |-> d.at, first |-> d.first]
                 /\ d.at \in A /\ d.first \in A
    <2>1. CASE n \notin DOMAIN new
        <3>1. merged[n] = old[n] /\ n \in DOMAIN old
            BY <1>1, <2>1 DEF MergeDeclarations
        <3> QED
            BY <3>1 DEF ArePlaced
    <2>2. CASE n \in DOMAIN new /\ n \notin DOMAIN old
        <3>1. merged[n] = new[n]
            BY <1>1, <2>2 DEF MergeDeclarations
        <3> QED
            BY <2>2, <3>1 DEF ArePlaced
    <2>3. CASE n \in DOMAIN new /\ n \in DOMAIN old
        <3>1. merged[n] = [new[n] EXCEPT !.first = old[n].first]
            BY <1>1, <2>3 DEF MergeDeclarations
        <3> QED
            BY <2>3, <3>1 DEF ArePlaced
    <2> QED
        BY <1>1, <2>1, <2>2, <2>3
<1> HIDE DEF merged
<1>3. ArePlaced(merged, A)
    BY <1>2 DEF ArePlaced
<1> QED
    BY <1>3 DEF merged

LEMMA BlockPlaced ==
    ASSUME NEW k, NEW A, PlacedKb(k, A), NEW b, NEW declarations,
           ArePlaced(declarations, A), \A s \in b.shorthand : s.at \in A
    PROVE  PlacedKb(AddBlock(k, b, declarations), A)
<1> DEFINE u == Unions(k, b)
           new == AddBlock(k, b, declarations)
           actors == IF b.actor THEN k.actors \cup {b.resource} ELSE k.actors
           resources == k.resources \cup {b.resource}
           merged == MergeDeclarations(DeclarationsOf(b.resource, k), declarations)
           shorthand == ShorthandOf(b.resource, k) \cup b.shorthand
<1>1. u = [k EXCEPT !.actors = actors, !.resources = resources]
    BY DEF Unions
<1>2. new = [u EXCEPT !.decls = At(@, b.resource, merged),
                      !.shorthand = At(@, b.resource, shorthand)]
    BY DEF AddBlock
<1>3. ArePlaced(merged, A)
    <2>1. ArePlaced(DeclarationsOf(b.resource, k), A)
        <3>1. ArePlaced(<<>>, A)
            BY DEF ArePlaced
        <3> QED
            BY <3>1 DEF DeclarationsOf, PlacedKb
    <2> QED
        BY <2>1, MergePlaced
<1>4. \A s \in shorthand : s.at \in A
    BY DEF ShorthandOf, PlacedKb
<1> HIDE DEF u, new, actors, resources, merged, shorthand
<1>5. /\ IsKb(u) /\ u.rules = k.rules /\ u.types = k.types
      /\ u.decls = k.decls /\ u.shorthand = k.shorthand
    BY <1>1 DEF PlacedKb, IsKb
<1>6. /\ IsKb(new) /\ new.rules = k.rules /\ new.types = k.types
      /\ new.decls = At(k.decls, b.resource, merged)
      /\ new.shorthand = At(k.shorthand, b.resource, shorthand)
    BY <1>2, <1>5 DEF IsKb
<1>7. \A resource \in DOMAIN new.decls : ArePlaced(new.decls[resource], A)
    BY <1>3, <1>6 DEF At, PlacedKb
<1>8. \A resource \in DOMAIN new.shorthand : \A s \in new.shorthand[resource] : s.at \in A
    BY <1>4, <1>6 DEF At, PlacedKb
<1>9. PlacedKb(new, A)
    BY <1>6, <1>7, <1>8 DEF PlacedKb
<1> QED
    BY <1>9 DEF new

\* A line of a source at a place.
LEMMA LinePlaced ==
    ASSUME NEW acc, NEW A, Placed(acc, A), NEW line, IsLine(line), NEW at \in A
    PROVE  Placed(LoadLine(acc, line, at), A)
<1> DEFINE k == acc.kb
           it == [line.it EXCEPT !.at = at]
<1>1. PlacedKb(k, A)
    BY DEF Placed
<1>2. CASE line.is = "rule"
    <2>1. it.at = at
        BY <1>2 DEF IsLine, IsRule, Rule
    <2>2. LoadLine(acc, line, at) =
            Add(acc, [k EXCEPT !.rules = @ \cup {it}], RuleWarnings(it, k))
        BY <1>2 DEF LoadLine, LoadRule
    <2> HIDE DEF it
    <2>3. PlacedKb([k EXCEPT !.rules = @ \cup {it}], A)
        <3> DEFINE l == [k EXCEPT !.rules = @ \cup {it}]
        <3>1. /\ IsKb(l) /\ l.rules = k.rules \cup {it} /\ l.types = k.types
              /\ l.decls = k.decls /\ l.shorthand = k.shorthand
            BY <1>1 DEF PlacedKb, IsKb
        <3> HIDE DEF l
        <3>2. PlacedKb(l, A)
            BY <1>1, <2>1, <3>1 DEF PlacedKb
        <3> QED
            BY <3>2 DEF l
    <2>4. ArePlacedErrors(RuleWarnings(it, k), A)
        BY <2>1 DEF ArePlacedErrors, RuleWarnings, Diagnostic
    <2> QED
        BY <2>2, <2>3, <2>4, AddPlaced
<1>3. CASE line.is = "type"
    <2>1. it.at = at
        BY <1>3 DEF IsLine, Type
    <2>2. \/ LoadLine(acc, line, at) = Add(acc, k, {Diagnostic("InvalidRuleType", it.at)})
          \/ LoadLine(acc, line, at) = Add(acc, [k EXCEPT !.types = @ \cup {it}], {})
        BY <1>3 DEF LoadLine, LoadType
    <2> HIDE DEF it
    <2>3. PlacedKb([k EXCEPT !.types = @ \cup {it}], A)
        BY <1>1, <2>1 DEF PlacedKb, IsKb
    <2>4. ArePlacedErrors({Diagnostic("InvalidRuleType", it.at)}, A) /\ ArePlacedErrors({}, A)
        BY <2>1 DEF ArePlacedErrors, Diagnostic
    <2> QED
        BY <1>1, <2>2, <2>3, <2>4, AddPlaced
<1>4. CASE line.is = "block"
    <2> DEFINE b == BlockOf(it)
               declarations == IndexDeclarations(b)
               added == AddToKb(k, b)
    <2>1. it.at = at
        BY <1>4 DEF IsLine
    <2>2. LoadLine(acc, line, at) = Add(acc, added.kb, BlockErrors(it) \cup added.diagnostics)
        BY <1>4 DEF LoadLine, LoadBlock
    <2> HIDE DEF it
    <2>3. b.at = at /\ \A s \in b.shorthand : s.at \in A
        BY <2>1 DEF BlockOf
    <2>4. ArePlacedErrors(BlockErrors(it), A)
        BY <2>1 DEF ArePlacedErrors, BlockErrors, BlockError, Diagnostic
    <2> HIDE DEF b
    <2>5. ArePlaced(declarations, A)
        BY <2>3 DEF ArePlaced, IndexDeclarations, Declared
    <2> HIDE DEF declarations
    <2>6. PlacedKb(AddBlock(k, b, declarations), A)
        BY <1>1, <2>3, <2>5, BlockPlaced
    <2>7. PlacedKb(added.kb, A)
        BY <1>1, <2>6 DEF AddToKb, declarations
    <2>8. ArePlacedErrors(added.diagnostics, A)
        BY <2>3 DEF ArePlacedErrors, AddToKb, Diagnostic
    <2> HIDE DEF added
    <2>9. ArePlacedErrors(BlockErrors(it) \cup added.diagnostics, A)
        BY <2>4, <2>8 DEF ArePlacedErrors
    <2> QED
        BY <2>2, <2>7, <2>9, AddPlaced
<1>5. CASE line.is = "query"
    <2>1. LoadLine(acc, line, at) =
            Add(acc, [k EXCEPT !.queries = Append(@, line.it)], {})
        BY <1>5 DEF LoadLine, LoadQuery
    <2>2. PlacedKb([k EXCEPT !.queries = Append(@, line.it)], A)
        <3> DEFINE queries == Append(k.queries, line.it)
                   l == [k EXCEPT !.queries = queries]
        <3> HIDE DEF queries
        <3>1. /\ IsKb(l) /\ l.rules = k.rules /\ l.types = k.types
              /\ l.decls = k.decls /\ l.shorthand = k.shorthand
            BY <1>1 DEF PlacedKb, IsKb
        <3> HIDE DEF l
        <3>2. PlacedKb(l, A)
            BY <1>1, <3>1 DEF PlacedKb
        <3> QED
            BY <3>2 DEF l, queries
    <2>3. ArePlacedErrors({}, A)
        BY DEF ArePlacedErrors
    <2> QED
        BY <2>1, <2>2, <2>3, AddPlaced
<1> QED
    BY <1>2, <1>3, <1>4, <1>5 DEF IsLine

LEMMA HasLeast ==
    ASSUME NEW T \in SUBSET Nat, T # {}
    PROVE  \E i \in T : \A j \in T : i <= j
<1>1. PICK i \in T : \A j \in T : <<j, i>> \notin OpToRel(<, Nat)
  BY NatLessThanWellFounded, WFMin
<1>2. \A j \in T : i <= j
  <2> SUFFICES ASSUME NEW j \in T PROVE i <= j
    OBVIOUS
  <2>1. <<j, i>> \notin OpToRel(<, Nat) /\ <<j, i>> \in Nat \X Nat
    BY <1>1
  <2>2. ~(j < i)
    BY <2>1 DEF OpToRel
  <2> QED  BY <2>2
<1> QED  BY <1>2

\* The recursive function of LoadLines exists: one of m lines gives one of
\* m + 1.
IsLinesLoaded(after, m, acc, lines, at) ==
    after = [n \in 0 .. m |-> IF n = 0 THEN acc ELSE LoadLine(after[n - 1], lines[n], at)]

LEMMA LinesAreLoaded ==
    ASSUME NEW acc, NEW lines, NEW at, NEW m \in Nat
    PROVE  \E after : IsLinesLoaded(after, m, acc, lines, at)
<1> DEFINE T == {n \in Nat : ~ \E after : IsLinesLoaded(after, n, acc, lines, at)}
<1> SUFFICES ASSUME T # {} PROVE FALSE
  OBVIOUS
<1>1. PICK n \in T : \A j \in T : n <= j
  BY HasLeast
<1>2. CASE n = 0
  <2>1. IsLinesLoaded([i \in 0 .. 0 |-> acc], 0, acc, lines, at)
    BY DEF IsLinesLoaded
  <2> QED  BY <1>2, <2>1
<1>3. CASE n # 0
  <2>1. n - 1 \in Nat /\ n - 1 \notin T
    BY <1>1, <1>3
  <2>2. PICK before : IsLinesLoaded(before, n - 1, acc, lines, at)
    BY <2>1
  <2> DEFINE after == [i \in 0 .. n |-> IF i = n THEN LoadLine(before[n - 1], lines[n], at)
                                        ELSE before[i]]
             expected == [i \in 0 .. n |->
                            IF i = 0 THEN acc ELSE LoadLine(after[i - 1], lines[i], at)]
  <2>3. ASSUME NEW i \in 0 .. n
        PROVE  after[i] = expected[i]
    <3>1. CASE i = 0
      <4>1. before[0] = acc
        BY <2>1, <2>2 DEF IsLinesLoaded
      <4> QED  BY <1>3, <3>1, <4>1
    <3>2. CASE i # 0 /\ i # n
      <4>1. i \in 0 .. n - 1 /\ i - 1 \in 0 .. n - 1 /\ i - 1 # n
        BY <3>2
      <4>2. before[i] = LoadLine(before[i - 1], lines[i], at)
        BY <2>2, <3>2, <4>1 DEF IsLinesLoaded
      <4>3. after[i - 1] = before[i - 1]
        BY <4>1
      <4> QED  BY <3>2, <4>2, <4>3
    <3>3. CASE i # 0 /\ i = n
      <4>1. after[i - 1] = before[i - 1]
        BY <3>3
      <4> QED  BY <3>3, <4>1
    <3> QED  BY <3>1, <3>2, <3>3
  <2>4. after = expected
    BY <2>3
  <2>5. IsLinesLoaded(after, n, acc, lines, at)
    BY <2>4 DEF IsLinesLoaded
  <2> QED  BY <2>5
<1> QED
  BY <1>2, <1>3

LEMMA LinesPlaced ==
    ASSUME NEW acc, NEW A, Placed(acc, A), NEW lines, NEW at \in A,
           Len(lines) \in Nat, DOMAIN lines = 1 .. Len(lines),
           \A i \in DOMAIN lines : IsLine(lines[i])
    PROVE  Placed(LoadLines(acc, lines, at), A)
<1> DEFINE after == CHOOSE f : IsLinesLoaded(f, Len(lines), acc, lines, at)
<1>1. LoadLines(acc, lines, at) = after[Len(lines)]
  BY DEF LoadLines, IsLinesLoaded
<1>2. IsLinesLoaded(after, Len(lines), acc, lines, at)
  BY LinesAreLoaded
<1> HIDE DEF after
<1> DEFINE T == {n \in 0 .. Len(lines) : ~Placed(after[n], A)}
<1>3. ASSUME T # {} PROVE FALSE
  <2>1. PICK n \in T : \A j \in T : n <= j
    <3>1. T \in SUBSET Nat
      OBVIOUS
    <3> HIDE DEF T
    <3> QED  BY <1>3, <3>1, HasLeast
  <2>2. CASE n = 0
    BY <1>2, <2>2 DEF IsLinesLoaded
  <2>3. CASE n # 0
    <3>1. n - 1 \in 0 .. Len(lines) /\ n - 1 \notin T /\ n \in DOMAIN lines
      BY <2>1, <2>3
    <3>2. after[n] = LoadLine(after[n - 1], lines[n], at)
      BY <1>2, <2>3 DEF IsLinesLoaded
    <3>3. Placed(after[n - 1], A)
      BY <3>1
    <3>4. IsLine(lines[n])
      BY <3>1
    <3>5. Placed(LoadLine(after[n - 1], lines[n], at), A)
      BY ONLY at \in A, <3>3, <3>4, LinePlaced
    <3> QED  BY <2>1, <3>2, <3>5
  <2> QED  BY <2>2, <2>3
<1> QED
  BY <1>1, <1>3

IsSourceAt(source, A) == source.src \in Contents /\ source.filename \in A

LEMMA SourcePlaced ==
    ASSUME NEW acc, NEW A, Placed(acc, A), NEW source, IsSourceAt(source, A)
    PROVE  Placed(LoadSource(acc, source), A)
<1> DEFINE remembered == Add(acc, Remember(source, acc.kb), {})
           lines == Text[source.src].lines
           error(kind) == {Diagnostic(kind, source.filename)}
           result == LoadSource(acc, source)
<1>1. PlacedKb(acc.kb, A) /\ PlacedKb(Remember(source, acc.kb), A)
    BY DEF Remember, Placed, PlacedKb, IsKb
<1>2. ArePlacedErrors({}, A) /\ \A kind : ArePlacedErrors(error(kind), A)
    BY DEF ArePlacedErrors, IsSourceAt, Diagnostic
<1>3. Placed(remembered, A)
    BY <1>1, <1>2, AddPlaced
<1>4. \/ result = Add(acc, acc.kb, error("FileLoading"))
      \/ result = Add(remembered, remembered.kb, error("Parse"))
      \/ result = LoadLines(remembered, lines, source.filename)
    BY DEF LoadSource
<1>5. /\ DOMAIN lines = 1 .. Len(lines) /\ Len(lines) \in Nat
      /\ \A i \in DOMAIN lines : IsLine(lines[i])
      /\ source.filename \in A
    BY TextAssumption DEF IsSourceAt
<1>6. PlacedKb(remembered.kb, A)
    BY <1>3 DEF Placed
<1> HIDE DEF remembered, lines, result, error
<1>7. Placed(LoadLines(remembered, lines, source.filename), A)
    BY <1>3, <1>5, LinesPlaced
<1>8. /\ Placed(Add(acc, acc.kb, error("FileLoading")), A)
      /\ Placed(Add(remembered, remembered.kb, error("Parse")), A)
    BY <1>1, <1>2, <1>3, <1>6, AddPlaced
<1>9. Placed(result, A)
    BY <1>4, <1>7, <1>8
<1> QED
    BY <1>9 DEF result

\* The recursive function of LoadSources exists in the same way.
IsSourcesLoaded(after, m, acc, sources) ==
    after = [n \in 0 .. m |-> IF n = 0 THEN acc ELSE LoadSource(after[n - 1], sources[n])]

LEMMA SourcesAreLoaded ==
    ASSUME NEW acc, NEW sources, NEW m \in Nat
    PROVE  \E after : IsSourcesLoaded(after, m, acc, sources)
<1> DEFINE T == {n \in Nat : ~ \E after : IsSourcesLoaded(after, n, acc, sources)}
<1> SUFFICES ASSUME T # {} PROVE FALSE
  OBVIOUS
<1>1. PICK n \in T : \A j \in T : n <= j
  BY HasLeast
<1>2. CASE n = 0
  <2>1. IsSourcesLoaded([i \in 0 .. 0 |-> acc], 0, acc, sources)
    BY DEF IsSourcesLoaded
  <2> QED  BY <1>2, <2>1
<1>3. CASE n # 0
  <2>1. n - 1 \in Nat /\ n - 1 \notin T
    BY <1>1, <1>3
  <2>2. PICK before : IsSourcesLoaded(before, n - 1, acc, sources)
    BY <2>1
  <2> DEFINE after == [i \in 0 .. n |-> IF i = n THEN LoadSource(before[n - 1], sources[n])
                                        ELSE before[i]]
             expected == [i \in 0 .. n |->
                            IF i = 0 THEN acc ELSE LoadSource(after[i - 1], sources[i])]
  <2>3. ASSUME NEW i \in 0 .. n
        PROVE  after[i] = expected[i]
    <3>1. CASE i = 0
      <4>1. before[0] = acc
        BY <2>1, <2>2 DEF IsSourcesLoaded
      <4> QED  BY <1>3, <3>1, <4>1
    <3>2. CASE i # 0 /\ i # n
      <4>1. i \in 0 .. n - 1 /\ i - 1 \in 0 .. n - 1 /\ i - 1 # n
        BY <3>2
      <4>2. before[i] = LoadSource(before[i - 1], sources[i])
        BY <2>2, <3>2, <4>1 DEF IsSourcesLoaded
      <4>3. after[i - 1] = before[i - 1]
        BY <4>1
      <4> QED  BY <3>2, <4>2, <4>3
    <3>3. CASE i # 0 /\ i = n
      <4>1. after[i - 1] = before[i - 1]
        BY <3>3
      <4> QED  BY <3>3, <4>1
    <3> QED  BY <3>1, <3>2, <3>3
  <2>4. after = expected
    BY <2>3
  <2>5. IsSourcesLoaded(after, n, acc, sources)
    BY <2>4 DEF IsSourcesLoaded
  <2> QED  BY <2>5
<1> QED
  BY <1>2, <1>3

LEMMA SourcesPlaced ==
    ASSUME NEW acc, NEW A, Placed(acc, A), NEW sources,
           Len(sources) \in Nat, DOMAIN sources = 1 .. Len(sources),
           \A i \in DOMAIN sources : IsSourceAt(sources[i], A)
    PROVE  Placed(LoadSources(acc, sources), A)
<1> DEFINE after == CHOOSE f : IsSourcesLoaded(f, Len(sources), acc, sources)
<1>1. LoadSources(acc, sources) = after[Len(sources)]
  BY DEF LoadSources, IsSourcesLoaded
<1>2. IsSourcesLoaded(after, Len(sources), acc, sources)
  BY SourcesAreLoaded
<1> HIDE DEF after
<1> DEFINE T == {n \in 0 .. Len(sources) : ~Placed(after[n], A)}
<1>3. ASSUME T # {} PROVE FALSE
  <2>1. PICK n \in T : \A j \in T : n <= j
    <3>1. T \in SUBSET Nat
      OBVIOUS
    <3> HIDE DEF T
    <3> QED  BY <1>3, <3>1, HasLeast
  <2>2. CASE n = 0
    BY <1>2, <2>2 DEF IsSourcesLoaded
  <2>3. CASE n # 0
    <3>1. n - 1 \in 0 .. Len(sources) /\ n - 1 \notin T /\ n \in DOMAIN sources
      BY <2>1, <2>3
    <3>2. after[n] = LoadSource(after[n - 1], sources[n])
      BY <1>2, <2>3 DEF IsSourcesLoaded
    <3>3. Placed(after[n - 1], A)
      BY <3>1
    <3>4. IsSourceAt(sources[n], A)
      BY <3>1
    <3>5. Placed(LoadSource(after[n - 1], sources[n]), A)
      BY ONLY <3>3, <3>4, SourcePlaced
    <3> QED  BY <2>1, <3>2, <3>5
  <2> QED  BY <2>2, <2>3
<1> QED
  BY <1>1, <1>3

LEMMA RewrittenPlaced ==
    ASSUME NEW acc, NEW A, Placed(acc, A)
    PROVE  Placed(WithBlocks(acc), A)
<1> DEFINE k == acc.kb
           rewritten == RewriteShorthandRules(k)
<1>1. PlacedKb(k, A)
    BY DEF Placed
<1>2. \A pair \in AllShorthand(k) : pair[2].at \in A
    BY <1>1 DEF AllShorthand, PlacedKb
<1>3. ASSUME NEW resource, NEW name, IsDeclared(name, resource, k)
      PROVE  Declaration(name, resource, k).at \in A
    <2>1. resource \in DOMAIN k.decls /\ name \in DOMAIN k.decls[resource]
        BY <1>3 DEF IsDeclared, DeclarationsOf
    <2> QED
        BY <1>1, <2>1 DEF PlacedKb, ArePlaced, Declaration
<1>4. PlacedKb(rewritten.kb, A)
    <2>1. \E good \in SUBSET AllShorthand(k) : rewritten.kb =
            [k EXCEPT !.rules = @ \cup {AsRule(pair[2], pair[1], k) : pair \in good}]
        BY DEF RewriteShorthandRules
    <2>2. PICK good \in SUBSET AllShorthand(k) : rewritten.kb =
            [k EXCEPT !.rules = @ \cup {AsRule(pair[2], pair[1], k) : pair \in good}]
        BY <2>1
    <2> DEFINE l == rewritten.kb
               rules == {AsRule(pair[2], pair[1], k) : pair \in good}
    <2>3. \A rule \in rules : rule.at \in A
        BY <1>2 DEF AsRule, Rule
    <2> HIDE DEF l, rules
    <2>4. /\ IsKb(l) /\ l.rules = k.rules \cup rules /\ l.types = k.types
          /\ l.decls = k.decls /\ l.shorthand = k.shorthand
        BY <1>1, <2>2 DEF PlacedKb, IsKb, l, rules
    <2>5. PlacedKb(l, A)
        BY <1>1, <2>3, <2>4 DEF PlacedKb
    <2> QED
        BY <2>5 DEF l
<1>5. ArePlacedErrors(rewritten.diagnostics, A)
    <2> DEFINE failing(pair) == ShorthandErrors(pair[2], pair[1], k)
               unregistered == {t \in RelationTuples(k) : t.subject \notin DOMAIN k.constants}
    <2>1. \A pair \in AllShorthand(k) : \A d \in failing(pair) : d.at \in A
        BY <1>2, <1>3 DEF ShorthandErrors, BlockError, Diagnostic, IsRelation
    <2>2. \A t \in RelationTuples(k) : IsDeclared(t.name, t.object, k)
        BY DEF RelationTuples, IsRelation
    <2>3. \A t \in unregistered : Declaration(t.name, t.object, k).at \in A
        BY <1>3, <2>2
    <2> DEFINE ofRules == UNION {failing(pair) : pair \in AllShorthand(k)}
               ofRelations == {Diagnostic("UnregisteredClass", Declaration(t.name, t.object, k).at) :
                                    t \in unregistered}
    <2>4. rewritten.diagnostics = ofRules \cup ofRelations
        BY DEF RewriteShorthandRules
    <2>5. \A d \in ofRules : d.at \in A
        BY <2>1
    <2>6. \A d \in ofRelations : d.at \in A
        BY <2>3 DEF Diagnostic
    <2> HIDE DEF ofRules, ofRelations
    <2> QED
        BY <2>4, <2>5, <2>6 DEF ArePlacedErrors
<1> QED
    BY <1>4, <1>5, AddPlaced DEF WithBlocks

LEMMA TypesPlaced ==
    ASSUME NEW k, NEW A, PlacedKb(k, A), NoSource \in A
    PROVE  PlacedKb(WithTypes(k), A)
<1> DEFINE types == ResourceSpecificTypes(k)
           l == WithTypes(k)
<1>1. \A type \in types : type.at \in A
    <2>1. ASSUME NEW t \in RelationTuples(k)
          PROVE  Declaration(t.name, t.object, k).first \in A
        <3>1. t.object \in DOMAIN k.decls /\ t.name \in DOMAIN k.decls[t.object]
            BY DEF RelationTuples, IsRelation
        <3> QED
            BY <3>1 DEF PlacedKb, ArePlaced, Declaration
    <2> QED
        BY <2>1 DEF ResourceSpecificTypes, Type
<1> HIDE DEF types
<1>2. l = [k EXCEPT !.types = @ \cup types]
    BY DEF WithTypes, types
<1> HIDE DEF l
<1>3. /\ IsKb(l) /\ l.rules = k.rules /\ l.types = k.types \cup types
      /\ l.decls = k.decls /\ l.shorthand = k.shorthand
    BY <1>2 DEF PlacedKb, IsKb
<1>4. PlacedKb(l, A)
    BY <1>1, <1>3 DEF PlacedKb
<1> QED
    BY <1>4 DEF l

LEMMA ValidatedPlaced ==
    ASSUME NEW acc, NEW A, Placed(acc, A), NoSource \in A, NEW result \in Validated(acc)
    PROVE  Placed(result, A)
<1> DEFINE k == acc.kb
<1>1. PlacedKb(k, A)
    BY DEF Placed
<1>2. ArePlacedErrors(RuleTypeErrors(k), A)
    BY <1>1 DEF ArePlacedErrors, RuleTypeErrors, SourceOf, Diagnostic, PlacedKb
<1>3. ArePlacedErrors(CallErrors(k), A)
    BY <1>1 DEF ArePlacedErrors, CallErrors, Diagnostic, PlacedKb
<1>4. ArePlacedErrors(PolicyWarnings(k), A)
    BY DEF ArePlacedErrors, PolicyWarnings, Diagnostic
<1>5. PICK first \in IF RuleTypeErrors(k) = {} THEN {{}} ELSE {{e} : e \in RuleTypeErrors(k)} :
            result = Add(acc, k, (CallErrors(k) \cup PolicyWarnings(k)) \cup first)
    BY DEF Validated
<1>6. ArePlacedErrors((CallErrors(k) \cup PolicyWarnings(k)) \cup first, A)
    BY <1>2, <1>3, <1>4, <1>5 DEF ArePlacedErrors
<1> QED
    BY <1>1, <1>5, <1>6, AddPlaced

\* Whatever a load reports is in one of its sources, or in none.
LEMMA LoadPlaced ==
    ASSUME NEW sources, NEW A, NoSource \in A,
           Len(sources) \in Nat, DOMAIN sources = 1 .. Len(sources),
           \A i \in DOMAIN sources : IsSourceAt(sources[i], A),
           NEW result \in DiagnosticLoad(EmptyKb, sources)
    PROVE  ArePlacedErrors(result.diagnostics, A)
<1> DEFINE start == [kb |-> EmptyKb, diagnostics |-> {}]
           added == LoadSources(start, sources)
           rewritten == WithBlocks(added)
           typed == [rewritten EXCEPT !.kb = WithTypes(@)]
<1>1. Placed(start, A)
    <2>1. \A type \in DefaultTypes : type.at = NoSource
        BY DEF DefaultTypes, Type
    <2>2. /\ IsKb(EmptyKb) /\ EmptyKb.rules = {} /\ EmptyKb.types = DefaultTypes
          /\ EmptyKb.decls = <<>> /\ EmptyKb.shorthand = <<>>
        BY DEF EmptyKb, IsKb
    <2>3. DOMAIN EmptyKb.decls = {} /\ DOMAIN EmptyKb.shorthand = {}
        BY <2>2
    <2>4. PlacedKb(EmptyKb, A)
        BY <2>1, <2>2, <2>3 DEF PlacedKb
    <2> QED
        BY <2>4 DEF Placed, ArePlacedErrors
<1>2. result = added \/ result = rewritten \/ result \in Validated(typed)
    BY DEF DiagnosticLoad, RewrittenUnless, ValidatedUnless
<1> HIDE DEF start
<1>3. Placed(added, A)
    BY <1>1, SourcesPlaced
<1> HIDE DEF added
<1>4. Placed(rewritten, A)
    BY <1>3, RewrittenPlaced
<1>5. typed.kb = WithTypes(rewritten.kb) /\ typed.diagnostics = rewritten.diagnostics
    BY DEF WithBlocks, Add
<1> HIDE DEF rewritten, typed
<1>6. Placed(typed, A)
    BY <1>4, <1>5, TypesPlaced DEF Placed
<1>7. Placed(result, A)
    BY <1>2, <1>3, <1>4, <1>6, ValidatedPlaced
<1> QED
    BY <1>7 DEF Placed

-----------------------------------------------------------------------------
(* The documents as sources.                                               *)

Documents == UNION {[uris -> Contents] : uris \in SUBSET Uris}

\* The n-th of the documents is one: the first index up to which there are n
\* of them is that of a document.
LEMMA NthTracked ==
    ASSUME NEW docs, NEW n \in 1 .. Cardinality(TrackedUpTo(Len(Files), docs))
    PROVE  \E i \in TrackedUpTo(Len(Files), docs) : Cardinality(TrackedUpTo(i, docs)) = n
<1> DEFINE upTo(i) == TrackedUpTo(i, docs)
           T == {i \in Nat : Cardinality(upTo(i)) >= n}
<1>1. Len(Files) \in Nat
    BY ServerAssumption, LenProperties
<1>2. \A i \in Nat : IsFiniteSet(upTo(i)) /\ Cardinality(upTo(i)) \in Nat
    <2> SUFFICES ASSUME NEW i \in Nat
                 PROVE  IsFiniteSet(upTo(i)) /\ Cardinality(upTo(i)) \in Nat
        OBVIOUS
    <2>1. IsFiniteSet(1 .. i)
        BY FS_Interval
    <2>2. upTo(i) \subseteq 1 .. i
        BY DEF TrackedUpTo
    <2>3. IsFiniteSet(upTo(i))
        BY <2>1, <2>2, FS_Subset
    <2> QED
        BY <2>3, FS_CardinalityType
<1>3. n \in Nat /\ n >= 1 /\ Len(Files) \in T
    BY <1>1, <1>2
<1>4. PICK m \in T : \A j \in T : m <= j
    BY <1>3, HasLeast
<1>5. m # 0
    <2>1. upTo(0) = {}
        BY DEF TrackedUpTo
    <2>2. Cardinality(upTo(0)) = 0
        BY <2>1, FS_EmptySet
    <2> QED
        BY <1>3, <1>4, <2>2
<1>6. m - 1 \in Nat /\ m - 1 \notin T
    BY <1>4, <1>5
<1>7. Cardinality(upTo(m - 1)) < n /\ Cardinality(upTo(m)) >= n
    BY <1>2, <1>3, <1>4, <1>6
<1>8. Files[m] \in DOMAIN docs
    <2> SUFFICES ASSUME Files[m] \notin DOMAIN docs PROVE FALSE
        OBVIOUS
    <2>1. upTo(m) = upTo(m - 1)
        BY <1>4, <1>5 DEF TrackedUpTo
    <2> QED
        BY <1>2, <1>3, <1>6, <1>7, <2>1
<1>9. upTo(m) = upTo(m - 1) \cup {m} /\ m \notin upTo(m - 1)
    BY <1>4, <1>5, <1>8 DEF TrackedUpTo
<1>10. Cardinality(upTo(m)) = Cardinality(upTo(m - 1)) + 1
    BY <1>2, <1>6, <1>9, FS_AddElement
<1>11. Cardinality(upTo(m)) = n
    BY <1>2, <1>3, <1>6, <1>7, <1>10
<1>12. m \in upTo(Len(Files))
    BY <1>1, <1>3, <1>4, <1>5, <1>8 DEF TrackedUpTo
<1> QED
    BY <1>11, <1>12

LEMMA SourcesAreDocuments ==
    ASSUME NEW docs \in Documents
    PROVE  /\ Len(Sources(docs)) \in Nat /\ DOMAIN Sources(docs) = 1 .. Len(Sources(docs))
           /\ \A i \in DOMAIN Sources(docs) :
                    IsSourceAt(Sources(docs)[i], DOMAIN docs \cup {NoSource})
<1> DEFINE all == TrackedUpTo(Len(Files), docs)
           last(n) == CHOOSE i \in all : Cardinality(TrackedUpTo(i, docs)) = n
           s == Sources(docs)
<1>1. Cardinality(all) \in Nat
    <2>1. Len(Files) \in Nat
        BY ServerAssumption, LenProperties
    <2>2. IsFiniteSet(1 .. Len(Files)) /\ all \subseteq 1 .. Len(Files)
        BY <2>1, FS_Interval DEF TrackedUpTo
    <2> QED
        BY <2>2, FS_Subset, FS_CardinalityType
<1>2. s = [n \in 1 .. Cardinality(all) |->
            [filename |-> Files[last(n)], src |-> docs[Files[last(n)]]]]
    BY DEF Sources
<1>3. \A n \in 1 .. Cardinality(all) : last(n) \in all
    BY NthTracked
<1>4. \A n \in 1 .. Cardinality(all) : Files[last(n)] \in DOMAIN docs
    BY <1>3 DEF TrackedUpTo
<1>5. \A u \in DOMAIN docs : docs[u] \in Contents
    BY DEF Documents
<1> HIDE DEF last, all, s
<1>6. Len(s) = Cardinality(all) /\ DOMAIN s = 1 .. Cardinality(all)
    BY <1>1, <1>2
<1>7. \A i \in DOMAIN s : IsSourceAt(s[i], DOMAIN docs \cup {NoSource})
    BY <1>2, <1>4, <1>5, <1>6 DEF IsSourceAt
<1> QED
    BY <1>1, <1>6, <1>7 DEF s

\* What the loading of documents reports is in one of them, or in none.
LEMMA ReportedPlaces ==
    ASSUME NEW docs \in Documents, NEW diagnostics \in LoadDocuments[docs],
           NEW d \in diagnostics
    PROVE  d.at \in DOMAIN docs \cup {NoSource}
<1>1. LoadDocuments[docs] =
        {result.diagnostics : result \in DiagnosticLoad(EmptyKb, Sources(docs))}
    BY DEF LoadDocuments, Documents
<1>2. PICK result \in DiagnosticLoad(EmptyKb, Sources(docs)) : diagnostics = result.diagnostics
    BY <1>1
<1>3. ArePlacedErrors(diagnostics, DOMAIN docs \cup {NoSource})
    BY <1>2, SourcesAreDocuments, LoadPlaced
<1> QED
    BY <1>3 DEF ArePlacedErrors

LEMMA UpdatedDocuments ==
    ASSUME NEW docs \in Documents, NEW u \in Uris, NEW content \in Contents
    PROVE  /\ With(docs, u, content) \in Documents
           /\ DOMAIN With(docs, u, content) = DOMAIN docs \cup {u}
<1> DEFINE more == DOMAIN docs \cup {u}
           l == With(docs, u, content)
<1>1. DOMAIN docs \subseteq Uris /\ \A w \in DOMAIN docs : docs[w] \in Contents
    BY DEF Documents
<1>2. l = [w \in more |-> IF w = u THEN content ELSE docs[w]]
    BY DEF With, At
<1>3. more \in SUBSET Uris
    BY <1>1
<1> HIDE DEF l
<1>4. l \in [more -> Contents]
    BY <1>1, <1>2
<1>5. l \in Documents
    BY <1>3, <1>4 DEF Documents
<1> QED
    BY <1>4, <1>5 DEF l

LEMMA RemainingDocuments ==
    ASSUME NEW docs \in Documents, NEW S
    PROVE  /\ Without(docs, S) \in Documents
           /\ DOMAIN Without(docs, S) = DOMAIN docs \ S
<1> DEFINE rest == DOMAIN docs \ S
           l == Without(docs, S)
<1>1. DOMAIN docs \subseteq Uris /\ \A w \in DOMAIN docs : docs[w] \in Contents
    BY DEF Documents
<1>2. l = [w \in rest |-> docs[w]]
    BY DEF Without
<1>3. rest \in SUBSET Uris
    BY <1>1
<1> HIDE DEF l
<1>4. l \in [rest -> Contents]
    BY <1>1, <1>2
<1>5. l \in Documents
    BY <1>3, <1>4 DEF Documents
<1> QED
    BY <1>4, <1>5 DEF l

-----------------------------------------------------------------------------
(* What is shown.                                                          *)

AreDocuments == disk \in Documents /\ buffers \in Documents /\ documents \in Documents

\* What was sent last of the documents there are is what a load of them
\* reports, as it is published, and nothing is shown of the others.
SentOf(docs, reported) ==
    /\ \A u \in Uris \ DOMAIN docs : reported[u] = {}
    /\ DOMAIN docs # {} => \E diagnostics \in LoadDocuments[docs] :
            \A u \in DOMAIN docs : reported[u] = Published(diagnostics, docs)[u]

\* The inductive invariant.
ShownInv == AreDocuments /\ SentOf(documents, shown)

\* A document is opened or changed: all are loaded and published again.
LEMMA UpsertShows ==
    ASSUME ShownInv, NEW u \in Uris, NEW content \in Contents, Upsert(u, content)
    PROVE  documents' \in Documents /\ SentOf(documents', shown')
<1>1. documents' = With(documents, u, content)
    BY DEF Upsert
<1>2. documents' \in Documents /\ DOMAIN documents' = DOMAIN documents \cup {u}
    BY <1>1, UpdatedDocuments DEF ShownInv, AreDocuments
<1>3. PICK published \in ReloadKb(documents') : Send(published, documents')
    BY DEF Upsert
<1>4. PICK diagnostics \in LoadDocuments[documents'] :
            published = Published(diagnostics, documents')
    BY <1>3 DEF ReloadKb
<1>5. DOMAIN published = DOMAIN documents'
    BY <1>4 DEF Published
<1>6. \A w \in Uris : shown'[w] = IF w \in DOMAIN published THEN published[w] ELSE shown[w]
    BY <1>3 DEF Send
<1>7. DOMAIN documents' \subseteq Uris
    BY <1>2 DEF Documents
<1>8. \A w \in DOMAIN documents' : shown'[w] = Published(diagnostics, documents')[w]
    BY <1>4, <1>5, <1>6, <1>7
<1>9. \A w \in Uris \ DOMAIN documents' : shown'[w] = {}
    BY <1>2, <1>5, <1>6 DEF ShownInv, SentOf
<1> QED
    BY <1>2, <1>8, <1>9 DEF SentOf

\* Documents are removed: they are published as empty, the others as loaded.
LEMMA ForgettingShows ==
    ASSUME ShownInv, NEW S \in SUBSET DOMAIN documents, ForgetDocuments(S)
    PROVE  documents' \in Documents /\ SentOf(documents', shown')
<1>1. documents' = Without(documents, S)
    BY DEF ForgetDocuments
<1>2. documents' \in Documents /\ DOMAIN documents' = DOMAIN documents \ S
    BY <1>1, RemainingDocuments DEF ShownInv, AreDocuments
<1>3. PICK published \in ReloadKb(documents') :
            Send(WithRemoved(S, published), documents')
    BY DEF ForgetDocuments
<1>4. PICK diagnostics \in LoadDocuments[documents'] :
            published = Published(diagnostics, documents')
    BY <1>3 DEF ReloadKb
<1>5. DOMAIN published = DOMAIN documents'
    BY <1>4 DEF Published
<1> DEFINE sent == WithRemoved(S, published)
<1>6. /\ DOMAIN sent = DOMAIN documents' \cup S
      /\ \A w \in DOMAIN documents' : sent[w] = published[w]
      /\ \A w \in S : sent[w] = {}
    BY <1>2, <1>5 DEF WithRemoved
<1> HIDE DEF sent
<1>7. \A w \in Uris : shown'[w] = IF w \in DOMAIN sent THEN sent[w] ELSE shown[w]
    BY <1>3 DEF Send, sent
<1>8. DOMAIN documents' \subseteq Uris
    BY <1>2 DEF Documents
<1>9. \A w \in DOMAIN documents' : shown'[w] = Published(diagnostics, documents')[w]
    BY <1>4, <1>6, <1>7, <1>8
<1>10. \A w \in Uris \ DOMAIN documents' : shown'[w] = {}
    <2>1. \A w \in Uris \ DOMAIN documents : shown[w] = {}
        BY DEF ShownInv, SentOf
    <2> QED
        BY <1>2, <1>6, <1>7, <2>1
<1> QED
    BY <1>2, <1>9, <1>10 DEF SentOf

LEMMA InitShownInv == Init => ShownInv
<1> SUFFICES ASSUME Init PROVE ShownInv
    OBVIOUS
<1>1. disk \in Documents
    BY DEF Init, Documents
<1>2. <<>> \in [{} -> Contents]
    OBVIOUS
<1>3. buffers \in Documents /\ documents \in Documents /\ DOMAIN documents = {}
    BY <1>2 DEF Init, Documents
<1>4. \A u \in Uris : shown[u] = {}
    BY DEF Init, NoDiagnostics
<1> QED
    BY <1>1, <1>3, <1>4 DEF ShownInv, AreDocuments, SentOf

LEMMA NextShownInv == ShownInv /\ [Next]_vars => ShownInv'
<1> SUFFICES ASSUME ShownInv, [Next]_vars PROVE ShownInv'
    OBVIOUS
<1> USE DEF ShownInv, AreDocuments
<1>0. \A docs \in Documents : \A u \in DOMAIN docs : docs[u] \in Contents
    BY DEF Documents
<1>1. ASSUME NEW u \in Uris, Open(u) PROVE ShownInv'
    <2>1. /\ u \in DOMAIN disk /\ Upsert(u, disk[u]) /\ disk' = disk
          /\ buffers' = With(buffers, u, disk[u])
        BY <1>1 DEF Open
    <2> QED
        BY <1>0, <2>1, UpsertShows, UpdatedDocuments
<1>2. ASSUME NEW u \in Uris, NEW c \in Contents, Edit(u, c) PROVE ShownInv'
    <2>1. Upsert(u, c) /\ disk' = disk /\ buffers' = With(buffers, u, c)
        BY <1>2 DEF Edit
    <2> QED
        BY <2>1, UpsertShows, UpdatedDocuments
<1>3. ASSUME NEW u \in Uris, Save(u) PROVE ShownInv'
    <2>1. /\ u \in DOMAIN buffers /\ disk' = With(disk, u, buffers[u])
          /\ UNCHANGED <<buffers, documents, shown>>
        BY <1>3 DEF Save
    <2> QED
        BY <1>0, <2>1, UpdatedDocuments
<1>4. ASSUME NEW u \in Uris, Close(u) PROVE ShownInv'
    <2>1. buffers' = Without(buffers, {u}) /\ UNCHANGED <<disk, documents, shown>>
        BY <1>4 DEF Close
    <2> QED
        BY <2>1, RemainingDocuments
<1>5. ASSUME NEW u \in Uris, NEW c \in Contents, Write(u, c) PROVE ShownInv'
    <2>1. disk' = With(disk, u, c) /\ UNCHANGED <<buffers, documents, shown>>
        BY <1>5 DEF Write
    <2> QED
        BY <2>1, UpdatedDocuments
<1>6. ASSUME NEW u \in Uris, SeeChange(u) PROVE ShownInv'
    <2>1. disk' = disk
        BY <1>6 DEF SeeChange
    <2>2. \/ UNCHANGED <<buffers, documents, shown>>
          \/ /\ u \in DOMAIN disk /\ Upsert(u, disk[u])
             /\ buffers' = With(buffers, u, disk[u])
        BY <1>6 DEF SeeChange
    <2>3. CASE UNCHANGED <<buffers, documents, shown>>
        BY <2>1, <2>3 DEF SentOf
    <2>4. CASE /\ u \in DOMAIN disk /\ Upsert(u, disk[u])
               /\ buffers' = With(buffers, u, disk[u])
        BY <1>0, <2>1, <2>4, UpsertShows, UpdatedDocuments
    <2> QED
        BY <2>2, <2>3, <2>4
<1>7. ASSUME NEW u \in Uris, Delete(u) PROVE ShownInv'
    <2>1. disk' = Without(disk, {u}) /\ UNCHANGED <<buffers, documents, shown>>
        BY <1>7 DEF Delete
    <2> QED
        BY <2>1, RemainingDocuments
<1>8. CASE SeeDeleted
    <2>1. UNCHANGED <<disk, buffers>> /\ ForgetDocuments(Watched(deleted, documents))
        BY <1>8 DEF SeeDeleted, DidChangeWatchedFiles
    <2>2. Watched(deleted, documents) \in SUBSET DOMAIN documents
        BY DEF Watched
    <2> QED
        BY <2>1, <2>2, ForgettingShows
<1>9. ASSUME NEW path, DeleteInEditor(path) PROVE ShownInv'
    <2> DEFINE gone == {u \in DOMAIN disk : IsPrefix(path, Path[u])}
    <2>1. /\ disk' = Without(disk, gone) /\ buffers' = Without(buffers, gone)
          /\ UNCHANGED <<documents, shown>>
        BY <1>9 DEF DeleteInEditor
    <2> QED
        BY <2>1, RemainingDocuments
<1>10. ASSUME NEW path, NotifyDeleted(path) PROVE ShownInv'
    <2> DEFINE there == {u \in DOMAIN documents : InDirectory(path, Path[u])}
    <2>1. UNCHANGED <<disk, buffers>>
        BY <1>10 DEF NotifyDeleted
    <2>2. UNCHANGED <<documents, shown>> \/ ForgetDocuments(there)
        BY <1>10 DEF NotifyDeleted, DidDeleteFiles
    <2>3. there \in SUBSET DOMAIN documents
        OBVIOUS
    <2> HIDE DEF there
    <2>4. documents' \in Documents /\ SentOf(documents', shown')
        BY <2>2, <2>3, ForgettingShows
    <2> QED
        BY <2>1, <2>4
<1>11. CASE UNCHANGED vars
    BY <1>11 DEF vars, editor
<1> QED
    BY <1>1, <1>2, <1>3, <1>4, <1>5, <1>6, <1>7, <1>8, <1>9, <1>10, <1>11 DEF Next

\* The editor shows what the documents that are tracked now give, loaded
\* together, each diagnostic in the document that it is about, or in all if it
\* is about none, and nothing of the documents that are gone (reload_kb,
\* send_diagnostics, on_did_delete_files, on_did_change_watched_files).
THEOREM PublishedIsCurrent == Spec => []ShownIsCurrent
<1>1. ShownInv => ShownIsCurrent
    <2> SUFFICES ASSUME ShownInv PROVE ShownIsCurrent
        OBVIOUS
    <2>1. documents \in Documents /\ SentOf(documents, shown)
        BY DEF ShownInv, AreDocuments
    <2>2. \A u \in Uris \ DOMAIN documents : shown[u] = {}
        BY <2>1 DEF SentOf
    <2>3. ASSUME documents # <<>>
          PROVE  \E diagnostics \in LoadDocuments[documents] :
            \A u \in DOMAIN documents :
                shown[u] = {d.kind : d \in {e \in diagnostics :
                                e.kind \notin Ignored /\ e.at \in {u, NoSource}}}
        <3>1. DOMAIN documents # {}
            BY <2>1, <2>3 DEF Documents
        <3>2. PICK diagnostics \in LoadDocuments[documents] :
                \A u \in DOMAIN documents : shown[u] = Published(diagnostics, documents)[u]
            BY <2>1, <3>1 DEF SentOf
        <3>3. NoSource \notin DOMAIN documents
            BY <2>1, ServerAssumption DEF Documents
        <3>4. ASSUME NEW u \in DOMAIN documents, NEW d \in diagnostics
              PROVE  u \in Places(d, documents) <=> d.at \in {u, NoSource}
            <4>1. d.at \in DOMAIN documents \cup {NoSource}
                BY <2>1, ReportedPlaces
            <4> QED
                BY <3>3, <4>1 DEF Places
        <3>5. ASSUME NEW u \in DOMAIN documents
              PROVE  shown[u] = {d.kind : d \in {e \in diagnostics :
                                    e.kind \notin Ignored /\ e.at \in {u, NoSource}}}
            <4>1. shown[u] = {d.kind : d \in {e \in diagnostics :
                                    e.kind \notin Ignored /\ u \in Places(e, documents)}}
                BY <3>2 DEF Published
            <4>2. {e \in diagnostics : e.kind \notin Ignored /\ u \in Places(e, documents)}
                    = {e \in diagnostics : e.kind \notin Ignored /\ e.at \in {u, NoSource}}
                BY <3>4
            <4> QED
                BY <4>1, <4>2
        <3> QED
            BY <3>5
    <2> QED
        BY <2>2, <2>3 DEF ShownIsCurrent
<1> QED
    BY InitShownInv, NextShownInv, <1>1, PTL DEF Spec
================================================================================
