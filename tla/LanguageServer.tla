----------------------------- MODULE LanguageServer -----------------------------
(***************************************************************************)
(* The language server (polar-language-server/src/lib.rs) and the editor   *)
(* that it serves (vscode/oso/client/src/index.ts): which policy files the *)
(* server believes there are, and which diagnostics the editor shows.      *)
(*                                                                         *)
(* The server handles one notification at a time, in the order in which    *)
(* they are sent, so that a notification and its handler are one step.     *)
(* What may come late is what the editor's file watchers see, that a file  *)
(* was created or changed (the client then opens it) or deleted, and that  *)
(* something was deleted inside the editor.  A file that is deleted there  *)
(* is notified by both, and either may come first; the watcher sees no     *)
(* deletion of the files in a directory that is deleted.                   *)
(*                                                                         *)
(* Abstractions.  Versions of documents and ranges are left out; a shown   *)
(* diagnostic is its kind.  No class is registered, for the server has no  *)
(* application.                                                            *)
(***************************************************************************)
EXTENDS PolicySources

CONSTANTS
    Files,          \* the names policy files may have, in the order of their URIs
    Path,           \* the segments of the path of a file
    Directories,    \* the paths of directories
    MaxChanges      \* bound: changes that the user and other programs make

Uris == ToSet(Files)

ASSUME ServerAssumption ==
    /\ Files \in Seq(STRING) /\ IsInjective(Files)
    /\ NoSource \notin Uris
    /\ Path \in [Uris -> Seq(STRING)] /\ Directories \subseteq Seq(STRING)
    \* No path of a file begins that of another: a file is no directory.
    /\ \A u, w \in Uris : IsPrefix(Path[u], Path[w]) => u = w
    /\ MaxChanges \in Nat

VARIABLES
    disk,           \* uri -> content, of the files there are
    buffers,        \* uri -> content, of the documents the editor has open
    unseen,         \* files whose creation or change the watcher has yet to see
    deleted,        \* files whose deletion the watcher has yet to notify
    trashed,        \* paths whose deletion the editor has yet to notify
    documents,      \* the server's: uri -> content, of the documents it tracks
    shown,          \* uri -> the kinds of the diagnostics the editor shows
    stats,          \* the counts of the last telemetry event
    changes,        \* history: how many changes there were
    astray          \* history: files that were edited or saved after they had
                    \* been deleted, or created before that was notified

editor == <<disk, buffers, unseen, deleted, trashed, changes, astray>>
vars == <<editor, documents, shown, stats>>

\* A function with the pairs of f, and one without some.
With(f, uri, content) == At(f, uri, content)
Without(f, uris) == [u \in DOMAIN f \ uris |-> f[u]]

(***************************************************************************)
(* Diagnostics                                                             *)
(***************************************************************************)

\* The documents among the first i files.
TrackedUpTo(i, docs) == {j \in 1 .. i : Files[j] \in DOMAIN docs}

\* documents_to_polar_sources: in the order of the map.
Sources(docs) ==
    [n \in 1 .. Cardinality(TrackedUpTo(Len(Files), docs)) |->
        LET last == CHOOSE i \in TrackedUpTo(Len(Files), docs) :
                        Cardinality(TrackedUpTo(i, docs)) = n
        IN  [filename |-> Files[last], src |-> docs[Files[last]]]]

\* Diagnostics that depend on the application, which the server does not have.
Ignored == {"UnregisteredClass", "SingletonVariable", "UnknownSpecializer"}

\* A mutant of Places: a diagnostic without a place is shown nowhere.
PlacesKnown(d, docs) == DOMAIN docs \cap {d.at}

\* A diagnostic without a source among the documents is shown in all of them.
Places(d, docs) == IF d.at \in DOMAIN docs THEN {d.at} ELSE DOMAIN docs

\* diagnostics_from_polar_diagnostic and get_diagnostics, with the empty ones
\* of all documents before them (reload_kb).
Published(diagnostics, docs) ==
    [u \in DOMAIN docs |->
        {d.kind : d \in {e \in diagnostics : e.kind \notin Ignored /\ u \in Places(e, docs)}}]

\* load_documents, of any documents that may be tracked: the rules are cleared,
\* and the documents loaded.  What it may report.
LoadDocuments ==
    [docs \in UNION {[uris -> Contents] : uris \in SUBSET Uris} |->
        {result.diagnostics : result \in DiagnosticLoad(EmptyKb, Sources(docs))}]

ReloadKb(docs) == {Published(diagnostics, docs) : diagnostics \in LoadDocuments[docs]}

NoDiagnostics(uris) == [u \in uris |-> {}]

(***************************************************************************)
(* Telemetry                                                               *)
(***************************************************************************)

\* The counts of the lines of a content; of one that does not parse, there are
\* no lines.
Counts ==
    [content \in Contents |->
        LET lines == IF Text[content].parses THEN Text[content].lines ELSE <<>>
            all(is) == {i \in DOMAIN lines : lines[i].is = is}
            blocks(keyword) == {i \in all("block") : lines[i].it.keyword = keyword}
            productions == UNION {{<<i, p>> : p \in DOMAIN lines[i].it.productions} :
                                  i \in all("block")}
            production(at) == lines[at[1]].it.productions[at[2]]
            shorthand == {at \in productions : production(at).is = "shorthand"}
        IN  [inline_queries |-> Cardinality(all("query")),
             rule_types |-> Cardinality(all("type")),
             longhand_rules |-> Cardinality(all("rule")),
             total_rules |-> Cardinality(all("rule")) + Cardinality(shorthand),
             resource_blocks |-> Cardinality(all("block")),
             actors |-> Cardinality(blocks("actor")),
             resources |-> Cardinality(blocks("resource")),
             declarations |-> Cardinality(productions \ shorthand),
             shorthand_rules |-> Cardinality(shorthand),
             cross_resource_shorthand_rules |->
                Cardinality({at \in shorthand : production(at).relation # NoRelation})]]

Counted == UNION {DOMAIN Counts[content] : content \in Contents}

\* send_telemetry: the documents that were published, those just removed among
\* them, and the counts of the documents that there are.
Stats(published, docs) ==
    [polar_files |-> Cardinality(DOMAIN published),
     counts |-> [field \in Counted |->
                    MapThenSumSet(LAMBDA u : Counts[docs[u]][field], DOMAIN docs)]]

\* send_diagnostics: what is published replaces what is shown.
Send(published, docs) ==
    /\ shown' = [u \in Uris |-> IF u \in DOMAIN published THEN published[u] ELSE shown[u]]
    /\ stats' = Stats(published, docs)

(***************************************************************************)
(* Handlers of the server                                                  *)
(***************************************************************************)

\* on_did_open_text_document and on_did_change_text_document.
Upsert(uri, content) ==
    /\ documents' = With(documents, uri, content)
    /\ \E published \in ReloadKb(documents') : Send(published, documents')

\* A mutant of WithRemoved: what was shown of the documents stays.
RemovedSilently(uris, published) == published

\* The documents that are gone are published as empty, the others as loaded.
WithRemoved(uris, published) ==
    [u \in DOMAIN published \cup uris |-> IF u \in DOMAIN published THEN published[u] ELSE {}]

ForgetDocuments(uris) ==
    /\ documents' = Without(documents, uris)
    /\ \E published \in ReloadKb(documents') : Send(WithRemoved(uris, published), documents')

\* A mutant of Watched: what the watcher sees of a file is left to the other
\* notification.
WatchedNot(uris, docs) == {}

\* The documents that go, of the files that the watcher saw deleted.
Watched(uris, docs) == uris \cap DOMAIN docs

\* on_did_change_watched_files: reloads even if no document was tracked.
DidChangeWatchedFiles(uris) == ForgetDocuments(Watched(uris, documents))

\* A mutant of InDirectory: any document that shares the first segment.
InTopDirectory(dir, path) == dir[1] = path[1]

\* remove_documents_in_dir: the segments of both paths, as far as both go.
InDirectory(dir, path) ==
    \A i \in DOMAIN dir \cap DOMAIN path : dir[i] = path[i]

\* on_did_delete_files: nothing is sent if no document was there.
DidDeleteFiles(path) ==
    LET there == {u \in DOMAIN documents : InDirectory(path, Path[u])}
    IN  IF there = {} THEN UNCHANGED <<documents, shown, stats>>
        ELSE ForgetDocuments(there)

(***************************************************************************)
(* The editor and its watchers                                             *)
(***************************************************************************)

\* The files of whose deletion a notification is yet to come.
Due == deleted \cup {u \in Uris : \E path \in trashed : IsPrefix(path, Path[u])}

Change == changes < MaxChanges /\ changes' = changes + 1

\* Is what the editor has of a document what is on the disk?
Clean(uri) == uri \in DOMAIN disk /\ buffers[uri] = disk[uri]

\* openDocument, at the start, or when the user opens a file.
Open(uri) ==
    /\ uri \in DOMAIN disk \ DOMAIN buffers
    /\ buffers' = With(buffers, uri, disk[uri])
    /\ Upsert(uri, disk[uri])
    /\ UNCHANGED <<disk, unseen, deleted, trashed, changes, astray>>

\* The user edits a document; it may be that of a file that is deleted.
Edit(uri, content) ==
    /\ Change
    /\ uri \in DOMAIN buffers \ unseen /\ content # buffers[uri]
    /\ buffers' = With(buffers, uri, content)
    /\ Upsert(uri, content)
    /\ astray' = IF uri \in DOMAIN disk THEN astray ELSE astray \cup {uri}
    /\ UNCHANGED <<disk, unseen, deleted, trashed>>

\* The server ignores that a document is saved, and that it is closed.
Save(uri) ==
    /\ uri \in DOMAIN buffers /\ ~Clean(uri)
    /\ disk' = With(disk, uri, buffers[uri])
    /\ astray' = IF uri \in DOMAIN disk THEN astray ELSE astray \cup {uri}
    /\ UNCHANGED <<buffers, unseen, deleted, trashed, changes, documents, shown, stats>>

\* A document with changes that are not saved is reverted first, if it can be.
Close(uri) ==
    /\ uri \in DOMAIN buffers
    /\ Clean(uri) \/ uri \notin DOMAIN disk
    /\ buffers' = Without(buffers, {uri})
    /\ UNCHANGED <<disk, unseen, deleted, trashed, changes, astray, documents, shown, stats>>

\* Another program creates or changes a file that is not being edited.
Write(uri, content) ==
    /\ Change
    /\ uri \in DOMAIN buffers => Clean(uri)
    /\ disk' = With(disk, uri, content)
    /\ unseen' = unseen \cup {uri}
    /\ astray' = IF uri \in Due THEN astray \cup {uri} ELSE astray
    /\ UNCHANGED <<buffers, deleted, trashed, documents, shown, stats>>

\* The watcher sees it: the client opens the file, or the editor has it open
\* and takes the new content.
SeeChange(uri) ==
    /\ uri \in unseen
    /\ unseen' = unseen \ {uri}
    /\ IF uri \in DOMAIN disk /\ ~(uri \in DOMAIN buffers /\ Clean(uri))
       THEN /\ buffers' = With(buffers, uri, disk[uri])
            /\ Upsert(uri, disk[uri])
       ELSE UNCHANGED <<buffers, documents, shown, stats>>
    /\ UNCHANGED <<disk, deleted, trashed, changes, astray>>

\* Another program deletes a file; the editor keeps its document open.
Delete(uri) ==
    /\ Change
    /\ uri \in DOMAIN disk
    /\ disk' = Without(disk, {uri})
    /\ deleted' = deleted \cup {uri}
    /\ UNCHANGED <<buffers, unseen, trashed, astray, documents, shown, stats>>

\* The watcher notifies the deletions that it has collected.
SeeDeleted ==
    /\ deleted # {}
    /\ deleted' = {}
    /\ DidChangeWatchedFiles(deleted)
    /\ UNCHANGED <<disk, buffers, unseen, trashed, changes, astray>>

\* The user deletes a file or a directory in the editor, which closes what it
\* has open of it; only a file is seen by the watcher too.
DeleteInEditor(path) ==
    LET gone == {u \in DOMAIN disk : IsPrefix(path, Path[u])}
    IN  /\ Change
        /\ gone # {}
        /\ disk' = Without(disk, gone)
        /\ buffers' = Without(buffers, gone)
        /\ deleted' = deleted \cup {u \in gone : Path[u] = path}
        /\ trashed' = trashed \cup {path}
        /\ UNCHANGED <<unseen, astray, documents, shown, stats>>

\* The editor notifies one of these deletions, before or after the watcher.
NotifyDeleted(path) ==
    /\ path \in trashed
    /\ trashed' = trashed \ {path}
    /\ DidDeleteFiles(path)
    /\ UNCHANGED <<disk, buffers, unseen, deleted, changes, astray>>

Init ==
    /\ disk \in UNION {[uris -> Contents] : uris \in SUBSET Uris}
    /\ buffers = <<>>
    /\ unseen = DOMAIN disk
    /\ deleted = {}
    /\ trashed = {}
    /\ documents = <<>>
    /\ shown = NoDiagnostics(Uris)
    /\ stats = Stats(<<>>, <<>>)
    /\ changes = 0
    /\ astray = {}

Next ==
    \/ \E uri \in Uris : Open(uri) \/ Save(uri) \/ Close(uri) \/ SeeChange(uri) \/ Delete(uri)
    \/ \E uri \in Uris, content \in Contents : Edit(uri, content) \/ Write(uri, content)
    \/ SeeDeleted
    \/ \E path \in Directories \cup {Path[u] : u \in Uris} :
            DeleteInEditor(path) \/ NotifyDeleted(path)

Spec == Init /\ [][Next]_vars

(***************************************************************************)
(* Properties                                                              *)
(***************************************************************************)

\* The editor shows what the documents that are tracked now give, all of them
\* loaded as one policy: in each document what is about it, or about none, and
\* nothing in a document that is no longer tracked, whichever notification
\* came last.
ShownIsCurrent ==
    /\ \A u \in Uris \ DOMAIN documents : shown[u] = {}
    /\ documents # <<>> => \E diagnostics \in LoadDocuments[documents] :
        \A u \in DOMAIN documents :
            shown[u] = {d.kind : d \in {e \in diagnostics :
                            e.kind \notin Ignored /\ e.at \in {u, NoSource}}}

\* "We care about all Polar files in a workspace folder regardless of which
\* ones remain open" (on_notification): once the watchers have seen all there
\* was, the server has every file as the editor or the disk has it.
Latest(uri) == IF uri \in DOMAIN buffers THEN buffers[uri] ELSE disk[uri]

HasAllFiles ==
    \A u \in DOMAIN disk \ (unseen \cup Due \cup astray) :
        u \in DOMAIN documents /\ documents[u] = Latest(u)

\* A file that was deleted, in the editor or elsewhere, is forgotten once all
\* that notifies it has come, in either order, if nothing else was done to it
\* in between.
DeletedIsForgotten ==
    DOMAIN documents \subseteq DOMAIN disk \cup DOMAIN buffers \cup Due \cup astray

\* The same of any file: see the notes on what the server ignores.
TracksWhatIs ==
    DOMAIN documents \subseteq DOMAIN disk \cup DOMAIN buffers \cup Due
================================================================================
