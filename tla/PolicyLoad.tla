------------------------------- MODULE PolicyLoad -------------------------------
(***************************************************************************)
(* Loading a policy: Polar::load, diagnostic_load and clear_rules of       *)
(* polar-core/src/polar.rs, the parts of the knowledge base they change    *)
(* (polar-core/src/kb.rs), and the inline queries that a language library  *)
(* runs at the end of a load.                                              *)
(*                                                                         *)
(* One Polar instance is shared by the threads of an application.  A load  *)
(* takes the lock of the knowledge base three times: to see whether there  *)
(* are rules, to add and validate the sources, and, after an error, to     *)
(* clear everything.  Between those any other thread may come in.          *)
(*                                                                         *)
(* Abstractions.  A rule has a name, the shape of its parameters and the   *)
(* names it calls; a rule type has a name and a shape.  A resource block   *)
(* is the set of the rule types that it makes required.  An inline query   *)
(* is the name of a rule, and succeeds when there is such a rule.          *)
(***************************************************************************)
EXTENDS Integers, Sequences, FiniteSets, SequencesExt

CONSTANTS
    Threads,
    NoThread,      \* not a thread: the lock is free
    Files,         \* names of files
    NoFile,        \* not a file: a string is loaded (filename: None)
    Contents,      \* the texts a source may have
    Loads,         \* the sequences of sources that may be loaded
    MaxLoads       \* bound: calls of load

\* parses: the text is a policy.  The rest is what it says.
Rule == [name : STRING, shape : STRING, calls : SUBSET STRING]
RuleType == [name : STRING, shape : STRING, required : BOOLEAN]
Content ==
    [parses : BOOLEAN, rules : SUBSET Rule, types : SUBSET RuleType,
     block : SUBSET RuleType, queries : Seq(STRING)]
Source == [filename : Files \cup {NoFile}, src : Contents]

ASSUME LoadAssumption ==
    /\ NoThread \notin Threads
    /\ NoFile \notin Files
    /\ Contents \subseteq Content
    /\ Loads \subseteq Seq(Source)
    /\ MaxLoads \in Nat

VARIABLES
    rules, types, blocks,      \* rules, rule_types, resource_blocks, each entry
                               \* with (history) the load it comes from
    loadedContent, loadedFiles,    \* what files have been loaded
    inlineQueries,             \* the inline queries not yet run
    lock,                      \* the writer that holds the knowledge base
    pc,                        \* where each thread is
    sources,                   \* the sources a thread has yet to add
    errors,                    \* what its load has found so far
    load,                      \* history: the number of a thread's load
    outcome,                   \* history: how each load has ended
    unanswered                 \* history: the inline queries that failed

kb == <<rules, types, blocks, loadedContent, loadedFiles, inlineQueries>>
vars == <<kb, lock, pc, sources, errors, load, outcome, unanswered>>

Places == {"idle", "checked", "adding", "clearing", "inline"}
Outcomes ==
    {"pending", "loaded", "ok", "refused", "failed", "unanswered", "cleared"}

Loaded(S) == [it : S, load : 1 .. MaxLoads]

TypeOK ==
    /\ rules \subseteq Loaded(Rule)
    /\ types \subseteq Loaded(RuleType)
    /\ blocks \subseteq Loaded(RuleType)
    /\ loadedFiles \subseteq Files
    /\ DOMAIN loadedContent \subseteq Contents
    /\ inlineQueries \in Seq([it : STRING, load : 1 .. MaxLoads])
    /\ lock \in Threads \cup {NoThread}
    /\ pc \in [Threads -> Places]
    /\ sources \in [Threads -> Seq(Source)]
    /\ errors \in [Threads -> SUBSET {"unrecoverable", "invalid"}]
    /\ load \in [Threads -> 0 .. MaxLoads]
    /\ outcome \in Seq(Outcomes) /\ Len(outcome) <= MaxLoads
    /\ unanswered \subseteq [it : STRING, load : 1 .. MaxLoads]
    /\ \A t \in Threads :
            /\ lock = t <=> pc[t] = "adding"
            /\ pc[t] # "idle" => load[t] \in DOMAIN outcome

Init ==
    /\ rules = {} /\ types = {} /\ blocks = {}
    /\ loadedContent = <<>> /\ loadedFiles = {}
    /\ inlineQueries = <<>>
    /\ lock = NoThread
    /\ pc = [t \in Threads |-> "idle"]
    /\ sources = [t \in Threads |-> <<>>]
    /\ errors = [t \in Threads |-> {}]
    /\ load = [t \in Threads |-> 0]
    /\ outcome = <<>>
    /\ unanswered = {}

Goto(t, place) == pc' = [pc EXCEPT ![t] = place]
Ends(t, how) == outcome' = [outcome EXCEPT ![load[t]] = how]

\* The names of what is loaded, whichever load it comes from.
Its(S) == {e.it : e \in S}
Names(S) == {e.it.name : e \in S}

(***************************************************************************)
(* load                                                                    *)
(***************************************************************************)

\* load refuses to add to rules that are there already; it looks under a
\* lock that it gives back.
Check(t) ==
    /\ pc[t] = "idle" /\ lock = NoThread
    /\ Len(outcome) < MaxLoads
    /\ load' = [load EXCEPT ![t] = Len(outcome) + 1]
    /\ IF rules # {}
       THEN /\ outcome' = Append(outcome, "refused")
            /\ UNCHANGED <<pc, sources>>
       ELSE /\ outcome' = Append(outcome, "pending")
            /\ Goto(t, "checked")
            /\ \E s \in Loads : sources' = [sources EXCEPT ![t] = s]
    /\ UNCHANGED <<kb, lock, errors, unanswered>>

\* A mutant of Lock: it does not wait for another writer.
LockShared(t) ==
    /\ pc[t] = "checked"
    /\ lock' = t
    /\ Goto(t, "adding")
    /\ errors' = [errors EXCEPT ![t] = {}]
    /\ UNCHANGED <<kb, sources, load, outcome, unanswered>>

\* diagnostic_load takes the lock and keeps it until it has been through all
\* of the sources.
Lock(t) ==
    /\ pc[t] = "checked" /\ lock = NoThread
    /\ lock' = t
    /\ Goto(t, "adding")
    /\ errors' = [errors EXCEPT ![t] = {}]
    /\ UNCHANGED <<kb, sources, load, outcome, unanswered>>

\* A mutant of FileIsNew: only the name of the file is looked up.
FileNameIsNew(source) ==
    source.filename # NoFile => source.filename \notin loadedFiles

\* check_file: neither a file of this name nor one of this content.
FileIsNew(source) ==
    source.filename # NoFile =>
        /\ source.filename \notin loadedFiles
        /\ source.src \notin DOMAIN loadedContent

\* add_source: a file is remembered, whether its text parses or not.
Remember(source) ==
    IF source.filename = NoFile THEN UNCHANGED <<loadedContent, loadedFiles>> ELSE
    /\ loadedFiles' = loadedFiles \cup {source.filename}
    /\ loadedContent' = [c \in DOMAIN loadedContent \cup {source.src} |->
            IF c = source.src THEN source.filename ELSE loadedContent[c]]

\* load_source: a text that parses is added line by line.
AddLines(t, c) ==
    LET entries(S) == [it : S, load : {load[t]}] IN
    IF ~c.parses THEN UNCHANGED <<rules, types, blocks, inlineQueries>> ELSE
    /\ rules' = rules \cup entries(c.rules)
    /\ types' = types \cup entries(c.types)
    /\ blocks' = blocks \cup entries(c.block)
    /\ inlineQueries' = inlineQueries \o
            [i \in DOMAIN c.queries |-> [it |-> c.queries[i], load |-> load[t]]]

Failed(t, error) == errors' = [errors EXCEPT ![t] = @ \cup {error}]

\* The next source; an error does not keep the others from being added.
AddSource(t) ==
    /\ pc[t] = "adding" /\ sources[t] # <<>>
    /\ sources' = [sources EXCEPT ![t] = Tail(@)]
    /\ LET source == Head(sources[t])
       IN  IF FileIsNew(source)
           THEN /\ Remember(source)
                /\ AddLines(t, source.src)
                /\ IF source.src.parses THEN UNCHANGED errors
                   ELSE Failed(t, "unrecoverable")
           ELSE /\ Failed(t, "unrecoverable")
                /\ UNCHANGED kb
    /\ UNCHANGED <<lock, pc, load, outcome, unanswered>>

\* validate_rules: each rule has one of the types of its name, if there are
\* any, a type that is required has a rule, and rules that are called exist.
Valid(rs, ts) ==
    /\ \A r \in rs :
            LET ofName == {ty \in ts : ty.name = r.name}
            IN  ofName = {} \/ \E ty \in ofName : ty.shape = r.shape
    /\ \A ty \in ts : ty.required =>
            \E r \in rs : r.name = ty.name /\ r.shape = ty.shape
    /\ \A r \in rs : r.calls \subseteq {s.name : s \in rs}

\* A mutant of Finds: only what this load has added is validated.
FindsOwn(t, allTypes) ==
    IF errors[t] # {} THEN {}
    ELSE IF Valid(Its({r \in rules : r.load = load[t]}),
                  Its({ty \in allTypes : ty.load = load[t]}))
         THEN {} ELSE {"invalid"}

\* The whole policy is validated, unless an error was found to be unrecoverable.
Finds(t, allTypes) ==
    IF errors[t] # {} THEN {}
    ELSE IF Valid(Its(rules), Its(allTypes)) THEN {} ELSE {"invalid"}

\* The end of diagnostic_load: the types of resource blocks are made, the
\* rules are validated, and the lock is given back.
Validate(t) ==
    /\ pc[t] = "adding" /\ sources[t] = <<>>
    /\ types' = IF errors[t] # {} THEN types ELSE types \cup blocks
    /\ errors' = [errors EXCEPT ![t] = @ \cup Finds(t, types')]
    /\ lock' = NoThread
    /\ IF errors'[t] = {} THEN Goto(t, "inline") /\ Ends(t, "loaded")
       ELSE Goto(t, "clearing") /\ UNCHANGED outcome
    /\ UNCHANGED <<rules, blocks, loadedContent, loadedFiles, inlineQueries>>
    /\ UNCHANGED <<sources, load, unanswered>>

\* A mutant of Forget: the types of the rules stay.
ForgetRules ==
    /\ rules' = {} /\ blocks' = {}
    /\ loadedContent' = <<>> /\ loadedFiles' = {}
    /\ inlineQueries' = <<>>
    /\ UNCHANGED types

\* clear_rules of the knowledge base.
Forget ==
    /\ rules' = {} /\ types' = {} /\ blocks' = {}
    /\ loadedContent' = <<>> /\ loadedFiles' = {}
    /\ inlineQueries' = <<>>

\* After an error everything is cleared, under a lock taken anew.
Clear(t) ==
    /\ pc[t] = "clearing" /\ lock = NoThread
    /\ Forget
    /\ Goto(t, "idle")
    /\ Ends(t, "failed")
    /\ UNCHANGED <<lock, sources, errors, load, unanswered>>

(***************************************************************************)
(* What else the language library calls                                    *)
(***************************************************************************)

\* next_inline_query, and the query: the last one that was loaded is run.
\* One without an answer ends the load with an error, and the others stay.
InlineQuery(t) ==
    /\ pc[t] = "inline" /\ lock = NoThread
    /\ inlineQueries # <<>>
    /\ inlineQueries' = Front(inlineQueries)
    /\ LET query == Last(inlineQueries)
       IN  IF query.it \in Names(rules) THEN UNCHANGED <<pc, outcome, unanswered>>
           ELSE /\ Goto(t, "idle")
                /\ Ends(t, "unanswered")
                /\ unanswered' = unanswered \cup {query}
    /\ UNCHANGED <<rules, types, blocks, loadedContent, loadedFiles>>
    /\ UNCHANGED <<lock, sources, errors, load>>

\* No inline query is left: the load is done.
Return(t) ==
    /\ pc[t] = "inline" /\ lock = NoThread
    /\ inlineQueries = <<>>
    /\ Goto(t, "idle")
    /\ Ends(t, IF outcome[load[t]] = "loaded" THEN "ok" ELSE outcome[load[t]])
    /\ UNCHANGED <<kb, lock, sources, errors, load, unanswered>>

\* Polar::clear_rules.
ClearRules(t) ==
    /\ pc[t] = "idle" /\ lock = NoThread
    /\ Forget
    /\ outcome' = [i \in DOMAIN outcome |->
                        IF outcome[i] \in {"loaded", "ok"} THEN "cleared"
                        ELSE outcome[i]]
    /\ UNCHANGED <<lock, pc, sources, errors, load, unanswered>>

Next ==
    \E t \in Threads :
        \/ Check(t)
        \/ Lock(t)
        \/ AddSource(t)
        \/ Validate(t)
        \/ Clear(t)
        \/ InlineQuery(t)
        \/ Return(t)
        \/ ClearRules(t)

Spec == Init /\ [][Next]_vars

(***************************************************************************)
(* Properties                                                              *)
(***************************************************************************)

\* What is known of files is one relation, whichever loads, failures and
\* clears have made it: no file is there with two contents, and no content
\* under two names (add_source and check_file).
FilesOnce ==
    /\ {loadedContent[c] : c \in DOMAIN loadedContent} = loadedFiles
    /\ \A c, d \in DOMAIN loadedContent :
            loadedContent[c] = loadedContent[d] => c = d

\* A load that has returned an error leaves nothing behind, even if others
\* were under way: neither a rule nor a type of its sources ("If we've
\* encountered any errors, clear the KB", Polar::load).
FailedLeavesNothing ==
    \A e \in rules \cup types \cup blocks : outcome[e.load] # "failed"

\* Between loads the policy as a whole is valid, whatever loads it is made of:
\* a query finds no invalid rule once no load has to clean up after itself.
PolicyValid ==
    (\A t \in Threads : pc[t] \notin {"adding", "clearing"}) =>
        Valid(Its(rules), Its(types))

\* "Calling load_file, load_files or load_str more than once is now an error"
\* (changelog 2021-09-15), and "Loading twice is not [fine]" (a test of
\* polar.rs): at most one load succeeds until the rules are cleared.
SecondLoadFails ==
    Cardinality({i \in DOMAIN outcome : outcome[i] \in {"loaded", "ok"}}) <= 1

\* "Load a Polar string, checking that all inline queries succeed" (load_str
\* of the Python library): a load with a query that no rule answers does not
\* succeed.
InlineQueriesChecked ==
    \A e \in unanswered : outcome[e.load] # "ok"
================================================================================
