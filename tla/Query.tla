---------------------------------- MODULE Query ----------------------------------
(***************************************************************************)
(* A query and the application that runs it: polar-core/src/query.rs with  *)
(* its stack of runnables, the run loop of vm.rs, the Inverter (for ground *)
(* terms: it counts results) and the answers of a language library.        *)
(*                                                                         *)
(* The query runs to its next event; the application answers the event and *)
(* asks for the next one.  The events of `not` go to the runnable on top   *)
(* of the stack.                                                           *)
(***************************************************************************)
EXTENDS VirtualMachine

CONSTANTS
    Terms,         \* the terms of queries and of the bodies of rules
    Queries,       \* the terms that may be queried
    Policies,      \* the policies: their rules, by name
    Worlds,        \* what the application may know
    Timeouts,      \* what POLAR_TIMEOUT_MS may say, in goals; 0 disables it
    MaxDepth       \* bound: runnables on the stack

ASSUME QueryAssumption == Timeouts \subseteq Nat /\ MaxDepth \in Nat \ {0}

\* What the parser makes of a policy and of a query, and that the application
\* can be asked for what the terms name.
Rules == [fit : Fits, rank : Int, body : {t \in Terms : t.op = "And"}]

ASSUME TermsAssumption ==
    /\ \A t \in Terms :
            /\ t \in [op : Operators, name : STRING, val : STRING, args : Seq(Terms)]
            /\ t.op = "Not" => Len(t.args) = 1
    /\ Queries \subseteq Terms
    /\ \A policy \in Policies : \A p \in DOMAIN policy : policy[p] \in Seq(Rules)

ASSUME WorldsAssumption ==
    \A w \in Worlds : \A t \in Terms :
        /\ t.op = "Dot" => w.fields[t.name] \in STRING
        /\ t.op = "Isa" => w.tags[t.name] \in BOOLEAN
        /\ t.op = "In" => w.iterables[t.name] \in Seq(STRING)

VARIABLES
    query, rules, world,   \* the term, the knowledge base, the application
    timeout,       \* query_timeout_ms
    vms,           \* the query's machine, and those of the runnable stack
    event,         \* the event the application has to answer
    nextId,        \* the counter of call ids
    cursors,       \* the application's iterators, by call id
    clock,         \* the time, in goals
    emitted,       \* history: the answers given so far
    status         \* "running", "done", or the error that ended the query

vars == <<query, rules, world, timeout, vms, event, nextId, cursors, clock, emitted,
          status>>
constants == <<query, rules, world, timeout>>

TypeOK ==
    /\ \A i \in DOMAIN vms :
            /\ Len(vms[i].goals) <= StackLimit
            /\ Len(vms[i].choices) <= StackLimit
            /\ vms[i].calls \subseteq 1 .. nextId - 1
            /\ vms[i].fault = ""
            /\ \A j \in DOMAIN vms[i].choices :
                    vms[i].choices[j].bsp <= Len(vms[i].bindings)
    /\ DOMAIN cursors \subseteq 1 .. nextId - 1
    /\ clock \in Nat

Init ==
    /\ query \in Queries /\ rules \in Policies /\ world \in Worlds
    /\ timeout \in Timeouts
    /\ vms = <<Machine(<<QueryG(query)>>, <<>>, NoId)>>
    /\ event = NoEvent
    /\ nextId = 1 /\ cursors = <<>> /\ clock = 0
    /\ emitted = <<>> /\ status = "running"

(***************************************************************************)
(* The run loop                                                            *)
(***************************************************************************)

Top == Last(vms)
Below == Front(vms)
Running == status = "running" /\ event = NoEvent

\* The machines go on, unless the one that has just been at work has failed.
Proceed(below, m) ==
    IF m.fault = "" THEN vms' = Append(below, m) /\ UNCHANGED status
    ELSE status' = m.fault /\ UNCHANGED vms

\* The inverter's answer.  The results of ground terms constrain nothing.
Inverted(m) == IF m.results = 0 THEN "true" ELSE "false"

\* recv_event of Done: the answer of the runnable on top, for the machine
\* below it, or the end of the query.
Finish(m) ==
    IF Below = <<>>
    THEN vms' = <<m>> /\ status' = "done"
    ELSE Proceed(Front(Below), QuestionResult(Last(Below), m.id, Inverted(m)))

\* Run: the runnable, a machine with the bindings of this one, goes on top.
Start(m, e) ==
    IF m.fault = ""
    THEN /\ vms' = Below \o <<m, Machine(<<QueryG(e.term)>>, Top.bindings, e.id)>>
         /\ UNCHANGED status
    ELSE Proceed(Below, m)

\* recv_event.
Receive(m, e) ==
    /\ CASE e.kind = "Done" -> Finish(m)
         [] e.kind = "Run" -> Start(m, e)
         [] OTHER -> Proceed(Below, m)
    /\ event' = IF e.kind \in {"Done", "Run"} THEN NoEvent ELSE e
    /\ nextId' = IF nextId \in m.calls THEN nextId + 1 ELSE nextId

\* run: the machine on top pops a goal, and checks the time since it was
\* started.
RunGoal ==
    /\ Running /\ Top.goals # <<>>
    /\ Len(vms) <= MaxDepth
    /\ LET m == [Top EXCEPT !.goals = Front(@),
                            !.started = IF @ = Never THEN clock ELSE @]
       IN  IF timeout # 0 /\ clock - m.started > timeout
           THEN status' = "QueryTimeout" /\ UNCHANGED <<vms, event, nextId>>
           ELSE \E r \in {Perform(m, Last(Top.goals), rules, nextId)} :
                    Receive(r.vm, r.event)
    /\ clock' = IF timeout = 0 THEN 0 ELSE clock + 1
    /\ UNCHANGED <<cursors, emitted>> /\ UNCHANGED constants

\* The bindings of an answer, without the answer variables of questions.
Answer(m) ==
    LET visible == SelectSeq(m.bindings, LAMBDA e : e.val \notin {"true", "false"})
    IN  [i \in DOMAIN visible |-> visible[i].val]

\* No goal is left: a result, for the application or for the inverter.
Result ==
    /\ Running /\ Top.goals = <<>> /\ ~Top.yielded
    /\ IF Below = <<>>
       THEN /\ vms' = <<[Top EXCEPT !.yielded = TRUE, !.error = FALSE]>>
            /\ emitted' = Append(emitted, Answer(Top))
            /\ event' = [kind |-> "Result"]
       ELSE /\ vms' = Append(Below, [Top EXCEPT !.yielded = TRUE, !.results = @ + 1])
            /\ UNCHANGED <<emitted, event>>
    /\ UNCHANGED <<nextId, cursors, clock, status>> /\ UNCHANGED constants

\* run, called again after a result: the machine backtracks, or is done.
Resume ==
    /\ Running /\ Top.goals = <<>> /\ Top.yielded
    /\ IF Top.choices = <<>>
       THEN Finish(Top)
       ELSE Proceed(Below, Backtrack([Top EXCEPT !.yielded = FALSE]))
    /\ UNCHANGED <<event, nextId, cursors, clock, emitted>> /\ UNCHANGED constants

(***************************************************************************)
(* The application, as the language libraries drive a query                *)
(***************************************************************************)

\* An answer goes to the runnable on top, as its event came from there.
Answered(below, m) ==
    /\ Proceed(below, m)
    /\ event' = NoEvent
    /\ UNCHANGED <<nextId, clock, emitted>> /\ UNCHANGED constants

\* application_error: an error goes to the query's own machine.
Told == [vms EXCEPT ![1].error = TRUE]

\* A field: its value, which is a single one, or an error and no result.
AnswerCall ==
    /\ status = "running" /\ event.kind = "ExternalCall"
    /\ LET value == world.fields[event.name]
       IN  IF value = "error"
           THEN Answered(Front(Told), NoCallResult(Last(Told), event.id))
           ELSE Answered(Below, CallResult(Top, event.id, value))
    /\ UNCHANGED cursors

\* An iterator of the application's, one for each call id.
AnswerNext ==
    /\ status = "running" /\ event.kind = "NextExternal"
    /\ LET elements == world.iterables[event.name]
           at == IF event.id \in DOMAIN cursors THEN cursors[event.id] ELSE 0
       IN  /\ cursors' = [id \in DOMAIN cursors \cup {event.id} |->
                            IF id = event.id THEN at + 1 ELSE cursors[id]]
           /\ IF at < Len(elements)
              THEN Answered(Below, CallResult(Top, event.id, elements[at + 1]))
              ELSE Answered(Below, NoCallResult(Top, event.id))

AnswerIsa ==
    /\ status = "running" /\ event.kind = "ExternalIsa"
    /\ Answered(Below, QuestionResult(Top, event.id,
                    IF world.tags[event.name] THEN "true" ELSE "false"))
    /\ UNCHANGED cursors

\* The application asks for more results.
NextEvent ==
    /\ status = "running" /\ event.kind = "Result"
    /\ event' = NoEvent
    /\ UNCHANGED <<vms, nextId, cursors, clock, emitted, status>>
    /\ UNCHANGED constants

Next ==
    \/ RunGoal
    \/ Result
    \/ Resume
    \/ AnswerCall
    \/ AnswerNext
    \/ AnswerIsa
    \/ NextEvent

\* One thread runs the query and answers its events: as long as anything can
\* be done, something is.
Spec == Init /\ [][Next]_vars /\ WF_vars(Next)

(***************************************************************************)
(* Properties                                                              *)
(***************************************************************************)

Ended == status # "running"

\* Every query comes to an end: it is done, or it fails, if only because a
\* rule without a base case overflows the goal stack.
Terminates == <>Ended

\* What the code takes for granted with an expect, an index or an invalid
\* state holds: the call ids of answers are known, a call without a result
\* has left its choice, cut is queried within a body, sorting keeps its place.
NeverPanics == status \notin {"Panic", "InvalidState"}

\* Each query term is popped off the query stack when it has been proved,
\* whichever way backtracking and cut have led to the answer: a machine that
\* has come to a result has none left, which is what cut relies on.
QueriesBalanced ==
    \A i \in DOMAIN vms : vms[i].yielded => vms[i].queries = <<>>

\* "Rules may also be recursive [...] define a base case, or queries may loop
\* until they time out" (guides/policies): no query runs for longer than the
\* timeout.
TimesOut == clock <= timeout + 1
================================================================================
