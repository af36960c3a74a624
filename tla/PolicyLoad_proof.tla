---------------------------- MODULE PolicyLoad_proof ----------------------------
(***************************************************************************)
(* Theorems about PolicyLoad, for any number of threads and of loads, any  *)
(* files and any texts.                                                    *)
(*                                                                         *)
(* A load that fails may only be forgotten as a whole because no two       *)
(* threads are ever in the same load, and because a load that still has to *)
(* add its sources, or to clear, has not been given an outcome.            *)
(***************************************************************************)
EXTENDS PolicyLoad, SequenceTheorems, TLAPS

\* What a thread is in the middle of has no outcome yet, and is its own.
UnderWay(t) == pc[t] \in {"checked", "adding", "clearing"}

LoadsApart ==
    \A t, u \in Threads :
        /\ UnderWay(t) => outcome[load[t]] = "pending"
        /\ (pc[t] # "idle" /\ pc[u] # "idle" /\ load[t] = load[u]) => t = u

\* What is loaded comes from a load that is known.
Known == \A e \in rules \cup types \cup blocks : e.load \in DOMAIN outcome

IInv == TypeOK /\ LoadsApart /\ Known /\ FailedLeavesNothing

-----------------------------------------------------------------------------
(* Types                                                                   *)

LEMMA InitTypeOK == Init => TypeOK
BY LoadAssumption DEF Init, TypeOK, LoadAssumption, Places, Outcomes

\* What a text says, as entries of a load.
LEMMA ContentEntries ==
    ASSUME NEW c \in Contents, NEW n \in 1 .. MaxLoads
    PROVE  /\ [it : c.rules, load : {n}] \subseteq Loaded(Rule)
           /\ [it : c.types, load : {n}] \subseteq Loaded(RuleType)
           /\ [it : c.block, load : {n}] \subseteq Loaded(RuleType)
           /\ [i \in DOMAIN c.queries |-> [it |-> c.queries[i], load |-> n]]
                \in Seq([it : STRING, load : 1 .. MaxLoads])
<1>1. c \in Content
    BY LoadAssumption DEF LoadAssumption
<1>2. /\ c.rules \subseteq Rule
      /\ c.types \subseteq RuleType
      /\ c.block \subseteq RuleType
      /\ c.queries \in Seq(STRING)
    BY <1>1 DEF Content
<1> DEFINE q == [i \in DOMAIN c.queries |-> [it |-> c.queries[i], load |-> n]]
           Q == [it : STRING, load : 1 .. MaxLoads]
<1>3. Len(c.queries) \in Nat /\ DOMAIN c.queries = 1 .. Len(c.queries)
    BY <1>2, LenProperties
<1>4. \A i \in DOMAIN c.queries : c.queries[i] \in STRING
    BY <1>2, ElementOfSeq, <1>3
<1>5. q \in [1 .. Len(c.queries) -> Q]
    BY <1>3, <1>4
<1>6. q \in Seq(Q)
    BY <1>3, <1>5, IsASeq
<1> QED
    BY <1>2, <1>6 DEF Loaded

LEMMA NumbersOfLoads ==
    ASSUME TypeOK, NEW t \in Threads, pc[t] # "idle"
    PROVE  /\ load[t] \in 1 .. MaxLoads
           /\ load[t] \in DOMAIN outcome
           /\ DOMAIN outcome = 1 .. Len(outcome)
           /\ outcome \in Seq(Outcomes)
BY LoadAssumption DEF TypeOK, LoadAssumption

LEMMA EndsType ==
    ASSUME TypeOK, NEW t \in Threads, pc[t] # "idle", NEW how \in Outcomes, Ends(t, how)
    PROVE  /\ outcome' \in Seq(Outcomes)
           /\ Len(outcome') = Len(outcome)
           /\ DOMAIN outcome' = DOMAIN outcome
BY NumbersOfLoads DEF Ends

LEMMA NextTypeOK == TypeOK /\ [Next]_vars => TypeOK'
<1> SUFFICES ASSUME TypeOK, [Next]_vars PROVE TypeOK'
    OBVIOUS
<1> USE LoadAssumption DEF LoadAssumption
<1>1. ASSUME NEW t \in Threads, Check(t) PROVE TypeOK'
    <2>1. /\ Len(outcome) \in Nat
          /\ Len(outcome) + 1 \in 1 .. MaxLoads
          /\ DOMAIN outcome = 1 .. Len(outcome)
        BY <1>1 DEF Check, TypeOK
    <2>2. /\ outcome' \in Seq(Outcomes)
          /\ Len(outcome') = Len(outcome) + 1
          /\ DOMAIN outcome' = 1 .. Len(outcome) + 1
        <3>1. outcome' = Append(outcome, "refused") \/ outcome' = Append(outcome, "pending")
            BY <1>1 DEF Check
        <3>2. outcome \in Seq(Outcomes) /\ {"refused", "pending"} \subseteq Outcomes
            BY DEF TypeOK, Outcomes
        <3> QED
            BY <2>1, <3>1, <3>2
    <2>3. load' \in [Threads -> 0 .. MaxLoads]
        BY <1>1, <2>1 DEF Check, TypeOK
    <2>4. /\ pc' \in [Threads -> Places]
          /\ sources' \in [Threads -> Seq(Source)]
        BY <1>1 DEF Check, TypeOK, Goto, Places
    <2>5. ASSUME NEW u \in Threads
          PROVE  /\ lock' = u <=> pc'[u] = "adding"
                 /\ pc'[u] # "idle" => load'[u] \in DOMAIN outcome'
        <3>1. CASE u = t
            BY <1>1, <2>1, <2>2, <3>1 DEF Check, TypeOK, Goto
        <3>2. CASE u # t
            BY <1>1, <2>1, <2>2, <3>2 DEF Check, TypeOK, Goto
        <3> QED
            BY <3>1, <3>2
    <2> QED
        BY <1>1, <2>1, <2>2, <2>3, <2>4, <2>5 DEF Check, TypeOK, kb
<1>2. ASSUME NEW t \in Threads, Lock(t) PROVE TypeOK'
    BY <1>2 DEF Lock, TypeOK, Goto, Places, kb
<1>3. ASSUME NEW t \in Threads, AddSource(t) PROVE TypeOK'
    <2> DEFINE source == Head(sources[t])
    <2>1. sources[t] \in Seq(Source) /\ sources[t] # <<>>
        BY <1>3 DEF AddSource, TypeOK
    <2>2. source \in Source /\ Tail(sources[t]) \in Seq(Source)
        BY <2>1
    <2>3. source.src \in Contents /\ source.filename \in Files \cup {NoFile}
        BY <2>2 DEF Source
    <2>4. load[t] \in 1 .. MaxLoads
        BY <1>3, NumbersOfLoads DEF AddSource
    <2>5. /\ sources' \in [Threads -> Seq(Source)]
          /\ errors' \in [Threads -> SUBSET {"unrecoverable", "invalid"}]
        <3>1. sources' \in [Threads -> Seq(Source)]
            BY <1>3, <2>2 DEF AddSource, TypeOK
        <3>2. errors' = errors \/ Failed(t, "unrecoverable")
            BY <1>3 DEF AddSource
        <3> QED
            BY <3>1, <3>2 DEF TypeOK, Failed
    <2>6. loadedFiles' \subseteq Files /\ DOMAIN loadedContent' \subseteq Contents
        <3>1. CASE UNCHANGED <<loadedContent, loadedFiles>>
            BY <3>1 DEF TypeOK
        <3>2. CASE Remember(source) /\ source.filename # NoFile
            BY <2>3, <3>2 DEF Remember, TypeOK
        <3> QED
            BY <1>3, <3>1, <3>2 DEF AddSource, Remember, kb
    <2>7. /\ rules' \subseteq Loaded(Rule)
          /\ types' \subseteq Loaded(RuleType)
          /\ blocks' \subseteq Loaded(RuleType)
          /\ inlineQueries' \in Seq([it : STRING, load : 1 .. MaxLoads])
        <3>1. CASE UNCHANGED <<rules, types, blocks, inlineQueries>>
            BY <3>1 DEF TypeOK
        <3>2. CASE AddLines(t, source.src) /\ source.src.parses
            <4>1. inlineQueries' \in Seq([it : STRING, load : 1 .. MaxLoads])
                <5> DEFINE Q == [it : STRING, load : 1 .. MaxLoads]
                           c == source.src
                           new == [i \in DOMAIN c.queries |->
                                        [it |-> c.queries[i], load |-> load[t]]]
                <5>1. new \in Seq(Q) /\ inlineQueries \in Seq(Q)
                    BY <2>3, <2>4, ContentEntries DEF TypeOK
                <5>2. inlineQueries' = inlineQueries \o new
                    BY <3>2 DEF AddLines
                <5> HIDE DEF Q, new
                <5>3. inlineQueries \o new \in Seq(Q)
                    BY <5>1, ConcatProperties
                <5> QED
                    BY <5>2, <5>3 DEF Q
            <4> QED
                BY <2>3, <2>4, <3>2, <4>1, ContentEntries DEF AddLines, TypeOK
        <3> QED
            BY <1>3, <3>1, <3>2 DEF AddSource, AddLines, kb
    <2> QED
        BY <1>3, <2>5, <2>6, <2>7 DEF AddSource, TypeOK
<1>4. ASSUME NEW t \in Threads, Validate(t) PROVE TypeOK'
    <2>1. pc[t] = "adding" /\ pc[t] # "idle"
        BY <1>4 DEF Validate
    <2>2. /\ outcome' \in Seq(Outcomes)
          /\ Len(outcome') = Len(outcome)
          /\ DOMAIN outcome' = DOMAIN outcome
        BY <1>4, <2>1, EndsType DEF Validate, TypeOK, Outcomes
    <2>3. errors' \in [Threads -> SUBSET {"unrecoverable", "invalid"}]
        BY <1>4 DEF Validate, Finds, TypeOK
    <2>4. types' \subseteq Loaded(RuleType)
        BY <1>4 DEF Validate, TypeOK
    <2>5. \/ pc' = [pc EXCEPT ![t] = "inline"]
          \/ pc' = [pc EXCEPT ![t] = "clearing"]
        BY <1>4 DEF Validate, Goto
    <2>6. pc' \in [Threads -> Places]
        BY <2>5 DEF TypeOK, Places
    <2>7. \A u \in Threads : lock' = u <=> pc'[u] = "adding"
        BY <1>4, <2>1, <2>5 DEF Validate, TypeOK
    <2>8. \A u \in Threads : pc'[u] # "idle" => load'[u] \in DOMAIN outcome'
        BY <1>4, <2>1, <2>2, <2>5 DEF Validate, TypeOK
    <2> QED
        BY <1>4, <2>2, <2>3, <2>4, <2>6, <2>7, <2>8 DEF Validate, TypeOK
<1>5. ASSUME NEW t \in Threads, Clear(t) PROVE TypeOK'
    <2>1. /\ outcome' \in Seq(Outcomes)
          /\ Len(outcome') = Len(outcome)
          /\ DOMAIN outcome' = DOMAIN outcome
        BY <1>5, EndsType DEF Clear, Outcomes
    <2> QED
        BY <1>5, <2>1 DEF Clear, Forget, Goto, TypeOK, Places
<1>6. ASSUME NEW t \in Threads, InlineQuery(t) PROVE TypeOK'
    <2>1. /\ Front(inlineQueries) \in Seq([it : STRING, load : 1 .. MaxLoads])
          /\ Last(inlineQueries) \in [it : STRING, load : 1 .. MaxLoads]
        <3> DEFINE Q == [it : STRING, load : 1 .. MaxLoads]
        <3>1. inlineQueries \in Seq(Q) /\ inlineQueries # <<>>
            BY <1>6 DEF InlineQuery, TypeOK
        <3> HIDE DEF Q
        <3>2. /\ Len(inlineQueries) \in Nat \ {0}
              /\ \A i \in 1 .. Len(inlineQueries) : inlineQueries[i] \in Q
            BY <3>1, EmptySeq, LenProperties, ElementOfSeq
        <3>3. Front(inlineQueries) \in Seq(Q) /\ Last(inlineQueries) \in Q
            BY <3>1, <3>2, SubSeqProperties DEF Front, Last
        <3> QED
            BY <3>3 DEF Q
    <2>2. CASE UNCHANGED <<pc, outcome, unanswered>>
        BY <1>6, <2>1, <2>2 DEF InlineQuery, TypeOK
    <2>3. CASE /\ Goto(t, "idle") /\ Ends(t, "unanswered")
               /\ unanswered' = unanswered \cup {Last(inlineQueries)}
        <3>1. /\ outcome' \in Seq(Outcomes)
              /\ Len(outcome') = Len(outcome)
              /\ DOMAIN outcome' = DOMAIN outcome
            BY <1>6, <2>3, EndsType DEF InlineQuery, Outcomes
        <3> QED
            BY <1>6, <2>1, <2>3, <3>1 DEF InlineQuery, TypeOK, Goto, Places
    <2> QED
        BY <1>6, <2>2, <2>3 DEF InlineQuery
<1>7. ASSUME NEW t \in Threads, Return(t) PROVE TypeOK'
    <2>1. outcome[load[t]] \in Outcomes
        BY <1>7, NumbersOfLoads DEF Return
    <2>2. /\ outcome' \in Seq(Outcomes)
          /\ Len(outcome') = Len(outcome)
          /\ DOMAIN outcome' = DOMAIN outcome
        BY <1>7, <2>1, EndsType DEF Return, Outcomes
    <2> QED
        BY <1>7, <2>2 DEF Return, Goto, TypeOK, Places, kb
<1>8. ASSUME NEW t \in Threads, ClearRules(t) PROVE TypeOK'
    <2>1. /\ outcome' \in Seq(Outcomes)
          /\ Len(outcome') = Len(outcome)
          /\ DOMAIN outcome' = DOMAIN outcome
        <3>1. outcome \in Seq(Outcomes) /\ "cleared" \in Outcomes
            BY DEF TypeOK, Outcomes
        <3>2. Len(outcome) \in Nat /\ outcome \in [1 .. Len(outcome) -> Outcomes]
            BY <3>1, LenProperties
        <3>3. outcome' \in [1 .. Len(outcome) -> Outcomes]
            BY <1>8, <3>1, <3>2 DEF ClearRules
        <3> QED
            BY <3>2, <3>3, IsASeq, LenProperties
    <2> QED
        BY <1>8, <2>1 DEF ClearRules, Forget, TypeOK
<1>9. CASE UNCHANGED vars
    BY <1>9 DEF vars, kb, TypeOK
<1> QED
    BY <1>1, <1>2, <1>3, <1>4, <1>5, <1>6, <1>7, <1>8, <1>9 DEF Next

\* The lock, the places of the threads and what is loaded keep their types,
\* however many threads load.
THEOREM TypeCorrect == Spec => []TypeOK
BY InitTypeOK, NextTypeOK, PTL DEF Spec

-----------------------------------------------------------------------------
(* A failed load leaves nothing.                                           *)

LEMMA InitIInv == Init => IInv
<1>1. Init => LoadsApart /\ Known /\ FailedLeavesNothing
    BY DEF Init, LoadsApart, UnderWay, Known, FailedLeavesNothing
<1> QED
    BY <1>1, InitTypeOK DEF IInv

\* Every entry that is new comes from the load of the thread that added it.
LEMMA AddedEntries ==
    ASSUME NEW t \in Threads, AddSource(t),
           NEW e \in (rules \cup types \cup blocks)'
    PROVE  e \in rules \cup types \cup blocks \/ e.load = load[t]
BY DEF AddSource, AddLines, kb

LEMMA NextIInv == IInv /\ [Next]_vars => IInv'
<1> SUFFICES ASSUME IInv, [Next]_vars PROVE IInv'
    OBVIOUS
<1>1. TypeOK /\ TypeOK'
    BY NextTypeOK DEF IInv
<1>2. LoadsApart /\ Known /\ FailedLeavesNothing
    BY DEF IInv
<1>3. /\ Len(outcome) \in Nat /\ DOMAIN outcome = 1 .. Len(outcome)
      /\ pc \in [Threads -> Places] /\ load \in [Threads -> 0 .. MaxLoads]
      /\ outcome \in Seq(Outcomes)
    BY <1>1 DEF TypeOK
<1>4. \A t \in Threads : pc[t] # "idle" => load[t] \in DOMAIN outcome
    BY <1>1 DEF TypeOK
<1> DEFINE all == rules \cup types \cup blocks
<1>5. ASSUME NEW t \in Threads, Check(t)
      PROVE  LoadsApart' /\ Known' /\ FailedLeavesNothing'
    <2>1. /\ load' = [load EXCEPT ![t] = Len(outcome) + 1]
          /\ all' = all
          /\ pc[t] = "idle"
          /\ pc' = pc \/ pc' = [pc EXCEPT ![t] = "checked"]
          /\ pc' # pc => outcome' = Append(outcome, "pending")
          /\ \E o \in Outcomes : outcome' = Append(outcome, o)
        BY <1>5 DEF Check, Goto, kb, Outcomes
    <2>2. /\ \A i \in DOMAIN outcome : outcome'[i] = outcome[i]
          /\ DOMAIN outcome' = 1 .. Len(outcome) + 1
          /\ pc' # pc => outcome'[Len(outcome) + 1] = "pending"
        BY <1>3, <2>1
    <2>3. Known' /\ FailedLeavesNothing'
        BY <1>2, <1>3, <2>1, <2>2 DEF Known, FailedLeavesNothing
    <2>4. ASSUME NEW u \in Threads, UnderWay(u)'
          PROVE  outcome'[load'[u]] = "pending"
        <3>1. CASE u = t
            BY <1>3, <2>1, <2>2, <2>4, <3>1 DEF UnderWay
        <3>2. CASE u # t
            BY <1>2, <1>3, <1>4, <2>1, <2>2, <2>4, <3>2 DEF UnderWay, LoadsApart
        <3> QED
            BY <3>1, <3>2
    <2>5. ASSUME NEW u \in Threads, NEW v \in Threads,
                 pc'[u] # "idle", pc'[v] # "idle", load'[u] = load'[v]
          PROVE  u = v
        <3>1. \A w \in Threads : w # t /\ pc'[w] # "idle" =>
                    load'[w] \in 1 .. Len(outcome) /\ load'[w] = load[w] /\ pc'[w] = pc[w]
            BY <1>3, <1>4, <2>1
        <3>2. load'[t] = Len(outcome) + 1
            BY <1>3, <2>1
        <3> QED
            BY <1>2, <1>3, <2>5, <3>1, <3>2 DEF LoadsApart
    <2> QED
        BY <2>3, <2>4, <2>5 DEF LoadsApart
<1>6. ASSUME NEW t \in Threads, Lock(t)
      PROVE  LoadsApart' /\ Known' /\ FailedLeavesNothing'
    BY <1>2, <1>3, <1>6
       DEF Lock, Goto, kb, LoadsApart, UnderWay, Known, FailedLeavesNothing
<1>7. ASSUME NEW t \in Threads, AddSource(t)
      PROVE  LoadsApart' /\ Known' /\ FailedLeavesNothing'
    <2>1. pc[t] = "adding" /\ UNCHANGED <<pc, load, outcome>>
        BY <1>7 DEF AddSource
    <2>2. load[t] \in DOMAIN outcome /\ outcome[load[t]] = "pending"
        BY <1>2, <1>4, <2>1 DEF LoadsApart, UnderWay
    <2>3. \A e \in all' : e \in all \/ e.load = load[t]
        BY <1>7, AddedEntries
    <2>4. Known' /\ FailedLeavesNothing'
        BY <1>2, <2>1, <2>2, <2>3 DEF Known, FailedLeavesNothing
    <2>5. LoadsApart'
        BY <1>2, <2>1 DEF LoadsApart, UnderWay
    <2> QED
        BY <2>4, <2>5
<1>8. ASSUME NEW t \in Threads, Validate(t)
      PROVE  LoadsApart' /\ Known' /\ FailedLeavesNothing'
    <2>1. /\ pc[t] = "adding" /\ UNCHANGED load
          /\ \/ pc' = [pc EXCEPT ![t] = "clearing"] /\ outcome' = outcome
             \/ /\ pc' = [pc EXCEPT ![t] = "inline"]
                /\ outcome' = [outcome EXCEPT ![load[t]] = "loaded"]
        BY <1>8 DEF Validate, Goto, Ends
    <2>2. all' = all
        BY <1>8 DEF Validate
    <2>3. load[t] \in DOMAIN outcome /\ outcome[load[t]] = "pending"
        BY <1>2, <1>4, <2>1 DEF LoadsApart, UnderWay
    <2>4. Known' /\ FailedLeavesNothing'
        BY <1>2, <2>1, <2>2, <2>3 DEF Known, FailedLeavesNothing
    <2>5. LoadsApart'
        BY <1>2, <1>3, <1>4, <2>1, <2>3 DEF LoadsApart, UnderWay
    <2> QED
        BY <2>4, <2>5
<1>9. ASSUME NEW t \in Threads, Clear(t)
      PROVE  LoadsApart' /\ Known' /\ FailedLeavesNothing'
    <2>1. /\ pc[t] = "clearing" /\ UNCHANGED load
          /\ pc' = [pc EXCEPT ![t] = "idle"]
          /\ outcome' = [outcome EXCEPT ![load[t]] = "failed"]
          /\ all' = {}
        BY <1>9 DEF Clear, Forget, Goto, Ends
    <2>2. LoadsApart'
        BY <1>2, <1>3, <1>4, <2>1 DEF LoadsApart, UnderWay
    <2> QED
        BY <2>1, <2>2 DEF Known, FailedLeavesNothing
<1>10. ASSUME NEW t \in Threads, InlineQuery(t) \/ Return(t)
       PROVE  LoadsApart' /\ Known' /\ FailedLeavesNothing'
    <2>1. /\ pc[t] = "inline" /\ UNCHANGED load
          /\ all' = all
          /\ \/ UNCHANGED <<pc, outcome>>
             \/ /\ pc' = [pc EXCEPT ![t] = "idle"]
                /\ \E o : /\ outcome' = [outcome EXCEPT ![load[t]] = o]
                          /\ o = "failed" => outcome[load[t]] = "failed"
        BY <1>10 DEF InlineQuery, Return, Goto, Ends, kb
    <2>2. Known' /\ FailedLeavesNothing'
        BY <1>2, <1>3, <1>4, <2>1 DEF Known, FailedLeavesNothing
    <2>3. LoadsApart'
        BY <1>2, <1>3, <1>4, <2>1 DEF LoadsApart, UnderWay
    <2> QED
        BY <2>2, <2>3
<1>11. ASSUME NEW t \in Threads, ClearRules(t)
       PROVE  LoadsApart' /\ Known' /\ FailedLeavesNothing'
    <2>1. all' = {} /\ UNCHANGED <<pc, load>>
        BY <1>11 DEF ClearRules, Forget
    <2>2. \A i \in DOMAIN outcome : outcome[i] = "pending" => outcome'[i] = "pending"
        BY <1>11 DEF ClearRules
    <2>3. LoadsApart'
        BY <1>2, <1>4, <2>1, <2>2 DEF LoadsApart, UnderWay
    <2> QED
        BY <2>1, <2>3 DEF Known, FailedLeavesNothing
<1>12. ASSUME UNCHANGED vars
       PROVE  LoadsApart' /\ Known' /\ FailedLeavesNothing'
    BY <1>2, <1>12 DEF vars, kb, LoadsApart, UnderWay, Known, FailedLeavesNothing
<1> QED
    <2> SUFFICES LoadsApart' /\ Known' /\ FailedLeavesNothing'
        BY <1>1 DEF IInv
    <2>1. CASE \E t \in Threads : Check(t) \/ Lock(t) \/ AddSource(t) \/ Validate(t)
        BY <1>5, <1>6, <1>7, <1>8, <2>1
    <2>2. CASE \E t \in Threads :
                    Clear(t) \/ InlineQuery(t) \/ Return(t) \/ ClearRules(t)
        BY <1>9, <1>10, <1>11, <2>2
    <2> QED
        BY <1>12, <2>1, <2>2 DEF Next

\* A load that has returned an error leaves none of its rules and types, for
\* any number of loads that were under way with it.
THEOREM FailedLoadsLeaveNothing == Spec => []FailedLeavesNothing
<1>1. IInv => FailedLeavesNothing
    BY DEF IInv
<1> QED
    BY InitIInv, NextIInv, <1>1, PTL DEF Spec

-----------------------------------------------------------------------------
(* The policy is valid whenever no load has to clean up after itself.      *)

CleaningUp == \E t \in Threads : pc[t] \in {"adding", "clearing"}

LEMMA NothingIsValid == Valid(Its({}), Its({}))
BY DEF Valid, Its

LEMMA InitPolicyValid == Init => PolicyValid
BY NothingIsValid DEF Init, PolicyValid

LEMMA NextPolicyValid == TypeOK /\ PolicyValid /\ [Next]_vars => PolicyValid'
<1> SUFFICES ASSUME TypeOK, PolicyValid, [Next]_vars, ~CleaningUp'
             PROVE  Valid(Its(rules'), Its(types'))
    BY DEF PolicyValid, CleaningUp
<1>1. pc \in [Threads -> Places] /\ errors \in [Threads -> SUBSET {"unrecoverable", "invalid"}]
    BY DEF TypeOK
<1>2. ASSUME UNCHANGED <<rules, types>>, ~CleaningUp
      PROVE  Valid(Its(rules'), Its(types'))
    BY <1>2 DEF PolicyValid, CleaningUp
<1>3. ASSUME rules' = {}, types' = {}
      PROVE  Valid(Its(rules'), Its(types'))
    BY <1>3, NothingIsValid
<1>4. ASSUME NEW t \in Threads, Check(t)
      PROVE  UNCHANGED <<rules, types>> /\ ~CleaningUp
    BY <1>1, <1>4 DEF Check, Goto, kb, CleaningUp
<1>5. ASSUME NEW t \in Threads, Lock(t) \/ AddSource(t)
      PROVE  CleaningUp'
    BY <1>1, <1>5 DEF Lock, AddSource, Goto, CleaningUp
<1>6. ASSUME NEW t \in Threads, Validate(t)
      PROVE  Valid(Its(rules'), Its(types'))
    <2>1. errors'[t] = errors[t] \cup Finds(t, types') /\ UNCHANGED rules
        BY <1>1, <1>6 DEF Validate
    <2>2. errors'[t] = {}
        BY <1>1, <1>6 DEF Validate, Goto, CleaningUp
    <2> QED
        BY <2>1, <2>2 DEF Finds
<1>7. ASSUME NEW t \in Threads, Clear(t) \/ ClearRules(t)
      PROVE  rules' = {} /\ types' = {}
    BY <1>7 DEF Clear, ClearRules, Forget
<1>8. ASSUME NEW t \in Threads, InlineQuery(t) \/ Return(t)
      PROVE  UNCHANGED <<rules, types>> /\ ~CleaningUp
    BY <1>1, <1>8 DEF InlineQuery, Return, Goto, kb, CleaningUp
<1>9. CASE UNCHANGED vars
    BY <1>2, <1>9 DEF vars, kb, CleaningUp
<1> QED
    <2>1. CASE \E t \in Threads : Check(t) \/ InlineQuery(t) \/ Return(t)
        BY <1>2, <1>4, <1>8, <2>1
    <2>2. CASE \E t \in Threads : Lock(t) \/ AddSource(t) \/ Validate(t)
        BY <1>5, <1>6, <2>2
    <2>3. CASE \E t \in Threads : Clear(t) \/ ClearRules(t)
        BY <1>3, <1>7, <2>3
    <2> QED
        BY <1>9, <2>1, <2>2, <2>3 DEF Next

\* A query finds a valid policy unless a load is being cleaned up, whatever
\* loads it is made of and however they were interleaved.
THEOREM PoliciesAreValid == Spec => []PolicyValid
BY InitTypeOK, NextTypeOK, InitPolicyValid, NextPolicyValid, PTL DEF Spec

-----------------------------------------------------------------------------
(* What is known of files.                                                 *)

\* A file that is new is remembered under its name and its content.
LEMMA RememberKeepsFiles ==
    ASSUME FilesOnce, NEW source, FileIsNew(source), Remember(source)
    PROVE  FilesOnce'
<1>1. CASE source.filename = NoFile
    BY <1>1 DEF Remember, FilesOnce
<1>2. CASE source.filename # NoFile
    <2> DEFINE f == source.filename
               c == source.src
    <2>1. f \notin loadedFiles /\ c \notin DOMAIN loadedContent
        BY <1>2 DEF FileIsNew
    <2>2. /\ loadedFiles' = loadedFiles \cup {f}
          /\ DOMAIN loadedContent' = DOMAIN loadedContent \cup {c}
          /\ loadedContent'[c] = f
          /\ \A d \in DOMAIN loadedContent : loadedContent'[d] = loadedContent[d]
        BY <1>2, <2>1 DEF Remember
    <2>3. \A d \in DOMAIN loadedContent : loadedContent[d] \in loadedFiles
        BY DEF FilesOnce
    <2>4. {loadedContent'[d] : d \in DOMAIN loadedContent'} = loadedFiles'
        BY <2>2 DEF FilesOnce
    <2>5. ASSUME NEW d \in DOMAIN loadedContent', NEW e \in DOMAIN loadedContent',
                 loadedContent'[d] = loadedContent'[e]
          PROVE  d = e
        BY <2>1, <2>2, <2>3, <2>5 DEF FilesOnce
    <2> QED
        BY <2>4, <2>5 DEF FilesOnce
<1> QED
    BY <1>1, <1>2

LEMMA NextFilesOnce == FilesOnce /\ [Next]_vars => FilesOnce'
<1> SUFFICES ASSUME FilesOnce, [Next]_vars PROVE FilesOnce'
    OBVIOUS
<1>1. ASSUME NEW t \in Threads, AddSource(t) PROVE FilesOnce'
    <2>1. CASE FileIsNew(Head(sources[t]))
        BY <1>1, <2>1, RememberKeepsFiles DEF AddSource
    <2>2. CASE ~FileIsNew(Head(sources[t]))
        BY <1>1, <2>2 DEF AddSource, kb, FilesOnce
    <2> QED
        BY <2>1, <2>2
<1>2. ASSUME NEW t \in Threads, Clear(t) \/ ClearRules(t) PROVE FilesOnce'
    BY <1>2 DEF Clear, ClearRules, Forget, FilesOnce
<1>3. ASSUME UNCHANGED <<loadedContent, loadedFiles>> PROVE FilesOnce'
    BY <1>3 DEF FilesOnce
<1>4. CASE \E t \in Threads : Check(t) \/ Lock(t) \/ Validate(t)
    BY <1>3, <1>4 DEF Check, Lock, Validate, kb
<1>5. CASE \E t \in Threads : InlineQuery(t) \/ Return(t)
    BY <1>3, <1>5 DEF InlineQuery, Return, kb
<1>6. CASE UNCHANGED vars
    BY <1>3, <1>6 DEF vars, kb
<1> QED
    BY <1>1, <1>2, <1>4, <1>5, <1>6 DEF Next

\* No file is ever known with two contents, and no content under two names.
THEOREM FilesAreOnce == Spec => []FilesOnce
<1>1. Init => FilesOnce
    BY DEF Init, FilesOnce
<1> QED
    BY <1>1, NextFilesOnce, PTL DEF Spec
================================================================================
