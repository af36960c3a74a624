------------------------------ MODULE Query_proof ------------------------------
(***************************************************************************)
(* Theorems about Query, for all terms, policies, applications, timeouts   *)
(* and limits: the stacks keep their bounds, no machine comes to a state   *)
(* that the code takes for impossible, and the stack of queries is in step *)
(* with the goals.                                                         *)
(*                                                                         *)
(* The invariant says what may be on a stack of goals, in the goals a      *)
(* choice has saved, and in its alternatives, which become goals when it   *)
(* is taken.                                                               *)
(***************************************************************************)
EXTENDS Query, FiniteSetTheorems, WellFoundedInduction, TLAPS

(***************************************************************************)
(* The types                                                               *)
(***************************************************************************)

\* The provers do not know that these are strings.
Values == STRING \cup {"", "true", "false"}

Named(op) == {t.name : t \in {u \in Terms : u.op = op}}

SortGoals ==
    {g \in [goal : {"SortRules"}, rules : Seq(Rules), outer : Nat, inner : Nat] :
        g.rules # <<>> => g.outer \in 1 .. Len(g.rules) /\ g.inner <= g.outer}

AskGoals ==
    [goal : {"LookupExternal"}, id : Nat, name : Named("Dot")]
        \cup [goal : {"NextExternal"}, id : Nat, name : Named("In")]

CutGoals == [goal : {"Cut"}, choice_index : Nat]

\* The goals that may be anywhere on a stack.
PlainGoals ==
    [goal : {"Query"}, term : Terms]
        \cup [goal : {"Run"}, term : Terms]
        \cup [goal : {"Unify"}, id : Nat, val : Values]
        \cup [goal : {"IsaExternal"}, name : Named("Isa")]
        \cup [goal : {"FilterRules"}, applicable : Seq(Rules), unfiltered : Seq(Rules)]
        \cup SortGoals
        \cup [goal : {"IsMoreSpecific"}, left : Rules, right : Rules]
        \cup [goal : {"CheckRule"}, rule : Rules]
        \cup [goal : {"Backtrack", "CheckError", "AddConstraintsBatch"}]

Goals == PlainGoals \cup AskGoals \cup CutGoals \cup [goal : {"PopQuery", "Halt"}]

Entries == [var : Nat, val : Values]

ChoicePoints == [alternatives : Seq(Seq(Goals)), bsp : Nat, goals : Seq(Goals),
                 queries : Seq(Terms)]

\* What may be wrong with a query, and is neither a panic nor an invalid state.
Faults == {"", "StackOverflow", "QueryForUndefinedRule", "Application"}

Machines ==
    [goals : Seq(Goals), choices : Seq(ChoicePoints), queries : Seq(Terms),
     bindings : Seq(Entries), calls : SUBSET Nat, error : BOOLEAN, started : Int,
     yielded : BOOLEAN, fault : Faults, id : Nat, results : Nat]

(***************************************************************************)
(* The invariant of a machine, when n is the next call id                  *)
(***************************************************************************)

\* A query on the query stack for every PopQuery among the goals.
Pops(goals) == {i \in DOMAIN goals : goals[i].goal = "PopQuery"}
Balanced(goals, queries) == Cardinality(Pops(goals)) = Len(queries)

\* Goals that may be saved with a choice: their turn has not come yet.
Saved == PlainGoals \cup {PopQueryG}

\* A question to the application is asked at once, a cut as soon as the goal
\* on top of it is done, which makes no choice.
AboveCut == {"Run", "CheckRule", "IsMoreSpecific", "Unify", "Backtrack", "CheckError",
             "Halt"}

GoalsOK(goals, choices) ==
    /\ \A i \in DOMAIN goals :
            i < Len(goals) =>
                \/ goals[i] \in Saved
                \/ /\ goals[i] \in CutGoals
                   /\ i = Len(goals) - 1 /\ goals[i + 1].goal \in AboveCut
    /\ \A i \in DOMAIN goals :
            goals[i].goal = "Cut" =>
                \/ goals[i].choice_index <= Len(choices)
                \/ goals[Len(goals)] = HaltG

\* An alternative: a cut or a question can only be its first goal.
AlternativeOK(alternative, below) ==
    \A i \in DOMAIN alternative :
        \/ alternative[i] \in PlainGoals
        \/ i = 1 /\ alternative[i] \in [goal : {"NextExternal"}, id : Nat, name : Named("In")]
        \/ i = 1 /\ alternative[i] \in CutGoals /\ alternative[i].choice_index <= below

\* A choice with so many below it.
ChoiceOK(choice, below) ==
    /\ choice.goals \in Seq(Saved) /\ choice.goals # <<>>
    /\ choice.goals[1] = PopQueryG
    /\ Balanced(choice.goals, choice.queries)
    /\ \A a \in DOMAIN choice.alternatives :
            /\ AlternativeOK(choice.alternatives[a], below)
            /\ Len(choice.goals) + Len(choice.alternatives[a]) <= StackLimit

\* The ids of the iterables that a choice takes the next element of.
AwaitedIn(alternatives) ==
    {g.id : g \in {h \in UNION {Range(alternatives[a]) : a \in DOMAIN alternatives} :
                    h.goal = "NextExternal"}}
Awaited(choice) == AwaitedIn(choice.alternatives)

\* The choice is about to be cut.
Doomed(goals, j) ==
    \E i \in DOMAIN goals :
        /\ goals[i].goal = "Cut" /\ goals[i].choice_index < j
        /\ \/ i = Len(goals)
           \/ i = Len(goals) - 1 /\ goals[i + 1].goal = "CheckError"

ChoicesOK(m, n) ==
    /\ Len(m.choices) <= StackLimit
    /\ \A j \in DOMAIN m.choices :
            /\ ChoiceOK(m.choices[j], j - 1)
            /\ Awaited(m.choices[j]) # {} => Len(m.choices[j].alternatives) = 1
            /\ m.choices[j].bsp <= Len(m.bindings)
            /\ \A k \in 1 .. j : m.choices[k].bsp <= m.choices[j].bsp
    /\ \A j \in DOMAIN m.choices : \A id \in Awaited(m.choices[j]) :
            /\ id \in 1 .. n - 1
            /\ \A k \in DOMAIN m.choices : k # j => id \notin Awaited(m.choices[k])

\* The ids that choices wait for are known.
Known(m) ==
    \A j \in DOMAIN m.choices : \A id \in Awaited(m.choices[j]) :
        id \in m.calls \/ Doomed(m.goals, j)

\* An id that no choice waits for.
Unawaited(m, id) == \A j \in DOMAIN m.choices : id \notin Awaited(m.choices[j])

\* The goal that asks the application about id is the only one.
Asking(m) ==
    m.goals # <<>> /\ m.goals[Len(m.goals)] \in AskGoals =>
        /\ m.goals[Len(m.goals)].id \in m.calls
        /\ Unawaited(m, m.goals[Len(m.goals)].id)

\* The goal at the bottom is that of the query itself, but for a machine that
\* has not begun or that has no choices left.
Bottom(m) ==
    \/ m.goals = <<>>
    \/ m.goals[1] = PopQueryG
    \/ /\ m.choices = <<>> /\ m.queries = <<>>
       /\ Len(m.goals) = 1 /\ m.goals[1].goal \in {"Query", "Halt"}

MachineOK(m, n) ==
    /\ m \in Machines /\ m.fault = ""
    /\ Len(m.goals) <= StackLimit
    /\ m.calls \subseteq 1 .. n - 1
    /\ m.yielded => m.goals = <<>>
    /\ Balanced(m.goals, m.queries)
    /\ Bottom(m)
    /\ GoalsOK(m.goals, m.choices)
    /\ ChoicesOK(m, n)
    /\ Known(m)
    /\ Asking(m)

(***************************************************************************)
(* The invariant of a query                                                *)
(***************************************************************************)

\* A machine that is to be told the answer to id.
Expecting(m, id) ==
    /\ id \in m.calls /\ Unawaited(m, id)
    /\ m.goals # <<>> /\ m.goals[Len(m.goals)].goal = "Unify"

\* A machine that has asked the application for a field or an element.
Asked(m, id) ==
    /\ id \in m.calls
    /\ m.choices # <<>> /\ m.goals # <<>>
    /\ \A j \in 1 .. Len(m.choices) - 1 : id \notin Awaited(m.choices[j])
    /\ m.goals \in Seq(Saved)

\* The application's event, when m is the machine on top.
EventOK(e, m) ==
    CASE e.kind \in {"None", "Result"} -> TRUE
      [] e.kind = "ExternalCall" -> e.name \in Named("Dot") /\ Asked(m, e.id)
      [] e.kind = "NextExternal" -> e.name \in Named("In") /\ Asked(m, e.id)
      [] e.kind = "ExternalIsa" -> e.name \in Named("Isa") /\ Expecting(m, e.id)
      [] OTHER -> FALSE

\* The machines of a query, each but the last waiting for the one above it.
Fit(v, n) ==
    /\ v \in Seq(Machines)
    /\ \A k \in DOMAIN v : MachineOK(v[k], n)
    /\ \A k \in DOMAIN v : k < Len(v) => Expecting(v[k], v[k + 1].id)

\* What remains of that when the query has ended.
Sized(v, n) ==
    /\ v \in Seq(Machines) /\ v # <<>>
    /\ \A i \in DOMAIN v :
            /\ Len(v[i].goals) <= StackLimit /\ Len(v[i].choices) <= StackLimit
            /\ v[i].calls \subseteq 1 .. n - 1
            /\ v[i].fault = ""
            /\ \A j \in DOMAIN v[i].choices : v[i].choices[j].bsp <= Len(v[i].bindings)
            /\ v[i].yielded => v[i].queries = <<>>

Reached(v, n, s, e) ==
    /\ Sized(v, n)
    /\ s \notin {"Panic", "InvalidState"}
    /\ s = "running" => Fit(v, n) /\ EventOK(e, v[Len(v)])

Typed ==
    /\ rules \in Policies /\ world \in Worlds /\ timeout \in Nat /\ clock \in Nat
    /\ nextId \in Nat \ {0}
    /\ cursors \in [DOMAIN cursors -> Nat] /\ DOMAIN cursors \subseteq 1 .. nextId - 1

Inv == Typed /\ Reached(vms, nextId, status, event)

(***************************************************************************)
(* Sequences and counts                                                    *)
(***************************************************************************)

LEMMA SeqEqual ==
    ASSUME NEW S, NEW s \in Seq(S), NEW t \in Seq(S), Len(s) = Len(t),
           \A i \in 1 .. Len(s) : s[i] = t[i]
    PROVE  s = t
  OBVIOUS

LEMMA EmptySeq == \A S : <<>> \in Seq(S)
  OBVIOUS

\* A prefix of a stack.
LEMMA PrefixProps ==
    ASSUME NEW S, NEW s \in Seq(S), NEW n \in 0 .. Len(s)
    PROVE  /\ SubSeq(s, 1, n) \in Seq(S) /\ Len(SubSeq(s, 1, n)) = n
           /\ \A i \in 1 .. n : SubSeq(s, 1, n)[i] = s[i]
  OBVIOUS

\* A stack with something on it is what is below the top, and the top.
LEMMA FrontLast ==
    ASSUME NEW S, NEW s \in Seq(S), s # <<>>
    PROVE  /\ Front(s) \in Seq(S) /\ Last(s) \in S
           /\ s = Append(Front(s), Last(s))
           /\ Len(s) = Len(Front(s)) + 1 /\ Last(s) = s[Len(s)]
           /\ \A i \in 1 .. Len(s) - 1 : Front(s)[i] = s[i]
<1>1. Len(s) \in Nat \ {0}
  OBVIOUS
<1>2. /\ Front(s) \in Seq(S) /\ Len(Front(s)) = Len(s) - 1
      /\ \A i \in 1 .. Len(s) - 1 : Front(s)[i] = s[i]
  <2>1. Len(s) - 1 \in 0 .. Len(s)
    BY <1>1
  <2> QED  BY <2>1, PrefixProps DEF Front
<1>3. Last(s) = s[Len(s)] /\ Last(s) \in S
  BY <1>1 DEF Last
<1>4. s = Append(Front(s), Last(s))
  <2>1. Append(Front(s), Last(s)) \in Seq(S) /\ Len(Append(Front(s), Last(s))) = Len(s)
    BY <1>1, <1>2, <1>3
  <2>2. \A i \in 1 .. Len(s) : Append(Front(s), Last(s))[i] = s[i]
    BY <1>1, <1>2, <1>3
  <2> QED  BY <2>1, <2>2, SeqEqual
<1> QED  BY <1>1, <1>2, <1>3, <1>4

LEMMA ReverseProps ==
    ASSUME NEW S, NEW s \in Seq(S)
    PROVE  /\ Reverse(s) \in Seq(S) /\ Len(Reverse(s)) = Len(s)
           /\ \A i \in 1 .. Len(s) : Reverse(s)[i] = s[Len(s) - i + 1]
  BY DEF Reverse

\* A stack with others pushed on it, the first of them on top.
Push(s, t) == s \o Reverse(t)

\* What r then is like, when s has L elements and t has K.
IsPushed(r, s, t, L, K) ==
    /\ Len(r) = L + K /\ DOMAIN r = 1 .. L + K
    /\ \A i \in 1 .. L : r[i] = s[i]
    /\ \A i \in 1 .. K : r[L + K - i + 1] = t[i]
    /\ \A i \in 1 .. L + K : i \in 1 .. L \/ \E q \in 1 .. K : i = L + K - q + 1

LEMMA PushedProps ==
    ASSUME NEW S, NEW s \in Seq(S), NEW t \in Seq(S)
    PROVE  Push(s, t) \in Seq(S) /\ IsPushed(Push(s, t), s, t, Len(s), Len(t))
<1> DEFINE b == Reverse(t)
<1>1. /\ b \in Seq(S) /\ Len(b) = Len(t)
      /\ \A i \in 1 .. Len(t) : b[i] = t[Len(t) - i + 1]
  BY ReverseProps
<1> HIDE DEF b
<1>2. Push(s, t) = s \o b
  BY DEF Push, b
<1>3. /\ Push(s, t) \in Seq(S) /\ Len(Push(s, t)) = Len(s) + Len(b)
      /\ DOMAIN Push(s, t) = 1 .. Len(s) + Len(b)
      /\ \A i \in 1 .. Len(s) : Push(s, t)[i] = s[i]
      /\ \A i \in 1 .. Len(b) : Push(s, t)[Len(s) + i] = b[i]
  <2>1. b \in Seq(S)
    BY <1>1
  <2> QED  BY <1>2, <2>1
<1>4. /\ Push(s, t) \in Seq(S) /\ Len(Push(s, t)) = Len(s) + Len(t)
      /\ DOMAIN Push(s, t) = 1 .. Len(s) + Len(t)
      /\ \A i \in 1 .. Len(s) : Push(s, t)[i] = s[i]
      /\ \A i \in 1 .. Len(t) : Push(s, t)[Len(s) + i] = b[i]
  BY <1>1, <1>3
<1>5. ASSUME NEW i \in 1 .. Len(t) PROVE Push(s, t)[Len(s) + Len(t) - i + 1] = t[i]
  <2>1. Len(t) - i + 1 \in 1 .. Len(t)
        /\ Len(s) + (Len(t) - i + 1) = Len(s) + Len(t) - i + 1
        /\ Len(t) - (Len(t) - i + 1) + 1 = i
    OBVIOUS
  <2>2. Push(s, t)[Len(s) + (Len(t) - i + 1)] = b[Len(t) - i + 1]
    BY <1>4, <2>1
  <2>3. b[Len(t) - i + 1] = t[Len(t) - (Len(t) - i + 1) + 1]
    BY <1>1, <2>1
  <2> QED  BY <2>1, <2>2, <2>3
<1>6. ASSUME NEW i \in 1 .. Len(s) + Len(t), i \notin 1 .. Len(s)
      PROVE  \E q \in 1 .. Len(t) : i = Len(s) + Len(t) - q + 1
  <2>1. i \in Int /\ i > Len(s) /\ i <= Len(s) + Len(t) /\ Len(s) \in Nat /\ Len(t) \in Nat
    BY <1>6
  <2>2. /\ Len(s) + Len(t) - i + 1 \in 1 .. Len(t)
        /\ i = Len(s) + Len(t) - (Len(s) + Len(t) - i + 1) + 1
    BY <2>1
  <2> QED  BY <2>2
<1> QED  BY <1>4, <1>5, <1>6 DEF IsPushed

LEMMA PopsFinite ==
    ASSUME NEW S, NEW s \in Seq(S)
    PROVE  IsFiniteSet(Pops(s)) /\ Cardinality(Pops(s)) \in Nat
<1>1. IsFiniteSet(1 .. Len(s))
  BY FS_Interval
<1>2. Pops(s) \subseteq 1 .. Len(s)
  BY DEF Pops
<1> QED  BY <1>1, <1>2, FS_Subset, FS_CardinalityType

\* A goal more on the stack is a PopQuery more only if it is one.
LEMMA PopsAppend ==
    ASSUME NEW S, NEW s \in Seq(S), NEW g \in S
    PROVE  /\ g.goal # "PopQuery" => Pops(Append(s, g)) = Pops(s)
           /\ g.goal = "PopQuery" =>
                  Cardinality(Pops(Append(s, g))) = Cardinality(Pops(s)) + 1
<1>1. CASE g.goal # "PopQuery"
  BY <1>1 DEF Pops
<1>2. CASE g.goal = "PopQuery"
  <2>1. Pops(Append(s, g)) = Pops(s) \cup {Len(s) + 1}
    BY <1>2 DEF Pops
  <2>2. Len(s) + 1 \notin Pops(s)
    BY DEF Pops
  <2> QED  BY <1>2, <2>1, <2>2, PopsFinite, FS_AddElement
<1> QED  BY <1>1, <1>2

LEMMA PopsConcat ==
    ASSUME NEW S, NEW s \in Seq(S), NEW t \in Seq(S),
           \A i \in 1 .. Len(t) : t[i].goal # "PopQuery"
    PROVE  Pops(s \o t) = Pops(s)
  BY DEF Pops

LEMMA PopsNone == Cardinality(Pops(<<>>)) = 0
<1>1. Pops(<<>>) = {}
  BY DEF Pops
<1> QED  BY <1>1, FS_EmptySet

\* A stack with a PopQuery at its bottom has one query at least.
LEMMA PopsSome ==
    ASSUME NEW S, NEW s \in Seq(S), s # <<>>, s[1] = PopQueryG
    PROVE  Cardinality(Pops(s)) >= 1
<1>1. 1 \in Pops(s)
  BY DEF Pops, PopQueryG
<1>2. Cardinality(Pops(s)) # 0
  BY <1>1, PopsFinite, FS_EmptySet
<1> QED  BY <1>2, PopsFinite

\* Of finitely many choices that can be taken, one is on top.
LEMMA HasMaximum ==
    ASSUME NEW n \in Nat, NEW T \in SUBSET (1 .. n), T # {}
    PROVE  LET max == CHOOSE i \in T : \A j \in T : j <= i
           IN  max \in T /\ \A j \in T : j <= max
<1> DEFINE Above == {n - i : i \in T}
<1>1. Above # {} /\ Above \subseteq Nat
  <2>1. \A i \in T : n - i \in Nat
    OBVIOUS
  <2> QED  BY <2>1
<1>2. PICK k \in Above : \A l \in Above : <<l, k>> \notin OpToRel(<, Nat)
  BY <1>1, NatLessThanWellFounded, WFMin
<1>3. \A l \in Above : k <= l
  <2> SUFFICES ASSUME NEW l \in Above PROVE k <= l
    OBVIOUS
  <2>1. <<l, k>> \notin OpToRel(<, Nat) /\ <<l, k>> \in Nat \X Nat
    BY <1>1, <1>2
  <2>2. ~(l < k)
    BY <2>1 DEF OpToRel
  <2>3. l \in Nat /\ k \in Nat
    BY <1>1
  <2> QED  BY <2>2, <2>3
<1>4. PICK i \in T : k = n - i
  BY <1>2
<1>5. \A j \in T : j <= i
  <2> SUFFICES ASSUME NEW j \in T PROVE j <= i
    OBVIOUS
  <2>1. k <= n - j
    BY <1>3
  <2> QED  BY <2>1, <1>4
<1> QED  BY <1>4, <1>5

(***************************************************************************)
(* A machine whose goal has been popped                                    *)
(***************************************************************************)

\* Every id that is awaited is known, and at most the top of the goals is a
\* cut.
Calm(m, n) ==
    /\ m \in Machines /\ m.fault = "" /\ ~m.yielded
    /\ Len(m.goals) <= StackLimit
    /\ m.calls \subseteq 1 .. n - 1
    /\ Balanced(m.goals, m.queries)
    /\ m.goals # <<>> => m.goals[1] = PopQueryG
    /\ \A i \in DOMAIN m.goals :
            \/ m.goals[i] \in Saved
            \/ /\ i = Len(m.goals) /\ m.goals[i] \in CutGoals
               /\ m.goals[i].choice_index <= Len(m.choices)
    /\ ChoicesOK(m, n)
    /\ \A j \in DOMAIN m.choices : Awaited(m.choices[j]) \subseteq m.calls

\* The goals may be saved with a choice.
Ready(m, n) == Calm(m, n) /\ m.goals \in Seq(Saved) /\ m.goals # <<>>

\* The results of the operators of VirtualMachine, which go on after a fault.
Fine(m, n) == m.fault \in Faults /\ (m.fault = "" => MachineOK(m, n))
StaysReady(m, n) ==
    m \in Machines /\ m.fault \in Faults /\ (m.fault = "" => Ready(m, n))

LEMMA GoalTypes ==
    /\ \A g \in PlainGoals : g \in Goals /\ g \in Saved
            /\ g.goal \notin {"PopQuery", "Halt", "Cut", "LookupExternal", "NextExternal"}
    /\ \A g \in CutGoals : g \in Goals /\ g.goal = "Cut" /\ g.choice_index \in Nat
    /\ \A g \in AskGoals : g \in Goals /\ g.goal \in {"LookupExternal", "NextExternal"}
            /\ g.id \in Nat
    /\ PopQueryG \in Saved /\ PopQueryG.goal = "PopQuery" /\ PopQueryG \in Goals
    /\ HaltG \in Goals /\ HaltG.goal = "Halt"
    /\ BacktrackG \in PlainGoals /\ BacktrackG.goal = "Backtrack"
    /\ Saved \subseteq Goals
    /\ \A g \in Goals :
            /\ g.goal = "PopQuery" => g = PopQueryG
            /\ g.goal = "Halt" => g = HaltG
            /\ g.goal = "Cut" => g \in CutGoals
            /\ g.goal \in {"LookupExternal", "NextExternal"} <=> g \in AskGoals
            /\ g.goal \notin {"PopQuery", "Halt", "Cut", "LookupExternal", "NextExternal"}
                    => g \in PlainGoals
  BY DEF PlainGoals, CutGoals, AskGoals, Saved, Goals, SortGoals, PopQueryG, HaltG,
         BacktrackG

LEMMA CalmOK == \A m, n : Calm(m, n) => MachineOK(m, n)
<1> SUFFICES ASSUME NEW m, NEW n, Calm(m, n) PROVE MachineOK(m, n)
  OBVIOUS
<1>1. m.goals \in Seq(Goals) /\ m.choices \in Seq(ChoicePoints)
  BY DEF Calm, Machines
<1>2. GoalsOK(m.goals, m.choices)
  <2>1. ASSUME NEW i \in DOMAIN m.goals, i < Len(m.goals) PROVE m.goals[i] \in Saved
    <3>1. i # Len(m.goals)
      BY <1>1, <2>1
    <3> QED  BY <3>1 DEF Calm
  <2>2. ASSUME NEW i \in DOMAIN m.goals, m.goals[i].goal = "Cut"
        PROVE  m.goals[i].choice_index <= Len(m.choices)
    <3>1. m.goals[i] \notin Saved
      BY <2>2, GoalTypes DEF Saved
    <3> QED  BY <3>1 DEF Calm
  <2> QED  BY <2>1, <2>2 DEF GoalsOK
<1>3. Asking(m)
  <2>1. m.goals # <<>> => Len(m.goals) \in DOMAIN m.goals
    BY <1>1
  <2>2. \A g \in Saved \cup CutGoals : g \notin AskGoals
    BY GoalTypes DEF Saved
  <2> QED  BY <2>1, <2>2 DEF Asking, Calm
<1>4. Known(m)
  BY DEF Calm, Known
<1>5. Bottom(m)
  BY DEF Calm, Bottom
<1> QED  BY <1>2, <1>3, <1>4, <1>5 DEF Calm, MachineOK

\* Ids are only ever added.
LEMMA MoreIds ==
    ASSUME NEW m, NEW n \in Nat, NEW o \in Nat, n <= o
    PROVE  /\ MachineOK(m, n) => MachineOK(m, o)
           /\ Calm(m, n) => Calm(m, o)
<1>1. 1 .. n - 1 \subseteq 1 .. o - 1
  OBVIOUS
<1> QED  BY <1>1 DEF MachineOK, Calm, ChoicesOK

\* What the choices are like does not depend on the goals.
LEMMA SameChoices ==
    ASSUME NEW m, NEW k, NEW n, ChoicesOK(m, n), k.choices = m.choices,
           k.bindings = m.bindings
    PROVE  ChoicesOK(k, n)
  BY DEF ChoicesOK

LEMMA ChoiceTypes ==
    ASSUME NEW m \in Machines
    PROVE  /\ m.choices \in Seq(ChoicePoints) /\ Len(m.choices) \in Nat
           /\ DOMAIN m.choices = 1 .. Len(m.choices)
           /\ \A j \in DOMAIN m.choices :
                /\ m.choices[j] \in ChoicePoints
                /\ m.choices[j].bsp \in Nat
                /\ m.choices[j].goals \in Seq(Goals)
                /\ m.choices[j].queries \in Seq(Terms)
                /\ m.choices[j].alternatives \in Seq(Seq(Goals))
<1>1. m.choices \in Seq(ChoicePoints)
  BY DEF Machines
<1>2. \A j \in DOMAIN m.choices : m.choices[j] \in ChoicePoints
  BY <1>1
<1> QED  BY <1>1, <1>2 DEF ChoicePoints

\* An entry of the bindings more changes nothing.
LEMMA Bound ==
    ASSUME NEW n \in Nat, NEW m, NEW b \in Entries
    PROVE  LET k == [m EXCEPT !.bindings = Append(@, b)]
           IN  /\ Calm(m, n) => Calm(k, n)
               /\ Ready(m, n) => Ready(k, n)
               /\ StaysReady(m, n) => StaysReady(k, n)
<1> DEFINE k == [m EXCEPT !.bindings = Append(@, b)]
<1>1. ASSUME m \in Machines
      PROVE  /\ k \in Machines /\ k.goals = m.goals /\ k.choices = m.choices
             /\ k.queries = m.queries /\ k.calls = m.calls /\ k.fault = m.fault
             /\ k.yielded = m.yielded
             /\ Len(k.bindings) = Len(m.bindings) + 1 /\ Len(m.bindings) \in Nat
  <2>1. m.bindings \in Seq(Entries)
    BY <1>1 DEF Machines
  <2>2. /\ Append(m.bindings, b) \in Seq(Entries)
        /\ Len(Append(m.bindings, b)) = Len(m.bindings) + 1
        /\ Len(m.bindings) \in Nat
    BY <2>1
  <2> QED  BY <1>1, <2>2 DEF Machines
<1>2. ASSUME Calm(m, n) PROVE Calm(k, n)
  <2>1. m \in Machines
    BY <1>2 DEF Calm
  <2>2. \A j \in DOMAIN m.choices : m.choices[j].bsp \in Nat
    BY <2>1, ChoiceTypes
  <2>3. ChoicesOK(k, n)
    <3>1. ChoicesOK(m, n) /\ k.choices = m.choices
          /\ Len(k.bindings) = Len(m.bindings) + 1 /\ Len(m.bindings) \in Nat
      BY <1>2, <2>1, <1>1 DEF Calm
    <3>2. \A j \in DOMAIN m.choices : m.choices[j].bsp <= Len(k.bindings)
      BY <3>1, <2>2 DEF ChoicesOK
    <3> QED  BY <3>1, <3>2 DEF ChoicesOK
  <2> QED  BY <2>1, <1>1, <1>2, <2>3 DEF Calm
<1>3. m \in Machines /\ (Ready(m, n) => Ready(k, n))
        => (StaysReady(m, n) => StaysReady(k, n))
  BY <1>1 DEF StaysReady
<1> QED  BY <1>1, <1>2, <1>3 DEF Ready, Calm, StaysReady

\* So does a new call id.
LEMMA NewId ==
    ASSUME NEW n \in Nat \ {0}, NEW m
    PROVE  LET k == NewCallId(m, n)
           IN  /\ Calm(m, n) => Calm(k, n + 1) /\ n \in k.calls /\ Unawaited(k, n)
               /\ StaysReady(m, n) => StaysReady(k, n + 1)
<1> DEFINE k == NewCallId(m, n)
<1>1. ASSUME m \in Machines
      PROVE  /\ k \in Machines /\ k.goals = m.goals /\ k.choices = m.choices
             /\ k.queries = m.queries /\ k.calls = m.calls \cup {n}
             /\ k.fault = m.fault /\ k.yielded = m.yielded
             /\ k.bindings = m.bindings
  BY <1>1 DEF Machines, NewCallId
<1>2. ASSUME Calm(m, n) PROVE Calm(k, n + 1) /\ n \in k.calls /\ Unawaited(k, n)
  <2>1. m \in Machines /\ Calm(m, n + 1)
    <3>1. n + 1 \in Nat /\ n <= n + 1
      OBVIOUS
    <3> QED  BY <1>2, <3>1, MoreIds DEF Calm
  <2>2. ChoicesOK(k, n + 1)
    BY <2>1, <1>1, SameChoices DEF Calm
  <2>3. Unawaited(k, n)
    <3>1. n \notin 1 .. n - 1
      OBVIOUS
    <3>2. k.choices = m.choices /\ ChoicesOK(m, n)
      BY <1>2, <1>1, <2>1 DEF Calm
    <3> QED  BY <3>1, <3>2 DEF ChoicesOK, Unawaited
  <2>4. k.calls \subseteq 1 .. n + 1 - 1 /\ n \in k.calls
    <3>1. m.calls \subseteq 1 .. n - 1 /\ k.calls = m.calls \cup {n}
      BY <2>1, <1>1, <1>2 DEF Calm
    <3>2. (1 .. n - 1) \cup {n} = 1 .. n + 1 - 1
      OBVIOUS
    <3> QED  BY <3>1, <3>2
  <2>5. /\ k \in Machines /\ k.goals = m.goals /\ k.choices = m.choices
        /\ k.queries = m.queries /\ m.calls \subseteq k.calls
        /\ k.fault = m.fault /\ k.yielded = m.yielded
    BY <2>1, <1>1
  <2>6. Calm(k, n + 1)
    <3>1. \A j \in DOMAIN k.choices : Awaited(k.choices[j]) \subseteq k.calls
      BY <1>2, <2>5 DEF Calm
    <3>2. \A i \in DOMAIN k.goals :
            \/ k.goals[i] \in Saved
            \/ /\ i = Len(k.goals) /\ k.goals[i] \in CutGoals
               /\ k.goals[i].choice_index <= Len(k.choices)
      BY <1>2, <2>5 DEF Calm
    <3>3. /\ k \in Machines /\ k.fault = "" /\ ~k.yielded /\ Len(k.goals) <= StackLimit
          /\ Balanced(k.goals, k.queries)
          /\ k.goals # <<>> => k.goals[1] = PopQueryG
      BY <1>2, <2>5 DEF Calm
    <3> HIDE DEF k
    <3>4. k \in Machines /\ k.fault = "" /\ ~k.yielded
      BY <3>3
    <3>5. Len(k.goals) <= StackLimit /\ Balanced(k.goals, k.queries)
      BY <3>3
    <3>6. k.calls \subseteq 1 .. (n + 1) - 1
      BY <2>4
    <3>7. k.goals # <<>> => k.goals[1] = PopQueryG
      BY <3>3
    <3>8. ChoicesOK(k, n + 1)
      BY <2>2
    <3> QED  BY <3>1, <3>2, <3>4, <3>5, <3>6, <3>7, <3>8 DEF Calm
  <2> QED  BY <2>3, <2>4, <2>6
<1>3. m \in Machines /\ (Ready(m, n) => Ready(k, n + 1))
        => (StaysReady(m, n) => StaysReady(k, n + 1))
  BY <1>1 DEF StaysReady
<1>4. ASSUME Ready(m, n) PROVE Ready(k, n + 1)
  BY <1>4, <1>1, <1>2 DEF Ready, Calm
<1> QED  BY <1>1, <1>2, <1>3, <1>4 DEF StaysReady

(***************************************************************************)
(* Goals that are pushed                                                   *)
(***************************************************************************)

\* What may be pushed on the goals of m, the first of them on top.
MayPush(m, gs) ==
    /\ \A i \in 1 .. Len(gs) :
            \/ gs[i] \in PlainGoals
            \/ i = 1 /\ gs[i] \in AskGoals /\ gs[i].id \in m.calls /\ Unawaited(m, gs[i].id)
            \/ i = 1 /\ gs[i] \in CutGoals /\ gs[i].choice_index <= Len(m.choices)
            \/ /\ i = 2 /\ gs[i] \in CutGoals /\ gs[i].choice_index <= Len(m.choices)
               /\ gs[1].goal \in AboveCut
    /\ \A j \in DOMAIN m.choices : \A id \in Awaited(m.choices[j]) :
            \/ id \in m.calls
            \/ Len(gs) >= 1 /\ gs[1] \in CutGoals /\ gs[1].choice_index < j
            \/ /\ Len(gs) >= 2 /\ gs[2] \in CutGoals /\ gs[2].choice_index < j
               /\ gs[1].goal = "CheckError"

\* A machine that goals may be pushed on, but for ids that are not known.
Pushable(m, n) ==
    /\ m \in Machines /\ m.fault = "" /\ ~m.yielded
    /\ m.calls \subseteq 1 .. n - 1
    /\ Balanced(m.goals, m.queries)
    /\ m.goals \in Seq(Saved) /\ m.goals # <<>> /\ m.goals[1] = PopQueryG
    /\ ChoicesOK(m, n)

LEMMA Pushed ==
    ASSUME NEW n \in Nat, NEW m, NEW gs \in Seq(Goals), NEW G,
           Pushable(m, n), MayPush(m, gs), Len(m.goals) + Len(gs) <= StackLimit,
           G = Push(m.goals, gs)
    PROVE  MachineOK([m EXCEPT !.goals = G], n)
<1> DEFINE k == [m EXCEPT !.goals = G]
<1> DEFINE L == Len(m.goals)
<1> DEFINE K == Len(gs)
<1>1. /\ m.goals \in Seq(Goals) /\ L \in Nat \ {0} /\ K \in Nat
      /\ G \in Seq(Goals) /\ Len(G) = L + K /\ DOMAIN G = 1 .. L + K
      /\ \A i \in 1 .. L : G[i] = m.goals[i]
      /\ \A i \in 1 .. K : G[L + K - i + 1] = gs[i]
      /\ \A i \in DOMAIN G : i \in 1 .. L \/ \E q \in 1 .. K : i = L + K - q + 1
  <2>1. m.goals \in Seq(Goals) /\ m.goals # <<>>
    BY DEF Pushable, Machines
  <2>2. L \in Nat \ {0} /\ K \in Nat
    BY <2>1
  <2>3. G \in Seq(Goals) /\ IsPushed(G, m.goals, gs, L, K)
    BY <2>1, PushedProps
  <2> QED  BY <2>1, <2>2, <2>3 DEF IsPushed
<1>s. \A i \in 1 .. L : m.goals[i] \in Saved
  <2>1. m.goals \in Seq(Saved)
    BY DEF Pushable
  <2> QED  BY <2>1
<1>d. DOMAIN m.goals = 1 .. L
  BY <1>1 DEF L
<1> HIDE DEF L, K
<1>p. \A i \in DOMAIN G :
        \/ i \in 1 .. L /\ G[i] = m.goals[i] /\ G[i] \in Saved
        \/ \E q \in 1 .. K : i = L + K - q + 1 /\ G[i] = gs[q]
  BY <1>1, <1>s
<1>m. \A i \in 1 .. K :
        \/ gs[i] \in PlainGoals
        \/ i = 1 /\ gs[i] \in AskGoals /\ gs[i].id \in m.calls /\ Unawaited(m, gs[i].id)
        \/ i = 1 /\ gs[i] \in CutGoals /\ gs[i].choice_index <= Len(m.choices)
        \/ /\ i = 2 /\ gs[i] \in CutGoals /\ gs[i].choice_index <= Len(m.choices)
           /\ gs[1].goal \in AboveCut
  BY DEF MayPush, K
<1>2. /\ k \in Machines /\ k.goals = G /\ k.choices = m.choices
      /\ k.queries = m.queries /\ k.calls = m.calls /\ k.fault = ""
      /\ k.bindings = m.bindings /\ k.yielded = m.yielded
  BY <1>1 DEF Pushable, Machines
<1>3. \A i \in 1 .. K : gs[i] \in Goals /\ gs[i].goal \notin {"PopQuery", "Halt"}
  BY GoalTypes, <1>m
<1>4. Balanced(G, m.queries)
  <2>1. Pops(G) = Pops(m.goals)
    <3>1. \A i \in DOMAIN G : G[i].goal = "PopQuery" => i \in 1 .. L
      BY <1>3, <1>p
    <3>2. 1 .. L \subseteq DOMAIN G /\ DOMAIN m.goals = 1 .. L
      BY <1>1, <1>d
    <3> QED  BY <1>1, <3>1, <3>2 DEF Pops
  <2> QED  BY <2>1 DEF Pushable, Balanced
<1>5. Bottom(k)
  <2>1. G[1] = m.goals[1]
    BY <1>1
  <2> QED  BY <2>1, <1>2 DEF Pushable, Bottom
<1>6. GoalsOK(G, m.choices)
  <2>1. ASSUME NEW i \in DOMAIN G, i < Len(G)
        PROVE  \/ G[i] \in Saved
               \/ /\ G[i] \in CutGoals
                  /\ i = Len(G) - 1 /\ G[i + 1].goal \in AboveCut
    <3> SUFFICES ASSUME G[i] \notin Saved
                 PROVE  /\ G[i] \in CutGoals
                        /\ i = Len(G) - 1 /\ G[i + 1].goal \in AboveCut
      OBVIOUS
    <3>1. PICK q \in 1 .. K : i = L + K - q + 1 /\ G[i] = gs[q]
      BY <1>p
    <3>2. q # 1
      BY <1>1, <2>1, <3>1
    <3>3. q = 2 /\ gs[q] \in CutGoals /\ gs[1].goal \in AboveCut
      BY <3>1, <3>2, GoalTypes, <1>m
    <3>4. i = Len(G) - 1 /\ i + 1 = L + K - 1 + 1 /\ 1 \in 1 .. K
      BY <1>1, <3>1, <3>3
    <3>5. G[i + 1] = gs[1]
      BY <1>1, <3>4
    <3> QED  BY <3>1, <3>3, <3>4, <3>5
  <2>2. ASSUME NEW i \in DOMAIN G, G[i].goal = "Cut"
        PROVE  G[i].choice_index <= Len(m.choices)
    <3>1. G[i] \notin Saved
      BY <2>2, GoalTypes DEF Saved
    <3>2. PICK q \in 1 .. K : G[i] = gs[q]
      BY <3>1, <1>p
    <3> QED  BY <2>2, <3>2, GoalTypes, <1>m
  <2> QED  BY <2>1, <2>2 DEF GoalsOK
<1>t. /\ K >= 1 => G[L + K] = gs[1]
      /\ K >= 2 => G[L + K - 1] = gs[2]
  <2>1. K >= 1 => 1 \in 1 .. K /\ L + K - 1 + 1 = L + K
    BY <1>1
  <2>2. K >= 2 => 2 \in 1 .. K /\ L + K - 2 + 1 = L + K - 1
    BY <1>1
  <2> QED  BY <1>1, <2>1, <2>2
<1>7. ChoicesOK(k, n)
  BY <1>2, SameChoices DEF Pushable
<1>8. Known(k)
  <2> SUFFICES ASSUME NEW j \in DOMAIN m.choices, NEW id \in Awaited(m.choices[j]),
                      id \notin m.calls
               PROVE  Doomed(G, j)
    BY <1>2 DEF Known
  <2>1. CASE K >= 1 /\ gs[1] \in CutGoals /\ gs[1].choice_index < j
    <3>1. L + K \in DOMAIN G /\ L + K = Len(G)
      BY <1>1, <2>1
    <3> QED  BY <3>1, <2>1, <1>t, GoalTypes DEF Doomed
  <2>2. CASE /\ K >= 2 /\ gs[2] \in CutGoals /\ gs[2].choice_index < j
             /\ gs[1].goal = "CheckError"
    <3>1. /\ L + K - 1 \in DOMAIN G /\ L + K - 1 = Len(G) - 1 /\ (L + K - 1) + 1 = L + K
          /\ K >= 1 /\ G[(L + K - 1) + 1] = gs[1] /\ G[L + K - 1] = gs[2]
      BY <1>1, <1>t, <2>2
    <3>2. G[L + K - 1].goal = "Cut" /\ G[L + K - 1].choice_index < j
          /\ G[(L + K - 1) + 1].goal = "CheckError"
      BY <3>1, <2>2, GoalTypes
    <3> QED  BY <3>1, <3>2 DEF Doomed
  <2> QED  BY <2>1, <2>2 DEF MayPush, K
<1>9. Asking(k)
  <2> SUFFICES ASSUME G[Len(G)] \in AskGoals
               PROVE  G[Len(G)].id \in m.calls /\ Unawaited(m, G[Len(G)].id)
    BY <1>2 DEF Asking, Unawaited
  <2>1. CASE K = 0
    <3>1. L \in 1 .. L /\ Len(G) = L /\ L \in DOMAIN G
      BY <1>1, <2>1
    <3>2. G[Len(G)] \in Saved
      BY <1>1, <1>s, <3>1
    <3> QED  BY <3>2, GoalTypes DEF Saved
  <2>2. CASE K # 0
    <3>1. G[Len(G)] = gs[1] /\ 1 \in 1 .. K
      BY <1>1, <1>t, <2>2
    <3> QED  BY <3>1, GoalTypes, <1>m
  <2> QED  BY <2>1, <2>2
<1> HIDE DEF k
<1> QED
  <2>1. k.calls \subseteq 1 .. n - 1 /\ ~k.yielded /\ Len(k.goals) <= StackLimit
    <3>1. Len(G) <= StackLimit
      BY <1>1 DEF L, K
    <3> QED  BY <3>1, <1>2 DEF Pushable
  <2>2. k \in Machines /\ k.fault = "" /\ Balanced(k.goals, k.queries)
    BY <1>2, <1>4
  <2>3. GoalsOK(k.goals, k.choices)
    BY <1>2, <1>6
  <2>4. MachineOK(k, n)
    BY <2>1, <2>2, <2>3, <1>5, <1>7, <1>8, <1>9 DEF MachineOK
  <2> QED  BY <2>4 DEF k

\* A machine that fails keeps its type.
LEMMA Failed ==
    ASSUME NEW m \in Machines, NEW f \in Faults
    PROVE  Faulty(m, f) \in Machines /\ Faulty(m, f).fault = f
  BY DEF Machines, Faulty

LEMMA AppendIsPush ==
    ASSUME NEW S, NEW s \in Seq(S), NEW g \in S
    PROVE  Append(s, g) = Push(s, <<g>>)
<1>1. <<g>> \in Seq(S) /\ Len(<<g>>) = 1 /\ <<g>>[1] = g
  OBVIOUS
<1>2. Push(s, <<g>>) \in Seq(S) /\ IsPushed(Push(s, <<g>>), s, <<g>>, Len(s), 1)
  BY <1>1, PushedProps
<1>3. Append(s, g) \in Seq(S) /\ Len(Append(s, g)) = Len(s) + 1
      /\ \A i \in 1 .. Len(s) : Append(s, g)[i] = s[i]
      /\ Append(s, g)[Len(s) + 1] = g /\ Len(s) \in Nat
  OBVIOUS
<1>4. Len(Push(s, <<g>>)) = Len(s) + 1 /\ Push(s, <<g>>)[Len(s) + 1] = g
      /\ \A i \in 1 .. Len(s) : Push(s, <<g>>)[i] = s[i]
  <2>1. 1 \in 1 .. 1 /\ Len(s) + 1 - 1 + 1 = Len(s) + 1
    BY <1>3
  <2> QED  BY <1>1, <1>2, <2>1 DEF IsPushed
<1>5. \A i \in 1 .. Len(s) + 1 : Append(s, g)[i] = Push(s, <<g>>)[i]
  BY <1>3, <1>4
<1> QED  BY <1>2, <1>3, <1>4, <1>5, SeqEqual

LEMMA GoalsPushed ==
    ASSUME NEW n \in Nat, NEW m, NEW gs \in Seq(Goals), Pushable(m, n), MayPush(m, gs)
    PROVE  Fine(AppendGoals(m, gs), n)
<1>1. m \in Machines /\ m.fault = ""
  BY DEF Pushable
<1>2. "StackOverflow" \in Faults /\ "" \in Faults
  BY DEF Faults
<1>3. CASE Len(m.goals) + Len(gs) > StackLimit
  <2>1. AppendGoals(m, gs) = Faulty(m, "StackOverflow")
    BY <1>3 DEF AppendGoals
  <2> QED  BY <2>1, <1>1, <1>2, Failed DEF Fine
<1>4. CASE ~(Len(m.goals) + Len(gs) > StackLimit)
  <2> DEFINE k == [m EXCEPT !.goals = Push(m.goals, gs)]
  <2>1. AppendGoals(m, gs) = k
    BY <1>4 DEF AppendGoals, Push
  <2>2. Len(m.goals) + Len(gs) <= StackLimit
    <3>1. Len(m.goals) \in Nat /\ Len(gs) \in Nat
      <4>1. m.goals \in Seq(Goals)
        BY <1>1 DEF Machines
      <4> QED  BY <4>1
    <3> QED  BY <1>4, <3>1, StackLimitAssumption
  <2>3. MachineOK(k, n)
    BY <2>2, Pushed
  <2> HIDE DEF k
  <2>4. k \in Machines /\ k.fault = ""
    BY <2>3 DEF MachineOK
  <2> QED  BY <2>1, <2>3, <2>4, <1>2 DEF Fine
<1> QED  BY <1>3, <1>4

LEMMA GoalPushed ==
    ASSUME NEW n \in Nat, NEW m, NEW g \in Goals, Pushable(m, n), MayPush(m, <<g>>)
    PROVE  Fine(PushGoal(m, g), n)
<1>1. m \in Machines /\ m.goals \in Seq(Goals) /\ <<g>> \in Seq(Goals) /\ Len(<<g>>) = 1
      /\ Len(m.goals) \in Nat
  <2>1. m \in Machines /\ m.goals \in Seq(Goals)
    BY DEF Pushable, Machines
  <2> QED  BY <2>1
<1>2. PushGoal(m, g) = AppendGoals(m, <<g>>)
  <2>1. Len(m.goals) >= StackLimit <=> Len(m.goals) + Len(<<g>>) > StackLimit
    BY <1>1, StackLimitAssumption
  <2>2. Append(m.goals, g) = m.goals \o Reverse(<<g>>)
    BY <1>1, AppendIsPush DEF Push
  <2> QED  BY <2>1, <2>2 DEF PushGoal, AppendGoals
<1> QED  BY <1>1, <1>2, GoalsPushed

LEMMA PushTyped ==
    ASSUME NEW m \in Machines
    PROVE  /\ \A gs \in Seq(Goals) :
                /\ AppendGoals(m, gs) \in Machines
                /\ m.fault # "" => AppendGoals(m, gs).fault # ""
           /\ \A g \in Goals :
                /\ PushGoal(m, g) \in Machines
                /\ m.fault # "" => PushGoal(m, g).fault # ""
           /\ \A alternatives \in Seq(Seq(Goals)) :
                /\ PushChoice(m, alternatives) \in Machines
                /\ m.fault # "" => PushChoice(m, alternatives).fault # ""
<1>1. "StackOverflow" \in Faults /\ "StackOverflow" # ""
  BY DEF Faults
<1>2. m.goals \in Seq(Goals) /\ m.choices \in Seq(ChoicePoints)
      /\ m.bindings \in Seq(Entries) /\ m.queries \in Seq(Terms)
  BY DEF Machines
<1>3. ASSUME NEW gs \in Seq(Goals)
      PROVE  /\ AppendGoals(m, gs) \in Machines
             /\ m.fault # "" => AppendGoals(m, gs).fault # ""
  <2>1. m.goals \o Reverse(gs) \in Seq(Goals)
    <3>1. Reverse(gs) \in Seq(Goals)
      BY ReverseProps
    <3> QED  BY <1>2, <3>1
  <2> DEFINE G == m.goals \o Reverse(gs)
  <2>2. AppendGoals(m, gs) = Faulty(m, "StackOverflow")
            \/ AppendGoals(m, gs) = [m EXCEPT !.goals = G]
    BY DEF AppendGoals
  <2> HIDE DEF G
  <2>3. [m EXCEPT !.goals = G] \in Machines /\ [m EXCEPT !.goals = G].fault = m.fault
    BY <2>1 DEF Machines, G
  <2> QED  BY <2>2, <2>3, <1>1, Failed
<1>4. ASSUME NEW g \in Goals
      PROVE  /\ PushGoal(m, g) \in Machines
             /\ m.fault # "" => PushGoal(m, g).fault # ""
  <2> DEFINE G == Append(m.goals, g)
  <2>1. G \in Seq(Goals)
    BY <1>2
  <2>2. PushGoal(m, g) = Faulty(m, "StackOverflow")
            \/ PushGoal(m, g) = [m EXCEPT !.goals = G]
    BY DEF PushGoal
  <2> HIDE DEF G
  <2>3. [m EXCEPT !.goals = G] \in Machines /\ [m EXCEPT !.goals = G].fault = m.fault
    BY <2>1 DEF Machines
  <2> QED  BY <2>2, <2>3, <1>1, Failed
<1>5. ASSUME NEW alternatives \in Seq(Seq(Goals))
      PROVE  /\ PushChoice(m, alternatives) \in Machines
             /\ m.fault # "" => PushChoice(m, alternatives).fault # ""
  <2> DEFINE c == [alternatives |-> alternatives, bsp |-> Len(m.bindings),
                   goals |-> m.goals, queries |-> m.queries]
  <2> DEFINE C == Append(m.choices, c)
  <2>1. c \in ChoicePoints
    <3>1. Len(m.bindings) \in Nat
      BY <1>2
    <3> QED  BY <1>2, <3>1 DEF ChoicePoints
  <2>2. PushChoice(m, alternatives) = Faulty(m, "StackOverflow")
            \/ PushChoice(m, alternatives) = [m EXCEPT !.choices = C]
    BY DEF PushChoice
  <2> HIDE DEF c
  <2>3. C \in Seq(ChoicePoints)
    BY <1>2, <2>1
  <2> HIDE DEF C
  <2>4. [m EXCEPT !.choices = C] \in Machines /\ [m EXCEPT !.choices = C].fault = m.fault
    BY <2>3 DEF Machines
  <2> QED  BY <2>2, <2>4, <1>1, Failed
<1> QED  BY <1>3, <1>4, <1>5

LEMMA ReadyPushable == \A m, n : Ready(m, n) => Pushable(m, n) /\ MachineOK(m, n)
  BY CalmOK DEF Ready, Calm, Pushable

LEMMA PlainMayPush ==
    ASSUME NEW n \in Nat, NEW m, Ready(m, n), NEW gs \in Seq(PlainGoals)
    PROVE  MayPush(m, gs)
<1>1. \A i \in 1 .. Len(gs) : gs[i] \in PlainGoals
  OBVIOUS
<1>2. \A j \in DOMAIN m.choices : \A id \in Awaited(m.choices[j]) : id \in m.calls
  BY DEF Ready, Calm
<1> QED  BY <1>1, <1>2 DEF MayPush

\* With plain goals on top, the machine is as ready as before.
LEMMA PlainPushed ==
    ASSUME NEW n \in Nat, NEW m, StaysReady(m, n)
    PROVE  /\ \A gs \in Seq(PlainGoals) : StaysReady(AppendGoals(m, gs), n)
           /\ \A g \in PlainGoals : StaysReady(PushGoal(m, g), n)
<1>1. m \in Machines
  BY DEF StaysReady
<1>2. ASSUME NEW gs \in Seq(PlainGoals) PROVE StaysReady(AppendGoals(m, gs), n)
  <2>1. gs \in Seq(Goals) /\ \A i \in 1 .. Len(gs) : gs[i] \in Saved
    BY GoalTypes
  <2>2. CASE m.fault # ""
    <3>1. AppendGoals(m, gs) \in Machines /\ AppendGoals(m, gs).fault # ""
      BY <1>1, <2>1, <2>2, PushTyped
    <3>2. AppendGoals(m, gs).fault \in Faults
      BY <3>1 DEF Machines
    <3> QED  BY <3>1, <3>2 DEF StaysReady
  <2>3. CASE m.fault = ""
    <3> DEFINE k == AppendGoals(m, gs)
    <3>1. Ready(m, n)
      BY <2>3 DEF StaysReady
    <3>2. Fine(k, n)
      BY <3>1, <2>1, ReadyPushable, PlainMayPush, GoalsPushed
    <3>3. ASSUME k.fault = "" PROVE Ready(k, n)
      <4>1. k = [m EXCEPT !.goals = Push(m.goals, gs)]
        <5>1. Faulty(m, "StackOverflow").fault = "StackOverflow"
          BY <1>1, Failed DEF Faults
        <5> QED  BY <3>3, <5>1 DEF AppendGoals, Push
      <4>2. /\ k.goals = Push(m.goals, gs) /\ k.choices = m.choices
            /\ k.calls = m.calls /\ k.yielded = m.yielded
        BY <4>1, <1>1 DEF Machines
      <4>3. m.goals \in Seq(Saved) /\ m.goals # <<>> /\ m.goals[1] = PopQueryG
        BY <3>1 DEF Ready, Calm
      <4>4. gs \in Seq(Saved)
        BY GoalTypes
      <4>5. /\ k.goals \in Seq(Saved)
            /\ IsPushed(k.goals, m.goals, gs, Len(m.goals), Len(gs))
        BY <4>2, <4>3, <4>4, PushedProps
      <4>6. k.goals # <<>> /\ k.goals[1] = PopQueryG
        <5>1. Len(m.goals) \in Nat \ {0} /\ Len(gs) \in Nat
          BY <4>3
        <5>2. Len(k.goals) # 0 /\ k.goals[1] = m.goals[1]
          BY <4>5, <5>1 DEF IsPushed
        <5> QED  BY <4>3, <5>2
      <4>7. \A j \in DOMAIN k.choices : Awaited(k.choices[j]) \subseteq k.calls
        BY <3>1, <4>2 DEF Ready, Calm
      <4>8. MachineOK(k, n) /\ ~k.yielded
        BY <3>2, <3>3, <3>1, <4>2 DEF Fine, Ready, Calm
      <4>9. \A i \in DOMAIN k.goals : k.goals[i] \in Saved
        BY <4>5
      <4> HIDE DEF k
      <4>10. Calm(k, n)
        BY <4>6, <4>7, <4>8, <4>9 DEF MachineOK, Calm
      <4> QED  BY <4>5, <4>6, <4>10 DEF Ready
    <3>4. k \in Machines
      BY <1>1, <2>1, PushTyped
    <3> QED  BY <3>2, <3>3, <3>4 DEF Fine, StaysReady
  <2> QED  BY <2>2, <2>3
<1>3. ASSUME NEW g \in PlainGoals PROVE StaysReady(PushGoal(m, g), n)
  <2>1. m.goals \in Seq(Goals) /\ g \in Goals /\ <<g>> \in Seq(PlainGoals)
    BY <1>1, GoalTypes DEF Machines
  <2>2. PushGoal(m, g) = AppendGoals(m, <<g>>)
    <3>1. Len(m.goals) >= StackLimit <=> Len(m.goals) + Len(<<g>>) > StackLimit
      BY <2>1, StackLimitAssumption
    <3>2. Append(m.goals, g) = m.goals \o Reverse(<<g>>)
      BY <2>1, AppendIsPush DEF Push
    <3> QED  BY <3>1, <3>2 DEF PushGoal, AppendGoals
  <2> QED  BY <2>1, <2>2, <1>2
<1> QED  BY <1>2, <1>3

(***************************************************************************)
(* Choices                                                                 *)
(***************************************************************************)

\* A choice may be made by a machine that is ready.
LEMMA ChoicePushed ==
    ASSUME NEW n \in Nat, NEW m, Ready(m, n),
           NEW alternatives \in Seq(Seq(Goals)),
           \A a \in DOMAIN alternatives :
                /\ AlternativeOK(alternatives[a], Len(m.choices))
                /\ Len(m.goals) + Len(alternatives[a]) <= StackLimit,
           AwaitedIn(alternatives) # {} => Len(alternatives) = 1,
           \A id \in AwaitedIn(alternatives) : id \in m.calls /\ Unawaited(m, id)
    PROVE  LET k == PushChoice(m, alternatives)
           IN  /\ StaysReady(k, n)
               /\ k.fault = "" => /\ Len(k.choices) = Len(m.choices) + 1
                                  /\ k.goals = m.goals /\ k.calls = m.calls
<1> DEFINE c == [alternatives |-> alternatives, bsp |-> Len(m.bindings),
                 goals |-> m.goals, queries |-> m.queries]
<1> DEFINE C == Append(m.choices, c)
<1> DEFINE k == [m EXCEPT !.choices = C]
<1> DEFINE L == Len(m.choices)
<1>1. m \in Machines /\ m.fault = "" /\ ChoicesOK(m, n)
  BY DEF Ready, Calm
<1>2. CASE Len(m.choices) >= StackLimit
  <2>1. PushChoice(m, alternatives) = Faulty(m, "StackOverflow")
    BY <1>2 DEF PushChoice
  <2>2. "StackOverflow" \in Faults /\ "StackOverflow" # ""
    BY DEF Faults
  <2> QED  BY <2>1, <2>2, <1>1, Failed DEF StaysReady
<1>3. CASE ~(Len(m.choices) >= StackLimit)
  <2>1. PushChoice(m, alternatives) = k
    BY <1>3 DEF PushChoice
  <2>2. /\ c.alternatives = alternatives /\ c.bsp = Len(m.bindings)
        /\ c.goals = m.goals /\ c.queries = m.queries
    OBVIOUS
  <2>3. m.bindings \in Seq(Entries) /\ m.goals \in Seq(Goals) /\ m.queries \in Seq(Terms)
        /\ m.choices \in Seq(ChoicePoints)
    BY <1>1 DEF Machines
  <2>4. c \in ChoicePoints /\ Len(m.bindings) \in Nat /\ L \in Nat
    BY <2>3 DEF ChoicePoints
  <2> HIDE DEF c
  <2>5. /\ C \in Seq(ChoicePoints) /\ Len(C) = L + 1 /\ DOMAIN C = 1 .. L + 1
        /\ \A j \in 1 .. L : C[j] = m.choices[j]
        /\ C[L + 1] = c /\ DOMAIN m.choices = 1 .. L
    BY <2>3, <2>4
  <2> HIDE DEF C
  <2>6. /\ k \in Machines /\ k.choices = C /\ k.goals = m.goals
        /\ k.queries = m.queries /\ k.bindings = m.bindings /\ k.calls = m.calls
        /\ k.fault = m.fault /\ k.yielded = m.yielded
    BY <2>5, <1>1 DEF Machines
  <2> HIDE DEF L, k
  <2>7. \A j \in 1 .. L + 1 : j \in 1 .. L \/ j = L + 1
    BY <2>4
  <2>8. ChoiceOK(c, L)
    BY <2>2 DEF Ready, Calm, ChoiceOK, L
  <2>9. Awaited(c) = AwaitedIn(alternatives)
    BY <2>2 DEF Awaited
  <2>10. ASSUME NEW j \in 1 .. L + 1
         PROVE  /\ ChoiceOK(C[j], j - 1)
                /\ Awaited(C[j]) # {} => Len(C[j].alternatives) = 1
                /\ C[j].bsp <= Len(m.bindings)
                /\ \A i \in 1 .. j : C[i].bsp <= C[j].bsp
    <3>1. CASE j \in 1 .. L
      <4>1. C[j] = m.choices[j] /\ \A i \in 1 .. j : C[i] = m.choices[i] /\ i \in 1 .. L
        BY <2>4, <2>5, <3>1
      <4> QED  BY <4>1, <1>1, <2>5, <3>1 DEF ChoicesOK
    <3>2. CASE j = L + 1
      <4>1. C[j] = c /\ j - 1 = L
        BY <2>4, <2>5, <3>2
      <4>2. \A i \in 1 .. j : C[i].bsp <= C[j].bsp
        <5>1. \A i \in 1 .. L : C[i].bsp <= Len(m.bindings)
          BY <2>5, <1>1 DEF ChoicesOK
        <5> QED  BY <5>1, <4>1, <2>2, <2>4, <2>7, <3>2
      <4> QED  BY <4>1, <4>2, <2>2, <2>4, <2>8, <2>9
    <3> QED  BY <3>1, <3>2, <2>7
  <2>11. ASSUME NEW j \in 1 .. L + 1, NEW id \in Awaited(C[j])
         PROVE  /\ id \in 1 .. n - 1 /\ id \in m.calls
                /\ \A i \in 1 .. L + 1 : i # j => id \notin Awaited(C[i])
    <3>1. CASE j \in 1 .. L
      <4>1. id \in Awaited(m.choices[j])
        BY <3>1, <2>5, <2>11
      <4>2. id \in m.calls /\ id \in 1 .. n - 1
        BY <4>1, <3>1, <2>5 DEF Ready, Calm, ChoicesOK
      <4>3. id \notin Awaited(C[L + 1])
        BY <4>1, <3>1, <2>5, <2>9 DEF Unawaited
      <4>4. \A i \in 1 .. L : i # j => id \notin Awaited(C[i])
        BY <4>1, <3>1, <2>5, <1>1 DEF ChoicesOK
      <4> QED  BY <4>2, <4>3, <4>4, <2>7
    <3>2. CASE j = L + 1
      <4>1. id \in AwaitedIn(alternatives)
        BY <3>2, <2>5, <2>9, <2>11
      <4>2. id \in m.calls /\ Unawaited(m, id)
        BY <4>1
      <4>3. id \in 1 .. n - 1
        BY <4>2 DEF Ready, Calm
      <4>4. \A i \in 1 .. L : id \notin Awaited(C[i])
        BY <4>2, <2>5 DEF Unawaited
      <4> QED  BY <4>2, <4>3, <4>4, <3>2, <2>7
    <3> QED  BY <3>1, <3>2, <2>7
  <2>12. ChoicesOK(k, n)
    <3>1. Len(k.choices) <= StackLimit
      BY <1>3, <2>4, <2>5, <2>6, StackLimitAssumption DEF L
    <3> QED  BY <3>1, <2>5, <2>6, <2>10, <2>11 DEF ChoicesOK
  <2>13. \A j \in DOMAIN k.choices : Awaited(k.choices[j]) \subseteq k.calls
    BY <2>5, <2>6, <2>11
  <2>14. \A i \in DOMAIN k.goals : k.goals[i] \in Saved
    BY <2>6 DEF Ready
  <2>15. Calm(k, n)
    <3>1. /\ k.fault = "" /\ ~k.yielded /\ Len(k.goals) <= StackLimit
          /\ k.calls \subseteq 1 .. n - 1 /\ Balanced(k.goals, k.queries)
      BY <2>6 DEF Ready, Calm
    <3>2. k.goals # <<>> => k.goals[1] = PopQueryG
      BY <2>6 DEF Ready, Calm
    <3> QED  BY <2>6, <2>12, <2>13, <2>14, <3>1, <3>2 DEF Calm
  <2>16. Ready(k, n)
    BY <2>6, <2>15 DEF Ready
  <2>17. StaysReady(k, n) /\ Len(k.choices) = L + 1
    BY <2>5, <2>6, <2>16, <1>1 DEF StaysReady, Faults
  <2> QED  BY <2>1, <2>6, <2>17 DEF L
<1> QED  BY <1>2, <1>3

\* The choices that are left when those above the i-th are dropped.
LEMMA PrefixOfChoices ==
    ASSUME NEW n \in Nat, NEW m \in Machines, ChoicesOK(m, n),
           NEW i \in 0 .. Len(m.choices), NEW k \in Machines,
           k.choices = SubSeq(m.choices, 1, i), k.bindings = m.bindings
    PROVE  /\ ChoicesOK(k, n) /\ Len(k.choices) = i /\ DOMAIN k.choices = 1 .. i
           /\ \A j \in 1 .. i : k.choices[j] = m.choices[j] /\ j \in DOMAIN m.choices
<1>1. m.choices \in Seq(ChoicePoints) /\ Len(m.choices) \in Nat
      /\ DOMAIN m.choices = 1 .. Len(m.choices)
  BY ChoiceTypes
<1>2. /\ k.choices \in Seq(ChoicePoints) /\ Len(k.choices) = i /\ DOMAIN k.choices = 1 .. i
      /\ \A j \in 1 .. i : k.choices[j] = m.choices[j]
  BY <1>1, PrefixProps
<1>3. 1 .. i \subseteq DOMAIN m.choices /\ i <= StackLimit
  BY <1>1, StackLimitAssumption DEF ChoicesOK
<1>4. \A j \in 1 .. i : \A l \in 1 .. j : l \in 1 .. i
  OBVIOUS
<1>5. ASSUME NEW j \in 1 .. i
      PROVE  /\ ChoiceOK(k.choices[j], j - 1)
             /\ Awaited(k.choices[j]) # {} => Len(k.choices[j].alternatives) = 1
             /\ k.choices[j].bsp <= Len(k.bindings)
             /\ \A l \in 1 .. j : k.choices[l].bsp <= k.choices[j].bsp
  BY <1>2, <1>3, <1>4 DEF ChoicesOK
<1>6. ASSUME NEW j \in 1 .. i, NEW id \in Awaited(k.choices[j])
      PROVE  /\ id \in 1 .. n - 1
             /\ \A l \in 1 .. i : l # j => id \notin Awaited(k.choices[l])
  BY <1>2, <1>3 DEF ChoicesOK
<1>7. ChoicesOK(k, n)
  BY <1>2, <1>3, <1>5, <1>6 DEF ChoicesOK
<1> QED  BY <1>2, <1>3, <1>7

\* The machine halts when there is nothing to go back to.
LEMMA Halting ==
    ASSUME NEW n \in Nat, NEW m, Calm(m, n)
    PROVE  Fine(PushGoal([m EXCEPT !.choices = <<>>], HaltG), n)
<1> DEFINE b == [m EXCEPT !.choices = <<>>]
<1> DEFINE G == Append(m.goals, HaltG)
<1> DEFINE k == [b EXCEPT !.goals = G]
<1> DEFINE L == Len(m.goals)
<1>1. m \in Machines /\ m.fault = ""
  BY DEF Calm
<1>2. /\ b \in Machines /\ b.goals = m.goals /\ b.choices = <<>> /\ b.fault = ""
      /\ b.queries = m.queries /\ b.calls = m.calls /\ b.yielded = m.yielded
  <2>1. <<>> \in Seq(ChoicePoints)
    OBVIOUS
  <2> QED  BY <1>1, <2>1 DEF Machines
<1>3. "StackOverflow" \in Faults /\ "" \in Faults
  BY DEF Faults
<1> HIDE DEF b
<1>4. CASE Len(b.goals) >= StackLimit
  <2>1. PushGoal(b, HaltG) = Faulty(b, "StackOverflow")
    BY <1>4 DEF PushGoal
  <2> QED  BY <2>1, <1>2, <1>3, Failed DEF Fine, b
<1>5. CASE ~(Len(b.goals) >= StackLimit)
  <2>1. PushGoal(b, HaltG) = k
    BY <1>5, <1>2 DEF PushGoal
  <2>2. m.goals \in Seq(Goals) /\ m.queries \in Seq(Terms) /\ L \in Nat
        /\ DOMAIN m.goals = 1 .. L
    <3>1. m.goals \in Seq(Goals) /\ m.queries \in Seq(Terms)
      BY <1>1 DEF Machines
    <3> QED  BY <3>1
  <2>3. /\ G \in Seq(Goals) /\ Len(G) = L + 1 /\ DOMAIN G = 1 .. L + 1
        /\ \A i \in 1 .. L : G[i] = m.goals[i]
        /\ G[L + 1] = HaltG
    BY <2>2, GoalTypes
  <2>4. Pops(G) = Pops(m.goals)
    BY <2>2, GoalTypes, PopsAppend
  <2> HIDE DEF G
  <2>5. /\ k \in Machines /\ k.goals = G /\ k.choices = <<>> /\ k.fault = ""
        /\ k.queries = m.queries /\ k.calls = m.calls /\ k.yielded = m.yielded
    BY <1>2, <2>3 DEF Machines
  <2> HIDE DEF k
  <2>6. GoalsOK(G, k.choices)
    <3>1. ASSUME NEW i \in DOMAIN G, i < Len(G)
          PROVE  \/ G[i] \in Saved
                 \/ /\ G[i] \in CutGoals
                    /\ i = Len(G) - 1 /\ G[i + 1].goal \in AboveCut
      <4>1. i \in 1 .. L /\ G[i] = m.goals[i]
        BY <2>2, <2>3, <3>1
      <4>2. G[i] \in Saved \/ (i = L /\ G[i] \in CutGoals)
        BY <4>1, <2>2 DEF Calm
      <4>3. ASSUME i = L PROVE i = Len(G) - 1 /\ G[i + 1].goal \in AboveCut
        BY <4>3, <2>2, <2>3, GoalTypes DEF AboveCut
      <4> QED  BY <4>2, <4>3
    <3>2. G[Len(G)] = HaltG
      BY <2>3
    <3> QED  BY <3>1, <3>2 DEF GoalsOK
  <2>7. Bottom(k)
    <3>1. CASE m.goals = <<>>
      <4>1. L = 0 /\ Cardinality(Pops(m.goals)) = 0
        BY <3>1, PopsNone
      <4>2. m.queries = <<>>
        <5>1. Len(m.queries) = 0
          BY <4>1 DEF Calm, Balanced
        <5> QED  BY <5>1, <2>2
      <4>3. Len(G) = 1 /\ G[1].goal = "Halt"
        BY <4>1, <2>3, GoalTypes
      <4> QED  BY <4>2, <4>3, <2>5 DEF Bottom
    <3>2. CASE m.goals # <<>>
      <4>0. L # 0
        BY <3>2, <2>2
      <4>1. 1 \in 1 .. L /\ m.goals[1] = PopQueryG
        <5>1. m.goals[1] = PopQueryG
          BY <3>2 DEF Calm
        <5> HIDE DEF L
        <5> QED  BY <5>1, <2>2, <4>0
      <4> QED  BY <4>1, <2>3, <2>5 DEF Bottom
    <3> QED  BY <3>1, <3>2
  <2>8. ChoicesOK(k, n) /\ Known(k)
    <3>1. Len(k.choices) = 0 /\ DOMAIN k.choices = {} /\ 0 <= StackLimit
      <4>1. k.choices = <<>>
        BY <2>5
      <4>2. 0 <= StackLimit
        BY StackLimitAssumption
      <4> QED  BY <4>1, <4>2
    <3> QED  BY <3>1 DEF ChoicesOK, Known
  <2>9. Asking(k)
    BY <2>3, <2>5, GoalTypes DEF Asking
  <2>10. /\ Len(k.goals) <= StackLimit /\ k.calls \subseteq 1 .. n - 1 /\ ~k.yielded
         /\ Balanced(k.goals, k.queries)
    <3>1. L + 1 <= StackLimit
      <4>1. b.goals = m.goals
        BY <1>2
      <4> HIDE DEF L
      <4>2. ~(L >= StackLimit)
        BY <1>5, <4>1 DEF L
      <4> QED  BY <4>2, <2>2, StackLimitAssumption
    <3> QED  BY <3>1, <2>3, <2>4, <2>5 DEF Calm, Balanced
  <2>11. MachineOK(k, n)
    <3>1. GoalsOK(k.goals, k.choices)
      BY <2>5, <2>6
    <3> QED  BY <3>1, <2>5, <2>7, <2>8, <2>9, <2>10 DEF MachineOK
  <2> QED  BY <2>1, <2>5, <2>11, <1>3 DEF Fine, b
<1> QED  BY <1>4, <1>5

LEMMA AwaitedProps ==
    ASSUME NEW alternatives, NEW id
    PROVE  id \in AwaitedIn(alternatives)
            <=> \E a \in DOMAIN alternatives : \E i \in DOMAIN alternatives[a] :
                    /\ alternatives[a][i].goal = "NextExternal"
                    /\ alternatives[a][i].id = id
  BY DEF AwaitedIn, Range

\* A choice without its next alternative is a choice, and waits for nothing.
LEMMA ChoiceTail ==
    ASSUME NEW c \in ChoicePoints, NEW below, ChoiceOK(c, below),
           Awaited(c) # {} => Len(c.alternatives) = 1,
           c.alternatives # <<>>, Len(c.alternatives) # 1
    PROVE  LET d == [c EXCEPT !.alternatives = Tail(@)]
           IN  d \in ChoicePoints /\ ChoiceOK(d, below) /\ Awaited(d) = {} /\ d.bsp = c.bsp
<1> DEFINE T == Tail(c.alternatives)
<1> DEFINE d == [c EXCEPT !.alternatives = T]
<1>1. c.alternatives \in Seq(Seq(Goals))
  BY DEF ChoicePoints
<1>2. T \in Seq(Seq(Goals)) /\ \A a \in DOMAIN T : a + 1 \in DOMAIN c.alternatives
                                        /\ T[a] = c.alternatives[a + 1]
  BY <1>1
<1> HIDE DEF T
<1>3. /\ d \in ChoicePoints /\ d.alternatives = T /\ d.goals = c.goals
      /\ d.queries = c.queries /\ d.bsp = c.bsp
  BY <1>2 DEF ChoicePoints
<1> HIDE DEF d
<1>4. ChoiceOK(d, below)
  BY <1>2, <1>3 DEF ChoiceOK
<1>5. Awaited(c) = {}
  OBVIOUS
<1>6. Awaited(d) = {}
  <2> SUFFICES ASSUME NEW id \in AwaitedIn(T) PROVE FALSE
    BY <1>3 DEF Awaited
  <2>1. PICK a \in DOMAIN T : \E i \in DOMAIN T[a] :
                /\ T[a][i].goal = "NextExternal" /\ T[a][i].id = id
    BY AwaitedProps
  <2>2. id \in AwaitedIn(c.alternatives)
    BY <1>2, <2>1, AwaitedProps
  <2> QED  BY <2>2, <1>5 DEF Awaited
<1> QED  BY <1>3, <1>4, <1>6 DEF d, T

\* The next alternative of the last choice that has one is taken.
LEMMA Backtracked ==
    ASSUME NEW n \in Nat, NEW m, Calm(m, n)
    PROVE  Fine(Backtrack(m), n)
<1> DEFINE open == {i \in DOMAIN m.choices : m.choices[i].alternatives # <<>>}
<1> DEFINE top == CHOOSE i \in open : \A j \in open : j <= i
<1> DEFINE c == m.choices[top]
<1> DEFINE first == Head(c.alternatives)
<1> DEFINE below == SubSeq(m.choices, 1, top - 1)
<1> DEFINE again == IF Len(c.alternatives) = 1 THEN <<>>
                    ELSE <<[c EXCEPT !.alternatives = Tail(@)]>>
<1> DEFINE k == [m EXCEPT !.goals = c.goals \o Reverse(first),
                          !.queries = c.queries,
                          !.bindings = SubSeq(@, 1, c.bsp),
                          !.choices = below \o again]
<1>1. m \in Machines /\ m.fault = "" /\ ChoicesOK(m, n)
  BY DEF Calm
<1>2. CASE open = {}
  <2>1. Backtrack(m) = PushGoal([m EXCEPT !.choices = <<>>], HaltG)
    BY <1>2 DEF Backtrack
  <2> QED  BY <2>1, Halting
<1>3. CASE open # {}
  <2>1. Backtrack(m) = k
    BY <1>3, Zenon DEF Backtrack
  <2>2. top \in open
    <3>1. open \in SUBSET (1 .. Len(m.choices)) /\ Len(m.choices) \in Nat
      BY <1>1, ChoiceTypes
    <3> HIDE DEF open
    <3> QED  BY <1>3, <3>1, HasMaximum
  <2> HIDE DEF top
  <2>3. /\ top \in DOMAIN m.choices /\ top \in 1 .. Len(m.choices)
        /\ Len(m.choices) \in Nat /\ c.alternatives # <<>>
        /\ c \in ChoicePoints /\ c.bsp \in Nat /\ c.goals \in Seq(Goals)
        /\ c.queries \in Seq(Terms) /\ c.alternatives \in Seq(Seq(Goals))
    BY <1>1, <2>2, ChoiceTypes
  <2>i. /\ top \in Nat /\ top # 0 /\ top <= Len(m.choices)
        /\ top - 1 \in 0 .. Len(m.choices)
        /\ \A i \in 1 .. top - 1 : i \in 1 .. Len(m.choices)
    <3> DEFINE L == Len(m.choices)
    <3>1. top \in 1 .. L /\ L \in Nat
      BY <2>3
    <3> HIDE DEF L
    <3>2. top \in Nat /\ top # 0 /\ top <= L /\ top - 1 \in 0 .. L
          /\ \A i \in 1 .. top - 1 : i \in 1 .. L
      BY <3>1
    <3> QED  BY <3>2 DEF L
  <2> HIDE DEF open
  <2>4. /\ ChoiceOK(c, top - 1) /\ c.bsp <= Len(m.bindings)
        /\ Awaited(c) # {} => Len(c.alternatives) = 1
        /\ \A i \in 1 .. top : m.choices[i].bsp <= c.bsp
    BY <1>1, <2>3 DEF ChoicesOK
  <2>5. /\ first \in Seq(Goals) /\ 1 \in DOMAIN c.alternatives
        /\ first = c.alternatives[1]
    BY <2>3
  <2> DEFINE B == SubSeq(m.bindings, 1, c.bsp)
  <2>6. B \in Seq(Entries) /\ Len(B) = c.bsp
    <3>1. m.bindings \in Seq(Entries) /\ c.bsp \in 0 .. Len(m.bindings)
      <4>1. m.bindings \in Seq(Entries)
        BY <1>1 DEF Machines
      <4> QED  BY <4>1, <2>3, <2>4
    <3> QED  BY <3>1, PrefixProps
  <2> DEFINE C == below \o again
  <2> DEFINE d == [c EXCEPT !.alternatives = Tail(@)]
  <2>7. Len(c.alternatives) # 1 =>
            d \in ChoicePoints /\ ChoiceOK(d, top - 1) /\ Awaited(d) = {} /\ d.bsp = c.bsp
    BY <2>3, <2>4, ChoiceTail
  <2>8. /\ C \in Seq(ChoicePoints) /\ Len(C) \in Nat /\ DOMAIN C = 1 .. Len(C)
        /\ Len(C) \in {top - 1, top}
        /\ \A j \in 1 .. top - 1 : C[j] = m.choices[j] /\ j \in DOMAIN m.choices
        /\ Len(C) = top => C[top] = d /\ Len(c.alternatives) # 1
    <3> DEFINE P == SubSeq(m.choices, 1, top - 1)
    <3>1. /\ P \in Seq(ChoicePoints) /\ Len(P) = top - 1
          /\ \A j \in 1 .. top - 1 : P[j] = m.choices[j]
      <4>1. m.choices \in Seq(ChoicePoints)
        BY <1>1, ChoiceTypes
      <4> QED  BY <4>1, <2>i, PrefixProps
    <3>2. \A j \in 1 .. top - 1 : j \in DOMAIN m.choices
      <4>1. DOMAIN m.choices = 1 .. Len(m.choices)
        BY <1>1, ChoiceTypes
      <4> QED  BY <4>1, <2>i
    <3> HIDE DEF P
    <3>3. CASE Len(c.alternatives) = 1
      <4>1. C = P
        <5>1. C = P \o <<>>
          BY <3>3 DEF P
        <5> QED  BY <5>1, <3>1
      <4> HIDE DEF C
      <4> QED  BY <4>1, <3>1, <3>2, <3>3
    <3>4. CASE Len(c.alternatives) # 1
      <4>1. C = P \o <<d>>
        BY <3>4 DEF P
      <4>2. d \in ChoicePoints
        BY <2>7, <3>4
      <4> HIDE DEF C, d
      <4>3. /\ C \in Seq(ChoicePoints) /\ Len(C) = Len(P) + 1
            /\ \A j \in 1 .. Len(P) : C[j] = P[j]
            /\ C[Len(P) + 1] = d
        BY <4>1, <4>2, <3>1
      <4>4. Len(P) = top - 1 /\ Len(C) = top /\ Len(P) + 1 = top /\ top \in Nat
        BY <4>3, <3>1, <2>i
      <4>5. DOMAIN C = 1 .. Len(C)
        BY <4>3
      <4> QED  BY <4>3, <4>4, <4>5, <3>1, <3>2, <3>4
    <3> QED  BY <3>3, <3>4
  <2> HIDE DEF C, B, c, d, first, again, below
  <2> DEFINE b == [m EXCEPT !.goals = c.goals, !.queries = c.queries, !.bindings = B,
                            !.choices = C]
  <2>9. /\ b \in Machines /\ b.goals = c.goals /\ b.queries = c.queries
        /\ b.bindings = B /\ b.choices = C /\ b.calls = m.calls /\ b.fault = ""
        /\ b.yielded = m.yielded
    BY <1>1, <2>3, <2>6, <2>8 DEF Machines
  <2>10. k = [b EXCEPT !.goals = Push(b.goals, first)]
    <3> DEFINE G == Push(c.goals, first)
    <3>1. G \in Seq(Goals) /\ G = c.goals \o Reverse(first)
      BY <2>3, <2>5, PushedProps DEF Push
    <3> HIDE DEF G
    <3>2. k = [m EXCEPT !.goals = G, !.queries = c.queries, !.bindings = B, !.choices = C]
      BY <3>1 DEF B, C
    <3> QED  BY <3>1, <3>2, <2>3, <2>6, <2>8, <2>9, <1>1 DEF Machines, G
  <2> HIDE DEF b, k
  <2>11. \A j \in 1 .. Len(C) : j \in 1 .. top - 1 \/ (j = top /\ Len(C) = top)
    BY <2>3, <2>8
  <2>12. ASSUME NEW j \in 1 .. Len(C)
         PROVE  /\ ChoiceOK(C[j], j - 1)
                /\ Awaited(C[j]) # {} => Len(C[j].alternatives) = 1
                /\ C[j].bsp <= Len(B) /\ \A i \in 1 .. j : C[i].bsp <= C[j].bsp
    <3>1. CASE j \in 1 .. top - 1
      <4>1. /\ C[j] = m.choices[j] /\ j \in DOMAIN m.choices /\ j \in 1 .. top
            /\ \A i \in 1 .. j : C[i] = m.choices[i]
        BY <2>3, <2>8, <3>1
      <4>2. C[j].bsp <= Len(B)
        BY <4>1, <2>4, <2>6
      <4> QED  BY <4>1, <4>2, <1>1 DEF ChoicesOK
    <3>2. CASE j = top /\ Len(C) = top
      <4>1. C[j] = d /\ ChoiceOK(d, top - 1) /\ Awaited(d) = {} /\ d.bsp = c.bsp
        BY <2>7, <2>8, <3>2
      <4>2. \A i \in 1 .. j : C[i].bsp <= C[j].bsp
        <5>1. \A i \in 1 .. top - 1 : i \in 1 .. top
          BY <2>i
        <5>2. \A i \in 1 .. top - 1 : C[i].bsp <= c.bsp
          BY <5>1, <2>4, <2>8
        <5>3. \A i \in 1 .. top : i \in 1 .. top - 1 \/ i = top
          BY <2>i
        <5>4. c.bsp <= c.bsp
          BY <2>3
        <5> QED  BY <5>2, <5>3, <5>4, <4>1, <3>2
      <4> QED  BY <4>1, <4>2, <2>3, <2>6, <3>2
    <3> QED  BY <3>1, <3>2, <2>11
  <2>13. ASSUME NEW j \in 1 .. Len(C), NEW id \in Awaited(C[j])
         PROVE  /\ id \in 1 .. n - 1 /\ id \in m.calls /\ j \in 1 .. top - 1
                /\ j \in DOMAIN m.choices /\ id \in Awaited(m.choices[j])
                /\ \A i \in 1 .. Len(C) : i # j => id \notin Awaited(C[i])
    <3>1. j \in 1 .. top - 1 /\ id \in Awaited(m.choices[j]) /\ j \in DOMAIN m.choices
      BY <2>7, <2>8, <2>11, <2>13
    <3>2. id \in m.calls /\ id \in 1 .. n - 1
      BY <3>1, <1>1 DEF Calm, ChoicesOK
    <3>3. \A i \in 1 .. top - 1 : i # j => id \notin Awaited(C[i])
      BY <3>1, <1>1, <2>8 DEF ChoicesOK
    <3>4. Len(C) = top => id \notin Awaited(C[top])
      BY <2>7, <2>8
    <3> QED  BY <3>1, <3>2, <3>3, <3>4, <2>11
  <2>14. ChoicesOK(b, n)
    <3>1. Len(C) <= StackLimit
      <4>1. Len(m.choices) <= StackLimit
        BY <1>1 DEF ChoicesOK
      <4>2. Len(m.choices) \in Nat
        BY <2>3
      <4>3. Len(C) \in {top - 1, top}
        BY <2>8
      <4> QED  BY <4>1, <4>2, <4>3, <2>i, StackLimitAssumption
    <3> QED  BY <3>1, <2>8, <2>9, <2>12, <2>13 DEF ChoicesOK
  <2>15. Pushable(b, n)
    <3>1. b.goals \in Seq(Saved) /\ b.goals # <<>> /\ b.goals[1] = PopQueryG
          /\ Balanced(b.goals, b.queries)
      BY <2>4, <2>9 DEF ChoiceOK
    <3>2. b.calls \subseteq 1 .. n - 1 /\ ~b.yielded
      BY <2>9 DEF Calm
    <3> QED  BY <2>9, <2>14, <3>1, <3>2 DEF Pushable
  <2>16. MayPush(b, first)
    <3>1. ASSUME NEW i \in 1 .. Len(first)
          PROVE  \/ first[i] \in PlainGoals
                 \/ /\ i = 1 /\ first[i] \in AskGoals
                    /\ first[i].id \in b.calls /\ Unawaited(b, first[i].id)
                 \/ /\ i = 1 /\ first[i] \in CutGoals
                    /\ first[i].choice_index <= Len(b.choices)
      <4>0. i \in DOMAIN first
        BY <2>5
      <4>1. CASE i = 1 /\ first[i] \in [goal : {"NextExternal"}, id : Nat, name : Named("In")]
        <5>1. first[i] \in AskGoals /\ first[i].goal = "NextExternal"
          BY <4>1 DEF AskGoals
        <5>2. first[i].id \in Awaited(c)
          BY <4>0, <5>1, <2>5, AwaitedProps DEF Awaited
        <5>3. first[i].id \in m.calls
          BY <5>2, <2>3 DEF Calm, c
        <5>4. Unawaited(b, first[i].id)
          <6> SUFFICES ASSUME NEW j \in 1 .. Len(C), first[i].id \in Awaited(C[j])
                       PROVE  FALSE
            BY <2>8, <2>9 DEF Unawaited
          <6>1. j \in 1 .. top - 1 /\ j \in DOMAIN m.choices
                /\ first[i].id \in Awaited(m.choices[j])
            BY <2>13
          <6>2. j # top
            BY <6>1, <2>3
          <6> QED  BY <6>1, <6>2, <5>2, <2>3, <1>1 DEF ChoicesOK, c
        <5> QED  BY <4>1, <5>1, <5>3, <5>4, <2>9
      <4>2. CASE i = 1 /\ first[i] \in CutGoals /\ first[i].choice_index <= top - 1
        <5>1. first[i].choice_index \in Nat
          BY <4>2, GoalTypes
        <5>2. first[i].choice_index <= Len(C)
          BY <5>1, <4>2, <2>3, <2>8
        <5> QED  BY <4>2, <5>2, <2>9
      <4>3. CASE first[i] \in PlainGoals
        BY <4>3
      <4> QED  BY <4>0, <4>1, <4>2, <4>3, <2>4, <2>5 DEF ChoiceOK, AlternativeOK
    <3>2. \A j \in DOMAIN b.choices : \A id \in Awaited(b.choices[j]) : id \in b.calls
      BY <2>8, <2>9, <2>13
    <3> QED  BY <3>1, <3>2 DEF MayPush
  <2>17. Len(b.goals) + Len(first) <= StackLimit
    BY <2>4, <2>5, <2>9 DEF ChoiceOK
  <2>18. MachineOK(k, n)
    BY <2>5, <2>10, <2>15, <2>16, <2>17, Pushed
  <2>19. k.fault = ""
    BY <2>18 DEF MachineOK
  <2> QED  BY <2>1, <2>18, <2>19 DEF Fine, Faults
<1> QED  BY <1>2, <1>3

(***************************************************************************)
(* The goal on top is popped                                               *)
(***************************************************************************)

\* What is known of a machine k when the goal g has been popped off its stack.
Popped(k, g, n) ==
    /\ k \in Machines /\ k.fault = "" /\ ~k.yielded
    /\ Len(k.goals) <= StackLimit /\ Len(k.goals) + 1 <= StackLimit
    /\ k.calls \subseteq 1 .. n - 1
    /\ ChoicesOK(k, n)
    /\ g \in Goals
    /\ k.goals # <<>> => k.goals[1] = PopQueryG
    /\ g.goal # "Halt" =>
            \A i \in DOMAIN k.goals :
                \/ k.goals[i] \in Saved
                \/ /\ i = Len(k.goals) /\ k.goals[i] \in CutGoals
                   /\ k.goals[i].choice_index <= Len(k.choices)
    /\ g.goal \notin AboveCut => k.goals \in Seq(Saved)
    /\ g.goal = "Cut" => g.choice_index <= Len(k.choices)
    /\ \A j \in DOMAIN k.choices : \A id \in Awaited(k.choices[j]) :
            \/ id \in k.calls
            \/ g.goal = "Cut" /\ g.choice_index < j
            \/ g.goal = "CheckError" /\ Doomed(k.goals, j)
    /\ g.goal # "PopQuery" => Balanced(k.goals, k.queries)
    /\ g.goal = "PopQuery" => Cardinality(Pops(k.goals)) + 1 = Len(k.queries)
    /\ k.goals = <<>> /\ g.goal # "PopQuery" =>
            k.choices = <<>> /\ k.queries = <<>> /\ g.goal \in {"Query", "Halt"}
    /\ g \in AskGoals => g.id \in k.calls /\ Unawaited(k, g.id)

LEMMA GoalPopped ==
    ASSUME NEW n \in Nat, NEW m, MachineOK(m, n), m.goals # <<>>, NEW t \in Int
    PROVE  Popped([m EXCEPT !.goals = Front(@), !.started = t], Last(m.goals), n)
<1> DEFINE F == Front(m.goals)
<1> DEFINE g == Last(m.goals)
<1> DEFINE k == [m EXCEPT !.goals = F, !.started = t]
<1> DEFINE L == Len(F)
<1>1. /\ m \in Machines /\ m.goals \in Seq(Goals) /\ m.queries \in Seq(Terms)
      /\ m.choices \in Seq(ChoicePoints) /\ m.fault = ""
  <2>1. m \in Machines /\ m.fault = ""
    BY DEF MachineOK
  <2> QED  BY <2>1 DEF Machines
<1>2. /\ F \in Seq(Goals) /\ g \in Goals /\ m.goals = Append(F, g)
      /\ Len(m.goals) = L + 1 /\ g = m.goals[L + 1] /\ L \in Nat
      /\ \A i \in 1 .. L : F[i] = m.goals[i]
      /\ DOMAIN F = 1 .. L /\ DOMAIN m.goals = 1 .. L + 1
  <2>1. /\ F \in Seq(Goals) /\ g \in Goals /\ m.goals = Append(F, g)
        /\ Len(m.goals) = L + 1 /\ g = m.goals[Len(m.goals)]
        /\ \A i \in 1 .. Len(m.goals) - 1 : F[i] = m.goals[i]
    BY <1>1, FrontLast
  <2>2. L \in Nat /\ DOMAIN F = 1 .. L /\ DOMAIN m.goals = 1 .. Len(m.goals)
    <3>1. F \in Seq(Goals)
      BY <2>1
    <3> HIDE DEF F
    <3>2. L \in Nat /\ DOMAIN F = 1 .. L
      BY <3>1
    <3>3. DOMAIN m.goals = 1 .. Len(m.goals)
      <4>1. m.goals \in Seq(Goals)
        BY <1>1
      <4> QED  BY <4>1
    <3> QED  BY <3>2, <3>3
  <2>3. Len(m.goals) - 1 = L
    BY <2>1, <2>2
  <2> QED  BY <2>1, <2>2, <2>3
<1>3. Cardinality(Pops(m.goals)) = Len(m.queries)
  BY DEF MachineOK, Balanced
<1>4. /\ g.goal # "PopQuery" => Pops(m.goals) = Pops(F)
      /\ g.goal = "PopQuery" => Cardinality(Pops(m.goals)) = Cardinality(Pops(F)) + 1
  BY <1>2, PopsAppend
<1> HIDE DEF F, g
<1>5. /\ k \in Machines /\ k.goals = F /\ k.choices = m.choices /\ k.fault = ""
      /\ k.queries = m.queries /\ k.calls = m.calls /\ k.bindings = m.bindings
      /\ k.yielded = m.yielded
  BY <1>1, <1>2 DEF Machines
<1> HIDE DEF k, L
<1>6. k \in Machines /\ k.fault = "" /\ ~k.yielded /\ k.calls \subseteq 1 .. n - 1
  BY <1>5 DEF MachineOK
<1>7. Len(k.goals) <= StackLimit /\ Len(k.goals) + 1 <= StackLimit
  <2>1. L + 1 <= StackLimit /\ Len(k.goals) = L
    BY <1>2, <1>5 DEF MachineOK, L
  <2> QED  BY <2>1, <1>2, StackLimitAssumption
<1>8. ChoicesOK(k, n)
  BY <1>5, SameChoices DEF MachineOK
<1>9. \A i \in 1 .. L : i < L + 1 /\ i \in 1 .. L + 1 /\ i + 1 \in 1 .. L + 1
            /\ (i = (L + 1) - 1 => i = L /\ i + 1 = L + 1)
  BY <1>2
<1>10. \A i \in 1 .. L : F[i] \in Saved \/ (F[i] \in CutGoals /\ i = L /\ g.goal \in AboveCut)
  BY <1>2, <1>9 DEF MachineOK, GoalsOK
<1>11. F # <<>> => L # 0
  BY <1>2 DEF L
<1>12. k.goals # <<>> => k.goals[1] = PopQueryG
  <2> SUFFICES ASSUME F # <<>> PROVE F[1] = PopQueryG
    BY <1>5
  <2>1. 1 \in 1 .. L /\ L + 1 # 1
    BY <1>2, <1>11
  <2>2. F[1] = m.goals[1] /\ Len(m.goals) # 1
    BY <1>2, <2>1
  <2> QED  BY <2>2 DEF MachineOK, Bottom
<1>13. g.goal # "Halt" =>
            \A i \in DOMAIN k.goals :
                \/ k.goals[i] \in Saved
                \/ /\ i = Len(k.goals) /\ k.goals[i] \in CutGoals
                   /\ k.goals[i].choice_index <= Len(k.choices)
  <2> SUFFICES ASSUME g.goal # "Halt", NEW i \in 1 .. L, F[i] \notin Saved
               PROVE  i = L /\ F[i] \in CutGoals /\ F[i].choice_index <= Len(m.choices)
    BY <1>2, <1>5 DEF L
  <2>1. F[i] \in CutGoals /\ i = L /\ F[i].goal = "Cut"
    BY <1>10, GoalTypes
  <2>2. m.goals[Len(m.goals)] # HaltG
    BY <1>2, GoalTypes
  <2>3. i \in DOMAIN m.goals /\ m.goals[i] = F[i]
    BY <1>2, <1>9
  <2>4. F[i].choice_index <= Len(m.choices)
    BY <2>1, <2>2, <2>3 DEF MachineOK, GoalsOK
  <2> QED  BY <2>1, <2>4
<1>14. g.goal \notin AboveCut => k.goals \in Seq(Saved)
  <2> SUFFICES ASSUME g.goal \notin AboveCut PROVE F \in Seq(Saved)
    BY <1>5
  <2>1. \A i \in 1 .. L : F[i] \in Saved
    BY <1>10
  <2> QED  BY <2>1, <1>2 DEF L
<1>15. g.goal = "Cut" => g.choice_index <= Len(k.choices)
  <2> SUFFICES ASSUME g.goal = "Cut" PROVE g.choice_index <= Len(m.choices)
    BY <1>5
  <2>1. L + 1 \in DOMAIN m.goals /\ m.goals[Len(m.goals)] # HaltG
    BY <1>2, GoalTypes
  <2> QED  BY <2>1, <1>2 DEF MachineOK, GoalsOK
<1>16. ASSUME NEW j \in DOMAIN k.choices, NEW id \in Awaited(k.choices[j])
       PROVE  \/ id \in k.calls
              \/ g.goal = "Cut" /\ g.choice_index < j
              \/ g.goal = "CheckError" /\ Doomed(k.goals, j)
  <2> SUFFICES ASSUME Doomed(m.goals, j)
               PROVE  \/ g.goal = "Cut" /\ g.choice_index < j
                      \/ g.goal = "CheckError" /\ Doomed(k.goals, j)
    BY <1>5, <1>16 DEF MachineOK, Known
  <2>1. PICK i \in DOMAIN m.goals :
            /\ m.goals[i].goal = "Cut" /\ m.goals[i].choice_index < j
            /\ \/ i = Len(m.goals)
               \/ i = Len(m.goals) - 1 /\ m.goals[i + 1].goal = "CheckError"
    BY DEF Doomed
  <2>2. CASE i = Len(m.goals)
    BY <2>1, <2>2, <1>2
  <2>3. CASE i = Len(m.goals) - 1 /\ m.goals[i + 1].goal = "CheckError"
    <3>1. i = L /\ i \in 1 .. L /\ i + 1 = L + 1
      BY <2>1, <2>3, <1>2
    <3>2. F[i].goal = "Cut" /\ F[i].choice_index < j /\ g.goal = "CheckError"
      BY <3>1, <2>1, <2>3, <1>2
    <3>3. Doomed(F, j)
      BY <3>1, <3>2, <1>2 DEF Doomed, L
    <3> QED  BY <3>2, <3>3, <1>5
  <2> QED  BY <2>1, <2>2, <2>3
<1>17. /\ g.goal # "PopQuery" => Balanced(k.goals, k.queries)
       /\ g.goal = "PopQuery" => Cardinality(Pops(k.goals)) + 1 = Len(k.queries)
  BY <1>3, <1>4, <1>5 DEF Balanced
<1>18. k.goals = <<>> /\ g.goal # "PopQuery" =>
            k.choices = <<>> /\ k.queries = <<>> /\ g.goal \in {"Query", "Halt"}
  <2> SUFFICES ASSUME F = <<>>, g.goal # "PopQuery"
               PROVE  m.choices = <<>> /\ m.queries = <<>> /\ g.goal \in {"Query", "Halt"}
    BY <1>5
  <2>1. L = 0
    BY DEF L
  <2>2. g = m.goals[1]
    BY <2>1, <1>2
  <2> QED  BY <2>2, GoalTypes DEF MachineOK, Bottom
<1>19. g \in AskGoals => g.id \in k.calls /\ Unawaited(k, g.id)
  <2>1. g = m.goals[Len(m.goals)]
    BY <1>2
  <2> QED  BY <2>1, <1>5 DEF MachineOK, Asking, Unawaited
<1>20. Popped(k, g, n)
  BY <1>2, <1>6, <1>7, <1>8, <1>12, <1>13, <1>14, <1>15, <1>16, <1>17, <1>18, <1>19
     DEF Popped
<1> QED  BY <1>20 DEF k, F, g

\* Most goals leave the machine calm, and ready unless a cut is waiting.
LEMMA PoppedCalm ==
    ASSUME NEW n \in Nat, NEW k, NEW g, Popped(k, g, n),
           g.goal \notin {"Cut", "CheckError", "PopQuery", "Halt"}
    PROVE  /\ Calm(k, n)
           /\ g.goal \notin AboveCut \cup {"Query"} => Ready(k, n)
<1>1. Calm(k, n)
  <2>1. \A j \in DOMAIN k.choices : Awaited(k.choices[j]) \subseteq k.calls
    BY DEF Popped
  <2> QED  BY <2>1 DEF Popped, Calm
<1>2. g.goal \notin AboveCut \cup {"Query"} => k.goals \in Seq(Saved) /\ k.goals # <<>>
  BY DEF Popped
<1> QED  BY <1>1, <1>2 DEF Ready

(***************************************************************************)
(* Alternatives                                                            *)
(***************************************************************************)

LEMMA ChoiceKeeps ==
    ASSUME NEW m \in Machines, NEW alternatives \in Seq(Seq(Goals))
    PROVE  PushChoice(m, alternatives).goals = m.goals
<1> DEFINE C == Append(m.choices, [alternatives |-> alternatives, bsp |-> Len(m.bindings),
                                   goals |-> m.goals, queries |-> m.queries])
<1>1. PushChoice(m, alternatives) = Faulty(m, "StackOverflow")
            \/ PushChoice(m, alternatives) = [m EXCEPT !.choices = C]
  BY DEF PushChoice
<1> HIDE DEF C
<1> QED  BY <1>1 DEF Faulty, Machines

\* What alternatives may be: the first of them becomes goals at once.
Alternatives(alternatives, L) ==
    /\ alternatives # <<>>
    /\ \A i \in 1 .. Len(alternatives[1]) :
            \/ alternatives[1][i] \in PlainGoals
            \/ /\ i = 2 /\ alternatives[1][i] \in CutGoals
               /\ alternatives[1][i].choice_index <= L
               /\ alternatives[1][1].goal \in AboveCut
    /\ \A a \in 2 .. Len(alternatives) :
            /\ Len(alternatives[a]) <= Len(alternatives[1])
            /\ \A i \in 1 .. Len(alternatives[a]) :
                    \/ alternatives[a][i] \in PlainGoals
                    \/ /\ i = 1 /\ alternatives[a][i] \in CutGoals
                       /\ alternatives[a][i].choice_index <= L

LEMMA Alternated ==
    ASSUME NEW S, NEW s \in Seq(Seq(S)), s # <<>>
    PROVE  /\ Tail(s) \in Seq(Seq(S)) /\ Head(s) \in Seq(S) /\ Head(s) = s[1]
           /\ Len(Head(s)) \in Nat
           /\ \A a \in DOMAIN Tail(s) : /\ a + 1 \in 2 .. Len(s) /\ Tail(s)[a] = s[a + 1]
                                       /\ Tail(s)[a] \in Seq(S)
                                       /\ Len(Tail(s)[a]) \in Nat
                                       /\ DOMAIN Tail(s)[a] = 1 .. Len(Tail(s)[a])
<1>1. /\ Tail(s) \in Seq(Seq(S)) /\ Head(s) \in Seq(S) /\ Head(s) = s[1]
      /\ \A a \in DOMAIN Tail(s) : a + 1 \in 2 .. Len(s) /\ Tail(s)[a] = s[a + 1]
  OBVIOUS
<1>2. \A t \in Seq(S) : Len(t) \in Nat /\ DOMAIN t = 1 .. Len(t)
  OBVIOUS
<1>3. \A a \in DOMAIN Tail(s) : Tail(s)[a] \in Seq(S)
  BY <1>1
<1> QED  BY <1>1, <1>2, <1>3

\* A machine that has failed, or has no room, fails.
LEMMA ChoiceFails ==
    ASSUME NEW n \in Nat, NEW m \in Machines, NEW alternatives \in Seq(Seq(Goals)),
           alternatives # <<>>,
           m.fault # "" \/ Len(m.goals) + Len(alternatives[1]) > StackLimit
    PROVE  Fine(Choose(m, alternatives), n)
<1> DEFINE T == Tail(alternatives)
<1> DEFINE H == Head(alternatives)
<1>1. T \in Seq(Seq(Goals)) /\ H \in Seq(Goals) /\ H = alternatives[1]
  BY Alternated
<1>2. Choose(m, alternatives) = AppendGoals(PushChoice(m, T), H)
  BY DEF Choose
<1> HIDE DEF T, H
<1> DEFINE p == PushChoice(m, T)
<1>3. p \in Machines /\ (m.fault # "" => p.fault # "") /\ p.goals = m.goals
  BY <1>1, PushTyped, ChoiceKeeps
<1> HIDE DEF p
<1>4. CASE m.fault # ""
  <2>1. AppendGoals(p, H) \in Machines /\ AppendGoals(p, H).fault # ""
    BY <1>1, <1>3, <1>4, PushTyped
  <2>2. AppendGoals(p, H).fault \in Faults
    BY <2>1 DEF Machines
  <2> QED  BY <1>2, <2>1, <2>2 DEF Fine, p
<1>5. CASE Len(m.goals) + Len(alternatives[1]) > StackLimit
  <2>1. AppendGoals(p, H) = Faulty(p, "StackOverflow")
    <3>1. Len(p.goals) + Len(H) > StackLimit
      BY <1>1, <1>3, <1>5
    <3> QED  BY <3>1 DEF AppendGoals
  <2>2. "StackOverflow" \in Faults /\ "StackOverflow" # ""
    BY DEF Faults
  <2>3. p \in Machines
    BY <1>3
  <2>4. Faulty(p, "StackOverflow").fault = "StackOverflow"
    BY <2>2, <2>3, Failed
  <2> QED  BY <1>2, <2>1, <2>2, <2>4 DEF Fine, p
<1> QED  BY <1>4, <1>5

LEMMA Chosen ==
    ASSUME NEW n \in Nat, NEW m, StaysReady(m, n), NEW alternatives \in Seq(Seq(Goals)),
           Alternatives(alternatives, Len(m.choices))
    PROVE  Fine(Choose(m, alternatives), n)
<1> DEFINE T == Tail(alternatives)
<1> DEFINE H == Head(alternatives)
<1> DEFINE L == Len(m.choices)
<1>1. m \in Machines /\ alternatives # <<>> /\ L \in Nat
  <2>1. m \in Machines
    BY DEF StaysReady
  <2> QED  BY <2>1, ChoiceTypes DEF Alternatives
<1>2. CASE m.fault # "" \/ Len(m.goals) + Len(alternatives[1]) > StackLimit
  BY <1>1, <1>2, ChoiceFails
<1>3. CASE m.fault = "" /\ ~(Len(m.goals) + Len(alternatives[1]) > StackLimit)
  <2>1. /\ T \in Seq(Seq(Goals)) /\ H \in Seq(Goals) /\ H = alternatives[1]
        /\ Len(H) \in Nat
        /\ \A a \in DOMAIN T : /\ a + 1 \in 2 .. Len(alternatives)
                              /\ T[a] = alternatives[a + 1] /\ T[a] \in Seq(Goals)
                              /\ Len(T[a]) \in Nat /\ DOMAIN T[a] = 1 .. Len(T[a])
    BY <1>1, Alternated
  <2>2. Choose(m, alternatives) = AppendGoals(PushChoice(m, T), H)
    BY <1>1 DEF Choose
  <2> HIDE DEF T, H
  <2>3. Ready(m, n)
    BY <1>3 DEF StaysReady
  <2>4. Len(m.goals) \in Nat /\ Len(m.goals) + Len(H) <= StackLimit
    <3>1. m.goals \in Seq(Goals)
      BY <1>1 DEF Machines
    <3>2. Len(m.goals) \in Nat
      BY <3>1
    <3>3. ~(Len(m.goals) + Len(H) > StackLimit) /\ Len(H) \in Nat
      BY <2>1, <1>3
    <3> QED  BY <3>2, <3>3, StackLimitAssumption
  <2>5. ASSUME NEW a \in DOMAIN T
        PROVE  /\ AlternativeOK(T[a], L)
               /\ Len(m.goals) + Len(T[a]) <= StackLimit
               /\ \A i \in DOMAIN T[a] : T[a][i].goal # "NextExternal"
    <3>1. /\ Len(T[a]) <= Len(H)
          /\ \A i \in 1 .. Len(T[a]) :
                \/ T[a][i] \in PlainGoals
                \/ /\ i = 1 /\ T[a][i] \in CutGoals /\ T[a][i].choice_index <= L
      <4>1. a + 1 \in 2 .. Len(alternatives) /\ T[a] = alternatives[a + 1]
        BY <2>1
      <4> QED  BY <4>1, <2>1 DEF Alternatives
    <3>2. Len(T[a]) \in Nat /\ DOMAIN T[a] = 1 .. Len(T[a])
      BY <2>1
    <3>3. Len(m.goals) + Len(T[a]) <= StackLimit
      <4>1. Len(T[a]) <= Len(H)
        BY <3>1
      <4>2. Len(m.goals) \in Nat /\ Len(m.goals) + Len(H) <= StackLimit /\ Len(H) \in Nat
        BY <2>1, <2>4
      <4> QED  BY <4>1, <4>2, <3>2, StackLimitAssumption
    <3> QED  BY <3>1, <3>2, <3>3, GoalTypes DEF AlternativeOK
  <2>6. AwaitedIn(T) = {}
    BY <2>5, AwaitedProps
  <2> DEFINE p == PushChoice(m, T)
  <2>7. StaysReady(p, n) /\ (p.fault = "" => Len(p.choices) = L + 1)
    BY <2>1, <2>3, <2>5, <2>6, ChoicePushed DEF L
  <2> HIDE DEF p
  <2>8. CASE p.fault # ""
    <3>1. p \in Machines
      BY <2>7 DEF StaysReady
    <3>2. AppendGoals(p, H) \in Machines /\ AppendGoals(p, H).fault # ""
      BY <2>1, <2>8, <3>1, PushTyped
    <3>3. AppendGoals(p, H).fault \in Faults
      BY <3>2 DEF Machines
    <3> QED  BY <2>2, <3>2, <3>3 DEF Fine, p
  <2>9. CASE p.fault = ""
    <3>1. Ready(p, n) /\ Pushable(p, n)
      BY <2>7, <2>9, ReadyPushable DEF StaysReady
    <3>2. MayPush(p, H)
      <4>1. ASSUME NEW i \in 1 .. Len(H)
            PROVE  \/ H[i] \in PlainGoals
                   \/ /\ i = 2 /\ H[i] \in CutGoals
                      /\ H[i].choice_index <= Len(p.choices)
                      /\ H[1].goal \in AboveCut
        <5>1. \/ H[i] \in PlainGoals
              \/ /\ i = 2 /\ H[i] \in CutGoals /\ H[i].choice_index <= L
                 /\ H[1].goal \in AboveCut
          BY <2>1 DEF Alternatives, L
        <5>2. H[i] \in CutGoals => H[i].choice_index \in Nat
          BY GoalTypes
        <5>3. H[i] \in CutGoals /\ H[i].choice_index <= L
                => H[i].choice_index <= Len(p.choices)
          <6>1. Len(p.choices) = L + 1 /\ L \in Nat
            BY <2>7, <2>9, <1>1
          <6> HIDE DEF L
          <6> QED  BY <5>2, <6>1
        <5> QED  BY <5>1, <5>3
      <4>2. \A j \in DOMAIN p.choices : \A id \in Awaited(p.choices[j]) : id \in p.calls
        BY <3>1 DEF Ready, Calm
      <4> QED  BY <4>1, <4>2 DEF MayPush
    <3> QED  BY <2>1, <2>2, <3>1, <3>2, GoalsPushed DEF p
  <2> QED  BY <2>8, <2>9
<1> QED  BY <1>2, <1>3

LEMMA TwoConcat ==
    ASSUME NEW S, NEW a \in S, NEW b \in S, NEW c \in S
    PROVE  <<a>> \o <<b>> = <<a, b>> /\ <<a>> \o <<b, c>> = <<a, b, c>>
<1>1. <<a>> \o <<b>> = <<a, b>>
  <2>1. /\ <<a>> \o <<b>> \in Seq(S) /\ Len(<<a>> \o <<b>>) = 2
        /\ (<<a>> \o <<b>>)[1] = a /\ (<<a>> \o <<b>>)[2] = b
    OBVIOUS
  <2>2. <<a, b>> \in Seq(S) /\ Len(<<a, b>>) = 2 /\ <<a, b>>[1] = a /\ <<a, b>>[2] = b
    OBVIOUS
  <2>3. \A i \in 1 .. 2 : i = 1 \/ i = 2
    OBVIOUS
  <2> QED  BY <2>1, <2>2, <2>3, SeqEqual
<1>2. <<a>> \o <<b, c>> = <<a, b, c>>
  <2>1. /\ <<a>> \o <<b, c>> \in Seq(S) /\ Len(<<a>> \o <<b, c>>) = 3
        /\ (<<a>> \o <<b, c>>)[1] = a /\ (<<a>> \o <<b, c>>)[2] = b
        /\ (<<a>> \o <<b, c>>)[3] = c
    OBVIOUS
  <2>2. <<a, b, c>> \in Seq(S) /\ Len(<<a, b, c>>) = 3
        /\ <<a, b, c>>[1] = a /\ <<a, b, c>>[2] = b /\ <<a, b, c>>[3] = c
    OBVIOUS
  <2>3. \A i \in 1 .. 3 : i = 1 \/ i = 2 \/ i = 3
    OBVIOUS
  <2> QED  BY <2>1, <2>2, <2>3, SeqEqual
<1> QED  BY <1>1, <1>2

LEMMA ConditionalChosen ==
    ASSUME NEW n \in Nat, NEW m, StaysReady(m, n), NEW g \in PlainGoals,
           g.goal \in AboveCut, NEW consequent \in PlainGoals, NEW alternative \in PlainGoals
    PROVE  Fine(ChooseConditional(m, <<g>>, <<consequent>>, <<alternative>>), n)
<1> DEFINE A == <<<<consequent>>>>
<1> DEFINE p == PushChoice(m, A)
<1> DEFINE B == << <<g>> \o <<CutG(Len(p.choices)), BacktrackG>>,
                   <<CutG(Len(m.choices))>> \o <<alternative>> >>
<1>1. ChooseConditional(m, <<g>>, <<consequent>>, <<alternative>>) = Choose(p, B)
  BY DEF ChooseConditional
<1>2. m \in Machines /\ g \in Goals /\ consequent \in Goals /\ alternative \in Goals
  BY GoalTypes DEF StaysReady
<1>3. A \in Seq(Seq(Goals)) /\ Len(A) = 1 /\ DOMAIN A = {1} /\ A[1] = <<consequent>>
      /\ Len(A[1]) = 1 /\ A[1][1] = consequent /\ DOMAIN A[1] = {1}
  BY <1>2
<1> HIDE DEF A
<1>4. p \in Machines /\ (m.fault # "" => p.fault # "") /\ p.goals = m.goals
  BY <1>2, <1>3, PushTyped, ChoiceKeeps
<1>5. Len(p.choices) \in Nat /\ Len(m.choices) \in Nat
  BY <1>2, <1>4, ChoiceTypes
<1> HIDE DEF p
<1>6. CutG(Len(p.choices)) \in CutGoals /\ CutG(Len(m.choices)) \in CutGoals
      /\ CutG(Len(p.choices)).choice_index = Len(p.choices)
      /\ CutG(Len(m.choices)).choice_index = Len(m.choices)
  BY <1>5 DEF CutG, CutGoals
<1> DEFINE x == CutG(Len(p.choices))
<1> DEFINE y == CutG(Len(m.choices))
<1>7. x \in Goals /\ y \in Goals /\ BacktrackG \in Goals /\ BacktrackG \in PlainGoals
  BY <1>6, GoalTypes
<1> HIDE DEF x, y
<1>8. /\ B \in Seq(Seq(Goals)) /\ B # <<>> /\ Len(B) = 2
      /\ B[1] = <<g, x, BacktrackG>> /\ B[2] = <<y, alternative>>
  <2>1. <<g>> \o <<x, BacktrackG>> = <<g, x, BacktrackG>>
        /\ <<y>> \o <<alternative>> = <<y, alternative>>
    BY <1>2, <1>7, TwoConcat
  <2>2. <<g, x, BacktrackG>> \in Seq(Goals) /\ <<y, alternative>> \in Seq(Goals)
    BY <1>2, <1>7
  <2>3. B = <<<<g, x, BacktrackG>>, <<y, alternative>>>>
    BY <2>1 DEF x, y
  <2> HIDE DEF B
  <2> QED  BY <2>2, <2>3
<1> HIDE DEF B
<1>9. CASE m.fault # "" \/ Len(m.goals) + 3 > StackLimit
  <2>1. Len(B[1]) = 3
    BY <1>8
  <2> QED  BY <2>1, <1>1, <1>4, <1>8, <1>9, ChoiceFails
<1>10. CASE m.fault = "" /\ ~(Len(m.goals) + 3 > StackLimit)
  <2>1. Ready(m, n) /\ Len(m.goals) + 1 <= StackLimit
    <3>1. Ready(m, n) /\ m.goals \in Seq(Saved)
      BY <1>10 DEF StaysReady, Ready
    <3>2. Len(m.goals) \in Nat
      BY <3>1
    <3>3. ~(Len(m.goals) + 3 > StackLimit)
      BY <1>10
    <3>4. Len(m.goals) + 1 <= StackLimit
      BY <3>2, <3>3, StackLimitAssumption
    <3> QED  BY <3>1, <3>4
  <2>2. AwaitedIn(A) = {}
    BY <1>3, AwaitedProps, GoalTypes
  <2>3. ASSUME NEW a \in DOMAIN A
        PROVE  AlternativeOK(A[a], Len(m.choices)) /\ Len(m.goals) + Len(A[a]) <= StackLimit
    BY <1>3, <2>1 DEF AlternativeOK
  <2>4. StaysReady(p, n) /\ (p.fault = "" => Len(p.choices) = Len(m.choices) + 1)
    BY <1>3, <2>1, <2>2, <2>3, ChoicePushed DEF p
  <2>5. CASE p.fault # ""
    BY <2>5, <1>1, <1>4, <1>8, ChoiceFails
  <2>6. CASE p.fault = ""
    <3>1. Len(m.choices) <= Len(p.choices) /\ Len(p.choices) <= Len(p.choices)
      <4>1. Len(p.choices) = Len(m.choices) + 1
        BY <2>4, <2>6
      <4> QED  BY <4>1, <1>5
    <3>2. /\ Len(B[1]) = 3 /\ B[1][1] = g /\ B[1][2] = x /\ B[1][3] = BacktrackG
          /\ Len(B[2]) = 2 /\ B[2][1] = y /\ B[2][2] = alternative
      BY <1>8
    <3>3. \A i \in 1 .. 3 : i = 1 \/ i = 2 \/ i = 3
      OBVIOUS
    <3>4. \A i \in 1 .. Len(B[1]) :
            \/ B[1][i] \in PlainGoals
            \/ /\ i = 2 /\ B[1][i] \in CutGoals
               /\ B[1][i].choice_index <= Len(p.choices) /\ B[1][1].goal \in AboveCut
      <4>1. x \in CutGoals /\ x.choice_index <= Len(p.choices)
        BY <1>6, <3>1 DEF x
      <4> QED  BY <4>1, <3>2, <3>3, <1>7
    <3>5. \A a \in 2 .. Len(B) :
            /\ Len(B[a]) <= Len(B[1])
            /\ \A i \in 1 .. Len(B[a]) :
                    \/ B[a][i] \in PlainGoals
                    \/ /\ i = 1 /\ B[a][i] \in CutGoals
                       /\ B[a][i].choice_index <= Len(p.choices)
      <4>1. \A a \in 2 .. Len(B) : a = 2
        BY <1>8
      <4>2. y \in CutGoals /\ y.choice_index <= Len(p.choices)
        BY <1>6, <3>1 DEF y
      <4>3. \A i \in 1 .. 2 : i = 1 \/ i = 2
        OBVIOUS
      <4>4. Len(B[2]) <= Len(B[1])
        BY <3>2
      <4>5. \A i \in 1 .. Len(B[2]) :
                    \/ B[2][i] \in PlainGoals
                    \/ /\ i = 1 /\ B[2][i] \in CutGoals
                       /\ B[2][i].choice_index <= Len(p.choices)
        BY <4>2, <4>3, <3>2
      <4> QED  BY <4>1, <4>4, <4>5
    <3>6. Alternatives(B, Len(p.choices))
      BY <1>8, <3>4, <3>5 DEF Alternatives
    <3> QED  BY <3>6, <1>1, <1>8, <2>4, Chosen
  <2> QED  BY <2>5, <2>6
<1> QED  BY <1>9, <1>10

(***************************************************************************)
(* The goals, one by one                                                   *)
(***************************************************************************)

LEMMA Stays == \A m, n : StaysReady(m, n) => Fine(m, n)
  BY ReadyPushable DEF StaysReady, Fine

\* A goal that may be above a cut is pushed.
LEMMA PushedAbove ==
    ASSUME NEW n \in Nat, NEW m, Calm(m, n), m.goals # <<>>, NEW g \in PlainGoals,
           g.goal \in AboveCut
    PROVE  /\ Fine(PushGoal(m, g), n)
           /\ PushGoal(m, g).fault = "" =>
                /\ PushGoal(m, g).calls = m.calls /\ PushGoal(m, g).choices = m.choices
                /\ PushGoal(m, g).goals # <<>>
                /\ PushGoal(m, g).goals[Len(PushGoal(m, g).goals)] = g
<1> DEFINE G == Append(m.goals, g)
<1> DEFINE k == [m EXCEPT !.goals = G]
<1> DEFINE L == Len(m.goals)
<1>1. m \in Machines /\ m.fault = "" /\ g \in Goals /\ g \in Saved
  BY GoalTypes DEF Calm
<1>2. m.goals \in Seq(Goals) /\ m.queries \in Seq(Terms)
  BY <1>1 DEF Machines
<1>3. "StackOverflow" \in Faults /\ "" \in Faults /\ "StackOverflow" # ""
  BY DEF Faults
<1>4. CASE Len(m.goals) >= StackLimit
  <2>1. PushGoal(m, g) = Faulty(m, "StackOverflow")
    BY <1>4 DEF PushGoal
  <2>2. Faulty(m, "StackOverflow").fault = "StackOverflow"
    BY <1>1, <1>3, Failed
  <2> QED  BY <2>1, <2>2, <1>3 DEF Fine
<1>5. CASE ~(Len(m.goals) >= StackLimit)
  <2>1. PushGoal(m, g) = k
    BY <1>5 DEF PushGoal
  <2>2. /\ G \in Seq(Goals) /\ Len(G) = L + 1 /\ DOMAIN G = 1 .. L + 1
        /\ \A i \in 1 .. L : G[i] = m.goals[i]
        /\ G[L + 1] = g /\ L \in Nat /\ DOMAIN m.goals = 1 .. L
    <3>1. m.goals \in Seq(Goals) /\ g \in Goals
      BY <1>1, <1>2
    <3> QED  BY <3>1
  <2>3. Pops(G) = Pops(m.goals)
    BY <1>1, <1>2, GoalTypes, PopsAppend
  <2>4. L # 0
    BY <1>2
  <2>5. /\ k \in Machines /\ k.goals = G /\ k.choices = m.choices /\ k.fault = ""
        /\ k.queries = m.queries /\ k.calls = m.calls /\ k.bindings = m.bindings
        /\ k.yielded = m.yielded
    BY <1>1, <2>2 DEF Machines
  <2>6. L + 1 <= StackLimit
    <3>1. ~(L >= StackLimit)
      BY <1>5
    <3> HIDE DEF L
    <3> QED  BY <3>1, <2>2, StackLimitAssumption
  <2> HIDE DEF G, k, L
  <2>7. GoalsOK(G, m.choices)
    <3>1. \A i \in 1 .. L + 1 : i < L + 1 => i \in 1 .. L /\ (i = L => i = (L + 1) - 1)
      BY <2>2
    <3>2. \A i \in 1 .. L + 1 : i \in 1 .. L \/ i = L + 1
      BY <2>2
    <3>3. \A i \in 1 .. L :
            \/ m.goals[i] \in Saved
            \/ i = L /\ m.goals[i] \in CutGoals /\ m.goals[i].choice_index <= Len(m.choices)
      BY <2>2 DEF Calm, L
    <3>4. \A i \in DOMAIN G : i < Len(G) =>
                \/ G[i] \in Saved
                \/ G[i] \in CutGoals /\ i = Len(G) - 1 /\ G[i + 1].goal \in AboveCut
      <4> SUFFICES ASSUME NEW i \in 1 .. L + 1, i < L + 1, G[i] \notin Saved
                   PROVE  G[i] \in CutGoals /\ i = L + 1 - 1 /\ G[i + 1].goal \in AboveCut
        BY <2>2
      <4>1. i \in 1 .. L /\ i = L /\ i = L + 1 - 1 /\ G[i] \in CutGoals
        BY <3>1, <3>3, <2>2
      <4>2. G[i + 1] = g
        BY <4>1, <2>2
      <4> QED  BY <4>1, <4>2
    <3>5. \A i \in DOMAIN G : G[i].goal = "Cut" => G[i].choice_index <= Len(m.choices)
      <4> SUFFICES ASSUME NEW i \in 1 .. L + 1, G[i].goal = "Cut"
                   PROVE  G[i].choice_index <= Len(m.choices)
        BY <2>2
      <4>1. G[i] \notin Saved
        BY GoalTypes DEF Saved
      <4>2. i \in 1 .. L
        BY <3>2, <4>1, <1>1, <2>2
      <4> QED  BY <4>1, <4>2, <3>3, <2>2
    <3> QED  BY <3>4, <3>5 DEF GoalsOK
  <2>8. Bottom(k)
    <3>1. 1 \in 1 .. L /\ m.goals[1] = PopQueryG
      <4>1. m.goals[1] = PopQueryG
        BY DEF Calm
      <4> QED  BY <4>1, <2>2, <2>4
    <3> QED  BY <3>1, <2>2, <2>5 DEF Bottom
  <2>9. ChoicesOK(k, n)
    BY <2>5, SameChoices DEF Calm
  <2>10. Known(k)
    BY <2>5 DEF Calm, Known
  <2>11. Asking(k)
    <3>1. g \notin AskGoals /\ G[Len(G)] = g
      BY <2>2, GoalTypes
    <3> QED  BY <3>1, <2>5 DEF Asking
  <2>12. /\ Len(k.goals) <= StackLimit /\ k.calls \subseteq 1 .. n - 1 /\ ~k.yielded
         /\ Balanced(k.goals, k.queries)
    BY <2>2, <2>3, <2>5, <2>6 DEF Calm, Balanced
  <2>13. MachineOK(k, n)
    <3>1. GoalsOK(k.goals, k.choices)
      BY <2>5, <2>7
    <3> QED  BY <3>1, <2>5, <2>8, <2>9, <2>10, <2>11, <2>12 DEF MachineOK
  <2>14. k.goals # <<>> /\ k.goals[Len(k.goals)] = g
    <3>1. Len(G) # 0
      BY <2>2
    <3>2. G # <<>>
      BY <3>1
    <3> QED  BY <3>2, <2>2, <2>5
  <2> QED  BY <2>1, <2>5, <2>13, <2>14, <1>3 DEF Fine
<1> QED  BY <1>4, <1>5

\* Cut: the choices above are dropped, and nobody waits for their ids.
LEMMA CutDone ==
    ASSUME NEW n \in Nat, NEW k, NEW g, Popped(k, g, n), g.goal = "Cut"
    PROVE  MachineOK([k EXCEPT !.choices = SubSeq(@, 1, g.choice_index)], n)
<1> DEFINE C == SubSeq(k.choices, 1, g.choice_index)
<1> DEFINE r == [k EXCEPT !.choices = C]
<1>1. k \in Machines /\ k.fault = "" /\ ChoicesOK(k, n) /\ g \in CutGoals
  BY GoalTypes DEF Popped
<1>2. g.choice_index \in 0 .. Len(k.choices) /\ Len(k.choices) \in Nat
      /\ k.choices \in Seq(ChoicePoints) /\ g.choice_index \in Nat
  <2>1. g.choice_index <= Len(k.choices) /\ g.choice_index \in Nat
    BY <1>1, GoalTypes DEF Popped
  <2>2. Len(k.choices) \in Nat /\ k.choices \in Seq(ChoicePoints)
    BY <1>1, ChoiceTypes
  <2> QED  BY <2>1, <2>2
<1>3. C \in Seq(ChoicePoints)
  BY <1>2, PrefixProps
<1>4. /\ r \in Machines /\ r.goals = k.goals /\ r.choices = C /\ r.fault = ""
      /\ r.queries = k.queries /\ r.calls = k.calls /\ r.bindings = k.bindings
      /\ r.yielded = k.yielded
  <2> HIDE DEF C
  <2> QED  BY <1>1, <1>3 DEF Machines
<1> HIDE DEF r
<1>5. /\ ChoicesOK(r, n) /\ DOMAIN r.choices = 1 .. g.choice_index
      /\ \A j \in 1 .. g.choice_index : r.choices[j] = k.choices[j] /\ j \in DOMAIN k.choices
  <2>1. r \in Machines /\ r.choices = SubSeq(k.choices, 1, g.choice_index)
    BY <1>4
  <2>2. r.bindings = k.bindings
    BY <1>4
  <2> DEFINE i == g.choice_index
  <2>3. i \in 0 .. Len(k.choices)
    BY <1>2
  <2>4. r.choices = SubSeq(k.choices, 1, i)
    BY <2>1
  <2>5. k \in Machines /\ ChoicesOK(k, n) /\ r \in Machines
    BY <1>1, <2>1
  <2> HIDE DEF i
  <2>6. /\ ChoicesOK(r, n) /\ DOMAIN r.choices = 1 .. i
        /\ \A j \in 1 .. i : r.choices[j] = k.choices[j] /\ j \in DOMAIN k.choices
    BY <2>2, <2>3, <2>4, <2>5, PrefixOfChoices
  <2> QED  BY <2>6 DEF i
<1>6. \A j \in DOMAIN r.choices : Awaited(r.choices[j]) \subseteq r.calls
  <2> SUFFICES ASSUME NEW j \in 1 .. g.choice_index, NEW id \in Awaited(k.choices[j])
               PROVE  id \in k.calls
    BY <1>4, <1>5
  <2>1. ~(g.choice_index < j)
    BY <1>2
  <2> QED  BY <2>1, <1>5 DEF Popped
<1>7. \A i \in DOMAIN r.goals : r.goals[i] \in Saved
  <2>1. k.goals \in Seq(Saved)
    BY DEF Popped, AboveCut
  <2>2. \A i \in DOMAIN k.goals : k.goals[i] \in Saved
    BY <2>1
  <2> QED  BY <2>2, <1>4
<1>8. Calm(r, n)
  BY <1>4, <1>5, <1>6, <1>7 DEF Popped, Calm
<1> QED  BY <1>8, CalmOK DEF r

\* Cut keeps some of the choices.
LEMMA CutIndexed ==
    ASSUME NEW m \in Machines
    PROVE  CutIndex(m) \in 0 .. Len(m.choices) /\ Len(m.choices) \in Nat
<1> DEFINE rule == SubSeq(m.queries, 1, Len(m.queries) - 2)
<1> DEFINE kept == {i \in DOMAIN m.choices : ~IsPrefix(rule, m.choices[i].queries)}
<1> DEFINE max == CHOOSE i \in kept : \A j \in kept : j <= i
<1>1. CutIndex(m) = IF kept = {} THEN 0 ELSE max
  BY Zenon DEF CutIndex
<1>2. kept \in SUBSET (1 .. Len(m.choices)) /\ Len(m.choices) \in Nat
  BY ChoiceTypes
<1> HIDE DEF kept
<1>3. kept # {} => max \in kept
  BY <1>2, HasMaximum
<1> HIDE DEF max
<1>4. CutIndex(m) = 0 \/ CutIndex(m) \in 1 .. Len(m.choices)
  BY <1>1, <1>2, <1>3
<1>5. Len(m.choices) \in Nat
  BY <1>2
<1> QED  BY <1>4, <1>5

\* The next call id after a goal, when n was the next one before it.
NextId(m, n) == IF n \in m.calls THEN n + 1 ELSE n
Done(m, n) == m.fault \in Faults /\ (m.fault = "" => MachineOK(m, NextId(m, n)))

LEMMA FineDone ==
    ASSUME NEW n \in Nat \ {0}, NEW m
    PROVE  /\ Fine(m, n) => Done(m, n)
           /\ Fine(m, n + 1) /\ (m.fault = "" => n \in m.calls) => Done(m, n)
<1>1. ASSUME MachineOK(m, n) PROVE NextId(m, n) = n
  <2>1. m.calls \subseteq 1 .. n - 1
    BY <1>1 DEF MachineOK
  <2>2. n \notin 1 .. n - 1
    OBVIOUS
  <2> QED  BY <2>1, <2>2 DEF NextId
<1> QED  BY <1>1 DEF Fine, Done, NextId

\* The query is on its stack, and its PopQuery on that of the goals.
LEMMA QueryStarted ==
    ASSUME NEW n \in Nat, NEW k, NEW g, Popped(k, g, n), g.goal = "Query"
    PROVE  LET q == PushGoal([k EXCEPT !.queries = Append(@, g.term)], PopQueryG)
           IN  /\ StaysReady(q, n)
               /\ q.choices # <<>> => Len(q.queries) \in Nat /\ ~(Len(q.queries) < 2)
<1> DEFINE Q == Append(k.queries, g.term)
<1> DEFINE b == [k EXCEPT !.queries = Q]
<1> DEFINE G == Append(k.goals, PopQueryG)
<1> DEFINE q == [b EXCEPT !.goals = G]
<1> DEFINE L == Len(k.goals)
<1>1. k \in Machines /\ k.fault = "" /\ g.term \in Terms /\ Calm(k, n)
      /\ k.goals \in Seq(Saved) /\ PopQueryG \in Goals /\ PopQueryG \in Saved
  <2>1. g.term \in Terms
    BY GoalTypes DEF Popped, Goals, PlainGoals, SortGoals, AskGoals, CutGoals
  <2>2. k.goals \in Seq(Saved)
    BY DEF Popped, AboveCut
  <2> QED  BY <2>1, <2>2, PoppedCalm, GoalTypes DEF Popped
<1>2. k.queries \in Seq(Terms) /\ k.goals \in Seq(Goals)
  BY <1>1 DEF Machines
<1>3. Q \in Seq(Terms) /\ Len(Q) = Len(k.queries) + 1 /\ Len(k.queries) \in Nat
  <2>1. k.queries \in Seq(Terms) /\ g.term \in Terms
    BY <1>1, <1>2
  <2> QED  BY <2>1
<1> HIDE DEF Q
<1>4. /\ b \in Machines /\ b.goals = k.goals /\ b.choices = k.choices /\ b.fault = ""
      /\ b.queries = Q /\ b.calls = k.calls /\ b.bindings = k.bindings
      /\ b.yielded = k.yielded
  BY <1>1, <1>3 DEF Machines
<1> HIDE DEF b
<1>5. PushGoal(b, PopQueryG) = q
  <2>1. Len(k.goals) + 1 <= StackLimit
    BY DEF Popped
  <2>2. Len(k.goals) \in Nat
    BY <1>2
  <2>3. ~(Len(b.goals) >= StackLimit)
    <3>1. b.goals = k.goals
      BY <1>4
    <3>2. ~(Len(k.goals) >= StackLimit)
      BY <2>1, <2>2, StackLimitAssumption
    <3> QED  BY <3>1, <3>2
  <2> QED  BY <2>3, <1>4 DEF PushGoal
<1>6. /\ G \in Seq(Goals) /\ G \in Seq(Saved) /\ Len(G) = L + 1 /\ DOMAIN G = 1 .. L + 1
      /\ \A i \in 1 .. L : G[i] = k.goals[i]
      /\ G[L + 1] = PopQueryG /\ L \in Nat
  <2>1. k.goals \in Seq(Goals) /\ PopQueryG \in Goals
    BY <1>1, <1>2
  <2>2. k.goals \in Seq(Saved) /\ PopQueryG \in Saved
    BY <1>1
  <2>3. G \in Seq(Saved)
    BY <2>2
  <2> QED  BY <2>1, <2>3
<1>7. Cardinality(Pops(G)) = Cardinality(Pops(k.goals)) + 1
  BY <1>1, <1>2, GoalTypes, PopsAppend
<1>8. Cardinality(Pops(k.goals)) = Len(k.queries)
  BY <1>1 DEF Calm, Balanced
<1>9. G # <<>> /\ G[1] = PopQueryG
  <2>1. Len(G) # 0
    BY <1>6
  <2>2. G # <<>>
    BY <2>1
  <2>3. CASE L = 0
    BY <2>2, <2>3, <1>6
  <2>4. CASE L # 0
    <3>1. k.goals # <<>>
      BY <2>4
    <3>2. k.goals[1] = PopQueryG
      BY <3>1, <1>1 DEF Calm
    <3>3. L \in Nat
      BY <1>6
    <3> HIDE DEF L
    <3>4. 1 \in 1 .. L
      BY <3>3, <2>4
    <3> QED  BY <3>2, <3>4, <2>2, <1>6
  <2> QED  BY <2>3, <2>4
<1>10. L + 1 <= StackLimit
  BY DEF Popped
<1> HIDE DEF G, L
<1>11. /\ q \in Machines /\ q.goals = G /\ q.choices = k.choices /\ q.fault = ""
       /\ q.queries = Q /\ q.calls = k.calls /\ q.bindings = k.bindings
       /\ q.yielded = k.yielded
  BY <1>4, <1>6 DEF Machines
<1> HIDE DEF q
<1>12. Ready(q, n)
  <2>1. \A i \in DOMAIN G : G[i] \in Saved
    BY <1>6
  <2>2. ChoicesOK(q, n)
    BY <1>1, <1>11, SameChoices DEF Calm
  <2>3. Len(q.goals) <= StackLimit /\ Balanced(q.goals, q.queries)
    BY <1>3, <1>6, <1>7, <1>8, <1>10, <1>11 DEF Balanced
  <2>4. q.calls \subseteq 1 .. n - 1 /\ ~q.yielded
        /\ \A j \in DOMAIN q.choices : Awaited(q.choices[j]) \subseteq q.calls
    BY <1>1, <1>11 DEF Calm
  <2>5. q.goals # <<>> => q.goals[1] = PopQueryG
    BY <1>9, <1>11
  <2>6. \A i \in DOMAIN q.goals : q.goals[i] \in Saved
    BY <2>1, <1>11
  <2>7. Calm(q, n)
    BY <1>11, <2>2, <2>3, <2>4, <2>5, <2>6 DEF Calm
  <2> QED  BY <2>7, <1>6, <1>9, <1>11 DEF Ready
<1>13. ASSUME q.choices # <<>> PROVE Len(q.queries) \in Nat /\ ~(Len(q.queries) < 2)
  <2>1. k.choices # <<>>
    BY <1>11, <1>13
  <2>2. k.goals # <<>> /\ k.goals[1] = PopQueryG
    BY <2>1 DEF Popped
  <2>3. Len(k.queries) >= 1
    BY <2>2, <1>2, <1>8, PopsSome
  <2>4. Len(Q) \in Nat /\ ~(Len(Q) < 2)
    BY <2>3, <1>3
  <2> QED  BY <2>4, <1>11
<1> QED  BY <1>5, <1>11, <1>12, <1>13 DEF StaysReady, Faults, b, Q

\* A goal that is a question, with what follows it.
LEMMA QuestionPushed ==
    ASSUME NEW n \in Nat \ {0}, NEW q, StaysReady(q, n), NEW g \in AskGoals, g.id = n,
           NEW gs \in Seq(Goals), Len(gs) >= 1, gs[1] = g,
           \A i \in 2 .. Len(gs) : gs[i] \in PlainGoals
    PROVE  Done(AppendGoals(NewCallId(q, n), gs), n)
<1> DEFINE k == NewCallId(q, n)
<1> DEFINE r == AppendGoals(k, gs)
<1>1. StaysReady(k, n + 1) /\ n + 1 \in Nat
  BY NewId
<1>2. k \in Machines
  BY <1>1 DEF StaysReady
<1>3. CASE q.fault # ""
  <2>1. k.fault # ""
    BY <1>3 DEF NewCallId, StaysReady, Machines
  <2> HIDE DEF k
  <2>2. r \in Machines /\ r.fault # ""
    BY <1>2, <2>1, PushTyped
  <2> HIDE DEF r
  <2>3. r.fault \in Faults
    BY <2>2 DEF Machines
  <2> QED  BY <2>2, <2>3 DEF Done, r, k
<1>4. CASE q.fault = ""
  <2>1. Calm(q, n)
    BY <1>4 DEF StaysReady, Ready
  <2>2. n \in k.calls /\ Unawaited(k, n)
    BY <2>1, NewId
  <2>3. k.fault = ""
    BY <1>4 DEF NewCallId, StaysReady, Machines
  <2> HIDE DEF k
  <2>4. Ready(k, n + 1) /\ Pushable(k, n + 1)
    BY <1>1, <2>3, ReadyPushable DEF StaysReady
  <2>5. MayPush(k, gs)
    <3>1. \A i \in 1 .. Len(gs) : i = 1 \/ i \in 2 .. Len(gs)
      OBVIOUS
    <3>2. \A j \in DOMAIN k.choices : \A id \in Awaited(k.choices[j]) : id \in k.calls
      BY <2>4 DEF Ready, Calm
    <3> QED  BY <2>2, <3>1, <3>2 DEF MayPush
  <2>6. Fine(r, n + 1)
    BY <1>1, <2>4, <2>5, GoalsPushed
  <2>7. r.fault = "" => r.calls = k.calls
    <3> DEFINE G == k.goals \o Reverse(gs)
    <3>1. r = Faulty(k, "StackOverflow") \/ r = [k EXCEPT !.goals = G]
      BY DEF AppendGoals
    <3>2. Faulty(k, "StackOverflow").fault = "StackOverflow" /\ "StackOverflow" # ""
      BY <1>2, Failed DEF Faults
    <3> HIDE DEF G, r
    <3>3. [k EXCEPT !.goals = G].calls = k.calls
      BY <1>2 DEF Machines
    <3> QED  BY <3>1, <3>2, <3>3
  <2> HIDE DEF r
  <2> QED  BY <2>2, <2>6, <2>7, FineDone DEF r, k
<1> QED  BY <1>3, <1>4

LEMMA FailsFine ==
    ASSUME NEW n \in Nat, NEW m \in Machines, m.fault # ""
    PROVE  Fine(m, n)
  BY DEF Machines, Fine

\* A machine that has failed stays so.
LEMMA BacktrackFails ==
    ASSUME NEW n \in Nat, NEW m \in Machines, m.fault # ""
    PROVE  Fine(Backtrack(m), n)
<1> DEFINE open == {i \in DOMAIN m.choices : m.choices[i].alternatives # <<>>}
<1> DEFINE top == CHOOSE i \in open : \A j \in open : j <= i
<1> DEFINE c == m.choices[top]
<1> DEFINE G == c.goals \o Reverse(Head(c.alternatives))
<1> DEFINE B == SubSeq(m.bindings, 1, c.bsp)
<1> DEFINE C == SubSeq(m.choices, 1, top - 1)
                \o IF Len(c.alternatives) = 1 THEN <<>>
                   ELSE <<[c EXCEPT !.alternatives = Tail(@)]>>
<1> DEFINE Q == c.queries
<1> DEFINE k == [m EXCEPT !.goals = G, !.queries = Q, !.bindings = B, !.choices = C]
<1> DEFINE h == [m EXCEPT !.choices = <<>>]
<1>1. Backtrack(m) = IF open = {} THEN PushGoal(h, HaltG) ELSE k
  BY Zenon DEF Backtrack
<1>2. h \in Machines /\ h.fault = m.fault
  BY EmptySeq DEF Machines
<1> HIDE DEF h
<1>3. PushGoal(h, HaltG) \in Machines /\ PushGoal(h, HaltG).fault # ""
  BY <1>2, GoalTypes, PushTyped
<1> HIDE DEF open, G, B, C, Q
<1>4. k.fault = m.fault /\ m.fault \in Faults
  BY DEF Machines
<1> HIDE DEF k
<1>5. CASE open = {}
  BY <1>1, <1>3, <1>5, FailsFine
<1>6. CASE open # {}
  BY <1>1, <1>4, <1>6 DEF Fine
<1> QED  BY <1>5, <1>6

LEMMA PlainGoalTypes ==
    /\ \A t \in Terms : QueryG(t) \in PlainGoals /\ RunG(t) \in PlainGoals
                            /\ RunG(t).goal = "Run"
    /\ \A i \in Nat, v \in Values : UnifyG(i, v) \in PlainGoals /\ UnifyG(i, v).goal = "Unify"
                                    /\ UnifyG(i, v).id = i
    /\ \A a \in Seq(Rules), u \in Seq(Rules) : FilterRulesG(a, u) \in PlainGoals
    /\ \A r \in Rules : CheckG(r) \in PlainGoals /\ CheckG(r).goal = "CheckRule"
    /\ \A r \in Rules, o \in Rules : IsMoreSpecificG(r, o) \in PlainGoals
                                    /\ IsMoreSpecificG(r, o).goal = "IsMoreSpecific"
    /\ CheckErrorG \in PlainGoals /\ CheckErrorG.goal = "CheckError"
    /\ AddConstraintsBatchG \in PlainGoals
  BY DEF PlainGoals, QueryG, RunG, UnifyG, FilterRulesG, CheckG, IsMoreSpecificG,
         CheckErrorG, AddConstraintsBatchG

\* Goals that are alternatives of each other.
LEMMA EachChosen ==
    ASSUME NEW n \in Nat, NEW q, StaysReady(q, n), NEW gs \in Seq(PlainGoals),
           NEW alts, alts = [i \in DOMAIN gs |-> <<gs[i]>>]
    PROVE  Fine(Choose(q, alts), n)
<1>1. DOMAIN gs = 1 .. Len(gs) /\ Len(gs) \in Nat /\ \A i \in DOMAIN gs : gs[i] \in PlainGoals
  OBVIOUS
<1>2. /\ DOMAIN alts = 1 .. Len(gs) /\ alts \in Seq(Seq(PlainGoals)) /\ Len(alts) = Len(gs)
      /\ \A i \in 1 .. Len(alts) : Len(alts[i]) = 1 /\ alts[i][1] \in PlainGoals
  <2>1. \A i \in DOMAIN gs : <<gs[i]>> \in Seq(PlainGoals)
    BY <1>1
  <2>2. \A i \in 1 .. Len(gs) : alts[i] = <<gs[i]>>
    BY <1>1
  <2>3. \A i \in 1 .. Len(gs) : Len(alts[i]) = 1 /\ alts[i][1] \in PlainGoals
    BY <1>1, <2>2
  <2>4. alts \in Seq(Seq(PlainGoals)) /\ Len(alts) = Len(gs)
    BY <1>1, <2>1
  <2> QED  BY <1>1, <2>3, <2>4
<1>3. alts \in Seq(Seq(Goals))
  <2>1. Seq(PlainGoals) \subseteq Seq(Goals)
    BY GoalTypes
  <2> QED  BY <1>2, <2>1
<1>4. CASE alts = <<>>
  <2>1. Choose(q, alts) = Backtrack(q)
    BY <1>4 DEF Choose
  <2>2. q \in Machines /\ (q.fault = "" => Calm(q, n))
    BY DEF StaysReady, Ready
  <2> QED  BY <2>1, <2>2, Backtracked, BacktrackFails
<1>5. CASE alts # <<>>
  <2>1. 1 \in 1 .. Len(alts)
    BY <1>3, <1>5
  <2>2. \A a \in 2 .. Len(alts) : a \in 1 .. Len(alts)
    BY <1>3
  <2>3. \A i \in 1 .. 1 : i = 1
    OBVIOUS
  <2>4. \A a \in 2 .. Len(alts) : Len(alts[a]) <= Len(alts[1])
    BY <1>2, <2>1, <2>2
  <2>5. \A a \in 1 .. Len(alts) : \A i \in 1 .. Len(alts[a]) : alts[a][i] \in PlainGoals
    BY <1>2, <2>3
  <2>6. Alternatives(alts, Len(q.choices))
    BY <1>5, <2>1, <2>2, <2>4, <2>5 DEF Alternatives
  <2> QED  BY <1>3, <2>6, Chosen
<1> QED  BY <1>4, <1>5

LEMMA FaultDone ==
    ASSUME NEW n \in Nat \ {0}, NEW m \in Machines, NEW f \in Faults \ {""}
    PROVE  Done(Faulty(m, f), n)
  BY Failed DEF Done

LEMMA TermTypes ==
    ASSUME NEW t \in Terms
    PROVE  /\ t.op \in Operators /\ t.name \in STRING /\ t.val \in STRING
           /\ t.args \in Seq(Terms)
           /\ t.op = "Not" => Len(t.args) = 1
           /\ t.name \in Values /\ t.val \in Values
<1>1. t \in [op : Operators, name : STRING, val : STRING, args : Seq(Terms)]
      /\ (t.op = "Not" => Len(t.args) = 1)
  BY TermsAssumption
<1> QED  BY <1>1 DEF Values

\* Query, whatever the term.
LEMMA Queried ==
    ASSUME NEW n \in Nat \ {0}, NEW k, NEW t, Popped(k, QueryG(t), n),
           NEW p \in Policies
    PROVE  Done(Query(k, t, p, n), n)
<1> DEFINE q == PushGoal([k EXCEPT !.queries = Append(@, t)], PopQueryG)
<1> DEFINE r == Query(k, t, p, n)
<1>1. /\ StaysReady(q, n)
      /\ q.choices # <<>> => Len(q.queries) \in Nat /\ ~(Len(q.queries) < 2)
  <2>1. QueryG(t).goal = "Query" /\ QueryG(t).term = t
    BY DEF QueryG
  <2> QED  BY <2>1, QueryStarted
<1>2. t \in Terms
  <2>1. QueryG(t) \in Goals /\ QueryG(t).goal = "Query" /\ QueryG(t).term = t
    BY DEF Popped, QueryG
  <2> QED  BY <2>1 DEF Goals, PlainGoals, SortGoals, AskGoals, CutGoals
<1>3. /\ t.op \in Operators /\ t.name \in Values /\ t.val \in Values
      /\ t.args \in Seq(Terms) /\ (t.op = "Not" => Len(t.args) = 1)
  BY <1>2, TermTypes
<1>4. q \in Machines /\ n \in Nat /\ n + 1 \in Nat
  <2>1. q \in Machines
    BY <1>1 DEF StaysReady
  <2>2. n \in Nat /\ n + 1 \in Nat
    OBVIOUS
  <2> QED  BY <2>1, <2>2
<1> HIDE DEF q
<1>5. CASE t.op = "Fact"
  <2> DEFINE b == [var |-> NoId, val |-> t.name]
  <2>1. r = [q EXCEPT !.bindings = Append(@, b)]
    BY <1>5 DEF Query, q
  <2>2. b \in Entries
    BY <1>3 DEF Entries, NoId
  <2> HIDE DEF b, r
  <2>3. StaysReady(r, n)
    BY <1>1, <1>4, <2>1, <2>2, Bound
  <2> QED  BY <1>4, <2>3, Stays, FineDone DEF r
<1>6. CASE t.op = "False"
  <2>1. r = PushGoal(q, BacktrackG)
    BY <1>6 DEF Query, q
  <2> HIDE DEF r
  <2>2. StaysReady(r, n)
    BY <1>1, <1>4, <2>1, PlainPushed, GoalTypes
  <2> QED  BY <1>4, <2>2, Stays, FineDone DEF r
<1>7. CASE t.op = "Cut"
  <2>1. r = QueryCut(q)
    BY <1>7 DEF Query, q
  <2>2. r = PushGoal(q, CutG(CutIndex(q)))
    BY <1>1, <2>1 DEF QueryCut
  <2>3. CutIndex(q) \in 0 .. Len(q.choices) /\ Len(q.choices) \in Nat
    BY <1>4, CutIndexed
  <2> DEFINE g == CutG(CutIndex(q))
  <2>4. g \in CutGoals /\ g.choice_index <= Len(q.choices) /\ g \in Goals
    <3>1. g \in CutGoals /\ g.choice_index = CutIndex(q)
      BY <2>3 DEF CutG, CutGoals
    <3> QED  BY <3>1, <2>3, GoalTypes
  <2> HIDE DEF g, r
  <2>5. CASE q.fault # ""
    BY <1>4, <2>2, <2>4, <2>5, PushTyped, FailsFine, FineDone DEF r, g
  <2>6. CASE q.fault = ""
    <3>1. Ready(q, n) /\ Pushable(q, n)
      BY <1>1, <2>6, ReadyPushable DEF StaysReady
    <3>2. MayPush(q, <<g>>)
      <4>1. Len(<<g>>) = 1 /\ <<g>>[1] = g /\ \A i \in 1 .. 1 : i = 1
        OBVIOUS
      <4>2. \A j \in DOMAIN q.choices : \A id \in Awaited(q.choices[j]) : id \in q.calls
        BY <3>1 DEF Ready, Calm
      <4>3. \A i \in 1 .. Len(<<g>>) :
                i = 1 /\ <<g>>[i] \in CutGoals /\ <<g>>[i].choice_index <= Len(q.choices)
        BY <4>1, <2>4
      <4> QED  BY <4>2, <4>3 DEF MayPush
    <3>3. Fine(r, n)
      BY <3>1, <3>2, <2>2, <2>4, <1>4, GoalPushed DEF g
    <3> QED  BY <3>3, FineDone DEF r
  <2> QED  BY <2>5, <2>6
<1>8. CASE t.op \in {"And", "Or"}
  <2> DEFINE gs == [i \in DOMAIN t.args |-> QueryG(t.args[i])]
  <2> DEFINE alts == [i \in DOMAIN t.args |-> <<QueryG(t.args[i])>>]
  <2>1. gs \in Seq(PlainGoals)
    <3>1. \A i \in DOMAIN t.args : QueryG(t.args[i]) \in PlainGoals
      BY <1>3, PlainGoalTypes
    <3>2. DOMAIN t.args = 1 .. Len(t.args) /\ Len(t.args) \in Nat
      BY <1>3
    <3> QED  BY <3>1, <3>2
  <2>2. alts = [i \in DOMAIN gs |-> <<gs[i]>>]
    OBVIOUS
  <2>3. t.op = "And" => r = AppendGoals(q, gs)
    BY DEF Query, q
  <2>4. t.op = "Or" => r = Choose(q, alts)
    BY DEF Query, q
  <2> HIDE DEF gs, alts, r
  <2>5. StaysReady(AppendGoals(q, gs), n) /\ Fine(Choose(q, alts), n)
    BY <1>1, <1>4, <2>1, <2>2, PlainPushed, EachChosen
  <2>6. Fine(r, n)
    BY <1>8, <2>3, <2>4, <2>5, Stays
  <2> QED  BY <2>6, FineDone DEF r
<1>9. CASE t.op = "Not"
  <2>1. r = ChooseConditional(q, <<RunG(t.args[1])>>, <<AddConstraintsBatchG>>,
                              <<BacktrackG>>)
    BY <1>9 DEF Query, q
  <2>2. t.args[1] \in Terms
    BY <1>3, <1>9
  <2>3. RunG(t.args[1]) \in PlainGoals /\ RunG(t.args[1]).goal \in AboveCut
    BY <2>2, PlainGoalTypes DEF AboveCut
  <2> HIDE DEF r
  <2>4. Fine(r, n)
    BY <1>1, <1>4, <2>1, <2>3, GoalTypes, PlainGoalTypes, ConditionalChosen
  <2> QED  BY <2>4, FineDone DEF r
<1>10. CASE t.op = "Call" /\ t.name \notin DOMAIN p
  <2>1. r = Faulty(q, "QueryForUndefinedRule")
    BY <1>10 DEF Query, q
  <2>2. "QueryForUndefinedRule" \in Faults \ {""}
    BY DEF Faults
  <2> HIDE DEF r
  <2> QED  BY <1>4, <2>1, <2>2, FaultDone DEF r
<1>11. CASE t.op = "Call" /\ t.name \in DOMAIN p
  <2> DEFINE g == FilterRulesG(<<>>, p[t.name])
  <2>1. r = PushGoal(q, g)
    BY <1>11 DEF Query, q
  <2>2. p[t.name] \in Seq(Rules)
    BY <1>11, TermsAssumption
  <2>3. g \in PlainGoals
    BY <2>2, EmptySeq, PlainGoalTypes
  <2> HIDE DEF g, r
  <2>4. StaysReady(r, n)
    BY <1>1, <1>4, <2>1, <2>3, PlainPushed
  <2> QED  BY <1>4, <2>4, Stays, FineDone DEF r
<1>12. CASE t.op = "Isa"
  <2> DEFINE g == IsaExternalG(t)
  <2>1. r = PushGoal(q, g)
    BY <1>12 DEF Query, q
  <2>2. g \in PlainGoals
    <3>1. t.name \in Named("Isa")
      BY <1>2, <1>12 DEF Named
    <3> QED  BY <3>1 DEF PlainGoals, IsaExternalG
  <2> HIDE DEF g, r
  <2>4. StaysReady(r, n)
    BY <1>1, <1>4, <2>1, <2>2, PlainPushed
  <2> QED  BY <1>4, <2>4, Stays, FineDone DEF r
<1>13. CASE t.op = "Dot"
  <2> DEFINE g == LookupExternalG(n, t)
  <2> DEFINE u == UnifyG(n, t.val)
  <2> DEFINE gs == <<g, CheckErrorG, u>>
  <2>1. r = AppendGoals(NewCallId(q, n), gs)
    BY <1>13 DEF Query, q
  <2>2. g \in AskGoals /\ g.id = n
    <3>1. t.name \in Named("Dot")
      BY <1>2, <1>13 DEF Named
    <3> QED  BY <3>1, <1>4 DEF AskGoals, LookupExternalG
  <2>3. u \in PlainGoals
    BY <1>3, <1>4, PlainGoalTypes
  <2> HIDE DEF g, u, r
  <2>4. g \in Goals /\ u \in Goals /\ CheckErrorG \in Goals /\ CheckErrorG \in PlainGoals
    BY <2>2, <2>3, GoalTypes, PlainGoalTypes
  <2>5. gs \in Seq(Goals) /\ Len(gs) = 3 /\ gs[1] = g /\ gs[2] = CheckErrorG /\ gs[3] = u
    BY <2>4
  <2>6. \A i \in 2 .. 3 : i = 2 \/ i = 3
    OBVIOUS
  <2> HIDE DEF gs
  <2>7. \A i \in 2 .. Len(gs) : gs[i] \in PlainGoals
    BY <2>3, <2>4, <2>5, <2>6
  <2>8. Len(gs) >= 1
    BY <2>5
  <2> QED  BY <1>1, <2>1, <2>2, <2>5, <2>7, <2>8, QuestionPushed DEF r
<1>14. CASE t.op = "In"
  <2> DEFINE g == NextExternalG(n, t)
  <2> DEFINE u == UnifyG(n, "")
  <2> DEFINE gs == <<g, u>>
  <2>1. r = AppendGoals(NewCallId(q, n), gs)
    BY <1>14 DEF Query, q
  <2>2. g \in AskGoals /\ g.id = n
    <3>1. t.name \in Named("In")
      BY <1>2, <1>14 DEF Named
    <3> QED  BY <3>1, <1>4 DEF AskGoals, NextExternalG
  <2>3. u \in PlainGoals
    <3>1. "" \in Values
      BY DEF Values
    <3> QED  BY <3>1, <1>4, PlainGoalTypes
  <2> HIDE DEF g, u, r
  <2>4. g \in Goals /\ u \in Goals
    BY <2>2, <2>3, GoalTypes
  <2>5. gs \in Seq(Goals) /\ Len(gs) = 2 /\ gs[1] = g /\ gs[2] = u
    BY <2>4
  <2>6. \A i \in 2 .. 2 : i = 2
    OBVIOUS
  <2> HIDE DEF gs
  <2>7. \A i \in 2 .. Len(gs) : gs[i] \in PlainGoals
    BY <2>3, <2>5, <2>6
  <2>8. Len(gs) >= 1
    BY <2>5
  <2> QED  BY <1>1, <2>1, <2>2, <2>5, <2>7, <2>8, QuestionPushed DEF r
<1> HIDE DEF r
<1>15. t.op \in {"Fact", "False", "Cut", "Call", "Dot", "Isa", "In", "And", "Or", "Not"}
  BY <1>3 DEF Operators
<1> QED  BY <1>5, <1>6, <1>7, <1>8, <1>9, <1>10, <1>11, <1>12, <1>13, <1>14, <1>15 DEF r

\* What is true of every goal that may follow on another one.
LEMMA Follows ==
    ASSUME NEW n \in Nat \ {0}, NEW k, NEW g, Popped(k, g, n),
           g.goal \notin {"Cut", "CheckError", "PopQuery", "Halt", "Query"}
    PROVE  /\ Calm(k, n) /\ k.goals # <<>> /\ k \in Machines /\ k.fault = ""
           /\ Fine(k, n)
           /\ g.goal \notin AboveCut => Ready(k, n) /\ StaysReady(k, n)
<1>1. Calm(k, n) /\ (g.goal \notin AboveCut => Ready(k, n))
  BY PoppedCalm
<1>2. k.goals # <<>>
  BY DEF Popped
<1>3. k \in Machines /\ k.fault = ""
  BY <1>1 DEF Calm
<1> QED  BY <1>1, <1>2, <1>3, CalmOK DEF Fine, Faults, StaysReady

\* A test that fails goes back.
LEMMA Tested ==
    ASSUME NEW n \in Nat \ {0}, NEW k, NEW g, Popped(k, g, n),
           g.goal \in {"IsMoreSpecific", "CheckRule", "Unify"}
    PROVE  /\ \A holds \in BOOLEAN : Done(Test(k, holds), n)
           /\ Done(PushGoal(k, BacktrackG), n)
           /\ Done(k, n)
<1>1. Calm(k, n) /\ k.goals # <<>> /\ Fine(k, n)
  BY Follows
<1>2. Fine(PushGoal(k, BacktrackG), n)
  BY <1>1, GoalTypes, PushedAbove DEF AboveCut
<1> QED  BY <1>1, <1>2, FineDone DEF Test

LEMMA Unified ==
    ASSUME NEW n \in Nat \ {0}, NEW k, NEW g, Popped(k, g, n), g.goal = "Unify"
    PROVE  Done(Unify(k, g), n)
<1> DEFINE entries == SelectSeq(k.bindings, LAMBDA e : e.var = g.id)
<1> DEFINE b == [var |-> g.id, val |-> g.val]
<1>1. b \in Entries
  <2>1. g.id \in Nat /\ g.val \in Values
    BY DEF Popped, Goals, PlainGoals, SortGoals, AskGoals, CutGoals
  <2> QED  BY <2>1 DEF Entries
<1>2. \/ Unify(k, g) = [k EXCEPT !.bindings = Append(@, b)]
      \/ Unify(k, g) = k
      \/ Unify(k, g) = PushGoal(k, BacktrackG)
  <2> DEFINE same == g.val \in {"", Last(entries).val}
  <2>1. Unify(k, g) =
            CASE entries = <<>> -> [k EXCEPT !.bindings = Append(@, b)]
              [] entries # <<>> /\ same -> k
              [] OTHER -> PushGoal(k, BacktrackG)
    BY DEF Unify
  <2> HIDE DEF entries, same, b
  <2> QED  BY <2>1
<1> HIDE DEF b
<1>3. Calm(k, n) /\ k \in Machines
  BY Follows
<1>4. Done([k EXCEPT !.bindings = Append(@, b)], n)
  <2> DEFINE r == [k EXCEPT !.bindings = Append(@, b)]
  <2>1. Calm(r, n)
    BY <1>1, <1>3, Bound
  <2> HIDE DEF r
  <2>2. Fine(r, n)
    BY <2>1, CalmOK DEF Fine, Calm, Faults
  <2> QED  BY <2>2, FineDone DEF r
<1> QED  BY <1>2, <1>4, Tested

LEMMA Filtered ==
    ASSUME NEW n \in Nat \ {0}, NEW k, NEW g, Popped(k, g, n), g.goal = "FilterRules"
    PROVE  Done(FilterRules(k, g), n)
<1> DEFINE r == FilterRules(k, g)
<1> DEFINE rule == Last(g.unfiltered)
<1> DEFINE inapplicable == FilterRulesG(g.applicable, Front(g.unfiltered))
<1> DEFINE applicable == FilterRulesG(Append(g.applicable, rule), Front(g.unfiltered))
<1>1. StaysReady(k, n) /\ n \in Nat
  BY Follows DEF AboveCut
<1>2. g.applicable \in Seq(Rules) /\ g.unfiltered \in Seq(Rules)
  BY DEF Popped, Goals, PlainGoals, SortGoals, AskGoals, CutGoals
<1>3. CASE g.unfiltered = <<>>
  <2> DEFINE sort == SortRulesG(Reverse(g.applicable), 1, 1)
  <2>1. r = PushGoal(k, sort)
    BY <1>3 DEF FilterRules
  <2>2. sort \in PlainGoals
    <3> DEFINE R == Reverse(g.applicable)
    <3>1. R \in Seq(Rules)
      BY <1>2, ReverseProps
    <3> HIDE DEF R
    <3>2. R # <<>> => 1 \in 1 .. Len(R)
      BY <3>1
    <3>3. SortRulesG(R, 1, 1) \in SortGoals
      BY <3>1, <3>2 DEF SortGoals, SortRulesG
    <3> QED  BY <3>3 DEF PlainGoals, R
  <2> HIDE DEF sort, r
  <2>3. StaysReady(r, n)
    BY <1>1, <2>1, <2>2, PlainPushed
  <2> QED  BY <1>1, <2>3, Stays, FineDone DEF r
<1>4. CASE g.unfiltered # <<>>
  <2>1. rule \in Rules /\ Front(g.unfiltered) \in Seq(Rules)
    BY <1>2, <1>4, FrontLast
  <2>2. Append(g.applicable, rule) \in Seq(Rules)
    BY <1>2, <2>1
  <2>3. inapplicable \in PlainGoals /\ applicable \in PlainGoals
    BY <1>2, <2>1, <2>2, PlainGoalTypes
  <2>4. CheckG(rule) \in PlainGoals /\ CheckG(rule).goal \in AboveCut
    BY <2>1, PlainGoalTypes DEF AboveCut
  <2>5. \/ r = PushGoal(k, inapplicable)
        \/ r = PushGoal(k, applicable)
        \/ r = ChooseConditional(k, <<CheckG(rule)>>, <<applicable>>, <<inapplicable>>)
    <3>1. r = CASE rule.fit = "arity" -> PushGoal(k, inapplicable)
                [] rule.fit = "ground" -> PushGoal(k, applicable)
                [] OTHER -> ChooseConditional(k, <<CheckG(rule)>>, <<applicable>>,
                                              <<inapplicable>>)
      BY <1>4 DEF FilterRules
    <3> HIDE DEF r, rule, applicable, inapplicable
    <3> QED  BY <3>1
  <2> HIDE DEF r, rule, applicable, inapplicable
  <2>6. StaysReady(PushGoal(k, inapplicable), n) /\ StaysReady(PushGoal(k, applicable), n)
    BY <1>1, <2>3, PlainPushed
  <2>7. Fine(ChooseConditional(k, <<CheckG(rule)>>, <<applicable>>, <<inapplicable>>), n)
    BY <1>1, <2>3, <2>4, ConditionalChosen
  <2> QED  BY <1>1, <2>5, <2>6, <2>7, Stays, FineDone DEF r
<1> QED  BY <1>3, <1>4

LEMMA Swapped ==
    ASSUME NEW S, NEW s \in Seq(S), NEW i, NEW j, s[i] \in S, s[j] \in S
    PROVE  SwapRules(s, i, j) \in Seq(S) /\ Len(SwapRules(s, i, j)) = Len(s)
<1> DEFINE r == SwapRules(s, i, j)
<1>1. DOMAIN s = 1 .. Len(s) /\ Len(s) \in Nat /\ \A q \in 1 .. Len(s) : s[q] \in S
  OBVIOUS
<1>2. r = [q \in 1 .. Len(s) |-> IF q = j THEN s[i] ELSE IF q = i THEN s[j] ELSE s[q]]
  BY <1>1 DEF SwapRules
<1>3. \A q \in 1 .. Len(s) : r[q] \in S
  BY <1>1, <1>2
<1> HIDE DEF r
<1>4. r \in [1 .. Len(s) -> S]
  BY <1>2, <1>3
<1>5. r \in Seq(S) /\ Len(r) = Len(s)
  BY <1>1, <1>4
<1> QED  BY <1>5 DEF r

LEMMA Sorted ==
    ASSUME NEW n \in Nat \ {0}, NEW k, NEW g, Popped(k, g, n), g.goal = "SortRules"
    PROVE  Done(SortRules(k, g), n)
<1> DEFINE r == SortRules(k, g)
<1> DEFINE L == Len(g.rules)
<1> DEFINE o == g.outer
<1> DEFINE i == g.inner
<1> DEFINE next == SortRulesG(g.rules, o + 1, o + 1)
<1> DEFINE test == IsMoreSpecificG(g.rules[i + 1], g.rules[i])
<1> DEFINE swapped == SortRulesG(SwapRules(g.rules, i, i + 1), o, i - 1)
<1> DEFINE gs == [j \in DOMAIN g.rules |-> QueryG(g.rules[j].body)]
<1> DEFINE alts == [j \in DOMAIN g.rules |-> <<QueryG(g.rules[j].body)>>]
<1>1. StaysReady(k, n) /\ n \in Nat
  BY Follows DEF AboveCut
<1>2. g \in SortGoals
  BY DEF Popped, Goals, PlainGoals, AskGoals, CutGoals
<1>3. /\ g.rules \in Seq(Rules) /\ o \in Nat /\ i \in Nat
      /\ g.rules # <<>> => o \in 1 .. Len(g.rules) /\ i <= o
  BY <1>2 DEF SortGoals
<1>4. L \in Nat /\ DOMAIN g.rules = 1 .. L /\ \A j \in 1 .. L : g.rules[j] \in Rules
  <2>1. g.rules \in Seq(Rules)
    BY <1>3
  <2> QED  BY <2>1
<1>s. r = CASE g.rules = <<>> -> PushGoal(k, BacktrackG)
            [] g.rules # <<>> /\ (o > L \/ i > o) -> Faulty(k, "InvalidState")
            [] o < L /\ i > 0 -> ChooseConditional(k, <<test>>, <<swapped>>, <<next>>)
            [] o < L /\ i = 0 -> PushGoal(k, next)
            [] OTHER -> Choose(k, alts)
  BY DEF SortRules
<1>5. CASE g.rules = <<>>
  <2>1. ~(o < L)
    <3>1. L = 0 /\ o \in Nat
      BY <1>3, <1>5
    <3> HIDE DEF o, L
    <3> QED  BY <3>1
  <2>2. r = PushGoal(k, BacktrackG)
    <3> HIDE DEF r, o, L, i, next, test, swapped, gs, alts
    <3> QED  BY <1>5, <1>s, <2>1
  <2> HIDE DEF r
  <2>3. StaysReady(r, n)
    BY <1>1, <2>2, GoalTypes, PlainPushed
  <2> QED  BY <1>1, <2>3, Stays, FineDone DEF r
<1>6. CASE g.rules # <<>>
  <2>1. o \in 1 .. L /\ i <= o
    BY <1>3, <1>6
  <2>3. gs \in Seq(PlainGoals) /\ alts = [j \in DOMAIN gs |-> <<gs[j]>>]
    <3>1. \A j \in 1 .. L : g.rules[j].body \in Terms
      BY <1>4 DEF Rules
    <3>2. \A j \in 1 .. L : QueryG(g.rules[j].body) \in PlainGoals
      BY <3>1, PlainGoalTypes
    <3>3. gs \in Seq(PlainGoals)
      BY <1>4, <3>2
    <3> QED  BY <3>3
  <2>4. o < L => next \in PlainGoals
    <3>1. ASSUME o < L PROVE o + 1 \in 1 .. L /\ o + 1 \in Nat /\ o + 1 <= o + 1
      <4> HIDE DEF o, L
      <4> QED  BY <1>3, <1>4, <3>1
    <3>2. o < L => next \in SortGoals
      BY <1>3, <3>1 DEF SortGoals, SortRulesG
    <3> QED  BY <3>2 DEF PlainGoals
  <2>5. o < L /\ i > 0 =>
            test \in PlainGoals /\ test.goal \in AboveCut /\ swapped \in PlainGoals
    <3> SUFFICES ASSUME o < L, i > 0
                 PROVE  test \in PlainGoals /\ test.goal \in AboveCut /\ swapped \in PlainGoals
      OBVIOUS
    <3>1. i \in 1 .. L /\ i + 1 \in 1 .. L /\ i - 1 \in Nat /\ i - 1 <= o
      <4>1. i \in Nat /\ o \in Nat /\ i <= o /\ o < L /\ i > 0
        BY <1>3, <2>1
      <4> HIDE DEF o, L, i
      <4> QED  BY <4>1, <1>4
    <3>2. test \in PlainGoals /\ test.goal \in AboveCut
      BY <1>4, <3>1, PlainGoalTypes DEF AboveCut
    <3> DEFINE R == SwapRules(g.rules, i, i + 1)
    <3>3. R \in Seq(Rules) /\ Len(R) = L
      <4>1. g.rules[i] \in Rules /\ g.rules[i + 1] \in Rules /\ g.rules \in Seq(Rules)
        BY <1>3, <1>4, <3>1
      <4> HIDE DEF i
      <4> QED  BY <4>1, Swapped
    <3> HIDE DEF R
    <3>4. SortRulesG(R, o, i - 1) \in SortGoals
      BY <1>3, <2>1, <3>1, <3>3 DEF SortGoals, SortRulesG
    <3> QED  BY <3>2, <3>4 DEF PlainGoals, R
  <2>6. ~(o > L \/ i > o)
    <3> HIDE DEF o, L, i
    <3> QED  BY <1>3, <1>4, <2>1
  <2>7. (o < L => i > 0 \/ i = 0) /\ (i = 0 => ~(i > 0))
    <3> HIDE DEF o, L, i
    <3> QED  BY <1>3
  <2> HIDE DEF r, o, L, i, next, test, swapped, gs, alts
  <2>8. \/ o < L /\ i > 0 /\ r = ChooseConditional(k, <<test>>, <<swapped>>, <<next>>)
        \/ o < L /\ i = 0 /\ r = PushGoal(k, next)
        \/ r = Choose(k, alts)
    BY <1>6, <1>s, <2>6, <2>7
  <2>9. CASE o < L /\ i > 0 /\ r = ChooseConditional(k, <<test>>, <<swapped>>, <<next>>)
    BY <1>1, <2>4, <2>5, <2>9, ConditionalChosen, FineDone DEF r
  <2>10. CASE o < L /\ i = 0 /\ r = PushGoal(k, next)
    <3>1. StaysReady(PushGoal(k, next), n)
      BY <1>1, <2>4, <2>10, PlainPushed
    <3> QED  BY <1>1, <2>10, <3>1, Stays, FineDone DEF r
  <2>11. CASE r = Choose(k, alts)
    BY <1>1, <2>3, <2>11, EachChosen, FineDone DEF r
  <2> QED  BY <2>8, <2>9, <2>10, <2>11
<1> QED  BY <1>5, <1>6

\* What the machine is like does not depend on the error it has been told of.
LEMMA ErrorTold ==
    ASSUME NEW n, NEW m, NEW e \in BOOLEAN, m \in Machines
    PROVE  LET k == [m EXCEPT !.error = e]
           IN  /\ k \in Machines /\ k.goals = m.goals /\ k.choices = m.choices
               /\ k.queries = m.queries /\ k.calls = m.calls /\ k.fault = m.fault
               /\ k.bindings = m.bindings /\ k.yielded = m.yielded /\ k.id = m.id
               /\ MachineOK(m, n) => MachineOK(k, n)
               /\ \A i : Asked(m, i) => Asked(k, i)
               /\ \A i : Expecting(m, i) => Expecting(k, i)
<1> DEFINE k == [m EXCEPT !.error = e]
<1>1. /\ k \in Machines /\ k.goals = m.goals /\ k.choices = m.choices
      /\ k.queries = m.queries /\ k.calls = m.calls /\ k.fault = m.fault
      /\ k.bindings = m.bindings /\ k.yielded = m.yielded /\ k.id = m.id
  BY DEF Machines
<1> HIDE DEF k
<1>2. ASSUME MachineOK(m, n) PROVE MachineOK(k, n)
  <2>1. ChoicesOK(k, n) /\ Known(k) /\ Asking(k) /\ Bottom(k)
    BY <1>1, <1>2, SameChoices DEF MachineOK, Known, Asking, Bottom, Unawaited
  <2>2. /\ Len(k.goals) <= StackLimit /\ k.calls \subseteq 1 .. n - 1
        /\ k.yielded => k.goals = <<>>
        /\ Balanced(k.goals, k.queries) /\ GoalsOK(k.goals, k.choices)
    BY <1>1, <1>2 DEF MachineOK
  <2> QED  BY <1>1, <1>2, <2>1, <2>2 DEF MachineOK
<1>3. \A i : Asked(m, i) => Asked(k, i)
  BY <1>1 DEF Asked
<1>4. \A i : Expecting(m, i) => Expecting(k, i)
  BY <1>1 DEF Expecting, Unawaited
<1> QED  BY <1>1, <1>2, <1>3, <1>4 DEF k

\* CheckError: a cut that is beneath is next.
LEMMA ErrorChecked ==
    ASSUME NEW n \in Nat \ {0}, NEW k, NEW g, Popped(k, g, n), g.goal = "CheckError"
    PROVE  Done(CheckError(k), n)
<1>1. k \in Machines /\ k.fault = ""
  BY DEF Popped
<1>2. k.goals \in Seq(Goals)
  BY <1>1 DEF Machines
<1>3. CASE k.error
  <2> DEFINE b == [k EXCEPT !.error = FALSE]
  <2>1. CheckError(k) = Faulty(b, "Application")
    BY <1>3 DEF CheckError
  <2>2. b \in Machines
    BY <1>1, ErrorTold
  <2> HIDE DEF b
  <2>3. "Application" \in Faults \ {""}
    BY DEF Faults
  <2> QED  BY <2>1, <2>2, <2>3, FaultDone
<1>4. CASE ~k.error
  <2>1. CheckError(k) = k
    BY <1>4 DEF CheckError
  <2>2. \A i \in DOMAIN k.goals :
            \/ k.goals[i] \in Saved
            \/ /\ i = Len(k.goals) /\ k.goals[i] \in CutGoals
               /\ k.goals[i].choice_index <= Len(k.choices)
    BY DEF Popped
  <2>3. GoalsOK(k.goals, k.choices)
    <3>1. ASSUME NEW i \in DOMAIN k.goals, i < Len(k.goals) PROVE k.goals[i] \in Saved
      <4>1. i # Len(k.goals)
        BY <1>2, <3>1
      <4> QED  BY <4>1, <2>2
    <3>2. ASSUME NEW i \in DOMAIN k.goals, k.goals[i].goal = "Cut"
          PROVE  k.goals[i].choice_index <= Len(k.choices)
      <4>1. k.goals[i] \notin Saved
        BY <3>2, GoalTypes DEF Saved
      <4> QED  BY <4>1, <2>2
    <3> QED  BY <3>1, <3>2 DEF GoalsOK
  <2>4. Asking(k)
    <3>1. k.goals # <<>> => Len(k.goals) \in DOMAIN k.goals
      BY <1>2
    <3>2. \A h \in Saved \cup CutGoals : h \notin AskGoals
      BY GoalTypes DEF Saved
    <3> QED  BY <3>1, <3>2, <2>2 DEF Asking
  <2>5. Known(k)
    BY DEF Popped, Known
  <2>6. Bottom(k)
    BY DEF Popped, Bottom
  <2>7. MachineOK(k, n)
    BY <2>3, <2>4, <2>5, <2>6 DEF Popped, MachineOK
  <2>8. Fine(k, n)
    BY <1>1, <2>7 DEF Fine, Faults
  <2> QED  BY <2>1, <2>8, FineDone
<1> QED  BY <1>3, <1>4

\* PopQuery: the goals and the queries stay in step.
LEMMA QueryPopped ==
    ASSUME NEW n \in Nat \ {0}, NEW k, NEW g, Popped(k, g, n), g.goal = "PopQuery"
    PROVE  Done([k EXCEPT !.queries = Front(@)], n)
<1> DEFINE Q == Front(k.queries)
<1> DEFINE r == [k EXCEPT !.queries = Q]
<1>1. k \in Machines /\ k.fault = "" /\ k.goals \in Seq(Saved)
  BY DEF Popped, AboveCut
<1>2. k.queries \in Seq(Terms) /\ k.goals \in Seq(Goals)
  BY <1>1 DEF Machines
<1>3. Cardinality(Pops(k.goals)) \in Nat
  BY <1>2, PopsFinite
<1>4. Cardinality(Pops(k.goals)) + 1 = Len(k.queries)
  BY DEF Popped
<1>5. k.queries # <<>>
  <2>1. Len(k.queries) # 0
    BY <1>3, <1>4
  <2> QED  BY <2>1
<1>6. Q \in Seq(Terms) /\ Len(k.queries) = Len(Q) + 1
  BY <1>2, <1>5, FrontLast
<1>7. Cardinality(Pops(k.goals)) = Len(Q)
  <2>1. Len(Q) \in Nat
    <3>1. Q \in Seq(Terms)
      BY <1>6
    <3> HIDE DEF Q
    <3> QED  BY <3>1
  <2> HIDE DEF Q
  <2> QED  BY <1>3, <1>4, <1>6, <2>1
<1> HIDE DEF Q
<1>8. /\ r \in Machines /\ r.goals = k.goals /\ r.choices = k.choices /\ r.fault = ""
      /\ r.queries = Q /\ r.calls = k.calls /\ r.bindings = k.bindings
      /\ r.yielded = k.yielded
  BY <1>1, <1>6 DEF Machines
<1> HIDE DEF r
<1>9. ChoicesOK(r, n)
  BY <1>8, SameChoices DEF Popped
<1>10. \A j \in DOMAIN r.choices : Awaited(r.choices[j]) \subseteq r.calls
  BY <1>8 DEF Popped
<1>11. \A i \in DOMAIN r.goals : r.goals[i] \in Saved
  <2>1. k.goals \in Seq(Saved)
    BY <1>1
  <2>2. \A i \in DOMAIN k.goals : k.goals[i] \in Saved
    BY <2>1
  <2> QED  BY <2>2, <1>8
<1>12. Balanced(r.goals, r.queries)
  BY <1>7, <1>8 DEF Balanced
<1>13. Calm(r, n)
  BY <1>8, <1>9, <1>10, <1>11, <1>12 DEF Popped, Calm
<1>14. Fine(r, n)
  BY <1>8, <1>13, CalmOK DEF Fine, Faults
<1> QED  BY <1>14, FineDone DEF r, Q

(***************************************************************************)
(* Events                                                                  *)
(***************************************************************************)

\* new_call_var: the machine stays as it is, with a call id more.
LEMMA VarMade ==
    ASSUME NEW n \in Nat \ {0}, NEW m, Calm(m, n)
    PROVE  LET k == NewCallVar(m, n)
           IN  Calm(k, n + 1) /\ n \in k.calls /\ Unawaited(k, n) /\ k.goals = m.goals
<1> DEFINE b == [var |-> n, val |-> "false"]
<1> DEFINE c == NewCallId(m, n)
<1> DEFINE k == [c EXCEPT !.bindings = Append(@, b)]
<1>1. NewCallVar(m, n) = k
  BY DEF NewCallVar
<1>2. b \in Entries /\ n + 1 \in Nat
  <2>1. b \in Entries
    BY DEF Entries, Values
  <2>2. n + 1 \in Nat
    OBVIOUS
  <2> QED  BY <2>1, <2>2
<1> HIDE DEF b
<1>3. Calm(c, n + 1) /\ n \in c.calls /\ Unawaited(c, n)
  BY NewId
<1>4. c.goals = m.goals
  BY DEF NewCallId, Calm, Machines
<1> HIDE DEF c
<1>5. Calm(k, n + 1)
  BY <1>2, <1>3, Bound
<1>6. c \in Machines
  BY <1>3 DEF Calm
<1>7. k.calls = c.calls /\ k.choices = c.choices /\ k.goals = c.goals
  BY <1>6 DEF Machines
<1> HIDE DEF k
<1>8. n \in k.calls /\ Unawaited(k, n)
  BY <1>3, <1>7 DEF Unawaited
<1> QED  BY <1>1, <1>4, <1>5, <1>7, <1>8

\* Run and IsaExternal: the machine is to be told the answer.
LEMMA AnswerExpected ==
    ASSUME NEW n \in Nat \ {0}, NEW k, NEW g, Popped(k, g, n),
           g.goal \in {"Run", "IsaExternal"}
    PROVE  LET r == PushGoal(NewCallVar(k, n), UnifyG(n, "true"))
           IN  Done(r, n) /\ r \in Machines /\ (r.fault = "" => Expecting(r, n))
<1> DEFINE b == NewCallVar(k, n)
<1> DEFINE u == UnifyG(n, "true")
<1> DEFINE r == PushGoal(b, u)
<1>1. Calm(b, n + 1) /\ n \in b.calls /\ Unawaited(b, n) /\ b.goals # <<>>
  BY Follows, VarMade
<1>2. u \in PlainGoals /\ u.goal = "Unify" /\ u.goal \in AboveCut
  <2>1. "true" \in Values /\ n \in Nat
    BY DEF Values
  <2> QED  BY <2>1, PlainGoalTypes DEF AboveCut
<1>3. n + 1 \in Nat
  OBVIOUS
<1> HIDE DEF b, u
<1>4. /\ Fine(r, n + 1)
      /\ r.fault = "" => /\ r.calls = b.calls /\ r.choices = b.choices
                         /\ r.goals # <<>> /\ r.goals[Len(r.goals)] = u
  <2> DEFINE o == n + 1
  <2>1. /\ Calm(b, o) /\ b.goals # <<>> /\ u \in PlainGoals /\ u.goal \in AboveCut
        /\ o \in Nat
    BY <1>1, <1>2, <1>3
  <2> HIDE DEF o
  <2>2. /\ Fine(PushGoal(b, u), o)
        /\ PushGoal(b, u).fault = "" =>
                /\ PushGoal(b, u).calls = b.calls /\ PushGoal(b, u).choices = b.choices
                /\ PushGoal(b, u).goals # <<>>
                /\ PushGoal(b, u).goals[Len(PushGoal(b, u).goals)] = u
    BY <2>1, PushedAbove
  <2> QED  BY <2>2 DEF o
<1> HIDE DEF r
<1>5. Done(r, n)
  BY <1>1, <1>4, FineDone
<1>6. r.fault = "" => Expecting(r, n)
  BY <1>1, <1>2, <1>4 DEF Expecting, Unawaited
<1>7. r \in Machines
  BY <1>1, <1>2, GoalTypes, PushTyped DEF Calm, r
<1> QED  BY <1>5, <1>6, <1>7 DEF r, b, u

\* LookupExternal and NextExternal: the machine may go back to its choice.
LEMMA AnswerAsked ==
    ASSUME NEW n \in Nat \ {0}, NEW k, NEW g, Popped(k, g, n), g \in AskGoals,
           NEW alternatives,
           alternatives = IF g.goal = "NextExternal" THEN <<<<g>>>> ELSE <<>>
    PROVE  LET r == PushChoice(k, alternatives)
           IN  Done(r, n) /\ r \in Machines /\ (r.fault = "" => Asked(r, g.id))
<1> DEFINE r == PushChoice(k, alternatives)
<1> DEFINE L == Len(k.choices)
<1>1. /\ Ready(k, n) /\ k \in Machines /\ g.id \in k.calls /\ Unawaited(k, g.id)
      /\ g \in Goals
  <2>1. g.goal \in {"LookupExternal", "NextExternal"} /\ g \in Goals
    BY GoalTypes
  <2>2. Ready(k, n) /\ k \in Machines
    BY <2>1, Follows DEF AboveCut
  <2> QED  BY <2>1, <2>2 DEF Popped
<1>2. alternatives \in Seq(Seq(Goals)) /\ Len(alternatives) \in {0, 1}
      /\ (Len(alternatives) = 1 => alternatives[1] = <<g>> /\ g.goal = "NextExternal")
      /\ DOMAIN alternatives = 1 .. Len(alternatives)
  <2>1. <<>> \in Seq(Seq(Goals)) /\ Len(<<>>) = 0 /\ DOMAIN <<>> = 1 .. 0
    BY EmptySeq
  <2> DEFINE a == <<g>>
  <2>2. a \in Seq(Goals)
    BY <1>1
  <2> HIDE DEF a
  <2>3. <<a>> \in Seq(Seq(Goals)) /\ Len(<<a>>) = 1 /\ <<a>>[1] = a
        /\ DOMAIN <<a>> = 1 .. 1
    BY <2>2
  <2>4. (alternatives = <<a>> /\ g.goal = "NextExternal") \/ alternatives = <<>>
    BY DEF a
  <2>5. CASE alternatives = <<a>> /\ g.goal = "NextExternal"
    BY <2>3, <2>5 DEF a
  <2>6. CASE alternatives = <<>>
    BY <2>1, <2>6
  <2> QED  BY <2>4, <2>5, <2>6
<1>3. L \in Nat /\ Len(k.goals) \in Nat /\ Len(k.goals) + 1 <= StackLimit
  <2>1. k.goals \in Seq(Goals)
    BY <1>1 DEF Machines
  <2>2. Len(k.goals) \in Nat
    BY <2>1
  <2> QED  BY <1>1, <2>2, ChoiceTypes DEF Popped
<1>4. ASSUME NEW a \in DOMAIN alternatives
      PROVE  a = 1 /\ alternatives[a] = <<g>> /\ g.goal = "NextExternal"
             /\ Len(alternatives) = 1
  BY <1>2
<1>5. DOMAIN <<g>> = {1} /\ <<g>>[1] = g /\ Len(<<g>>) = 1
  OBVIOUS
<1>6. ASSUME NEW a \in DOMAIN alternatives
      PROVE  /\ AlternativeOK(alternatives[a], L)
             /\ Len(k.goals) + Len(alternatives[a]) <= StackLimit
  <2>1. alternatives[a] = <<g>> /\ g.goal = "NextExternal"
    BY <1>4
  <2>2. g \in [goal : {"NextExternal"}, id : Nat, name : Named("In")]
    BY <2>1 DEF AskGoals
  <2>3. AlternativeOK(<<g>>, L)
    BY <1>5, <2>2 DEF AlternativeOK
  <2> QED  BY <1>3, <1>5, <2>1, <2>3
<1>7. \A id \in AwaitedIn(alternatives) : id = g.id /\ Len(alternatives) = 1
  <2> SUFFICES ASSUME NEW id \in AwaitedIn(alternatives)
               PROVE  id = g.id /\ Len(alternatives) = 1
    OBVIOUS
  <2>1. PICK a \in DOMAIN alternatives : \E i \in DOMAIN alternatives[a] :
            alternatives[a][i].goal = "NextExternal" /\ alternatives[a][i].id = id
    BY AwaitedProps
  <2>2. alternatives[a] = <<g>> /\ Len(alternatives) = 1
    BY <1>4
  <2> QED  BY <1>5, <2>1, <2>2
<1>8. /\ StaysReady(r, n)
      /\ r.fault = "" => /\ Len(r.choices) = L + 1
                         /\ r.goals = k.goals /\ r.calls = k.calls
  BY <1>1, <1>2, <1>6, <1>7, ChoicePushed
<1>9. r.fault = "" => \A j \in 1 .. L : r.choices[j] = k.choices[j] /\ j \in DOMAIN k.choices
  <2> DEFINE c == [alternatives |-> alternatives, bsp |-> Len(k.bindings),
                   goals |-> k.goals, queries |-> k.queries]
  <2> DEFINE C == Append(k.choices, c)
  <2>1. r = Faulty(k, "StackOverflow") \/ r = [k EXCEPT !.choices = C]
    BY DEF PushChoice
  <2>2. Faulty(k, "StackOverflow").fault = "StackOverflow" /\ "StackOverflow" # ""
    BY <1>1, Failed DEF Faults
  <2>3. \A j \in 1 .. L : C[j] = k.choices[j] /\ j \in DOMAIN k.choices
    <3>1. k.choices \in Seq(ChoicePoints)
      BY <1>1, ChoiceTypes
    <3> HIDE DEF c
    <3> QED  BY <3>1
  <2> HIDE DEF C, r
  <2>4. [k EXCEPT !.choices = C].choices = C
    BY <1>1 DEF Machines
  <2> QED  BY <2>1, <2>2, <2>3, <2>4
<1> HIDE DEF r
<1>10. r \in Machines
  BY <1>8 DEF StaysReady
<1>11. ASSUME r.fault = "" PROVE Asked(r, g.id)
  <2>1. g.id \in r.calls /\ r.goals \in Seq(Saved) /\ r.goals # <<>>
    BY <1>1, <1>8, <1>11 DEF Ready
  <2>2. r.choices # <<>> /\ Len(r.choices) - 1 = L
    <3>1. Len(r.choices) = L + 1
      BY <1>8, <1>11
    <3> HIDE DEF L
    <3>2. Len(r.choices) # 0 /\ Len(r.choices) - 1 = L
      BY <3>1, <1>3
    <3> QED  BY <3>2
  <2>3. \A j \in 1 .. L : g.id \notin Awaited(r.choices[j])
    BY <1>1, <1>9, <1>11 DEF Unawaited
  <2> QED  BY <2>1, <2>2, <2>3 DEF Asked
<1>12. Done(r, n)
  BY <1>8, Stays, FineDone
<1> QED  BY <1>10, <1>11, <1>12 DEF r

(***************************************************************************)
(* A machine keeps the id it answers, and its type                         *)
(***************************************************************************)

Identified(m) == "id" \in DOMAIN m
Keeps(r, m) == Identified(r) /\ r.id = m.id

LEMMA SameId ==
    /\ \A m, f : Identified(m) => Keeps(Faulty(m, f), m)
    /\ \A m, g : Identified(m) => Keeps(PushGoal(m, g), m)
    /\ \A m, gs : Identified(m) => Keeps(AppendGoals(m, gs), m)
    /\ \A m, alts : Identified(m) => Keeps(PushChoice(m, alts), m)
    /\ \A m, e : Identified(m) => Keeps([m EXCEPT !.error = e], m)
    /\ \A m, i : Identified(m) => Keeps(NewCallId(m, i), m) /\ Keeps(NewCallVar(m, i), m)
    /\ \A m : Identified(m) => Keeps(Backtrack(m), m)
<1> USE DEF Keeps, Identified
<1>1. \A m, f : Identified(m) => Keeps(Faulty(m, f), m)
  BY DEF Faulty
<1>2. \A m, g : Identified(m) => Keeps(PushGoal(m, g), m)
  BY <1>1 DEF PushGoal
<1>3. \A m, gs : Identified(m) => Keeps(AppendGoals(m, gs), m)
  BY <1>1 DEF AppendGoals
<1>4. \A m, alts : Identified(m) => Keeps(PushChoice(m, alts), m)
  BY <1>1 DEF PushChoice
<1>5. \A m, e : Identified(m) => Keeps([m EXCEPT !.error = e], m)
  OBVIOUS
<1>6. \A m, i : Identified(m) => Keeps(NewCallId(m, i), m) /\ Keeps(NewCallVar(m, i), m)
  BY DEF NewCallId, NewCallVar
<1>7. ASSUME NEW m, Identified(m) PROVE Keeps(Backtrack(m), m)
  <2> DEFINE open == {i \in DOMAIN m.choices : m.choices[i].alternatives # <<>>}
  <2> DEFINE top == CHOOSE i \in open : \A j \in open : j <= i
  <2> DEFINE c == m.choices[top]
  <2> DEFINE G == c.goals \o Reverse(Head(c.alternatives))
  <2> DEFINE B == SubSeq(m.bindings, 1, c.bsp)
  <2> DEFINE C == SubSeq(m.choices, 1, top - 1)
                  \o IF Len(c.alternatives) = 1 THEN <<>>
                     ELSE <<[c EXCEPT !.alternatives = Tail(@)]>>
  <2> DEFINE Q == c.queries
  <2> DEFINE k == [m EXCEPT !.goals = G, !.queries = Q, !.bindings = B, !.choices = C]
  <2> DEFINE h == [m EXCEPT !.choices = <<>>]
  <2>1. Backtrack(m) = IF open = {} THEN PushGoal(h, HaltG) ELSE k
    BY Zenon DEF Backtrack
  <2> HIDE DEF open, G, B, C, Q
  <2>2. Keeps(k, m)
    BY <1>7
  <2>3. Keeps(h, m)
    BY <1>7
  <2>4. Keeps(PushGoal(h, HaltG), h)
    BY <2>3, <1>2
  <2> HIDE DEF h, k
  <2> QED  BY <2>1, <2>2, <2>3, <2>4
<1> QED  BY <1>1, <1>2, <1>3, <1>4, <1>5, <1>6, <1>7

LEMMA ChosenKeeps ==
    /\ \A m, alts : Identified(m) => Keeps(Choose(m, alts), m)
    /\ \A m, a, b, c : Identified(m) => Keeps(ChooseConditional(m, a, b, c), m)
<1>1. ASSUME NEW m, NEW alts, Identified(m) PROVE Keeps(Choose(m, alts), m)
  <2> DEFINE T == Tail(alts)
  <2> DEFINE H == Head(alts)
  <2>1. Choose(m, alts) = IF alts = <<>> THEN Backtrack(m)
                          ELSE AppendGoals(PushChoice(m, T), H)
    BY DEF Choose
  <2> HIDE DEF T, H
  <2>2. Keeps(Backtrack(m), m) /\ Keeps(PushChoice(m, T), m)
    BY <1>1, SameId
  <2>3. Keeps(AppendGoals(PushChoice(m, T), H), PushChoice(m, T))
    BY <2>2, SameId DEF Keeps
  <2> QED  BY <2>1, <2>2, <2>3 DEF Keeps
<1>2. ASSUME NEW m, NEW a, NEW b, NEW c, Identified(m)
      PROVE  Keeps(ChooseConditional(m, a, b, c), m)
  <2> DEFINE p == PushChoice(m, <<b>>)
  <2> DEFINE A == << a \o <<CutG(Len(p.choices)), BacktrackG>>, <<CutG(Len(m.choices))>> \o c >>
  <2>1. ChooseConditional(m, a, b, c) = Choose(p, A)
    BY DEF ChooseConditional
  <2>2. Keeps(p, m)
    BY <1>2, SameId
  <2> HIDE DEF p, A
  <2>3. Keeps(Choose(p, A), p)
    BY <2>2, <1>1 DEF Keeps
  <2> QED  BY <2>1, <2>2, <2>3 DEF Keeps
<1> QED  BY <1>1, <1>2

\* For each goal.
LEMMA PerformKeeps ==
    ASSUME NEW k, NEW g, NEW p, NEW n, Identified(k),
           g.goal = "Query" => g.term.op \in Operators,
           g.goal \in {"Query", "PopQuery", "Backtrack", "Cut", "Unify", "FilterRules",
                       "SortRules", "IsMoreSpecific", "CheckRule", "CheckError",
                       "AddConstraintsBatch", "LookupExternal", "NextExternal",
                       "IsaExternal", "Run", "Halt"}
    PROVE  Keeps(Perform(k, g, p, n).vm, k)
<1> DEFINE r == Perform(k, g, p, n).vm
<1>0. /\ Keeps(k, k)
      /\ \A a, b : Keeps(b, k) /\ Keeps(a, b) => Keeps(a, k)
      /\ \A b : Keeps(b, k) => Identified(b)
  BY DEF Keeps
<1>1. CASE g.goal = "Query"
  <2> DEFINE t == g.term
  <2> DEFINE b == [k EXCEPT !.queries = Append(@, t)]
  <2> DEFINE q == PushGoal(b, PopQueryG)
  <2>1. r = Query(k, t, p, n)
    BY <1>1 DEF Perform, Silent
  <2>2. Keeps(b, k)
    BY DEF Keeps, Identified
  <2> HIDE DEF b
  <2>3. Keeps(q, k)
    BY <2>2, <1>0, SameId
  <2> DEFINE gs == [i \in DOMAIN t.args |-> QueryG(t.args[i])]
  <2> DEFINE alts == [i \in DOMAIN t.args |-> <<QueryG(t.args[i])>>]
  <2> DEFINE dot == <<LookupExternalG(n, t), CheckErrorG, UnifyG(n, t.val)>>
  <2> DEFINE in == <<NextExternalG(n, t), UnifyG(n, "")>>
  <2> DEFINE e == [var |-> NoId, val |-> t.name]
  <2>4. \/ r = [q EXCEPT !.bindings = Append(@, e)]
        \/ r = PushGoal(q, BacktrackG)
        \/ r = QueryCut(q)
        \/ r = AppendGoals(q, gs)
        \/ r = Choose(q, alts)
        \/ r = ChooseConditional(q, <<RunG(t.args[1])>>, <<AddConstraintsBatchG>>,
                                 <<BacktrackG>>)
        \/ r = Faulty(q, "QueryForUndefinedRule")
        \/ r = PushGoal(q, FilterRulesG(<<>>, p[t.name]))
        \/ r = AppendGoals(NewCallId(q, n), dot)
        \/ r = AppendGoals(NewCallId(q, n), in)
        \/ r = PushGoal(q, IsaExternalG(t))
    <3>1. r = CASE t.op = "Fact" -> [q EXCEPT !.bindings = Append(@, e)]
                [] t.op = "False" -> PushGoal(q, BacktrackG)
                [] t.op = "Cut" -> QueryCut(q)
                [] t.op = "And" -> AppendGoals(q, gs)
                [] t.op = "Or" -> Choose(q, alts)
                [] t.op = "Not" ->
                        ChooseConditional(q, <<RunG(t.args[1])>>, <<AddConstraintsBatchG>>,
                                          <<BacktrackG>>)
                [] t.op = "Call" /\ t.name \notin DOMAIN p ->
                        Faulty(q, "QueryForUndefinedRule")
                [] t.op = "Call" /\ t.name \in DOMAIN p ->
                        PushGoal(q, FilterRulesG(<<>>, p[t.name]))
                [] t.op = "Dot" -> AppendGoals(NewCallId(q, n), dot)
                [] t.op = "In" -> AppendGoals(NewCallId(q, n), in)
                [] t.op = "Isa" -> PushGoal(q, IsaExternalG(t))
      BY <2>1, Zenon DEF Query, b
    <3>2. t.op \in Operators
      BY <1>1
    <3> HIDE DEF r, q, gs, alts, dot, in, e, t
    <3> QED  BY <3>1, <3>2 DEF Operators
  <2> HIDE DEF r, q, gs, alts, dot, in, e, t
  <2>5. Keeps([q EXCEPT !.bindings = Append(@, e)], q)
    BY <2>3 DEF Keeps, Identified
  <2>6. Keeps(QueryCut(q), q)
    BY <2>3, <1>0, SameId DEF QueryCut
  <2>7. Keeps(NewCallId(q, n), k)
    BY <2>3, <1>0, SameId
  <2>8. /\ Keeps(AppendGoals(NewCallId(q, n), dot), k)
        /\ Keeps(AppendGoals(NewCallId(q, n), in), k)
    BY <2>7, <1>0, SameId
  <2>9. Identified(q)
    BY <2>3, <1>0
  <2>10. /\ Keeps(PushGoal(q, BacktrackG), q) /\ Keeps(AppendGoals(q, gs), q)
         /\ Keeps(Faulty(q, "QueryForUndefinedRule"), q)
         /\ Keeps(PushGoal(q, FilterRulesG(<<>>, p[t.name])), q)
         /\ Keeps(PushGoal(q, IsaExternalG(t)), q)
    BY <2>9, SameId
  <2>11. /\ Keeps(Choose(q, alts), q)
         /\ Keeps(ChooseConditional(q, <<RunG(t.args[1])>>, <<AddConstraintsBatchG>>,
                                    <<BacktrackG>>), q)
    BY <2>9, ChosenKeeps
  <2>12. Keeps(r, k) \/ Keeps(r, q)
    BY <2>4, <2>5, <2>6, <2>8, <2>10, <2>11
  <2> QED  BY <2>3, <2>12, <1>0 DEF r
<1>2. CASE g.goal = "PopQuery"
  BY <1>2 DEF Perform, Silent, Keeps, Identified
<1>3. CASE g.goal = "Backtrack"
  <2>1. r = Backtrack(k)
    BY <1>3 DEF Perform, Silent
  <2> QED  BY <2>1, SameId
<1>4. CASE g.goal = "Cut"
  BY <1>4 DEF Perform, Silent, Keeps, Identified
<1>5. CASE g.goal = "Unify"
  <2> DEFINE entries == SelectSeq(k.bindings, LAMBDA e : e.var = g.id)
  <2> DEFINE same == g.val \in {"", Last(entries).val}
  <2> DEFINE b == [var |-> g.id, val |-> g.val]
  <2>1. r = CASE entries = <<>> -> [k EXCEPT !.bindings = Append(@, b)]
              [] entries # <<>> /\ same -> k
              [] OTHER -> PushGoal(k, BacktrackG)
    BY <1>5 DEF Perform, Silent, Unify
  <2> HIDE DEF r, entries, same, b
  <2>2. Keeps([k EXCEPT !.bindings = Append(@, b)], k)
    BY DEF Keeps, Identified
  <2>3. Keeps(PushGoal(k, BacktrackG), k)
    BY SameId
  <2> QED  BY <2>1, <2>2, <2>3, <1>0 DEF r
<1>6. CASE g.goal = "FilterRules"
  <2> DEFINE rule == Last(g.unfiltered)
  <2> DEFINE inapplicable == FilterRulesG(g.applicable, Front(g.unfiltered))
  <2> DEFINE applicable == FilterRulesG(Append(g.applicable, rule), Front(g.unfiltered))
  <2> DEFINE sort == SortRulesG(Reverse(g.applicable), 1, 1)
  <2>1. r = IF g.unfiltered = <<>> THEN PushGoal(k, sort) ELSE
            CASE rule.fit = "arity" -> PushGoal(k, inapplicable)
              [] rule.fit = "ground" -> PushGoal(k, applicable)
              [] OTHER -> ChooseConditional(k, <<CheckG(rule)>>, <<applicable>>,
                                            <<inapplicable>>)
    BY <1>6 DEF Perform, Silent, FilterRules
  <2> HIDE DEF r, rule, applicable, inapplicable, sort
  <2>2. /\ Keeps(PushGoal(k, sort), k) /\ Keeps(PushGoal(k, inapplicable), k)
        /\ Keeps(PushGoal(k, applicable), k)
    BY SameId
  <2>3. Keeps(ChooseConditional(k, <<CheckG(rule)>>, <<applicable>>, <<inapplicable>>), k)
    BY ChosenKeeps
  <2> QED  BY <2>1, <2>2, <2>3 DEF r
<1>7. CASE g.goal = "SortRules"
  <2> DEFINE next == SortRulesG(g.rules, g.outer + 1, g.outer + 1)
  <2> DEFINE test == IsMoreSpecificG(g.rules[g.inner + 1], g.rules[g.inner])
  <2> DEFINE swapped == SortRulesG(SwapRules(g.rules, g.inner, g.inner + 1), g.outer,
                                   g.inner - 1)
  <2> DEFINE alts == [j \in DOMAIN g.rules |-> <<QueryG(g.rules[j].body)>>]
  <2> DEFINE bad == g.outer > Len(g.rules) \/ g.inner > g.outer
  <2> DEFINE less == g.outer < Len(g.rules)
  <2> DEFINE inner == g.inner > 0
  <2> DEFINE zero == g.inner = 0
  <2>1. r = CASE g.rules = <<>> -> PushGoal(k, BacktrackG)
              [] g.rules # <<>> /\ bad -> Faulty(k, "InvalidState")
              [] less /\ inner -> ChooseConditional(k, <<test>>, <<swapped>>, <<next>>)
              [] less /\ zero -> PushGoal(k, next)
              [] OTHER -> Choose(k, alts)
    BY <1>7 DEF Perform, Silent, SortRules
  <2> HIDE DEF r, next, test, swapped, alts, bad, less, inner, zero
  <2>2. /\ Keeps(PushGoal(k, BacktrackG), k) /\ Keeps(PushGoal(k, next), k)
        /\ Keeps(Faulty(k, "InvalidState"), k)
    BY SameId
  <2>3. /\ Keeps(ChooseConditional(k, <<test>>, <<swapped>>, <<next>>), k)
        /\ Keeps(Choose(k, alts), k)
    BY ChosenKeeps
  <2> QED  BY <2>1, <2>2, <2>3 DEF r
<1>8. CASE g.goal \in {"IsMoreSpecific", "CheckRule"}
  <2>1. r = Test(k, g.left.rank > g.right.rank) \/ r = Test(k, g.rule.fit = "unify")
    BY <1>8 DEF Perform, Silent
  <2>2. r = k \/ r = PushGoal(k, BacktrackG)
    BY <2>1 DEF Test
  <2> QED  BY <2>2, <1>0, SameId
<1>9. CASE g.goal = "CheckError"
  <2>1. r = k \/ r = Faulty([k EXCEPT !.error = FALSE], "Application")
    BY <1>9 DEF Perform, Silent, CheckError
  <2>2. Keeps(Faulty([k EXCEPT !.error = FALSE], "Application"), k)
    BY <1>0, SameId
  <2> QED  BY <2>1, <2>2, <1>0
<1>10. CASE g.goal = "AddConstraintsBatch"
  <2>1. r = k
    BY <1>10 DEF Perform, Silent
  <2> QED  BY <2>1, <1>0
<1>11. CASE g.goal \in {"LookupExternal", "NextExternal"}
  <2>1. \/ r = [PushChoice(k, <<>>) EXCEPT !.error = FALSE]
        \/ r = [PushChoice(k, <<<<g>>>>) EXCEPT !.error = FALSE]
    BY <1>11 DEF Perform, Raise
  <2>2. ASSUME NEW alts PROVE Keeps([PushChoice(k, alts) EXCEPT !.error = FALSE], k)
    <3> DEFINE v == PushChoice(k, alts)
    <3>1. Keeps(v, k) /\ Identified(v)
      BY <1>0, SameId
    <3> HIDE DEF v
    <3>2. Keeps([v EXCEPT !.error = FALSE], v)
      BY <3>1, SameId
    <3> QED  BY <3>1, <3>2, <1>0 DEF v
  <2> HIDE DEF r
  <2> QED  BY <2>1, <2>2 DEF r
<1>a. Keeps(PushGoal(NewCallVar(k, n), UnifyG(n, "true")), k)
  <2>1. Keeps(NewCallVar(k, n), k) /\ Identified(NewCallVar(k, n))
    BY <1>0, SameId
  <2>2. Keeps(PushGoal(NewCallVar(k, n), UnifyG(n, "true")), NewCallVar(k, n))
    BY <2>1, SameId
  <2> QED  BY <2>1, <2>2, <1>0
<1>13. CASE g.goal = "IsaExternal"
  <2>1. r = [PushGoal(NewCallVar(k, n), UnifyG(n, "true")) EXCEPT !.error = FALSE]
    BY <1>13 DEF Perform, Raise
  <2> DEFINE v == PushGoal(NewCallVar(k, n), UnifyG(n, "true"))
  <2>2. Identified(v) /\ Keeps(v, k)
    BY <1>a, <1>0
  <2> HIDE DEF v, r
  <2>3. r = [v EXCEPT !.error = FALSE]
    BY <2>1 DEF v
  <2>4. Keeps([v EXCEPT !.error = FALSE], v)
    BY <2>2, SameId
  <2> QED  BY <2>2, <2>3, <2>4, <1>0 DEF r
<1>14. CASE g.goal = "Run"
  <2>1. r = PushGoal(NewCallVar(k, n), UnifyG(n, "true"))
    BY <1>14 DEF Perform
  <2> QED  BY <2>1, <1>a
<1>15. CASE g.goal = "Halt"
  <2>1. r = [k EXCEPT !.goals = <<>>, !.choices = <<>>]
    BY <1>15 DEF Perform
  <2> QED  BY <2>1 DEF Keeps, Identified
<1> QED  BY <1>1, <1>2, <1>3, <1>4, <1>5, <1>6, <1>7, <1>8, <1>9, <1>10, <1>11, <1>13,
            <1>14, <1>15

(***************************************************************************)
(* Any goal                                                                *)
(***************************************************************************)

Quiet == {"Query", "PopQuery", "Backtrack", "Cut", "Unify", "FilterRules", "SortRules",
          "IsMoreSpecific", "CheckRule", "CheckError", "AddConstraintsBatch"}
Loud == {"LookupExternal", "NextExternal", "IsaExternal", "Run"}

LEMMA GoalKinds == \A g \in Goals : g.goal \in Quiet \cup Loud \cup {"Halt"}
  BY DEF Goals, PlainGoals, AskGoals, CutGoals, SortGoals, Quiet, Loud

\* What comes of a goal, but for the end of a machine.
\* What the goal g has made of the machine k.
Outcome(r, k, g, n) ==
    /\ r.vm.id = k.id
    /\ g.goal # "Halt" => Done(r.vm, n)
    /\ g.goal \in Quiet => r.event = NoEvent
    /\ g.goal = "LookupExternal" =>
         /\ r.event.kind = "ExternalCall" /\ r.event.name \in Named("Dot")
         /\ r.vm.fault = "" => Asked(r.vm, r.event.id)
    /\ g.goal = "NextExternal" =>
         /\ r.event.kind = "NextExternal" /\ r.event.name \in Named("In")
         /\ r.vm.fault = "" => Asked(r.vm, r.event.id)
    /\ g.goal = "IsaExternal" =>
         /\ r.event.kind = "ExternalIsa" /\ r.event.name \in Named("Isa")
         /\ r.vm.fault = "" => Expecting(r.vm, r.event.id)
    /\ g.goal = "Run" =>
         /\ r.event.kind = "Run" /\ r.event.term \in Terms
         /\ r.event.id = n
         /\ r.vm.fault = "" => Expecting(r.vm, r.event.id)
    /\ g.goal = "Halt" =>
         /\ r.event.kind = "Done"
         /\ r.vm = [k EXCEPT !.goals = <<>>, !.choices = <<>>]

LEMMA Performed ==
    ASSUME NEW n \in Nat \ {0}, NEW k, NEW g, Popped(k, g, n), NEW p \in Policies
    PROVE  Outcome(Perform(k, g, p, n), k, g, n)
<1> DEFINE r == Perform(k, g, p, n)
<1>1. k \in Machines /\ k.fault = "" /\ g \in Goals /\ g.goal \in Quiet \cup Loud \cup {"Halt"}
  BY GoalKinds DEF Popped
<1>2. r.vm.id = k.id
  <2>1. Identified(k)
    BY <1>1 DEF Machines, Identified
  <2>2. g.goal = "Query" => g.term \in Terms
    BY <1>1 DEF Goals, PlainGoals, SortGoals, AskGoals, CutGoals
  <2>3. g.goal = "Query" => g.term.op \in Operators
    BY <2>2, TermTypes
  <2>4. Keeps(r.vm, k)
    BY <1>1, <2>1, <2>3, PerformKeeps DEF Quiet, Loud
  <2> QED  BY <2>4 DEF Keeps
<1>3. ASSUME g.goal = "Query" PROVE Done(r.vm, n) /\ r.event = NoEvent
  <2>1. g = QueryG(g.term)
    BY <1>1, <1>3 DEF Goals, PlainGoals, SortGoals, AskGoals, CutGoals, QueryG
  <2>2. r.vm = Query(k, g.term, p, n) /\ r.event = NoEvent
    BY <1>3 DEF Perform, Silent
  <2> HIDE DEF r
  <2>3. Done(Query(k, g.term, p, n), n)
    BY <2>1, Queried
  <2> QED  BY <2>2, <2>3
<1>4. ASSUME g.goal = "PopQuery" PROVE Done(r.vm, n) /\ r.event = NoEvent
  BY <1>4, QueryPopped DEF Perform, Silent
<1>5. ASSUME g.goal = "Backtrack" PROVE Done(r.vm, n) /\ r.event = NoEvent
  <2>1. Fine(Backtrack(k), n)
    BY <1>5, Follows, Backtracked
  <2>2. r.vm = Backtrack(k) /\ r.event = NoEvent
    BY <1>5 DEF Perform, Silent
  <2> QED  BY <2>1, <2>2, FineDone
<1>6. ASSUME g.goal = "Cut" PROVE Done(r.vm, n) /\ r.event = NoEvent
  <2> DEFINE b == [k EXCEPT !.choices = SubSeq(@, 1, g.choice_index)]
  <2>1. r.vm = b /\ r.event = NoEvent
    BY <1>6 DEF Perform, Silent
  <2>2. MachineOK(b, n)
    BY <1>6, CutDone
  <2> HIDE DEF b
  <2>3. Fine(b, n)
    BY <2>2 DEF Fine, MachineOK, Faults
  <2> QED  BY <2>1, <2>3, FineDone
<1>7. ASSUME g.goal = "Unify" PROVE Done(r.vm, n) /\ r.event = NoEvent
  BY <1>7, Unified DEF Perform, Silent
<1>8. ASSUME g.goal = "FilterRules" PROVE Done(r.vm, n) /\ r.event = NoEvent
  BY <1>8, Filtered DEF Perform, Silent
<1>9. ASSUME g.goal = "SortRules" PROVE Done(r.vm, n) /\ r.event = NoEvent
  BY <1>9, Sorted DEF Perform, Silent
<1>10. ASSUME g.goal \in {"IsMoreSpecific", "CheckRule"}
       PROVE  Done(r.vm, n) /\ r.event = NoEvent
  <2>1. r.vm = k \/ r.vm = PushGoal(k, BacktrackG)
    BY <1>10 DEF Perform, Silent, Test
  <2>2. r.event = NoEvent
    BY <1>10 DEF Perform, Silent
  <2>3. Done(k, n) /\ Done(PushGoal(k, BacktrackG), n)
    BY <1>10, Tested
  <2> QED  BY <2>1, <2>2, <2>3
<1>11. ASSUME g.goal = "CheckError" PROVE Done(r.vm, n) /\ r.event = NoEvent
  BY <1>11, ErrorChecked DEF Perform, Silent
<1>12. ASSUME g.goal = "AddConstraintsBatch" PROVE Done(r.vm, n) /\ r.event = NoEvent
  <2>1. Fine(k, n)
    BY <1>12, Follows
  <2> QED  BY <1>12, <2>1, FineDone DEF Perform, Silent
<1>13. ASSUME NEW v, v \in Machines, Done(v, n) PROVE Done([v EXCEPT !.error = FALSE], n)
  BY <1>13, ErrorTold DEF Done, NextId
<1>14. ASSUME NEW v \in Machines, NEW i
       PROVE  LET e == [v EXCEPT !.error = FALSE]
              IN  /\ e.fault = v.fault
                  /\ Asked(v, i) => Asked(e, i)
                  /\ Expecting(v, i) => Expecting(e, i)
  BY ErrorTold
<1>15. ASSUME g.goal \in {"LookupExternal", "NextExternal"}
       PROVE  /\ Done(r.vm, n) /\ (r.vm.fault = "" => Asked(r.vm, r.event.id))
              /\ g.goal = "LookupExternal" =>
                    r.event.kind = "ExternalCall" /\ r.event.name \in Named("Dot")
              /\ g.goal = "NextExternal" =>
                    r.event.kind = "NextExternal" /\ r.event.name \in Named("In")
  <2> DEFINE alts == IF g.goal = "NextExternal" THEN <<<<g>>>> ELSE <<>>
  <2> DEFINE v == PushChoice(k, alts)
  <2>1. /\ r.vm = [v EXCEPT !.error = FALSE] /\ r.event.id = g.id
        /\ r.event.name = g.name
        /\ g.goal = "LookupExternal" => r.event.kind = "ExternalCall"
        /\ g.goal = "NextExternal" => r.event.kind = "NextExternal"
    BY <1>15 DEF Perform, Raise
  <2>2. g \in AskGoals
    BY <1>1, <1>15, GoalTypes
  <2>3. /\ g.goal = "LookupExternal" => g.name \in Named("Dot")
        /\ g.goal = "NextExternal" => g.name \in Named("In")
    BY <2>2 DEF AskGoals
  <2>4. Done(v, n) /\ v \in Machines /\ (v.fault = "" => Asked(v, g.id))
    BY <2>2, AnswerAsked
  <2> HIDE DEF v, r
  <2>5. Done(r.vm, n) /\ (r.vm.fault = "" => Asked(r.vm, g.id))
    BY <2>1, <2>4, <1>13, <1>14
  <2> QED  BY <2>1, <2>3, <2>5
<1>16. ASSUME g.goal = "IsaExternal"
       PROVE  /\ Done(r.vm, n) /\ (r.vm.fault = "" => Expecting(r.vm, r.event.id))
              /\ r.event.kind = "ExternalIsa" /\ r.event.name \in Named("Isa")
  <2> DEFINE v == PushGoal(NewCallVar(k, n), UnifyG(n, "true"))
  <2>1. /\ r.vm = [v EXCEPT !.error = FALSE] /\ r.event.id = n
        /\ r.event.name = g.name /\ r.event.kind = "ExternalIsa"
    BY <1>16 DEF Perform, Raise
  <2>2. g.name \in Named("Isa")
    BY <1>1, <1>16 DEF Goals, PlainGoals, SortGoals, AskGoals, CutGoals
  <2>3. Done(v, n) /\ v \in Machines /\ (v.fault = "" => Expecting(v, n))
    BY <1>16, AnswerExpected
  <2> HIDE DEF v, r
  <2>4. Done(r.vm, n) /\ (r.vm.fault = "" => Expecting(r.vm, n))
    BY <2>1, <2>3, <1>13, <1>14
  <2> QED  BY <2>1, <2>2, <2>4
<1>17. ASSUME g.goal = "Run"
       PROVE  /\ Done(r.vm, n) /\ (r.vm.fault = "" => Expecting(r.vm, r.event.id))
              /\ r.event.kind = "Run" /\ r.event.term \in Terms /\ r.event.id = n
  <2> DEFINE v == PushGoal(NewCallVar(k, n), UnifyG(n, "true"))
  <2>1. r.vm = v /\ r.event.id = n /\ r.event.term = g.term /\ r.event.kind = "Run"
    BY <1>17 DEF Perform
  <2>2. g.term \in Terms
    BY <1>1, <1>17 DEF Goals, PlainGoals, SortGoals, AskGoals, CutGoals
  <2>3. Done(v, n) /\ (v.fault = "" => Expecting(v, n))
    BY <1>17, AnswerExpected
  <2> HIDE DEF v, r
  <2> QED  BY <2>1, <2>2, <2>3
<1>18. ASSUME g.goal = "Halt"
       PROVE  r.event.kind = "Done" /\ r.vm = [k EXCEPT !.goals = <<>>, !.choices = <<>>]
  BY <1>18 DEF Perform
<1> HIDE DEF r
<1>19. g.goal \in Quiet => Done(r.vm, n) /\ r.event = NoEvent
  BY <1>3, <1>4, <1>5, <1>6, <1>7, <1>8, <1>9, <1>10, <1>11, <1>12 DEF Quiet
<1>20. g.goal \in Loud => Done(r.vm, n)
  BY <1>15, <1>16, <1>17 DEF Loud
<1>21. g.goal # "Halt" => Done(r.vm, n)
  BY <1>1, <1>19, <1>20
<1>22. Outcome(r, k, g, n)
  BY <1>2, <1>15, <1>16, <1>17, <1>18, <1>19, <1>21 DEF Outcome
<1> QED  BY <1>22 DEF r

(***************************************************************************)
(* Answers                                                                 *)
(***************************************************************************)

\* The answer to a question: nobody waits for its id.
LEMMA QuestionAnswered ==
    ASSUME NEW n \in Nat \ {0}, NEW m, NEW id, MachineOK(m, n), Expecting(m, id),
           NEW answer \in Values
    PROVE  LET r == QuestionResult(m, id, answer) IN MachineOK(r, n) /\ r.id = m.id
<1> DEFINE b == [var |-> id, val |-> answer]
<1> DEFINE B == Append(m.bindings, b)
<1> DEFINE C == m.calls \ {id}
<1> DEFINE r == [m EXCEPT !.calls = C, !.bindings = B]
<1>1. m \in Machines /\ m.fault = "" /\ id \in m.calls /\ Unawaited(m, id)
      /\ m.goals # <<>> /\ m.goals[Len(m.goals)].goal = "Unify"
  BY DEF MachineOK, Expecting
<1>2. QuestionResult(m, id, answer) = r
  BY <1>1 DEF QuestionResult
<1>3. b \in Entries /\ m.bindings \in Seq(Entries) /\ m.calls \in SUBSET Nat
  <2>1. m.bindings \in Seq(Entries) /\ m.calls \in SUBSET Nat
    BY <1>1 DEF Machines
  <2> QED  BY <1>1, <2>1 DEF Entries
<1> HIDE DEF b
<1>4. B \in Seq(Entries) /\ Len(B) = Len(m.bindings) + 1 /\ Len(m.bindings) \in Nat
      /\ C \in SUBSET Nat /\ C \subseteq m.calls
  BY <1>3
<1> HIDE DEF B, C
<1>5. /\ r \in Machines /\ r.goals = m.goals /\ r.choices = m.choices /\ r.fault = ""
      /\ r.queries = m.queries /\ r.calls = C /\ r.bindings = B
      /\ r.yielded = m.yielded /\ r.id = m.id
  BY <1>1, <1>4 DEF Machines
<1> HIDE DEF r
<1>6. ChoicesOK(r, n)
  <2>1. \A j \in DOMAIN m.choices : m.choices[j].bsp \in Nat
    BY <1>1, ChoiceTypes
  <2>2. ChoicesOK(m, n)
    BY DEF MachineOK
  <2>3. \A j \in DOMAIN m.choices : m.choices[j].bsp <= Len(B)
    <3>1. \A j \in DOMAIN m.choices : m.choices[j].bsp <= Len(m.bindings)
      BY <2>2 DEF ChoicesOK
    <3> QED  BY <1>4, <2>1, <3>1
  <2> QED  BY <1>5, <2>2, <2>3 DEF ChoicesOK
<1>7. Known(r)
  <2>1. \A j \in DOMAIN m.choices : \A i \in Awaited(m.choices[j]) :
            i \in m.calls => i \in C
    BY <1>1 DEF Unawaited, C
  <2> QED  BY <1>5, <2>1 DEF MachineOK, Known
<1>8. Asking(r)
  <2>1. m.goals[Len(m.goals)] \notin AskGoals
    BY <1>1, GoalTypes
  <2> QED  BY <1>5, <2>1 DEF Asking
<1>9. Bottom(r)
  BY <1>5 DEF MachineOK, Bottom
<1>10. /\ Len(r.goals) <= StackLimit /\ r.calls \subseteq 1 .. n - 1
       /\ r.yielded => r.goals = <<>>
       /\ Balanced(r.goals, r.queries) /\ GoalsOK(r.goals, r.choices)
  BY <1>4, <1>5 DEF MachineOK
<1> QED  BY <1>2, <1>5, <1>6, <1>7, <1>8, <1>9, <1>10 DEF MachineOK

\* A machine that has asked for a field or an element is ready for the answer.
LEMMA AskedReady ==
    ASSUME NEW n \in Nat \ {0}, NEW m, NEW id, MachineOK(m, n), Asked(m, id)
    PROVE  Ready(m, n)
<1>1. m \in Machines /\ m.fault = "" /\ m.goals \in Seq(Saved) /\ m.goals # <<>>
      /\ m.choices # <<>>
  BY DEF MachineOK, Asked
<1>2. \A i \in DOMAIN m.goals : m.goals[i] \in Saved
  <2>1. m.goals \in Seq(Saved)
    BY <1>1
  <2> QED  BY <2>1
<1>3. \A j : ~Doomed(m.goals, j)
  <2>1. \A g \in Saved : g.goal # "Cut"
    BY GoalTypes DEF Saved
  <2> QED  BY <1>2, <2>1 DEF Doomed
<1>4. \A j \in DOMAIN m.choices : Awaited(m.choices[j]) \subseteq m.calls
  BY <1>3 DEF MachineOK, Known
<1>5. m.goals[1] = PopQueryG /\ ~m.yielded
  BY <1>1 DEF MachineOK, Bottom
<1>6. Calm(m, n)
  BY <1>1, <1>2, <1>4, <1>5 DEF MachineOK, Calm
<1> QED  BY <1>1, <1>6 DEF Ready

\* A value.
LEMMA CallAnswered ==
    ASSUME NEW n \in Nat \ {0}, NEW m, NEW id, MachineOK(m, n), Asked(m, id),
           NEW val \in Values
    PROVE  LET r == CallResult(m, id, val) IN Fine(r, n) /\ r.id = m.id
<1> DEFINE u == UnifyG(id, val)
<1>1. id \in m.calls /\ m \in Machines /\ m.calls \subseteq Nat /\ m.fault = ""
  <2>1. id \in m.calls /\ m \in Machines /\ m.fault = ""
    BY DEF Asked, MachineOK
  <2> QED  BY <2>1 DEF Machines
<1>2. u \in PlainGoals
  BY <1>1, PlainGoalTypes
<1>3. CallResult(m, id, val) = PushGoal(m, u)
  BY <1>1 DEF CallResult
<1> HIDE DEF u
<1>4. StaysReady(m, n)
  BY <1>1, AskedReady DEF StaysReady, Faults
<1>5. StaysReady(PushGoal(m, u), n)
  BY <1>2, <1>4, PlainPushed
<1>6. PushGoal(m, u).id = m.id
  BY <1>1, SameId DEF Keeps, Identified, Machines
<1> QED  BY <1>3, <1>5, <1>6, Stays

\* No value: the choice of the call is cut, which was the only one to wait for
\* the id.
LEMMA CallEnded ==
    ASSUME NEW n \in Nat \ {0}, NEW m, NEW id, MachineOK(m, n), Asked(m, id)
    PROVE  LET r == NoCallResult(m, id) IN Fine(r, n) /\ r.id = m.id
<1> DEFINE L == Len(m.choices)
<1> DEFINE C == m.calls \ {id}
<1> DEFINE b == [m EXCEPT !.calls = C]
<1> DEFINE x == CutG(L - 1)
<1> DEFINE two == <<x, BacktrackG>>
<1> DEFINE three == <<CheckErrorG, x, BacktrackG>>
<1>1. /\ id \in m.calls /\ m \in Machines /\ m.calls \subseteq Nat /\ m.fault = ""
      /\ m.choices # <<>>
  <2>1. id \in m.calls /\ m \in Machines /\ m.fault = "" /\ m.choices # <<>>
    BY DEF Asked, MachineOK
  <2> QED  BY <2>1 DEF Machines
<1>2. L \in Nat /\ L # 0 /\ L - 1 \in Nat /\ L - 1 <= L /\ DOMAIN m.choices = 1 .. L
      /\ \A j \in 1 .. L : j \in 1 .. L - 1 \/ (j = L /\ L - 1 < j)
  <2>1. L \in Nat /\ L # 0 /\ DOMAIN m.choices = 1 .. L
    <3>1. m.choices \in Seq(ChoicePoints)
      BY <1>1 DEF Machines
    <3>2. m.choices # <<>>
      BY <1>1
    <3> QED  BY <3>1, <3>2
  <2> HIDE DEF L
  <2> QED  BY <2>1
<1> HIDE DEF L
<1>3. Ready(m, n)
  BY AskedReady
<1>4. C \in SUBSET Nat /\ C \subseteq m.calls
  BY <1>1
<1>5. /\ b \in Machines /\ b.goals = m.goals /\ b.choices = m.choices /\ b.fault = ""
      /\ b.queries = m.queries /\ b.calls = C /\ b.bindings = m.bindings
      /\ b.yielded = m.yielded /\ b.id = m.id
  <2> HIDE DEF C
  <2> QED  BY <1>1, <1>4 DEF Machines
<1> HIDE DEF b
<1>6. Pushable(b, n)
  <2>1. ChoicesOK(b, n)
    BY <1>3, <1>5, SameChoices DEF Ready, Calm
  <2>2. b.calls \subseteq 1 .. n - 1 /\ ~b.yielded /\ Balanced(b.goals, b.queries)
        /\ b.goals \in Seq(Saved) /\ b.goals # <<>> /\ b.goals[1] = PopQueryG
    BY <1>3, <1>4, <1>5 DEF Ready, Calm
  <2> QED  BY <1>5, <2>1, <2>2 DEF Pushable
<1>7. x \in CutGoals /\ x \in Goals /\ x.choice_index = L - 1
  <2>1. x \in CutGoals /\ x.choice_index = L - 1
    BY <1>2 DEF CutGoals, CutG
  <2> QED  BY <2>1, GoalTypes
<1> HIDE DEF x
<1>8. \A j \in DOMAIN b.choices : \A i \in Awaited(b.choices[j]) :
            i \in b.calls \/ L - 1 < j
  <2> SUFFICES ASSUME NEW j \in 1 .. L, NEW i \in Awaited(m.choices[j]), i \notin C
               PROVE  L - 1 < j
    BY <1>2, <1>5
  <2>1. i \in m.calls
    BY <1>2, <1>3 DEF Ready, Calm
  <2>2. i = id
    BY <2>1
  <2>3. j \notin 1 .. L - 1
    BY <2>2 DEF Asked, L
  <2> QED  BY <2>3, <1>2
<1>9. /\ two \in Seq(Goals) /\ Len(two) = 2 /\ two[1] = x /\ two[2] = BacktrackG
      /\ three \in Seq(Goals) /\ Len(three) = 3
      /\ three[1] = CheckErrorG /\ three[2] = x /\ three[3] = BacktrackG
      /\ \A i \in 1 .. 2 : i = 1 \/ i = 2
      /\ \A i \in 1 .. 3 : i = 1 \/ i = 2 \/ i = 3
  <2>1. x \in Goals /\ BacktrackG \in Goals /\ CheckErrorG \in Goals
    BY <1>7, GoalTypes, PlainGoalTypes
  <2> QED  BY <2>1
<1>10. CheckErrorG \in PlainGoals /\ CheckErrorG.goal = "CheckError"
       /\ CheckErrorG.goal \in AboveCut /\ BacktrackG \in PlainGoals
  BY GoalTypes, PlainGoalTypes DEF AboveCut
<1>11. b.choices = m.choices /\ Len(b.choices) = L
  BY <1>5 DEF L
<1> HIDE DEF two, three
<1>12. MayPush(b, two)
  <2>1. ASSUME NEW i \in 1 .. Len(two)
        PROVE  \/ two[i] \in PlainGoals
               \/ /\ i = 1 /\ two[i] \in CutGoals
                  /\ two[i].choice_index <= Len(b.choices)
    BY <1>2, <1>7, <1>9, <1>10, <1>11
  <2>2. Len(two) >= 1 /\ two[1] \in CutGoals /\ two[1].choice_index = L - 1
    BY <1>7, <1>9
  <2> QED  BY <1>8, <2>1, <2>2 DEF MayPush
<1>13. MayPush(b, three)
  <2>1. ASSUME NEW i \in 1 .. Len(three)
        PROVE  \/ three[i] \in PlainGoals
               \/ /\ i = 2 /\ three[i] \in CutGoals
                  /\ three[i].choice_index <= Len(b.choices)
                  /\ three[1].goal \in AboveCut
    BY <1>2, <1>7, <1>9, <1>10, <1>11
  <2>2. Len(three) >= 2 /\ three[2] \in CutGoals /\ three[2].choice_index = L - 1
        /\ three[1].goal = "CheckError"
    BY <1>7, <1>9, <1>10
  <2> QED  BY <1>8, <2>1, <2>2 DEF MayPush
<1>14. NoCallResult(m, id) = AppendGoals(b, two) \/ NoCallResult(m, id) = AppendGoals(b, three)
  <2> DEFINE check == m.goals # <<>> /\ Last(m.goals) = CheckErrorG
  <2>1. NoCallResult(m, id) =
            AppendGoals(b, (IF check THEN <<CheckErrorG>> ELSE <<>>) \o two)
    BY <1>1, Zenon DEF NoCallResult, b, C, two, x, L
  <2>2. <<CheckErrorG>> \o two = three
    <3>1. x \in Goals /\ BacktrackG \in Goals /\ CheckErrorG \in Goals
      BY <1>7, GoalTypes, PlainGoalTypes
    <3> QED  BY <3>1, TwoConcat DEF two, three
  <2>3. <<>> \o two = two
    <3>1. two \in Seq(Goals)
      BY <1>9
    <3> QED  BY <3>1
  <2> QED  BY <2>1, <2>2, <2>3
<1>15. /\ Fine(AppendGoals(b, two), n) /\ Fine(AppendGoals(b, three), n)
  BY <1>6, <1>9, <1>12, <1>13, GoalsPushed
<1>16. /\ AppendGoals(b, two).id = m.id /\ AppendGoals(b, three).id = m.id
  <2>1. b \in Machines /\ b.id = m.id
    BY <1>5
  <2>2. Identified(b)
    BY <2>1 DEF Identified, Machines
  <2>3. Keeps(AppendGoals(b, two), b) /\ Keeps(AppendGoals(b, three), b)
    BY <2>2, SameId
  <2> QED  BY <2>1, <2>3 DEF Keeps
<1> QED  BY <1>14, <1>15, <1>16

(***************************************************************************)
(* The stack of machines                                                   *)
(***************************************************************************)

\* A machine that has come to a result has no query left to prove.
LEMMA MachineSized ==
    ASSUME NEW n \in Nat, NEW m, MachineOK(m, n)
    PROVE  /\ Len(m.goals) <= StackLimit /\ Len(m.choices) <= StackLimit
           /\ m.calls \subseteq 1 .. n - 1
           /\ m.fault = ""
           /\ \A j \in DOMAIN m.choices : m.choices[j].bsp <= Len(m.bindings)
           /\ m.yielded => m.queries = <<>>
<1>1. /\ m.fault = "" /\ Len(m.goals) <= StackLimit /\ m.calls \subseteq 1 .. n - 1
      /\ ChoicesOK(m, n)
  BY DEF MachineOK
<1>2. Len(m.choices) <= StackLimit
      /\ \A j \in DOMAIN m.choices : m.choices[j].bsp <= Len(m.bindings)
  BY <1>1 DEF ChoicesOK
<1>3. ASSUME m.yielded PROVE m.queries = <<>>
  <2>1. m.goals = <<>> /\ Balanced(m.goals, m.queries) /\ m \in Machines
    BY <1>3 DEF MachineOK
  <2>2. Pops(<<>>) = {}
    BY DEF Pops
  <2>3. Len(m.queries) = 0
    BY <2>1, <2>2, FS_EmptySet DEF Balanced
  <2>4. m.queries \in Seq(Terms)
    BY <2>1 DEF Machines
  <2> QED  BY <2>3, <2>4
<1> QED  BY <1>1, <1>2, <1>3

LEMMA FitSized ==
    ASSUME NEW n \in Nat, NEW v, Fit(v, n), v # <<>>
    PROVE  Sized(v, n)
  BY MachineSized DEF Fit, Sized

LEMMA SizedMore ==
    ASSUME NEW n \in Nat, NEW o \in Nat, n <= o, NEW v, Sized(v, n)
    PROVE  Sized(v, o)
<1>1. 1 .. n - 1 \subseteq 1 .. o - 1
  OBVIOUS
<1> QED  BY <1>1 DEF Sized

LEMMA FitMore ==
    ASSUME NEW n \in Nat, NEW o \in Nat, n <= o, NEW v, Fit(v, n)
    PROVE  Fit(v, o)
  BY MoreIds DEF Fit

LEMMA FitBelow ==
    ASSUME NEW n \in Nat, NEW v, Fit(v, n), v # <<>>
    PROVE  /\ Fit(Front(v), n) /\ Len(v) \in Nat \ {0} /\ Last(v) = v[Len(v)]
           /\ MachineOK(Last(v), n)
           /\ Front(v) # <<>> => Expecting(Last(Front(v)), Last(v).id)
<1>1. v \in Seq(Machines)
  BY DEF Fit
<1>2. /\ Front(v) \in Seq(Machines) /\ Last(v) \in Machines
      /\ Len(v) = Len(Front(v)) + 1 /\ Last(v) = v[Len(v)]
      /\ \A i \in 1 .. Len(v) - 1 : Front(v)[i] = v[i]
  BY <1>1, FrontLast
<1> DEFINE f == Front(v)
<1> DEFINE L == Len(f)
<1>3. /\ L \in Nat /\ DOMAIN f = 1 .. L /\ DOMAIN v = 1 .. L + 1 /\ Len(v) = L + 1
      /\ f # <<>> => L # 0
  <2>1. f \in Seq(Machines)
    BY <1>2
  <2>2. L \in Nat /\ DOMAIN f = 1 .. L /\ (f # <<>> => L # 0)
    BY <2>1
  <2>3. DOMAIN v = 1 .. Len(v)
    BY <1>1
  <2> QED  BY <1>2, <2>2, <2>3
<1>4. \A i \in 1 .. L : f[i] = v[i]
  BY <1>2, <1>3
<1>5. f \in Seq(Machines) /\ Last(v) = v[L + 1]
  BY <1>2, <1>3
<1>6. f # <<>> => Last(f) = f[L]
  <2>1. f \in Seq(Machines)
    BY <1>2
  <2> HIDE DEF f
  <2> QED  BY <2>1, FrontLast DEF L
<1> HIDE DEF f, L
<1>7. /\ \A k \in 1 .. L + 1 : MachineOK(v[k], n)
      /\ \A k \in 1 .. L : Expecting(v[k], v[k + 1].id)
  <2>1. \A k \in 1 .. L + 1 : MachineOK(v[k], n)
    BY <1>3 DEF Fit
  <2>2. ASSUME NEW k \in 1 .. L PROVE Expecting(v[k], v[k + 1].id)
    <3>1. k \in 1 .. L + 1 /\ k < L + 1
      BY <1>3
    <3> QED  BY <1>3, <3>1 DEF Fit
  <2> QED  BY <2>1, <2>2
<1>8. Fit(f, n)
  <2>1. ASSUME NEW k \in DOMAIN f PROVE MachineOK(f[k], n)
    BY <1>3, <1>4, <1>7
  <2>2. ASSUME NEW k \in DOMAIN f, k < Len(f) PROVE Expecting(f[k], f[k + 1].id)
    <3>1. k \in 1 .. L /\ k + 1 \in 1 .. L
      BY <1>3, <2>2 DEF L
    <3> QED  BY <1>4, <1>7, <3>1
  <2> QED  BY <1>5, <2>1, <2>2 DEF Fit
<1>9. MachineOK(Last(v), n)
  BY <1>3, <1>5, <1>7
<1>10. f # <<>> => Expecting(Last(f), Last(v).id)
  <2> SUFFICES ASSUME f # <<>> PROVE Expecting(Last(f), Last(v).id)
    OBVIOUS
  <2>1. L \in 1 .. L
    BY <1>3
  <2>2. Expecting(v[L], v[L + 1].id) /\ f[L] = v[L]
    BY <1>4, <1>7, <2>1
  <2> QED  BY <1>5, <1>6, <2>2
<1>11. Len(v) \in Nat \ {0} /\ Last(v) = v[Len(v)]
  BY <1>2, <1>3
<1> QED  BY <1>8, <1>9, <1>10, <1>11 DEF f

\* A machine on top of those that are waiting for it.
LEMMA FitAbove ==
    ASSUME NEW n \in Nat, NEW v, Fit(v, n), NEW m, MachineOK(m, n),
           v # <<>> => Expecting(Last(v), m.id)
    PROVE  /\ Fit(Append(v, m), n) /\ Append(v, m) # <<>>
           /\ Append(v, m)[Len(Append(v, m))] = m
           /\ Last(Append(v, m)) = m
<1> DEFINE L == Len(v)
<1> DEFINE w == Append(v, m)
<1>1. v \in Seq(Machines) /\ m \in Machines
  BY DEF Fit, MachineOK
<1>2. /\ L \in Nat /\ DOMAIN v = 1 .. L /\ w \in Seq(Machines) /\ Len(w) = L + 1
      /\ DOMAIN w = 1 .. L + 1 /\ w[L + 1] = m /\ \A i \in 1 .. L : w[i] = v[i]
      /\ (L # 0 => v # <<>>)
  BY <1>1
<1>3. v # <<>> => Last(v) = v[L]
  BY <1>1, FrontLast
<1>4. w # <<>> /\ Last(w) = w[Len(w)]
  BY <1>2 DEF Last
<1> HIDE DEF w, L
<1>5. ASSUME NEW k \in DOMAIN w PROVE MachineOK(w[k], n)
  <2>1. k \in 1 .. L \/ k = L + 1
    BY <1>2
  <2>2. CASE k \in 1 .. L
    BY <1>2, <2>2 DEF Fit
  <2> QED  BY <1>2, <2>1, <2>2
<1>6. ASSUME NEW k \in DOMAIN w, k < Len(w) PROVE Expecting(w[k], w[k + 1].id)
  <2>1. CASE k = L
    <3>1. L # 0 /\ L \in 1 .. L
      BY <1>2, <2>1
    <3> QED  BY <1>2, <1>3, <2>1, <3>1
  <2>2. CASE k # L
    <3>1. k \in 1 .. L /\ k + 1 \in 1 .. L /\ k < L
      BY <1>2, <1>6, <2>2
    <3>2. Expecting(v[k], v[k + 1].id)
      BY <1>2, <3>1 DEF Fit, L
    <3> QED  BY <1>2, <3>1, <3>2
  <2> QED  BY <2>1, <2>2
<1> QED  BY <1>2, <1>4, <1>5, <1>6 DEF Fit, w

\* The machine on top has gone on, or has failed.
LEMMA Proceeds ==
    ASSUME NEW n \in Nat \ {0}, NEW o \in Nat \ {0}, n <= o, NEW v, Fit(v, n), v # <<>>,
           NEW r, Fine(r, o), r.id = Last(v).id,
           NEW e, r.fault = "" => EventOK(e, r), NEW w, NEW s,
           IF r.fault = "" THEN w = Append(Front(v), r) /\ s = "running"
           ELSE s = r.fault /\ w = v
    PROVE  Reached(w, o, s, e)
<1>1. CASE r.fault = ""
  <2>1. w = Append(Front(v), r) /\ s = "running" /\ EventOK(e, r) /\ MachineOK(r, o)
    BY <1>1 DEF Fine
  <2>2. Fit(Front(v), o) /\ (Front(v) # <<>> => Expecting(Last(Front(v)), r.id))
    BY FitBelow, FitMore
  <2> DEFINE f == Front(v)
  <2>3. Fit(w, o) /\ w # <<>> /\ w[Len(w)] = r
    <3>1. o \in Nat /\ Fit(f, o) /\ MachineOK(r, o) /\ w = Append(f, r)
          /\ (f # <<>> => Expecting(Last(f), r.id))
      BY <2>1, <2>2
    <3> HIDE DEF f
    <3> QED  BY ONLY <3>1, FitAbove
  <2>4. Sized(w, o)
    BY <2>3, FitSized
  <2> QED  BY <2>1, <2>3, <2>4 DEF Reached
<1>2. CASE r.fault # ""
  <2>1. s = r.fault /\ w = v /\ r.fault \in Faults
    BY <1>2 DEF Fine
  <2>2. s \notin {"Panic", "InvalidState", "running"}
    BY <2>1 DEF Faults
  <2>3. Sized(v, o)
    BY FitSized, SizedMore
  <2> QED  BY <2>1, <2>2, <2>3 DEF Reached
<1> QED  BY <1>1, <1>2

\* The inverter's answer, to the machine below it, or the end of the query.
LEMMA Finishes ==
    ASSUME NEW n \in Nat \ {0}, NEW v, Fit(v, n), v # <<>>,
           NEW m, m \in Machines, m.fault = "", m.id = Last(v).id,
           Sized(<<m>>, n),
           NEW answer \in Values, NEW w, NEW s, NEW below, NEW r,
           below = Front(v), r = QuestionResult(Last(below), m.id, answer),
           IF below = <<>> THEN w = <<m>> /\ s = "done"
           ELSE IF r.fault = "" THEN w = Append(Front(below), r) /\ s = "running"
           ELSE s = r.fault /\ w = v
    PROVE  Reached(w, n, s, [kind |-> "None"])
<1> DEFINE e == [kind |-> "None"]
<1>1. CASE below = <<>>
  BY <1>1 DEF Reached
<1>2. CASE below # <<>>
  <2>1. Fit(below, n) /\ Expecting(Last(below), m.id) /\ MachineOK(Last(below), n)
    <3>1. Fit(below, n) /\ Expecting(Last(below), m.id)
      BY <1>2, FitBelow
    <3> QED  BY <1>2, <3>1, FitBelow
  <2>2. MachineOK(r, n) /\ r.id = Last(below).id
    BY <2>1, QuestionAnswered
  <2>3. Fine(r, n) /\ r.fault = "" /\ w = Append(Front(below), r) /\ s = "running"
    BY <1>2, <2>2 DEF MachineOK, Fine, Faults
  <2>4. EventOK(e, r)
    BY DEF EventOK
  <2> HIDE DEF e
  <2>5. n \in Nat \ {0} /\ n <= n
    <3>1. n \in Nat \ {0}
      OBVIOUS
    <3> QED  BY ONLY <3>1
  <2>6. Reached(w, n, s, e)
    BY ONLY <1>2, <2>1, <2>2, <2>3, <2>4, <2>5, Proceeds
  <2> QED  BY <2>6 DEF e
<1> QED  BY <1>1, <1>2

\* A machine that has not begun.
LEMMA MachineMade ==
    ASSUME NEW n \in Nat \ {0}, NEW t \in Terms, NEW b \in Seq(Entries), NEW id \in Nat
    PROVE  LET m == Machine(<<QueryG(t)>>, b, id) IN MachineOK(m, n) /\ m.id = id
<1> DEFINE q == QueryG(t)
<1> DEFINE g == <<q>>
<1> DEFINE m == Machine(g, b, id)
<1>1. q \in Goals /\ q \in PlainGoals /\ q \in Saved /\ q.goal = "Query"
  <2>1. q \in PlainGoals /\ q.goal = "Query"
    BY PlainGoalTypes DEF QueryG
  <2> QED  BY <2>1, GoalTypes
<1> HIDE DEF q
<1>2. g \in Seq(Goals) /\ Len(g) = 1 /\ DOMAIN g = {1} /\ g[1] = q
  BY <1>1
<1> HIDE DEF g
<1>3. /\ m.goals = g /\ m.choices = <<>> /\ m.queries = <<>> /\ m.bindings = b
      /\ m.calls = {} /\ m.yielded = FALSE /\ m.fault = "" /\ m.id = id
  BY DEF Machine
<1>4. m \in Machines
  <2>1. <<>> \in Seq(ChoicePoints) /\ <<>> \in Seq(Terms)
    BY EmptySeq
  <2> QED  BY <1>2, <2>1 DEF Machine, Machines, Faults, Never
<1> HIDE DEF m
<1>5. Len(<<>>) = 0 /\ DOMAIN <<>> = {}
  OBVIOUS
<1>6. Balanced(m.goals, m.queries)
  <2>1. Pops(g) = {}
    BY <1>1, <1>2 DEF Pops
  <2> QED  BY <1>3, <1>5, <2>1, FS_EmptySet DEF Balanced
<1>7. GoalsOK(m.goals, m.choices) /\ Bottom(m)
  BY <1>1, <1>2, <1>3 DEF GoalsOK, Bottom
<1>8. ChoicesOK(m, n) /\ Known(m)
  <2>1. 0 <= StackLimit
    BY StackLimitAssumption
  <2> QED  BY <1>3, <1>5, <2>1 DEF ChoicesOK, Known
<1>9. Asking(m)
  BY <1>1, <1>2, <1>3, GoalTypes DEF Asking
<1>10. Len(m.goals) <= StackLimit
  <2>1. 1 <= StackLimit
    BY StackLimitAssumption
  <2> QED  BY <1>2, <1>3, <2>1
<1>11. MachineOK(m, n)
  BY <1>3, <1>4, <1>6, <1>7, <1>8, <1>9, <1>10 DEF MachineOK
<1> QED  BY <1>3, <1>11 DEF m, g, q

\* The runnable goes on top of the machine that is to be told its answer.
LEMMA Starts ==
    ASSUME NEW n \in Nat \ {0}, NEW o \in Nat \ {0}, n <= o, NEW v, Fit(v, n), v # <<>>,
           NEW r, Fine(r, o), r.fault = "", r.id = Last(v).id,
           NEW t \in Terms, NEW id \in Nat, Expecting(r, id),
           NEW w, w = Front(v) \o <<r, Machine(<<QueryG(t)>>, Last(v).bindings, id)>>
    PROVE  Reached(w, o, "running", [kind |-> "None"])
<1> DEFINE k == Machine(<<QueryG(t)>>, Last(v).bindings, id)
<1> DEFINE f == Front(v)
<1> DEFINE u == Append(f, r)
<1>1. MachineOK(r, o) /\ r \in Machines
  BY DEF Fine, MachineOK
<1>2. Fit(f, o) /\ (f # <<>> => Expecting(Last(f), r.id))
  BY FitBelow, FitMore
<1>3. MachineOK(k, o) /\ k.id = id
  <2>1. Last(v).bindings \in Seq(Entries)
    <3>1. MachineOK(Last(v), n)
      BY FitBelow
    <3> QED  BY <3>1 DEF MachineOK, Machines
  <2> QED  BY <2>1, MachineMade
<1> HIDE DEF k
<1>4. w = Append(u, k)
  <2>1. f \in Seq(Machines) /\ r \in Machines /\ k \in Machines
    BY <1>1, <1>2, <1>3 DEF Fit, MachineOK
  <2>2. w = f \o <<r, k>>
    BY DEF k
  <2>3. u = Append(f, r)
    OBVIOUS
  <2> HIDE DEF f, u
  <2>4. /\ w \in Seq(Machines) /\ Append(u, k) \in Seq(Machines)
        /\ Len(w) = Len(f) + 2 /\ Len(Append(u, k)) = Len(f) + 2 /\ Len(f) \in Nat
    BY ONLY <2>1, <2>2, <2>3
  <2>5. ASSUME NEW i \in 1 .. Len(f) + 2 PROVE w[i] = Append(u, k)[i]
    BY ONLY <2>1, <2>2, <2>3, <2>5
  <2> QED  BY ONLY <2>4, <2>5, SeqEqual
<1>5. Fit(u, o) /\ u # <<>> /\ Last(u) = r
  <2>1. u = Append(f, r) /\ o \in Nat
    OBVIOUS
  <2> HIDE DEF f, u
  <2> QED  BY ONLY <1>1, <1>2, <2>1, FitAbove
<1> HIDE DEF f, u
<1>6. Fit(w, o) /\ w # <<>>
  <2>1. o \in Nat /\ Expecting(r, id)
    OBVIOUS
  <2> QED  BY ONLY <1>3, <1>4, <1>5, <2>1, FitAbove
<1>7. Sized(w, o)
  BY <1>6, FitSized
<1> QED  BY <1>6, <1>7 DEF Reached, EventOK

(***************************************************************************)
(* The initial state and the actions                                       *)
(***************************************************************************)

LEMMA InvFacts ==
    ASSUME Inv
    PROVE  /\ rules \in Policies /\ world \in Worlds /\ timeout \in Nat /\ clock \in Nat
           /\ nextId \in Nat \ {0} /\ cursors \in [DOMAIN cursors -> Nat]
           /\ DOMAIN cursors \subseteq 1 .. nextId - 1
           /\ Sized(vms, nextId) /\ vms # <<>>
           /\ status = "running" =>
                /\ Fit(vms, nextId) /\ EventOK(event, vms[Len(vms)])
                /\ Top = vms[Len(vms)] /\ Top \in Machines /\ MachineOK(Top, nextId)
<1>1. Sized(vms, nextId) /\ vms # <<>> /\ nextId \in Nat
  BY DEF Inv, Reached, Sized, Typed
<1>2. ASSUME status = "running"
      PROVE  /\ Fit(vms, nextId) /\ EventOK(event, vms[Len(vms)])
             /\ Top = vms[Len(vms)] /\ Top \in Machines /\ MachineOK(Top, nextId)
  <2>1. Fit(vms, nextId) /\ EventOK(event, vms[Len(vms)])
    BY <1>2 DEF Inv, Reached
  <2>2. Top = vms[Len(vms)] /\ MachineOK(Top, nextId)
    BY <1>1, <2>1, FitBelow DEF Top
  <2> QED  BY <2>1, <2>2 DEF MachineOK
<1> QED  BY <1>1, <1>2 DEF Inv, Typed

LEMMA Starting ==
    ASSUME Init
    PROVE  Inv
<1>1. query \in Terms /\ <<>> \in Seq(Entries) /\ NoId \in Nat
  <2>1. query \in Queries
    BY DEF Init
  <2> QED  BY <2>1, TermsAssumption, EmptySeq DEF NoId
<1> DEFINE m == Machine(<<QueryG(query)>>, <<>>, NoId)
<1>2. MachineOK(m, 1) /\ m \in Machines
  <2>1. 1 \in Nat \ {0}
    OBVIOUS
  <2>2. MachineOK(m, 1)
    BY <1>1, <2>1, MachineMade
  <2> QED  BY <2>2 DEF MachineOK
<1>3. vms = <<m>> /\ nextId = 1 /\ event = NoEvent /\ status = "running" /\ cursors = <<>>
      /\ clock = 0 /\ rules \in Policies /\ world \in Worlds /\ timeout \in Nat
  BY QueryAssumption DEF Init
<1> HIDE DEF m
<1>4. Fit(vms, 1)
  BY <1>2, <1>3 DEF Fit
<1>5. Sized(vms, 1)
  BY <1>3, <1>4, FitSized
<1>6. EventOK(event, vms[Len(vms)])
  BY <1>3 DEF EventOK, NoEvent
<1>7. Reached(vms, nextId, status, event)
  BY <1>3, <1>4, <1>5, <1>6 DEF Reached
<1>8. Typed
  BY <1>3 DEF Typed
<1> QED  BY <1>7, <1>8 DEF Inv

\* A step that keeps the knowledge base, the application and the counter's
\* range.
LEMMA Steps ==
    ASSUME Inv, UNCHANGED constants, clock' \in Nat, nextId' \in Nat, nextId <= nextId',
           UNCHANGED cursors \/ /\ cursors' \in [DOMAIN cursors' -> Nat]
                                /\ DOMAIN cursors' \subseteq 1 .. nextId' - 1,
           Reached(vms', nextId', status', event')
    PROVE  Inv'
<1>1. 1 .. nextId - 1 \subseteq 1 .. nextId' - 1 /\ nextId' # 0
  BY InvFacts
<1>2. rules' \in Policies /\ world' \in Worlds /\ timeout' \in Nat
  BY InvFacts DEF constants
<1>3. cursors' \in [DOMAIN cursors' -> Nat] /\ DOMAIN cursors' \subseteq 1 .. nextId' - 1
  BY <1>1, InvFacts
<1> QED  BY <1>1, <1>2, <1>3 DEF Inv, Typed

LEMMA FinishFits ==
    ASSUME NEW n \in Nat \ {0}, Fit(vms, n), vms # <<>>, status = "running",
           NEW m, m \in Machines, m.fault = "", m.id = Last(vms).id, Sized(<<m>>, n),
           Finish(m)
    PROVE  Reached(vms', n, status', [kind |-> "None"])
<1> DEFINE r == QuestionResult(Last(Below), m.id, Inverted(m))
<1> DEFINE answer == Inverted(m)
<1>1. answer \in Values
  BY DEF Inverted, Values
<1>2. IF Below = <<>> THEN vms' = <<m>> /\ status' = "done"
      ELSE IF r.fault = "" THEN vms' = Append(Front(Below), r) /\ status' = "running"
      ELSE status' = r.fault /\ vms' = vms
  BY DEF Finish, Proceed
<1>3. r = QuestionResult(Last(Below), m.id, answer)
  OBVIOUS
<1> HIDE DEF r, answer
<1> QED  BY <1>1, <1>2, <1>3, Finishes DEF Below

LEMMA RunGoalStep ==
    ASSUME Inv, RunGoal
    PROVE  Inv'
<1> DEFINE n == nextId
<1> DEFINE t == IF Top.started = Never THEN clock ELSE Top.started
<1> DEFINE k == [Top EXCEPT !.goals = Front(@), !.started = t]
<1> DEFINE g == Last(Top.goals)
<1>1. /\ status = "running" /\ event = NoEvent /\ Top.goals # <<>>
      /\ vms # <<>> /\ Fit(vms, n) /\ Sized(vms, n) /\ MachineOK(Top, n) /\ Top \in Machines
      /\ n \in Nat \ {0} /\ clock \in Nat /\ rules \in Policies
  BY InvFacts DEF RunGoal, Running
<1>2. Popped(k, g, n)
  <2>1. t \in Int
    BY <1>1 DEF Machines
  <2> HIDE DEF t
  <2> QED  BY <1>1, <2>1, GoalPopped
<1>3. k.id = Last(vms).id
  BY <1>1 DEF Machines, Top
<1>4. clock' \in Nat /\ UNCHANGED cursors /\ UNCHANGED constants
  BY <1>1 DEF RunGoal
<1>5. \/ status' = "QueryTimeout" /\ UNCHANGED <<vms, event, nextId>>
      \/ \E r \in {Perform(k, g, rules, n)} : Receive(r.vm, r.event)
  <2>1. k = [Top EXCEPT !.goals = Front(@), !.started = IF @ = Never THEN clock ELSE @]
    BY <1>1 DEF Machines
  <2> HIDE DEF k, g
  <2> QED  BY <2>1 DEF RunGoal, g
<1> HIDE DEF k, g, t
<1>6. CASE status' = "QueryTimeout" /\ UNCHANGED <<vms, event, nextId>>
  <2>1. Reached(vms', nextId', status', event')
    BY <1>1, <1>6 DEF Reached
  <2> QED  BY <1>1, <1>4, <1>6, <2>1, Steps
<1>7. CASE \E r \in {Perform(k, g, rules, n)} : Receive(r.vm, r.event)
  <2> DEFINE r == Perform(k, g, rules, n)
  <2> DEFINE m == r.vm
  <2> DEFINE e == r.event
  <2> DEFINE o == NextId(m, n)
  <2>1. Receive(m, e)
    BY <1>7
  <2>10. Outcome(r, k, g, n)
    BY <1>1, <1>2, Performed
  <2> HIDE DEF r
  <2>2. nextId' = o /\ o \in Nat \ {0} /\ n <= o
    <3> HIDE DEF m, e
    <3> QED  BY <1>1, <2>1 DEF Receive, NextId
  <2>3. g \in Goals
    BY <1>2 DEF Popped
  <2>4. SUFFICES Reached(vms', nextId', status', event')
    BY <1>1, <1>4, <2>2, Steps
  <2>5. m.id = Last(vms).id
    BY <1>3, <2>10 DEF Outcome
  <2>6. CASE g.goal \in Quiet
    <3>1. e = NoEvent /\ Done(m, n)
      <4>1. g.goal # "Halt"
        BY <2>6 DEF Quiet
      <4> QED  BY <2>10, <2>6, <4>1 DEF Outcome
    <3>2. Proceed(Below, m) /\ event' = NoEvent
      BY <2>1, <3>1 DEF Receive, NoEvent
    <3>3. Fine(m, o) /\ (m.fault = "" => EventOK(event', m))
      BY <3>1, <3>2 DEF Done, Fine, EventOK, NoEvent
    <3>4. IF m.fault = "" THEN vms' = Append(Front(vms), m) /\ status' = "running"
          ELSE status' = m.fault /\ vms' = vms
      BY <1>1, <3>2 DEF Proceed, Below
    <3> HIDE DEF m, e, o
    <3> QED  BY <1>1, <2>2, <2>5, <3>3, <3>4, Proceeds
  <2>7. CASE g.goal \in Loud \ {"Run"}
    <3>1. Done(m, n) /\ e.kind \notin {"Done", "Run"} /\ (m.fault = "" => EventOK(e, m))
      <4>1. g.goal \in {"LookupExternal", "NextExternal", "IsaExternal"}
        BY <2>7 DEF Loud
      <4>2. Done(m, n)
        BY <2>10, <4>1 DEF Outcome
      <4>3. CASE g.goal = "LookupExternal"
        BY <2>10, <4>2, <4>3 DEF Outcome, EventOK
      <4>4. CASE g.goal = "NextExternal"
        BY <2>10, <4>2, <4>4 DEF Outcome, EventOK
      <4>5. CASE g.goal = "IsaExternal"
        BY <2>10, <4>2, <4>5 DEF Outcome, EventOK
      <4> QED  BY <4>1, <4>3, <4>4, <4>5
    <3>2. Proceed(Below, m) /\ event' = e
      BY <2>1, <3>1 DEF Receive
    <3>3. Fine(m, o)
      BY <3>1 DEF Done, Fine
    <3>4. IF m.fault = "" THEN vms' = Append(Front(vms), m) /\ status' = "running"
          ELSE status' = m.fault /\ vms' = vms
      BY <1>1, <3>2 DEF Proceed, Below
    <3>5. m.fault = "" => EventOK(event', m)
      BY <3>1, <3>2
    <3> HIDE DEF m, e, o
    <3> QED  BY <1>1, <2>2, <2>5, <3>3, <3>4, <3>5, Proceeds
  <2>8. CASE g.goal = "Run"
    <3>1. /\ Done(m, n) /\ e.kind = "Run" /\ e.term \in Terms /\ e.id = n
          /\ (m.fault = "" => Expecting(m, e.id))
      BY <2>10, <2>8 DEF Outcome
    <3>2. Start(m, e) /\ event' = NoEvent /\ Fine(m, o)
      BY <2>1, <3>1 DEF Receive, Done, Fine
    <3> HIDE DEF m, e, o
    <3>3. CASE m.fault = ""
      <4>1. /\ vms' = Front(vms) \o <<m, Machine(<<QueryG(e.term)>>, Last(vms).bindings, e.id)>>
            /\ status' = "running" /\ event' = [kind |-> "None"]
        BY <1>1, <3>2, <3>3 DEF Start, Below, Top, NoEvent
      <4>2. e.id \in Nat /\ e.term \in Terms /\ Expecting(m, e.id)
        BY <1>1, <3>1, <3>3
      <4> DEFINE i == e.id
      <4> DEFINE u == e.term
      <4>3. /\ vms' = Front(vms) \o <<m, Machine(<<QueryG(u)>>, Last(vms).bindings, i)>>
            /\ i \in Nat /\ u \in Terms /\ Expecting(m, i)
        BY <4>1, <4>2
      <4> HIDE DEF i, u
      <4> QED  BY <1>1, <2>2, <2>5, <3>2, <3>3, <4>1, <4>3, Starts
    <3>4. CASE m.fault # ""
      <4>1. status' = m.fault /\ vms' = vms
        BY <3>2, <3>4 DEF Start, Proceed
      <4> QED  BY <1>1, <2>2, <2>5, <3>2, <3>4, <4>1, Proceeds
    <3> QED  BY <3>3, <3>4
  <2>9. CASE g.goal = "Halt"
    <3>1. e.kind = "Done" /\ m = [k EXCEPT !.goals = <<>>, !.choices = <<>>]
      BY <2>10, <2>9 DEF Outcome
    <3>2. Finish(m) /\ event' = [kind |-> "None"]
      BY <2>1, <3>1 DEF Receive, NoEvent
    <3>3. k \in Machines /\ k.fault = "" /\ ~k.yielded /\ k.calls \subseteq 1 .. n - 1
      BY <1>2 DEF Popped
    <3> HIDE DEF e
    <3>4. /\ m \in Machines /\ m.fault = "" /\ ~m.yielded /\ m.calls \subseteq 1 .. n - 1
          /\ m.goals = <<>> /\ m.choices = <<>>
      <4>1. <<>> \in Seq(Goals) /\ <<>> \in Seq(ChoicePoints)
        BY EmptySeq
      <4> HIDE DEF m
      <4> QED  BY <3>1, <3>3, <4>1 DEF Machines
    <3> HIDE DEF m
    <3>5. nextId' = n
      <4>1. n \notin 1 .. n - 1
        BY <1>1
      <4> QED  BY <2>2, <3>4, <4>1 DEF o, NextId
    <3>6. Sized(<<m>>, n)
      <4>1. 0 <= StackLimit
        BY StackLimitAssumption
      <4>2. Len(<<>>) = 0 /\ DOMAIN <<>> = {}
        OBVIOUS
      <4>3. /\ Len(m.goals) <= StackLimit /\ Len(m.choices) <= StackLimit
            /\ DOMAIN m.choices = {}
        BY <3>4, <4>1, <4>2
      <4>4. /\ <<m>> \in Seq(Machines) /\ <<m>> # <<>> /\ DOMAIN <<m>> = {1} /\ <<m>>[1] = m
        <5>1. m \in Machines
          BY <3>4
        <5> QED  BY ONLY <5>1
      <4> DEFINE v == <<m>>
      <4> HIDE DEF v
      <4>5. Sized(v, n)
        BY <3>4, <4>3, <4>4 DEF Sized, v
      <4> QED  BY <4>5 DEF v
    <3>7. Reached(vms', n, status', [kind |-> "None"])
      BY <1>1, <2>5, <3>2, <3>4, <3>6, FinishFits
    <3> QED  BY <3>2, <3>5, <3>7
  <2> QED  BY <2>3, <2>6, <2>7, <2>8, <2>9, GoalKinds
<1> QED  BY <1>5, <1>6, <1>7

\* A result: the machine keeps its choices, and waits to be run again.
Yielded(m, error, results) ==
    [m EXCEPT !.yielded = TRUE, !.error = error, !.results = results]

LEMMA Yields ==
    ASSUME NEW n \in Nat \ {0}, NEW m, MachineOK(m, n), m.goals = <<>>,
           NEW error \in BOOLEAN, NEW results \in Nat
    PROVE  LET r == Yielded(m, error, results)
           IN  MachineOK(r, n) /\ r.id = m.id /\ r.fault = ""
<1> DEFINE r == Yielded(m, error, results)
<1>1. m \in Machines /\ m.fault = ""
  BY DEF MachineOK
<1>2. /\ r \in Machines /\ r.goals = m.goals /\ r.choices = m.choices
      /\ r.queries = m.queries /\ r.calls = m.calls /\ r.fault = m.fault
      /\ r.bindings = m.bindings /\ r.yielded = TRUE /\ r.id = m.id
  BY <1>1 DEF Machines, Yielded
<1> HIDE DEF r
<1>3. ChoicesOK(r, n)
  BY <1>2, SameChoices DEF MachineOK
<1>4. GoalsOK(r.goals, r.choices) /\ Balanced(r.goals, r.queries) /\ Len(r.goals) <= StackLimit
      /\ r.calls \subseteq 1 .. n - 1
  BY <1>2 DEF MachineOK
<1>5. Known(r) /\ Bottom(r) /\ Asking(r)
  <2>1. Known(m)
    BY DEF MachineOK
  <2>2. Known(r)
    BY <1>2, <2>1 DEF Known
  <2>3. r.goals = <<>>
    BY <1>2
  <2> QED  BY <2>2, <2>3 DEF Bottom, Asking
<1>6. MachineOK(r, n)
  BY <1>1, <1>2, <1>3, <1>4, <1>5 DEF MachineOK
<1> QED  BY <1>1, <1>2, <1>6 DEF r

LEMMA ResultStep ==
    ASSUME Inv, Result
    PROVE  Inv'
<1> DEFINE n == nextId
<1>1. /\ status = "running" /\ event = NoEvent /\ Top.goals = <<>>
      /\ vms # <<>> /\ Fit(vms, n) /\ MachineOK(Top, n) /\ Top \in Machines
      /\ n \in Nat \ {0} /\ clock \in Nat
  BY InvFacts DEF Result, Running
<1>2. nextId' = n /\ UNCHANGED cursors /\ clock' \in Nat /\ UNCHANGED constants
      /\ status' = "running"
  BY <1>1 DEF Result
<1>6. n <= n
  BY <1>1
<1>3. Top.error \in BOOLEAN /\ Top.results \in Nat /\ Top.results + 1 \in Nat
      /\ Top.id = Last(vms).id
  BY <1>1 DEF Machines, Top
<1>4. CASE Below = <<>>
  <2> DEFINE m == [Top EXCEPT !.yielded = TRUE, !.error = FALSE]
  <2>1. vms' = <<m>> /\ event' = [kind |-> "Result"]
    BY <1>4 DEF Result
  <2>2. m = Yielded(Top, FALSE, Top.results)
    BY <1>1 DEF Machines, Yielded
  <2> HIDE DEF m
  <2>3. MachineOK(m, n) /\ m.id = Top.id /\ m.fault = ""
    BY <1>1, <1>3, <2>2, Yields
  <2>4. Fine(m, n) /\ EventOK(event', m)
    BY <2>1, <2>3 DEF Fine, Faults, EventOK
  <2>5. vms' = Append(Front(vms), m)
    BY <1>4, <2>1 DEF Below
  <2>6. Reached(vms', n, status', event')
    BY <1>1, <1>2, <1>3, <1>6, <2>3, <2>4, <2>5, Proceeds
  <2> QED  BY <1>1, <1>2, <2>6, Steps
<1>5. CASE Below # <<>>
  <2> DEFINE m == [Top EXCEPT !.yielded = TRUE, !.results = @ + 1]
  <2>1. vms' = Append(Front(vms), m) /\ event' = [kind |-> "None"]
    BY <1>1, <1>5 DEF Result, Below, NoEvent
  <2>2. m = Yielded(Top, Top.error, Top.results + 1)
    BY <1>1 DEF Machines, Yielded
  <2> HIDE DEF m
  <2>3. MachineOK(m, n) /\ m.id = Top.id /\ m.fault = ""
    BY <1>1, <1>3, <2>2, Yields
  <2>4. Fine(m, n) /\ EventOK(event', m)
    BY <2>1, <2>3 DEF Fine, Faults, EventOK
  <2>5. Reached(vms', n, status', event')
    BY <1>1, <1>2, <1>3, <1>6, <2>1, <2>3, <2>4, Proceeds
  <2> QED  BY <1>1, <1>2, <2>5, Steps
<1> QED  BY <1>4, <1>5

\* A machine that backtracks after a result.
LEMMA Resumes ==
    ASSUME NEW n \in Nat \ {0}, NEW m, MachineOK(m, n), m.goals = <<>>, m.choices # <<>>
    PROVE  LET r == Backtrack([m EXCEPT !.yielded = FALSE]) IN Fine(r, n) /\ r.id = m.id
<1> DEFINE k == [m EXCEPT !.yielded = FALSE]
<1>1. m \in Machines /\ m.fault = ""
  BY DEF MachineOK
<1>2. /\ k \in Machines /\ k.goals = <<>> /\ k.choices = m.choices
      /\ k.queries = m.queries /\ k.calls = m.calls /\ k.fault = ""
      /\ k.bindings = m.bindings /\ k.yielded = FALSE /\ k.id = m.id
  BY <1>1 DEF Machines
<1> HIDE DEF k
<1>3. ChoicesOK(k, n)
  BY <1>2, SameChoices DEF MachineOK
<1>4. Balanced(k.goals, k.queries) /\ k.calls \subseteq 1 .. n - 1
  BY <1>2 DEF MachineOK
<1>5. Len(k.goals) <= StackLimit /\ DOMAIN k.goals = {}
  <2>1. Len(<<>>) = 0 /\ DOMAIN <<>> = {}
    OBVIOUS
  <2>2. 0 <= StackLimit
    BY StackLimitAssumption
  <2> QED  BY <1>2, <2>1, <2>2
<1>6. ASSUME NEW j \in DOMAIN k.choices PROVE Awaited(k.choices[j]) \subseteq k.calls
  <2>1. \A id \in Awaited(m.choices[j]) : id \in m.calls \/ Doomed(m.goals, j)
    BY <1>2 DEF MachineOK, Known
  <2>2. ~Doomed(m.goals, j)
    <3>1. DOMAIN m.goals = {}
      BY <1>2, <1>5
    <3> QED  BY <3>1 DEF Doomed
  <2> QED  BY <1>2, <2>1, <2>2
<1>7. Calm(k, n)
  BY <1>2, <1>3, <1>4, <1>5, <1>6 DEF Calm
<1>8. Fine(Backtrack(k), n)
  BY <1>7, Backtracked
<1>9. Backtrack(k).id = m.id
  <2>1. Identified(k)
    BY <1>2 DEF Identified, Machines
  <2>2. Keeps(Backtrack(k), k)
    BY <2>1, SameId
  <2> QED  BY <1>2, <2>2 DEF Keeps
<1> QED  BY <1>8, <1>9 DEF k

LEMMA ResumeStep ==
    ASSUME Inv, Resume
    PROVE  Inv'
<1> DEFINE n == nextId
<1>1. /\ status = "running" /\ event = NoEvent /\ Top.goals = <<>>
      /\ vms # <<>> /\ Fit(vms, n) /\ Sized(vms, n) /\ MachineOK(Top, n) /\ Top \in Machines
      /\ n \in Nat \ {0} /\ clock \in Nat
  BY InvFacts DEF Resume, Running
<1>2. nextId' = n /\ UNCHANGED cursors /\ clock' \in Nat /\ UNCHANGED constants
      /\ event' = [kind |-> "None"]
  BY <1>1 DEF Resume, NoEvent
<1>5. n <= n
  BY <1>1
<1>3. CASE Top.choices = <<>>
  <2>1. Finish(Top) /\ Top.fault = "" /\ Top.id = Last(vms).id
    BY <1>1, <1>3 DEF Resume, MachineOK, Top
  <2>2. Sized(<<Top>>, n)
    <3> DEFINE m == Top
    <3> HIDE DEF m
    <3>1. MachineOK(m, n) /\ m \in Machines /\ n \in Nat
      BY <1>1 DEF m
    <3>2. Fit(<<m>>, n)
      BY ONLY <3>1 DEF Fit
    <3>3. <<m>> # <<>>
      OBVIOUS
    <3>4. Sized(<<m>>, n)
      BY <3>1, <3>2, <3>3, FitSized
    <3> QED  BY <3>4 DEF m
  <2>3. Reached(vms', n, status', [kind |-> "None"])
    BY <1>1, <2>1, <2>2, FinishFits
  <2> QED  BY <1>1, <1>2, <2>3, Steps
<1>4. CASE Top.choices # <<>>
  <2> DEFINE r == Backtrack([Top EXCEPT !.yielded = FALSE])
  <2>1. Fine(r, n) /\ r.id = Top.id
    BY <1>1, <1>4, Resumes
  <2>2. Proceed(Below, r)
    BY <1>4 DEF Resume
  <2> HIDE DEF r
  <2>3. IF r.fault = "" THEN vms' = Append(Front(vms), r) /\ status' = "running"
        ELSE status' = r.fault /\ vms' = vms
    BY <1>1, <2>2 DEF Proceed, Below
  <2>4. EventOK(event', r) /\ r.id = Last(vms).id
    BY <1>2, <2>1 DEF EventOK, Top
  <2>5. Reached(vms', n, status', event')
    BY <1>1, <1>5, <2>1, <2>3, <2>4, Proceeds
  <2> QED  BY <1>1, <1>2, <2>5, Steps
<1> QED  BY <1>3, <1>4

\* An error of the application's is the query's, whichever machine has asked.
LEMMA ToldFit ==
    ASSUME NEW n \in Nat \ {0}, Fit(vms, n), vms # <<>>
    PROVE  /\ Fit(Told, n) /\ Told # <<>> /\ Last(Told).id = Last(vms).id
           /\ MachineOK(Last(Told), n)
           /\ \A i : Asked(Last(vms), i) => Asked(Last(Told), i)
<1> DEFINE k == [vms[1] EXCEPT !.error = TRUE]
<1> DEFINE L == Len(vms)
<1>1. vms \in Seq(Machines) /\ n \in Nat
  BY DEF Fit
<1>2. L \in Nat \ {0} /\ DOMAIN vms = 1 .. L
  BY <1>1
<1>3. vms[1] \in Machines /\ 1 \in DOMAIN vms
  BY <1>1, <1>2
<1>4. /\ k \in Machines /\ k.id = vms[1].id
      /\ (MachineOK(vms[1], n) => MachineOK(k, n))
      /\ \A i : Asked(vms[1], i) => Asked(k, i)
      /\ \A i : Expecting(vms[1], i) => Expecting(k, i)
  BY <1>3, ErrorTold
<1>5. Told = [vms EXCEPT ![1] = k]
  BY DEF Told
<1> HIDE DEF k
<1>6. /\ Told \in Seq(Machines) /\ Len(Told) = L /\ DOMAIN Told = 1 .. L /\ Told # <<>>
      /\ \A j \in 1 .. L : Told[j] = IF j = 1 THEN k ELSE vms[j]
  <2>1. /\ Told \in [1 .. L -> Machines] /\ DOMAIN Told = 1 .. L
        /\ \A j \in 1 .. L : Told[j] = IF j = 1 THEN k ELSE vms[j]
    <3>1. vms \in [1 .. L -> Machines]
      BY <1>1
    <3> HIDE DEF L
    <3> QED  BY <1>4, <1>5, <3>1
  <2>2. Told \in Seq(Machines)
    BY <1>2, <2>1
  <2>3. Len(Told) = L
    BY <1>2, <2>1, <2>2
  <2>4. Told # <<>>
    BY <1>2, <2>2, <2>3
  <2> QED  BY <2>1, <2>2, <2>3, <2>4
<1>7. Last(vms) = vms[L] /\ Last(Told) = Told[L]
  BY <1>6 DEF Last
<1> HIDE DEF L, Told
<1>8. \A j \in 1 .. L :
        /\ Told[j].id = vms[j].id
        /\ MachineOK(vms[j], n) => MachineOK(Told[j], n)
        /\ \A i : Asked(vms[j], i) => Asked(Told[j], i)
        /\ \A i : Expecting(vms[j], i) => Expecting(Told[j], i)
  BY <1>4, <1>6
<1>9. Fit(Told, n)
  <2>1. \A j \in DOMAIN Told : MachineOK(Told[j], n)
    BY <1>2, <1>6, <1>8 DEF Fit
  <2>2. ASSUME NEW j \in DOMAIN Told, j < Len(Told)
        PROVE  Expecting(Told[j], Told[j + 1].id)
    <3>1. j \in 1 .. L /\ j + 1 \in 1 .. L /\ j < Len(vms)
      BY <1>2, <1>6, <2>2 DEF L
    <3>2. Expecting(vms[j], vms[j + 1].id)
      BY <1>2, <3>1 DEF Fit
    <3> QED  BY <1>8, <3>1, <3>2
  <2> QED  BY <1>6, <2>1, <2>2 DEF Fit
<1>10. L \in 1 .. L
  BY <1>2
<1>11. MachineOK(Last(Told), n)
  BY <1>6, <1>7, <1>9, <1>10 DEF Fit
<1> QED  BY <1>6, <1>7, <1>8, <1>9, <1>10, <1>11

\* An answer of the application's, to the machine on top.
LEMMA Answers ==
    ASSUME Inv, status = "running", NEW m, Fine(m, nextId), m.id = Last(vms).id,
           NEW v, Fit(v, nextId), v # <<>>, Last(v).id = Last(vms).id,
           Answered(Front(v), m),
           UNCHANGED cursors \/ /\ cursors' \in [DOMAIN cursors' -> Nat]
                                /\ DOMAIN cursors' \subseteq 1 .. nextId - 1
    PROVE  Inv'
<1> DEFINE n == nextId
<1>1. /\ vms # <<>> /\ Fit(vms, n) /\ n \in Nat \ {0} /\ clock \in Nat /\ n <= n
  BY InvFacts
<1>2. /\ nextId' = n /\ clock' \in Nat /\ UNCHANGED constants
      /\ event' = [kind |-> "None"] /\ Proceed(Front(v), m)
  BY <1>1 DEF Answered, NoEvent
<1>3. EventOK(event', m)
  BY <1>2 DEF EventOK
<1>4. Reached(vms', n, status', event')
  <2>1. CASE m.fault = ""
    <3>1. vms' = Append(Front(v), m) /\ status' = "running"
      BY <1>2, <2>1 DEF Proceed
    <3> QED  BY <1>1, <1>3, <2>1, <3>1, Proceeds
  <2>2. CASE m.fault # ""
    <3>1. status' = m.fault /\ vms' = vms
      BY <1>2, <2>2 DEF Proceed
    <3> QED  BY <1>1, <1>3, <2>2, <3>1, Proceeds
  <2> QED  BY <2>1, <2>2
<1> QED  BY <1>1, <1>2, <1>4, Steps

LEMMA AnswerCallStep ==
    ASSUME Inv, AnswerCall
    PROVE  Inv'
<1> DEFINE n == nextId
<1> DEFINE value == world.fields[event.name]
<1>1. /\ status = "running" /\ event.kind = "ExternalCall"
      /\ vms # <<>> /\ Fit(vms, n) /\ MachineOK(Top, n) /\ n \in Nat \ {0}
      /\ EventOK(event, Top) /\ world \in Worlds
  BY InvFacts DEF AnswerCall
<1>2. event.name \in Named("Dot") /\ Asked(Top, event.id)
  BY <1>1 DEF EventOK
<1>3. value \in Values
  <2>1. PICK t \in Terms : t.op = "Dot" /\ event.name = t.name
    BY <1>2 DEF Named
  <2> QED  BY <1>1, <2>1, WorldsAssumption DEF Values
<1>4. IF value = "error"
      THEN Answered(Front(Told), NoCallResult(Last(Told), event.id))
      ELSE Answered(Below, CallResult(Top, event.id, value))
  BY DEF AnswerCall
<1>5. UNCHANGED cursors
  BY DEF AnswerCall
<1> HIDE DEF value
<1>6. CASE value = "error"
  <2> DEFINE r == NoCallResult(Last(Told), event.id)
  <2>1. Fit(Told, n) /\ Told # <<>> /\ Last(Told).id = Last(vms).id
        /\ MachineOK(Last(Told), n) /\ Asked(Last(Told), event.id)
    BY <1>1, <1>2, ToldFit DEF Top
  <2>2. Fine(r, n) /\ r.id = Last(Told).id
    BY <1>1, <2>1, CallEnded
  <2>3. Answered(Front(Told), r)
    BY <1>4, <1>6
  <2> HIDE DEF r
  <2> QED  BY <1>1, <1>5, <2>1, <2>2, <2>3, Answers
<1>7. CASE value # "error"
  <2> DEFINE r == CallResult(Top, event.id, value)
  <2>1. Fine(r, n) /\ r.id = Last(vms).id
    BY <1>1, <1>2, <1>3, CallAnswered DEF Top
  <2>2. Answered(Front(vms), r)
    BY <1>4, <1>7 DEF Below
  <2> HIDE DEF r
  <2> QED  BY <1>1, <1>5, <2>1, <2>2, Answers
<1> QED  BY <1>6, <1>7

LEMMA AnswerNextStep ==
    ASSUME Inv, AnswerNext
    PROVE  Inv'
<1> DEFINE n == nextId
<1> DEFINE elements == world.iterables[event.name]
<1> DEFINE at == IF event.id \in DOMAIN cursors THEN cursors[event.id] ELSE 0
<1>1. /\ status = "running" /\ event.kind = "NextExternal"
      /\ vms # <<>> /\ Fit(vms, n) /\ MachineOK(Top, n) /\ n \in Nat \ {0}
      /\ EventOK(event, Top) /\ world \in Worlds
      /\ cursors \in [DOMAIN cursors -> Nat] /\ DOMAIN cursors \subseteq 1 .. n - 1
  BY InvFacts DEF AnswerNext
<1>2. event.name \in Named("In") /\ Asked(Top, event.id)
  BY <1>1 DEF EventOK
<1>3. event.id \in 1 .. n - 1
  BY <1>1, <1>2 DEF Asked, MachineOK
<1>4. elements \in Seq(STRING)
  <2>1. PICK t \in Terms : t.op = "In" /\ event.name = t.name
    BY <1>2 DEF Named
  <2> QED  BY <1>1, <2>1, WorldsAssumption
<1>5. at \in Nat
  BY <1>1
<1>6. /\ cursors' = [id \in DOMAIN cursors \cup {event.id} |->
                        IF id = event.id THEN at + 1 ELSE cursors[id]]
      /\ IF at < Len(elements)
         THEN Answered(Below, CallResult(Top, event.id, elements[at + 1]))
         ELSE Answered(Below, NoCallResult(Top, event.id))
  BY DEF AnswerNext
<1> HIDE DEF at, elements
<1>7. cursors' \in [DOMAIN cursors' -> Nat] /\ DOMAIN cursors' \subseteq 1 .. n - 1
  BY <1>1, <1>3, <1>5, <1>6
<1>8. CASE at < Len(elements)
  <2> DEFINE value == elements[at + 1]
  <2> DEFINE r == CallResult(Top, event.id, value)
  <2>1. value \in Values
    <3>1. at + 1 \in 1 .. Len(elements)
      BY <1>4, <1>5, <1>8
    <3>2. value \in STRING
      BY <1>4, <3>1
    <3> QED  BY <3>2 DEF Values
  <2> HIDE DEF value
  <2>2. Fine(r, n) /\ r.id = Last(vms).id
    BY <1>1, <1>2, <2>1, CallAnswered DEF Top
  <2>3. Answered(Front(vms), r)
    BY <1>6, <1>8 DEF Below, value
  <2> HIDE DEF r
  <2> QED  BY <1>1, <1>7, <2>2, <2>3, Answers
<1>9. CASE ~(at < Len(elements))
  <2> DEFINE r == NoCallResult(Top, event.id)
  <2>1. Fine(r, n) /\ r.id = Last(vms).id
    BY <1>1, <1>2, CallEnded DEF Top
  <2>2. Answered(Front(vms), r)
    BY <1>6, <1>9 DEF Below
  <2> HIDE DEF r
  <2> QED  BY <1>1, <1>7, <2>1, <2>2, Answers
<1> QED  BY <1>8, <1>9

LEMMA AnswerIsaStep ==
    ASSUME Inv, AnswerIsa
    PROVE  Inv'
<1> DEFINE n == nextId
<1> DEFINE answer == IF world.tags[event.name] THEN "true" ELSE "false"
<1> DEFINE r == QuestionResult(Top, event.id, answer)
<1>1. /\ status = "running" /\ event.kind = "ExternalIsa"
      /\ vms # <<>> /\ Fit(vms, n) /\ MachineOK(Top, n) /\ n \in Nat \ {0}
      /\ EventOK(event, Top)
  BY InvFacts DEF AnswerIsa
<1>2. Expecting(Top, event.id)
  BY <1>1 DEF EventOK
<1>3. answer \in Values
  BY DEF Values
<1>4. Answered(Front(vms), r) /\ UNCHANGED cursors
  BY DEF AnswerIsa, Below
<1> HIDE DEF answer
<1>5. MachineOK(r, n) /\ r.id = Last(vms).id
  BY <1>1, <1>2, <1>3, QuestionAnswered DEF Top
<1> HIDE DEF r
<1>6. Fine(r, n)
  BY <1>5 DEF Fine, MachineOK, Faults
<1> QED  BY <1>1, <1>4, <1>5, <1>6, Answers

LEMMA NextEventStep ==
    ASSUME Inv, NextEvent
    PROVE  Inv'
<1>1. /\ status = "running" /\ nextId \in Nat /\ clock \in Nat /\ nextId <= nextId
      /\ Fit(vms, nextId) /\ Sized(vms, nextId)
  BY InvFacts DEF NextEvent
<1>2. /\ event' = [kind |-> "None"] /\ vms' = vms /\ nextId' = nextId /\ cursors' = cursors
      /\ clock' = clock /\ status' = status /\ UNCHANGED constants
  BY DEF NextEvent, NoEvent
<1>3. EventOK(event', vms[Len(vms)])
  BY <1>2 DEF EventOK
<1>4. Reached(vms', nextId', status', event')
  BY <1>1, <1>2, <1>3 DEF Reached
<1> QED  BY <1>1, <1>2, <1>4, Steps

(***************************************************************************)
(* The theorems                                                            *)
(***************************************************************************)

LEMMA Invariance ==
    Spec => []Inv
<1>1. Init => Inv
  BY Starting
<1>2. Inv /\ [Next]_vars => Inv'
  <2> SUFFICES ASSUME Inv, [Next]_vars PROVE Inv'
    OBVIOUS
  <2>1. CASE RunGoal
    BY <2>1, RunGoalStep
  <2>2. CASE Result
    BY <2>2, ResultStep
  <2>3. CASE Resume
    BY <2>3, ResumeStep
  <2>4. CASE AnswerCall
    BY <2>4, AnswerCallStep
  <2>5. CASE AnswerNext
    BY <2>5, AnswerNextStep
  <2>6. CASE AnswerIsa
    BY <2>6, AnswerIsaStep
  <2>7. CASE NextEvent
    BY <2>7, NextEventStep
  <2>8. CASE UNCHANGED vars
    BY <2>8 DEF vars, Inv, Typed, Reached
  <2> QED  BY <2>1, <2>2, <2>3, <2>4, <2>5, <2>6, <2>7, <2>8 DEF Next
<1> QED  BY <1>1, <1>2, PTL DEF Spec

\* The stacks never exceed their limit, the ids of calls are ones that have
\* been given, and no choice refers to bindings that are not there.
THEOREM TypeCorrect ==
    Spec => []TypeOK
<1>1. Inv => TypeOK
  BY InvFacts DEF TypeOK, Sized
<1> QED  BY <1>1, Invariance, PTL

\* No step finds what the code takes for impossible: an unknown call id, a
\* cut without a body, a call without a choice, a rule out of place.
THEOREM NoPanics ==
    Spec => []NeverPanics
<1>1. Inv => NeverPanics
  BY DEF Inv, Reached, NeverPanics
<1> QED  BY <1>1, Invariance, PTL

\* Whatever cut and backtracking have done, a result has used up the queries.
THEOREM Balances ==
    Spec => []QueriesBalanced
<1>1. Inv => QueriesBalanced
  BY InvFacts DEF QueriesBalanced, Sized
<1> QED  BY <1>1, Invariance, PTL
================================================================================
