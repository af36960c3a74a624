-------------------------- MODULE BindingManager_proof --------------------------
(***************************************************************************)
(* The binding manager, proved for every set of variables, values and      *)
(* goals, and without the bounds that TLC needs.                           *)
(*                                                                         *)
(* First the stack discipline: backtracking restores the stack a choice    *)
(* was made with.  What the entries hold plays no part in it, so the       *)
(* invariant only says that the stack is a sequence, and that the stack    *)
(* pointers of the choices do not decrease: truncating to one of them then *)
(* leaves alone what is below those of all earlier choices.                *)
(*                                                                         *)
(* Then what the entries mean, for queries that are not partial, those of  *)
(* equations and of comparisons of values (PlainGoals).  Their entries     *)
(* form chains that end at a value and cycles of variables that have been  *)
(* unified, and nothing else.  From this follow that looking up ends, and  *)
(* that the stack implements the store of constraints it promises.  With   *)
(* inequations on variables neither holds in general.                      *)
(*                                                                         *)
(* Last the types, of all queries.                                         *)
(***************************************************************************)
EXTENDS BindingManager, FiniteSetTheorems, SequenceTheorems, WellFoundedInduction,
        TLAPS

IsSequence(s) == \E S : s \in Seq(S)

Frames(S, T) == [bsp : Nat, alternatives : Nat, snapshot : S, told : T]

AreFrames(ch) == \E S, T : ch \in Seq(Frames(S, T))

Ordered(ch) == \A i, j \in DOMAIN ch : i <= j => ch[i].bsp <= ch[j].bsp

Intact(st, ch) ==
    \A i \in DOMAIN ch :
        /\ ch[i].bsp <= Len(st)
        /\ SubSeq(st, 1, ch[i].bsp) = ch[i].snapshot

Disciplined(st, ch) ==
    /\ IsSequence(st)
    /\ AreFrames(ch)
    /\ Ordered(ch)
    /\ Intact(st, ch)

\* The inductive invariant.
StackDiscipline == Disciplined(stack, choices)

-----------------------------------------------------------------------------
(* What an operation pushes is a sequence.                                 *)

\* Enumerating a finite set (the HashSet of add_constraint) gives a sequence.
LEMMA SetToSeqType ==
    ASSUME NEW S, IsFiniteSet(S)
    PROVE  SetToSeq(S) \in Seq(S)
<1>1. Cardinality(S) \in Nat /\ ExistsBijection(1 .. Cardinality(S), S)
    BY FS_CardinalityType
<1>2. \E f \in [1 .. Cardinality(S) -> S] : IsInjective(f)
    BY <1>1 DEF ExistsBijection, Bijection, Injection
<1>3. SetToSeq(S) \in [1 .. Cardinality(S) -> S]
    BY <1>2 DEF SetToSeq
<1> QED
    BY <1>1, <1>3, IsASeq

LEMMA VariablesFinite ==
    ASSUME NEW p
    PROVE  IsFiniteSet(Variables(p))
<1>1. Variables(p) \subseteq Var
    BY DEF Variables
<1> QED
    BY <1>1, FS_Subset, BindingsAssumption DEF BindingsAssumption

Pushes(result) == IsSequence(result.push)

LEMMA PushesNothing == Pushes(Pushed(<<>>)) /\ Pushes(Incompatible)
<1>1. <<>> \in Seq({})
    OBVIOUS
<1> QED
    BY <1>1 DEF Pushes, IsSequence, Pushed, Incompatible

LEMMA PushesOne ==
    ASSUME NEW e, NEW p
    PROVE  Pushes(Pushed(<<e>>)) /\ Pushes(Requeried(<<e>>, p))
<1>1. <<e>> \in Seq({e})
    OBVIOUS
<1> QED
    BY <1>1 DEF Pushes, IsSequence, Pushed, Requeried

LEMMA PushesTwo ==
    ASSUME NEW e, NEW f, NEW p
    PROVE  Pushes(Pushed(<<e, f>>)) /\ Pushes(Requeried(<<e, f>>, p))
<1>1. <<e, f>> \in Seq({e, f})
    OBVIOUS
<1> QED
    BY <1>1 DEF Pushes, IsSequence, Pushed, Requeried

LEMMA PartialBindPushes ==
    ASSUME NEW p, NEW v, NEW val
    PROVE  Pushes(PartialBind(p, v, val))
BY PushesNothing, PushesOne DEF PartialBind

LEMMA ConstrainPushes ==
    ASSUME NEW S, IsFiniteSet(S), NEW p
    PROVE  Pushes(Constrain(S, p))
<1> DEFINE seq == SetToSeq(S)
           push == [i \in DOMAIN seq |-> Entry(seq[i], PartialT(p))]
<1>1. Len(seq) \in Nat /\ DOMAIN seq = 1 .. Len(seq)
    BY SetToSeqType, LenProperties
<1>2. push \in [1 .. Len(seq) -> {push[i] : i \in DOMAIN seq}]
    BY <1>1
<1>3. push \in Seq({push[i] : i \in DOMAIN seq})
    BY <1>1, <1>2, IsASeq
<1> QED
    BY <1>3 DEF Pushes, IsSequence, Pushed, Constrain

LEMMA AddConstraintPushes ==
    ASSUME NEW s, NEW c
    PROVE  Pushes(AddConstraint(s, c))
<1>1. \A p, S : IsFiniteSet(Variables(p) \ S)
    BY VariablesFinite, FS_Subset
<1>2. \A p, S, q : Pushes(Constrain(Variables(p) \ S, q))
    BY <1>1, ConstrainPushes
<1> QED
    BY <1>2, PushesNothing DEF AddConstraint

LEMMA BindVariablesPushes ==
    ASSUME NEW s, NEW left, NEW right
    PROVE  Pushes(BindVariables(s, left, right))
BY PushesNothing, PushesOne, PushesTwo, PartialBindPushes, AddConstraintPushes
   DEF BindVariables, Tie

LEMMA QueryPushes ==
    ASSUME NEW s, NEW c
    PROVE  Pushes(Query(s, c))
<1>1. \A d : Pushes(Compared(d))
    BY PushesNothing DEF Compared
<1>2. \A v, t : Pushes(Bind(s, v, t))
    BY PushesNothing, PushesOne, PartialBindPushes, BindVariablesPushes DEF Bind
<1>3. Pushes(UnifyOperands(s, c))
    BY <1>1, <1>2 DEF UnifyOperands
<1>4. Pushes(QueryNeq(s, c))
    BY <1>1, AddConstraintPushes DEF QueryNeq
<1> QED
    BY <1>3, <1>4 DEF Query

-----------------------------------------------------------------------------
(* Sequences that share a beginning.                                       *)

\* What is pushed does not change what was below it.
LEMMA PushKeepsBelow ==
    ASSUME NEW s, IsSequence(s), NEW t, IsSequence(t)
    PROVE  /\ IsSequence(s \o t)
           /\ Len(s) <= Len(s \o t)
           /\ \A n \in 0 .. Len(s) : SubSeq(s \o t, 1, n) = SubSeq(s, 1, n)
<1>1. PICK S : s \in Seq(S) /\ t \in Seq(S)
    <2>1. PICK S1 : s \in Seq(S1)
        BY DEF IsSequence
    <2>2. PICK S2 : t \in Seq(S2)
        BY DEF IsSequence
    <2> QED
        BY <2>1, <2>2, SeqMonotonic, S1 \subseteq S1 \cup S2,
           S2 \subseteq S1 \cup S2
<1>2. Len(s) \in Nat /\ Len(t) \in Nat
    BY <1>1, LenProperties
<1>3. ASSUME NEW n \in 0 .. Len(s)
      PROVE  SubSeq(s \o t, 1, n) = SubSeq(s, 1, n)
    <2>1. CASE n = 0
        BY <2>1, SubSeqEmpty
    <2>2. CASE n \in 1 .. Len(s)
        BY <1>1, <1>2, <2>2, SubSeqOfConcat1
    <2> QED
        BY <1>2, <2>1, <2>2
<1> QED
    BY <1>1, <1>2, <1>3, ConcatProperties DEF IsSequence

\* Truncating to n entries does not change the first m of them.
LEMMA TruncateKeepsBelow ==
    ASSUME NEW s, IsSequence(s), NEW n \in 0 .. Len(s)
    PROVE  /\ IsSequence(SubSeq(s, 1, n))
           /\ Len(SubSeq(s, 1, n)) = n
           /\ \A m \in 0 .. n : SubSeq(SubSeq(s, 1, n), 1, m) = SubSeq(s, 1, m)
<1>1. PICK S : s \in Seq(S)
    BY DEF IsSequence
<1>2. Len(s) \in Nat
    BY <1>1, LenProperties
<1>3. SubSeq(s, 1, n) \in Seq(S) /\ Len(SubSeq(s, 1, n)) = n
    <2>1. \A i \in 1 .. n : s[i] \in S
        BY <1>1, <1>2, ElementOfSeq
    <2> QED
        BY <1>2, <2>1, SubSeqProperties
<1>4. ASSUME NEW m \in 0 .. n
      PROVE  SubSeq(SubSeq(s, 1, n), 1, m) = SubSeq(s, 1, m)
    <2>1. CASE m = 0
        BY <2>1, SubSeqEmpty
    <2>2. CASE m \in 1 .. n
        <3>1. 1 \in 1 .. Len(s) /\ n \in 1 .. Len(s)
            BY <1>2, <2>2
        <3>2. 1 \in 1 .. n - 1 + 1 /\ m \in 1 .. n - 1 + 1
            BY <1>2, <2>2
        <3>3. SubSeq(SubSeq(s, 1, n), 1, m) = SubSeq(s, 1 + 1 - 1, 1 + m - 1)
            BY <1>1, <3>1, <3>2, SubSeqOfSubSeq
        <3> QED
            BY <3>3, <2>2
    <2> QED
        BY <2>1, <2>2
<1> QED
    BY <1>3, <1>4 DEF IsSequence

-----------------------------------------------------------------------------
(* What keeps a stack and its choices disciplined.                         *)

LEMMA FramesTyped ==
    ASSUME NEW ch, NEW S, NEW T, ch \in Seq(Frames(S, T))
    PROVE  /\ Len(ch) \in Nat /\ DOMAIN ch = 1 .. Len(ch)
           /\ \A i \in DOMAIN ch : ch[i] \in Frames(S, T) /\ ch[i].bsp \in Nat
<1>1. Len(ch) \in Nat /\ DOMAIN ch = 1 .. Len(ch)
    BY LenProperties
<1>2. \A i \in DOMAIN ch : ch[i] \in Frames(S, T)
    BY <1>1, ElementOfSeq
<1> QED
    BY <1>1, <1>2 DEF Frames

LEMMA PushingKeeps ==
    ASSUME NEW st, NEW ch, Disciplined(st, ch), NEW t, IsSequence(t)
    PROVE  Disciplined(st \o t, ch)
<1>1. PICK S, T : ch \in Seq(Frames(S, T))
    BY DEF Disciplined, AreFrames
<1>2. /\ IsSequence(st \o t)
      /\ Len(st) <= Len(st \o t)
      /\ \A n \in 0 .. Len(st) : SubSeq(st \o t, 1, n) = SubSeq(st, 1, n)
    BY PushKeepsBelow DEF Disciplined
<1>3. Len(st) \in Nat /\ Len(st \o t) \in Nat
    BY <1>2, LenProperties DEF Disciplined, IsSequence
<1>4. \A i \in DOMAIN ch : ch[i].bsp \in 0 .. Len(st)
    BY <1>1, <1>3, FramesTyped DEF Disciplined, Intact
<1>5. Intact(st \o t, ch)
    BY <1>2, <1>3, <1>4 DEF Disciplined, Intact
<1> QED
    BY <1>2, <1>5 DEF Disciplined

\* Going back to the first k choices and to a stack pointer n that none of
\* theirs exceeds.
LEMMA TruncatingKeeps ==
    ASSUME NEW st, NEW ch, Disciplined(st, ch),
           NEW k \in 0 .. Len(ch), NEW n \in 0 .. Len(st),
           \A i \in 1 .. k : ch[i].bsp <= n
    PROVE  /\ Disciplined(SubSeq(st, 1, n), SubSeq(ch, 1, k))
           /\ Len(SubSeq(st, 1, n)) = n
           /\ Len(SubSeq(ch, 1, k)) = k
           /\ \A i \in 1 .. k : SubSeq(ch, 1, k)[i] = ch[i]
<1>1. PICK S, T : ch \in Seq(Frames(S, T))
    BY DEF Disciplined, AreFrames
<1>2. /\ Len(ch) \in Nat /\ DOMAIN ch = 1 .. Len(ch)
      /\ \A i \in 1 .. Len(ch) : ch[i] \in Frames(S, T) /\ ch[i].bsp \in Nat
    BY <1>1, FramesTyped
<1>3. /\ SubSeq(ch, 1, k) \in Seq(Frames(S, T))
      /\ Len(SubSeq(ch, 1, k)) = k
      /\ \A i \in 1 .. k : SubSeq(ch, 1, k)[i] = ch[i]
    BY <1>2, SubSeqProperties
<1>4. DOMAIN SubSeq(ch, 1, k) = 1 .. k
    BY <1>3, LenProperties
<1>5. /\ IsSequence(SubSeq(st, 1, n))
      /\ Len(SubSeq(st, 1, n)) = n
      /\ \A m \in 0 .. n : SubSeq(SubSeq(st, 1, n), 1, m) = SubSeq(st, 1, m)
    BY TruncateKeepsBelow DEF Disciplined
<1>6. Intact(SubSeq(st, 1, n), SubSeq(ch, 1, k))
    BY <1>2, <1>3, <1>4, <1>5 DEF Disciplined, Intact
<1>7. Ordered(SubSeq(ch, 1, k))
    BY <1>2, <1>3, <1>4 DEF Disciplined, Ordered
<1> QED
    BY <1>3, <1>5, <1>6, <1>7 DEF Disciplined, AreFrames

\* A choice made at the top of the stack.
LEMMA ChoosingKeeps ==
    ASSUME NEW st, NEW ch, Disciplined(st, ch),
           NEW S, NEW T, NEW frame \in Frames(S, T),
           frame.bsp = Len(st), frame.snapshot = SubSeq(st, 1, frame.bsp)
    PROVE  Disciplined(st, Append(ch, frame))
<1> DEFINE new == Append(ch, frame)
<1>1. PICK S1, T1 : ch \in Seq(Frames(S1, T1))
    BY DEF Disciplined, AreFrames
<1>2. ch \in Seq(Frames(S \cup S1, T \cup T1)) /\ frame \in Frames(S \cup S1, T \cup T1)
    <2>1. Frames(S1, T1) \subseteq Frames(S \cup S1, T \cup T1)
        BY DEF Frames
    <2>2. frame \in Frames(S \cup S1, T \cup T1)
        BY DEF Frames
    <2> QED
        BY <1>1, <2>1, <2>2, SeqMonotonic
<1>3. /\ new \in Seq(Frames(S \cup S1, T \cup T1))
      /\ Len(new) = Len(ch) + 1
      /\ \A i \in 1 .. Len(ch) : new[i] = ch[i]
      /\ new[Len(ch) + 1] = frame
    BY <1>2, AppendProperties
<1>4. /\ Len(ch) \in Nat /\ DOMAIN ch = 1 .. Len(ch)
      /\ \A i \in DOMAIN ch : ch[i].bsp \in Nat
    BY <1>2, FramesTyped
<1>5. DOMAIN new = 1 .. Len(ch) + 1
    BY <1>3, LenProperties
<1>6. Intact(st, new)
    <2>1. Len(st) \in Nat
        BY LenProperties DEF Disciplined, IsSequence
    <2> QED
        BY <1>3, <1>4, <1>5, <2>1 DEF Disciplined, Intact
<1>7. Ordered(new)
    BY <1>3, <1>4, <1>5 DEF Disciplined, Ordered, Intact
<1> QED
    BY <1>3, <1>6, <1>7 DEF Disciplined, AreFrames

-----------------------------------------------------------------------------
(* The machine.                                                            *)

LEMMA InitDiscipline == Init => StackDiscipline
<1> SUFFICES ASSUME Init PROVE StackDiscipline
    OBVIOUS
<1>1. stack = <<>> /\ choices = <<>> /\ DOMAIN choices = {}
    BY DEF Init
<1>2. stack \in Seq({}) /\ choices \in Seq(Frames({}, {}))
    BY <1>1
<1> QED
    BY <1>1, <1>2
    DEF StackDiscipline, Disciplined, IsSequence, AreFrames, Ordered, Intact

LEMMA TellKeeps ==
    ASSUME StackDiscipline, NEW c, NEW rest, Tell(c, rest)
    PROVE  StackDiscipline'
<1>1. CASE Query(States(stack), c).ok
    <2>1. choices' = choices /\ stack' = stack \o Query(States(stack), c).push
        BY <1>1 DEF Tell
    <2> QED
        BY <2>1, QueryPushes, PushingKeeps DEF StackDiscipline, Pushes
<1>2. CASE ~Query(States(stack), c).ok
    BY <1>2 DEF Tell, StackDiscipline
<1> QED
    BY <1>1, <1>2

LEMMA PushChoiceKeeps ==
    ASSUME StackDiscipline, NEW n \in {0, 2}, PushChoice(n)
    PROVE  StackDiscipline'
<1> DEFINE frame == [bsp |-> Len(stack), alternatives |-> n,
                     snapshot |-> stack, told |-> told]
<1>1. choices' = Append(choices, frame) /\ stack' = stack
    BY DEF PushChoice
<1>2. PICK S : stack \in Seq(S)
    BY DEF StackDiscipline, Disciplined, IsSequence
<1>3. Len(stack) \in Nat /\ SubSeq(stack, 1, Len(stack)) = stack
    BY <1>2, LenProperties, SubSeqFull
<1>4. frame \in Frames({stack}, {told})
    BY <1>3 DEF Frames
<1> QED
    BY <1>1, <1>3, <1>4, ChoosingKeeps DEF StackDiscipline

LEMMA CutKeeps ==
    ASSUME StackDiscipline, NEW i \in 0 .. Len(choices), Cut(i)
    PROVE  StackDiscipline'
<1>1. PICK S, T : stack \in Seq(S) /\ choices \in Seq(Frames(S, T))
    <2>1. PICK S1 : stack \in Seq(S1)
        BY DEF StackDiscipline, Disciplined, IsSequence
    <2>2. PICK S2, T : choices \in Seq(Frames(S2, T))
        BY DEF StackDiscipline, Disciplined, AreFrames
    <2>3. stack \in Seq(S1 \cup S2)
        BY <2>1, SeqMonotonic
    <2>4. Frames(S2, T) \subseteq Frames(S1 \cup S2, T)
        BY DEF Frames
    <2> QED
        BY <2>2, <2>3, <2>4, SeqMonotonic
<1>2. Len(stack) \in Nat /\ SubSeq(stack, 1, Len(stack)) = stack
    BY <1>1, LenProperties, SubSeqFull
<1>3. Len(choices) \in Nat /\ DOMAIN choices = 1 .. Len(choices)
    BY <1>1, LenProperties
<1>4. \A k \in 1 .. i : choices[k].bsp <= Len(stack)
    BY <1>3 DEF StackDiscipline, Disciplined, Intact
<1>5. Disciplined(SubSeq(stack, 1, Len(stack)), SubSeq(choices, 1, i))
    BY <1>2, <1>4, TruncatingKeeps DEF StackDiscipline
<1> QED
    BY <1>2, <1>5 DEF Cut, StackDiscipline

LEMMA BacktrackKeeps ==
    ASSUME StackDiscipline, Backtrack
    PROVE  StackDiscipline'
<1>1. PICK S, T : choices \in Seq(Frames(S, T))
    BY DEF StackDiscipline, Disciplined, AreFrames
<1>2. /\ Len(choices) \in Nat /\ DOMAIN choices = 1 .. Len(choices)
      /\ \A i \in DOMAIN choices :
            choices[i] \in Frames(S, T) /\ choices[i].bsp \in Nat
    BY <1>1, FramesTyped
<1>3. Len(stack) \in Nat
    BY LenProperties DEF StackDiscipline, Disciplined, IsSequence
<1>4. \A i \in DOMAIN choices : choices[i].bsp \in 0 .. Len(stack)
    BY <1>2, <1>3 DEF StackDiscipline, Disciplined, Intact
<1>5. CASE Exhausted
    <2>1. SubSeq(choices, 1, 0) = <<>>
        BY SubSeqEmpty
    <2>2. CASE choices = <<>>
        BY <1>5, <2>2 DEF Exhausted, StackDiscipline
    <2>3. CASE choices # <<>>
        <3>1. 1 \in DOMAIN choices
            BY <1>1, <1>2, <2>3
        <3>2. Disciplined(SubSeq(stack, 1, choices[1].bsp), SubSeq(choices, 1, 0))
            BY <1>2, <1>4, <3>1, TruncatingKeeps DEF StackDiscipline
        <3> QED
            BY <1>5, <2>1, <2>3, <3>2 DEF Exhausted, StackDiscipline
    <2> QED
        BY <2>2, <2>3
<1>6. ASSUME NEW top \in Open, Resume(choices[top], SubSeq(choices, 1, top - 1))
      PROVE  StackDiscipline'
    <2> DEFINE bsp == choices[top].bsp
               frame == [choices[top] EXCEPT !.alternatives = @ - 1]
    <2>1. top \in 1 .. Len(choices) /\ choices[top].alternatives \in Nat \ {0}
        BY <1>2 DEF Open, Frames
    <2>2. \A i \in 1 .. top - 1 : choices[i].bsp <= bsp
        BY <1>2, <2>1 DEF StackDiscipline, Disciplined, Ordered
    <2>3. /\ Disciplined(SubSeq(stack, 1, bsp), SubSeq(choices, 1, top - 1))
          /\ Len(SubSeq(stack, 1, bsp)) = bsp
        <3>1. top - 1 \in 0 .. Len(choices) /\ bsp \in 0 .. Len(stack)
            BY <1>2, <1>4, <2>1
        <3> HIDE DEF bsp
        <3> QED
            BY <2>2, <3>1, TruncatingKeeps DEF StackDiscipline
    <2>4. CASE choices[top].alternatives = 1
        BY <1>6, <2>3, <2>4 DEF Resume, StackDiscipline
    <2>5. CASE choices[top].alternatives # 1
        <3>1. frame \in Frames(S, T) /\ frame.bsp = bsp
              /\ frame.snapshot = choices[top].snapshot
            BY <1>2, <2>1 DEF Frames
        <3>2. choices[top].snapshot = SubSeq(stack, 1, bsp)
            BY <1>2, <2>1 DEF StackDiscipline, Disciplined, Intact
        <3>3. SubSeq(SubSeq(stack, 1, bsp), 1, bsp) = SubSeq(stack, 1, bsp)
            BY <1>2, <1>4, <2>1, TruncateKeepsBelow
            DEF StackDiscipline, Disciplined
        <3>4. Disciplined(SubSeq(stack, 1, bsp),
                          Append(SubSeq(choices, 1, top - 1), frame))
            BY <2>3, <3>1, <3>2, <3>3, ChoosingKeeps
        <3> QED
            BY <1>6, <2>5, <3>4 DEF Resume, StackDiscipline
    <2> QED
        BY <2>4, <2>5
<1> QED
    BY <1>5, <1>6 DEF Backtrack

\* Backtracking restores the very stack a choice was made with
\* (BindingManager::backtrack), for every policy: whatever was bound, cut or
\* rolled back since, the entries below its stack pointer are the same.
THEOREM BacktrackRestores == Spec => []SnapshotsIntact
<1>1. Init => StackDiscipline
    BY InitDiscipline
<1>2. StackDiscipline /\ [Next]_vars => StackDiscipline'
    <2> SUFFICES ASSUME StackDiscipline, [Next]_vars PROVE StackDiscipline'
        OBVIOUS
    <2>1. ASSUME NEW c \in Goals, StateGoal(c) PROVE StackDiscipline'
        BY <2>1, TellKeeps DEF StateGoal
    <2>2. CASE Requery
        BY <2>2, TellKeeps DEF Requery
    <2>3. ASSUME NEW n \in {0, 2}, PushChoice(n) PROVE StackDiscipline'
        BY <2>3, PushChoiceKeeps
    <2>4. ASSUME NEW i \in 0 .. Len(choices), Cut(i) PROVE StackDiscipline'
        BY <2>4, CutKeeps
    <2>5. CASE Backtrack
        BY <2>5, BacktrackKeeps
    <2>6. CASE UNCHANGED vars
        BY <2>6 DEF vars, StackDiscipline
    <2> QED
        BY <2>1, <2>2, <2>3, <2>4, <2>5, <2>6 DEF Next
<1>3. StackDiscipline => SnapshotsIntact
    BY DEF StackDiscipline, Disciplined, Intact, SnapshotsIntact
<1> QED
    BY <1>1, <1>2, <1>3, PTL DEF Spec

-----------------------------------------------------------------------------
(* Queries without partials: what a stack of equations looks like.  Only   *)
(* the latest entry of a variable counts, so a stack is seen as a graph,   *)
(* the function from variables to the values of their latest entries.      *)

PlainEntry == [var : Var, val : Operand]

Graph(st) ==
    [v \in {u \in Var : Latest(st, u) # {}} |->
        st[CHOOSE i \in Latest(st, v) : TRUE].val]

IsGraph(g) ==
    /\ DOMAIN g \subseteq Var
    /\ g = [v \in DOMAIN g |-> g[v]]
    /\ \A v \in DOMAIN g : g[v] \in Operand

With(g, v, val) == [u \in DOMAIN g \cup {v} |-> IF u = v THEN val ELSE g[u]]

\* A walk along the entries.
IsTrail(g, p) ==
    /\ p \in Paths
    /\ \A n \in 1 .. Len(p) - 1 :
            p[n] \in DOMAIN g /\ g[p[n]] = VarT(p[n + 1])

\* One that comes back to its beginning, or a variable without an entry.
IsLoop(g, p) ==
    /\ IsTrail(g, p)
    /\ \/ p[Len(p)] \in DOMAIN g /\ g[p[Len(p)]] = VarT(p[1])
       \/ p[Len(p)] \notin DOMAIN g /\ Len(p) = 1

\* One that comes to a value.
IsChain(g, p) ==
    /\ IsTrail(g, p)
    /\ p[Len(p)] \in DOMAIN g
    /\ g[p[Len(p)]].tag = "const"

\* Nothing hangs: a variable with an entry leads to a value or round a cycle.
WellFormed(g) ==
    /\ IsGraph(g)
    /\ \A v \in DOMAIN g : g[v].tag = "var" => g[v].v \in DOMAIN g
    /\ \A v \in Var : \E p : p[1] = v /\ (IsLoop(g, p) \/ IsChain(g, p))

-----------------------------------------------------------------------------
(* Paths.                                                                  *)

LEMMA HasLeast ==
    ASSUME NEW T \in SUBSET Nat, T # {}
    PROVE  \E i \in T : \A j \in T : i <= j
<1>1. PICK i \in T : \A j \in T : <<j, i>> \notin OpToRel(<, Nat)
    BY NatLessThanWellFounded, WFMin
<1>2. ASSUME NEW j \in T PROVE i <= j
    <2>1. <<j, i>> \notin OpToRel(<, Nat) /\ <<j, i>> \in Nat \X Nat
        BY <1>1
    <2>2. ~(j < i)
        BY <2>1 DEF OpToRel
    <2> QED
        BY <2>2
<1> QED
    BY <1>2

\* What each step keeps is kept along the way.
LEMMA KeptAlong ==
    ASSUME NEW f, NEW a \in Nat, NEW b \in Nat,
           \A i \in a .. b - 1 : f[i] = f[i + 1]
    PROVE  \A i \in a .. b : f[i] = f[a]
<1> DEFINE T == {i \in a .. b : f[i] # f[a]}
<1> SUFFICES ASSUME T # {} PROVE FALSE
    OBVIOUS
<1>1. PICK i \in T : \A j \in T : i <= j
    <2>1. T \in SUBSET Nat
        OBVIOUS
    <2> QED
        BY ONLY T # {}, <2>1, HasLeast
<1>2. i \in a .. b /\ f[i] # f[a] /\ i # a
    BY <1>1
<1>3. i - 1 \in a .. b - 1 /\ i - 1 \in a .. b /\ i - 1 + 1 = i /\ ~(i <= i - 1)
    BY <1>2
<1>4. f[i - 1] = f[a]
    BY <1>1, <1>3
<1>5. f[i - 1] = f[i]
    BY <1>3
<1> QED
    BY <1>2, <1>4, <1>5

LEMMA PathFacts ==
    ASSUME NEW p \in Paths
    PROVE  /\ Len(p) \in Nat \ {0}
           /\ p \in [1 .. Len(p) -> Var]
           /\ p \in Seq(Var)
           /\ \A i, j \in 1 .. Len(p) : p[i] = p[j] => i = j
<1>1. Cardinality(Var) \in Nat
    BY BindingsAssumption, FS_CardinalityType DEF BindingsAssumption
<1>2. PICK n \in 1 .. Cardinality(Var) : p \in [1 .. n -> Var]
    BY DEF Paths
<1>3. IsInjective(p)
    BY DEF Paths
<1>4. n \in Nat \ {0}
    BY <1>1, <1>2
<1>5. p \in Seq(Var)
    BY <1>2, <1>4, SeqDef
<1>6. Len(p) = n
    BY <1>2, <1>4, <1>5, LenProperties
<1> QED
    BY <1>2, <1>3, <1>4, <1>5, <1>6 DEF IsInjective

\* There are no more variables than there are: a walk that repeats none is
\* among the paths.
LEMMA IsPath ==
    ASSUME NEW n \in Nat \ {0}, NEW p \in [1 .. n -> Var],
           \A i, j \in 1 .. n : p[i] = p[j] => i = j
    PROVE  p \in Paths /\ Len(p) = n
<1>1. IsInjective(p)
    BY DEF IsInjective
<1>2. p \in Injection(1 .. n, Var)
    BY <1>1 DEF Injection
<1>3. Cardinality(1 .. n) <= Cardinality(Var)
    BY <1>2, FS_Injection, BindingsAssumption DEF BindingsAssumption
<1>4. Cardinality(1 .. n) = n
    BY FS_Interval
<1>5. Cardinality(Var) \in Nat
    BY BindingsAssumption, FS_CardinalityType DEF BindingsAssumption
<1>6. n \in 1 .. Cardinality(Var)
    BY <1>3, <1>4, <1>5
<1>7. p \in Paths
    BY <1>1, <1>6 DEF Paths
<1>8. p \in Seq(Var)
    BY SeqDef
<1> QED
    BY <1>7, <1>8, LenProperties

\* The beginning of a trail is one.
LEMMA Beginning ==
    ASSUME NEW g, NEW p, IsTrail(g, p), NEW k \in 1 .. Len(p)
    PROVE  \E q : /\ q \in Paths /\ Len(q) = k /\ IsTrail(g, q)
                  /\ \A i \in 1 .. k : q[i] = p[i]
<1> DEFINE q == [i \in 1 .. k |-> p[i]]
<1>1. /\ Len(p) \in Nat \ {0}
      /\ p \in [1 .. Len(p) -> Var]
      /\ \A i, j \in 1 .. Len(p) : p[i] = p[j] => i = j
    BY PathFacts DEF IsTrail
<1>2. k \in Nat \ {0} /\ q \in [1 .. k -> Var]
    BY <1>1
<1>3. \A i, j \in 1 .. k : q[i] = q[j] => i = j
    BY <1>1
<1>4. q \in Paths /\ Len(q) = k
    BY ONLY <1>2, <1>3, IsPath
<1>5. \A n \in 1 .. k - 1 : q[n] = p[n] /\ q[n + 1] = p[n + 1] /\ n \in 1 .. Len(p) - 1
    BY <1>1
<1>6. IsTrail(g, q)
    BY <1>4, <1>5 DEF IsTrail
<1> QED
    BY <1>4, <1>6

-----------------------------------------------------------------------------
(* The graph of a stack.                                                   *)

LEMMA LatestIsOne ==
    ASSUME NEW S, NEW st \in Seq(S), NEW v,
           NEW i \in Latest(st, v), NEW j \in Latest(st, v)
    PROVE  i = j
<1>1. Len(st) \in Nat /\ DOMAIN st = 1 .. Len(st)
    BY LenProperties
<1> QED
    BY <1>1 DEF Latest

LEMMA LatestTyped ==
    ASSUME NEW S, NEW st \in Seq(S), NEW v, NEW i \in Latest(st, v)
    PROVE  i \in 1 .. Len(st) /\ st[i] \in S /\ st[i].var = v
<1>1. Len(st) \in Nat /\ DOMAIN st = 1 .. Len(st)
    BY LenProperties
<1> QED
    BY <1>1, ElementOfSeq DEF Latest

LEMMA GraphIs ==
    ASSUME NEW st \in Seq(PlainEntry)
    PROVE  /\ IsGraph(Graph(st))
           /\ \A v \in Var : v \in DOMAIN Graph(st) <=> Latest(st, v) # {}
           /\ \A v \in Var : \A i \in Latest(st, v) : Graph(st)[v] = st[i].val
<1> DEFINE g == Graph(st)
<1>1. \A v \in Var : v \in DOMAIN g <=> Latest(st, v) # {}
    BY DEF Graph
<1>2. ASSUME NEW v \in Var, NEW i \in Latest(st, v)
      PROVE  g[v] = st[i].val
    <2>1. (CHOOSE j \in Latest(st, v) : TRUE) \in Latest(st, v)
        BY <1>2
    <2>2. (CHOOSE j \in Latest(st, v) : TRUE) = i
        BY <2>1, LatestIsOne
    <2>3. g[v] = st[CHOOSE j \in Latest(st, v) : TRUE].val
        BY DEF Graph
    <2> QED
        BY <2>2, <2>3
<1>3. DOMAIN g \subseteq Var /\ g = [v \in DOMAIN g |-> g[v]]
    BY DEF Graph
<1>4. ASSUME NEW v \in DOMAIN g PROVE g[v] \in Operand
    <2>1. v \in Var
        BY <1>3
    <2>2. PICK i : i \in Latest(st, v)
        BY <1>1, <2>1
    <2>3. st[i] \in PlainEntry
        BY <2>2, LatestTyped
    <2> QED
        BY <1>2, <2>1, <2>2, <2>3 DEF PlainEntry
<1> HIDE DEF g
<1>5. IsGraph(g)
    BY <1>3, <1>4 DEF IsGraph
<1> QED
    BY <1>1, <1>2, <1>5 DEF g

LEMMA OneMore ==
    ASSUME NEW st \in Seq(PlainEntry), NEW e \in PlainEntry
    PROVE  /\ st \o <<e>> \in Seq(PlainEntry)
           /\ Len(st \o <<e>>) = Len(st) + 1
           /\ \A i \in 1 .. Len(st) : (st \o <<e>>)[i] = st[i]
           /\ (st \o <<e>>)[Len(st) + 1] = e
<1>1. <<e>> \in Seq(PlainEntry) /\ Len(<<e>>) = 1 /\ <<e>>[1] = e
    OBVIOUS
<1>2. Len(st) \in Nat
    BY LenProperties
<1> QED
    BY <1>1, <1>2, ConcatProperties

\* An entry that is pushed counts from then on, and no other changes.
LEMMA LatestAfter ==
    ASSUME NEW st \in Seq(PlainEntry), NEW e \in PlainEntry, NEW v
    PROVE  Latest(st \o <<e>>, v) =
               IF v = e.var THEN {Len(st) + 1} ELSE Latest(st, v)
<1> DEFINE new == st \o <<e>>
<1>1. Len(st) \in Nat /\ DOMAIN st = 1 .. Len(st)
    BY LenProperties
<1>2. /\ Len(new) = Len(st) + 1
      /\ \A i \in 1 .. Len(st) : new[i] = st[i]
      /\ new[Len(st) + 1] = e
    BY OneMore
<1>3. DOMAIN new = 1 .. Len(st) + 1
    BY <1>2, OneMore, LenProperties
<1> HIDE DEF new
<1>4. Latest(new, v) = IF v = e.var THEN {Len(st) + 1} ELSE Latest(st, v)
    <2>1. CASE v = e.var
        <3>1. \A i \in Latest(new, v) : i = Len(st) + 1
            BY <1>1, <1>2, <1>3, <2>1 DEF Latest
        <3>2. Len(st) + 1 \in Latest(new, v)
            BY <1>1, <1>2, <1>3, <2>1 DEF Latest
        <3> QED
            BY <2>1, <3>1, <3>2
    <2>2. CASE v # e.var
        <3>1. ASSUME NEW i \in Latest(new, v) PROVE i \in Latest(st, v)
            BY <1>1, <1>2, <1>3, <2>2, <3>1 DEF Latest
        <3>2. ASSUME NEW i \in Latest(st, v) PROVE i \in Latest(new, v)
            <4>1. i \in 1 .. Len(st) + 1 /\ new[i].var = v
                BY <1>1, <1>2, <3>2 DEF Latest
            <4>2. ASSUME NEW j \in i + 1 .. Len(new) PROVE new[j].var # v
                <5>1. CASE j = Len(st) + 1
                    BY <1>2, <2>2, <5>1
                <5>2. CASE j # Len(st) + 1
                    <6>1. j \in 1 .. Len(st) /\ j \in i + 1 .. Len(st)
                        BY <1>1, <1>2, <4>1, <5>2
                    <6> QED
                        BY <1>2, <3>2, <6>1 DEF Latest
                <5> QED
                    BY <5>1, <5>2
            <4> QED
                BY <1>3, <4>1, <4>2 DEF Latest
        <3> QED
            BY <2>2, <3>1, <3>2
    <2> QED
        BY <2>1, <2>2
<1> QED
    BY <1>4 DEF new

LEMMA GraphAfter ==
    ASSUME NEW st \in Seq(PlainEntry), NEW e \in PlainEntry
    PROVE  Graph(st \o <<e>>) = With(Graph(st), e.var, e.val)
<1> DEFINE new == st \o <<e>>
           g == Graph(st)
           h == Graph(new)
           w == With(g, e.var, e.val)
<1>1. /\ new \in Seq(PlainEntry)
      /\ \A i \in 1 .. Len(st) : new[i] = st[i]
      /\ new[Len(st) + 1] = e
    BY OneMore
<1>2. \A v : Latest(new, v) = IF v = e.var THEN {Len(st) + 1} ELSE Latest(st, v)
    BY LatestAfter
<1>3. /\ IsGraph(g)
      /\ \A v \in Var : v \in DOMAIN g <=> Latest(st, v) # {}
      /\ \A v \in Var : \A i \in Latest(st, v) : g[v] = st[i].val
    BY GraphIs
<1> HIDE DEF new, g
<1>4. /\ IsGraph(h)
      /\ \A v \in Var : v \in DOMAIN h <=> Latest(new, v) # {}
      /\ \A v \in Var : \A i \in Latest(new, v) : h[v] = new[i].val
    BY <1>1, GraphIs
<1> HIDE DEF h
<1>5. e.var \in Var
    BY DEF PlainEntry
<1>6. DOMAIN w = DOMAIN g \cup {e.var} /\ w = [v \in DOMAIN w |-> w[v]]
    BY DEF With
<1>7. DOMAIN h = DOMAIN w
    BY <1>2, <1>3, <1>4, <1>5, <1>6 DEF IsGraph
<1>8. ASSUME NEW v \in DOMAIN h PROVE h[v] = w[v]
    <2>1. v \in Var
        BY <1>4 DEF IsGraph
    <2>2. CASE v = e.var
        <3>1. Len(st) + 1 \in Latest(new, v)
            BY <1>2, <2>2
        <3>2. h[v] = e.val
            BY <1>1, <1>4, <2>1, <3>1
        <3> QED
            BY <1>7, <1>8, <2>2, <3>2 DEF With
    <2>3. CASE v # e.var
        <3>1. PICK i : i \in Latest(st, v) /\ i \in Latest(new, v)
            BY <1>2, <1>4, <2>1, <2>3
        <3>2. i \in 1 .. Len(st)
            BY <3>1, LatestTyped
        <3>3. h[v] = g[v]
            BY <1>1, <1>3, <1>4, <2>1, <3>1, <3>2
        <3> QED
            BY <1>7, <1>8, <2>3, <3>3 DEF With
    <2> QED
        BY <2>2, <2>3
<1> HIDE DEF w
<1>9. h = [v \in DOMAIN h |-> h[v]]
    BY <1>4 DEF IsGraph
<1>10. h = w
    BY <1>6, <1>7, <1>8, <1>9
<1> QED
    BY <1>10 DEF h, w, g, new

\* The walks of a variable, seen in the graph.
LEMMA WalksAre ==
    ASSUME NEW st \in Seq(PlainEntry), NEW v \in Var, NEW p
    PROVE  LET g == Graph(st) IN
           p \in Walks(st, v) <=>
               /\ IsTrail(g, p)
               /\ p[1] = v
               /\ p[Len(p)] \in DOMAIN g /\ g[p[Len(p)]].tag = "var"
                    => g[p[Len(p)]].v = v
<1> DEFINE g == Graph(st)
<1>1. SUFFICES ASSUME p \in Paths
      PROVE  p \in Walks(st, v) <=>
               /\ IsTrail(g, p)
               /\ p[1] = v
               /\ p[Len(p)] \in DOMAIN g /\ g[p[Len(p)]].tag = "var"
                    => g[p[Len(p)]].v = v
    BY DEF Walks, IsTrail
<1>2. /\ \A u \in Var : u \in DOMAIN g <=> Latest(st, u) # {}
      /\ \A u \in Var : \A i \in Latest(st, u) : g[u] = st[i].val
    BY GraphIs
<1> HIDE DEF g
<1>3. Len(p) \in Nat \ {0} /\ p \in [1 .. Len(p) -> Var]
    BY <1>1, PathFacts
<1>4. Follows(st, p) <=> IsTrail(g, p)
    <2>1. ASSUME NEW n \in 1 .. Len(p) - 1
          PROVE  (\E i \in Latest(st, p[n]) : st[i].val = VarT(p[n + 1]))
                 <=> p[n] \in DOMAIN g /\ g[p[n]] = VarT(p[n + 1])
        <3>1. p[n] \in Var
            BY <1>3
        <3> QED
            BY <1>2, <3>1
    <2> QED
        BY <1>1, <2>1 DEF Follows, IsTrail
<1>5. Stops(st, p) <=>
        (p[Len(p)] \in DOMAIN g /\ g[p[Len(p)]].tag = "var" => g[p[Len(p)]].v = p[1])
    <2>1. p[Len(p)] \in Var
        BY <1>3
    <2> QED
        BY <1>2, <2>1 DEF Stops
<1> QED
    BY <1>1, <1>4, <1>5 DEF Walks

LEMMA OperandIs ==
    ASSUME NEW t \in Operand
    PROVE  \/ t.tag = "var" /\ t.v \in Var /\ t = VarT(t.v)
           \/ t.tag = "const" /\ t.v \in Const /\ t = ConstT(t.v)
BY DEF Operand, VarT, ConstT

LEMMA AtLeastTwo ==
    ASSUME NEW n \in Nat \ {0}, n # 1
    PROVE  /\ n - 1 \in 1 .. n - 1 /\ n - 1 + 1 = n
           /\ 1 \in 1 .. n - 1 /\ 1 \in 1 .. n /\ n \in 1 .. n /\ n \in 2 .. n
OBVIOUS

\* The assignments a graph allows.
Models(g) ==
    {m \in Assignments : \A v \in DOMAIN g : m[v] = Eval(m, g[v])}

LEMMA MeaningIs ==
    ASSUME NEW st \in Seq(PlainEntry)
    PROVE  Meaning(st) = Models(Graph(st))
<1> DEFINE g == Graph(st)
<1>1. /\ IsGraph(g)
      /\ \A u \in Var : u \in DOMAIN g <=> Latest(st, u) # {}
      /\ \A u \in Var : \A i \in Latest(st, u) : g[u] = st[i].val
    BY GraphIs
<1> HIDE DEF g
<1>2. ASSUME NEW m \in Assignments, NEW v \in Var
      PROVE  Fits(st, m, v) <=> (v \in DOMAIN g => m[v] = Eval(m, g[v]))
    <2>1. ASSUME NEW i \in Latest(st, v)
          PROVE  /\ st[i].val.tag # "partial"
                 /\ st[i].val = g[v]
        <3>1. st[i] \in PlainEntry
            BY ONLY st \in Seq(PlainEntry), i \in Latest(st, v), LatestTyped
        <3>2. st[i].val \in Operand
            BY <3>1 DEF PlainEntry
        <3> QED
            BY <1>1, <3>2, OperandIs
    <2>2. Fits(st, m, v) <=> \A i \in Latest(st, v) : m[v] = Eval(m, g[v])
        BY <2>1 DEF Fits
    <2> QED
        BY <1>1, <2>2
<1>3. Meaning(st) = {m \in Assignments : \A v \in Var : v \in DOMAIN g => m[v] = Eval(m, g[v])}
    BY <1>2 DEF Meaning
<1>4. DOMAIN g \subseteq Var
    BY <1>1 DEF IsGraph
<1> QED
    BY <1>3, <1>4 DEF Models, g

\* In a well formed graph a walk ends at a value, comes back to its beginning,
\* or is that of a variable without an entry.
LEMMA TrailEnds ==
    ASSUME NEW g, WellFormed(g), NEW p, IsTrail(g, p),
           p[Len(p)] \in DOMAIN g /\ g[p[Len(p)]].tag = "var"
                => g[p[Len(p)]].v = p[1]
    PROVE  \/ p[Len(p)] \notin DOMAIN g /\ Len(p) = 1 /\ IsLoop(g, p)
           \/ p[Len(p)] \in DOMAIN g /\ g[p[Len(p)]].tag = "var" /\ IsLoop(g, p)
           \/ p[Len(p)] \in DOMAIN g /\ IsChain(g, p)
<1>1. Len(p) \in Nat \ {0}
    BY PathFacts DEF IsTrail
<1>2. CASE p[Len(p)] \notin DOMAIN g
    <2>1. Len(p) = 1
        <3> SUFFICES ASSUME Len(p) # 1 PROVE FALSE
            OBVIOUS
        <3>1. Len(p) - 1 \in 1 .. Len(p) - 1 /\ Len(p) - 1 + 1 = Len(p)
            BY ONLY <1>1, Len(p) # 1, AtLeastTwo
        <3>2. p[Len(p) - 1] \in DOMAIN g /\ g[p[Len(p) - 1]] = VarT(p[Len(p)])
            BY <3>1 DEF IsTrail
        <3>3. VarT(p[Len(p)]).tag = "var" /\ VarT(p[Len(p)]).v = p[Len(p)]
            BY DEF VarT
        <3> QED
            BY <1>2, <3>2, <3>3 DEF WellFormed
    <2> QED
        BY <1>2, <2>1 DEF IsLoop
<1>3. CASE p[Len(p)] \in DOMAIN g
    <2>1. g[p[Len(p)]] \in Operand
        BY <1>3 DEF WellFormed, IsGraph
    <2>2. CASE g[p[Len(p)]].tag = "var"
        <3>1. g[p[Len(p)]] = VarT(p[1])
            BY <1>3, <2>1, <2>2, OperandIs
        <3> QED
            BY <1>3, <2>2, <3>1 DEF IsLoop
    <2>3. CASE g[p[Len(p)]].tag = "const"
        BY <1>3, <2>3 DEF IsChain
    <2> QED
        BY <2>1, <2>2, <2>3, OperandIs
<1> QED
    BY <1>2, <1>3

LEMMA WalkOf ==
    ASSUME NEW st \in Seq(PlainEntry), WellFormed(Graph(st)), NEW v \in Var
    PROVE  \E p : p \in Walks(st, v)
<1>1. PICK p : p[1] = v /\ (IsLoop(Graph(st), p) \/ IsChain(Graph(st), p))
    BY DEF WellFormed
<1>2. IsTrail(Graph(st), p)
    BY <1>1 DEF IsLoop, IsChain
<1>3. ASSUME p[Len(p)] \in DOMAIN Graph(st), Graph(st)[p[Len(p)]].tag = "var"
      PROVE  Graph(st)[p[Len(p)]].v = v
    <2>1. ~IsChain(Graph(st), p)
        BY <1>3 DEF IsChain
    <2>2. Graph(st)[p[Len(p)]] = VarT(v)
        BY <1>1, <1>3, <2>1 DEF IsLoop
    <2> QED
        BY <2>2 DEF VarT
<1>4. p \in Walks(st, v)
    BY <1>1, <1>2, <1>3, WalksAre
<1> QED
    BY <1>4

IsUnbound(g, v, s) ==
    s.kind = "Unbound" /\ v \notin DOMAIN g /\ s.path[1] = v /\ IsLoop(g, s.path)

IsOnCycle(g, v, s) ==
    s.kind = "Cycle" /\ v \in DOMAIN g /\ s.path[1] = v /\ IsLoop(g, s.path)

IsBound(g, v, s) ==
    /\ s.kind = "Bound" /\ s.path[1] = v /\ IsChain(g, s.path)
    /\ s.val = g[s.path[Len(s.path)]]

\* What variable_state_at_point says of a variable.
LEMMA StateIs ==
    ASSUME NEW st \in Seq(PlainEntry), WellFormed(Graph(st)), NEW v \in Var
    PROVE  \/ IsUnbound(Graph(st), v, VariableState(st, v))
           \/ IsOnCycle(Graph(st), v, VariableState(st, v))
           \/ IsBound(Graph(st), v, VariableState(st, v))
<1> DEFINE g == Graph(st)
           s == VariableState(st, v)
           path == CHOOSE p \in Walks(st, v) : TRUE
           latest == Latest(st, path[Len(path)])
           val == st[CHOOSE i \in latest : TRUE].val
<1>1. path \in Walks(st, v)
    BY WalkOf
<1>2. /\ IsTrail(g, path)
      /\ path[1] = v
      /\ path[Len(path)] \in DOMAIN g /\ g[path[Len(path)]].tag = "var"
           => g[path[Len(path)]].v = path[1]
    BY <1>1, WalksAre
<1>3. path[Len(path)] \in Var
    BY <1>2, PathFacts DEF IsTrail
<1>4. path[Len(path)] \in DOMAIN g <=> latest # {}
    BY <1>3, GraphIs
<1>5. \/ path[Len(path)] \notin DOMAIN g /\ Len(path) = 1 /\ IsLoop(g, path)
      \/ path[Len(path)] \in DOMAIN g /\ g[path[Len(path)]].tag = "var" /\ IsLoop(g, path)
      \/ path[Len(path)] \in DOMAIN g /\ IsChain(g, path)
    BY <1>2, TrailEnds
<1>6. s = IF latest = {}
          THEN [kind |-> "Unbound", path |-> path]
          ELSE [kind |-> CASE val.tag = "const" -> "Bound"
                           [] val.tag = "partial" -> "Partial"
                           [] OTHER -> "Cycle",
                path |-> path,
                val |-> val]
    BY <1>1 DEF VariableState, Ends
<1>7. ASSUME latest # {} PROVE val = g[path[Len(path)]]
    <2>1. (CHOOSE i \in latest : TRUE) \in latest
        BY <1>7
    <2> QED
        BY <1>3, <2>1, GraphIs
<1> HIDE DEF g, s, path, latest, val
<1>8. CASE latest = {}
    <2>1. s.kind = "Unbound" /\ s.path = path
        BY <1>6, <1>8
    <2>2. v \notin DOMAIN g /\ IsLoop(g, path)
        BY <1>2, <1>4, <1>5, <1>8
    <2>3. IsUnbound(g, v, s)
        BY <1>2, <2>1, <2>2 DEF IsUnbound
    <2> QED
        BY <2>3 DEF g, s
<1>9. CASE latest # {} /\ val.tag = "const"
    <2>1. s.kind = "Bound" /\ s.path = path /\ s.val = val
        BY <1>6, <1>9
    <2>2. IsChain(g, path)
        BY <1>4, <1>5, <1>7, <1>9
    <2>3. IsBound(g, v, s)
        BY <1>2, <1>7, <1>9, <2>1, <2>2 DEF IsBound
    <2> QED
        BY <2>3 DEF g, s
<1>10. CASE latest # {} /\ val.tag # "const"
    <2>1. val.tag = "var"
        <3>1. IsTrail(g, path) /\ WellFormed(g)
            BY <1>2 DEF g
        <3> QED
            BY <1>4, <1>7, <1>10, <3>1, OperandIs DEF WellFormed, IsGraph
    <2>2. s.kind = "Cycle" /\ s.path = path
        BY <1>6, <1>10, <2>1
    <2>3. IsLoop(g, path) /\ path[Len(path)] \in DOMAIN g
        BY <1>4, <1>5, <1>7, <1>10 DEF IsChain
    <2>4. v \in DOMAIN g
        <3>1. Len(path) \in Nat \ {0}
            BY <1>2, PathFacts DEF IsTrail
        <3>2. CASE Len(path) = 1
            BY <1>2, <2>3, <3>2
        <3>3. CASE Len(path) # 1
            <4>1. 1 \in 1 .. Len(path) - 1
                BY ONLY <3>1, <3>3, AtLeastTwo
            <4> QED
                BY <1>2, <4>1 DEF IsTrail
        <3> QED
            BY <3>2, <3>3
    <2>5. IsOnCycle(g, v, s)
        BY <1>2, <2>2, <2>3, <2>4 DEF IsOnCycle
    <2> QED
        BY <2>5 DEF g, s
<1> QED
    BY <1>8, <1>9, <1>10

-----------------------------------------------------------------------------
(* Pushing an entry keeps the graph well formed.                           *)

Members(p) == {p[i] : i \in 1 .. Len(p)}

\* Walking on from a variable of S stays in it, and never comes to a value.
IsClosed(g, S) ==
    \A v \in S : v \in DOMAIN g => \E u \in S : g[v] = VarT(u)

LEMMA LoopClosed ==
    ASSUME NEW g, NEW p, IsLoop(g, p)
    PROVE  IsClosed(g, Members(p))
<1>1. Len(p) \in Nat \ {0}
    BY PathFacts DEF IsLoop, IsTrail
<1>2. ASSUME NEW v \in Members(p), v \in DOMAIN g
      PROVE  \E u \in Members(p) : g[v] = VarT(u)
    <2>1. PICK i \in 1 .. Len(p) : v = p[i]
        BY <1>2 DEF Members
    <2>2. CASE i = Len(p)
        <3>1. g[v] = VarT(p[1])
            BY <1>2, <2>1, <2>2 DEF IsLoop
        <3> QED
            BY <1>1, <3>1 DEF Members
    <2>3. CASE i # Len(p)
        <3>1. i \in 1 .. Len(p) - 1 /\ i + 1 \in 1 .. Len(p)
            BY <1>1, <2>1, <2>3
        <3>2. g[v] = VarT(p[i + 1])
            BY <2>1, <3>1 DEF IsLoop, IsTrail
        <3> QED
            BY <3>1, <3>2 DEF Members
    <2> QED
        BY <2>2, <2>3
<1> QED
    BY <1>2 DEF IsClosed

\* A walk that begins outside a closed set, and ends, never enters it.
LEMMA NeverEnters ==
    ASSUME NEW g, NEW S, IsClosed(g, S), NEW p, p[1] \notin S,
           IsLoop(g, p) \/ IsChain(g, p)
    PROVE  \A i \in 1 .. Len(p) : p[i] \notin S
<1>1. IsTrail(g, p)
    BY DEF IsLoop, IsChain
<1>2. Len(p) \in Nat \ {0}
    BY <1>1, PathFacts DEF IsTrail
<1>3. p[Len(p)] \notin S
    <2> SUFFICES ASSUME p[Len(p)] \in S PROVE FALSE
        OBVIOUS
    <2>1. p[Len(p)] \in DOMAIN g
        BY DEF IsLoop, IsChain
    <2>2. PICK u \in S : g[p[Len(p)]] = VarT(u)
        BY <2>1 DEF IsClosed
    <2>3. ~IsChain(g, p)
        BY <2>2 DEF IsChain, VarT
    <2>4. VarT(p[1]) = VarT(u)
        BY <2>1, <2>2, <2>3 DEF IsLoop
    <2> QED
        BY <2>4 DEF VarT
<1>4. ASSUME NEW i \in 1 .. Len(p) - 1, p[i] \in S PROVE p[i + 1] \in S
    <2>1. p[i] \in DOMAIN g /\ g[p[i]] = VarT(p[i + 1])
        BY <1>1 DEF IsTrail
    <2>2. PICK u \in S : g[p[i]] = VarT(u)
        BY <1>4, <2>1 DEF IsClosed
    <2>3. VarT(u) = VarT(p[i + 1])
        BY <2>1, <2>2
    <2> QED
        BY <2>3 DEF VarT
<1> SUFFICES ASSUME NEW i \in 1 .. Len(p), p[i] \in S PROVE FALSE
    OBVIOUS
<1> DEFINE T == {j \in i .. Len(p) : p[j] \notin S}
<1>5. PICK j \in T : \A k \in T : j <= k
    <2>1. T \in SUBSET Nat /\ T # {}
        BY <1>2, <1>3
    <2> QED
        BY ONLY <2>1, HasLeast
<1>6. j \in i .. Len(p) /\ p[j] \notin S /\ j # i
    BY <1>5
<1>7. j - 1 \in i .. Len(p) /\ j - 1 \in 1 .. Len(p) - 1 /\ ~(j <= j - 1) /\ j - 1 + 1 = j
    BY <1>2, <1>6
<1>8. p[j - 1] \in S
    BY <1>5, <1>7
<1> QED
    BY <1>4, <1>6, <1>7, <1>8

SameOn(g, h, S) ==
    \A v \in S : /\ v \in DOMAIN h <=> v \in DOMAIN g
                 /\ v \in DOMAIN g => h[v] = g[v]

LEMMA TrailOn ==
    ASSUME NEW g, NEW h, NEW p, SameOn(g, h, Members(p)),
           IsLoop(g, p) \/ IsChain(g, p)
    PROVE  IsLoop(h, p) \/ IsChain(h, p)
<1>1. IsTrail(g, p)
    BY DEF IsLoop, IsChain
<1>2. Len(p) \in Nat \ {0} /\ p \in Paths
    BY <1>1, PathFacts DEF IsTrail
<1>3. ASSUME NEW n \in 1 .. Len(p) - 1
      PROVE  p[n] \in DOMAIN h /\ h[p[n]] = VarT(p[n + 1])
    <2>1. p[n] \in Members(p)
        BY <1>2 DEF Members
    <2>2. p[n] \in DOMAIN g /\ g[p[n]] = VarT(p[n + 1])
        BY <1>1 DEF IsTrail
    <2> QED
        BY <2>1, <2>2 DEF SameOn
<1>4. IsTrail(h, p)
    BY <1>2, <1>3 DEF IsTrail
<1>5. p[Len(p)] \in Members(p)
    BY <1>2 DEF Members
<1> QED
    BY <1>4, <1>5 DEF SameOn, IsLoop, IsChain

LEMMA WithIs ==
    ASSUME NEW g, IsGraph(g), NEW v \in Var, NEW val \in Operand
    PROVE  /\ IsGraph(With(g, v, val))
           /\ DOMAIN With(g, v, val) = DOMAIN g \cup {v}
           /\ With(g, v, val)[v] = val
           /\ \A u \in DOMAIN g : u # v => With(g, v, val)[u] = g[u]
           /\ \A S : v \notin S => SameOn(g, With(g, v, val), S)
<1> DEFINE h == With(g, v, val)
<1>1. /\ DOMAIN h = DOMAIN g \cup {v}
      /\ h[v] = val
      /\ \A u \in DOMAIN g : u # v => h[u] = g[u]
      /\ h = [u \in DOMAIN h |-> h[u]]
    BY DEF With
<1> HIDE DEF h
<1>2. IsGraph(h)
    BY <1>1 DEF IsGraph
<1>3. \A S : v \notin S => SameOn(g, h, S)
    BY <1>1 DEF SameOn
<1> QED
    BY <1>1, <1>2, <1>3 DEF h

\* A variable is bound to a value.
LEMMA BindingKeeps ==
    ASSUME NEW g, WellFormed(g), NEW v \in Var, NEW val \in Operand,
           val.tag = "const"
    PROVE  WellFormed(With(g, v, val))
<1> DEFINE h == With(g, v, val)
<1>1. /\ IsGraph(h)
      /\ DOMAIN h = DOMAIN g \cup {v}
      /\ h[v] = val
      /\ \A u \in DOMAIN g : u # v => h[u] = g[u]
      /\ \A S : v \notin S => SameOn(g, h, S)
    BY WithIs DEF WellFormed
<1> HIDE DEF h
<1>2. \A u \in DOMAIN h : h[u].tag = "var" => h[u].v \in DOMAIN h
    BY <1>1 DEF WellFormed
<1>3. ASSUME NEW u \in Var
      PROVE  \E p : p[1] = u /\ (IsLoop(h, p) \/ IsChain(h, p))
    <2>1. PICK p : p[1] = u /\ (IsLoop(g, p) \/ IsChain(g, p))
        BY DEF WellFormed
    <2>2. CASE v \notin Members(p)
        <3>1. SameOn(g, h, Members(p))
            BY <1>1, <2>2
        <3>2. IsLoop(h, p) \/ IsChain(h, p)
            BY <2>1, <3>1, TrailOn
        <3> QED
            BY <2>1, <3>2
    <2>3. CASE v \in Members(p)
        <3>1. IsTrail(g, p)
            BY <2>1 DEF IsLoop, IsChain
        <3>2. PICK k \in 1 .. Len(p) : v = p[k]
            BY <2>3 DEF Members
        <3>3. PICK q : /\ q \in Paths /\ Len(q) = k /\ IsTrail(g, q)
                       /\ \A i \in 1 .. k : q[i] = p[i]
            BY <3>1, Beginning
        <3>4. /\ Len(q) \in Nat \ {0}
              /\ \A i, j \in 1 .. Len(q) : q[i] = q[j] => i = j
            BY <3>3, PathFacts
        <3>5. q[k] = v /\ q[1] = u
            BY <2>1, <3>2, <3>3, <3>4
        <3>6. ASSUME NEW n \in 1 .. Len(q) - 1
              PROVE  q[n] \in DOMAIN h /\ h[q[n]] = VarT(q[n + 1])
            <4>1. q[n] \in DOMAIN g /\ g[q[n]] = VarT(q[n + 1])
                BY <3>3 DEF IsTrail
            <4>2. n \in 1 .. Len(q) /\ k \in 1 .. Len(q) /\ n # k
                BY <3>3, <3>4
            <4>3. q[n] # v
                BY <3>4, <3>5, <4>2
            <4> QED
                BY <1>1, <4>1, <4>3
        <3>7. IsTrail(h, q)
            BY <3>3, <3>6 DEF IsTrail
        <3>8. IsChain(h, q)
            BY <1>1, <3>3, <3>5, <3>7 DEF IsChain
        <3> QED
            BY <3>5, <3>8
    <2> QED
        BY <2>2, <2>3
<1>4. WellFormed(h)
    BY <1>1, <1>2, <1>3 DEF WellFormed
<1> QED
    BY <1>4 DEF h

\* A cycle can be walked from each of its members.
LEMMA Rotated ==
    ASSUME NEW g, NEW p, IsLoop(g, p), NEW k \in 1 .. Len(p)
    PROVE  \E q : q[1] = p[k] /\ IsLoop(g, q)
<1> DEFINE n == Len(p)
           at(i) == IF i + k - 1 <= n THEN i + k - 1 ELSE i + k - 1 - n
           q == [i \in 1 .. n |-> p[at(i)]]
<1>1. /\ n \in Nat \ {0}
      /\ p \in [1 .. n -> Var]
      /\ \A i, j \in 1 .. n : p[i] = p[j] => i = j
    BY PathFacts DEF IsLoop, IsTrail
<1>2. CASE p[n] \notin DOMAIN g
    <2>1. n = 1 /\ k = 1
        BY <1>1, <1>2 DEF IsLoop
    <2> QED
        BY <2>1
<1>3. CASE p[n] \in DOMAIN g
    <2>1. /\ \A i \in 1 .. n - 1 : p[i] \in DOMAIN g /\ g[p[i]] = VarT(p[i + 1])
          /\ g[p[n]] = VarT(p[1])
        BY <1>3 DEF IsLoop, IsTrail
    <2>2. k \in 1 .. n
        OBVIOUS
    <2> HIDE DEF n
    <2>3. \A i \in 1 .. n : at(i) \in 1 .. n
        BY <1>1, <2>2
    <2>4. \A i, j \in 1 .. n : at(i) = at(j) => i = j
        BY <1>1, <2>2
    <2>5. /\ at(1) = k
          /\ \A i \in 1 .. n - 1 : \/ at(i) = n /\ at(i + 1) = 1
                                   \/ at(i) \in 1 .. n - 1 /\ at(i + 1) = at(i) + 1
          /\ \/ at(n) = n /\ at(1) = 1
             \/ at(n) \in 1 .. n - 1 /\ at(1) = at(n) + 1
        BY <1>1, <2>2
    <2> HIDE DEF at
    <2>6. q \in [1 .. n -> Var]
        BY <1>1, <2>3
    <2>7. \A i, j \in 1 .. n : q[i] = q[j] => i = j
        BY <1>1, <2>3, <2>4
    <2>8. q \in Paths /\ Len(q) = n
        BY ONLY <1>1, <2>6, <2>7, IsPath
    <2>9. /\ \A i \in 1 .. n : q[i] = p[at(i)]
          /\ 1 \in 1 .. n /\ n \in 1 .. n
          /\ \A i \in 1 .. n - 1 : i \in 1 .. n /\ i + 1 \in 1 .. n
        BY <1>1
    <2> HIDE DEF q
    <2>10. ASSUME NEW i \in 1 .. n - 1
           PROVE  q[i] \in DOMAIN g /\ g[q[i]] = VarT(q[i + 1])
        <3>1. q[i] = p[at(i)] /\ q[i + 1] = p[at(i + 1)]
            BY <2>9
        <3> QED
            BY <1>3, <2>1, <2>5, <3>1
    <2>11. q[n] \in DOMAIN g /\ g[q[n]] = VarT(q[1])
        <3>1. q[n] = p[at(n)] /\ q[1] = p[at(1)]
            BY <2>9
        <3> QED
            BY <1>3, <2>1, <2>5, <3>1
    <2>12. IsLoop(g, q)
        BY <2>8, <2>10, <2>11 DEF IsLoop, IsTrail
    <2>13. q[1] = p[k]
        BY <2>5, <2>9
    <2> QED
        BY <2>12, <2>13
<1> QED
    BY <1>2, <1>3

\* Tying the ends of two separate cycles, or of variables without an entry:
\* the last variable of each leads to the first of the other.
AreTied(g, h, p, q) ==
    /\ IsGraph(h)
    /\ DOMAIN h = DOMAIN g \cup {p[Len(p)], q[Len(q)]}
    /\ h[p[Len(p)]] = VarT(q[1])
    /\ h[q[Len(q)]] = VarT(p[1])
    /\ \A v \in DOMAIN g : v \notin {p[Len(p)], q[Len(q)]} => h[v] = g[v]

LEMMA Joined ==
    ASSUME NEW g, NEW p, NEW q, IsLoop(g, p), IsLoop(g, q),
           Members(p) \cap Members(q) = {},
           NEW h, AreTied(g, h, p, q)
    PROVE  \E r : IsLoop(h, r) /\ Members(p) \cup Members(q) \subseteq Members(r)
<1> DEFINE n == Len(p)
           m == Len(q)
           r == [i \in 1 .. n + m |-> IF i <= n THEN p[i] ELSE q[i - n]]
<1>1. /\ n \in Nat \ {0}
      /\ p \in [1 .. n -> Var]
      /\ \A i, j \in 1 .. n : p[i] = p[j] => i = j
    BY PathFacts DEF IsLoop, IsTrail
<1>2. /\ m \in Nat \ {0}
      /\ q \in [1 .. m -> Var]
      /\ \A i, j \in 1 .. m : q[i] = q[j] => i = j
    BY PathFacts DEF IsLoop, IsTrail
<1>3. \A i \in 1 .. n : \A j \in 1 .. m : p[i] # q[j]
    BY DEF Members
<1>4. \A i \in 1 .. n - 1 : p[i] \in DOMAIN g /\ g[p[i]] = VarT(p[i + 1])
    BY DEF IsLoop, IsTrail
<1>5. \A i \in 1 .. m - 1 : q[i] \in DOMAIN g /\ g[q[i]] = VarT(q[i + 1])
    BY DEF IsLoop, IsTrail
<1>6. /\ DOMAIN h = DOMAIN g \cup {p[n], q[m]}
      /\ h[p[n]] = VarT(q[1])
      /\ h[q[m]] = VarT(p[1])
      /\ \A v \in DOMAIN g : v \notin {p[n], q[m]} => h[v] = g[v]
    BY DEF AreTied
<1> HIDE DEF n, m
<1>7. n + m \in Nat \ {0} /\ r \in [1 .. n + m -> Var]
    BY <1>1, <1>2
<1>8. ASSUME NEW i \in 1 .. n + m, NEW j \in 1 .. n + m, r[i] = r[j]
      PROVE  i = j
    <2>1. CASE i <= n /\ j <= n
        BY <1>1, <1>2, <1>8, <2>1
    <2>2. CASE i <= n /\ ~(j <= n)
        <3>1. i \in 1 .. n /\ j - n \in 1 .. m /\ r[i] = p[i] /\ r[j] = q[j - n]
            BY <1>1, <1>2, <2>2
        <3> QED
            BY <1>3, <1>8, <3>1
    <2>3. CASE ~(i <= n) /\ j <= n
        <3>1. j \in 1 .. n /\ i - n \in 1 .. m /\ r[j] = p[j] /\ r[i] = q[i - n]
            BY <1>1, <1>2, <2>3
        <3> QED
            BY <1>3, <1>8, <3>1
    <2>4. CASE ~(i <= n) /\ ~(j <= n)
        <3>1. i - n \in 1 .. m /\ j - n \in 1 .. m /\ r[i] = q[i - n] /\ r[j] = q[j - n]
            BY <1>1, <1>2, <2>4
        <3>2. i - n = j - n
            BY <1>2, <1>8, <3>1
        <3> QED
            BY <1>1, <1>2, <3>2
    <2> QED
        BY <2>1, <2>2, <2>3, <2>4
<1>9. r \in Paths /\ Len(r) = n + m
    BY ONLY <1>7, <1>8, IsPath
<1>10. /\ \A i \in 1 .. n : i \in 1 .. n + m /\ r[i] = p[i]
       /\ \A i \in 1 .. m : i + n \in 1 .. n + m /\ r[i + n] = q[i]
    BY <1>1, <1>2
<1> HIDE DEF r
<1>11. ASSUME NEW i \in 1 .. n + m - 1
       PROVE  r[i] \in DOMAIN h /\ h[r[i]] = VarT(r[i + 1])
    <2>1. CASE i < n
        <3>1. i \in 1 .. n /\ i + 1 \in 1 .. n /\ i \in 1 .. n - 1 /\ i # n /\ n \in 1 .. n
              /\ m \in 1 .. m
            BY <1>1, <1>2, <2>1
        <3>2. p[i] \notin {p[n], q[m]}
            BY <1>1, <1>3, <3>1
        <3> QED
            BY <1>4, <1>6, <1>10, <3>1, <3>2
    <2>2. CASE i = n
        <3>1. n \in 1 .. n /\ 1 \in 1 .. m
            BY <1>1, <1>2
        <3>2. r[i] = p[n] /\ r[i + 1] = q[1]
            <4>1. 1 + n = i + 1
                BY <1>1, <2>2
            <4> QED
                BY <1>10, <2>2, <3>1, <4>1
        <3> QED
            BY <1>6, <3>2
    <2>3. CASE i > n
        <3> DEFINE j == i - n
        <3>1. j \in 1 .. m /\ j + 1 \in 1 .. m /\ j \in 1 .. m - 1 /\ j # m /\ m \in 1 .. m
              /\ n \in 1 .. n /\ j + n = i /\ j + 1 + n = i + 1
            BY <1>1, <1>2, <2>3
        <3> HIDE DEF j
        <3>2. q[j] \notin {p[n], q[m]}
            BY <1>2, <1>3, <3>1
        <3>3. r[i] = q[j] /\ r[i + 1] = q[j + 1]
            BY <1>10, <3>1
        <3> QED
            BY <1>5, <1>6, <3>1, <3>2, <3>3
    <2> QED
        BY <1>1, <1>2, <2>1, <2>2, <2>3
<1>12. r[n + m] \in DOMAIN h /\ h[r[n + m]] = VarT(r[1])
    <2>1. m \in 1 .. m /\ m + n = n + m /\ 1 \in 1 .. n
        BY <1>1, <1>2
    <2>2. r[n + m] = q[m] /\ r[1] = p[1]
        BY <1>10, <2>1
    <2> QED
        BY <1>6, <2>2
<1>13. IsLoop(h, r)
    <2>1. IsTrail(h, r)
        <3>1. 1 .. Len(r) - 1 = 1 .. n + m - 1
            BY ONLY <1>1, <1>2, <1>9
        <3>2. \A i \in 1 .. Len(r) - 1 : r[i] \in DOMAIN h /\ h[r[i]] = VarT(r[i + 1])
            BY ONLY <1>11, <3>1
        <3> QED
            BY ONLY <1>9, <3>2 DEF IsTrail
    <2> QED
        BY <1>9, <1>12, <2>1 DEF IsLoop
<1>14. \A v \in Members(p) \cup Members(q) : v \in Members(r)
    <2>1. ASSUME NEW v \in Members(p) PROVE v \in Members(r)
        <3>1. PICK i \in 1 .. n : v = p[i]
            BY <2>1 DEF Members, n
        <3> QED
            BY <1>9, <1>10, <3>1 DEF Members
    <2>2. ASSUME NEW v \in Members(q) PROVE v \in Members(r)
        <3>1. PICK i \in 1 .. m : v = q[i]
            BY <2>2 DEF Members, m
        <3> QED
            BY <1>9, <1>10, <3>1 DEF Members
    <2> QED
        BY <2>1, <2>2
<1> QED
    BY <1>13, <1>14

LEMMA TyingKeeps ==
    ASSUME NEW g, WellFormed(g), NEW p, NEW q, IsLoop(g, p), IsLoop(g, q),
           Members(p) \cap Members(q) = {},
           NEW h, AreTied(g, h, p, q)
    PROVE  WellFormed(h)
<1> DEFINE S == Members(p) \cup Members(q)
<1>1. /\ Len(p) \in Nat \ {0} /\ Len(q) \in Nat \ {0}
    BY PathFacts DEF IsLoop, IsTrail
<1>2. PICK r : IsLoop(h, r) /\ S \subseteq Members(r)
    BY Joined
<1>3. IsClosed(g, S)
    BY LoopClosed DEF IsClosed
<1>4. p[Len(p)] \in S /\ q[Len(q)] \in S
    BY <1>1 DEF Members
<1>5. p[1] \in DOMAIN h /\ q[1] \in DOMAIN h
    <2>1. p[1] \in DOMAIN h
        <3>1. CASE Len(p) = 1
            BY <3>1 DEF AreTied
        <3>2. CASE Len(p) # 1
            <4>1. 1 \in 1 .. Len(p) - 1
                BY ONLY <1>1, <3>2, AtLeastTwo
            <4> QED
                BY <4>1 DEF AreTied, IsLoop, IsTrail
        <3> QED
            BY <3>1, <3>2
    <2>2. q[1] \in DOMAIN h
        <3>1. CASE Len(q) = 1
            BY <3>1 DEF AreTied
        <3>2. CASE Len(q) # 1
            <4>1. 1 \in 1 .. Len(q) - 1
                BY ONLY <1>1, <3>2, AtLeastTwo
            <4> QED
                BY <4>1 DEF AreTied, IsLoop, IsTrail
        <3> QED
            BY <3>1, <3>2
    <2> QED
        BY <2>1, <2>2
<1>6. ASSUME NEW v \in DOMAIN h, h[v].tag = "var" PROVE h[v].v \in DOMAIN h
    <2>1. CASE v \in {p[Len(p)], q[Len(q)]}
        BY <1>5, <2>1 DEF AreTied, VarT
    <2>2. CASE v \notin {p[Len(p)], q[Len(q)]}
        BY <1>6, <2>2 DEF AreTied, WellFormed
    <2> QED
        BY <2>1, <2>2
<1>7. ASSUME NEW v \in Var
      PROVE  \E t : t[1] = v /\ (IsLoop(h, t) \/ IsChain(h, t))
    <2>1. CASE v \in S
        <3>1. PICK k \in 1 .. Len(r) : v = r[k]
            BY <1>2, <2>1 DEF Members
        <3> QED
            BY <1>2, <3>1, Rotated
    <2>2. CASE v \notin S
        <3>1. PICK t : t[1] = v /\ (IsLoop(g, t) \/ IsChain(g, t))
            BY DEF WellFormed
        <3>2. \A i \in 1 .. Len(t) : t[i] \notin S
            BY <1>3, <2>2, <3>1, NeverEnters
        <3>3. \A u \in Members(t) : u \notin S
            BY <3>2 DEF Members
        <3>4. \A u \in Members(t) : u \notin {p[Len(p)], q[Len(q)]}
            BY <1>4, <3>3
        <3>5. SameOn(g, h, Members(t))
            BY <3>4 DEF SameOn, AreTied
        <3>6. IsLoop(h, t) \/ IsChain(h, t)
            BY <3>1, <3>5, TrailOn
        <3> QED
            BY <3>1, <3>6
    <2> QED
        BY <2>1, <2>2
<1> QED
    BY <1>6, <1>7 DEF WellFormed, AreTied

-----------------------------------------------------------------------------
(* What an entry says.                                                     *)

IsSteady(m, p, a, b) == \A i \in a .. b - 1 : m[p[i]] = m[p[i + 1]]

LEMMA SameAlong ==
    ASSUME NEW m, NEW p, NEW a \in Nat, NEW b \in Nat, IsSteady(m, p, a, b)
    PROVE  \A i \in a .. b : m[p[i]] = m[p[a]]
<1> DEFINE f == [i \in a .. b |-> m[p[i]]]
<1>1. \A i \in a .. b - 1 : f[i] = f[i + 1]
    BY DEF IsSteady
<1>2. \A i \in a .. b : a \in a .. b /\ f[i] = m[p[i]] /\ f[a] = m[p[a]]
    OBVIOUS
<1> HIDE DEF f
<1>3. \A i \in a .. b : f[i] = f[a]
    BY ONLY a \in Nat, b \in Nat, <1>1, KeptAlong
<1> QED
    BY <1>2, <1>3

LEMMA EvalIs ==
    \A m, v, c : Eval(m, VarT(v)) = m[v] /\ Eval(m, ConstT(c)) = c
BY DEF Eval, VarT, ConstT

\* The variables of a walk have the same value.
LEMMA TrailSame ==
    ASSUME NEW g, NEW p, IsTrail(g, p), NEW m \in Models(g)
    PROVE  \A i \in 1 .. Len(p) : m[p[i]] = m[p[1]]
<1>1. Len(p) \in Nat \ {0}
    BY PathFacts DEF IsTrail
<1>2. IsSteady(m, p, 1, Len(p))
    BY EvalIs DEF IsTrail, Models, IsSteady
<1>3. 1 \in Nat /\ Len(p) \in Nat
    BY <1>1
<1> QED
    BY ONLY <1>2, <1>3, SameAlong

LEMMA ChainValue ==
    ASSUME NEW g, IsGraph(g), NEW p, IsChain(g, p), NEW m \in Models(g)
    PROVE  /\ g[p[Len(p)]] \in Operand
           /\ g[p[Len(p)]].tag = "const"
           /\ m[p[1]] = g[p[Len(p)]].v
<1>1. Len(p) \in Nat \ {0}
    BY PathFacts DEF IsChain, IsTrail
<1>2. m[p[Len(p)]] = m[p[1]]
    BY <1>1, TrailSame DEF IsChain
<1>3. m[p[Len(p)]] = Eval(m, g[p[Len(p)]])
    BY DEF Models, IsChain
<1> QED
    BY <1>2, <1>3 DEF IsChain, IsGraph, Eval

\* Binding a variable to a value keeps the assignments that give it the value,
\* and with it to all the variables of its cycle.
LEMMA BindingMeans ==
    ASSUME NEW g, IsGraph(g), NEW p, IsLoop(g, p), NEW v \in Var, p[1] = v,
           NEW val \in Operand, val.tag = "const"
    PROVE  Models(With(g, v, val)) = {m \in Models(g) : m[v] = val.v}
<1> DEFINE h == With(g, v, val)
<1>1. /\ DOMAIN h = DOMAIN g \cup {v}
      /\ h[v] = val
      /\ \A u \in DOMAIN g : u # v => h[u] = g[u]
    BY WithIs
<1> HIDE DEF h
<1>2. \A m : Eval(m, val) = val.v
    BY DEF Eval
<1>3. ASSUME NEW m \in Models(g), m[v] = val.v PROVE m \in Models(h)
    BY <1>1, <1>2, <1>3 DEF Models
<1>4. ASSUME NEW m \in Models(h) PROVE m \in Models(g) /\ m[v] = val.v
    <2>1. m \in Assignments /\ \A u \in DOMAIN h : m[u] = Eval(m, h[u])
        BY <1>4 DEF Models
    <2>2. m[v] = val.v
        BY <1>1, <1>2, <2>1
    <2>3. /\ Len(p) \in Nat \ {0}
          /\ \A i, j \in 1 .. Len(p) : p[i] = p[j] => i = j
        BY PathFacts DEF IsLoop, IsTrail
    <2>4. ASSUME v \in DOMAIN g PROVE m[v] = Eval(m, g[v])
        <3>1. CASE Len(p) = 1
            <4>1. g[v] = VarT(v)
                BY <2>4, <3>1 DEF IsLoop
            <4> QED
                BY <4>1, EvalIs
        <3>2. CASE Len(p) # 1
            <4>1. /\ 1 \in 1 .. Len(p) - 1 /\ Len(p) \in 2 .. Len(p)
                  /\ Len(p) \in 1 .. Len(p) /\ 1 \in 1 .. Len(p)
                BY ONLY <2>3, <3>2, AtLeastTwo
            <4>2. g[v] = VarT(p[2])
                <5>1. g[p[1]] = VarT(p[1 + 1])
                    BY <4>1 DEF IsLoop, IsTrail
                <5> QED
                    BY <5>1
            <4>3. IsSteady(m, p, 2, Len(p))
                <5> SUFFICES ASSUME NEW i \in 2 .. Len(p) - 1
                    PROVE  m[p[i]] = m[p[i + 1]]
                    BY DEF IsSteady
                <5>1. i \in 1 .. Len(p) - 1 /\ i \in 1 .. Len(p) /\ i # 1
                    BY <2>3
                <5>2. p[i] \in DOMAIN g /\ g[p[i]] = VarT(p[i + 1])
                    BY <5>1 DEF IsLoop, IsTrail
                <5>3. p[i] # v
                    BY <2>3, <4>1, <5>1
                <5> QED
                    BY <1>1, <2>1, <5>2, <5>3, EvalIs
            <4>4. \A i \in 2 .. Len(p) : m[p[i]] = m[p[2]]
                <5>1. 2 \in Nat /\ Len(p) \in Nat
                    BY <2>3
                <5> QED
                    BY ONLY <4>3, <5>1, SameAlong
            <4>5. m[p[Len(p)]] = m[p[1]]
                <5>1. p[Len(p)] # v
                    BY <2>3, <4>1
                <5>2. p[Len(p)] \in DOMAIN g /\ g[p[Len(p)]] = VarT(p[1])
                    BY <3>2 DEF IsLoop
                <5> QED
                    BY <1>1, <2>1, <5>1, <5>2, EvalIs
            <4>6. m[v] = m[p[2]]
                BY <4>1, <4>4, <4>5
            <4> QED
                BY <4>2, <4>6, EvalIs
        <3> QED
            BY <3>1, <3>2
    <2>5. \A u \in DOMAIN g : m[u] = Eval(m, g[u])
        BY <1>1, <2>1, <2>4
    <2> QED
        BY <2>1, <2>2, <2>5 DEF Models
<1>5. Models(h) = {m \in Models(g) : m[v] = val.v}
    BY <1>3, <1>4
<1> QED
    BY <1>5 DEF h

\* Tying two cycles together keeps the assignments that give them one value.
LEMMA TyingMeans ==
    ASSUME NEW g, IsGraph(g), NEW p, NEW q, IsLoop(g, p), IsLoop(g, q),
           Members(p) \cap Members(q) = {},
           NEW h, AreTied(g, h, p, q)
    PROVE  \A m : m \in Models(h) <=> m \in Models(g) /\ m[p[1]] = m[q[1]]
<1>1. /\ Len(p) \in Nat \ {0}
      /\ \A i, j \in 1 .. Len(p) : p[i] = p[j] => i = j
      /\ Len(p) \in 1 .. Len(p) /\ 1 \in 1 .. Len(p)
    BY PathFacts DEF IsLoop, IsTrail
<1>2. /\ Len(q) \in Nat \ {0}
      /\ \A i, j \in 1 .. Len(q) : q[i] = q[j] => i = j
      /\ Len(q) \in 1 .. Len(q) /\ 1 \in 1 .. Len(q)
    BY PathFacts DEF IsLoop, IsTrail
<1>3. \A i \in 1 .. Len(p) : \A j \in 1 .. Len(q) : p[i] # q[j]
    BY DEF Members
<1>4. /\ DOMAIN h = DOMAIN g \cup {p[Len(p)], q[Len(q)]}
      /\ h[p[Len(p)]] = VarT(q[1])
      /\ h[q[Len(q)]] = VarT(p[1])
      /\ \A v \in DOMAIN g : v \notin {p[Len(p)], q[Len(q)]} => h[v] = g[v]
    BY DEF AreTied
<1>5. IsTrail(g, p) /\ IsTrail(g, q)
    BY DEF IsLoop
<1>6. ASSUME NEW m \in Models(g), m[p[1]] = m[q[1]] PROVE m \in Models(h)
    <2>1. m[p[Len(p)]] = m[p[1]] /\ m[q[Len(q)]] = m[q[1]]
        BY <1>1, <1>2, <1>5, TrailSame
    <2>2. ASSUME NEW u \in DOMAIN h PROVE m[u] = Eval(m, h[u])
        <3>1. CASE u \in {p[Len(p)], q[Len(q)]}
            BY <1>4, <1>6, <2>1, <3>1, EvalIs
        <3>2. CASE u \notin {p[Len(p)], q[Len(q)]}
            BY <1>4, <3>2 DEF Models
        <3> QED
            BY <3>1, <3>2
    <2> QED
        BY <2>2 DEF Models
<1>7. ASSUME NEW m \in Models(h) PROVE m \in Models(g) /\ m[p[1]] = m[q[1]]
    <2>1. m \in Assignments /\ \A u \in DOMAIN h : m[u] = Eval(m, h[u])
        BY <1>7 DEF Models
    <2>2. m[p[Len(p)]] = m[q[1]] /\ m[q[Len(q)]] = m[p[1]]
        BY <1>4, <2>1, EvalIs
    <2>3. m[p[Len(p)]] = m[p[1]]
        <3>1. ASSUME NEW i \in 1 .. Len(p) - 1 PROVE m[p[i]] = m[p[i + 1]]
            <4>1. i \in 1 .. Len(p) /\ i # Len(p)
                BY <1>1
            <4>2. p[i] \notin {p[Len(p)], q[Len(q)]}
                BY <1>1, <1>2, <1>3, <4>1
            <4>3. p[i] \in DOMAIN g /\ g[p[i]] = VarT(p[i + 1])
                BY <1>5 DEF IsTrail
            <4> QED
                BY <1>4, <2>1, <4>2, <4>3, EvalIs
        <3>2. IsSteady(m, p, 1, Len(p))
            BY <3>1 DEF IsSteady
        <3>3. 1 \in Nat /\ Len(p) \in Nat
            BY <1>1
        <3>4. \A i \in 1 .. Len(p) : m[p[i]] = m[p[1]]
            BY ONLY <3>2, <3>3, SameAlong
        <3> QED
            BY <1>1, <3>4
    <2>4. m[q[Len(q)]] = m[q[1]]
        <3>1. ASSUME NEW i \in 1 .. Len(q) - 1 PROVE m[q[i]] = m[q[i + 1]]
            <4>1. i \in 1 .. Len(q) /\ i # Len(q)
                BY <1>2
            <4>2. q[i] \notin {p[Len(p)], q[Len(q)]}
                BY <1>1, <1>2, <1>3, <4>1
            <4>3. q[i] \in DOMAIN g /\ g[q[i]] = VarT(q[i + 1])
                BY <1>5 DEF IsTrail
            <4> QED
                BY <1>4, <2>1, <4>2, <4>3, EvalIs
        <3>2. IsSteady(m, q, 1, Len(q))
            BY <3>1 DEF IsSteady
        <3>3. 1 \in Nat /\ Len(q) \in Nat
            BY <1>2
        <3>4. \A i \in 1 .. Len(q) : m[q[i]] = m[q[1]]
            BY ONLY <3>2, <3>3, SameAlong
        <3> QED
            BY <1>2, <3>4
    <2>5. ASSUME NEW u \in DOMAIN g PROVE m[u] = Eval(m, g[u])
        <3>1. CASE u = p[Len(p)]
            <4>1. g[u] = VarT(p[1])
                BY <2>5, <3>1 DEF IsLoop
            <4> QED
                BY <2>3, <3>1, <4>1, EvalIs
        <3>2. CASE u = q[Len(q)]
            <4>1. g[u] = VarT(q[1])
                BY <2>5, <3>2 DEF IsLoop
            <4> QED
                BY <2>4, <3>2, <4>1, EvalIs
        <3>3. CASE u \notin {p[Len(p)], q[Len(q)]}
            BY <1>4, <2>1, <2>5, <3>3
        <3> QED
            BY <3>1, <3>2, <3>3
    <2> QED
        BY <2>1, <2>2, <2>3, <2>5 DEF Models
<1> QED
    BY <1>6, <1>7

-----------------------------------------------------------------------------
(* Unification on such a stack.                                            *)

Sound(st) == st \in Seq(PlainEntry) /\ WellFormed(Graph(st))

\* A goal that succeeds leaves the assignments that satisfy its constraint, and
\* nothing to query again; one that fails leaves none.
Answers(st, c, result) ==
    /\ result.ok => /\ Sound(st \o result.push)
                    /\ Meaning(st \o result.push) = {m \in Meaning(st) : Sat(m, c)}
                    /\ result.requery = <<>>
    /\ ~result.ok => \A m \in Meaning(st) : ~Sat(m, c)
    /\ result.ok \in BOOLEAN

LEMMA NothingAnswers ==
    ASSUME NEW st, Sound(st), NEW c, \A m \in Meaning(st) : Sat(m, c)
    PROVE  Answers(st, c, Pushed(<<>>))
<1>1. st \o <<>> = st
    BY ConcatEmptySeq DEF Sound
<1>2. Meaning(st) = {m \in Meaning(st) : Sat(m, c)}
    OBVIOUS
<1>3. Pushed(<<>>).ok = TRUE /\ Pushed(<<>>).push = <<>> /\ Pushed(<<>>).requery = <<>>
    BY DEF Pushed
<1> QED
    BY <1>1, <1>2, <1>3 DEF Answers

LEMMA RefusingAnswers ==
    ASSUME NEW st, NEW c, \A m \in Meaning(st) : ~Sat(m, c)
    PROVE  Answers(st, c, Incompatible)
BY DEF Answers, Incompatible

LEMMA BindingAnswers ==
    ASSUME NEW st, Sound(st), NEW p, IsLoop(Graph(st), p),
           NEW v \in Var, p[1] = v, NEW val \in Operand, val.tag = "const",
           NEW c, \A m \in Meaning(st) : Sat(m, c) <=> m[v] = val.v
    PROVE  Answers(st, c, Pushed(<<Entry(v, val)>>))
<1> DEFINE e == Entry(v, val)
           new == st \o <<e>>
<1>1. e \in PlainEntry /\ e.var = v /\ e.val = val
    BY DEF Entry, PlainEntry
<1>2. st \in Seq(PlainEntry) /\ WellFormed(Graph(st)) /\ IsGraph(Graph(st))
    BY DEF Sound, WellFormed
<1> HIDE DEF e
<1>3. new \in Seq(PlainEntry)
    BY <1>1, <1>2, OneMore
<1>4. Graph(new) = With(Graph(st), v, val)
    BY <1>1, <1>2, GraphAfter
<1>5. WellFormed(Graph(new))
    BY <1>2, <1>4, BindingKeeps
<1>6. Models(Graph(new)) = {m \in Models(Graph(st)) : m[v] = val.v}
    BY <1>2, <1>4, BindingMeans
<1> HIDE DEF new
<1>7. Meaning(new) = Models(Graph(new)) /\ Meaning(st) = Models(Graph(st))
    BY <1>2, <1>3, MeaningIs
<1>8. Meaning(new) = {m \in Meaning(st) : Sat(m, c)}
    BY <1>6, <1>7
<1>9. /\ Pushed(<<e>>).ok = TRUE
      /\ Pushed(<<e>>).push = <<e>>
      /\ Pushed(<<e>>).requery = <<>>
    BY DEF Pushed
<1>10. Sound(new)
    BY <1>3, <1>5 DEF Sound
<1>11. Answers(st, c, Pushed(<<e>>))
    BY <1>8, <1>9, <1>10 DEF Answers, new
<1> QED
    BY <1>11 DEF e

LEMMA TwoEntries ==
    ASSUME NEW e \in PlainEntry, NEW f \in PlainEntry
    PROVE  <<e>> \o <<f>> = <<e, f>>
<1>1. /\ <<e>> \in Seq(PlainEntry) /\ Len(<<e>>) = 1 /\ <<e>>[1] = e
      /\ <<f>> \in Seq(PlainEntry) /\ Len(<<f>>) = 1 /\ <<f>>[1] = f
    OBVIOUS
<1>2. /\ <<e, f>> \in Seq(PlainEntry) /\ Len(<<e, f>>) = 2
      /\ <<e, f>>[1] = e /\ <<e, f>>[2] = f
    OBVIOUS
<1>3. /\ <<e>> \o <<f>> \in Seq(PlainEntry)
      /\ Len(<<e>> \o <<f>>) = 2
      /\ \A i \in 1 .. 2 : (<<e>> \o <<f>>)[i] = <<e, f>>[i]
    BY <1>1, <1>2, ConcatProperties
<1> QED
    BY <1>2, <1>3, SeqEqual

LEMMA TyingAnswers ==
    ASSUME NEW st, Sound(st), NEW p, NEW q,
           IsLoop(Graph(st), p), IsLoop(Graph(st), q),
           Members(p) \cap Members(q) = {},
           NEW c, \A m \in Meaning(st) : Sat(m, c) <=> m[p[1]] = m[q[1]]
    PROVE  Answers(st, c, Tie(p[Len(p)], q[1], q[Len(q)], p[1]))
<1> DEFINE a == p[Len(p)]
           b == q[Len(q)]
           e == Entry(a, VarT(q[1]))
           f == Entry(b, VarT(p[1]))
           new == st \o <<e, f>>
           g == Graph(st)
           h == Graph(new)
<1>1. /\ Len(p) \in 1 .. Len(p) /\ 1 \in 1 .. Len(p) /\ p \in [1 .. Len(p) -> Var]
      /\ Len(q) \in 1 .. Len(q) /\ 1 \in 1 .. Len(q) /\ q \in [1 .. Len(q) -> Var]
    BY PathFacts DEF IsLoop, IsTrail
<1>2. a \in Var /\ b \in Var /\ p[1] \in Var /\ q[1] \in Var /\ a # b
    BY <1>1 DEF Members
<1>3. VarT(q[1]) \in Operand /\ VarT(p[1]) \in Operand
    BY <1>2 DEF VarT, Operand
<1>4. st \in Seq(PlainEntry) /\ WellFormed(g) /\ IsGraph(g)
    BY DEF Sound, WellFormed
<1> HIDE DEF a, b
<1>5. /\ e \in PlainEntry /\ e.var = a /\ e.val = VarT(q[1])
      /\ f \in PlainEntry /\ f.var = b /\ f.val = VarT(p[1])
    BY <1>2, <1>3 DEF Entry, PlainEntry
<1> HIDE DEF e, f, g
<1>6. new = (st \o <<e>>) \o <<f>>
    <2>1. <<e>> \in Seq(PlainEntry) /\ <<f>> \in Seq(PlainEntry)
        BY <1>5
    <2>2. st \o <<e, f>> = st \o (<<e>> \o <<f>>)
        BY <1>5, TwoEntries
    <2>3. (st \o <<e>>) \o <<f>> = st \o (<<e>> \o <<f>>)
        BY ONLY <1>4, <2>1, ConcatAssociative
    <2> QED
        BY <2>2, <2>3
<1>7. st \o <<e>> \in Seq(PlainEntry) /\ Graph(st \o <<e>>) = With(g, a, VarT(q[1]))
    BY <1>4, <1>5, OneMore, GraphAfter DEF g
<1>8. new \in Seq(PlainEntry)
    BY <1>5, <1>6, <1>7, OneMore
<1>9. h = With(With(g, a, VarT(q[1])), b, VarT(p[1]))
    BY <1>5, <1>6, <1>7, GraphAfter
<1> DEFINE w == With(g, a, VarT(q[1]))
<1>10. /\ IsGraph(w)
       /\ DOMAIN w = DOMAIN g \cup {a}
       /\ w[a] = VarT(q[1])
       /\ \A u \in DOMAIN g : u # a => w[u] = g[u]
    BY ONLY <1>2, <1>3, <1>4, WithIs
<1> HIDE DEF w, new, h
<1>11. /\ IsGraph(h)
       /\ DOMAIN h = DOMAIN w \cup {b}
       /\ h[b] = VarT(p[1])
       /\ \A u \in DOMAIN w : u # b => h[u] = w[u]
    BY <1>2, <1>3, <1>9, <1>10, WithIs DEF w
<1>12. AreTied(g, h, p, q)
    <2>1. /\ DOMAIN h = DOMAIN g \cup {a, b}
          /\ h[a] = VarT(q[1])
          /\ \A u \in DOMAIN g : u \notin {a, b} => h[u] = g[u]
        BY <1>2, <1>10, <1>11
    <2> QED
        BY <1>11, <2>1 DEF AreTied, a, b
<1>13. IsLoop(g, p) /\ IsLoop(g, q)
    BY DEF g
<1>14. WellFormed(h)
    BY <1>4, <1>12, <1>13, TyingKeeps
<1>15. \A m : m \in Models(h) <=> m \in Models(g) /\ m[p[1]] = m[q[1]]
    BY <1>4, <1>12, <1>13, TyingMeans
<1>16. Meaning(new) = Models(h) /\ Meaning(st) = Models(g)
    BY <1>4, <1>8, MeaningIs DEF h, g
<1>17. Meaning(new) = {m \in Meaning(st) : Sat(m, c)}
    BY <1>15, <1>16
<1>18. Sound(new)
    BY <1>8, <1>14 DEF Sound, h
<1> DEFINE result == Tie(a, q[1], b, p[1])
<1>19. result.ok = TRUE /\ result.push = <<e, f>> /\ result.requery = <<>>
    BY DEF Tie, Pushed, e, f
<1> HIDE DEF result
<1>20. Answers(st, c, result)
    BY <1>17, <1>18, <1>19 DEF Answers, new
<1> QED
    BY <1>20 DEF result, a, b

\* What the operations read of a stack: the state of each variable.
LEMMA StatesAre ==
    ASSUME NEW st, Sound(st), NEW v \in Var
    PROVE  LET s == States(st)[v]
               g == Graph(st)
           IN  IsUnbound(g, v, s) \/ IsOnCycle(g, v, s) \/ IsBound(g, v, s)
<1>1. States(st)[v] = VariableState(st, v)
    BY DEF States
<1> QED
    BY <1>1, StateIs DEF Sound

LEMMA BoundIs ==
    ASSUME NEW st, Sound(st), NEW v, NEW s, IsBound(Graph(st), v, s)
    PROVE  /\ s.kind = "Bound"
           /\ s.val \in Operand /\ s.val.tag = "const" /\ s.val = ConstT(s.val.v)
           /\ \A m \in Meaning(st) : m[v] = s.val.v
<1>1. st \in Seq(PlainEntry) /\ IsGraph(Graph(st))
    BY DEF Sound, WellFormed
<1>2. s.val \in Operand /\ s.val.tag = "const"
    BY <1>1 DEF IsBound, IsChain, IsGraph
<1>3. Meaning(st) = Models(Graph(st))
    BY <1>1, MeaningIs
<1>4. /\ s.kind = "Bound" /\ s.val = Graph(st)[s.path[Len(s.path)]]
      /\ IsChain(Graph(st), s.path) /\ s.path[1] = v
    BY DEF IsBound
<1>5. \A m \in Meaning(st) : m[v] = s.val.v
    BY <1>1, <1>3, <1>4, ChainValue
<1> QED
    BY <1>2, <1>4, <1>5, OperandIs

\* Two walks round cycles share every variable or none; when they share one
\* their variables have the same value.
LEMMA MeetingSame ==
    ASSUME NEW st, Sound(st), NEW p, NEW q,
           IsLoop(Graph(st), p), IsLoop(Graph(st), q),
           Members(p) \cap Members(q) # {}, NEW m \in Meaning(st)
    PROVE  m[p[1]] = m[q[1]]
<1>1. PICK i \in 1 .. Len(p), j \in 1 .. Len(q) : p[i] = q[j]
    BY DEF Members
<1>2. m \in Models(Graph(st))
    BY MeaningIs DEF Sound
<1>3. m[p[i]] = m[p[1]] /\ m[q[j]] = m[q[1]]
    BY <1>2, TrailSame DEF IsLoop
<1> QED
    BY <1>1, <1>3

IsFree(g, v, s) == IsUnbound(g, v, s) \/ IsOnCycle(g, v, s)

\* An unbound variable is on no other's walk.
LEMMA UnboundApart ==
    ASSUME NEW g, NEW u, NEW v, NEW s, NEW t, u # v,
           IsUnbound(g, u, s), IsFree(g, v, t)
    PROVE  Members(s.path) \cap Members(t.path) = {}
<1>1. Len(s.path) \in Nat \ {0} /\ Len(t.path) \in Nat \ {0}
    BY PathFacts DEF IsUnbound, IsFree, IsOnCycle, IsLoop, IsTrail
<1>2. Len(s.path) = 1
    <2> SUFFICES ASSUME Len(s.path) # 1 PROVE FALSE
        OBVIOUS
    <2>1. 1 \in 1 .. Len(s.path) - 1
        BY ONLY <1>1, Len(s.path) # 1, AtLeastTwo
    <2> QED
        BY <2>1 DEF IsUnbound, IsLoop, IsTrail
<1>3. ASSUME NEW j \in 1 .. Len(t.path) PROVE t.path[j] # u
    <2>1. t.path[1] = v /\ IsLoop(g, t.path)
        BY DEF IsFree, IsUnbound, IsOnCycle
    <2>2. CASE Len(t.path) = 1
        BY <1>3, <2>1, <2>2
    <2>3. CASE Len(t.path) # 1
        <3>1. /\ 1 \in 1 .. Len(t.path) - 1
              /\ Len(t.path) - 1 \in 1 .. Len(t.path) - 1
            BY ONLY <1>1, <2>3, AtLeastTwo
        <3>2. j \in 1 .. Len(t.path) - 1 \/ j = Len(t.path)
            BY <1>1
        <3>3. t.path[j] \in DOMAIN g
            BY <2>1, <2>3, <3>2 DEF IsLoop, IsTrail
        <3> QED
            BY <3>3 DEF IsUnbound
    <2> QED
        BY <2>2, <2>3
<1>4. \A x \in Members(s.path) : x = u
    BY <1>2 DEF Members, IsUnbound
<1>5. \A x \in Members(t.path) : x # u
    BY <1>3 DEF Members
<1> QED
    BY <1>4, <1>5

LEMMA FreeIs ==
    ASSUME NEW g, NEW v, NEW s, IsFree(g, v, s)
    PROVE  /\ s.kind \in {"Unbound", "Cycle"}
           /\ s.path[1] = v /\ IsLoop(g, s.path)
           /\ Last(s.path) = s.path[Len(s.path)]
           /\ s.kind = "Unbound" => IsUnbound(g, v, s) /\ Last(s.path) = v
           /\ ToSet(s.path) = Members(s.path)
<1>1. /\ s.path \in Paths /\ s.path[1] = v /\ IsLoop(g, s.path)
      /\ s.kind \in {"Unbound", "Cycle"}
      /\ s.kind = "Unbound" => IsUnbound(g, v, s)
    BY DEF IsFree, IsUnbound, IsOnCycle, IsLoop, IsTrail
<1>2. Len(s.path) \in Nat \ {0} /\ DOMAIN s.path = 1 .. Len(s.path)
    BY <1>1, PathFacts
<1>3. s.kind = "Unbound" => Len(s.path) = 1
    <2> SUFFICES ASSUME s.kind = "Unbound", Len(s.path) # 1 PROVE FALSE
        OBVIOUS
    <2>1. 1 \in 1 .. Len(s.path) - 1
        BY ONLY <1>2, Len(s.path) # 1, AtLeastTwo
    <2> QED
        BY <1>1, <2>1 DEF IsUnbound, IsLoop, IsTrail
<1>4. ToSet(s.path) = Members(s.path)
    BY <1>2 DEF ToSet, Members
<1>5. Last(s.path) = s.path[Len(s.path)]
    BY DEF Last
<1> QED
    BY <1>1, <1>3, <1>4, <1>5

\* bind_variables.
LEMMA VariablesAnswer ==
    ASSUME NEW st, Sound(st), NEW left \in Var, NEW right \in Var,
           NEW c, \A m \in Meaning(st) : Sat(m, c) <=> m[left] = m[right]
    PROVE  Answers(st, c, BindVariables(States(st), left, right))
<1> DEFINE g == Graph(st)
           ls == States(st)[left]
           rs == States(st)[right]
           result == BindVariables(States(st), left, right)
<1>1. CASE left = right
    <2>1. \A m \in Meaning(st) : Sat(m, c)
        BY <1>1
    <2>2. result = Pushed(<<>>)
        BY <1>1 DEF BindVariables
    <2> HIDE DEF result
    <2> QED
        BY <2>1, <2>2, NothingAnswers DEF result
<1>2. CASE left # right
    <2>1. /\ IsFree(g, left, ls) \/ IsBound(g, left, ls)
          /\ IsFree(g, right, rs) \/ IsBound(g, right, rs)
        BY StatesAre DEF IsFree
    <2>2. CASE IsFree(g, left, ls) /\ IsFree(g, right, rs)
        <3>1. /\ ls.kind \in {"Unbound", "Cycle"}
              /\ ls.path[1] = left /\ IsLoop(g, ls.path)
              /\ Last(ls.path) = ls.path[Len(ls.path)]
              /\ ls.kind = "Unbound" => IsUnbound(g, left, ls) /\ Last(ls.path) = left
              /\ ToSet(ls.path) = Members(ls.path)
            BY <2>2, FreeIs
        <3>2. /\ rs.kind \in {"Unbound", "Cycle"}
              /\ rs.path[1] = right /\ IsLoop(g, rs.path)
              /\ Last(rs.path) = rs.path[Len(rs.path)]
              /\ rs.kind = "Unbound" => IsUnbound(g, right, rs) /\ Last(rs.path) = right
              /\ ToSet(rs.path) = Members(rs.path)
            BY <2>2, FreeIs
        <3> DEFINE p == ls.path
                   q == rs.path
        <3>3. \/ ls.kind = "Unbound" /\ rs.kind = "Unbound"
              \/ ls.kind = "Unbound" /\ rs.kind = "Cycle"
              \/ ls.kind = "Cycle" /\ rs.kind = "Unbound"
              \/ ls.kind = "Cycle" /\ rs.kind = "Cycle"
            BY <3>1, <3>2
        <3>4. Members(p) \cap Members(q) = {} =>
                /\ Answers(st, c, Tie(Last(p), right, Last(q), left))
                /\ Answers(st, c, Tie(Last(q), left, Last(p), right))
            <4> SUFFICES ASSUME Members(p) \cap Members(q) = {}
                PROVE /\ Answers(st, c, Tie(Last(p), right, Last(q), left))
                      /\ Answers(st, c, Tie(Last(q), left, Last(p), right))
                OBVIOUS
            <4> HIDE DEF p, q
            <4>1. Members(q) \cap Members(p) = {}
                OBVIOUS
            <4>2. /\ p[1] = left /\ IsLoop(Graph(st), p) /\ Last(p) = p[Len(p)]
                  /\ q[1] = right /\ IsLoop(Graph(st), q) /\ Last(q) = q[Len(q)]
                BY <3>1, <3>2 DEF p, q
            <4>3. \A m \in Meaning(st) : Sat(m, c) <=> m[p[1]] = m[q[1]]
                BY <4>2
            <4>4. \A m \in Meaning(st) : Sat(m, c) <=> m[q[1]] = m[p[1]]
                BY <4>3
            <4>5. Answers(st, c, Tie(p[Len(p)], q[1], q[Len(q)], p[1]))
                BY <4>2, <4>3, TyingAnswers
            <4>6. Answers(st, c, Tie(q[Len(q)], p[1], p[Len(p)], q[1]))
                BY <4>1, <4>2, <4>4, TyingAnswers
            <4> QED
                BY <4>2, <4>5, <4>6
        <3>5. CASE ls.kind = "Unbound" /\ rs.kind = "Unbound"
            <4>1. result = Tie(left, right, right, left)
                BY <1>2, <3>5 DEF BindVariables
            <4>2. Members(p) \cap Members(q) = {}
                BY <1>2, <2>2, <3>1, <3>5, UnboundApart
            <4> HIDE DEF result
            <4> QED
                BY <3>1, <3>2, <3>4, <3>5, <4>1, <4>2 DEF result
        <3>6. CASE ls.kind = "Unbound" /\ rs.kind = "Cycle"
            <4>1. result = Tie(Last(rs.path), left, left, right)
                BY <1>2, <3>6 DEF BindVariables
            <4>2. Members(p) \cap Members(q) = {}
                BY <1>2, <2>2, <3>1, <3>6, UnboundApart
            <4> HIDE DEF result
            <4> QED
                BY <3>1, <3>2, <3>4, <3>6, <4>1, <4>2 DEF result
        <3>7. CASE ls.kind = "Cycle" /\ rs.kind = "Unbound"
            <4>1. result = Tie(Last(ls.path), right, right, left)
                BY <1>2, <3>7 DEF BindVariables
            <4>2. Members(q) \cap Members(p) = {}
                BY <1>2, <2>2, <3>2, <3>7, UnboundApart
            <4>3. Members(p) \cap Members(q) = {}
                BY <4>2
            <4> HIDE DEF result
            <4> QED
                BY <3>1, <3>2, <3>4, <3>7, <4>1, <4>3 DEF result
        <3>8. CASE ls.kind = "Cycle" /\ rs.kind = "Cycle"
            <4>1. result = IF ToSet(ls.path) \cap ToSet(rs.path) # {}
                           THEN Pushed(<<>>)
                           ELSE Tie(Last(ls.path), right, Last(rs.path), left)
                BY <1>2, <3>8 DEF BindVariables
            <4> HIDE DEF result
            <4>2. CASE ToSet(ls.path) \cap ToSet(rs.path) # {}
                <5>1. Members(p) \cap Members(q) # {}
                    BY <3>1, <3>2, <4>2
                <5>2. \A m \in Meaning(st) : m[p[1]] = m[q[1]]
                    BY <3>1, <3>2, <5>1, MeetingSame
                <5>3. \A m \in Meaning(st) : Sat(m, c)
                    BY <3>1, <3>2, <5>2
                <5>4. Answers(st, c, Pushed(<<>>))
                    BY <5>3, NothingAnswers
                <5> QED
                    BY <4>1, <4>2, <5>4 DEF result
            <4>3. CASE ToSet(ls.path) \cap ToSet(rs.path) = {}
                <5>1. Members(p) \cap Members(q) = {}
                    BY <3>1, <3>2, <4>3
                <5> QED
                    BY <3>4, <4>1, <4>3, <5>1 DEF result
            <4> QED
                BY <4>2, <4>3
        <3> QED
            BY <3>3, <3>5, <3>6, <3>7, <3>8
    <2>3. CASE IsFree(g, left, ls) /\ IsBound(g, right, rs)
        <3>1. ls.kind \in {"Unbound", "Cycle"} /\ ls.path[1] = left /\ IsLoop(g, ls.path)
            BY <2>3, FreeIs
        <3>2. /\ rs.kind = "Bound" /\ rs.val \in Operand /\ rs.val.tag = "const"
              /\ \A m \in Meaning(st) : m[right] = rs.val.v
            BY <2>3, BoundIs
        <3>3. result = Pushed(<<Entry(left, rs.val)>>)
            BY <1>2, <3>1, <3>2 DEF BindVariables
        <3>4. \A m \in Meaning(st) : Sat(m, c) <=> m[left] = rs.val.v
            BY <3>2
        <3> HIDE DEF result, ls, rs
        <3>5. Answers(st, c, Pushed(<<Entry(left, rs.val)>>))
            BY <3>1, <3>2, <3>4, BindingAnswers
        <3> QED
            BY <3>3, <3>5 DEF result
    <2>4. CASE IsBound(g, left, ls) /\ IsFree(g, right, rs)
        <3>1. rs.kind \in {"Unbound", "Cycle"} /\ rs.path[1] = right /\ IsLoop(g, rs.path)
            BY <2>4, FreeIs
        <3>2. /\ ls.kind = "Bound" /\ ls.val \in Operand /\ ls.val.tag = "const"
              /\ \A m \in Meaning(st) : m[left] = ls.val.v
            BY <2>4, BoundIs
        <3>3. result = Pushed(<<Entry(right, ls.val)>>)
            BY <1>2, <3>1, <3>2 DEF BindVariables
        <3>4. \A m \in Meaning(st) : Sat(m, c) <=> m[right] = ls.val.v
            BY <3>2
        <3> HIDE DEF result, ls, rs
        <3>5. Answers(st, c, Pushed(<<Entry(right, ls.val)>>))
            BY <3>1, <3>2, <3>4, BindingAnswers
        <3> QED
            BY <3>3, <3>5 DEF result
    <2>5. CASE IsBound(g, left, ls) /\ IsBound(g, right, rs)
        <3>1. /\ ls.kind = "Bound" /\ ls.val = ConstT(ls.val.v)
              /\ \A m \in Meaning(st) : m[left] = ls.val.v
            BY <2>5, BoundIs
        <3>2. /\ rs.kind = "Bound" /\ rs.val = ConstT(rs.val.v)
              /\ \A m \in Meaning(st) : m[right] = rs.val.v
            BY <2>5, BoundIs
        <3>3. result = IF ls.val = rs.val THEN Pushed(<<>>) ELSE Incompatible
            BY <1>2, <3>1, <3>2 DEF BindVariables
        <3> HIDE DEF result, ls, rs
        <3>4. CASE ls.val = rs.val
            <4>1. \A m \in Meaning(st) : Sat(m, c)
                BY <3>1, <3>2, <3>4
            <4> QED
                BY <3>3, <3>4, <4>1, NothingAnswers DEF result
        <3>5. CASE ls.val # rs.val
            <4>1. \A m \in Meaning(st) : ~Sat(m, c)
                BY <3>1, <3>2, <3>5
            <4> QED
                BY <3>3, <3>5, <4>1, RefusingAnswers DEF result
        <3> QED
            BY <3>4, <3>5
    <2> QED
        BY <2>1, <2>2, <2>3, <2>4, <2>5
<1> QED
    BY <1>1, <1>2

\* A goal of a query that is not partial: an equation, or a comparison of two
\* values.
IsPlainGoal(c) == c \in Constraint /\ (c.op = "Unify" \/ IsGround(c))

LEMMA DerefIs ==
    ASSUME NEW st, Sound(st), NEW t \in Operand
    PROVE  LET d == DerefOperand(States(st), t) IN
           /\ d \in Operand
           /\ \A m \in Meaning(st) : Eval(m, t) = Eval(m, d)
           /\ t.tag = "const" => d = t
           /\ t.tag = "var" => \/ d.tag = "const"
                               \/ d = t /\ IsFree(Graph(st), t.v, States(st)[t.v])
<1> DEFINE d == DerefOperand(States(st), t)
           s == States(st)[t.v]
<1>1. CASE t.tag = "const"
    <2>1. d = t
        BY <1>1 DEF DerefOperand
    <2> HIDE DEF d
    <2>2. t.tag # "var"
        BY <1>1
    <2> QED
        BY <1>1, <2>1, <2>2 DEF d
<1>2. CASE t.tag = "var"
    <2>1. t.v \in Var /\ t = VarT(t.v)
        BY <1>2, OperandIs
    <2>2. CASE IsBound(Graph(st), t.v, s)
        <3>1. /\ s.kind = "Bound"
              /\ s.val \in Operand /\ s.val.tag = "const" /\ s.val = ConstT(s.val.v)
              /\ \A m \in Meaning(st) : m[t.v] = s.val.v
            BY <2>2, BoundIs
        <3>2. d = s.val
            BY <1>2, <3>1 DEF DerefOperand
        <3> HIDE DEF d
        <3>3. \A m \in Meaning(st) : Eval(m, t) = Eval(m, d)
            BY <2>1, <3>1, <3>2, EvalIs
        <3>4. t.tag # "const"
            BY <1>2
        <3> QED
            BY <1>2, <3>1, <3>2, <3>3, <3>4 DEF d
    <2>3. CASE IsFree(Graph(st), t.v, s)
        <3>1. s.kind # "Bound"
            BY <2>3, FreeIs
        <3>2. d = t
            BY <3>1 DEF DerefOperand
        <3> HIDE DEF d
        <3> QED
            BY <1>2, <2>3, <3>2 DEF d
    <2> QED
        BY <2>1, <2>2, <2>3, StatesAre DEF IsFree
<1> QED
    BY <1>1, <1>2, OperandIs

\* A free variable gets a value.
LEMMA ValueAnswers ==
    ASSUME NEW st, Sound(st), NEW v \in Var, NEW t \in Operand, t.tag = "const",
           IsFree(Graph(st), v, States(st)[v]),
           NEW c, \A m \in Meaning(st) : Sat(m, c) <=> m[v] = t.v
    PROVE  Answers(st, c, Bind(States(st), v, t))
<1> DEFINE s == States(st)[v]
           result == Bind(States(st), v, t)
<1>1. s.kind \in {"Unbound", "Cycle"} /\ s.path[1] = v /\ IsLoop(Graph(st), s.path)
    BY FreeIs
<1>2. result = Pushed(<<Entry(v, t)>>)
    BY <1>1 DEF Bind
<1> HIDE DEF s, result
<1>3. Answers(st, c, Pushed(<<Entry(v, t)>>))
    BY <1>1, BindingAnswers
<1> QED
    BY <1>2, <1>3 DEF result

LEMMA ComparingAnswers ==
    ASSUME NEW st, Sound(st), NEW c, NEW d,
           \A m \in Meaning(st) : Sat(m, c) <=> Holds(d)
    PROVE  Answers(st, c, Compared(d))
BY NothingAnswers, RefusingAnswers DEF Compared

LEMMA EquationsAnswer ==
    ASSUME NEW st, Sound(st), NEW c \in Constraint, c.op = "Unify"
    PROVE  Answers(st, c, UnifyOperands(States(st), c))
<1> DEFINE dl == DerefOperand(States(st), c.l)
           dr == DerefOperand(States(st), c.r)
           d == Deref(States(st), c)
           result == UnifyOperands(States(st), c)
<1>1. c.l \in Operand /\ c.r \in Operand
    BY DEF Constraint
<1>2. d.l = dl /\ d.r = dr /\ d.op = "Unify"
    BY DEF Deref, Constraint
<1>3. \A m : Sat(m, c) <=> Eval(m, c.l) = Eval(m, c.r)
    BY DEF Sat
<1>4. CASE IsGround(d)
    <2>1. dl.tag = "const" /\ dr.tag = "const" /\ dl \in Operand /\ dr \in Operand
        BY <1>1, <1>2, <1>4, DerefIs DEF IsGround
    <2>2. /\ \A m \in Meaning(st) : Eval(m, c.l) = Eval(m, dl)
          /\ \A m \in Meaning(st) : Eval(m, c.r) = Eval(m, dr)
        BY <1>1, DerefIs
    <2>3. dl = ConstT(dl.v) /\ dr = ConstT(dr.v)
        BY <2>1, OperandIs
    <2>4. Holds(d) <=> dl = dr
        BY <1>2 DEF Holds
    <2>5. result = Compared(d)
        BY <1>4 DEF UnifyOperands
    <2> HIDE DEF result, dl, dr, d
    <2>6. ASSUME NEW m \in Meaning(st) PROVE Sat(m, c) <=> Holds(d)
        <3>1. Eval(m, dl) = dl.v /\ Eval(m, dr) = dr.v
            BY <2>3, EvalIs
        <3> QED
            BY <1>3, <2>2, <2>3, <2>4, <3>1
    <2>7. Answers(st, c, Compared(d))
        BY <2>6, ComparingAnswers
    <2> QED
        BY <2>5, <2>7 DEF result
<1>5. CASE ~IsGround(d) /\ c.l.tag = "var"
    <2>1. c.l = VarT(c.l.v) /\ c.l.v \in Var
        BY <1>1, <1>5, OperandIs
    <2>2. result = Bind(States(st), c.l.v, c.r)
        BY <1>5 DEF UnifyOperands
    <2>3. CASE c.r.tag = "var"
        <3>1. c.r = VarT(c.r.v) /\ c.r.v \in Var
            BY <1>1, <2>3, OperandIs
        <3>2. result = BindVariables(States(st), c.l.v, c.r.v)
            BY <2>2, <2>3 DEF Bind
        <3>3. \A m \in Meaning(st) : Sat(m, c) <=> m[c.l.v] = m[c.r.v]
            BY <1>3, <2>1, <3>1, EvalIs
        <3> HIDE DEF result
        <3>4. Answers(st, c, BindVariables(States(st), c.l.v, c.r.v))
            BY <2>1, <3>1, <3>3, VariablesAnswer
        <3> QED
            BY <3>2, <3>4 DEF result
    <2>4. CASE c.r.tag = "const"
        <3>1. c.r = ConstT(c.r.v)
            BY <1>1, <2>4, OperandIs
        <3>2. dr = c.r
            BY <1>1, <2>4, DerefIs
        <3>3. dl.tag # "const"
            BY <1>2, <1>5, <2>4, <3>2 DEF IsGround
        <3>4. IsFree(Graph(st), c.l.v, States(st)[c.l.v])
            BY <1>1, <1>5, <3>3, DerefIs
        <3>5. \A m \in Meaning(st) : Sat(m, c) <=> m[c.l.v] = c.r.v
            BY <1>3, <2>1, <3>1, EvalIs
        <3> HIDE DEF result
        <3>6. Answers(st, c, Bind(States(st), c.l.v, c.r))
            BY <1>1, <2>1, <2>4, <3>4, <3>5, ValueAnswers
        <3> QED
            BY <2>2, <3>6 DEF result
    <2> QED
        BY <1>1, <2>3, <2>4, OperandIs
<1>6. CASE ~IsGround(d) /\ c.l.tag # "var"
    <2>1. c.l.tag = "const" /\ c.l = ConstT(c.l.v)
        BY <1>1, <1>6, OperandIs
    <2>2. result = Bind(States(st), c.r.v, c.l)
        BY <1>6 DEF UnifyOperands
    <2>3. dl = c.l
        BY <1>1, <2>1, DerefIs
    <2>4. dr.tag # "const"
        BY <1>2, <1>6, <2>1, <2>3 DEF IsGround
    <2>5. c.r.tag = "var"
        BY <1>1, <2>4, OperandIs, DerefIs
    <2>6. c.r = VarT(c.r.v) /\ c.r.v \in Var
        BY <1>1, <2>5, OperandIs
    <2>7. IsFree(Graph(st), c.r.v, States(st)[c.r.v])
        BY <1>1, <2>4, <2>5, DerefIs
    <2>8. \A m \in Meaning(st) : Sat(m, c) <=> m[c.r.v] = c.l.v
        BY <1>3, <2>1, <2>6, EvalIs
    <2> HIDE DEF result
    <2>9. Answers(st, c, Bind(States(st), c.r.v, c.l))
        BY <1>1, <2>1, <2>6, <2>7, <2>8, ValueAnswers
    <2> QED
        BY <2>2, <2>9 DEF result
<1> QED
    BY <1>4, <1>5, <1>6

\* What a goal of a query that is not partial does to the stack.
LEMMA PlainGoalsAnswer ==
    ASSUME NEW st, Sound(st), NEW c, IsPlainGoal(c)
    PROVE  Answers(st, c, Query(States(st), c))
<1>1. c \in Constraint
    BY DEF IsPlainGoal
<1>2. CASE c.op = "Unify"
    <2>1. Query(States(st), c) = UnifyOperands(States(st), c)
        BY <1>2 DEF Query
    <2>2. Answers(st, c, UnifyOperands(States(st), c))
        BY <1>1, <1>2, EquationsAnswer
    <2> QED
        BY <2>1, <2>2
<1>3. CASE c.op # "Unify"
    <2>1. /\ c.l \in Operand /\ c.r \in Operand /\ c.op = "Neq"
          /\ c.l.tag = "const" /\ c.r.tag = "const"
          /\ c = [op |-> c.op, l |-> c.l, r |-> c.r]
        BY <1>1, <1>3 DEF IsPlainGoal, IsGround, Constraint
    <2>2. DerefOperand(States(st), c.l) = c.l /\ DerefOperand(States(st), c.r) = c.r
        BY <2>1, DerefIs
    <2>3. Deref(States(st), c) = c
        BY <2>1, <2>2 DEF Deref
    <2>4. Query(States(st), c) = Compared(c)
        BY <2>1, <2>3 DEF Query, QueryNeq, IsGround
    <2>5. \A m \in Meaning(st) : Sat(m, c) <=> Holds(c)
        <3>1. c.l = ConstT(c.l.v) /\ c.r = ConstT(c.r.v)
            BY <2>1, OperandIs
        <3>2. \A m : Eval(m, c.l) = c.l.v /\ Eval(m, c.r) = c.r.v
            BY <3>1, EvalIs
        <3>3. c.l = c.r <=> c.l.v = c.r.v
            BY <3>1
        <3> QED
            BY <2>1, <3>2, <3>3 DEF Sat, Holds
    <2>6. Answers(st, c, Compared(c))
        BY <2>5, ComparingAnswers
    <2> QED
        BY <2>4, <2>6
<1> QED
    BY <1>2, <1>3

-----------------------------------------------------------------------------
(* The machine, for queries that are not partial.                          *)

PlainGoals == \A c \in Goals : IsPlainGoal(c)

\* The assignments that satisfy what has been told.
Satisfying(t) == {m \in Assignments : \A c \in t : Sat(m, c)}

SnapshotsSound(ch) ==
    \A i \in DOMAIN ch :
        /\ Sound(ch[i].snapshot)
        /\ Meaning(ch[i].snapshot) = Satisfying(ch[i].told)

\* The inductive invariant: nothing hangs in the stack, and it means what has
\* been told, now and at every choice; so nothing is ever queried again.
PlainInv ==
    /\ StackDiscipline
    /\ Sound(stack)
    /\ requery = <<>>
    /\ status \in {"running", "failed", "halted"}
    /\ status = "running" => Meaning(stack) = Satisfying(told)
    /\ status = "failed" => Satisfying(told) = {}
    /\ SnapshotsSound(choices)

LEMMA EmptySound ==
    /\ Sound(<<>>)
    /\ Meaning(<<>>) = Assignments
<1>1. <<>> \in Seq(PlainEntry)
    OBVIOUS
<1>2. \A v : Latest(<<>>, v) = {}
    BY DEF Latest
<1> DEFINE g == Graph(<<>>)
<1>3. DOMAIN g = {} /\ IsGraph(g)
    BY <1>1, <1>2, GraphIs DEF Graph
<1> HIDE DEF g
<1>4. ASSUME NEW v \in Var
      PROVE  \E p : p[1] = v /\ (IsLoop(g, p) \/ IsChain(g, p))
    <2> DEFINE p == [i \in 1 .. 1 |-> v]
    <2>1. p \in [1 .. 1 -> Var] /\ \A i, j \in 1 .. 1 : p[i] = p[j] => i = j
        OBVIOUS
    <2>2. p[1] = v
        OBVIOUS
    <2> HIDE DEF p
    <2>3. p \in Paths /\ Len(p) = 1
        <3>1. 1 \in Nat \ {0}
            OBVIOUS
        <3> QED
            BY ONLY <2>1, <3>1, IsPath
    <2>4. IsLoop(g, p)
        BY <1>3, <2>3 DEF IsLoop, IsTrail
    <2> QED
        BY <2>2, <2>4
<1>5. WellFormed(g)
    BY <1>3, <1>4 DEF WellFormed
<1>6. \A m, v : Fits(<<>>, m, v)
    BY <1>2 DEF Fits
<1> QED
    BY <1>1, <1>5, <1>6 DEF Sound, Meaning, g

LEMMA TellingSatisfies ==
    ASSUME NEW t, NEW c
    PROVE  Satisfying(t \cup {c}) = {m \in Satisfying(t) : Sat(m, c)}
BY DEF Satisfying

\* A goal of the policy narrows what is allowed to what satisfies it.
LEMMA GoalTold ==
    ASSUME PlainGoals, PlainInv, NEW c \in Goals, StateGoal(c)
    PROVE  /\ PlainInv'
           /\ choices' = choices
           /\ status = "running" /\ told' = told \cup {c}
           /\ \/ status' = "running" /\ Meaning(stack)' = {m \in Meaning(stack) : Sat(m, c)}
              \/ status' = "failed" /\ \A m \in Meaning(stack) : ~Sat(m, c)
<1> DEFINE result == Query(States(stack), c)
           rest == <<>>
<1>1. Answers(stack, c, result)
    BY PlainGoalsAnswer DEF PlainGoals, PlainInv
<1>2. ~(c.op = "Neq" /\ ~IsGround(Deref(States(stack), c)))
    <2> SUFFICES ASSUME c.op = "Neq" PROVE IsGround(Deref(States(stack), c))
        OBVIOUS
    <2>1. c \in Constraint /\ IsGround(c)
        BY DEF PlainGoals, IsPlainGoal
    <2>2. c.l \in Operand /\ c.r \in Operand
        BY <2>1 DEF Constraint
    <2>3. DerefOperand(States(stack), c.l) = c.l /\ DerefOperand(States(stack), c.r) = c.r
        BY <2>1, <2>2, DerefIs DEF IsGround, PlainInv
    <2>4. /\ Deref(States(stack), c).l = DerefOperand(States(stack), c.l)
          /\ Deref(States(stack), c).r = DerefOperand(States(stack), c.r)
        BY <2>1 DEF Deref, Constraint
    <2> QED
        BY <2>1, <2>3, <2>4 DEF IsGround
<1>3. StackDiscipline'
    BY TellKeeps DEF StateGoal, PlainInv
<1>4. /\ status = "running" /\ told' = told \cup {c} /\ choices' = choices
      /\ Meaning(stack) = Satisfying(told)
    BY DEF StateGoal, CanState, Tell, PlainInv
<1>5. SnapshotsSound(choices')
    BY <1>4 DEF PlainInv
<1>6. Satisfying(told') = {m \in Satisfying(told) : Sat(m, c)}
    BY <1>4, TellingSatisfies
<1>7. CASE result.ok
    <2>1. /\ stack' = stack \o result.push
          /\ requery' = result.requery \o <<>>
          /\ status' = status
        BY <1>7 DEF StateGoal, Tell
    <2> HIDE DEF result
    <2>2. /\ result.requery = <<>>
          /\ Sound(stack \o result.push)
          /\ Meaning(stack \o result.push) = {m \in Meaning(stack) : Sat(m, c)}
        BY <1>1, <1>7 DEF Answers
    <2>3. requery' = <<>>
        BY <2>1, <2>2
    <2>4. Sound(stack') /\ Meaning(stack') = {m \in Meaning(stack) : Sat(m, c)}
        BY <2>1, <2>2
    <2>5. Meaning(stack') = Satisfying(told')
        BY <1>4, <1>6, <2>4
    <2>6. PlainInv'
        BY <1>3, <1>4, <1>5, <2>1, <2>3, <2>4, <2>5 DEF PlainInv
    <2> QED
        BY <1>4, <2>1, <2>4, <2>6
<1>8. CASE ~result.ok
    <2>1. stack' = stack /\ requery' = requery /\ status' = "failed"
        BY <1>2, <1>8 DEF StateGoal, Tell
    <2> HIDE DEF result
    <2>2. \A m \in Meaning(stack) : ~Sat(m, c)
        BY <1>1, <1>8 DEF Answers
    <2>3. Satisfying(told') = {}
        BY <1>4, <1>6, <2>2
    <2>4. PlainInv'
        BY <1>3, <1>5, <2>1, <2>3 DEF PlainInv
    <2> QED
        BY <1>4, <2>1, <2>2, <2>4
<1> QED
    BY <1>7, <1>8

LEMMA ChoicesAre ==
    ASSUME StackDiscipline
    PROVE  /\ Len(choices) \in Nat /\ DOMAIN choices = 1 .. Len(choices)
           /\ \E S, T : /\ choices \in Seq(Frames(S, T))
                        /\ \A i \in DOMAIN choices : choices[i] \in Frames(S, T)
           /\ \A i \in DOMAIN choices :
                    choices[i].bsp \in Nat /\ choices[i].alternatives \in Nat
           /\ \A i \in DOMAIN choices :
                    SubSeq(stack, 1, choices[i].bsp) = choices[i].snapshot
<1>1. PICK S, T : choices \in Seq(Frames(S, T))
    BY DEF StackDiscipline, Disciplined, AreFrames
<1>2. /\ Len(choices) \in Nat /\ DOMAIN choices = 1 .. Len(choices)
      /\ \A i \in DOMAIN choices : choices[i] \in Frames(S, T)
    BY <1>1, FramesTyped
<1>3. \A i \in DOMAIN choices :
            choices[i].bsp \in Nat /\ choices[i].alternatives \in Nat
    BY <1>2 DEF Frames
<1>4. \A i \in DOMAIN choices :
            SubSeq(stack, 1, choices[i].bsp) = choices[i].snapshot
    BY DEF StackDiscipline, Disciplined, Intact
<1> QED
    BY <1>1, <1>2, <1>3, <1>4

\* The first k choices.
LEMMA FirstChoices ==
    ASSUME StackDiscipline, NEW k \in 0 .. Len(choices)
    PROVE  /\ Len(SubSeq(choices, 1, k)) = k
           /\ DOMAIN SubSeq(choices, 1, k) = 1 .. k
           /\ 1 .. k \subseteq DOMAIN choices
           /\ \A i \in 1 .. k : SubSeq(choices, 1, k)[i] = choices[i]
           /\ \E S, T : SubSeq(choices, 1, k) \in Seq(Frames(S, T))
<1>1. PICK S, T : /\ choices \in Seq(Frames(S, T))
                  /\ \A i \in DOMAIN choices : choices[i] \in Frames(S, T)
    BY ChoicesAre
<1>2. Len(choices) \in Nat /\ DOMAIN choices = 1 .. Len(choices)
    BY ChoicesAre
<1>3. \A i \in 1 .. k : choices[i] \in Frames(S, T)
    BY <1>1, <1>2
<1>4. /\ SubSeq(choices, 1, k) \in Seq(Frames(S, T))
      /\ Len(SubSeq(choices, 1, k)) = k
      /\ \A i \in 1 .. k : SubSeq(choices, 1, k)[i] = choices[i]
    BY <1>2, <1>3, SubSeqProperties
<1>5. DOMAIN SubSeq(choices, 1, k) = 1 .. k
    BY <1>4, LenProperties
<1> QED
    BY <1>2, <1>4, <1>5

LEMMA PushChoicePlain ==
    ASSUME PlainInv, NEW n \in {0, 2}, PushChoice(n)
    PROVE  PlainInv'
<1> DEFINE frame == [bsp |-> Len(stack), alternatives |-> n,
                     snapshot |-> stack, told |-> told]
<1>1. /\ choices' = Append(choices, frame)
      /\ status = "running"
      /\ UNCHANGED <<stack, requery, status, told>>
    BY DEF PushChoice
<1>2. StackDiscipline'
    BY PushChoiceKeeps DEF PlainInv
<1>3. Sound(frame.snapshot) /\ Meaning(frame.snapshot) = Satisfying(frame.told)
    BY <1>1 DEF PlainInv
<1>4. PICK S, T : choices \in Seq(Frames(S, T))
    BY ChoicesAre DEF PlainInv
<1> HIDE DEF frame
<1>5. SnapshotsSound(choices')
    <2>1. choices \in Seq({choices[i] : i \in DOMAIN choices} \cup {frame})
        <3>1. Len(choices) \in Nat /\ DOMAIN choices = 1 .. Len(choices)
              /\ choices = [i \in 1 .. Len(choices) |-> choices[i]]
            BY <1>4, LenProperties
        <3> QED
            BY <3>1, SeqDef
    <2>2. /\ Len(choices') = Len(choices) + 1
          /\ \A i \in 1 .. Len(choices) : choices'[i] = choices[i]
          /\ choices'[Len(choices) + 1] = frame
          /\ DOMAIN choices' = 1 .. Len(choices) + 1
        BY <1>1, <2>1, AppendProperties, LenProperties
    <2>3. Len(choices) \in Nat /\ DOMAIN choices = 1 .. Len(choices)
        BY <1>4, LenProperties
    <2>4. ASSUME NEW i \in DOMAIN choices'
          PROVE  /\ Sound(choices'[i].snapshot)
                 /\ Meaning(choices'[i].snapshot) = Satisfying(choices'[i].told)
        <3>1. CASE i = Len(choices) + 1
            BY <1>3, <2>2, <3>1
        <3>2. CASE i \in DOMAIN choices
            BY <2>2, <2>3, <3>2 DEF PlainInv, SnapshotsSound
        <3> QED
            BY <2>2, <2>3, <2>4, <3>1, <3>2
    <2> QED
        BY <2>4 DEF SnapshotsSound
<1> QED
    BY <1>1, <1>2, <1>5 DEF PlainInv

LEMMA CutPlain ==
    ASSUME PlainInv, NEW i \in 0 .. Len(choices), Cut(i)
    PROVE  PlainInv'
<1>1. choices' = SubSeq(choices, 1, i) /\ UNCHANGED <<stack, requery, status, told>>
    BY DEF Cut
<1>2. StackDiscipline'
    BY CutKeeps DEF PlainInv
<1>3. SnapshotsSound(choices')
    BY <1>1, FirstChoices DEF SnapshotsSound, PlainInv
<1> QED
    BY <1>1, <1>2, <1>3 DEF PlainInv

\* What resuming a choice leaves of the choices: those below it, and the choice
\* itself when it has more alternatives.
LEMMA Resumed ==
    ASSUME StackDiscipline, NEW top \in Open,
           Resume(choices[top], SubSeq(choices, 1, top - 1))
    PROVE  /\ top \in 1 .. Len(choices)
           /\ stack' = choices[top].snapshot
           /\ requery' = <<>> /\ status' = "running" /\ told' = choices[top].told
           /\ \E k \in {top - 1, top} :
                /\ Len(choices') = k /\ DOMAIN choices' = 1 .. k
                /\ \A i \in 1 .. k : /\ choices'[i].bsp = choices[i].bsp
                                     /\ choices'[i].snapshot = choices[i].snapshot
                                     /\ choices'[i].told = choices[i].told
<1> DEFINE below == SubSeq(choices, 1, top - 1)
           frame == [choices[top] EXCEPT !.alternatives = @ - 1]
<1>1. top \in 1 .. Len(choices) /\ choices[top].alternatives \in Nat \ {0}
    BY ChoicesAre DEF Open
<1>2. Len(choices) \in Nat /\ top - 1 \in 0 .. Len(choices) /\ top \in DOMAIN choices
    BY <1>1, ChoicesAre
<1>3. /\ stack' = choices[top].snapshot
      /\ requery' = <<>> /\ status' = "running" /\ told' = choices[top].told
    BY <1>2, ChoicesAre DEF Resume
<1>4. /\ Len(below) = top - 1
      /\ DOMAIN below = 1 .. top - 1
      /\ \A i \in 1 .. top - 1 : below[i] = choices[i]
    BY <1>2, FirstChoices
<1>5. CASE choices[top].alternatives = 1
    <2>1. choices' = below
        BY <1>5 DEF Resume
    <2> HIDE DEF below
    <2> QED
        BY <1>1, <1>3, <1>4, <2>1
<1>6. CASE choices[top].alternatives # 1
    <2>1. choices' = Append(below, frame)
        BY <1>6 DEF Resume
    <2>2. /\ frame.bsp = choices[top].bsp
          /\ frame.snapshot = choices[top].snapshot
          /\ frame.told = choices[top].told
        <3>1. PICK S, T : choices[top] \in Frames(S, T)
            BY <1>2, ChoicesAre
        <3> QED
            BY <3>1 DEF Frames
    <2>3. PICK S, T : below \in Seq(Frames(S, T))
        BY <1>2, FirstChoices
    <2> HIDE DEF below, frame
    <2>4. below \in Seq({below[i] : i \in DOMAIN below} \cup {frame})
        <3>1. Len(below) \in Nat /\ below = [i \in 1 .. Len(below) |-> below[i]]
              /\ DOMAIN below = 1 .. Len(below)
            BY <2>3, LenProperties
        <3> QED
            BY <3>1, SeqDef
    <2>5. /\ Len(choices') = top
          /\ \A i \in 1 .. top - 1 : choices'[i] = below[i]
          /\ choices'[top] = frame
          /\ DOMAIN choices' = 1 .. top
        <3>1. Len(below) + 1 = top
            BY <1>1, <1>2, <1>4
        <3> QED
            BY <1>4, <2>1, <2>4, <3>1, AppendProperties, LenProperties
    <2>6. ASSUME NEW i \in 1 .. top
          PROVE  /\ choices'[i].bsp = choices[i].bsp
                 /\ choices'[i].snapshot = choices[i].snapshot
                 /\ choices'[i].told = choices[i].told
        <3>1. i = top \/ i \in 1 .. top - 1
            BY <1>1, <1>2
        <3> QED
            BY <1>4, <2>2, <2>5, <3>1
    <2> QED
        BY <1>1, <1>3, <2>5, <2>6
<1> QED
    BY <1>5, <1>6

LEMMA BacktrackPlain ==
    ASSUME PlainInv, Backtrack
    PROVE  PlainInv'
<1>1. StackDiscipline'
    BY BacktrackKeeps DEF PlainInv
<1>2. CASE Exhausted
    <2>1. Sound(stack')
        <3>1. CASE choices = <<>>
            BY <1>2, <3>1 DEF Exhausted, PlainInv
        <3>2. CASE choices # <<>>
            <4>1. 1 \in DOMAIN choices
                BY <3>2, ChoicesAre, EmptySeq DEF PlainInv
            <4>2. stack' = choices[1].snapshot
                BY <1>2, <3>2, <4>1, ChoicesAre DEF Exhausted, PlainInv
            <4> QED
                BY <4>1, <4>2 DEF PlainInv, SnapshotsSound
        <3> QED
            BY <3>1, <3>2
    <2>2. requery' = <<>> /\ status' = "halted" /\ choices' = <<>>
        BY <1>2 DEF Exhausted, PlainInv
    <2>3. SnapshotsSound(choices')
        BY <2>2 DEF SnapshotsSound
    <2> QED
        BY <1>1, <2>1, <2>2, <2>3 DEF PlainInv
<1>3. ASSUME NEW top \in Open, Resume(choices[top], SubSeq(choices, 1, top - 1))
      PROVE  PlainInv'
    <2>1. /\ top \in 1 .. Len(choices)
          /\ stack' = choices[top].snapshot
          /\ requery' = <<>> /\ status' = "running" /\ told' = choices[top].told
        BY <1>3, Resumed DEF PlainInv
    <2>2. PICK k \in {top - 1, top} :
                /\ Len(choices') = k /\ DOMAIN choices' = 1 .. k
                /\ \A i \in 1 .. k : /\ choices'[i].bsp = choices[i].bsp
                                     /\ choices'[i].snapshot = choices[i].snapshot
                                     /\ choices'[i].told = choices[i].told
        BY <1>3, Resumed DEF PlainInv
    <2>3. Len(choices) \in Nat /\ DOMAIN choices = 1 .. Len(choices)
        BY ChoicesAre DEF PlainInv
    <2>4. top \in DOMAIN choices /\ \A i \in 1 .. k : i \in DOMAIN choices
        BY <2>1, <2>2, <2>3
    <2>5. Sound(stack') /\ Meaning(stack') = Satisfying(told')
        BY <2>1, <2>4 DEF PlainInv, SnapshotsSound
    <2>6. SnapshotsSound(choices')
        BY <2>2, <2>4 DEF PlainInv, SnapshotsSound
    <2> QED
        BY <1>1, <2>1, <2>5, <2>6 DEF PlainInv
<1> QED
    BY <1>2, <1>3 DEF Backtrack

LEMMA InitPlain == Init => PlainInv
<1> SUFFICES ASSUME Init PROVE PlainInv
    OBVIOUS
<1>1. Satisfying({}) = Assignments
    BY DEF Satisfying
<1>2. SnapshotsSound(<<>>)
    BY DEF SnapshotsSound
<1> QED
    BY <1>1, <1>2, InitDiscipline, EmptySound DEF Init, PlainInv

LEMMA NextPlain ==
    ASSUME PlainGoals
    PROVE  PlainInv /\ [Next]_vars => PlainInv'
<1> SUFFICES ASSUME PlainInv, [Next]_vars PROVE PlainInv'
    OBVIOUS
<1>1. ASSUME NEW c \in Goals, StateGoal(c) PROVE PlainInv'
    BY <1>1, GoalTold
<1>2. CASE Requery
    BY <1>2 DEF Requery, PlainInv
<1>3. ASSUME NEW n \in {0, 2}, PushChoice(n) PROVE PlainInv'
    BY <1>3, PushChoicePlain
<1>4. ASSUME NEW i \in 0 .. Len(choices), Cut(i) PROVE PlainInv'
    BY <1>4, CutPlain
<1>5. CASE Backtrack
    BY <1>5, BacktrackPlain
<1>6. CASE UNCHANGED vars
    BY <1>6 DEF vars, PlainInv, StackDiscipline
<1> QED
    BY <1>1, <1>2, <1>3, <1>4, <1>5, <1>6 DEF Next

LEMMA PlainHolds ==
    ASSUME PlainGoals
    PROVE  Spec => []PlainInv
<1>1. Init => PlainInv
    BY InitPlain
<1>2. PlainInv /\ [Next]_vars => PlainInv'
    BY NextPlain
<1> QED
    BY <1>1, <1>2, PTL DEF Spec

\* In a query that is not partial (equations, and comparisons of values) looking
\* a variable up always ends, however many variables have been unified in
\* whatever order: no chain of entries runs into a cycle
\* (variable_state_at_point).
THEOREM LookingUpEnds ==
    ASSUME PlainGoals
    PROVE  Spec => []LookupEnds
<1>1. PlainInv => LookupEnds
    BY WalkOf DEF PlainInv, Sound, LookupEnds, Ends
<1> QED
    BY <1>1, PlainHolds, PTL

\* Such a query never ends in an IncompatibleBindings error (add_constraint): a
\* constraint that does not fit is a failed branch.
THEOREM NeverIncompatible ==
    ASSUME PlainGoals
    PROVE  Spec => []NoRuntimeError
<1>1. PlainInv => NoRuntimeError
    BY DEF PlainInv, NoRuntimeError
<1> QED
    BY <1>1, PlainHolds, PTL

\* "If the binding was between two variables, the two will always have the same
\* value or constraints going forward" (BindingManager::bind): so it is in a query
\* that is not partial.
THEOREM UnifiedStayEqual ==
    ASSUME PlainGoals
    PROVE  Spec => []UnifiedAgree
<1>1. PlainInv => UnifiedAgree
    <2> SUFFICES ASSUME PlainInv,
                        NEW c \in told, c.op = "Unify", NEW m \in Allowed
                 PROVE  Eval(m, c.l) = Eval(m, c.r)
        BY DEF UnifiedAgree
    <2>1. m \in Meaning(stack) /\ status = "running"
        BY DEF Allowed
    <2>2. Sat(m, c)
        BY <2>1 DEF PlainInv, Satisfying
    <2> QED
        BY <2>2 DEF Sat
<1> QED
    BY <1>1, PlainHolds, PTL

-----------------------------------------------------------------------------
(* Such a query has the store it is promised.                              *)

\* What the choices have saved.
Saved(ch) ==
    [i \in DOMAIN ch |->
        [told |-> ch[i].told, models |-> Meaning(ch[i].snapshot)]]

SavedInStore ==
    [i \in DOMAIN choices |->
        [told |-> choices[i].told,
         models |-> Meaning(SubSeq(stack, 1, choices[i].bsp))]]

LEMMA SavedIs == StackDiscipline => SavedInStore = Saved(choices)
BY ChoicesAre DEF SavedInStore, Saved

LEMMA AllowedIs ==
    PlainInv => Allowed = IF status = "running" THEN Meaning(stack) ELSE {}
<1>1. \A m : SatAll(m, <<>>)
    BY DEF SatAll
<1> QED
    BY <1>1 DEF PlainInv, Allowed

LEMMA StoreWords ==
    /\ Store!Constraint = Constraint
    /\ Store!Assignments = Assignments
    /\ \A m, c : Store!Sat(m, c) = Sat(m, c)
BY DEF Store!Constraint, Store!Assignments, Store!Sat, Store!Eval, Store!Operand,
       Constraint, Assignments, Sat, Eval, Operand

LEMMA InitStore == Init => Store!StoreInit
<1> SUFFICES ASSUME Init PROVE Store!StoreInit
    OBVIOUS
<1>1. PlainInv
    BY InitPlain
<1>2. Allowed = Assignments
    BY <1>1, AllowedIs, EmptySound DEF Init
<1>3. SavedInStore = <<>>
    BY DEF SavedInStore, Init
<1> QED
    BY <1>2, <1>3, StoreWords DEF Store!StoreInit, SavedInStore, Init

\* The same of the state a step leads to.
LEMMA SavedThen == (StackDiscipline => SavedInStore = Saved(choices))'
BY SavedIs, PTL

LEMMA AllowedThen ==
    (PlainInv => Allowed = IF status = "running" THEN Meaning(stack) ELSE {})'
BY AllowedIs, PTL

\* A goal of the policy is a constraint told.
LEMMA GoalStore ==
    ASSUME PlainGoals, PlainInv, NEW c \in Goals, StateGoal(c)
    PROVE  Store!Tell
<1>1. /\ PlainInv' /\ choices' = choices
      /\ status = "running" /\ told' = told \cup {c}
      /\ \/ status' = "running" /\ Meaning(stack)' = {m \in Meaning(stack) : Sat(m, c)}
         \/ status' = "failed" /\ \A m \in Meaning(stack) : ~Sat(m, c)
    BY GoalTold
<1>2. SavedInStore' = SavedInStore
    <2>1. SavedInStore = Saved(choices)
        BY SavedIs DEF PlainInv
    <2>2. SavedInStore' = Saved(choices)'
        BY <1>1, SavedThen DEF PlainInv
    <2>3. Saved(choices)' = Saved(choices)
        BY <1>1 DEF Saved
    <2> QED
        BY <2>1, <2>2, <2>3
<1>3. Allowed = Meaning(stack)
    BY <1>1, AllowedIs
<1>4. Allowed' = IF status' = "running" THEN Meaning(stack)' ELSE {}
    BY <1>1, AllowedThen
<1>5. Allowed' = {m \in Allowed : Sat(m, c)}
    BY <1>1, <1>3, <1>4
<1>6. c \in Constraint
    BY DEF PlainGoals, IsPlainGoal
<1> QED
    BY <1>1, <1>2, <1>5, <1>6, StoreWords DEF Store!Tell, SavedInStore

\* Choices that begin with the same stacks have saved the same.
LEMMA SavedFirst ==
    ASSUME NEW ch, NEW n \in Nat, DOMAIN ch = 1 .. n,
           NEW some, NEW k \in 0 .. n, DOMAIN some = 1 .. k,
           \A i \in 1 .. k : some[i].told = ch[i].told
                             /\ some[i].snapshot = ch[i].snapshot
    PROVE  /\ Len(Saved(ch)) = n
           /\ DOMAIN Saved(ch) = 1 .. n
           /\ Saved(some) = SubSeq(Saved(ch), 1, k)
<1> DEFINE s == Saved(ch)
           t == Saved(some)
           T == {s[i] : i \in 1 .. n}
<1>1. /\ s = [i \in 1 .. n |-> s[i]] /\ t = [i \in 1 .. k |-> t[i]]
      /\ \A i \in 1 .. k : i \in 1 .. n /\ t[i] = s[i]
    BY DEF Saved
<1> HIDE DEF s, t
<1>2. s \in [1 .. n -> T] /\ t \in [1 .. k -> T]
    BY <1>1
<1>3. k \in Nat
    OBVIOUS
<1>4. \A i \in 1 .. n : s[i] \in T
    OBVIOUS
<1> HIDE DEF T
<1>5. s \in Seq(T) /\ t \in Seq(T)
    BY <1>2, <1>3, SeqDef
<1>6. Len(s) = n /\ Len(t) = k /\ DOMAIN s = 1 .. n
    BY <1>2, <1>3, <1>5, LenProperties
<1>7. /\ SubSeq(s, 1, k) \in Seq(T)
      /\ Len(SubSeq(s, 1, k)) = k
      /\ \A i \in 1 .. k : SubSeq(s, 1, k)[i] = s[i]
    <2>1. \A i \in 1 .. k : s[i] \in T
        BY <1>1, <1>4
    <2> QED
        BY <1>3, <2>1, SubSeqProperties
<1>8. t = SubSeq(s, 1, k)
    <2>1. \A i \in 1 .. Len(t) : t[i] = SubSeq(s, 1, k)[i]
        BY <1>1, <1>6, <1>7
    <2>2. Len(t) = Len(SubSeq(s, 1, k))
        BY <1>6, <1>7
    <2> QED
        BY ONLY <1>5, <1>7, <2>1, <2>2, SeqEqual
<1> QED
    BY <1>6, <1>8 DEF s, t

LEMMA ChoiceStore ==
    ASSUME PlainInv, NEW n \in {0, 2}, PushChoice(n), PlainInv'
    PROVE  Store!Choose
<1> DEFINE frame == [bsp |-> Len(stack), alternatives |-> n,
                     snapshot |-> stack, told |-> told]
           point == [told |-> told, models |-> Meaning(stack)]
<1>1. /\ choices' = Append(choices, frame)
      /\ status = "running" /\ stack' = stack /\ status' = status /\ told' = told
    BY DEF PushChoice
<1>2. Allowed = Meaning(stack) /\ Allowed' = Meaning(stack)
    <2>1. Meaning(stack)' = Meaning(stack)
        BY <1>1 DEF Meaning, Fits, Latest
    <2> QED
        BY <1>1, <2>1, AllowedIs, AllowedThen
<1>3. SavedInStore = Saved(choices) /\ SavedInStore' = Saved(choices)'
    BY SavedIs, SavedThen DEF PlainInv
<1>4. Len(choices) \in Nat /\ DOMAIN choices = 1 .. Len(choices)
    BY ChoicesAre DEF PlainInv
<1>5. /\ DOMAIN choices' = 1 .. Len(choices) + 1
      /\ \A i \in 1 .. Len(choices) : choices'[i] = choices[i]
      /\ choices'[Len(choices) + 1] = frame
    <2>1. choices \in Seq({choices[i] : i \in DOMAIN choices} \cup {frame})
        <3>1. choices = [i \in 1 .. Len(choices) |-> choices[i]]
            BY <1>4, ChoicesAre, LenProperties DEF PlainInv
        <3> QED
            BY <1>4, <3>1, SeqDef
    <2> QED
        BY <1>1, <2>1, AppendProperties, LenProperties
<1>6. Saved(choices)' = Append(Saved(choices), point)
    <2> DEFINE s == Saved(choices)
               t == Saved(choices)'
               m == Len(choices)
               T == {s[i] : i \in 1 .. m} \cup {point}
    <2>1. /\ s = [i \in 1 .. m |-> s[i]]
          /\ t = [i \in 1 .. m + 1 |-> t[i]]
          /\ \A i \in 1 .. m : t[i] = s[i]
          /\ t[m + 1] = point
        BY <1>4, <1>5 DEF Saved
    <2>2. m \in Nat
        BY <1>4
    <2> HIDE DEF s, t, m, point
    <2>3. s \in [1 .. m -> T]
        BY <2>1
    <2>4. t \in [1 .. m + 1 -> T]
        <3>1. ASSUME NEW i \in 1 .. m + 1 PROVE t[i] \in T
            <4>1. i \in 1 .. m \/ i = m + 1
                BY <2>2
            <4> QED
                BY <2>1, <4>1
        <3> QED
            BY <2>1, <3>1
    <2>5. point \in T
        OBVIOUS
    <2> HIDE DEF T
    <2>6. s \in Seq(T) /\ t \in Seq(T)
        BY <2>2, <2>3, <2>4, SeqDef
    <2>7. Len(s) = m /\ Len(t) = m + 1
        BY <2>2, <2>3, <2>4, <2>6, LenProperties
    <2>8. /\ Append(s, point) \in Seq(T)
          /\ Len(Append(s, point)) = m + 1
          /\ \A i \in 1 .. m : Append(s, point)[i] = s[i]
          /\ Append(s, point)[m + 1] = point
        BY <2>5, <2>6, <2>7, AppendProperties
    <2>9. ASSUME NEW i \in 1 .. m + 1 PROVE t[i] = Append(s, point)[i]
        <3>1. i \in 1 .. m \/ i = m + 1
            BY <2>2
        <3> QED
            BY <2>1, <2>8, <3>1
    <2> QED
        BY <2>6, <2>7, <2>8, <2>9, SeqEqual DEF s, t
<1> QED
    BY <1>1, <1>2, <1>3, <1>6 DEF Store!Choose, SavedInStore

LEMMA CutStore ==
    ASSUME PlainInv, NEW i \in 0 .. Len(choices), Cut(i), PlainInv'
    PROVE  i \in 0 .. Len(SavedInStore) /\ Store!Commit(i)
<1>1. /\ choices' = SubSeq(choices, 1, i)
      /\ stack' = stack /\ status' = status /\ told' = told
    BY DEF Cut
<1>2. Allowed' = Allowed
    <2>1. Meaning(stack)' = Meaning(stack)
        BY <1>1 DEF Meaning, Fits, Latest
    <2>2. Allowed = IF status = "running" THEN Meaning(stack) ELSE {}
        BY AllowedIs
    <2>3. Allowed' = IF status' = "running" THEN Meaning(stack)' ELSE {}
        BY AllowedThen
    <2> QED
        BY <1>1, <2>1, <2>2, <2>3
<1>3. SavedInStore = Saved(choices) /\ SavedInStore' = Saved(choices)'
    BY SavedIs, SavedThen DEF PlainInv
<1>4. Len(choices) \in Nat /\ DOMAIN choices = 1 .. Len(choices)
    BY ChoicesAre DEF PlainInv
<1>5. /\ DOMAIN choices' = 1 .. i
      /\ \A j \in 1 .. i : choices'[j] = choices[j]
    BY <1>1, FirstChoices DEF PlainInv
<1>6. Len(Saved(choices)) = Len(choices) /\ Saved(choices') = SubSeq(Saved(choices), 1, i)
    BY <1>4, <1>5, SavedFirst
<1>7. Saved(choices)' = Saved(choices')
    BY <1>1 DEF Saved, Meaning, Fits, Latest
<1> QED
    BY <1>1, <1>2, <1>3, <1>6, <1>7 DEF Store!Commit, SavedInStore

LEMMA ResumeStore ==
    ASSUME PlainInv, NEW top \in Open,
           Resume(choices[top], SubSeq(choices, 1, top - 1)), PlainInv'
    PROVE  top \in DOMAIN SavedInStore /\ Store!RollBack(top)
<1>1. /\ top \in 1 .. Len(choices)
      /\ stack' = choices[top].snapshot
      /\ status' = "running" /\ told' = choices[top].told
    BY Resumed DEF PlainInv
<1>2. PICK k \in {top - 1, top} :
            /\ DOMAIN choices' = 1 .. k
            /\ \A i \in 1 .. k : /\ choices'[i].snapshot = choices[i].snapshot
                                 /\ choices'[i].told = choices[i].told
    BY Resumed DEF PlainInv
<1>3. SavedInStore = Saved(choices) /\ SavedInStore' = Saved(choices)'
    BY SavedIs, SavedThen DEF PlainInv
<1>4. Len(choices) \in Nat /\ DOMAIN choices = 1 .. Len(choices)
    BY ChoicesAre DEF PlainInv
<1>5. k \in 0 .. Len(choices)
    BY <1>1, <1>2, <1>4
<1>6. Saved(choices') = SubSeq(Saved(choices), 1, k)
    BY <1>2, <1>4, <1>5, SavedFirst
<1>7. Saved(choices)' = Saved(choices')
    BY DEF Saved, Meaning, Fits, Latest
<1>8. /\ Saved(choices)[top].told = choices[top].told
      /\ Saved(choices)[top].models = Meaning(choices[top].snapshot)
      /\ top \in DOMAIN Saved(choices)
    BY <1>1, <1>4 DEF Saved
<1>9. Allowed' = Saved(choices)[top].models
    <2>1. Allowed' = IF status' = "running" THEN Meaning(stack)' ELSE {}
        BY AllowedThen
    <2>2. Meaning(stack)' = Meaning(stack')
        BY DEF Meaning, Fits, Latest
    <2> QED
        BY <1>1, <1>8, <2>1, <2>2
<1> DEFINE s == Saved(choices)
<1>10. /\ top \in DOMAIN s
       /\ told' = s[top].told
       /\ Allowed' = s[top].models
       /\ SavedInStore' \in {SubSeq(s, 1, top - 1), SubSeq(s, 1, top)}
    BY <1>1, <1>2, <1>3, <1>6, <1>7, <1>8, <1>9
<1>11. SavedInStore = s
    BY <1>3
<1> HIDE DEF s
<1> QED
    BY <1>10, <1>11 DEF Store!RollBack, SavedInStore

LEMMA EndStore ==
    ASSUME PlainInv, Exhausted, PlainInv'
    PROVE  Store!GiveUp
<1>1. status' = "halted" /\ choices' = <<>> /\ told' = told
    BY DEF Exhausted
<1>2. Allowed' = {}
    BY <1>1 DEF Allowed
<1>3. SavedInStore' = <<>>
    BY <1>1 DEF SavedInStore
<1> QED
    BY <1>1, <1>2, <1>3 DEF Store!GiveUp, SavedInStore

\* Such a query has the store of constraints it is promised, for any nesting of
\* choices, cuts and failures: no constraint told is lost and none is invented, a
\* bind fails only when nothing is left, and backtracking restores what was
\* allowed at the choice.
THEOREM StoreImplemented ==
    ASSUME PlainGoals
    PROVE  Spec => ImplementsStore
<1>1. Init => Store!StoreInit
    BY InitStore
<1>2. PlainInv /\ PlainInv' /\ [Next]_vars => [Store!StoreNext]_(Store!storeVars)
    <2> SUFFICES ASSUME PlainInv, PlainInv', [Next]_vars
                 PROVE  [Store!StoreNext]_(Store!storeVars)
        OBVIOUS
    <2>1. ASSUME NEW c \in Goals, StateGoal(c) PROVE Store!StoreNext
        BY <2>1, GoalStore DEF Store!StoreNext
    <2>2. CASE Requery
        BY <2>2 DEF Requery, PlainInv
    <2>3. ASSUME NEW n \in {0, 2}, PushChoice(n) PROVE Store!StoreNext
        BY <2>3, ChoiceStore DEF Store!StoreNext
    <2>4. ASSUME NEW i \in 0 .. Len(choices), Cut(i) PROVE Store!StoreNext
        BY <2>4, CutStore DEF Store!StoreNext, SavedInStore
    <2>5. CASE Backtrack
        <3>1. CASE Exhausted
            BY <3>1, EndStore DEF Store!StoreNext
        <3>2. ASSUME NEW top \in Open,
                     Resume(choices[top], SubSeq(choices, 1, top - 1))
              PROVE  Store!StoreNext
            BY <3>2, ResumeStore DEF Store!StoreNext, SavedInStore
        <3> QED
            BY <2>5, <3>1, <3>2 DEF Backtrack
    <2>6. CASE UNCHANGED vars
        BY <2>6 DEF vars, Store!storeVars, Allowed, Meaning, Fits, Latest
    <2> QED
        BY <2>1, <2>2, <2>3, <2>4, <2>5, <2>6 DEF Next
<1> QED
    BY <1>1, <1>2, PlainHolds, PTL
    DEF Spec, ImplementsStore, Store!StoreSpec

-----------------------------------------------------------------------------
(* Types.  This holds of all queries, also of partial ones.                *)

IsPicked(upTo, m, p, places) ==
    upTo = [n \in 0 .. m |->
                IF n = 0 THEN <<>>
                ELSE IF n \in places THEN Append(upTo[n - 1], p[n]) ELSE upTo[n - 1]]

\* The recursive function of Picked exists: one of m items gives one of m + 1.
LEMMA PickedExists ==
    ASSUME NEW p, NEW places, NEW m \in Nat
    PROVE  \E upTo : IsPicked(upTo, m, p, places)
<1> DEFINE T == {n \in Nat : ~ \E upTo : IsPicked(upTo, n, p, places)}
           After(last, n) == IF n \in places THEN Append(last, p[n]) ELSE last
<1> SUFFICES ASSUME T # {} PROVE FALSE
    OBVIOUS
<1>1. PICK n \in T : \A j \in T : n <= j
    BY HasLeast
<1>2. CASE n = 0
    <2>1. IsPicked([i \in 0 .. 0 |-> <<>>], 0, p, places)
        BY DEF IsPicked
    <2> QED
        BY <1>2, <2>1
<1>3. CASE n # 0
    <2>1. n - 1 \in Nat /\ n - 1 \notin T
        BY <1>1, <1>3
    <2>2. PICK before : IsPicked(before, n - 1, p, places)
        BY <2>1
    <2> DEFINE upTo == [i \in 0 .. n |-> IF i = n THEN After(before[n - 1], n) ELSE before[i]]
               expected == [i \in 0 .. n |-> IF i = 0 THEN <<>> ELSE After(upTo[i - 1], i)]
    <2> HIDE DEF After
    <2>3. before = [i \in 0 .. n - 1 |-> IF i = 0 THEN <<>> ELSE After(before[i - 1], i)]
        BY <2>2 DEF IsPicked, After
    <2>4. ASSUME NEW i \in 0 .. n PROVE upTo[i] = expected[i]
        <3>1. CASE i = 0
            BY <1>3, <2>1, <2>3, <3>1
        <3>2. CASE i # 0 /\ i # n
            <4>1. i \in 0 .. n - 1 /\ i - 1 \in 0 .. n - 1 /\ i - 1 # n
                BY <3>2
            <4>2. before[i] = After(before[i - 1], i)
                BY <2>3, <3>2, <4>1
            <4>3. upTo[i - 1] = before[i - 1]
                BY <4>1
            <4> QED
                BY <3>2, <4>2, <4>3
        <3>3. CASE i # 0 /\ i = n
            <4>1. upTo[i - 1] = before[i - 1]
                BY <3>3
            <4> QED
                BY <3>3, <4>1
        <3> QED
            BY <3>1, <3>2, <3>3
    <2>5. upTo = expected
        BY <2>4
    <2>6. IsPicked(upTo, n, p, places)
        BY <2>5 DEF IsPicked, After
    <2> QED
        BY <2>6
<1> QED
    BY <1>2, <1>3

\* What is picked of a sequence is a sequence of such items.
LEMMA PickedTyped ==
    ASSUME NEW S, NEW p \in Seq(S), NEW places
    PROVE  Picked(p, places) \in Seq(S)
<1> DEFINE upTo == CHOOSE f : IsPicked(f, Len(p), p, places)
<1>1. Len(p) \in Nat /\ DOMAIN p = 1 .. Len(p)
    BY LenProperties
<1>2. Picked(p, places) = upTo[Len(p)]
    BY DEF Picked, IsPicked
<1>3. IsPicked(upTo, Len(p), p, places)
    BY <1>1, PickedExists
<1> HIDE DEF upTo
<1> DEFINE T == {n \in 0 .. Len(p) : upTo[n] \notin Seq(S)}
<1>4. ASSUME T # {} PROVE FALSE
    <2>1. PICK n \in T : \A j \in T : n <= j
        <3>1. T \in SUBSET Nat
            BY <1>1
        <3> HIDE DEF T
        <3> QED
            BY <1>4, <3>1, HasLeast
    <2>2. CASE n = 0
        <3>1. upTo[0] = <<>>
            BY <1>1, <1>3 DEF IsPicked
        <3>2. <<>> \in Seq(S)
            OBVIOUS
        <3> QED
            BY <2>2, <3>1, <3>2
    <2>3. CASE n # 0
        <3>1. n - 1 \in 0 .. Len(p) /\ n - 1 \notin T /\ n \in DOMAIN p
            BY <1>1, <2>1, <2>3
        <3>2. upTo[n - 1] \in Seq(S)
            BY <3>1
        <3>3. upTo[n] = IF n \in places THEN Append(upTo[n - 1], p[n]) ELSE upTo[n - 1]
            BY <1>3, <2>3 DEF IsPicked
        <3>4. p[n] \in S
            BY <1>1, <3>1
        <3>5. Append(upTo[n - 1], p[n]) \in Seq(S)
            BY <3>2, <3>4, AppendProperties
        <3> QED
            BY <2>1, <3>2, <3>3, <3>5
    <2> QED
        BY <2>2, <2>3
<1> QED
    BY <1>1, <1>2, <1>4

LEMMA MergeTyped ==
    ASSUME NEW p \in Conjunction, NEW q \in Conjunction
    PROVE  Merge(p, q) \in Conjunction
<1> DEFINE places == {i \in DOMAIN q :
                        q[i] \notin ToSet(p) /\ \A j \in 1 .. i - 1 : q[j] # q[i]}
<1>1. Picked(q, places) \in Seq(Constraint)
    BY PickedTyped DEF Conjunction
<1>2. Merge(p, q) = p \o Picked(q, places)
    BY DEF Merge
<1> HIDE DEF places
<1> QED
    BY <1>1, <1>2, ConcatProperties DEF Conjunction

\* A constraint with values put in.
AreValues(env) == \A v \in DOMAIN env : env[v] \in Operand

LEMMA SubstTyped ==
    ASSUME NEW c \in Constraint, NEW env, AreValues(env)
    PROVE  SubstIn(c, env) \in Constraint
<1>1. \A t \in Operand : Subst(t, env) \in Operand
    BY DEF Subst, AreValues
<1>2. c.l \in Operand /\ c.r \in Operand
    BY DEF Constraint
<1>3. Subst(c.l, env) \in Operand /\ Subst(c.r, env) \in Operand
    BY <1>1, <1>2
<1> QED
    BY <1>3 DEF SubstIn, Constraint

LEMMA GroundedTyped ==
    ASSUME NEW p \in Conjunction, NEW env, AreValues(env)
    PROVE  Grounded(p, env) \in Conjunction
<1> DEFINE q == [i \in DOMAIN p |-> SubstIn(p[i], env)]
<1>1. Len(p) \in Nat /\ DOMAIN p = 1 .. Len(p) /\ \A i \in DOMAIN p : p[i] \in Constraint
    BY LenProperties DEF Conjunction
<1>2. q \in [1 .. Len(p) -> Constraint]
    BY <1>1, SubstTyped
<1>3. q \in Seq(Constraint)
    BY <1>1, <1>2, SeqDef
<1>4. \A places : Picked(q, places) \in Seq(Constraint)
    BY <1>3, PickedTyped
<1> HIDE DEF q
<1> QED
    BY <1>4 DEF Grounded, Conjunction, q

\* What is known of a variable.
IsState(s) ==
    /\ s.kind \in {"Loops", "Unbound", "Cycle", "Bound", "Partial"}
    /\ s.kind \in {"Unbound", "Cycle"} => s.path \in Paths
    /\ s.kind = "Bound" => s.val \in Operand
    /\ s.kind = "Partial" => s.val.v \in Conjunction

LEMMA StateTyped ==
    ASSUME NEW st \in Seq(Binding), NEW v \in Var
    PROVE  IsState(VariableState(st, v))
<1> DEFINE path == CHOOSE p \in Walks(st, v) : TRUE
           latest == Latest(st, path[Len(path)])
           val == st[CHOOSE i \in latest : TRUE].val
           kind == CASE val.tag = "const" -> "Bound"
                     [] val.tag = "partial" -> "Partial"
                     [] OTHER -> "Cycle"
<1>1. CASE ~Ends(st, v)
    BY <1>1 DEF VariableState, IsState
<1>2. CASE Ends(st, v)
    <2>1. path \in Paths
        BY <1>2 DEF Ends, Walks
    <2> HIDE DEF path
    <2>2. VariableState(st, v) =
                IF latest = {} THEN [kind |-> "Unbound", path |-> path]
                ELSE [kind |-> kind, path |-> path, val |-> val]
        BY <1>2 DEF VariableState, path
    <2>3. ASSUME latest # {}
          PROVE  \/ val \in Operand /\ kind \in {"Bound", "Cycle"}
                 \/ val.v \in Conjunction /\ kind = "Partial"
        <3>1. PICK i \in latest : val = st[i].val
            BY <2>3
        <3>2. st[i] \in Binding
            BY <3>1, LatestTyped
        <3>3. val \in Value
            BY <3>1, <3>2 DEF Binding
        <3> HIDE DEF val
        <3> QED
            BY <3>3 DEF Value, Operand
    <2> HIDE DEF latest, val, kind
    <2> QED
        BY <2>1, <2>2, <2>3 DEF IsState
<1> QED
    BY <1>1, <1>2

AreStates(state) == \A v \in Var : IsState(state[v])

LEMMA StatesTyped ==
    ASSUME NEW st \in Seq(Binding)
    PROVE  AreStates(States(st))
BY StateTyped DEF States, AreStates

\* What an operation pushes are entries, and what it hands back constraints.
IsAnswer(result) == result.push \in Seq(Binding) /\ result.requery \in Conjunction

LEMMA NoEntries == <<>> \in Seq(Binding) /\ <<>> \in Conjunction
BY DEF Conjunction

LEMMA NothingTyped == IsAnswer(Pushed(<<>>)) /\ IsAnswer(Incompatible)
BY NoEntries DEF IsAnswer, Pushed, Incompatible

LEMMA OneTyped ==
    ASSUME NEW e \in Binding, NEW p \in Conjunction
    PROVE  IsAnswer(Pushed(<<e>>)) /\ IsAnswer(Requeried(<<e>>, p))
<1>1. <<e>> \in Seq(Binding)
    OBVIOUS
<1> QED
    BY <1>1, NoEntries DEF IsAnswer, Pushed, Requeried

LEMMA TwoTyped ==
    ASSUME NEW e \in Binding, NEW f \in Binding, NEW p \in Conjunction
    PROVE  IsAnswer(Pushed(<<e, f>>)) /\ IsAnswer(Requeried(<<e, f>>, p))
<1>1. <<e, f>> \in Seq(Binding)
    OBVIOUS
<1> QED
    BY <1>1, NoEntries DEF IsAnswer, Pushed, Requeried

LEMMA EntryTyped ==
    /\ \A v \in Var, val \in Value : Entry(v, val) \in Binding
    /\ \A v \in Var : VarT(v) \in Operand
    /\ \A p \in Conjunction : PartialT(p) \in Value
    /\ Operand \subseteq Value
    /\ \A l, r \in Operand : Unify(l, r) \in Constraint
BY DEF Entry, Binding, VarT, Operand, PartialT, Value, Unify, Constraint

LEMMA PartialBindTyped ==
    ASSUME NEW p \in Conjunction, NEW v \in Var, NEW val \in Operand
    PROVE  IsAnswer(PartialBind(p, v, val))
<1> DEFINE env == [x \in {v} |-> val]
<1>1. AreValues(env)
    BY DEF AreValues
<1>2. Grounded(p, env) \in Conjunction
    BY <1>1, GroundedTyped
<1>3. Entry(v, val) \in Binding
    BY EntryTyped
<1> HIDE DEF env
<1> QED
    BY <1>2, <1>3, OneTyped, NothingTyped DEF PartialBind, env

LEMMA CycleTyped ==
    ASSUME NEW path \in Paths
    PROVE  CycleConstraints(path) \in Conjunction
<1>1. Len(path) \in Nat \ {0} /\ path \in [1 .. Len(path) -> Var]
    BY PathFacts
<1>2. \A i \in 1 .. Len(path) - 1 :
            Unify(VarT(path[i]), VarT(path[i + 1])) \in Constraint
    BY <1>1, EntryTyped
<1>3. CycleConstraints(path) \in [1 .. Len(path) - 1 -> Constraint]
    BY <1>2 DEF CycleConstraints
<1> QED
    BY <1>1, <1>3, SeqDef DEF Conjunction

LEMMA ConstraintsOnTyped ==
    ASSUME NEW state, AreStates(state), NEW t \in Operand
    PROVE  ConstraintsOn(state, t) \in Conjunction
<1>1. CASE t.tag = "const"
    BY <1>1, NoEntries DEF ConstraintsOn
<1>2. CASE t.tag # "const"
    <2>1. t.v \in Var
        BY <1>2, OperandIs
    <2>2. IsState(state[t.v])
        BY <2>1 DEF AreStates
    <2> QED
        BY <1>2, <2>2, CycleTyped, NoEntries DEF ConstraintsOn, IsState
<1> QED
    BY <1>1, <1>2

LEMMA ConstrainTyped ==
    ASSUME NEW them \in SUBSET Var, IsFiniteSet(them), NEW p \in Conjunction
    PROVE  IsAnswer(Constrain(them, p))
<1> DEFINE seq == SetToSeq(them)
           push == [i \in DOMAIN seq |-> Entry(seq[i], PartialT(p))]
<1>1. seq \in Seq(them)
    BY SetToSeqType
<1> HIDE DEF seq
<1>2. Len(seq) \in Nat /\ DOMAIN seq = 1 .. Len(seq) /\ \A i \in DOMAIN seq : seq[i] \in Var
    BY <1>1, LenProperties
<1>3. push \in [1 .. Len(seq) -> Binding]
    BY <1>2, EntryTyped
<1>4. push \in Seq(Binding)
    BY <1>2, <1>3, SeqDef
<1> QED
    BY <1>4, NoEntries DEF Constrain, Pushed, IsAnswer, seq

LEMMA AddConstraintTyped ==
    ASSUME NEW state, AreStates(state), NEW c \in Constraint
    PROVE  IsAnswer(AddConstraint(state, c))
<1> DEFINE merged == Merged(state, c)
           bound == {v \in Variables(merged) : state[v].kind = "Bound"}
           env == [v \in bound |-> state[v].val]
           left == Variables(merged) \ bound
<1>1. merged \in Conjunction
    <2>1. c.l \in Operand /\ c.r \in Operand /\ <<c>> \in Conjunction
        BY DEF Constraint, Conjunction
    <2>2. ConstraintsOn(state, c.l) \in Conjunction /\ ConstraintsOn(state, c.r) \in Conjunction
        BY <2>1, ConstraintsOnTyped
    <2> QED
        BY <2>1, <2>2, MergeTyped DEF Merged
<1>2. Variables(merged) \in SUBSET Var /\ IsFiniteSet(left)
    BY VariablesFinite, FS_Subset DEF Variables
<1>3. AreValues(env)
    BY <1>2 DEF AreValues, AreStates, IsState
<1> HIDE DEF merged, bound, env
<1>4. Grounded(merged, env) \in Conjunction
    BY <1>1, <1>3, GroundedTyped
<1>5. IsAnswer(Constrain(left, Grounded(merged, env)))
    BY <1>2, <1>4, ConstrainTyped
<1> QED
    BY <1>5, NothingTyped DEF AddConstraint, merged, bound, env

LEMMA BindVariablesTyped ==
    ASSUME NEW state, AreStates(state), NEW left \in Var, NEW right \in Var
    PROVE  IsAnswer(BindVariables(state, left, right))
<1> DEFINE ls == state[left]
           rs == state[right]
<1>1. IsState(ls) /\ IsState(rs)
    BY DEF AreStates
<1>2. \A path \in Paths : Last(path) \in Var
    BY PathFacts DEF Last
<1>3. \A a, b, c, d \in Var : IsAnswer(Tie(a, b, c, d))
    BY EntryTyped, TwoTyped, NoEntries DEF Tie
<1>4. \A p, q \in Conjunction :
        IsAnswer(Requeried(<<Entry(left, VarT(right)), Entry(right, VarT(left))>>, p \o q))
    <2> SUFFICES ASSUME NEW p \in Conjunction, NEW q \in Conjunction
                 PROVE  IsAnswer(Requeried(<<Entry(left, VarT(right)),
                                            Entry(right, VarT(left))>>, p \o q))
        OBVIOUS
    <2>1. p \o q \in Conjunction
        BY ConcatProperties DEF Conjunction
    <2> QED
        BY <2>1, EntryTyped, TwoTyped
<1>5. IsAnswer(AddConstraint(state, Unify(VarT(left), VarT(right))))
    BY EntryTyped, AddConstraintTyped
<1>6. \A val \in Operand : /\ IsAnswer(Pushed(<<Entry(left, val)>>))
                           /\ IsAnswer(Pushed(<<Entry(right, val)>>))
    BY EntryTyped, OneTyped, NoEntries
<1> HIDE DEF ls, rs
<1> QED
    BY <1>1, <1>2, <1>3, <1>4, <1>5, <1>6, NothingTyped, PartialBindTyped
    DEF BindVariables, IsState, ls, rs

LEMMA BindTyped ==
    ASSUME NEW state, AreStates(state), NEW v \in Var, NEW t \in Operand
    PROVE  IsAnswer(Bind(state, v, t))
<1>1. IsState(state[v])
    BY DEF AreStates
<1>2. t.tag = "var" => t.v \in Var
    BY OperandIs
<1>3. IsAnswer(Pushed(<<Entry(v, t)>>))
    BY EntryTyped, OneTyped, NoEntries
<1> QED
    BY <1>1, <1>2, <1>3, NothingTyped, PartialBindTyped, BindVariablesTyped DEF Bind, IsState

LEMMA DerefTyped ==
    ASSUME NEW state, AreStates(state), NEW c \in Constraint
    PROVE  Deref(state, c) \in Constraint
<1>1. ASSUME NEW t \in Operand PROVE DerefOperand(state, t) \in Operand
    <2>1. t.tag = "var" => t.v \in Var
        BY OperandIs
    <2> QED
        BY <2>1 DEF DerefOperand, AreStates, IsState
<1>2. DerefOperand(state, c.l) \in Operand /\ DerefOperand(state, c.r) \in Operand
    BY <1>1 DEF Constraint
<1> QED
    BY <1>2 DEF Deref, Constraint

LEMMA QueryTyped ==
    ASSUME NEW state, AreStates(state), NEW c \in Constraint
    PROVE  IsAnswer(Query(state, c))
<1>1. \A d : IsAnswer(Compared(d))
    BY NothingTyped DEF Compared
<1>2. Deref(state, c) \in Constraint
    BY DerefTyped
<1>3. IsAnswer(QueryNeq(state, c))
    BY <1>1, <1>2, AddConstraintTyped DEF QueryNeq
<1>4. IsAnswer(UnifyOperands(state, c))
    <2>1. CASE IsGround(Deref(state, c))
        BY <1>1, <2>1 DEF UnifyOperands
    <2>2. CASE ~IsGround(Deref(state, c)) /\ c.l.tag = "var"
        <3>1. c.l.v \in Var /\ c.r \in Operand
            BY <2>2, OperandIs DEF Constraint
        <3> QED
            BY <2>2, <3>1, BindTyped DEF UnifyOperands
    <2>3. CASE ~IsGround(Deref(state, c)) /\ c.l.tag # "var"
        <3>1. c.l \in Operand /\ c.r \in Operand
            BY DEF Constraint
        <3>2. c.r.tag = "var"
            <4> SUFFICES ASSUME c.r.tag # "var" PROVE FALSE
                OBVIOUS
            <4>1. c.l.tag = "const" /\ c.r.tag = "const"
                BY <2>3, <3>1, OperandIs
            <4>2. DerefOperand(state, c.l) = c.l /\ DerefOperand(state, c.r) = c.r
                BY <4>1 DEF DerefOperand
            <4>3. Deref(state, c).l = c.l /\ Deref(state, c).r = c.r
                BY <4>2 DEF Deref, Constraint
            <4> QED
                BY <2>3, <4>1, <4>3 DEF IsGround
        <3>3. c.r.v \in Var
            BY <3>1, <3>2, OperandIs
        <3> QED
            BY <2>3, <3>1, <3>3, BindTyped DEF UnifyOperands
    <2> QED
        BY <2>1, <2>2, <2>3
<1> QED
    BY <1>3, <1>4 DEF Query

LEMMA TellTyped ==
    ASSUME TypeOK, NEW c \in Constraint, NEW rest \in Conjunction, Tell(c, rest)
    PROVE  /\ stack' \in Seq(Binding) /\ requery' \in Conjunction
           /\ choices' \in Seq(Choice) /\ status' \in {"running", "failed", "error", "halted"}
<1> DEFINE result == Query(States(stack), c)
<1>1. IsAnswer(result)
    BY StatesTyped, QueryTyped DEF TypeOK
<1> HIDE DEF result
<1>2. choices' = choices
    BY DEF Tell
<1>3. CASE result.ok
    <2>1. /\ stack' = stack \o result.push /\ requery' = result.requery \o rest
          /\ status' = status
        BY <1>3 DEF Tell, result
    <2>2. stack' \in Seq(Binding)
        BY <1>1, <2>1, ConcatProperties DEF IsAnswer, TypeOK
    <2>3. requery' \in Conjunction
        BY <1>1, <2>1, ConcatProperties DEF IsAnswer, Conjunction
    <2> QED
        BY <1>2, <2>1, <2>2, <2>3 DEF TypeOK
<1>4. CASE ~result.ok
    <2>1. /\ stack' = stack /\ requery' = requery
          /\ status' \in {"error", "failed"}
        BY <1>4 DEF Tell, result
    <2> QED
        BY <1>2, <2>1 DEF TypeOK
<1> QED
    BY <1>3, <1>4

LEMMA ChoiceTyped ==
    ASSUME TypeOK, NEW n \in Nat, PushChoice(n)
    PROVE  TypeOK'
<1> DEFINE choice == [bsp |-> Len(stack), alternatives |-> n,
                      snapshot |-> stack, told |-> told]
<1>1. choice \in Choice
    BY LenProperties DEF TypeOK, Choice
<1>2. choices' = Append(choices, choice) /\ UNCHANGED <<stack, requery, status, told>>
    BY DEF PushChoice
<1> HIDE DEF choice
<1>3. choices' \in Seq(Choice)
    BY <1>1, <1>2, AppendProperties DEF TypeOK
<1> QED
    BY <1>2, <1>3 DEF TypeOK

\* The first so many of a sequence.
LEMMA FirstTyped ==
    ASSUME NEW S, NEW s \in Seq(S), NEW n \in 0 .. Len(s)
    PROVE  SubSeq(s, 1, n) \in Seq(S)
<1>1. Len(s) \in Nat /\ \A i \in 1 .. n : s[i] \in S
    BY LenProperties
<1> QED
    BY <1>1, SubSeqProperties

\* Where a choice points is in the stack (BacktrackRestores): what is left of the
\* stack are entries of it.
LEMMA BacktrackTyped ==
    ASSUME TypeOK, SnapshotsIntact, Backtrack
    PROVE  TypeOK'
<1>1. /\ Len(choices) \in Nat /\ DOMAIN choices = 1 .. Len(choices)
      /\ \A i \in DOMAIN choices : choices[i] \in Choice
    BY LenProperties DEF TypeOK
<1>2. \A i \in DOMAIN choices : choices[i].bsp \in 0 .. Len(stack)
    BY <1>1, LenProperties DEF SnapshotsIntact, Choice, TypeOK
<1>3. \A n \in 0 .. Len(stack) : SubSeq(stack, 1, n) \in Seq(Binding)
    BY FirstTyped DEF TypeOK
<1>4. CASE Exhausted
    <2>1. /\ choices' = <<>> /\ status' = "halted" /\ requery' = requery /\ told' = told
          /\ stack' = IF choices = <<>> THEN stack ELSE SubSeq(stack, 1, choices[1].bsp)
        BY <1>4 DEF Exhausted
    <2>2. stack' \in Seq(Binding)
        <3>1. choices # <<>> => 1 \in DOMAIN choices
            BY <1>1 DEF TypeOK
        <3> QED
            BY <1>2, <1>3, <2>1, <3>1 DEF TypeOK
    <2>3. choices' \in Seq(Choice)
        BY <2>1
    <2> QED
        BY <2>1, <2>2, <2>3 DEF TypeOK
<1>5. ASSUME NEW top \in Open, Resume(choices[top], SubSeq(choices, 1, top - 1))
      PROVE  TypeOK'
    <2> DEFINE below == SubSeq(choices, 1, top - 1)
               last == [choices[top] EXCEPT !.alternatives = @ - 1]
    <2>1. top \in DOMAIN choices /\ choices[top].alternatives > 0
        BY <1>5 DEF Open
    <2>2. stack' \in Seq(Binding)
        BY <1>2, <1>3, <1>5, <2>1 DEF Resume
    <2>3. below \in Seq(Choice)
        <3>1. top - 1 \in 0 .. Len(choices)
            BY <1>1, <2>1
        <3> QED
            BY <3>1, FirstTyped DEF TypeOK
    <2>4. last \in Choice
        BY <1>1, <2>1 DEF Choice
    <2> HIDE DEF below, last
    <2>5. Append(below, last) \in Seq(Choice)
        BY <2>3, <2>4, AppendProperties
    <2>6. choices' \in Seq(Choice)
        BY <1>5, <2>3, <2>5 DEF Resume, below, last
    <2>7. /\ requery' = <<>> /\ status' = "running" /\ told' = choices[top].told
          /\ choices[top].told \in SUBSET Constraint
        BY <1>1, <1>5, <2>1 DEF Resume, Choice
    <2> QED
        BY <2>2, <2>6, <2>7, NoEntries DEF TypeOK
<1> QED
    BY <1>4, <1>5 DEF Backtrack

\* What the stack, the goals and the choices hold is what they may hold, in
\* partial queries too: whatever constraints are merged, grounded and handed
\* back, they are constraints (BindingManager::add_constraint, bind, backtrack).
THEOREM TypeCorrect == Spec => []TypeOK
<1>1. Init => TypeOK
    BY NoEntries DEF Init, TypeOK
<1>2. TypeOK /\ SnapshotsIntact /\ [Next]_vars => TypeOK'
    <2> SUFFICES ASSUME TypeOK, SnapshotsIntact, [Next]_vars PROVE TypeOK'
        OBVIOUS
    <2>1. ASSUME NEW c \in Goals, StateGoal(c) PROVE TypeOK'
        <3>1. c \in Constraint /\ Tell(c, <<>>) /\ told' = told \cup {c}
            BY <2>1, ManagerAssumption DEF StateGoal
        <3> QED
            BY <3>1, NoEntries, TellTyped DEF TypeOK
    <2>2. CASE Requery
        <3>1. Head(requery) \in Constraint /\ Tail(requery) \in Conjunction
            BY <2>2, HeadTailProperties DEF Requery, TypeOK, Conjunction
        <3>2. Tell(Head(requery), Tail(requery)) /\ told' = told
            BY <2>2 DEF Requery
        <3> QED
            BY <3>1, <3>2, TellTyped DEF TypeOK
    <2>3. ASSUME NEW n \in {0, 2}, PushChoice(n) PROVE TypeOK'
        BY <2>3, ChoiceTyped
    <2>4. ASSUME NEW i \in 0 .. Len(choices), Cut(i) PROVE TypeOK'
        <3>1. SubSeq(choices, 1, i) \in Seq(Choice)
            BY FirstTyped DEF TypeOK
        <3> QED
            BY <2>4, <3>1 DEF Cut, TypeOK
    <2>5. CASE Backtrack
        BY <2>5, BacktrackTyped
    <2>6. CASE UNCHANGED vars
        BY <2>6 DEF vars, TypeOK
    <2> QED
        BY <2>1, <2>2, <2>3, <2>4, <2>5, <2>6 DEF Next
<1> QED
    BY <1>1, <1>2, BacktrackRestores, PTL DEF Spec
================================================================================
