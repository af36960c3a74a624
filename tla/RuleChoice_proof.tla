--------------------------- MODULE RuleChoice_proof ---------------------------
(***************************************************************************)
(* The order of the rules of a call, for every policy and every hierarchy  *)
(* of classes: SortedBySpecificity.  The comparison of rules is no order,  *)
(* but it is asymmetric, and that is all the insertion sort needs.         *)
(* What a check of a partial decides: CheckDecides.  The rules that are    *)
(* called: CallsMatching.                                                  *)
(***************************************************************************)
EXTENDS RuleChoice, FiniteSetTheorems, SequenceTheorems, WellFoundedInduction, TLAPS

-----------------------------------------------------------------------------
(* The index. *)

\* The rules that the index gives for the arguments of a call are those of
\* the same arity whose ground parameters equal the ground arguments.
LEMMA IndexExact ==
    ASSUME NEW rules, NEW args
    PROVE  GetApplicableRules(IndexOf(rules), args)
             = {id \in DOMAIN rules :
                  /\ DOMAIN rules[id] = DOMAIN args
                  /\ \A i \in DOMAIN args : Followed(args[i], NodeOf(rules[id])[i])}
<1> DEFINE index == IndexOf(rules)
           Leads(n) == /\ DOMAIN n = DOMAIN args
                       /\ \A i \in DOMAIN args : Followed(args[i], n[i])
           found == GetApplicableRules(index, args)
<1> SUFFICES found = {id \in DOMAIN rules : Leads(NodeOf(rules[id]))}
  BY DEF NodeOf
<1>1. DOMAIN index = {NodeOf(rules[id]) : id \in DOMAIN rules}
  BY DEF IndexOf
<1>2. \A n \in DOMAIN index : index[n] = {id \in DOMAIN rules : NodeOf(rules[id]) = n}
  BY DEF IndexOf
<1>3. found = UNION {index[n] : n \in {m \in DOMAIN index : Leads(m)}}
  BY DEF GetApplicableRules
<1>4. ASSUME NEW id \in found
      PROVE  id \in DOMAIN rules /\ Leads(NodeOf(rules[id]))
  BY <1>2, <1>3, <1>4
<1>5. ASSUME NEW id \in DOMAIN rules, Leads(NodeOf(rules[id]))
      PROVE  id \in found
  BY <1>1, <1>2, <1>3, <1>5
<1> HIDE DEF found, Leads
<1> QED  BY <1>4, <1>5

\* The rules of a call that have as many parameters as it has arguments.
Candidates(c) == {id \in DOMAIN c.rules : DOMAIN c.rules[id] = DOMAIN c.args}

LEMMA IndexArity ==
    ASSUME NEW c \in Calls
    PROVE  GetApplicableRules(IndexOf(c.rules), c.args) \subseteq Candidates(c)
  BY IndexExact DEF Candidates

-----------------------------------------------------------------------------
(* The comparison of rules is asymmetric. *)

LEMMA MroAsymmetric ==
    ASSUME NEW class \in DOMAIN Mro, NEW l, NEW r,
           HostIsSubspecializer(class, l, r)
    PROVE  ~HostIsSubspecializer(class, r, l)
<1>1. IndexIn(Mro[class], l) \in DOMAIN Mro[class]
  BY DEF IndexIn, HostIsSubspecializer, Range
<1>2. IndexIn(Mro[class], r) \in DOMAIN Mro[class]
  BY DEF IndexIn, HostIsSubspecializer, Range
<1> QED  BY <1>1, <1>2, MroAssumption DEF HostIsSubspecializer

LEMMA FieldsAsymmetric ==
    ASSUME NEW l, NEW r, IsFiniteSet(l.fields), IsFiniteSet(r.fields), MoreFields(l, r)
    PROVE  ~MoreFields(r, l)
<1>1. Cardinality(l.fields) \in Nat /\ Cardinality(r.fields) \in Nat
  BY FS_CardinalityType
<1> QED  BY <1>1 DEF MoreFields

LEMMA SubspecializerAsymmetric ==
    ASSUME NEW l, NEW r, NEW arg,
           IsFiniteSet(l.fields), IsFiniteSet(r.fields),
           arg.is = "instance" => arg.class \in DOMAIN Mro,
           IsSubspecializer(l, r, arg)
    PROVE  ~IsSubspecializer(r, l, arg)
<1>1. CASE arg.is = "instance" /\ l.is = "class" /\ r.is = "class"
  BY <1>1, MroAsymmetric, FieldsAsymmetric DEF IsSubspecializer
<1>2. CASE ~(arg.is = "instance" /\ l.is = "class" /\ r.is = "class")
  BY <1>2, FieldsAsymmetric DEF IsSubspecializer
<1> QED  BY <1>1, <1>2

LEMMA BeatsAsymmetric ==
    ASSUME NEW l, NEW r, NEW arg,
           IsFiniteSet(l.fields), IsFiniteSet(r.fields),
           arg.is = "instance" => arg.class \in DOMAIN Mro,
           Beats(l, r, arg)
    PROVE  ~Beats(r, l, arg)
  BY SubspecializerAsymmetric DEF Beats

\* Of two rules of a call at most one is more specific than the other: the
\* first parameters that differ are the same ones either way round.
LEMMA MoreAsymmetric ==
    ASSUME NEW c \in Calls, NEW a \in Candidates(c), NEW b \in Candidates(c),
           IsMoreSpecific(c.rules[a], c.rules[b], c.args)
    PROVE  ~IsMoreSpecific(c.rules[b], c.rules[a], c.args)
<1> DEFINE l == c.rules[a]
           r == c.rules[b]
<1> SUFFICES ASSUME IsMoreSpecific(r, l, c.args) PROVE FALSE
  OBVIOUS
<1>1. PICK i \in DOMAIN c.args :
        /\ \A k \in 1..(i - 1) : Alike(l[k].spec, r[k].spec)
        /\ ~Alike(l[i].spec, r[i].spec)
        /\ Beats(l[i].spec, r[i].spec, c.args[i])
  BY DEF IsMoreSpecific
<1>2. PICK j \in DOMAIN c.args :
        /\ \A k \in 1..(j - 1) : Alike(r[k].spec, l[k].spec)
        /\ ~Alike(r[j].spec, l[j].spec)
        /\ Beats(r[j].spec, l[j].spec, c.args[j])
  BY DEF IsMoreSpecific
<1>3. i \in Nat /\ j \in Nat /\ i # 0 /\ j # 0
  BY CallsAssumption
<1>4. i = j
  BY <1>1, <1>2, <1>3 DEF Alike
<1>5. IsFiniteSet(l[i].spec.fields) /\ IsFiniteSet(r[i].spec.fields)
  BY CallsAssumption DEF Candidates, Range
<1> QED  BY <1>1, <1>2, <1>4, <1>5, BeatsAsymmetric, CallsAssumption

-----------------------------------------------------------------------------
(* The invariant.  The rules up to outer are sorted but for the one that   *)
(* is inserted, at inner + 1: of it, the rule before it is not known to be *)
(* in order, and the one after it is in order with that rule.              *)

\* The types of what the order depends on.
TypeInv ==
    /\ call \in Calls
    /\ unfiltered \subseteq Candidates(call)
    /\ applicable \in Seq(Candidates(call))
    /\ order \in Seq(Candidates(call))
    /\ outer \in Nat \ {0} /\ inner \in 0..outer

\* The rules that apply are found from the last to the first.
LastFirst ==
    /\ \A i, j \in DOMAIN applicable : i < j => applicable[j] < applicable[i]
    /\ \A id \in unfiltered : \A i \in DOMAIN applicable : id < applicable[i]

\* A pair of neighbours in the order: i and i + 1.
Ordered(i) == i + 1 \in DOMAIN order => ~More(order[i + 1], order[i])

Inserting ==
    /\ \A i \in 1..outer : i # inner => Ordered(i)
    /\ inner \in 1..(outer - 1) /\ inner + 2 \in DOMAIN order
         => ~More(order[inner + 2], order[inner])
    /\ outer >= Len(order) => inner = outer

SortInv ==
    /\ TypeInv
    /\ LastFirst
    /\ OvertakesJustly
    /\ stage \in {"filter", "check"} => order = <<>>
    /\ stage \in {"sort", "called"} => Inserting
    /\ NeighboursInOrder

LEMMA CandidatesNat == ASSUME NEW c \in Calls PROVE Candidates(c) \subseteq Nat
  BY CallsAssumption DEF Candidates

LEMMA SortInvInit == Init => SortInv
<1> SUFFICES ASSUME Init PROVE SortInv
  OBVIOUS
<1>1. call \in Calls /\ unfiltered \subseteq Candidates(call)
  BY IndexArity DEF Init
<1>2. applicable = <<>> /\ order = <<>> /\ outer = 1 /\ inner = 1 /\ stage = "filter"
  BY DEF Init
<1> QED
  BY <1>1, <1>2 DEF SortInv, TypeInv, LastFirst, OvertakesJustly, NeighboursInOrder

\* A step that leaves the order and its place alone.
LEMMA FilterStep ==
    ASSUME SortInv, stage \in {"filter", "check"},
           UNCHANGED <<call, sorting>>, stage' \in {"filter", "check"},
           \/ UNCHANGED <<unfiltered, applicable>>
           \/ \E id \in NextRule : Skip(id)
           \/ \E id \in NextRule : Apply(id)
    PROVE  SortInv'
<1>1. /\ call' = call /\ order' = order /\ outer' = outer /\ inner' = inner
      /\ order = <<>>
  BY DEF sorting, SortInv
<1>2. TypeInv' /\ LastFirst'
  <2>1. CASE UNCHANGED <<unfiltered, applicable>>
    BY <1>1, <2>1 DEF SortInv, TypeInv, LastFirst
  <2>2. CASE \E id \in NextRule : Skip(id)
    BY <1>1, <2>2 DEF SortInv, TypeInv, LastFirst, Skip
  <2>3. ASSUME NEW id \in NextRule, Apply(id) PROVE TypeInv' /\ LastFirst'
    <3>1. /\ id \in Candidates(call) /\ applicable \in Seq(Candidates(call))
          /\ unfiltered \subseteq Candidates(call)
          /\ unfiltered' = unfiltered \ {id} /\ applicable' = Append(applicable, id)
      BY <2>3 DEF Apply, NextRule, SortInv, TypeInv
    <3>2. TypeInv'
      BY <1>1, <3>1 DEF SortInv, TypeInv
    <3>3. Candidates(call) \subseteq Nat
      BY CandidatesNat DEF SortInv, TypeInv
    <3>4. \A other \in unfiltered : other <= id
      BY DEF NextRule
    <3>5. \A other \in unfiltered' : other < id
      BY <3>1, <3>3, <3>4
    <3>6. /\ \A i, j \in DOMAIN applicable : i < j => applicable[j] < applicable[i]
          /\ \A other \in unfiltered : \A i \in DOMAIN applicable : other < applicable[i]
      BY DEF SortInv, LastFirst
    <3>7. id \in unfiltered
      BY DEF NextRule
    <3>8. LastFirst'
      BY <3>1, <3>5, <3>6, <3>7 DEF LastFirst
    <3> QED  BY <3>2, <3>8
  <2> QED  BY <2>1, <2>2, <2>3
<1> QED
  BY <1>1, <1>2 DEF SortInv, OvertakesJustly, NeighboursInOrder

LEMMA StartSortStep == ASSUME SortInv, StartSort PROVE SortInv'
<1> USE DEF StartSort, filtering
<1>1. /\ call' = call /\ unfiltered' = unfiltered /\ applicable' = applicable
      /\ order' = Reverse(applicable) /\ outer' = 1 /\ inner' = 1 /\ stage' = "sort"
  OBVIOUS
<1>2. applicable \in Seq(Candidates(call)) /\ call \in Calls
  BY DEF SortInv, TypeInv
<1>3. /\ order' \in Seq(Candidates(call)) /\ Len(order') = Len(applicable)
      /\ \A i \in 1..Len(applicable) : order'[i] = applicable[Len(applicable) - i + 1]
  BY <1>1, <1>2 DEF Reverse
<1>4. TypeInv' /\ LastFirst'
  BY <1>1, <1>3 DEF SortInv, TypeInv, LastFirst
<1>5. OvertakesJustly'
  <2> SUFFICES ASSUME NEW i \in DOMAIN order', NEW j \in DOMAIN order',
                      i < j, order'[j] < order'[i]
               PROVE  FALSE
    BY DEF OvertakesJustly
  <2>1. DOMAIN order' = 1..Len(applicable)
    BY <1>3
  <2>2. /\ Len(applicable) - i + 1 \in DOMAIN applicable
        /\ Len(applicable) - j + 1 \in DOMAIN applicable
        /\ Len(applicable) - j + 1 < Len(applicable) - i + 1
    BY <1>2, <2>1
  <2>3. order'[i] < order'[j]
    BY <1>3, <2>1, <2>2 DEF SortInv, LastFirst
  <2>4. order'[i] \in Nat /\ order'[j] \in Nat
    BY <1>2, <1>3, <2>1, CandidatesNat
  <2> QED  BY <2>3, <2>4
<1>6. Inserting'
  BY <1>1, <1>3 DEF Inserting
<1> QED
  BY <1>1, <1>4, <1>5, <1>6 DEF SortInv, NeighboursInOrder

\* The rule that is inserted goes one to the front.  Its new right neighbour
\* stays behind it because the comparison is asymmetric.
LEMMA SwapStep == ASSUME SortInv, Swap PROVE SortInv'
<1>1. /\ call' = call /\ unfiltered' = unfiltered /\ applicable' = applicable
      /\ outer' = outer /\ inner' = inner - 1 /\ stage = "sort" /\ stage' = "sort"
      /\ outer < Len(order) /\ inner > 0 /\ More(order[inner + 1], order[inner])
      /\ order' = [order EXCEPT ![inner] = order[inner + 1], ![inner + 1] = order[inner]]
  BY DEF Swap, SwapAllowed, Swapped, filtering
<1>2. /\ call \in Calls /\ order \in Seq(Candidates(call))
      /\ outer \in Nat \ {0} /\ inner \in 1..outer
      /\ Inserting /\ OvertakesJustly
  BY <1>1 DEF SortInv, TypeInv
<1>3. inner \in DOMAIN order /\ inner + 1 \in DOMAIN order
  BY <1>1, <1>2
<1>4. /\ order' \in Seq(Candidates(call)) /\ Len(order') = Len(order)
      /\ DOMAIN order' = DOMAIN order
      /\ order'[inner] = order[inner + 1] /\ order'[inner + 1] = order[inner]
      /\ \A i \in DOMAIN order : i \notin {inner, inner + 1} => order'[i] = order[i]
  BY <1>1, <1>2, <1>3
<1>5. TypeInv' /\ LastFirst'
  BY <1>1, <1>2, <1>4 DEF SortInv, TypeInv, LastFirst
<1>6. ~More(order[inner], order[inner + 1])
  BY <1>1, <1>2, <1>3, MoreAsymmetric DEF More, Rules, Args
<1>7. OvertakesJustly'
  <2> SUFFICES ASSUME NEW i \in DOMAIN order, NEW j \in DOMAIN order,
                      i < j, order'[j] < order'[i]
               PROVE  More(order'[i], order'[j])
    BY <1>1, <1>4 DEF OvertakesJustly, More, Rules, Args
  <2>1. CASE i = inner /\ j = inner + 1
    BY <1>1, <1>4, <2>1
  <2>2. CASE ~(i = inner /\ j = inner + 1)
    <3> DEFINE Was(k) == IF k = inner THEN inner + 1
                         ELSE IF k = inner + 1 THEN inner ELSE k
    <3>1. \A k \in DOMAIN order : Was(k) \in DOMAIN order /\ order'[k] = order[Was(k)]
      BY <1>3, <1>4
    <3>2. Was(i) < Was(j)
      <4>1. i \in Nat /\ j \in Nat /\ inner \in Nat
        BY <1>2
      <4>2. i < j /\ (i = inner => j # inner + 1)
        BY <2>2
      <4>3. \A a, b, n \in Nat : a < b /\ (a = n => b # n + 1)
              => (IF a = n THEN n + 1 ELSE IF a = n + 1 THEN n ELSE a)
                   < (IF b = n THEN n + 1 ELSE IF b = n + 1 THEN n ELSE b)
        OBVIOUS
      <4> QED  BY <4>1, <4>2, <4>3
    <3> HIDE DEF Was
    <3> QED  BY <1>2, <3>1, <3>2 DEF OvertakesJustly
  <2> QED  BY <2>1, <2>2
<1>8. Inserting'
  <2>1. \A i \in 1..outer : i # inner - 1 /\ i + 1 \in DOMAIN order
                              => ~More(order'[i + 1], order'[i])
    <3> SUFFICES ASSUME NEW i \in 1..outer, i # inner - 1, i + 1 \in DOMAIN order
                 PROVE  ~More(order'[i + 1], order'[i])
      OBVIOUS
    <3>0. i \in DOMAIN order
      BY <1>1, <1>2
    <3>1. CASE i = inner
      BY <1>4, <1>6, <3>1
    <3>2. CASE i = inner + 1
      <4>1. inner \in 1..(outer - 1) /\ inner + 2 \in DOMAIN order
        BY <1>2, <3>2
      <4>2. order'[i + 1] = order[inner + 2] /\ order'[i] = order[inner]
        BY <1>2, <1>4, <3>2, <4>1
      <4> QED  BY <1>2, <4>1, <4>2 DEF Inserting
    <3>3. CASE i # inner /\ i # inner + 1
      <4>1. order'[i + 1] = order[i + 1] /\ order'[i] = order[i]
        BY <1>2, <1>4, <3>0, <3>3
      <4> QED  BY <1>2, <4>1, <3>3 DEF Inserting, Ordered
    <3> QED  BY <3>1, <3>2, <3>3
  <2>2. inner - 1 \in 1..(outer - 1) => ~More(order'[inner + 1], order'[inner - 1])
    <3> SUFFICES ASSUME inner - 1 \in 1..(outer - 1)
                 PROVE  ~More(order'[inner + 1], order'[inner - 1])
      OBVIOUS
    <3>1. order'[inner + 1] = order[inner] /\ order'[inner - 1] = order[inner - 1]
      BY <1>2, <1>3, <1>4
    <3>2. Ordered(inner - 1)
      BY <1>2 DEF Inserting
    <3>3. (inner - 1) + 1 = inner
      BY <1>2
    <3> QED  BY <1>3, <3>1, <3>2, <3>3 DEF Ordered
  <2>3. /\ inner' + 2 = inner + 1
    BY <1>1, <1>2
  <2>4. ~(outer' >= Len(order'))
    BY <1>1, <1>2, <1>4
  <2>5. \A l, r : More(l, r)' <=> More(l, r)
    BY <1>1 DEF More, Rules, Args
  <2> QED
    BY <1>1, <1>4, <2>1, <2>2, <2>3, <2>4, <2>5 DEF Inserting, Ordered, More, Rules, Args
<1> QED
  BY <1>1, <1>5, <1>7, <1>8 DEF SortInv, NeighboursInOrder

LEMMA NextOuterStep == ASSUME SortInv, NextOuter PROVE SortInv'
<1>1. /\ call' = call /\ unfiltered' = unfiltered /\ applicable' = applicable
      /\ outer' = outer + 1 /\ inner' = outer + 1 /\ order' = order
      /\ stage = "sort" /\ stage' = "sort"
      /\ inner > 0 => ~More(order[inner + 1], order[inner])
  BY DEF NextOuter, SwapAllowed, filtering
<1>2. outer \in Nat \ {0} /\ inner \in 0..outer /\ Inserting
  BY <1>1 DEF SortInv, TypeInv
<1>3. TypeInv' /\ LastFirst' /\ OvertakesJustly'
  BY <1>1, <1>2 DEF SortInv, TypeInv, LastFirst, OvertakesJustly, More, Rules, Args
<1>4. \A i \in 1..outer : Ordered(i)
  BY <1>1, <1>2 DEF Inserting, Ordered
<1>5. Inserting'
  BY <1>1, <1>2, <1>4 DEF Inserting, Ordered, More, Rules, Args
<1> QED
  BY <1>1, <1>3, <1>5 DEF SortInv, NeighboursInOrder

LEMMA CallRulesStep == ASSUME SortInv, CallRules PROVE SortInv'
<1>1. /\ UNCHANGED <<call, unfiltered, applicable, order, outer, inner>>
      /\ stage = "sort" /\ stage' = "called" /\ outer >= Len(order)
  BY DEF CallRules, filtering, sorting
<1>2. TypeInv /\ Inserting
  BY <1>1 DEF SortInv
<1>3. \A i \in 1..(Len(order) - 1) : ~More(order[i + 1], order[i])
  <2> SUFFICES ASSUME NEW i \in 1..(Len(order) - 1) PROVE ~More(order[i + 1], order[i])
    OBVIOUS
  <2>1. i \in 1..outer /\ i # inner /\ i + 1 \in DOMAIN order
    BY <1>1, <1>2 DEF TypeInv, Inserting
  <2> QED  BY <1>2, <2>1 DEF Inserting, Ordered
<1> QED
  BY <1>1, <1>3 DEF SortInv, TypeInv, LastFirst, OvertakesJustly, Inserting, Ordered,
                    NeighboursInOrder, More, Rules, Args

LEMMA NoRulesStep == ASSUME SortInv, NoRules PROVE SortInv'
  BY DEF SortInv, NoRules, filtering, sorting, TypeInv, LastFirst, OvertakesJustly,
         NeighboursInOrder, More, Rules, Args

LEMMA SortInvNext == SortInv /\ [Next]_vars => SortInv'
<1> SUFFICES ASSUME SortInv, [Next]_vars PROVE SortInv'
  OBVIOUS
<1>1. CASE FilterRule
  BY <1>1, FilterStep DEF FilterRule, sorting
<1>2. CASE StartCheck
  BY <1>2, FilterStep DEF StartCheck, sorting
<1>3. CASE Run \/ HostAnswers \/ NextCheck \/ NextClass
  BY <1>3, FilterStep DEF Run, HostAnswers, NextCheck, NextClass, sorting
<1>4. CASE CheckPasses \/ CheckFails
  BY <1>4, FilterStep DEF CheckPasses, CheckFails, EndCheck, sorting
<1>5. CASE StartSort
  BY <1>5, StartSortStep
<1>6. CASE Swap
  BY <1>6, SwapStep
<1>7. CASE NextOuter
  BY <1>7, NextOuterStep
<1>8. CASE CallRules
  BY <1>8, CallRulesStep
<1>9. CASE NoRules
  BY <1>9, NoRulesStep
<1>10. CASE UNCHANGED vars
  BY <1>10 DEF vars, filtering, sorting, SortInv, TypeInv, LastFirst, OvertakesJustly,
               Inserting, Ordered, NeighboursInOrder, More, Rules, Args
<1> QED
  BY <1>1, <1>2, <1>3, <1>4, <1>5, <1>6, <1>7, <1>8, <1>9, <1>10 DEF Next

\* The rules of every call of every policy, over every hierarchy of classes,
\* are called in the order of the policy but where specificity justifies
\* another one, and of two neighbours the second one is never the more
\* specific (sort_rules in vm.rs).
THEOREM RulesSorted == Spec => []SortedBySpecificity
<1>1. SortInv => SortedBySpecificity
  BY DEF SortInv, SortedBySpecificity
<1> QED
  BY <1>1, SortInvInit, SortInvNext, PTL DEF Spec

-----------------------------------------------------------------------------
(* The paths of a partial that is shallow.                                  *)

\* A field of a variable, and a variable.
IsField(path) == path \in Seq(Range(path)) /\ Len(path) = 2
IsVariable(path) == path \in Seq(Range(path)) /\ Len(path) = 1

IsShallow(c) ==
    IF c.op = "Isa" THEN (IsVariable(c.path) \/ IsField(c.path)) /\ c.class \in DOMAIN Mro
    ELSE IsField(c.path)

IsShallowPartial(arg) ==
    /\ arg.constraints \in Seq(Range(arg.constraints))
    /\ \A i \in DOMAIN arg.constraints : IsShallow(arg.constraints[i])
    /\ arg.var \in arg.names

LEMMA HasLeast ==
    ASSUME NEW T \in SUBSET Nat, T # {}
    PROVE  \E i \in T : \A j \in T : i <= j
<1>1. PICK i \in T : \A j \in T : <<j, i>> \notin OpToRel(<, Nat)
  BY NatLessThanWellFounded, WFMin
<1>2. ASSUME NEW j \in T PROVE i <= j
  <2>1. <<j, i>> \notin OpToRel(<, Nat) /\ <<j, i>> \in Nat \X Nat
    BY <1>1
  <2>2. ~(j < i)
    BY <2>1 DEF OpToRel
  <2> QED  BY <2>2
<1> QED  BY <1>2

LEMMA NthIsOne ==
    ASSUME NEW m \in Nat, NEW S \in SUBSET (1..m), NEW n \in 1..Cardinality(S)
    PROVE  Nth(S, n) \in S
<1> DEFINE upTo(i) == {j \in S : j <= i}
           T == {i \in Nat : Cardinality(upTo(i)) >= n}
<1>0. \A j \in S : j \in Nat /\ 1 <= j /\ j <= m
  OBVIOUS
<1>1. IsFiniteSet(S) /\ Cardinality(S) \in Nat
  <2>1. IsFiniteSet(1..m) /\ S \subseteq 1..m
    BY FS_Interval
  <2>2. IsFiniteSet(S)
    BY <2>1, FS_Subset
  <2> QED  BY <2>2, FS_CardinalityType
<1>2. \A i \in Nat : IsFiniteSet(upTo(i)) /\ Cardinality(upTo(i)) \in Nat
  <2> SUFFICES ASSUME NEW i \in Nat
               PROVE  IsFiniteSet(upTo(i)) /\ Cardinality(upTo(i)) \in Nat
    OBVIOUS
  <2>1. upTo(i) \subseteq S
    OBVIOUS
  <2>2. IsFiniteSet(upTo(i))
    BY <1>1, <2>1, FS_Subset
  <2> QED  BY <2>2, FS_CardinalityType
<1>3. upTo(m) = S
  BY <1>0
<1>4. m \in T
  BY <1>1, <1>3
<1>5. PICK i \in T : \A j \in T : i <= j
  BY <1>4, HasLeast
<1>6. i # 0
  <2>1. \A j \in S : ~(j <= 0)
    BY <1>0
  <2>3. upTo(0) = {}
    BY <2>1
  <2>2. Cardinality(upTo(0)) = 0
    BY <2>3, FS_EmptySet
  <2> QED  BY <1>1, <1>5, <2>2
<1>7. i - 1 \in Nat /\ i - 1 \notin T
  <2>1. i \in Nat /\ i - 1 \in Nat /\ ~(i <= i - 1)
    BY <1>5, <1>6
  <2> QED  BY <1>5, <2>1
<1>8. Cardinality(upTo(i - 1)) < n /\ Cardinality(upTo(i)) >= n
  <2>1. Cardinality(upTo(i - 1)) \in Nat /\ ~(Cardinality(upTo(i - 1)) >= n)
    BY <1>2, <1>7
  <2> QED  BY <1>1, <1>5, <2>1
<1>9. i \in S
  <2> SUFFICES ASSUME i \notin S PROVE FALSE
    OBVIOUS
  <2>1. \A j \in S : j <= i <=> j <= i - 1
    BY <1>0, <1>5
  <2>3. upTo(i) = upTo(i - 1)
    BY <2>1
  <2> QED  BY <1>1, <1>2, <1>7, <1>8, <2>3
<1>10. upTo(i) = upTo(i - 1) \cup {i} /\ i \notin upTo(i - 1)
  <2>1. \A j \in S : (j <= i <=> j <= i - 1 \/ j = i)
    BY <1>0, <1>5
  <2>2. ~(i <= i - 1)
    BY <1>5
  <2> QED  BY <1>9, <2>1, <2>2
<1>11. Cardinality(upTo(i)) = Cardinality(upTo(i - 1)) + 1
  BY <1>2, <1>7, <1>10, FS_AddElement
<1>12. Cardinality(upTo(i)) = n
  <2>1. n \in Nat /\ Cardinality(upTo(i)) \in Nat /\ Cardinality(upTo(i - 1)) \in Nat
    <3>1. n \in Nat
      BY <1>1
    <3>2. i \in Nat /\ i - 1 \in Nat
      BY <1>5, <1>7
    <3> QED  BY <1>2, <3>1, <3>2
  <2> QED  BY <1>8, <1>11, <2>1
<1> QED  BY <1>9, <1>12 DEF Nth

LEMMA LhssAre ==
    ASSUME NEW arg, IsShallowPartial(arg)
    PROVE  LET lhss == LhssOfMatches(arg)
           IN  \E n \in Nat \ {0} :
                  /\ lhss = [i \in 1..n |-> lhss[i]]
                  /\ \A i \in 1..n : lhss[i] = <<arg.var>> \/ IsField(lhss[i])
<1> DEFINE fields == {i \in DOMAIN arg.constraints : arg.constraints[i].op # "Isa"}
           count == Cardinality(fields)
           lhss == LhssOfMatches(arg)
<1>1. Len(arg.constraints) \in Nat /\ DOMAIN arg.constraints = 1..Len(arg.constraints)
  BY DEF IsShallowPartial
<1>2. fields \in SUBSET (1..Len(arg.constraints))
  BY <1>1
<1>3. count \in Nat
  <2>1. IsFiniteSet(1..Len(arg.constraints))
    <3>1. 1 \in Int /\ Len(arg.constraints) \in Int
      BY <1>1
    <3> QED  BY <3>1, FS_Interval
  <2>2. IsFiniteSet(fields)
    BY <1>2, <2>1, FS_Subset
  <2> QED  BY <2>2, FS_CardinalityType
<1>4. lhss = [n \in 1..(count + 1) |-> IF n > count THEN <<arg.var>>
                                     ELSE arg.constraints[Nth(fields, n)].path]
  BY DEF LhssOfMatches
<1> HIDE DEF lhss, count
<1>5. ASSUME NEW n \in 1..(count + 1) PROVE lhss[n] = <<arg.var>> \/ IsField(lhss[n])
  <2>1. CASE n > count
    BY <1>4, <2>1
  <2>2. CASE ~(n > count)
    <3>1. n \in 1..count
      BY <1>3, <2>2
    <3>2. Nth(fields, n) \in fields
      BY <1>1, <1>2, <3>1, NthIsOne DEF count
    <3>3. lhss[n] = arg.constraints[Nth(fields, n)].path
      BY <1>4, <2>2
    <3> QED  BY <3>2, <3>3 DEF IsShallowPartial, IsShallow
  <2> QED  BY <2>1, <2>2
<1>6. lhss = [n \in 1..(count + 1) |-> lhss[n]]
  BY <1>4
<1>7. count + 1 \in Nat \ {0}
  BY <1>3
<1> QED  BY <1>5, <1>6, <1>7 DEF lhss

LEMMA FieldIs ==
    ASSUME NEW path, IsField(path)
    PROVE  path = <<path[1], path[2]>>
  BY DEF IsField

LEMMA VariableIs ==
    ASSUME NEW path, IsVariable(path)
    PROVE  path = <<path[1]>>
  BY DEF IsVariable

LEMMA PathOfField ==
    ASSUME NEW v, NEW f
    PROVE  PathOf(<<v, f>>) = << <<v>>, <<f>> >>
<1> DEFINE s == SubSeq(<<v, f>>, 1, 1)
           t == <<v>>
<1>1. <<v, f>> \in Seq({v, f}) /\ Len(<<v, f>>) = 2 /\ Last(<<v, f>>) = f
  BY DEF Last
<1>2. s \in Seq({v, f}) /\ Len(s) = 1 /\ s[1] = v
  BY <1>1, SubSeqProperties
<1>3. t \in Seq({v, f}) /\ Len(t) = 1 /\ t[1] = v
  OBVIOUS
<1>4. Front(<<v, f>>) = s
  BY <1>1 DEF Front
<1> HIDE DEF s, t
<1>5. \A i \in 1..Len(s) : s[i] = t[i]
  BY <1>2, <1>3
<1>6. s = t
  BY <1>2, <1>3, <1>5, SeqEqual
<1> QED  BY <1>1, <1>4, <1>6 DEF PathOf, t

LEMMA PathOfVariable ==
    ASSUME NEW v
    PROVE  PathOf(<<v>>) = << <<v>> >>
  BY DEF PathOf

-----------------------------------------------------------------------------
(* What the host is asked about a constraint, and what the answers tell.    *)

\* Whether the answers to these questions are all no.
Refused(questions) == \A i \in DOMAIN questions : ~HostAnswer(questions[i])

\* What the check asks of a constraint, and whether the constraint fits.
Decides(questions, fits) ==
    \/ questions = <<>> /\ fits
    \/ \E q : questions = <<q>> /\ (fits <=> HostAnswer(q))
    \/ \E q, r : questions = <<q, r>> /\ (fits <=> HostAnswer(q) \/ HostAnswer(r))

LEMMA SubclassDecides ==
    ASSUME NEW e, NEW p, e.class \in DOMAIN Mro
    PROVE  Decides(SubclassCompare(e, p), \/ HostIsSubclass(p.class, e.class)
                                          \/ HostIsSubclass(e.class, p.class))
<1>1. CASE e.class = p.class
  BY <1>1, MroAssumption DEF SubclassCompare, HostIsSubclass, Decides
<1>2. CASE e.class # p.class
  <2> DEFINE q == SubclassQuestion(p.class, e.class)
             r == SubclassQuestion(e.class, p.class)
  <2>1. SubclassCompare(e, p) = <<q, r>>
    BY <1>2 DEF SubclassCompare
  <2>2. HostAnswer(q) <=> HostIsSubclass(p.class, e.class)
    BY DEF HostAnswer, SubclassQuestion, Question
  <2>3. HostAnswer(r) <=> HostIsSubclass(e.class, p.class)
    BY DEF HostAnswer, SubclassQuestion, Question
  <2> HIDE DEF q, r
  <2> QED  BY <2>1, <2>2, <2>3 DEF Decides
<1> QED  BY <1>1, <1>2

LEMMA PathDecides ==
    ASSUME NEW e, NEW p, NEW v, NEW f
    PROVE  Decides(PathCompare(e, p, << <<v>> >>, << <<v>>, <<f>> >>),
                   HostIsaWithPath(e.class, <<f>>, p.class))
<1> DEFINE fields == SubSeq(<< <<v>>, <<f>> >>, 2, 2)
           q == Question("path", e.class, [i \in DOMAIN fields |-> fields[i][1]], p.class)
<1>1. fields = << <<f>> >>
  <2> DEFINE s == << <<v>>, <<f>> >>
             t == << <<f>> >>
             S == {<<v>>, <<f>>}
  <2>1. s \in Seq(S) /\ Len(s) = 2 /\ s[2] = <<f>>
    OBVIOUS
  <2>2. \A i \in 2..2 : s[i] \in S
    OBVIOUS
  <2> HIDE DEF s, S
  <2>3. /\ SubSeq(s, 2, 2) \in Seq(S) /\ Len(SubSeq(s, 2, 2)) = 1
        /\ SubSeq(s, 2, 2)[1] = s[2]
    BY <2>2, SubSeqProperties
  <2>4. t \in Seq(S) /\ Len(t) = 1 /\ t[1] = <<f>>
    BY DEF S
  <2> HIDE DEF t
  <2>5. \A i \in 1..Len(SubSeq(s, 2, 2)) : SubSeq(s, 2, 2)[i] = t[i]
    BY <2>1, <2>3, <2>4
  <2>6. SubSeq(s, 2, 2) = t
    BY <2>3, <2>4, <2>5, SeqEqual
  <2> QED  BY <2>6 DEF s, t
<1> HIDE DEF fields
<1>2. [i \in DOMAIN fields |-> fields[i][1]] = <<f>>
  BY <1>1
<1>3. PathCompare(e, p, << <<v>> >>, << <<v>>, <<f>> >>) = <<q>>
  BY DEF PathCompare, fields
<1>4. HostAnswer(q) <=> HostIsaWithPath(e.class, <<f>>, p.class)
  BY <1>2 DEF HostAnswer, Question
<1> HIDE DEF q
<1> QED  BY <1>3, <1>4 DEF Decides
LEMMA WholeSeq ==
    ASSUME NEW S, NEW s \in Seq(S)
    PROVE  SubSeq(s, 1, Len(s)) = s
<1> DEFINE t == SubSeq(s, 1, Len(s))
<1>1. Len(s) \in Nat /\ 1 \in Int /\ Len(s) \in Int /\ \A i \in 1..Len(s) : s[i] \in S
  OBVIOUS
<1>2. /\ t \in Seq(S) /\ Len(t) = IF 1 <= Len(s) THEN Len(s) - 1 + 1 ELSE 0
      /\ \A i \in 1..(Len(s) - 1 + 1) : t[i] = s[1 + i - 1]
  BY <1>1, SubSeqProperties
<1> HIDE DEF t
<1>3. Len(t) = Len(s) /\ \A i \in 1..Len(t) : t[i] = s[i]
  BY <1>1, <1>2
<1>4. t = s
  BY <1>2, <1>3, SeqEqual
<1> QED  BY <1>4 DEF t

LEMMA NoStrictPrefix ==
    ASSUME NEW S, NEW s \in Seq(S), NEW t \in Seq(S), Len(t) <= Len(s)
    PROVE  ~IsStrictPrefix(s, t)
<1> SUFFICES ASSUME IsStrictPrefix(s, t) PROVE FALSE
  OBVIOUS
<1>1. /\ Len(s) <= Len(t) /\ s # t
      /\ SubSeq(s, 1, Len(s)) = SubSeq(t, 1, Len(s))
  BY DEF IsStrictPrefix, IsPrefix
<1>2. Len(s) = Len(t)
  BY <1>1
<1>3. SubSeq(s, 1, Len(s)) = s /\ SubSeq(t, 1, Len(t)) = t
  BY WholeSeq
<1> QED  BY <1>1, <1>2, <1>3

LEMMA VariablePrefix ==
    ASSUME NEW v, NEW w, NEW g
    PROVE  IsStrictPrefix(<<v>>, <<w, g>>) <=> v = w
<1> DEFINE s == <<v>>
           t == <<w, g>>
           u == <<w>>
           S == {v, w, g}
<1>1. /\ s \in Seq(S) /\ Len(s) = 1 /\ s[1] = v
      /\ t \in Seq(S) /\ Len(t) = 2 /\ t[1] = w
      /\ u \in Seq(S) /\ Len(u) = 1 /\ u[1] = w /\ w \in S
  OBVIOUS
<1> HIDE DEF s, t, u, S
<1>2. SubSeq(s, 1, 1) = s
  BY <1>1, WholeSeq
<1>3. SubSeq(t, 1, 1) = u
  <2>1. \A i \in 1..1 : t[i] \in S
    BY <1>1
  <2>2. SubSeq(t, 1, 1) \in Seq(S) /\ Len(SubSeq(t, 1, 1)) = 1 /\ SubSeq(t, 1, 1)[1] = t[1]
    BY <2>1, SubSeqProperties
  <2>3. \A i \in 1..Len(u) : u[i] = SubSeq(t, 1, 1)[i]
    BY <1>1, <2>2
  <2> QED  BY <1>1, <2>2, <2>3, SeqEqual
<1>4. IsStrictPrefix(s, t) <=> s = u
  BY <1>1, <1>2, <1>3 DEF IsStrictPrefix, IsPrefix
<1>5. s = u <=> v = w
  BY <1>1 DEF s, u
<1> QED  BY <1>4, <1>5 DEF s, t

\* CheckConstraint by the two paths.
LEMMA CheckIs ==
    ASSUME NEW e, NEW p, NEW names, NEW cpath, NEW ppath, e.op = "Isa",
           cpath = PathOf(e.path), ppath = PathOf(p.path),
           Len(cpath) \in Nat, Len(ppath) \in Nat
    PROVE  LET justVars == Len(cpath) = 1 /\ Len(ppath) = 1
               related  == IF justVars THEN e.path[1] \in names
                           ELSE \A i \in Zipped(cpath, ppath) : cpath[i] = ppath[i]
               asked    == CheckConstraint(e, p, names)
           IN  /\ ~related => asked = <<>>
               /\ related /\ (cpath = ppath \/ justVars) => asked = SubclassCompare(e, p)
               /\ related /\ cpath # ppath /\ ~justVars /\ Len(cpath) < Len(ppath)
                     => asked = PathCompare(e, p, cpath, ppath)
               /\ cpath # ppath /\ ~justVars /\ ~(Len(cpath) < Len(ppath)) => asked = <<>>
  BY DEF CheckConstraint

\* ... of which at least one leads to a field.
LEMMA PathsDiffer ==
    ASSUME NEW e, NEW p, NEW names, NEW c, NEW q, e.op = "Isa",
           c = PathOf(e.path), q = PathOf(p.path),
           Len(c) \in {1, 2}, Len(q) = 2,
           NEW i \in Zipped(c, q), c[i] # q[i]
    PROVE  CheckConstraint(e, p, names) = <<>>
<1>1. ~(Len(c) = 1 /\ Len(q) = 1)
  OBVIOUS
<1>2. ~(\A j \in Zipped(c, q) : c[j] = q[j])
  OBVIOUS
<1> QED  BY <1>1, <1>2 DEF CheckConstraint

LEMMA PathsEqual ==
    ASSUME NEW e, NEW p, NEW names, NEW c, e.op = "Isa",
           c = PathOf(e.path), c = PathOf(p.path), Len(c) = 2
    PROVE  CheckConstraint(e, p, names) = SubclassCompare(e, p)
<1>1. ~(Len(c) = 1) /\ Len(c) \in Nat
  OBVIOUS
<1> QED  BY <1>1, CheckIs

LEMMA PathLonger ==
    ASSUME NEW e, NEW p, NEW names, NEW c, NEW q, e.op = "Isa",
           c = PathOf(e.path), q = PathOf(p.path),
           Len(c) = 1, Len(q) = 2, Zipped(c, q) = {1}, c[1] = q[1]
    PROVE  CheckConstraint(e, p, names) = PathCompare(e, p, c, q)
<1>1. /\ ~(Len(c) = 1 /\ Len(q) = 1) /\ Len(c) \in Nat /\ Len(q) \in Nat
      /\ Len(c) < Len(q) /\ c # q
  OBVIOUS
<1>2. \A j \in Zipped(c, q) : c[j] = q[j]
  OBVIOUS
<1> HIDE DEF Zipped
<1> QED  BY <1>1, <1>2 DEF CheckConstraint

LEMMA ConstraintDecides ==
    ASSUME NEW e, NEW p, NEW names, IsShallow(e), p.op = "Isa",
           \/ \E v \in names : p.path = <<v>>
           \/ IsField(p.path)
    PROVE  Decides(CheckConstraint(e, p, names), Fits(e, p, names))
<1>1. CASE e.op # "Isa"
  BY <1>1 DEF CheckConstraint, Fits, Decides
<1>2. ASSUME e.op = "Isa", e.class \in DOMAIN Mro, NEW v, NEW w \in names,
             e.path = <<v>>, p.path = <<w>>
      PROVE  Decides(CheckConstraint(e, p, names), Fits(e, p, names))
  <2>1. PathOf(e.path) = << <<v>> >> /\ PathOf(p.path) = << <<w>> >>
    BY <1>2, PathOfVariable
  <2>2. Len(<<v>>) = 1 /\ Len(<<w>>) = 1 /\ Len(<< <<v>> >>) = 1 /\ Len(<< <<w>> >>) = 1
    OBVIOUS
  <2>3. ~IsStrictPrefix(<<v>>, <<w>>)
    <3>1. <<v>> \in Seq({v, w}) /\ <<w>> \in Seq({v, w}) /\ Len(<<w>>) <= Len(<<v>>)
      OBVIOUS
    <3> QED  BY <3>1, NoStrictPrefix
  <2>4. CASE v \in names
    <3>1. CheckConstraint(e, p, names) = SubclassCompare(e, p)
      BY <1>2, <2>1, <2>2, <2>4 DEF CheckConstraint
    <3>2. Fits(e, p, names) <=> \/ HostIsSubclass(p.class, e.class)
                               \/ HostIsSubclass(e.class, p.class)
      BY <1>2, <2>2, <2>4 DEF Fits
    <3>3. Decides(SubclassCompare(e, p), \/ HostIsSubclass(p.class, e.class)
                                         \/ HostIsSubclass(e.class, p.class))
      BY <1>2, SubclassDecides
    <3> QED  BY ONLY <3>1, <3>2, <3>3 DEF Decides
  <2>5. CASE v \notin names
    <3>1. CheckConstraint(e, p, names) = <<>>
      BY <1>2, <2>1, <2>2, <2>5 DEF CheckConstraint
    <3>2. <<v>> # <<w>>
      BY <1>2, <2>5
    <3>3. Fits(e, p, names)
      BY <1>2, <2>2, <2>3, <2>5, <3>2 DEF Fits
    <3> QED  BY <3>1, <3>3 DEF Decides
  <2> QED  BY <2>4, <2>5
<1>3. ASSUME e.op = "Isa", e.class \in DOMAIN Mro, NEW v, NEW w, NEW g,
             e.path = <<v>>, p.path = <<w, g>>
      PROVE  Decides(CheckConstraint(e, p, names), Fits(e, p, names))
  <2>1. PathOf(e.path) = << <<v>> >> /\ PathOf(p.path) = << <<w>>, <<g>> >>
    BY <1>3, PathOfVariable, PathOfField
  <2>2. Len(<<v>>) = 1 /\ Len(<<w, g>>) = 2
        /\ Len(<< <<v>> >>) = 1 /\ Len(<< <<w>>, <<g>> >>) = 2
    OBVIOUS
  <2>3. IsStrictPrefix(<<v>>, <<w, g>>) <=> v = w
    BY VariablePrefix
  <2>4. Zipped(<< <<v>> >>, << <<w>>, <<g>> >>) = {1}
    BY <2>2 DEF Zipped
  <2>5. <<v>> # <<w, g>> /\ << <<v>> >> # << <<w>>, <<g>> >>
    BY <2>2
  <2>6. CASE v = w
    <3>1. CheckConstraint(e, p, names)
            = PathCompare(e, p, << <<v>> >>, << <<w>>, <<g>> >>)
      <4> DEFINE c == << <<v>> >>
                 q == << <<w>>, <<g>> >>
      <4>1. c = PathOf(e.path) /\ q = PathOf(p.path) /\ Len(c) = 1 /\ Len(q) = 2
        BY <2>1, <2>2
      <4>2. c # q /\ Zipped(c, q) = {1} /\ c[1] = <<v>> /\ q[1] = <<v>>
        BY <2>4, <2>5, <2>6
      <4> HIDE DEF c, q
      <4>3. CheckConstraint(e, p, names) = PathCompare(e, p, c, q)
        BY <1>3, <4>1, <4>2, PathLonger
      <4> QED  BY <4>3 DEF c, q
    <3>2. Fits(e, p, names) <=> HostIsaWithPath(e.class, <<g>>, p.class)
      <4>1. SubSeq(p.path, Len(e.path) + 1, Len(p.path)) = <<g>>
        <5> DEFINE t == <<w, g>>
                   u == <<g>>
                   S == {w, g}
        <5>1. /\ \A i \in 2..2 : t[i] \in S
              /\ t[2] = g /\ u \in Seq(S) /\ Len(u) = 1 /\ u[1] = g
          OBVIOUS
        <5> HIDE DEF t, u, S
        <5>2. /\ SubSeq(t, 2, 2) \in Seq(S) /\ Len(SubSeq(t, 2, 2)) = 1
              /\ SubSeq(t, 2, 2)[1] = t[2]
          BY <5>1, SubSeqProperties
        <5>3. \A i \in 1..Len(u) : u[i] = SubSeq(t, 2, 2)[i]
          BY <5>1, <5>2
        <5>4. SubSeq(t, 2, 2) = u
          BY <5>1, <5>2, <5>3, SeqEqual
        <5>5. Len(e.path) + 1 = 2 /\ Len(p.path) = 2 /\ p.path = t
          BY <1>3, <2>2 DEF t
        <5> QED  BY <5>4, <5>5 DEF u
      <4>2. Fits(e, p, names) <=>
              HostIsaWithPath(e.class, SubSeq(p.path, Len(e.path) + 1, Len(p.path)), p.class)
        BY <1>3, <2>2, <2>3, <2>5, <2>6 DEF Fits
      <4> QED  BY <4>1, <4>2
    <3>3. Decides(PathCompare(e, p, << <<v>> >>, << <<v>>, <<g>> >>),
                  HostIsaWithPath(e.class, <<g>>, p.class))
      BY ONLY PathDecides
    <3>4. CheckConstraint(e, p, names)
            = PathCompare(e, p, << <<v>> >>, << <<v>>, <<g>> >>)
      BY <2>6, <3>1
    <3> QED  BY ONLY <3>2, <3>3, <3>4 DEF Decides
  <2>7. CASE v # w
    <3>1. <<v>> # <<w>>
      BY <2>7
    <3>2. CheckConstraint(e, p, names) = <<>>
      <4> DEFINE c == << <<v>> >>
                 q == << <<w>>, <<g>> >>
      <4>1. c = PathOf(e.path) /\ q = PathOf(p.path) /\ Len(c) = 1 /\ Len(q) = 2
        BY <2>1, <2>2
      <4>2. Zipped(c, q) = {1} /\ c[1] # q[1]
        BY <2>4, <3>1
      <4> HIDE DEF c, q
      <4> QED  BY <1>3, <4>1, <4>2, PathsDiffer
    <3>3. Fits(e, p, names)
      BY <1>3, <2>2, <2>3, <2>5, <2>7 DEF Fits
    <3> QED  BY <3>2, <3>3 DEF Decides
  <2> QED  BY <2>6, <2>7
<1>4. ASSUME e.op = "Isa", e.class \in DOMAIN Mro, NEW v, NEW f, NEW w,
             e.path = <<v, f>>, p.path = <<w>>
      PROVE  Decides(CheckConstraint(e, p, names), Fits(e, p, names))
  <2>1. PathOf(e.path) = << <<v>>, <<f>> >> /\ PathOf(p.path) = << <<w>> >>
    BY <1>4, PathOfVariable, PathOfField
  <2>2. Len(<<v, f>>) = 2 /\ Len(<<w>>) = 1
        /\ Len(<< <<v>>, <<f>> >>) = 2 /\ Len(<< <<w>> >>) = 1
    OBVIOUS
  <2>3. ~IsStrictPrefix(<<v, f>>, <<w>>)
    <3>1. /\ <<v, f>> \in Seq({v, f, w}) /\ <<w>> \in Seq({v, f, w})
          /\ Len(<<w>>) <= Len(<<v, f>>)
      OBVIOUS
    <3> QED  BY <3>1, NoStrictPrefix
  <2>4. <<v, f>> # <<w>> /\ << <<v>>, <<f>> >> # << <<w>> >>
    BY <2>2
  <2>5. CheckConstraint(e, p, names) = <<>>
    <3> DEFINE c == << <<v>>, <<f>> >>
               q == << <<w>> >>
    <3>1. c = PathOf(e.path) /\ q = PathOf(p.path) /\ Len(c) = 2 /\ Len(q) = 1 /\ c # q
      BY <2>1, <2>2, <2>4
    <3> HIDE DEF c, q
    <3> QED  BY <1>4, <3>1, CheckIs
  <2>6. Fits(e, p, names)
    BY <1>4, <2>2, <2>3, <2>4 DEF Fits
  <2> QED  BY <2>5, <2>6 DEF Decides
<1>5. ASSUME e.op = "Isa", e.class \in DOMAIN Mro, NEW v, NEW f, NEW w, NEW g,
             e.path = <<v, f>>, p.path = <<w, g>>
      PROVE  Decides(CheckConstraint(e, p, names), Fits(e, p, names))
  <2>1. PathOf(e.path) = << <<v>>, <<f>> >> /\ PathOf(p.path) = << <<w>>, <<g>> >>
    BY <1>5, PathOfField
  <2>2. Len(<<v, f>>) = 2 /\ Len(<<w, g>>) = 2
        /\ Len(<< <<v>>, <<f>> >>) = 2 /\ Len(<< <<w>>, <<g>> >>) = 2
    OBVIOUS
  <2>3. ~IsStrictPrefix(<<v, f>>, <<w, g>>)
    <3>1. /\ <<v, f>> \in Seq({v, f, w, g}) /\ <<w, g>> \in Seq({v, f, w, g})
          /\ Len(<<w, g>>) <= Len(<<v, f>>)
      OBVIOUS
    <3> QED  BY <3>1, NoStrictPrefix
  <2>4. Zipped(<< <<v>>, <<f>> >>, << <<w>>, <<g>> >>) = {1, 2}
    <3>1. 1..2 = {1, 2}
      OBVIOUS
    <3> QED  BY <2>2, <3>1 DEF Zipped
  <2>5. CASE <<v, f>> = <<w, g>>
    <3>1. v = w /\ f = g
      BY <2>5
    <3>2. CheckConstraint(e, p, names) = SubclassCompare(e, p)
      <4> DEFINE c == << <<v>>, <<f>> >>
                 q == << <<w>>, <<g>> >>
      <4>1. c = PathOf(e.path) /\ q = PathOf(p.path) /\ Len(c) = 2 /\ Len(q) = 2 /\ c = q
        BY <2>1, <2>2, <3>1
      <4>2. \A i \in Zipped(c, q) : c[i] = q[i]
        BY <4>1
      <4> HIDE DEF c, q
      <4> QED  BY <1>5, <4>1, PathsEqual
    <3>3. Fits(e, p, names) <=> \/ HostIsSubclass(p.class, e.class)
                               \/ HostIsSubclass(e.class, p.class)
      BY <1>5, <2>5 DEF Fits
    <3>4. Decides(SubclassCompare(e, p), \/ HostIsSubclass(p.class, e.class)
                                         \/ HostIsSubclass(e.class, p.class))
      BY <1>5, SubclassDecides
    <3> QED  BY ONLY <3>2, <3>3, <3>4 DEF Decides
  <2>6. CASE <<v, f>> # <<w, g>>
    <3>1. <<v>> # <<w>> \/ <<f>> # <<g>>
      BY <2>6
    <3>2. CheckConstraint(e, p, names) = <<>>
      <4> DEFINE c == << <<v>>, <<f>> >>
                 q == << <<w>>, <<g>> >>
      <4>1. c = PathOf(e.path) /\ q = PathOf(p.path) /\ Len(c) = 2 /\ Len(q) = 2
        BY <2>1, <2>2
      <4>2. Zipped(c, q) = {1, 2} /\ (c[1] # q[1] \/ c[2] # q[2])
        BY <2>4, <3>1
      <4> HIDE DEF c, q
      <4> QED  BY <1>5, <4>1, <4>2, PathsDiffer
    <3>3. Fits(e, p, names)
      BY <1>5, <2>2, <2>3, <2>6 DEF Fits
    <3> QED  BY <3>2, <3>3 DEF Decides
  <2> QED  BY <2>5, <2>6
<1> QED
  <2>1. CASE e.op = "Isa"
    <3>1. (\E v : e.path = <<v>>) \/ (\E v, f : e.path = <<v, f>>)
      BY <2>1, FieldIs, VariableIs DEF IsShallow
    <3>2. (\E v \in names : p.path = <<v>>) \/ (\E v, f : p.path = <<v, f>>)
      BY FieldIs
    <3>3. e.class \in DOMAIN Mro
      BY <2>1 DEF IsShallow
    <3> QED  BY <1>2, <1>3, <1>4, <1>5, <2>1, <3>1, <3>2, <3>3
  <2> QED  BY <1>1, <2>1

-----------------------------------------------------------------------------
(* The check of one path of a partial.                                      *)

LEMMA HasGreatest ==
    ASSUME NEW n \in Nat, NEW T \in SUBSET (1..n), T # {}
    PROVE  \E i \in T : \A j \in T : j <= i
<1> DEFINE U == {k \in Nat : n - k \in T}
<1>1. \A i \in T : n - i \in U /\ i \in Nat
  <2> SUFFICES ASSUME NEW i \in T PROVE n - i \in U /\ i \in Nat
    OBVIOUS
  <2>1. i \in Nat /\ n - i \in Nat /\ n - (n - i) = i
    OBVIOUS
  <2> QED  BY <2>1
<1>2. U # {} /\ U \in SUBSET Nat
  BY <1>1
<1>3. PICK k \in U : \A l \in U : k <= l
  BY <1>2, HasLeast
<1>4. ASSUME NEW j \in T PROVE j <= n - k
  BY <1>1, <1>3
<1> QED  BY <1>3, <1>4

\* The i-th constraint of a partial fits the class for the path.
Fit(arg, path, class, i) ==
    Fits(arg.constraints[i], Constraint("Isa", path, class), arg.names)

\* What the answers that are still to come tell: the first question and the
\* alternative.
Pending(fit, asked, alternative) ==
    \E q : /\ asked = <<q>>
           /\ \/ alternative = <<>> /\ (fit <=> HostAnswer(q))
              \/ \E r : alternative = <<r>> /\ (fit <=> HostAnswer(q) \/ HostAnswer(r))

\* The last answer: if it was no, the alternative decides.
Answered(fit, result, alternative) ==
    \/ result = "yes" /\ fit
    \/ result = "no" /\ alternative = <<>> /\ ~fit
    \/ result = "no" /\ \E r : alternative = <<r>> /\ (fit <=> HostAnswer(r))

\* The constraints up to n are left.
Left(c, arg, n) ==
    /\ c.existing \in Seq(Range(arg.constraints)) /\ Len(c.existing) = n
    /\ \A i \in 1..n : c.existing[i] = arg.constraints[i]

Progress(c, arg, path, class, n) ==
    /\ Left(c, arg, n)
    /\ \A i \in DOMAIN arg.constraints : i > n + 1 => Fit(arg, path, class, i)
    /\ \/ /\ n = Len(arg.constraints)
          /\ c.asked = <<>> /\ c.alternative = <<>> /\ c.result = "none"
       \/ /\ n < Len(arg.constraints) /\ c.result = "none"
          /\ Pending(Fit(arg, path, class, n + 1), c.asked, c.alternative)
       \/ /\ n < Len(arg.constraints) /\ c.asked = <<>>
          /\ Answered(Fit(arg, path, class, n + 1), c.result, c.alternative)

\* A check of a proposed constraint.
IsCheck(c, p, names) ==
    c = [existing |-> c.existing, proposed |-> p, names |-> names, asked |-> c.asked,
         alternative |-> c.alternative, result |-> c.result, done |-> c.done]

LEMMA WithDone ==
    ASSUME NEW c, NEW p, NEW names, IsCheck(c, p, names), NEW d,
           d = [c EXCEPT !.done = "false"]
    PROVE  IsCheck(d, p, names) /\ d.done = "false" /\ d.asked = c.asked
  BY DEF IsCheck

ResultOf(d, c, x) ==
    d = [c EXCEPT !.asked = <<>>, !.result = x]

LEMMA WithResult ==
    ASSUME NEW c, NEW p, NEW names, IsCheck(c, p, names), NEW d, NEW x,
           ResultOf(d, c, x)
    PROVE  /\ IsCheck(d, p, names) /\ d.existing = c.existing /\ d.asked = <<>>
           /\ d.alternative = c.alternative /\ d.result = x /\ d.done = c.done
<1> DEFINE e1 == [c EXCEPT !.asked = <<>>]
<1>1. d = [e1 EXCEPT !.result = x]
  BY DEF ResultOf
<1>2. IsCheck(e1, p, names)
      /\ e1.existing = c.existing /\ e1.asked = <<>> /\ e1.alternative = c.alternative
      /\ e1.result = c.result /\ e1.done = c.done
  BY DEF IsCheck
<1> HIDE DEF e1
<1> QED  BY ONLY <1>1, <1>2 DEF IsCheck

AskedOf(d, c, x) ==
    d = [c EXCEPT !.asked = x, !.alternative = <<>>, !.result = "none"]

LEMMA WithAsked ==
    ASSUME NEW c, NEW p, NEW names, IsCheck(c, p, names), NEW d, NEW x,
           AskedOf(d, c, x)
    PROVE  /\ IsCheck(d, p, names) /\ d.existing = c.existing /\ d.asked = x
           /\ d.alternative = <<>> /\ d.result = "none" /\ d.done = c.done
<1> DEFINE e1 == [c EXCEPT !.asked = x]
           e2 == [e1 EXCEPT !.alternative = <<>>]
<1>1. d = [e2 EXCEPT !.result = "none"]
  BY DEF AskedOf
<1>2. IsCheck(e1, p, names)
      /\ e1.existing = c.existing /\ e1.asked = x /\ e1.alternative = c.alternative
      /\ e1.result = c.result /\ e1.done = c.done
  BY DEF IsCheck
<1> HIDE DEF e1
<1>3. IsCheck(e2, p, names)
      /\ e2.existing = c.existing /\ e2.asked = x /\ e2.alternative = <<>>
      /\ e2.result = c.result /\ e2.done = c.done
  <2>1. e2 = [e1 EXCEPT !.alternative = <<>>]
    BY DEF e2
  <2> HIDE DEF e2
  <2> QED  BY ONLY <1>2, <2>1 DEF IsCheck
<1> HIDE DEF e2
<1> QED  BY ONLY <1>1, <1>3 DEF IsCheck

LEMMA WithNoneLeft ==
    ASSUME NEW c, NEW p, NEW names, IsCheck(c, p, names), NEW d,
           d = [c EXCEPT !.existing = <<>>, !.alternative = <<>>, !.done = "true"]
    PROVE  IsCheck(d, p, names) /\ d.done = "true" /\ d.asked = c.asked
<1> DEFINE e1 == [c EXCEPT !.existing = <<>>]
           e2 == [e1 EXCEPT !.alternative = <<>>]
<1>1. d = [e2 EXCEPT !.done = "true"]
  OBVIOUS
<1>2. IsCheck(e1, p, names)
      /\ e1.existing = <<>> /\ e1.asked = c.asked /\ e1.alternative = c.alternative
      /\ e1.result = c.result /\ e1.done = c.done
  BY DEF IsCheck
<1> HIDE DEF e1
<1>3. IsCheck(e2, p, names)
      /\ e2.existing = <<>> /\ e2.asked = c.asked /\ e2.alternative = <<>>
      /\ e2.result = c.result /\ e2.done = c.done
  <2>1. e2 = [e1 EXCEPT !.alternative = <<>>]
    BY DEF e2
  <2> HIDE DEF e2
  <2> QED  BY ONLY <1>2, <2>1 DEF IsCheck
<1> HIDE DEF e2
<1> QED  BY ONLY <1>1, <1>3 DEF IsCheck

QuestionOf(d, c, w, x, y) ==
    d = [c EXCEPT !.existing = w, !.asked = x, !.alternative = y, !.result = "none"]

LEMMA WithQuestion ==
    ASSUME NEW c, NEW p, NEW names, IsCheck(c, p, names), NEW d, NEW w, NEW x, NEW y,
           QuestionOf(d, c, w, x, y)
    PROVE  /\ IsCheck(d, p, names) /\ d.existing = w /\ d.asked = x
           /\ d.alternative = y /\ d.result = "none" /\ d.done = c.done
<1> DEFINE e1 == [c EXCEPT !.existing = w]
           e2 == [e1 EXCEPT !.asked = x]
           e3 == [e2 EXCEPT !.alternative = y]
<1>1. d = [e3 EXCEPT !.result = "none"]
  BY DEF QuestionOf
<1>2. IsCheck(e1, p, names)
      /\ e1.existing = w /\ e1.asked = c.asked /\ e1.alternative = c.alternative
      /\ e1.result = c.result /\ e1.done = c.done
  BY DEF IsCheck
<1> HIDE DEF e1
<1>3. IsCheck(e2, p, names)
      /\ e2.existing = w /\ e2.asked = x /\ e2.alternative = c.alternative
      /\ e2.result = c.result /\ e2.done = c.done
  <2>1. e2 = [e1 EXCEPT !.asked = x]
    BY DEF e2
  <2> HIDE DEF e2
  <2> QED  BY ONLY <1>2, <2>1 DEF IsCheck
<1> HIDE DEF e2
<1>4. IsCheck(e3, p, names)
      /\ e3.existing = w /\ e3.asked = x /\ e3.alternative = y
      /\ e3.result = c.result /\ e3.done = c.done
  <2>1. e3 = [e2 EXCEPT !.alternative = y]
    BY DEF e3
  <2> HIDE DEF e3
  <2> QED  BY ONLY <1>3, <2>1 DEF IsCheck
<1> HIDE DEF e3
<1> QED  BY ONLY <1>1, <1>4 DEF IsCheck

CheckOK(c, arg, path, class) ==
    /\ IsCheck(c, Constraint("Isa", path, class), arg.names)
    /\ \/ c.done = "true" /\ c.asked = <<>> /\ FitsAll(arg, path, class)
       \/ c.done = "false" /\ c.asked = <<>> /\ ~FitsAll(arg, path, class)
       \/ c.done = "no" /\ \E n \in 0..Len(arg.constraints) : Progress(c, arg, path, class, n)

IsPath(arg, path) == path = <<arg.var>> \/ IsField(path)

LEMMA PendingOf ==
    ASSUME NEW questions, NEW fit, questions # <<>>, Decides(questions, fit)
    PROVE  Pending(fit, <<questions[1]>>, Tail(questions))
<1>1. ASSUME NEW q, questions = <<q>>, fit <=> HostAnswer(q)
      PROVE  Pending(fit, <<questions[1]>>, Tail(questions))
  <2>1. questions[1] = q /\ Tail(questions) = <<>>
    BY <1>1
  <2> QED  BY <1>1, <2>1 DEF Pending
<1>2. ASSUME NEW q, NEW r, questions = <<q, r>>, fit <=> HostAnswer(q) \/ HostAnswer(r)
      PROVE  Pending(fit, <<questions[1]>>, Tail(questions))
  <2>1. questions[1] = q /\ Tail(questions) = <<r>>
    BY <1>2
  <2> QED  BY <1>2, <2>1 DEF Pending
<1> QED  BY <1>1, <1>2 DEF Decides

LEMMA NewOK ==
    ASSUME NEW arg, NEW path, NEW class, IsShallowPartial(arg)
    PROVE  CheckOK(NewCheck(arg.constraints, Constraint("Isa", path, class), arg.names),
                   arg, path, class)
<1> DEFINE c == NewCheck(arg.constraints, Constraint("Isa", path, class), arg.names)
<1>1. /\ IsCheck(c, Constraint("Isa", path, class), arg.names)
      /\ c.existing = arg.constraints /\ c.asked = <<>> /\ c.alternative = <<>>
      /\ c.result = "none" /\ c.done = "no"
  BY DEF NewCheck, IsCheck
<1>2. arg.constraints \in Seq(Range(arg.constraints))
  BY DEF IsShallowPartial
<1>3. Len(arg.constraints) \in 0..Len(arg.constraints)
  BY <1>2
<1> HIDE DEF c
<1>4. Progress(c, arg, path, class, Len(arg.constraints))
  BY <1>1, <1>2 DEF Progress, Left
<1> QED  BY <1>1, <1>3, <1>4 DEF CheckOK, c

LEMMA ToldOK ==
    ASSUME NEW c, NEW arg, NEW path, NEW class, IsShallowPartial(arg),
           CheckOK(c, arg, path, class), c.asked # <<>>
    PROVE  CheckOK(Told(c, HostAnswer(c.asked[1])), arg, path, class)
<1> DEFINE d == Told(c, HostAnswer(c.asked[1]))
<1>1. PICK n \in 0..Len(arg.constraints) : Progress(c, arg, path, class, n) /\ c.done = "no"
  BY DEF CheckOK
<1>2. n < Len(arg.constraints) /\ Pending(Fit(arg, path, class, n + 1), c.asked, c.alternative)
  BY <1>1 DEF Progress
<1>3. PICK q : /\ c.asked = <<q>>
               /\ \/ c.alternative = <<>> /\ (Fit(arg, path, class, n + 1) <=> HostAnswer(q))
                  \/ \E r : /\ c.alternative = <<r>>
                            /\ Fit(arg, path, class, n + 1) <=> HostAnswer(q) \/ HostAnswer(r)
  BY <1>2 DEF Pending
<1>4. /\ IsCheck(d, Constraint("Isa", path, class), arg.names)
      /\ d.existing = c.existing /\ d.asked = <<>> /\ d.alternative = c.alternative
      /\ d.done = "no"
      /\ HostAnswer(q) => d.result = "yes"
      /\ ~HostAnswer(q) => d.result = "no"
  <2>1. IsCheck(c, Constraint("Isa", path, class), arg.names)
    BY DEF CheckOK
  <2>2. c.asked[1] = q
    BY <1>3
  <2>3. ResultOf(d, c, IF HostAnswer(q) THEN "yes" ELSE "no")
    BY <2>2 DEF Told, ResultOf
  <2> HIDE DEF d
  <2>4. /\ IsCheck(d, Constraint("Isa", path, class), arg.names)
        /\ d.existing = c.existing /\ d.asked = <<>> /\ d.alternative = c.alternative
        /\ d.result = (IF HostAnswer(q) THEN "yes" ELSE "no") /\ d.done = c.done
    BY ONLY <2>1, <2>3, WithResult
  <2> QED  BY <1>1, <2>4
<1> HIDE DEF d
<1>5. Answered(Fit(arg, path, class, n + 1), d.result, d.alternative)
  BY <1>3, <1>4 DEF Answered
<1>6. Left(d, arg, n)
  BY <1>1, <1>4 DEF Progress, Left
<1>7. Progress(d, arg, path, class, n)
  BY <1>1, <1>2, <1>4, <1>5, <1>6 DEF Progress
<1> QED  BY <1>4, <1>7 DEF CheckOK, d

LEMMA RunOK ==
    ASSUME NEW c, NEW arg, NEW path, NEW class, IsShallowPartial(arg), IsPath(arg, path),
           CheckOK(c, arg, path, class), c.asked = <<>>, c.done = "no"
    PROVE  CheckOK(RunCheck(c), arg, path, class)
<1> DEFINE d == RunCheck(c)
           p == Constraint("Isa", path, class)
           F(i) == Fit(arg, path, class, i)
<1>1. PICK n \in 0..Len(arg.constraints) : Progress(c, arg, path, class, n)
  BY DEF CheckOK
<1>2. IsCheck(c, p, arg.names)
  BY DEF CheckOK
<1>3. /\ arg.constraints \in Seq(Range(arg.constraints))
      /\ Len(arg.constraints) \in Nat /\ n \in Nat /\ n <= Len(arg.constraints)
      /\ DOMAIN arg.constraints = 1..Len(arg.constraints)
  BY DEF IsShallowPartial
<1>4. Left(c, arg, n) /\ DOMAIN c.existing = 1..n
  BY <1>1 DEF Progress, Left
<1>5. \/ n = Len(arg.constraints) /\ c.alternative = <<>> /\ c.result = "none"
      \/ /\ n < Len(arg.constraints) /\ Answered(F(n + 1), c.result, c.alternative)
  BY <1>1 DEF Progress, Pending
<1>6. CASE c.result = "no" /\ c.alternative = <<>>
  <2>1. d = [c EXCEPT !.done = "false"]
    BY <1>6 DEF RunCheck, Retried
  <2>2. IsCheck(d, p, arg.names) /\ d.done = "false" /\ d.asked = <<>>
    <3> HIDE DEF d, p
    <3> QED  BY <1>2, <2>1, WithDone
  <2>3. ~F(n + 1) /\ n + 1 \in DOMAIN arg.constraints
    BY <1>3, <1>5, <1>6 DEF Answered
  <2>4. ~FitsAll(arg, path, class)
    BY <2>3 DEF FitsAll, Fit
  <2> HIDE DEF d
  <2> QED  BY <2>2, <2>4 DEF CheckOK, d
<1>7. CASE Retried(c)
  <2>1. c.alternative # <<>> /\ c.result # "yes"
    BY <1>7 DEF Retried
  <2>2. d = [c EXCEPT !.asked = c.alternative, !.alternative = <<>>, !.result = "none"]
    BY <1>7, <2>1 DEF RunCheck
  <2>3. PICK r : c.alternative = <<r>> /\ n < Len(arg.constraints)
                   /\ (F(n + 1) <=> HostAnswer(r))
    BY <1>5, <2>1 DEF Answered
  <2>4. /\ IsCheck(d, p, arg.names) /\ d.done = "no" /\ d.asked = <<r>> /\ d.alternative = <<>>
        /\ d.result = "none" /\ d.existing = c.existing
    <3> HIDE DEF d, p
    <3>1. AskedOf(d, c, <<r>>)
      BY <2>2, <2>3 DEF AskedOf
    <3>2. /\ IsCheck(d, p, arg.names) /\ d.existing = c.existing /\ d.asked = <<r>>
          /\ d.alternative = <<>> /\ d.result = "none" /\ d.done = c.done
      BY ONLY <1>2, <3>1, WithAsked
    <3> QED  BY <3>2
  <2> HIDE DEF d
  <2>5. Pending(F(n + 1), d.asked, d.alternative)
    BY <2>3, <2>4 DEF Pending
  <2>6. Left(d, arg, n)
    BY <1>4, <2>4 DEF Left
  <2>7. Progress(d, arg, path, class, n)
    BY <1>1, <2>3, <2>4, <2>5, <2>6 DEF Progress
  <2> QED  BY <2>4, <2>7 DEF CheckOK, d
<1>8. CASE ~(c.result = "no" /\ c.alternative = <<>>) /\ ~Retried(c)
  <2> DEFINE Q(i) == CheckConstraint(c.existing[i], c.proposed, c.names)
             asks == {i \in DOMAIN c.existing : Q(i) # <<>>}
             last == CHOOSE i \in asks : \A j \in asks : j <= i
             questions == Q(last)
  <2>1. \A i \in DOMAIN arg.constraints : i > n => F(i)
    <3>1. n = Len(arg.constraints) \/ F(n + 1)
      BY <1>5, <1>8 DEF Answered, Retried
    <3>2. ASSUME NEW i \in DOMAIN arg.constraints, i > n PROVE F(i)
      <4>1. i \in Nat /\ (i = n + 1 \/ i > n + 1) /\ i <= Len(arg.constraints)
        BY <1>3, <3>2
      <4> QED  BY <1>1, <1>3, <3>1, <4>1 DEF Progress
    <3> QED  BY <3>2
  <2>2. ASSUME NEW i \in 1..n PROVE Decides(Q(i), F(i))
    <3>1. i \in DOMAIN arg.constraints /\ c.existing[i] = arg.constraints[i]
      BY <1>3, <1>4 DEF Left
    <3>2. c.proposed = p /\ c.names = arg.names /\ p.op = "Isa" /\ p.path = path
      BY <1>2 DEF Constraint, IsCheck
    <3>3. \/ \E v \in arg.names : p.path = <<v>>
          \/ IsField(p.path)
      BY <3>2 DEF IsPath, IsShallowPartial
    <3>4. IsShallow(arg.constraints[i])
      BY <3>1 DEF IsShallowPartial
    <3> HIDE DEF p
    <3>5. Decides(CheckConstraint(arg.constraints[i], p, arg.names),
                  Fits(arg.constraints[i], p, arg.names))
      BY <3>2, <3>3, <3>4, ConstraintDecides
    <3> QED  BY <3>1, <3>2, <3>5 DEF Fit, p
  <2>3. CASE asks = {}
    <3>1. d = [c EXCEPT !.existing = <<>>, !.alternative = <<>>, !.done = "true"]
      BY <1>8, <2>3 DEF RunCheck
    <3>2. IsCheck(d, p, arg.names) /\ d.done = "true" /\ d.asked = <<>>
      <4> HIDE DEF d, p
      <4> QED  BY <1>2, <3>1, WithNoneLeft
    <3>3. ASSUME NEW i \in DOMAIN arg.constraints PROVE F(i)
      <4>1. CASE i > n
        BY <2>1, <4>1
      <4>2. CASE ~(i > n)
        <5>1. i \in 1..n
          BY <1>3, <4>2
        <5>2. Q(i) = <<>>
          BY <1>4, <2>3, <5>1
        <5>3. Decides(Q(i), F(i))
          BY <2>2, <5>1
        <5> HIDE DEF Q, F
        <5> QED  BY ONLY <5>2, <5>3 DEF Decides
      <4> QED  BY <4>1, <4>2
    <3>4. FitsAll(arg, path, class)
      BY <3>3 DEF FitsAll, Fit
    <3> HIDE DEF d
    <3> QED  BY <3>2, <3>4 DEF CheckOK, d
  <2>4. CASE asks # {}
    <3>1. d = [c EXCEPT !.existing = SubSeq(@, 1, last - 1), !.asked = <<questions[1]>>,
                        !.alternative = Tail(questions), !.result = "none"]
      BY <1>8, <2>4 DEF RunCheck
    <3>2. asks \in SUBSET (1..n) /\ n \in Nat
      BY <1>3, <1>4
    <3>3. \E i \in asks : \A j \in asks : j <= i
      BY <2>4, <3>2, HasGreatest
    <3>4. last \in asks /\ \A j \in asks : j <= last
      BY <3>3
    <3>5. questions # <<>> /\ last \in 1..n
      BY <3>2, <3>4
    <3>6. Decides(questions, F(last))
      BY <2>2, <3>5
    <3> HIDE DEF d, last, questions
    <3>7. Pending(F(last), <<questions[1]>>, Tail(questions))
      BY <3>5, <3>6, PendingOf
    <3>8. ASSUME NEW i \in DOMAIN arg.constraints, i > last PROVE F(i)
      <4>1. CASE i > n
        BY <2>1, <4>1
      <4>2. CASE ~(i > n)
        <5>1. i \in 1..n /\ ~(i <= last)
          BY <1>3, <3>5, <3>8, <4>2
        <5>2. Q(i) = <<>>
          BY <1>4, <3>4, <5>1
        <5> HIDE DEF Q, F
        <5> QED  BY <2>2, <5>1, <5>2 DEF Decides
      <4> QED  BY <4>1, <4>2
    <3>9. /\ IsCheck(d, p, arg.names) /\ d.done = "no" /\ d.asked = <<questions[1]>>
          /\ d.alternative = Tail(questions) /\ d.result = "none"
          /\ d.existing = SubSeq(c.existing, 1, last - 1)
      <4> HIDE DEF p
      <4> DEFINE w == SubSeq(c.existing, 1, last - 1)
                 x == <<questions[1]>>
                 y == Tail(questions)
      <4>1. QuestionOf(d, c, w, x, y)
        BY <3>1 DEF QuestionOf
      <4> HIDE DEF w, x, y
      <4>2. /\ IsCheck(d, p, arg.names) /\ d.existing = w /\ d.asked = x
            /\ d.alternative = y /\ d.result = "none" /\ d.done = c.done
        BY ONLY <1>2, <4>1, WithQuestion
      <4> QED  BY <4>2 DEF w, x, y
    <3>10. Left(d, arg, last - 1)
      <4> DEFINE k == last - 1
                 s == SubSeq(c.existing, 1, k)
                 S == Range(arg.constraints)
      <4>1. k \in Nat /\ k < n
        BY <1>3, <3>5
      <4> HIDE DEF k
      <4>2. \A i \in 1..k : /\ c.existing[i] = arg.constraints[i]
                            /\ c.existing[i] \in S
        <5> SUFFICES ASSUME NEW i \in 1..k
                     PROVE  c.existing[i] = arg.constraints[i] /\ c.existing[i] \in S
          OBVIOUS
        <5>1. i \in 1..n /\ i \in DOMAIN c.existing
          BY <1>3, <1>4, <4>1
        <5> QED  BY <1>3, <1>4, <5>1 DEF Left
      <4> HIDE DEF S
      <4>3. 1 \in Int /\ k \in Int /\ \A i \in 1..k : c.existing[i] \in S
        BY <4>1, <4>2
      <4>4. /\ s \in Seq(S) /\ Len(s) = (IF 1 <= k THEN k - 1 + 1 ELSE 0)
            /\ \A i \in 1..(k - 1 + 1) : s[i] = c.existing[1 + i - 1]
        BY ONLY <4>3, SubSeqProperties
      <4>5. d.existing = s
        BY <3>9 DEF k
      <4> HIDE DEF s
      <4>6. Len(s) = k
        BY <4>1, <4>4
      <4>7. \A i \in 1..k : s[i] = c.existing[i]
        BY <4>1, <4>4
      <4> QED  BY <4>2, <4>4, <4>5, <4>6, <4>7 DEF Left, S, k
    <3>11. last - 1 \in 0..Len(arg.constraints) /\ last - 1 < Len(arg.constraints)
           /\ last - 1 + 1 = last
      BY <1>3, <3>5
    <3>12. Progress(d, arg, path, class, last - 1)
      BY <3>7, <3>8, <3>9, <3>10, <3>11 DEF Progress
    <3> QED  BY <3>9, <3>11, <3>12 DEF CheckOK, d
  <2> QED  BY <2>3, <2>4
<1> QED  BY <1>6, <1>7, <1>8

-----------------------------------------------------------------------------
(* The checks of a partial for a class, one for every path.                 *)

\* What is left of the checks after the m-th.
Rest(rest, new, m) ==
    /\ rest \in Seq(Range(new)) /\ Len(rest) = Len(new) - m
    /\ \A k \in 1..Len(rest) : rest[k] = new[m + k]

\* The check c is the m-th one; those before it have passed.
UnderwayAt(m, arg, class, c, rest) ==
    /\ \A k \in 1..Len(NewChecks(arg, class)) :
          k < m => FitsAll(arg, LhssOfMatches(arg)[k], class)
    /\ Rest(rest, NewChecks(arg, class), m)
    /\ CheckOK(c, arg, LhssOfMatches(arg)[m], class)

Underway(arg, class, c, rest) ==
    \E m \in 1..Len(NewChecks(arg, class)) : UnderwayAt(m, arg, class, c, rest)

LEMMA ChecksAre ==
    ASSUME NEW arg, NEW class, IsShallowPartial(arg)
    PROVE  LET new  == NewChecks(arg, class)
               lhss == LhssOfMatches(arg)
           IN  /\ new \in Seq(Range(new)) /\ Len(new) \in Nat \ {0}
               /\ DOMAIN lhss = 1..Len(new)
               /\ \A m \in 1..Len(new) : /\ IsPath(arg, lhss[m])
                                         /\ CheckOK(new[m], arg, lhss[m], class)
<1> DEFINE new  == NewChecks(arg, class)
           lhss == LhssOfMatches(arg)
           New(k) == NewCheck(arg.constraints, Constraint("Isa", lhss[k], class), arg.names)
<1>1. PICK n \in Nat \ {0} : /\ lhss = [i \in 1..n |-> lhss[i]]
                             /\ \A i \in 1..n : lhss[i] = <<arg.var>> \/ IsField(lhss[i])
  BY LhssAre
<1>2. DOMAIN lhss = 1..n
  BY <1>1
<1>3. new = [k \in DOMAIN lhss |-> New(k)]
  BY DEF NewChecks
<1>4. \A k \in 1..n : CheckOK(New(k), arg, lhss[k], class)
  BY NewOK
<1> HIDE DEF lhss, new, New
<1>5. new = [k \in 1..n |-> New(k)]
  BY <1>2, <1>3
<1>6. DOMAIN new = 1..n /\ \A k \in 1..n : new[k] = New(k)
  BY <1>5
<1>7. \A k \in 1..n : New(k) \in Range(new)
  BY <1>6 DEF Range
<1>8. new \in Seq(Range(new)) /\ Len(new) = n
  BY <1>5, <1>7
<1>9. \A m \in 1..n : IsPath(arg, lhss[m]) /\ CheckOK(new[m], arg, lhss[m], class)
  BY <1>1, <1>4, <1>6 DEF IsPath
<1> QED  BY <1>2, <1>8, <1>9 DEF lhss, new

LEMMA UnderwayBegins ==
    ASSUME NEW arg, NEW class, IsShallowPartial(arg)
    PROVE  Underway(arg, class, NewChecks(arg, class)[1], Tail(NewChecks(arg, class)))
<1> DEFINE new == NewChecks(arg, class)
           lhss == LhssOfMatches(arg)
<1>1. /\ new \in Seq(Range(new)) /\ Len(new) \in Nat \ {0}
      /\ CheckOK(new[1], arg, lhss[1], class)
  BY ChecksAre
<1> HIDE DEF new, lhss
<1>2. Rest(Tail(new), new, 1)
  <2>1. new # <<>>
    BY <1>1
  <2>2. /\ Tail(new) \in Seq(Range(new)) /\ Len(Tail(new)) = Len(new) - 1
        /\ \A k \in 1..Len(Tail(new)) : Tail(new)[k] = new[k + 1]
    BY <1>1, <2>1
  <2> QED  BY <1>1, <2>2 DEF Rest
<1>3. \A k \in 1..Len(new) : ~(k < 1)
  BY <1>1
<1>4. 1 \in 1..Len(new)
  BY <1>1
<1>5. UnderwayAt(1, arg, class, new[1], Tail(new))
  BY <1>1, <1>2, <1>3 DEF UnderwayAt, new, lhss
<1> QED  BY <1>4, <1>5 DEF Underway, new

LEMMA UnderwayRuns ==
    ASSUME NEW arg, NEW class, NEW c, NEW rest, IsShallowPartial(arg),
           Underway(arg, class, c, rest), c.asked = <<>>, c.done = "no"
    PROVE  Underway(arg, class, RunCheck(c), rest)
<1>1. PICK m \in 1..Len(NewChecks(arg, class)) : UnderwayAt(m, arg, class, c, rest)
  BY DEF Underway
<1>2. IsPath(arg, LhssOfMatches(arg)[m])
  BY ChecksAre
<1>3. CheckOK(RunCheck(c), arg, LhssOfMatches(arg)[m], class)
  BY <1>1, <1>2, RunOK DEF UnderwayAt
<1>4. UnderwayAt(m, arg, class, RunCheck(c), rest)
  BY <1>1, <1>3 DEF UnderwayAt
<1> QED  BY <1>4 DEF Underway

LEMMA UnderwayTold ==
    ASSUME NEW arg, NEW class, NEW c, NEW rest, IsShallowPartial(arg),
           Underway(arg, class, c, rest), c.asked # <<>>
    PROVE  Underway(arg, class, Told(c, HostAnswer(c.asked[1])), rest)
<1>1. PICK m \in 1..Len(NewChecks(arg, class)) : UnderwayAt(m, arg, class, c, rest)
  BY DEF Underway
<1>2. CheckOK(Told(c, HostAnswer(c.asked[1])), arg, LhssOfMatches(arg)[m], class)
  BY <1>1, ToldOK DEF UnderwayAt
<1>3. UnderwayAt(m, arg, class, Told(c, HostAnswer(c.asked[1])), rest)
  BY <1>1, <1>2 DEF UnderwayAt
<1> QED  BY <1>3 DEF Underway

\* A check that has passed, and one that has not.
LEMMA CheckTells ==
    ASSUME NEW c, NEW arg, NEW path, NEW class, CheckOK(c, arg, path, class)
    PROVE  /\ c.proposed.path = path /\ c.proposed.class = class
           /\ c.done # "no" => (c.done = "true" <=> FitsAll(arg, path, class))
           /\ c.done = "true" => FitsAll(arg, path, class)
           /\ c.done = "false" => ~FitsAll(arg, path, class)
<1>1. c.proposed = Constraint("Isa", path, class)
  BY DEF CheckOK, IsCheck
<1>2. c.proposed.path = path /\ c.proposed.class = class
  BY <1>1 DEF Constraint
<1> QED  BY <1>2 DEF CheckOK

LEMMA UnderwayNext ==
    ASSUME NEW arg, NEW class, NEW c, NEW rest, IsShallowPartial(arg),
           Underway(arg, class, c, rest), c.done = "true", rest # <<>>
    PROVE  Underway(arg, class, Head(rest), Tail(rest))
<1> DEFINE new == NewChecks(arg, class)
           lhss == LhssOfMatches(arg)
<1>1. PICK m \in 1..Len(new) : UnderwayAt(m, arg, class, c, rest)
  BY DEF Underway
<1>2. /\ Len(new) \in Nat \ {0}
      /\ \A k \in 1..Len(new) : CheckOK(new[k], arg, lhss[k], class)
  BY ChecksAre
<1>3. /\ \A k \in 1..Len(new) : k < m => FitsAll(arg, lhss[k], class)
      /\ Rest(rest, new, m) /\ CheckOK(c, arg, lhss[m], class)
  BY <1>1 DEF UnderwayAt
<1> HIDE DEF new, lhss
<1>4. FitsAll(arg, lhss[m], class)
  BY <1>3, CheckTells
<1>5. /\ rest \in Seq(Range(new)) /\ Len(rest) = Len(new) - m
      /\ \A k \in 1..Len(rest) : rest[k] = new[m + k]
  BY <1>3 DEF Rest
<1>6. Len(rest) \in Nat \ {0} /\ m \in Nat /\ 1 \in 1..Len(rest)
  BY <1>2, <1>5
<1>7. m + 1 \in 1..Len(new) /\ Head(rest) = new[m + 1]
  BY <1>2, <1>5, <1>6
<1>8. \A k \in 1..Len(new) : k < m + 1 => FitsAll(arg, lhss[k], class)
  BY <1>3, <1>4, <1>6
<1>9. Rest(Tail(rest), new, m + 1)
  <2>1. /\ Tail(rest) \in Seq(Range(new)) /\ Len(Tail(rest)) = Len(rest) - 1
        /\ \A k \in 1..Len(Tail(rest)) : Tail(rest)[k] = rest[k + 1]
    BY <1>5
  <2>2. \A k \in 1..Len(Tail(rest)) : Tail(rest)[k] = new[m + 1 + k]
    <3> SUFFICES ASSUME NEW k \in 1..Len(Tail(rest)) PROVE Tail(rest)[k] = new[m + 1 + k]
      OBVIOUS
    <3>1. k + 1 \in 1..Len(rest) /\ m + (k + 1) = m + 1 + k
      BY <1>6, <2>1
    <3> QED  BY <1>5, <2>1, <3>1
  <2>3. Len(Tail(rest)) = Len(new) - (m + 1)
    BY <1>2, <1>5, <1>6, <2>1
  <2> QED  BY <2>1, <2>2, <2>3 DEF Rest
<1>10. UnderwayAt(m + 1, arg, class, Head(rest), Tail(rest))
  BY <1>2, <1>7, <1>8, <1>9 DEF UnderwayAt, new, lhss
<1> QED  BY <1>7, <1>10 DEF Underway, new

LEMMA UnderwayPasses ==
    ASSUME NEW arg, NEW class, NEW c, NEW rest, IsShallowPartial(arg),
           Underway(arg, class, c, rest), c.done = "true", rest = <<>>
    PROVE  MaybeOf(arg, class)
<1> DEFINE new == NewChecks(arg, class)
           lhss == LhssOfMatches(arg)
<1>1. PICK m \in 1..Len(new) : UnderwayAt(m, arg, class, c, rest)
  BY DEF Underway
<1>2. Len(new) \in Nat \ {0} /\ DOMAIN lhss = 1..Len(new)
  BY ChecksAre
<1>3. /\ \A k \in 1..Len(new) : k < m => FitsAll(arg, lhss[k], class)
      /\ Rest(rest, new, m) /\ CheckOK(c, arg, lhss[m], class)
  BY <1>1 DEF UnderwayAt
<1> HIDE DEF new, lhss
<1>4. FitsAll(arg, lhss[m], class)
  BY <1>3, CheckTells
<1>5. m = Len(new)
  BY <1>2, <1>3 DEF Rest
<1>6. \A k \in 1..Len(new) : FitsAll(arg, lhss[k], class)
  BY <1>2, <1>3, <1>4, <1>5
<1>7. \A path \in Range(lhss) : FitsAll(arg, path, class)
  BY <1>2, <1>6 DEF Range
<1> QED  BY <1>7 DEF MaybeOf, lhss

LEMMA UnderwayFails ==
    ASSUME NEW arg, NEW class, NEW c, NEW rest, IsShallowPartial(arg),
           Underway(arg, class, c, rest), c.done = "false"
    PROVE  ~MaybeOf(arg, class)
<1> DEFINE lhss == LhssOfMatches(arg)
<1>1. PICK m \in 1..Len(NewChecks(arg, class)) : UnderwayAt(m, arg, class, c, rest)
  BY DEF Underway
<1>2. DOMAIN lhss = 1..Len(NewChecks(arg, class)) /\ CheckOK(c, arg, lhss[m], class)
  BY <1>1, ChecksAre DEF UnderwayAt
<1> HIDE DEF lhss
<1>3. ~FitsAll(arg, lhss[m], class)
  BY <1>2, CheckTells
<1>4. lhss[m] \in Range(lhss)
  BY <1>2 DEF Range
<1> QED  BY <1>3, <1>4 DEF MaybeOf, lhss

-----------------------------------------------------------------------------
(* Which rules are called.                                                  *)

\* One argument of a call at most is a partial, and what is known of it are
\* classes of variables and of their fields.
OneShallowPartial ==
    \A c \in Calls : \A i \in DOMAIN c.args :
       c.args[i].is = "partial" =>
          /\ IsShallowPartial(c.args[i])
          /\ \A j \in DOMAIN c.args : c.args[j].is = "partial" => j = i

\* The rules that are still to be called if nothing is lost.
Kept == IF stage \in {"filter", "check"} THEN unfiltered \cup Range(applicable)
        ELSE Range(order)

\* The index lets ground rules through by their branch alone.
Right(id) == Matches(id) \/ IsGroundRule(Rules[id])

\* A rule that may apply is tried on a partial for a class of its specializer:
\* the classes that are not left before it have failed.
CheckingOf(id, i, class, c, rest, left) ==
    /\ id \in NextRule /\ Passes(id) /\ i \in Checked(id)
    /\ class \in ClassesOf(Rules[id][i].spec)
    /\ left \subseteq ClassesOf(Rules[id][i].spec)
    /\ \A other \in ClassesOf(Rules[id][i].spec) :
          other # class /\ other \notin left => ~MaybeOf(Args[i], other)
    /\ Underway(Args[i], class, c, rest)

Checking == \E id, i, class : CheckingOf(id, i, class, check, checks, classes)

MatchInv ==
    /\ \A id \in DOMAIN Rules : Matches(id) => id \in Kept
    /\ \A id \in Range(applicable) \cup Range(order) : Right(id)
    /\ stage = "check" => Checking
    /\ stage # "check" => check = NoCheck

LEMMA MatchesPass == ASSUME NEW id, Matches(id) PROVE Passes(id)
  BY DEF Matches, Passes

LEMMA PassesMatch ==
    ASSUME NEW id, Passes(id),
           \A i \in Checked(id) : \E class \in ClassesOf(Rules[id][i].spec) :
              MaybeOf(Args[i], class)
    PROVE  Matches(id)
  BY DEF Matches, Passes

LEMMA PartialIsShallow ==
    ASSUME OneShallowPartial, call \in Calls, NEW i \in DOMAIN Args,
           Args[i].is = "partial"
    PROVE  /\ IsShallowPartial(Args[i])
           /\ \A j \in DOMAIN Args : Args[j].is = "partial" => j = i
  BY DEF OneShallowPartial, Args

LEMMA CheckedIsPartial ==
    ASSUME NEW id, NEW i \in Checked(id)
    PROVE  i \in DOMAIN Args /\ Args[i].is = "partial"
  BY DEF Checked

LEMMA OneNextRule ==
    ASSUME SortInv, NEW a \in NextRule, NEW b \in NextRule
    PROVE  a = b
<1>1. unfiltered \subseteq Nat
  BY CandidatesNat DEF SortInv, TypeInv
<1>2. a \in unfiltered /\ b \in unfiltered /\ a <= b /\ b <= a
  BY DEF NextRule
<1>3. a \in Nat /\ b \in Nat
  BY <1>1, <1>2
<1> QED  BY <1>2, <1>3

\* The index loses no rule that matches: an argument that is a value only
\* unifies with itself and with what is not ground.
LEMMA IndexLosesNone ==
    ASSUME call \in Calls, NEW id \in DOMAIN Rules, Matches(id)
    PROVE  id \in GetApplicableRules(IndexOf(Rules), Args)
<1>1. DOMAIN Rules[id] = DOMAIN Args
  BY DEF Matches, SameArity
<1>2. ASSUME NEW i \in DOMAIN Args PROVE Followed(Args[i], NodeOf(Rules[id])[i])
  <2>1. NodeOf(Rules[id])[i] = Branch(Rules[id][i])
    BY <1>1 DEF NodeOf
  <2>2. Unifies(Args[i], Rules[id][i])
    BY DEF Matches
  <2> QED  BY <2>1, <2>2 DEF Followed, IsGroundArg, Branch, Unifies
<1> QED  BY <1>1, <1>2, IndexExact

LEMMA MatchInvInit == Init => MatchInv
<1> SUFFICES ASSUME Init PROVE MatchInv
  OBVIOUS
<1>1. /\ call \in Calls /\ stage = "filter" /\ applicable = <<>> /\ order = <<>>
      /\ unfiltered = GetApplicableRules(IndexOf(Rules), Args) /\ check = NoCheck
  BY DEF Init, Rules, Args
<1>2. Range(applicable) = {} /\ Range(order) = {}
  BY <1>1 DEF Range
<1> QED  BY <1>1, <1>2, IndexLosesNone DEF MatchInv, Kept

LEMMA MatchesStay ==
    ASSUME call' = call
    PROVE  \A id : Matches(id)' <=> Matches(id)
  BY DEF Matches, SameArity, Rules, Args, Checked, MaybeOf

LEMMA RightStays ==
    ASSUME call' = call
    PROVE  \A id : Right(id)' <=> Right(id)
  BY MatchesStay DEF Right, Rules

\* A rule that is skipped does not match, and one that is kept is right.
LEMMA TrialMatches ==
    ASSUME SortInv, MatchInv, UNCHANGED <<call, order>>,
           stage \in {"filter", "check"}, stage' = "filter", check' = NoCheck,
           NEW id \in NextRule,
           \/ Skip(id) /\ ~Matches(id)
           \/ Apply(id) /\ Right(id)
    PROVE  MatchInv'
<1>1. /\ call \in Calls /\ unfiltered \subseteq Candidates(call)
      /\ applicable \in Seq(Candidates(call))
  BY DEF SortInv, TypeInv
<1>2. unfiltered' = unfiltered \ {id} /\ id \in unfiltered
  BY DEF NextRule, Apply, Skip
<1>3. \A r : (Matches(r)' <=> Matches(r)) /\ (Right(r)' <=> Right(r))
  BY MatchesStay, RightStays
<1>4. Rules' = Rules
  BY DEF Rules
<1>5. CASE Skip(id) /\ ~Matches(id)
  <2>1. applicable' = applicable
    BY <1>5 DEF Skip
  <2>2. \A r \in DOMAIN Rules : Matches(r) => r \in Kept'
    BY <1>2, <1>5, <2>1 DEF MatchInv, Kept
  <2> QED  BY <1>3, <1>4, <2>1, <2>2 DEF MatchInv
<1>6. CASE Apply(id) /\ Right(id)
  <2>1. Range(applicable') = Range(applicable) \cup {id}
    <3>1. id \in Candidates(call) /\ applicable' = Append(applicable, id)
      BY <1>1, <1>2, <1>6 DEF Apply
    <3> QED  BY <1>1, <3>1 DEF Range
  <2>2. \A r \in DOMAIN Rules : Matches(r) => r \in Kept'
    BY <1>2, <2>1 DEF MatchInv, Kept
  <2>3. \A r \in Range(applicable') \cup Range(order') : Right(r)
    BY <1>6, <2>1 DEF MatchInv
  <2> QED  BY <1>3, <1>4, <2>2, <2>3 DEF MatchInv
<1> QED  BY <1>5, <1>6

\* A step of a check leaves the rules alone.
LEMMA CheckingMatches ==
    ASSUME SortInv, MatchInv, UNCHANGED <<call, unfiltered, applicable, order>>,
           stage \in {"filter", "check"}, stage' = "check",
           NEW id, NEW i, NEW class,
           CheckingOf(id, i, class, check', checks', classes')
    PROVE  MatchInv'
<1>1. \A r : (Matches(r)' <=> Matches(r)) /\ (Right(r)' <=> Right(r))
  BY MatchesStay, RightStays
<1>2. Rules' = Rules /\ Kept' = Kept
  BY DEF Rules, Kept
<1>3. CheckingOf(id, i, class, check, checks, classes)'
  BY DEF CheckingOf, NextRule, Passes, SameArity, Checked, Rules, Args, MaybeOf
<1>4. Checking'
  BY <1>3 DEF Checking
<1> QED  BY <1>1, <1>2, <1>4 DEF MatchInv

LEMMA FilterMatches == ASSUME SortInv, MatchInv, FilterRule PROVE MatchInv'
<1>1. UNCHANGED <<call, order, check>> /\ stage = "filter" /\ stage' = "filter"
  BY DEF FilterRule, sorting
<1>2. check' = NoCheck
  BY <1>1 DEF MatchInv
<1>3. PICK id \in NextRule :
        \/ IsGroundRule(Rules[id]) /\ Apply(id)
        \/ Passes(id) /\ Checked(id) = {} /\ Apply(id)
        \/ ~Passes(id) /\ Skip(id)
  BY DEF FilterRule
<1>4. \/ Skip(id) /\ ~Matches(id)
      \/ Apply(id) /\ Right(id)
  BY <1>3, MatchesPass, PassesMatch DEF Right
<1> QED  BY <1>1, <1>2, <1>4, TrialMatches

LEMMA StartMatches ==
    ASSUME OneShallowPartial, SortInv, MatchInv, StartCheck
    PROVE  MatchInv'
<1>1. /\ UNCHANGED <<call, unfiltered, applicable, order>>
      /\ stage = "filter" /\ stage' = "check"
  BY DEF StartCheck, sorting
<1>2. PICK id, i, class :
        /\ id \in NextRule /\ i \in Checked(id) /\ class \in ClassesOf(Rules[id][i].spec)
        /\ Passes(id)
        /\ check' = NewChecks(Args[i], class)[1]
        /\ checks' = Tail(NewChecks(Args[i], class))
        /\ classes' = ClassesOf(Rules[id][i].spec) \ {class}
  BY DEF StartCheck
<1>3. IsShallowPartial(Args[i])
  BY <1>2, CheckedIsPartial, PartialIsShallow DEF SortInv, TypeInv
<1>4. Underway(Args[i], class, check', checks')
  BY <1>2, <1>3, UnderwayBegins
<1>5. CheckingOf(id, i, class, check', checks', classes')
  BY <1>2, <1>4 DEF CheckingOf
<1> QED  BY <1>1, <1>5, CheckingMatches

\* What a check is about.
About(id, i, class) ==
    /\ id \in NextRule /\ i \in Checked(id) /\ class \in ClassesOf(Rules[id][i].spec)
    /\ CheckingOf(id, i, class, check, checks, classes)
    /\ IsShallowPartial(Args[i])
    /\ \A r \in NextRule : r = id
    /\ \A j \in Checked(id) : j = i
    /\ \A j \in DOMAIN Args : Args[j].is = "partial" => j = i

LEMMA CheckingIs ==
    ASSUME OneShallowPartial, SortInv, MatchInv, stage = "check"
    PROVE  \E id, i, class : About(id, i, class)
<1>1. PICK id, i, class : CheckingOf(id, i, class, check, checks, classes)
  BY DEF MatchInv, Checking
<1>2. id \in NextRule /\ i \in Checked(id) /\ class \in ClassesOf(Rules[id][i].spec)
  BY <1>1 DEF CheckingOf
<1>3. i \in DOMAIN Args /\ Args[i].is = "partial" /\ call \in Calls
  BY <1>2, CheckedIsPartial DEF SortInv, TypeInv
<1>4. /\ IsShallowPartial(Args[i])
      /\ \A j \in DOMAIN Args : Args[j].is = "partial" => j = i
  BY <1>3, PartialIsShallow
<1>5. \A j \in Checked(id) : j = i
  BY <1>4, CheckedIsPartial
<1>6. \A r \in NextRule : r = id
  BY <1>2, OneNextRule
<1>7. About(id, i, class)
  BY <1>1, <1>2, <1>4, <1>5, <1>6 DEF About
<1> QED  BY <1>7

LEMMA RunMatches ==
    ASSUME OneShallowPartial, SortInv, MatchInv, Run \/ HostAnswers \/ NextCheck
    PROVE  MatchInv'
<1>1. /\ UNCHANGED <<call, unfiltered, applicable, order, classes>>
      /\ stage = "check" /\ stage' = "check"
  BY DEF Run, HostAnswers, NextCheck, sorting
<1>2. PICK id, i, class : About(id, i, class)
  BY <1>1, CheckingIs
<1>3. Underway(Args[i], class, check, checks)
  BY <1>2 DEF CheckingOf, About
<1>4. Underway(Args[i], class, check', checks')
  <2>1. CASE Run
    <3>1. /\ check.asked = <<>> /\ check.done = "no"
          /\ check' = RunCheck(check) /\ checks' = checks
      BY <2>1 DEF Run
    <3> QED  BY <1>2, <1>3, <3>1, UnderwayRuns DEF About
  <2>2. CASE HostAnswers
    <3>1. /\ check.asked # <<>> /\ check' = Told(check, HostAnswer(check.asked[1]))
          /\ checks' = checks
      BY <2>2 DEF HostAnswers
    <3> QED  BY <1>2, <1>3, <3>1, UnderwayTold DEF About
  <2>3. CASE NextCheck
    <3>1. /\ check.done = "true" /\ checks # <<>>
          /\ check' = Head(checks) /\ checks' = Tail(checks)
      BY <2>3 DEF NextCheck
    <3> QED  BY <1>2, <1>3, <3>1, UnderwayNext DEF About
  <2> QED  BY <2>1, <2>2, <2>3
<1>5. CheckingOf(id, i, class, check', checks', classes')
  BY <1>1, <1>2, <1>4 DEF CheckingOf, About
<1> QED  BY <1>1, <1>5, CheckingMatches

LEMMA PassesMatches ==
    ASSUME OneShallowPartial, SortInv, MatchInv, CheckPasses
    PROVE  MatchInv'
<1>1. /\ UNCHANGED <<call, order>> /\ stage = "check" /\ stage' = "filter"
      /\ check' = NoCheck /\ check.done = "true" /\ checks = <<>>
  BY DEF CheckPasses, EndCheck, sorting
<1>2. PICK id, i, class : About(id, i, class)
  BY <1>1, CheckingIs
<1>3. Underway(Args[i], class, check, checks) /\ Passes(id)
  BY <1>2 DEF CheckingOf, About
<1>4. MaybeOf(Args[i], class)
  BY <1>1, <1>2, <1>3, UnderwayPasses DEF About
<1>5. Matches(id)
  BY <1>2, <1>3, <1>4, PassesMatch DEF About
<1>6. id \in NextRule /\ Apply(id)
  BY <1>2 DEF CheckPasses, About
<1> QED  BY <1>1, <1>5, <1>6, TrialMatches DEF Right

LEMMA FailsMatches ==
    ASSUME OneShallowPartial, SortInv, MatchInv, CheckFails
    PROVE  MatchInv'
<1>1. /\ UNCHANGED <<call, order>> /\ stage = "check" /\ stage' = "filter"
      /\ check' = NoCheck /\ check.done = "false" /\ classes = {}
  BY DEF CheckFails, EndCheck, sorting
<1>2. PICK id, i, class : About(id, i, class)
  BY <1>1, CheckingIs
<1>3. /\ Underway(Args[i], class, check, checks)
      /\ \A other \in ClassesOf(Rules[id][i].spec) :
            other # class => ~MaybeOf(Args[i], other)
  BY <1>1, <1>2 DEF CheckingOf, About
<1>4. ~MaybeOf(Args[i], class)
  BY <1>1, <1>2, <1>3, UnderwayFails DEF About
<1>5. ~Matches(id)
  <2>1. i \in Checked(id) /\ i \in DOMAIN Args
    BY <1>2, CheckedIsPartial DEF About
  <2>2. ~\E other \in ClassesOf(Rules[id][i].spec) : MaybeOf(Args[i], other)
    BY <1>3, <1>4
  <2> QED  BY <2>1, <2>2 DEF Matches
<1>6. id \in NextRule /\ Skip(id)
  BY <1>2 DEF CheckFails, About
<1> QED  BY <1>1, <1>5, <1>6, TrialMatches

LEMMA NextClassMatches ==
    ASSUME OneShallowPartial, SortInv, MatchInv, NextClass
    PROVE  MatchInv'
<1>1. /\ UNCHANGED <<call, unfiltered, applicable, order>>
      /\ stage = "check" /\ stage' = "check" /\ check.done = "false"
  BY DEF NextClass, sorting
<1>2. PICK id, i, class : About(id, i, class)
  BY <1>1, CheckingIs
<1>3. PICK next \in classes :
        /\ check' = NewChecks(Args[i], next)[1]
        /\ checks' = Tail(NewChecks(Args[i], next))
        /\ classes' = classes \ {next}
  BY <1>2 DEF NextClass, About
<1>4. Underway(Args[i], next, check', checks')
  BY <1>2, <1>3, UnderwayBegins DEF About
<1>5. ~MaybeOf(Args[i], class)
  BY <1>1, <1>2, UnderwayFails DEF CheckingOf, About
<1>6. CheckingOf(id, i, next, check', checks', classes')
  BY <1>2, <1>3, <1>4, <1>5 DEF CheckingOf, About
<1> QED  BY <1>1, <1>6, CheckingMatches

\* The steps of the sort keep the rules they order.
LEMMA SortMatches ==
    ASSUME SortInv, MatchInv, stage \notin {"filter", "check"},
           stage' \notin {"filter", "check"},
           UNCHANGED <<call, applicable, check>>, Range(order') = Range(order)
    PROVE  MatchInv'
<1>1. \A r : (Matches(r)' <=> Matches(r)) /\ (Right(r)' <=> Right(r))
  BY MatchesStay, RightStays
<1>2. Rules' = Rules /\ Kept' = Kept
  BY DEF Rules, Kept
<1> QED  BY <1>1, <1>2 DEF MatchInv

LEMMA StartSortMatches == ASSUME SortInv, MatchInv, StartSort PROVE MatchInv'
<1>1. /\ call' = call /\ applicable' = applicable /\ order' = Reverse(applicable)
      /\ stage = "filter" /\ stage' = "sort" /\ unfiltered = {} /\ check' = check
  BY DEF StartSort, filtering
<1>2. applicable \in Seq(Candidates(call))
  BY DEF SortInv, TypeInv
<1>3. Range(order') = Range(applicable)
  <2>1. Len(applicable) \in Nat /\ DOMAIN applicable = 1..Len(applicable)
    BY <1>2
  <2>2. /\ DOMAIN order' = DOMAIN applicable
        /\ \A i \in DOMAIN applicable : order'[i] = applicable[Len(applicable) - i + 1]
    BY <1>1, <2>1 DEF Reverse
  <2>3. \A i \in DOMAIN applicable :
           /\ Len(applicable) - i + 1 \in DOMAIN applicable
           /\ Len(applicable) - (Len(applicable) - i + 1) + 1 = i
    BY <2>1
  <2> QED  BY <2>2, <2>3 DEF Range
<1>4. \A r : (Matches(r)' <=> Matches(r)) /\ (Right(r)' <=> Right(r))
  BY <1>1, MatchesStay, RightStays
<1>5. Rules' = Rules /\ Kept' = Kept
  BY <1>1, <1>3 DEF Rules, Kept
<1> QED  BY <1>1, <1>3, <1>4, <1>5 DEF MatchInv

LEMMA SwapMatches == ASSUME SortInv, MatchInv, Swap PROVE MatchInv'
<1>1. /\ UNCHANGED <<call, applicable, check>> /\ stage = "sort" /\ stage' = "sort"
      /\ outer < Len(order) /\ inner > 0 /\ order' = Swapped(order, inner)
  BY DEF Swap, filtering
<1>2. order \in Seq(Candidates(call)) /\ outer \in Nat \ {0} /\ inner \in 1..outer
  BY <1>1 DEF SortInv, TypeInv
<1>3. inner \in DOMAIN order /\ inner + 1 \in DOMAIN order /\ inner # inner + 1
  BY <1>1, <1>2
<1>4. /\ DOMAIN order' = DOMAIN order
      /\ order'[inner] = order[inner + 1] /\ order'[inner + 1] = order[inner]
      /\ \A i \in DOMAIN order : i \notin {inner, inner + 1} => order'[i] = order[i]
  BY <1>1, <1>2, <1>3 DEF Swapped
<1>5. Range(order') = Range(order)
  BY <1>3, <1>4 DEF Range
<1> QED  BY <1>1, <1>5, SortMatches

LEMMA MatchInvNext ==
    OneShallowPartial /\ SortInv /\ MatchInv /\ [Next]_vars => MatchInv'
<1> SUFFICES ASSUME OneShallowPartial, SortInv, MatchInv, [Next]_vars PROVE MatchInv'
  OBVIOUS
<1>1. CASE FilterRule
  BY <1>1, FilterMatches
<1>2. CASE StartCheck
  BY <1>2, StartMatches
<1>3. CASE Run \/ HostAnswers \/ NextCheck
  BY <1>3, RunMatches
<1>4. CASE CheckPasses
  BY <1>4, PassesMatches
<1>5. CASE CheckFails
  BY <1>5, FailsMatches
<1>6. CASE NextClass
  BY <1>6, NextClassMatches
<1>7. CASE StartSort
  BY <1>7, StartSortMatches
<1>8. CASE Swap
  BY <1>8, SwapMatches
<1>9. CASE NextOuter \/ CallRules \/ NoRules
  BY <1>9, SortMatches DEF NextOuter, CallRules, NoRules, filtering, sorting
<1>10. CASE UNCHANGED vars
  <2>1. UNCHANGED <<call, unfiltered, applicable, check, checks, classes, order, stage>>
    BY <1>10 DEF vars, filtering, sorting
  <2>2. \A r : (Matches(r)' <=> Matches(r)) /\ (Right(r)' <=> Right(r))
    BY <2>1, MatchesStay, RightStays
  <2>3. Rules' = Rules /\ Kept' = Kept
    BY <2>1 DEF Rules, Kept
  <2>4. Checking => Checking'
    BY <2>1 DEF Checking, CheckingOf, NextRule, Passes, SameArity, Checked, Rules, Args,
                MaybeOf
  <2> QED  BY <2>1, <2>2, <2>3, <2>4 DEF MatchInv
<1> QED
  BY <1>1, <1>2, <1>3, <1>4, <1>5, <1>6, <1>7, <1>8, <1>9, <1>10 DEF Next

LEMMA MatchInvAlways == ASSUME OneShallowPartial PROVE Spec => [](SortInv /\ MatchInv)
<1>1. Init => SortInv /\ MatchInv
  BY SortInvInit, MatchInvInit
<1>2. SortInv /\ MatchInv /\ [Next]_vars => (SortInv /\ MatchInv)'
  BY SortInvNext, MatchInvNext
<1> QED
  BY <1>1, <1>2, PTL DEF Spec

\* A check of a partial says no exactly if a type that is known is incompatible
\* with the class (IsaConstraintCheck): for every hierarchy of classes, every
\* number of constraints in every order, and every host.  Of longer paths it
\* is not true: the last field and what is left of it are compared as wholes.
THEOREM ChecksDecide == ASSUME OneShallowPartial PROVE Spec => []CheckDecides
<1>1. SortInv /\ MatchInv => CheckDecides
  <2> SUFFICES ASSUME SortInv, MatchInv, check.done # "no",
                      NEW j \in DOMAIN Args, Args[j].is = "partial"
               PROVE  check.done = "true"
                        <=> FitsAll(Args[j], check.proposed.path, check.proposed.class)
    BY DEF CheckDecides
  <2>1. stage = "check"
    <3>1. NoCheck.done = "no"
      BY DEF NoCheck, NewCheck
    <3> QED  BY <3>1 DEF MatchInv
  <2>2. PICK id, i, class : About(id, i, class)
    BY <2>1, CheckingIs
  <2>3. j = i /\ Underway(Args[i], class, check, checks)
    BY <2>2 DEF CheckingOf, About
  <2>4. PICK m \in 1..Len(NewChecks(Args[i], class)) :
          CheckOK(check, Args[i], LhssOfMatches(Args[i])[m], class)
    BY <2>3 DEF Underway, UnderwayAt
  <2> QED  BY <2>3, <2>4, CheckTells
<1> QED
  BY <1>1, MatchInvAlways, PTL

\* A call calls the rules whose parameters match its arguments, and of the
\* others ground ones only: neither the index nor the trials
\* (get_applicable_rules, filter_rules) lose one, for every policy, every
\* hierarchy of classes and every order in which classes of a union are tried.
THEOREM CallsMatch == ASSUME OneShallowPartial PROVE Spec => []CallsMatching
<1>1. MatchInv => CallsMatching
  BY DEF MatchInv, Kept, Right, CallsMatching
<1> QED
  BY <1>1, MatchInvAlways, PTL

=============================================================================
