-------------------------- MODULE KnowledgeBase_proof --------------------------
(***************************************************************************)
(* Whatever classes are registered and whatever is loaded, refused and     *)
(* cleared, the parts of the knowledge base agree about its blocks, and    *)
(* the rules of a policy without errors accept no call that their rule     *)
(* types do not ask for; the policy is the same in whatever order its      *)
(* sources are loaded; the relations that its blocks use are implemented,  *)
(* for values of both of their classes; and the rules that its blocks      *)
(* stand for derive what the blocks say.                                   *)
(*                                                                         *)
(* For the order, what the lines of a load find and leave is stated of the *)
(* set of them (Compatible, Gathered), which has no order; each line is    *)
(* shown to go on from one set to the next.  What the validation then says *)
(* depends on the blocks, rules and types alone (Valid).                   *)
(*                                                                         *)
(* A load goes through the lines of its sources: what holds of each line   *)
(* holds of all of them by induction, over the recursive functions of      *)
(* LoadLines and LoadSources.  As the library's induction takes its        *)
(* predicate as a parameter, which the provers here do not instantiate,    *)
(* each induction is by a least counterexample.                            *)
(***************************************************************************)
EXTENDS KnowledgeBase, TLAPS, WellFoundedInduction

(***************************************************************************)
(* Comparing parameters                                                    *)
(***************************************************************************)

Results == {"match", "differ", "UnregisteredClass", "InvalidRuleType", "InvalidRule"}

LEMMA PatternResults ==
    ASSUME NEW rule, NEW type, NEW k
    PROVE  CheckPatternParam(rule, type, k) \in Results
<1>1. CheckSubclass(rule.name, rule.fields, type.name, type.fields, k) \in Results
  BY DEF CheckSubclass, Bool, Results
<1>2. CheckUnion(rule, type, k) \in Results
  BY DEF CheckUnion, Bool, Results
<1> QED
  BY <1>1, <1>2 DEF CheckPatternParam, Bool, Results

LEMMA ParamResults ==
    ASSUME NEW rule, NEW type, NEW k
    PROVE  CheckParam(rule, type, k) \in Results
<1>1. \A r, t : CheckPatternParam(r, t, k) \in Results
  BY PatternResults
<1>2. \A v, p : CheckValueAgainstPattern(v, p, k) \in Results
  BY <1>1 DEF CheckValueAgainstPattern, Bool, Results
<1>3. \A v, w : CheckValueParam(v, w) \in Results
  BY DEF CheckValueParam, Bool, Results
<1> QED
  BY <1>1, <1>2, <1>3 DEF CheckParam, Results

(***************************************************************************)
(* A parameter that matches accepts what the type asks for                 *)
(***************************************************************************)

\* What is registered is what the application has, the builtin classes first,
\* and of the ancestors perhaps not all: those that were there at the last load.
KnownClasses(k) ==
    /\ Builtins \subseteq DOMAIN k.constants
    /\ DOMAIN k.constants \subseteq DOMAIN Class
    /\ k.constants = [c \in DOMAIN k.constants |-> Class[c].id]
    /\ DOMAIN k.mro \subseteq DOMAIN k.constants
    /\ \A c \in DOMAIN k.mro :
            k.mro[c] \subseteq Class[c].mro \cap {k.constants[d] : d \in DOMAIN k.constants}

\* A value of a class is a value of the ancestors of the class.
LEMMA Inherits ==
    ASSUME KnownClasses(kb), NEW v, NEW name, NEW ancestor \in DOMAIN kb.constants,
           HasClass(v, name), name \in DOMAIN kb.mro,
           kb.constants[ancestor] \in kb.mro[name]
    PROVE  HasClass(v, ancestor)
<1> DEFINE C == ClassOf(v)
<1>1. /\ {name, C, ancestor} \subseteq DOMAIN kb.constants
      /\ {name, C, ancestor} \subseteq DOMAIN Class
  BY DEF HasClass, KnownClasses
<1>2. Class[name].id \in Class[C].mro
  BY <1>1 DEF HasClass, KnownClasses
<1>3. Class[name].mro \subseteq Class[C].mro
  BY <1>1, <1>2, KbAssumption
<1>4. Class[ancestor].id \in Class[name].mro
  BY <1>1 DEF KnownClasses
<1>5. kb.constants[ancestor] \in Class[C].mro
  BY <1>1, <1>3, <1>4 DEF KnownClasses
<1> QED
  BY <1>1, <1>5 DEF HasClass

LEMMA SubclassCovers ==
    ASSUME KnownClasses(kb), NEW v, NEW tag, NEW fields, NEW ancestor, NEW asked,
           HasTag(v, tag), fields \subseteq v.fields,
           CheckSubclass(tag, fields, ancestor, asked, kb) = "match"
    PROVE  HasClass(v, ancestor) /\ asked \subseteq fields
<1>1. /\ ancestor \in DOMAIN kb.constants
      /\ tag \in DOMAIN kb.mro
      /\ kb.constants[ancestor] \in kb.mro[tag]
      /\ asked \subseteq fields
  BY DEF CheckSubclass, Bool, ParamFieldsMatch
<1>2. tag \in DOMAIN Class
  BY <1>1 DEF KnownClasses
<1>3. ~IsUnion(tag)
  BY <1>2, KbAssumption
<1>4. HasClass(v, tag)
  BY <1>3 DEF HasTag
<1> QED
  BY <1>1, <1>4, Inherits

LEMMA UnionCovers ==
    ASSUME KnownClasses(kb), NEW v, NEW rule, NEW type,
           IsUnion(type.name), rule.name # type.name,
           HasTag(v, rule.name), rule.fields \subseteq v.fields,
           CheckUnion(rule, type, kb) = "match"
    PROVE  HasTag(v, type.name) /\ type.fields \subseteq rule.fields
<1> DEFINE Members == GetUnionMembers(type.name, kb)
<1>1. ~IsUnion(rule.name)
  BY DEF CheckUnion
<1>2. HasClass(v, rule.name)
  BY <1>1 DEF HasTag
<1>3. CASE rule.name \in Members
  <2>1. type.fields \subseteq rule.fields
    BY <1>1, <1>3 DEF CheckUnion, Bool, ParamFieldsMatch
  <2> QED  BY <1>2, <1>3, <2>1 DEF HasTag
<1>4. CASE rule.name \notin Members
  <2>1. PICK m \in Members :
            CheckSubclass(rule.name, rule.fields, m, type.fields, kb) = "match"
    BY <1>1, <1>4 DEF CheckUnion, Bool
  <2>2. HasClass(v, m) /\ type.fields \subseteq rule.fields
    BY <2>1, SubclassCovers
  <2> QED  BY <2>2 DEF HasTag
<1> QED
  BY <1>3, <1>4

LEMMA NoTermIsNone == NoTerm.is = "none"
  BY DEF NoTerm, Term

LEMMA PatternIsTerm ==
    ASSUME NEW pattern, pattern.is \in Patterns
    PROVE  pattern # NoTerm
  BY NoTermIsNone DEF Patterns

\* What a pattern of a rule allows, the pattern of a type allows, or it asks
\* for a Dictionary and the value has the fields.
LEMMA PatternCovers ==
    ASSUME KnownClasses(kb), NEW v, NEW rule, NEW type,
           rule.is \in Patterns, type.is \in Patterns,
           Allows(rule, v), CheckPatternParam(rule, type, kb) = "match"
    PROVE  \/ Allows(type, v)
           \/ /\ type.is = "Instance" /\ type.name = "Dictionary"
              /\ type.fields \subseteq v.fields
<1>1. rule # NoTerm /\ type # NoTerm
  BY PatternIsTerm
<1>2. /\ rule.is = "Instance" => HasTag(v, rule.name)
      /\ rule.fields \subseteq v.fields
  BY <1>1 DEF Allows, Patterns
<1>3. CASE type.is = "Instance" /\ rule.is = "Instance"
  <2>1. CASE type.name = rule.name
    <3>1. type.fields \subseteq rule.fields
      BY <1>3, <2>1 DEF CheckPatternParam, Bool, ParamFieldsMatch
    <3> QED  BY <1>1, <1>2, <1>3, <2>1, <3>1 DEF Allows
  <2>2. CASE type.name # rule.name /\ IsUnion(type.name)
    <3>1. CheckUnion(rule, type, kb) = "match"
      BY <1>3, <2>2 DEF CheckPatternParam
    <3>2. HasTag(v, type.name) /\ type.fields \subseteq rule.fields
      BY <1>2, <1>3, <2>2, <3>1, UnionCovers
    <3> QED  BY <1>1, <1>2, <1>3, <3>2 DEF Allows
  <2>3. CASE type.name # rule.name /\ ~IsUnion(type.name)
    <3>1. CheckSubclass(rule.name, rule.fields, type.name, type.fields, kb) = "match"
      BY <1>3, <2>3 DEF CheckPatternParam
    <3>2. HasClass(v, type.name) /\ type.fields \subseteq rule.fields
      BY <1>2, <1>3, <3>1, SubclassCovers
    <3> QED  BY <1>1, <1>2, <1>3, <2>3, <3>2 DEF Allows, HasTag
  <2> QED  BY <2>1, <2>2, <2>3
<1>4. CASE type.is = "DictPattern"
  <2>1. type.fields \subseteq rule.fields
    BY <1>4 DEF CheckPatternParam, Bool, ParamFieldsMatch
  <2> QED  BY <1>1, <1>2, <1>4, <2>1 DEF Allows
<1>5. CASE type.is = "Instance" /\ rule.is = "DictPattern"
  <2>1. type.name = "Dictionary" /\ type.fields \subseteq rule.fields
    BY <1>5 DEF CheckPatternParam, Bool, ParamFieldsMatch
  <2> QED  BY <1>2, <1>5, <2>1
<1> QED
  BY <1>3, <1>4, <1>5 DEF Patterns

\* A value where the type has a pattern.
LEMMA ValueCovers ==
    ASSUME KnownClasses(kb), NEW v \in World, NEW type, type.is \in Patterns,
           CheckValueAgainstPattern(v, type, kb) = "match"
    PROVE  \/ Allows(type, v)
           \/ /\ type.is = "Instance" /\ type.name = "Dictionary"
              /\ type.fields \subseteq v.fields
<1>1. type # NoTerm
  BY PatternIsTerm
<1>2. CASE type.is = "DictPattern"
  <2>1. type.fields \subseteq v.fields
    BY <1>2 DEF CheckValueAgainstPattern, Bool, ParamFieldsMatch
  <2> QED  BY <1>1, <1>2, <2>1 DEF Allows
<1>3. CASE type.is = "Instance"
  <2> DEFINE class == Instance(v.is, v.fields)
  <2>1. v.is \in Primitives /\ CheckPatternParam(class, type, kb) = "match"
    BY <1>3 DEF CheckValueAgainstPattern
  <2>2. v.is # "Object" /\ ~IsUnion(v.is) /\ ClassOf(v) = v.is
    BY <2>1 DEF Primitives, IsUnion, ClassOf
  <2>3. v.is \in Builtins
    BY <2>2, KbAssumption
  <2>4. v.is \in DOMAIN kb.constants /\ v.is \in DOMAIN Class
    BY <2>3 DEF KnownClasses
  <2>5. kb.constants[v.is] \in Class[v.is].mro
    BY <2>4, KbAssumption DEF KnownClasses
  <2>6. HasTag(v, v.is)
    BY <2>2, <2>4, <2>5 DEF HasTag, HasClass
  <2>7. class.is = "Instance" /\ class.name = v.is /\ class.fields = v.fields /\ class # NoTerm
    BY DEF Instance, Term, NoTerm
  <2>8. Allows(class, v)
    BY <2>6, <2>7 DEF Allows
  <2>9. class.is \in Patterns
    BY <2>7 DEF Patterns
  <2> QED  BY <2>1, <2>8, <2>9, PatternCovers
<1> QED
  BY <1>2, <1>3 DEF Patterns

\* Each parameter of a rule that matches is within that of the type.
LEMMA ParamCovers ==
    ASSUME KnownClasses(kb), NEW v \in World, NEW rule, NEW type, IsParam(rule),
           Accepts(rule, v), CheckParam(rule, type, kb) = "match"
    PROVE  Asks(type, v)
<1> DEFINE isVar(param) == param.parameter.is = "Variable"
           spec(param) == param.specializer
           value(param) == IF isVar(param) /\ spec(param) # NoTerm
                           THEN spec(param) ELSE param.parameter
<1>1. CASE isVar(type) /\ spec(type) = NoTerm
  BY <1>1, NoTermIsNone DEF Asks, Accepts, Allows
<1>2. CASE isVar(type) /\ spec(type) # NoTerm /\ isVar(rule) /\ spec(rule) = NoTerm
  <2>1. CheckParam(rule, type, kb) = "differ"
    BY <1>2 DEF CheckParam, Patterns
  <2> QED  BY <2>1
<1>3. CASE ~isVar(type) /\ isVar(rule) /\ spec(rule) # NoTerm
  BY <1>3 DEF CheckParam
<1> DEFINE Rest == ~(isVar(type) /\ spec(type) = NoTerm)
                   /\ ~(isVar(type) /\ isVar(rule) /\ spec(rule) = NoTerm)
                   /\ ~(~isVar(type) /\ isVar(rule) /\ spec(rule) # NoTerm)
<1>4. CASE Rest /\ isVar(type) /\ spec(type).is \in Patterns /\ value(rule).is \in Patterns
  <2>1. CheckPatternParam(spec(rule), spec(type), kb) = "match"
    BY <1>4 DEF CheckParam
  <2>2. isVar(rule) /\ spec(rule).is \in Patterns
    BY <1>4 DEF IsParam
  <2>3. Allows(spec(rule), v)
    BY <2>2 DEF Accepts
  <2>4. \/ Allows(spec(type), v)
        \/ /\ spec(type).is = "Instance" /\ spec(type).name = "Dictionary"
           /\ spec(type).fields \subseteq v.fields
    BY <1>4, <2>1, <2>2, <2>3, PatternCovers
  <2> QED  BY <1>4, <2>4 DEF Asks, Accepts, AsksForDictionary
<1>5. CASE Rest /\ isVar(type) /\ spec(type).is \in Patterns /\ value(rule).is \notin Patterns
  <2>1. CheckValueAgainstPattern(value(rule), spec(type), kb) = "match"
    BY <1>5 DEF CheckParam
  <2>2. v = value(rule)
    BY <1>5 DEF Accepts, Allows, Patterns
  <2>3. \/ Allows(spec(type), v)
        \/ /\ spec(type).is = "Instance" /\ spec(type).name = "Dictionary"
           /\ spec(type).fields \subseteq v.fields
    BY <1>5, <2>1, <2>2, ValueCovers
  <2> QED  BY <1>5, <2>3 DEF Asks, Accepts, AsksForDictionary
<1>6. CASE Rest /\ ~(isVar(type) /\ spec(type).is \in Patterns)
  <2>1. CheckValueParam(value(rule), value(type)) = "match"
    BY <1>6 DEF CheckParam
  <2>2. \/ value(rule) = value(type)
        \/ HasMore(value(rule), value(type))
    BY <2>1 DEF CheckValueParam, Bool, HasMore, ParamFieldsMatch
  <2>3. ~(isVar(rule) /\ spec(rule) = NoTerm)
    BY <1>6, <2>2 DEF HasMore
  <2>4. value(rule).is \notin Patterns
    BY <1>6, <2>2, <2>3 DEF HasMore, Patterns, IsParam
  <2>5. v = value(rule)
    BY <2>3, <2>4 DEF Accepts, Allows, Patterns
  <2> QED  BY <1>6, <2>2, <2>5 DEF Asks, Asked, Accepts, Allows, Patterns
<1> QED
  BY <1>1, <1>2, <1>3, <1>4, <1>5, <1>6

(***************************************************************************)
(* All the parameters of a rule                                            *)
(***************************************************************************)

LEMMA HasLeast ==
    ASSUME NEW T \in SUBSET Nat, T # {}
    PROVE  \E i \in T : \A j \in T : i <= j
<1>1. PICK i \in T : \A j \in T : <<j, i>> \notin OpToRel(<, Nat)
  BY NatLessThanWellFounded, WFMin
<1>2. \A j \in T : i <= j
  <2> SUFFICES ASSUME NEW j \in T PROVE i <= j
    OBVIOUS
  <2>1. <<j, i>> \notin OpToRel(<, Nat) /\ <<j, i>> \in Nat \X Nat
    BY <1>1
  <2>2. ~(j < i)
    BY <2>1 DEF OpToRel
  <2> QED  BY <2>2
<1> QED  BY <1>2

LEMMA RuleMatches ==
    ASSUME NEW rule, IsRule(rule), NEW type, NEW k
    PROVE  /\ RuleParamsMatch(rule, type, k) \in Results
           /\ RuleParamsMatch(rule, type, k) = "match" <=>
                /\ Len(rule.params) = Len(type.params)
                /\ \A i \in DOMAIN rule.params :
                        CheckParam(rule.params[i], type.params[i], k) = "match"
<1> DEFINE results == [i \in DOMAIN rule.params |->
                        CheckParam(rule.params[i], type.params[i], k)]
           errors == {i \in DOMAIN results : IsError(results[i])}
           first == CHOOSE i \in errors : \A j \in errors : i <= j
<1>1. CASE Len(rule.params) # Len(type.params)
  BY <1>1 DEF RuleParamsMatch, Results
<1>2. CASE Len(rule.params) = Len(type.params) /\ errors # {}
  <2>1. RuleParamsMatch(rule, type, k) = results[first]
    BY <1>2 DEF RuleParamsMatch
  <2>2. errors \in SUBSET Nat
    BY DEF IsRule
  <2>3. first \in errors
    BY <1>2, <2>2, HasLeast
  <2>4. results[first] \in Results /\ IsError(results[first])
    BY <2>3, ParamResults
  <2>5. /\ results[first] # "match" /\ first \in DOMAIN rule.params
        /\ results[first] = CheckParam(rule.params[first], type.params[first], k)
    BY <2>3, <2>4 DEF IsError
  <2> QED  BY <2>1, <2>4, <2>5
<1>3. CASE Len(rule.params) = Len(type.params) /\ errors = {}
  <2>1. RuleParamsMatch(rule, type, k) = Bool(\A i \in DOMAIN results : results[i] = "match")
    BY <1>3 DEF RuleParamsMatch
  <2> QED  BY <1>3, <2>1 DEF Bool, Results
<1> QED
  BY <1>1, <1>2, <1>3

LEMMA RuleCovers ==
    ASSUME KnownClasses(kb), NEW rule, IsRule(rule), NEW type,
           RuleParamsMatch(rule, type, kb) = "match",
           NEW args \in Calls(Len(rule.params)), AcceptsCall(rule.params, args)
    PROVE  AsksCall(type.params, args)
<1>1. Len(type.params) = Len(args)
  BY RuleMatches DEF AcceptsCall
<1>2. \A i \in DOMAIN args : Asks(type.params[i], args[i])
  <2> SUFFICES ASSUME NEW i \in DOMAIN args PROVE Asks(type.params[i], args[i])
    OBVIOUS
  <2>1. i \in DOMAIN rule.params /\ args[i] \in World
    BY DEF Calls, IsRule
  <2>2. IsParam(rule.params[i]) /\ Accepts(rule.params[i], args[i])
    BY <2>1 DEF IsRule, AcceptsCall
  <2>3. CheckParam(rule.params[i], type.params[i], kb) = "match"
    BY <2>1, RuleMatches
  <2> QED  BY <2>1, <2>2, <2>3, ParamCovers
<1> QED
  BY <1>1, <1>2 DEF AsksCall

(***************************************************************************)
(* More classes                                                            *)
(***************************************************************************)

\* The knowledge base l has the unions of k, and its classes and more.
HasMoreClasses(k, l) ==
    /\ l.actors = k.actors /\ l.resources = k.resources
    /\ \A c \in DOMAIN k.constants :
            c \in DOMAIN l.constants /\ l.constants[c] = k.constants[c]
    /\ \A c \in DOMAIN k.mro : c \in DOMAIN l.mro /\ k.mro[c] \subseteq l.mro[c]

LEMMA SubclassStays ==
    ASSUME NEW k, NEW l, HasMoreClasses(k, l),
           NEW tag, NEW fields, NEW ancestor, NEW asked
    PROVE  /\ CheckSubclass(tag, fields, ancestor, asked, k) = "match" =>
                CheckSubclass(tag, fields, ancestor, asked, l) = "match"
           /\ ~IsError(CheckSubclass(tag, fields, ancestor, asked, k)) =>
                ~IsError(CheckSubclass(tag, fields, ancestor, asked, l))
  BY DEF HasMoreClasses, CheckSubclass, Bool, IsError

LEMMA UnionStays ==
    ASSUME NEW k, NEW l, HasMoreClasses(k, l), NEW rule, NEW type,
           CheckUnion(rule, type, k) = "match"
    PROVE  CheckUnion(rule, type, l) = "match"
<1> DEFINE Members == GetUnionMembers(type.name, k)
           of(m, base) == CheckSubclass(rule.name, rule.fields, m, type.fields, base)
<1>1. GetUnionMembers(type.name, l) = Members /\ ~IsUnion(rule.name)
  BY DEF GetUnionMembers, HasMoreClasses, CheckUnion
<1>2. CASE rule.name \in Members
  BY <1>1, <1>2 DEF CheckUnion
<1>3. CASE rule.name \notin Members
  <2>1. /\ \A m \in Members : ~IsError(of(m, k))
        /\ \E m \in Members : of(m, k) = "match"
    BY <1>1, <1>3 DEF CheckUnion, Bool
  <2>2. /\ \A m \in Members : ~IsError(of(m, l))
        /\ \E m \in Members : of(m, l) = "match"
    BY <2>1, SubclassStays
  <2> QED  BY <1>1, <1>3, <2>2 DEF CheckUnion, Bool
<1> QED
  BY <1>2, <1>3

LEMMA PatternStays ==
    ASSUME NEW k, NEW l, HasMoreClasses(k, l), NEW rule, NEW type,
           CheckPatternParam(rule, type, k) = "match"
    PROVE  CheckPatternParam(rule, type, l) = "match"
<1>1. CASE type.is = "Instance" /\ rule.is = "Instance"
  <2>1. CASE type.name = rule.name
    BY <1>1, <2>1 DEF CheckPatternParam
  <2>2. CASE type.name # rule.name /\ IsUnion(type.name)
    BY <1>1, <2>2, UnionStays DEF CheckPatternParam
  <2>3. CASE type.name # rule.name /\ ~IsUnion(type.name)
    BY <1>1, <2>3, SubclassStays DEF CheckPatternParam
  <2> QED  BY <2>1, <2>2, <2>3
<1>2. CASE ~(type.is = "Instance" /\ rule.is = "Instance")
  BY <1>2 DEF CheckPatternParam
<1> QED
  BY <1>1, <1>2

LEMMA ParamStays ==
    ASSUME NEW k, NEW l, HasMoreClasses(k, l), NEW rule, NEW type,
           CheckParam(rule, type, k) = "match"
    PROVE  CheckParam(rule, type, l) = "match"
<1>1. \A r, t : CheckPatternParam(r, t, k) = "match" => CheckPatternParam(r, t, l) = "match"
  BY PatternStays
<1>2. \A v, t : CheckValueAgainstPattern(v, t, k) = "match" =>
                CheckValueAgainstPattern(v, t, l) = "match"
  BY <1>1 DEF CheckValueAgainstPattern
<1> QED
  BY <1>1, <1>2 DEF CheckParam

LEMMA RuleStays ==
    ASSUME NEW k, NEW l, HasMoreClasses(k, l), NEW rule, IsRule(rule), NEW type,
           RuleParamsMatch(rule, type, k) = "match"
    PROVE  RuleParamsMatch(rule, type, l) = "match"
  BY RuleMatches, ParamStays

(***************************************************************************)
(* What loading keeps                                                      *)
(***************************************************************************)

\* What is known of a resource is known everywhere.
Agree(k) ==
    /\ DOMAIN k.decls = k.resources /\ DOMAIN k.shorthand = k.resources
    /\ k.actors \subseteq k.resources

\* At each step of a load of base: the classes are those of base, the blocks
\* agree, and the rules are rules.
Consistent(k, base) ==
    /\ IsKb(k) /\ Agree(k)
    /\ k.constants = base.constants /\ k.mro = base.mro
    /\ \A rule \in k.rules : IsRule(rule)

\* What the knowledge base has when a block is added, part by part.
IsAdded(new, k, b, declarations) ==
    /\ IsKb(new)
    /\ new.actors = IF b.actor THEN k.actors \cup {b.resource} ELSE k.actors
    /\ new.resources = k.resources \cup {b.resource}
    /\ new.decls = At(k.decls, b.resource,
                      MergeDeclarations(DeclarationsOf(b.resource, k), declarations))
    /\ new.shorthand = At(k.shorthand, b.resource, ShorthandOf(b.resource, k) \cup b.shorthand)
    /\ new.constants = k.constants /\ new.mro = k.mro
    /\ new.rules = k.rules /\ new.types = k.types
    /\ new.files = k.files /\ new.contents = k.contents

LEMMA AddedBlock ==
    ASSUME NEW k, IsKb(k), NEW b, NEW declarations
    PROVE  IsAdded(AddBlock(k, b, declarations), k, b, declarations)
<1> DEFINE u == Unions(k, b)
           new == AddBlock(k, b, declarations)
           actors == IF b.actor THEN k.actors \cup {b.resource} ELSE k.actors
           resources == k.resources \cup {b.resource}
           decls(f) == At(f, b.resource,
                          MergeDeclarations(DeclarationsOf(b.resource, k), declarations))
           shorthand(f) == At(f, b.resource, ShorthandOf(b.resource, k) \cup b.shorthand)
<1>1. u = [k EXCEPT !.actors = actors, !.resources = resources]
  BY DEF Unions
<1>2. new = [u EXCEPT !.decls = decls(@), !.shorthand = shorthand(@)]
  BY DEF AddBlock
<1> HIDE DEF u, new, actors, resources, decls, shorthand
<1>3. /\ IsKb(u) /\ u.actors = actors /\ u.resources = resources
      /\ u.decls = k.decls /\ u.shorthand = k.shorthand
      /\ u.constants = k.constants /\ u.mro = k.mro /\ u.rules = k.rules
      /\ u.types = k.types /\ u.files = k.files /\ u.contents = k.contents
  BY <1>1 DEF IsKb
<1>4. /\ IsKb(new) /\ new.actors = actors /\ new.resources = resources
      /\ new.decls = decls(k.decls) /\ new.shorthand = shorthand(k.shorthand)
      /\ new.constants = k.constants /\ new.mro = k.mro /\ new.rules = k.rules
      /\ new.types = k.types /\ new.files = k.files /\ new.contents = k.contents
  BY <1>2, <1>3 DEF IsKb
<1> QED
  BY <1>4 DEF IsAdded, new, actors, resources, decls, shorthand

LEMMA AddBlockKeeps ==
    ASSUME NEW k, NEW base, Consistent(k, base), NEW b, NEW declarations
    PROVE  Consistent(AddBlock(k, b, declarations), base)
<1> DEFINE new == AddBlock(k, b, declarations)
<1>1. IsAdded(new, k, b, declarations)
  BY AddedBlock DEF Consistent
<1> HIDE DEF new
<1>2. Agree(new)
  BY <1>1 DEF IsAdded, Consistent, Agree, At
<1>3. Consistent(new, base)
  BY <1>1, <1>2 DEF IsAdded, Consistent
<1> QED  BY <1>3 DEF new

LEMMA LoadLineKeeps ==
    ASSUME NEW acc, NEW base, Consistent(acc.kb, base), NEW line, NEW at, IsLine(line)
    PROVE  Consistent(LoadLine(acc, line, at).kb, base)
<1> DEFINE k == acc.kb
           l == LoadLine(acc, line, at).kb
<1>1. CASE line.is = "rule"
  <2> DEFINE rule == [line.it EXCEPT !.at = at]
  <2>1. l = [k EXCEPT !.rules = @ \cup {rule}]
    BY <1>1 DEF LoadLine, LoadRule, Add
  <2>2. IsRule(rule)
    BY <1>1 DEF IsLine, IsRule, Rule
  <2> QED  BY <2>1, <2>2 DEF Consistent, IsKb, Agree
<1>2. CASE line.is = "type"
  <2>1. \/ l = k
        \/ l = [k EXCEPT !.types = @ \cup {[line.it EXCEPT !.at = at]}]
    BY <1>2 DEF LoadLine, LoadType, Add
  <2> QED  BY <2>1 DEF Consistent, IsKb, Agree
<1>3. CASE line.is = "block"
  <2> DEFINE b == BlockOf([line.it EXCEPT !.at = at])
  <2>1. l = AddToKb(k, b).kb
    BY <1>3 DEF LoadLine, LoadBlock, Add
  <2>2. l = k \/ l = AddBlock(k, b, IndexDeclarations(b))
    BY <2>1 DEF AddToKb
  <2> QED  BY <2>2, AddBlockKeeps
<1>4. CASE line.is = "query"
  <2>1. l = [k EXCEPT !.queries = Append(@, line.it)]
    BY <1>4 DEF LoadLine, LoadQuery, Add
  <2> QED  BY <2>1 DEF Consistent, IsKb, Agree
<1> QED
  BY <1>1, <1>2, <1>3, <1>4 DEF IsLine

\* The recursive function of LoadLines exists: one of m lines gives one of
\* m + 1.
IsLinesLoaded(after, m, acc, lines, at) ==
    after = [n \in 0 .. m |-> IF n = 0 THEN acc ELSE LoadLine(after[n - 1], lines[n], at)]

LEMMA LinesAreLoaded ==
    ASSUME NEW acc, NEW lines, NEW at, NEW m \in Nat
    PROVE  \E after : IsLinesLoaded(after, m, acc, lines, at)
<1> DEFINE T == {n \in Nat : ~ \E after : IsLinesLoaded(after, n, acc, lines, at)}
<1> SUFFICES ASSUME T # {} PROVE FALSE
  OBVIOUS
<1>1. PICK n \in T : \A j \in T : n <= j
  BY HasLeast
<1>2. CASE n = 0
  <2>1. IsLinesLoaded([i \in 0 .. 0 |-> acc], 0, acc, lines, at)
    BY DEF IsLinesLoaded
  <2> QED  BY <1>2, <2>1
<1>3. CASE n # 0
  <2>1. n - 1 \in Nat /\ n - 1 \notin T
    BY <1>1, <1>3
  <2>2. PICK before : IsLinesLoaded(before, n - 1, acc, lines, at)
    BY <2>1
  <2> DEFINE after == [i \in 0 .. n |-> IF i = n THEN LoadLine(before[n - 1], lines[n], at)
                                        ELSE before[i]]
             expected == [i \in 0 .. n |->
                            IF i = 0 THEN acc ELSE LoadLine(after[i - 1], lines[i], at)]
  <2>3. ASSUME NEW i \in 0 .. n
        PROVE  after[i] = expected[i]
    <3>1. CASE i = 0
      <4>1. before[0] = acc
        BY <2>1, <2>2 DEF IsLinesLoaded
      <4> QED  BY <1>3, <3>1, <4>1
    <3>2. CASE i # 0 /\ i # n
      <4>1. i \in 0 .. n - 1 /\ i - 1 \in 0 .. n - 1 /\ i - 1 # n
        BY <3>2
      <4>2. before[i] = LoadLine(before[i - 1], lines[i], at)
        BY <2>2, <3>2, <4>1 DEF IsLinesLoaded
      <4>3. after[i - 1] = before[i - 1]
        BY <4>1
      <4> QED  BY <3>2, <4>2, <4>3
    <3>3. CASE i # 0 /\ i = n
      <4>1. after[i - 1] = before[i - 1]
        BY <3>3
      <4> QED  BY <3>3, <4>1
    <3> QED  BY <3>1, <3>2, <3>3
  <2>4. after = expected
    BY <2>3
  <2>5. IsLinesLoaded(after, n, acc, lines, at)
    BY <2>4 DEF IsLinesLoaded
  <2> QED  BY <2>5
<1> QED
  BY <1>2, <1>3

LEMMA LoadLinesKeeps ==
    ASSUME NEW acc, NEW base, Consistent(acc.kb, base), NEW lines, NEW at,
           Len(lines) \in Nat, DOMAIN lines = 1 .. Len(lines),
           \A i \in DOMAIN lines : IsLine(lines[i])
    PROVE  Consistent(LoadLines(acc, lines, at).kb, base)
<1> DEFINE after == CHOOSE f : IsLinesLoaded(f, Len(lines), acc, lines, at)
<1>1. LoadLines(acc, lines, at) = after[Len(lines)]
  BY DEF LoadLines, IsLinesLoaded
<1>2. IsLinesLoaded(after, Len(lines), acc, lines, at)
  BY LinesAreLoaded
<1> HIDE DEF after
<1> DEFINE T == {n \in 0 .. Len(lines) : ~Consistent(after[n].kb, base)}
<1>3. ASSUME T # {} PROVE FALSE
  <2>1. PICK n \in T : \A j \in T : n <= j
    <3>1. T \in SUBSET Nat
      OBVIOUS
    <3> HIDE DEF T
    <3> QED  BY <1>3, <3>1, HasLeast
  <2>2. CASE n = 0
    BY <1>2, <2>2 DEF IsLinesLoaded
  <2>3. CASE n # 0
    <3>1. n - 1 \in 0 .. Len(lines) /\ n - 1 \notin T /\ n \in DOMAIN lines
      BY <2>1, <2>3
    <3>2. after[n] = LoadLine(after[n - 1], lines[n], at)
      BY <1>2, <2>3 DEF IsLinesLoaded
    <3>3. Consistent(after[n - 1].kb, base)
      BY <3>1
    <3>4. IsLine(lines[n])
      BY <3>1
    <3>5. Consistent(LoadLine(after[n - 1], lines[n], at).kb, base)
      BY ONLY <3>3, <3>4, LoadLineKeeps
    <3> QED  BY <2>1, <3>2, <3>5
  <2> QED  BY <2>2, <2>3
<1> QED
  BY <1>1, <1>3

IsSource(source) == source.src \in Contents

LEMMA LoadSourceKeeps ==
    ASSUME NEW acc, NEW base, Consistent(acc.kb, base), NEW source, IsSource(source)
    PROVE  Consistent(LoadSource(acc, source).kb, base)
<1> DEFINE remembered == Add(acc, Remember(source, acc.kb), {})
           lines == Text[source.src].lines
           result == LoadSource(acc, source)
<1>1. Consistent(remembered.kb, base)
  BY DEF Add, Remember, Consistent, IsKb, Agree
<1>2. \/ result.kb = acc.kb
      \/ result.kb = remembered.kb
      \/ result = LoadLines(remembered, lines, source.filename)
  BY DEF LoadSource, Add
<1>3. /\ DOMAIN lines = 1 .. Len(lines) /\ Len(lines) \in Nat
      /\ \A i \in DOMAIN lines : IsLine(lines[i])
  BY TextAssumption DEF IsSource
<1> HIDE DEF remembered, lines, result
<1>4. Consistent(LoadLines(remembered, lines, source.filename).kb, base)
  BY <1>1, <1>3, LoadLinesKeeps
<1>5. Consistent(result.kb, base)
  BY <1>1, <1>2, <1>4
<1> QED
  BY <1>5 DEF result

\* The recursive function of LoadSources exists in the same way.
IsSourcesLoaded(after, m, acc, sources) ==
    after = [n \in 0 .. m |-> IF n = 0 THEN acc ELSE LoadSource(after[n - 1], sources[n])]

LEMMA SourcesAreLoaded ==
    ASSUME NEW acc, NEW sources, NEW m \in Nat
    PROVE  \E after : IsSourcesLoaded(after, m, acc, sources)
<1> DEFINE T == {n \in Nat : ~ \E after : IsSourcesLoaded(after, n, acc, sources)}
<1> SUFFICES ASSUME T # {} PROVE FALSE
  OBVIOUS
<1>1. PICK n \in T : \A j \in T : n <= j
  BY HasLeast
<1>2. CASE n = 0
  <2>1. IsSourcesLoaded([i \in 0 .. 0 |-> acc], 0, acc, sources)
    BY DEF IsSourcesLoaded
  <2> QED  BY <1>2, <2>1
<1>3. CASE n # 0
  <2>1. n - 1 \in Nat /\ n - 1 \notin T
    BY <1>1, <1>3
  <2>2. PICK before : IsSourcesLoaded(before, n - 1, acc, sources)
    BY <2>1
  <2> DEFINE after == [i \in 0 .. n |-> IF i = n THEN LoadSource(before[n - 1], sources[n])
                                        ELSE before[i]]
             expected == [i \in 0 .. n |->
                            IF i = 0 THEN acc ELSE LoadSource(after[i - 1], sources[i])]
  <2>3. ASSUME NEW i \in 0 .. n
        PROVE  after[i] = expected[i]
    <3>1. CASE i = 0
      <4>1. before[0] = acc
        BY <2>1, <2>2 DEF IsSourcesLoaded
      <4> QED  BY <1>3, <3>1, <4>1
    <3>2. CASE i # 0 /\ i # n
      <4>1. i \in 0 .. n - 1 /\ i - 1 \in 0 .. n - 1 /\ i - 1 # n
        BY <3>2
      <4>2. before[i] = LoadSource(before[i - 1], sources[i])
        BY <2>2, <3>2, <4>1 DEF IsSourcesLoaded
      <4>3. after[i - 1] = before[i - 1]
        BY <4>1
      <4> QED  BY <3>2, <4>2, <4>3
    <3>3. CASE i # 0 /\ i = n
      <4>1. after[i - 1] = before[i - 1]
        BY <3>3
      <4> QED  BY <3>3, <4>1
    <3> QED  BY <3>1, <3>2, <3>3
  <2>4. after = expected
    BY <2>3
  <2>5. IsSourcesLoaded(after, n, acc, sources)
    BY <2>4 DEF IsSourcesLoaded
  <2> QED  BY <2>5
<1> QED
  BY <1>2, <1>3

LEMMA LoadSourcesKeeps ==
    ASSUME NEW acc, NEW base, Consistent(acc.kb, base), NEW sources,
           Len(sources) \in Nat, DOMAIN sources = 1 .. Len(sources),
           \A i \in DOMAIN sources : IsSource(sources[i])
    PROVE  Consistent(LoadSources(acc, sources).kb, base)
<1> DEFINE after == CHOOSE f : IsSourcesLoaded(f, Len(sources), acc, sources)
<1>1. LoadSources(acc, sources) = after[Len(sources)]
  BY DEF LoadSources, IsSourcesLoaded
<1>2. IsSourcesLoaded(after, Len(sources), acc, sources)
  BY SourcesAreLoaded
<1> HIDE DEF after
<1> DEFINE T == {n \in 0 .. Len(sources) : ~Consistent(after[n].kb, base)}
<1>3. ASSUME T # {} PROVE FALSE
  <2>1. PICK n \in T : \A j \in T : n <= j
    <3>1. T \in SUBSET Nat
      OBVIOUS
    <3> HIDE DEF T
    <3> QED  BY <1>3, <3>1, HasLeast
  <2>2. CASE n = 0
    BY <1>2, <2>2 DEF IsSourcesLoaded
  <2>3. CASE n # 0
    <3>1. n - 1 \in 0 .. Len(sources) /\ n - 1 \notin T /\ n \in DOMAIN sources
      BY <2>1, <2>3
    <3>2. after[n] = LoadSource(after[n - 1], sources[n])
      BY <1>2, <2>3 DEF IsSourcesLoaded
    <3>3. Consistent(after[n - 1].kb, base)
      BY <3>1
    <3>4. IsSource(sources[n])
      BY <3>1
    <3>5. Consistent(LoadSource(after[n - 1], sources[n]).kb, base)
      BY ONLY <3>3, <3>4, LoadSourceKeeps
    <3> QED  BY <2>1, <3>2, <3>5
  <2> QED  BY <2>2, <2>3
<1> QED
  BY <1>1, <1>3

\* The rules that stand for blocks are rules, of which the blocks do not speak.
LEMMA BlocksKeep ==
    ASSUME NEW k, NEW base, Consistent(k, base)
    PROVE  Consistent(RewriteShorthandRules(k).kb, base)
<1> DEFINE l == RewriteShorthandRules(k).kb
<1>1. \A s, resource : IsRule(AsRule(s, resource, k))
  <2> SUFFICES ASSUME NEW s, NEW resource PROVE IsRule(AsRule(s, resource, k))
    OBVIOUS
  <2> DEFINE actor == Bound("actor", Instance("Actor", {}))
             head == Given(Str(s.head))
             this == Bound("this", Instance(resource, {}))
             params == HeadParams(s.head, resource)
             rule == AsRule(s, resource, k)
  <2>1. params = <<actor, head, this>>
    BY DEF HeadParams
  <2>2. IsParam(actor) /\ IsParam(head) /\ IsParam(this)
    BY DEF Bound, Given, Param, Variable, Str, Term, IsParam, Patterns
  <2> HIDE DEF params, actor, head, this
  <2>3. DOMAIN params = 1 .. Len(params) /\ \A i \in DOMAIN params : IsParam(params[i])
    BY <2>1, <2>2
  <2>4. rule.params = params /\ rule = Rule(rule.name, rule.params, rule.body, rule.lint, rule.at)
    BY DEF AsRule, Rule, params
  <2> HIDE DEF rule
  <2>5. IsRule(rule)
    BY <2>3, <2>4 DEF IsRule
  <2> QED  BY <2>5 DEF rule
<1>2. \E good : l = [k EXCEPT !.rules = @ \cup {AsRule(pair[2], pair[1], k) : pair \in good}]
  BY DEF RewriteShorthandRules
<1>3. PICK good : l = [k EXCEPT !.rules = @ \cup {AsRule(pair[2], pair[1], k) : pair \in good}]
  BY <1>2
<1> HIDE DEF l
<1>4. IsKb(l)
  BY <1>3 DEF Consistent, IsKb
<1>5. /\ l.constants = k.constants /\ l.mro = k.mro /\ l.decls = k.decls
      /\ l.shorthand = k.shorthand /\ l.actors = k.actors /\ l.resources = k.resources
      /\ l.rules = k.rules \cup {AsRule(pair[2], pair[1], k) : pair \in good}
  BY <1>3 DEF Consistent, IsKb
<1>6. \A rule \in l.rules : IsRule(rule)
  BY <1>1, <1>5 DEF Consistent
<1>7. Consistent(l, base)
  BY <1>4, <1>5, <1>6 DEF Consistent, Agree
<1> QED
  BY <1>7 DEF l

LEMMA WithTypesKeeps ==
    ASSUME NEW k, NEW base, Consistent(k, base)
    PROVE  Consistent(WithTypes(k), base)
<1> DEFINE types == ResourceSpecificTypes(k)
<1> HIDE DEF types
<1>1. WithTypes(k) = [k EXCEPT !.types = @ \cup types]
  BY DEF WithTypes, types
<1> QED
  BY <1>1 DEF Consistent, IsKb, Agree

(***************************************************************************)
(* What the validation finds                                               *)
(***************************************************************************)

\* The rule fits its types, if there are any of its name.
Fits(rule, k) ==
    \/ Named(rule.name, k.types) = {}
    \/ \E type \in Named(rule.name, k.types) : RuleParamsMatch(rule, type, k) = "match"

\* A rule is reported if it does not fit, and what is reported are errors.
LEMMA ResultsOfRule ==
    ASSUME NEW k, NEW rule, IsRule(rule)
    PROVE  /\ ~Fits(rule, k) => RuleResult(rule, k) # {}
           /\ \A kind \in RuleResult(rule, k) : kind \notin Warnings
<1> DEFINE types == Named(rule.name, k.types)
           results == {RuleParamsMatch(rule, type, k) : type \in types}
           failures == {r \in results : IsError(r)}
<1>1. results \subseteq Results
  BY RuleMatches
<1>2. \A r \in failures : r \notin Warnings
  BY <1>1 DEF Results, IsError, Warnings
<1>3. Fits(rule, k) <=> types = {} \/ "match" \in results
  BY DEF Fits
<1>4. CASE types = {}
  BY <1>3, <1>4 DEF RuleResult
<1>5. CASE types # {} /\ failures # {}
  <2>1. RuleResult(rule, k) \in {{}, failures} /\ (~Fits(rule, k) => RuleResult(rule, k) = failures)
    BY <1>3, <1>5 DEF RuleResult
  <2> QED  BY <1>2, <1>5, <2>1
<1>6. CASE types # {} /\ failures = {}
  <2>1. RuleResult(rule, k) = IF "match" \in results THEN {} ELSE {"InvalidRule"}
    BY <1>6 DEF RuleResult
  <2> QED  BY <1>3, <2>1 DEF Warnings
<1> QED
  BY <1>4, <1>5, <1>6

LEMMA UnfitIsReported ==
    ASSUME NEW k, \A rule \in k.rules : IsRule(rule)
    PROVE  /\ \A d \in RuleTypeErrors(k) : d.kind \notin Warnings
           /\ RuleTypeErrors(k) = {} => \A rule \in k.rules : Fits(rule, k)
<1> DEFINE ofRules == UNION {{Diagnostic(kind, SourceOf(kind, rule)) :
                                kind \in RuleResult(rule, k)} : rule \in k.rules}
           missing == {type \in k.types : type.required /\ ~Implemented(type, k)}
           ofTypes == {Diagnostic("MissingRequiredRule",
                            IF type.name = "has_relation" THEN type.at ELSE NoSource) :
                        type \in missing}
<1>1. RuleTypeErrors(k) = IF ofRules # {} THEN ofRules ELSE ofTypes
  BY DEF RuleTypeErrors
<1>2. \A d \in ofRules : d.kind \notin Warnings
  BY ResultsOfRule DEF Diagnostic
<1>3. \A d \in ofTypes : d.kind \notin Warnings
  BY DEF Diagnostic, Warnings
<1>4. ASSUME NEW rule \in k.rules, ~Fits(rule, k) PROVE ofRules # {}
  <2>1. PICK kind \in RuleResult(rule, k) : TRUE
    BY <1>4, ResultsOfRule
  <2>2. Diagnostic(kind, SourceOf(kind, rule)) \in ofRules
    BY <2>1
  <2> QED  BY <2>2
<1> HIDE DEF ofRules, ofTypes
<1> QED
  BY <1>1, <1>2, <1>3, <1>4

LEMMA ClearedIsConsistent ==
    ASSUME NEW base
    PROVE  /\ Consistent(Cleared(base), Cleared(base)) /\ Cleared(base).rules = {}
           /\ Cleared(base).constants = base.constants /\ Cleared(base).mro = base.mro
<1> DEFINE k == Cleared(base)
<1>1. k = [EmptyKb EXCEPT !.constants = base.constants, !.mro = base.mro]
  BY DEF Cleared
<1>2. /\ IsKb(k) /\ k.constants = base.constants /\ k.mro = base.mro
      /\ k.rules = {} /\ k.decls = <<>> /\ k.shorthand = <<>>
      /\ k.actors = {} /\ k.resources = {}
  BY <1>1 DEF EmptyKb, IsKb
<1>3. DOMAIN k.decls = {} /\ DOMAIN k.shorthand = {}
  BY <1>2
<1> HIDE DEF k
<1>4. Consistent(k, k) /\ k.rules = {}
  BY <1>2, <1>3 DEF Consistent, Agree
<1> QED
  BY <1>2, <1>4 DEF k

(***************************************************************************)
(* What a policy says, whatever the order of its lines                     *)
(***************************************************************************)

\* An entry is a line and the file that it is in.
Entry(line, at) == [line |-> line, at |-> at]
It(e) == [e.line.it EXCEPT !.at = e.at]
Block(e) == BlockOf(It(e))

Of(kind, D) == {e \in D : e.line.is = kind}
RulesIn(D) == {It(e) : e \in Of("rule", D)}
TypesIn(D) == {It(e) : e \in Of("type", D)}
BlocksIn(D) == {Block(e) : e \in Of("block", D)}
BlocksOn(resource, D) == {b \in BlocksIn(D) : b.resource = resource}

\* A line that is without errors whatever else there is.
GoodEntry(e, classes) ==
    /\ e.line.is = "rule" => e.line.it.lint \subseteq Warnings
    /\ e.line.is = "type" => ~e.line.dots
    /\ e.line.is = "block" => /\ BlockErrors(It(e)) = {} /\ ~DeclaredTwice(Block(e))
                              /\ Block(e).resource \in classes

SameNames(b, c) ==
    \A name \in DOMAIN IndexDeclarations(b) \cap DOMAIN IndexDeclarations(c) :
        SameDeclaration(IndexDeclarations(b)[name], IndexDeclarations(c)[name])

Compatible(D, classes) ==
    /\ \A e \in D : GoodEntry(e, classes)
    /\ \A b, c \in BlocksIn(D) : b.resource = c.resource => SameNames(b, c)

\* The blocks of the knowledge base are those of the entries.
Gathered(k, D) ==
    /\ k.actors = {b.resource : b \in {c \in BlocksIn(D) : c.actor}}
    /\ k.resources = {b.resource : b \in BlocksIn(D)}
    /\ \A r \in k.resources :
        /\ k.shorthand[r] = UNION {b.shorthand : b \in BlocksOn(r, D)}
        /\ DOMAIN k.decls[r] = UNION {DOMAIN IndexDeclarations(b) : b \in BlocksOn(r, D)}
        /\ \A b \in BlocksOn(r, D) : \A name \in DOMAIN IndexDeclarations(b) :
                SameDeclaration(k.decls[r][name], IndexDeclarations(b)[name])

LEMMA SameIsEquivalence ==
    /\ \A d : SameDeclaration(d, d)
    /\ \A d, e : SameDeclaration(d, e) => SameDeclaration(e, d)
    /\ \A d, e, f : SameDeclaration(d, e) /\ SameDeclaration(e, f) => SameDeclaration(d, f)
  BY DEF SameDeclaration

\* A declaration of the entries so far is one of some block of theirs.
LEMMA RedeclaredIsIncompatible ==
    ASSUME NEW k, Agree(k), NEW D, Gathered(k, D), NEW b
    PROVE  Redeclared(DeclarationsOf(b.resource, k), IndexDeclarations(b)) = {}
                <=> \A c \in BlocksOn(b.resource, D) : SameNames(b, c)
<1> DEFINE r == b.resource
           old == DeclarationsOf(r, k)
           new == IndexDeclarations(b)
<1> HIDE DEF new
<1>1. CASE r \in k.resources
  <2>1. old = k.decls[r]
    BY <1>1 DEF DeclarationsOf, Agree
  <2>2. /\ DOMAIN old = UNION {DOMAIN IndexDeclarations(c) : c \in BlocksOn(r, D)}
        /\ \A c \in BlocksOn(r, D) : \A name \in DOMAIN IndexDeclarations(c) :
                SameDeclaration(old[name], IndexDeclarations(c)[name])
    BY <1>1, <2>1 DEF Gathered
  <2> HIDE DEF old
  <2>3. ASSUME Redeclared(old, new) = {}, NEW c \in BlocksOn(r, D),
               NEW name \in DOMAIN new \cap DOMAIN IndexDeclarations(c)
        PROVE  SameDeclaration(new[name], IndexDeclarations(c)[name])
    <3>1. name \in DOMAIN old /\ SameDeclaration(old[name], IndexDeclarations(c)[name])
      BY <2>2, <2>3
    <3>2. SameDeclaration(old[name], new[name])
      BY <2>3, <3>1 DEF Redeclared
    <3> QED  BY <3>1, <3>2, SameIsEquivalence
  <2>4. ASSUME \A c \in BlocksOn(r, D) :
                    \A name \in DOMAIN new \cap DOMAIN IndexDeclarations(c) :
                        SameDeclaration(new[name], IndexDeclarations(c)[name]),
               NEW name \in DOMAIN old \cap DOMAIN new
        PROVE  SameDeclaration(old[name], new[name])
    <3>1. PICK c \in BlocksOn(r, D) : name \in DOMAIN IndexDeclarations(c)
      BY <2>2, <2>4
    <3>2. /\ SameDeclaration(old[name], IndexDeclarations(c)[name])
          /\ SameDeclaration(new[name], IndexDeclarations(c)[name])
      BY <2>2, <2>4, <3>1
    <3> QED  BY <3>2, SameIsEquivalence
  <2> QED  BY <2>3, <2>4 DEF Redeclared, SameNames, new, old
<1>2. CASE r \notin k.resources
  <2>1. old = <<>> /\ DOMAIN old = {}
    BY <1>2 DEF DeclarationsOf, Agree
  <2>2. BlocksOn(r, D) = {}
    BY <1>2 DEF Gathered, BlocksOn
  <2> QED  BY <2>1, <2>2 DEF Redeclared, old
<1> QED
  BY <1>1, <1>2

LEMMA IndexIsDeclared ==
    ASSUME NEW b, NEW name \in DOMAIN IndexDeclarations(b)
    PROVE  \E is, type : IndexDeclarations(b)[name] = Declared(is, type, b.at)
<1> DEFINE names == ToSet(DeclaredNames(b))
           roles == ToSet(b.roles)
           permissions == ToSet(b.permissions)
           type(n) == (CHOOSE r \in b.relations : r[1] = n)[2]
<1>1. IndexDeclarations(b) =
        [n \in names |-> CASE n \in roles -> Declared("role", "", b.at)
                           [] n \in permissions -> Declared("permission", "", b.at)
                           [] OTHER -> Declared("relation", type(n), b.at)]
  BY DEF IndexDeclarations
<1> HIDE DEF names, roles, permissions, type
<1>2. \/ IndexDeclarations(b)[name] = Declared("role", "", b.at)
      \/ IndexDeclarations(b)[name] = Declared("permission", "", b.at)
      \/ IndexDeclarations(b)[name] = Declared("relation", type(name), b.at)
  BY <1>1
<1> QED  BY <1>2

\* What is merged declares what either declares, as the newer one does.
LEMMA Merged ==
    ASSUME NEW old, NEW b, Redeclared(old, IndexDeclarations(b)) = {}
    PROVE  LET new == IndexDeclarations(b)
               merged == MergeDeclarations(old, new)
           IN  /\ DOMAIN merged = DOMAIN old \cup DOMAIN new
               /\ \A name \in DOMAIN old : SameDeclaration(merged[name], old[name])
               /\ \A name \in DOMAIN new : SameDeclaration(merged[name], new[name])
<1> DEFINE new == IndexDeclarations(b)
           merged == MergeDeclarations(old, new)
<1>1. \A name \in DOMAIN new : \E is, type : new[name] = Declared(is, type, b.at)
  BY IndexIsDeclared
<1> HIDE DEF new
<1>2. DOMAIN merged = DOMAIN old \cup DOMAIN new
  BY DEF MergeDeclarations
<1>3. ASSUME NEW name \in DOMAIN new
      PROVE  SameDeclaration(merged[name], new[name])
  <2>1. PICK is, type : new[name] = Declared(is, type, b.at)
    BY <1>1
  <2>2. \/ merged[name] = new[name]
        \/ merged[name] = [new[name] EXCEPT !.first = old[name].first]
    BY DEF MergeDeclarations
  <2>3. merged[name].is = new[name].is /\ merged[name].type = new[name].type
    BY <2>1, <2>2 DEF Declared
  <2> QED  BY <2>3 DEF SameDeclaration
<1>4. ASSUME NEW name \in DOMAIN old
      PROVE  SameDeclaration(merged[name], old[name])
  <2>1. CASE name \notin DOMAIN new
    <3>1. merged[name] = old[name]
      BY <2>1 DEF MergeDeclarations
    <3> QED  BY <3>1, SameIsEquivalence
  <2>2. CASE name \in DOMAIN new
    <3>1. SameDeclaration(old[name], new[name])
      BY <2>2 DEF Redeclared, new
    <3> QED  BY <1>3, <2>2, <3>1, SameIsEquivalence
  <2> QED  BY <2>1, <2>2
<1> QED
  BY <1>2, <1>3, <1>4 DEF new

LEMMA BlocksWith ==
    ASSUME NEW D, NEW e, e.line.is = "block"
    PROVE  /\ BlocksIn(D \cup {e}) = BlocksIn(D) \cup {Block(e)}
           /\ \A r : BlocksOn(r, D \cup {e}) =
                IF r = Block(e).resource THEN BlocksOn(r, D) \cup {Block(e)}
                ELSE BlocksOn(r, D)
           /\ RulesIn(D \cup {e}) = RulesIn(D) /\ TypesIn(D \cup {e}) = TypesIn(D)
<1> DEFINE E == D \cup {e}
<1>1. Of("block", E) = Of("block", D) \cup {e} /\ Of("rule", E) = Of("rule", D)
      /\ Of("type", E) = Of("type", D)
  BY DEF Of
<1> HIDE DEF E
<1>2. BlocksIn(E) = BlocksIn(D) \cup {Block(e)}
  BY <1>1 DEF BlocksIn
<1>3. \A r : BlocksOn(r, E) = IF r = Block(e).resource THEN BlocksOn(r, D) \cup {Block(e)}
                              ELSE BlocksOn(r, D)
  BY <1>2 DEF BlocksOn
<1> QED
  BY <1>1, <1>2, <1>3 DEF E, RulesIn, TypesIn

LEMMA BlockIsGathered ==
    ASSUME NEW k, IsKb(k), Agree(k), NEW D, Gathered(k, D), NEW e, e.line.is = "block",
           Redeclared(DeclarationsOf(Block(e).resource, k), IndexDeclarations(Block(e))) = {}
    PROVE  Gathered(AddBlock(k, Block(e), IndexDeclarations(Block(e))), D \cup {e})
<1> DEFINE b == Block(e)
           index == IndexDeclarations(b)
           E == D \cup {e}
           new == AddBlock(k, b, index)
           old == DeclarationsOf(b.resource, k)
           merged == MergeDeclarations(old, index)
           mine == ShorthandOf(b.resource, k) \cup b.shorthand
<1>1. /\ BlocksIn(E) = BlocksIn(D) \cup {b}
      /\ \A r : BlocksOn(r, E) = IF r = b.resource THEN BlocksOn(r, D) \cup {b}
                                 ELSE BlocksOn(r, D)
  BY BlocksWith
<1> HIDE DEF b, index
<1>2. /\ new.actors = IF b.actor THEN k.actors \cup {b.resource} ELSE k.actors
      /\ new.resources = k.resources \cup {b.resource}
      /\ new.decls = At(k.decls, b.resource, merged)
      /\ new.shorthand = At(k.shorthand, b.resource, mine)
  <2>1. IsAdded(new, k, b, index)
    BY AddedBlock
  <2> HIDE DEF new, merged, mine
  <2> QED  BY <2>1 DEF IsAdded, merged, mine, old
<1>3. /\ DOMAIN merged = DOMAIN old \cup DOMAIN index
      /\ \A name \in DOMAIN old : SameDeclaration(merged[name], old[name])
      /\ \A name \in DOMAIN index : SameDeclaration(merged[name], index[name])
  BY Merged DEF index, b
<1>5. /\ ShorthandOf(b.resource, k) = UNION {c.shorthand : c \in BlocksOn(b.resource, D)}
      /\ DOMAIN old = UNION {DOMAIN IndexDeclarations(c) : c \in BlocksOn(b.resource, D)}
      /\ \A c \in BlocksOn(b.resource, D) : \A name \in DOMAIN IndexDeclarations(c) :
            SameDeclaration(old[name], IndexDeclarations(c)[name])
  <2>1. CASE b.resource \notin k.resources
    <3>1. old = <<>> /\ DOMAIN old = {} /\ ShorthandOf(b.resource, k) = {}
      BY <2>1 DEF DeclarationsOf, ShorthandOf, Agree
    <3>2. BlocksOn(b.resource, D) = {}
      BY <2>1 DEF Gathered, BlocksOn
    <3> HIDE DEF old
    <3> QED  BY <3>1, <3>2
  <2>2. CASE b.resource \in k.resources
    BY <2>2 DEF DeclarationsOf, ShorthandOf, Agree, Gathered
  <2> QED  BY <2>1, <2>2
<1> HIDE DEF b, index, E, new, merged, old
<1>6. new.actors = {c.resource : c \in {d \in BlocksIn(E) : d.actor}}
  BY <1>1, <1>2 DEF Gathered
<1>7. new.resources = {c.resource : c \in BlocksIn(E)}
  BY <1>1, <1>2 DEF Gathered
<1>8. ASSUME NEW r \in new.resources
      PROVE  /\ new.shorthand[r] = UNION {c.shorthand : c \in BlocksOn(r, E)}
             /\ DOMAIN new.decls[r] = UNION {DOMAIN IndexDeclarations(c) : c \in BlocksOn(r, E)}
             /\ \A c \in BlocksOn(r, E) : \A name \in DOMAIN IndexDeclarations(c) :
                    SameDeclaration(new.decls[r][name], IndexDeclarations(c)[name])
  <2>1. CASE r = b.resource
    <3>1. new.decls[r] = merged /\ new.shorthand[r] = mine
      BY <1>2, <2>1 DEF At
    <3>2. BlocksOn(r, E) = BlocksOn(r, D) \cup {b}
      BY <1>1, <2>1
    <3>3. mine = UNION {c.shorthand : c \in BlocksOn(r, E)}
      BY <1>5, <2>1, <3>2
    <3>4. DOMAIN merged = UNION {DOMAIN IndexDeclarations(c) : c \in BlocksOn(r, E)}
      BY <1>3, <1>5, <2>1, <3>2 DEF index
    <3>5. ASSUME NEW c \in BlocksOn(r, E), NEW name \in DOMAIN IndexDeclarations(c)
          PROVE  SameDeclaration(merged[name], IndexDeclarations(c)[name])
      <4>1. CASE c = b
        BY <1>3, <3>5, <4>1 DEF index
      <4>2. CASE c \in BlocksOn(r, D)
        <5>1. name \in DOMAIN old /\ SameDeclaration(old[name], IndexDeclarations(c)[name])
          BY <1>5, <2>1, <4>2
        <5> QED  BY <1>3, <5>1, SameIsEquivalence
      <4> QED  BY <3>2, <4>1, <4>2
    <3> HIDE DEF mine
    <3> QED  BY <3>1, <3>3, <3>4, <3>5
  <2>2. CASE r # b.resource
    <3>1. r \in k.resources /\ BlocksOn(r, E) = BlocksOn(r, D)
      BY <1>1, <1>2, <2>2
    <3>2. new.decls[r] = k.decls[r] /\ new.shorthand[r] = k.shorthand[r]
      BY <1>2, <2>2, <3>1 DEF At, Agree
    <3> QED  BY <3>1, <3>2 DEF Gathered
  <2> QED  BY <2>1, <2>2
<1>9. Gathered(new, E)
  BY <1>6, <1>7, <1>8 DEF Gathered
<1> QED
  BY <1>9 DEF new, b, index, E

(***************************************************************************)
(* The lines of a source: without errors if and only if they are           *)
(* compatible, and then they are all in the knowledge base                 *)
(***************************************************************************)

\* In a load of base, when the entries D have been gone through.
Loading(k, base, D, files, contents) ==
    /\ Consistent(k, base) /\ Gathered(k, D)
    /\ k.rules = RulesIn(D) /\ k.types = base.types \cup TypesIn(D)
    /\ k.files = files /\ k.contents = contents

\* More lines have been loaded, without more errors if they are compatible.
LoadsTo(old, new, base, E, files, contents) ==
    /\ Errors(new.diagnostics) = {} <=>
            Errors(old.diagnostics) = {} /\ Compatible(E, DOMAIN base.constants)
    /\ Compatible(E, DOMAIN base.constants) => Loading(new.kb, base, E, files, contents)

LEMMA ErrorsOfUnion ==
    ASSUME NEW A, NEW B
    PROVE  Errors(A \cup B) = Errors(A) \cup Errors(B)
  BY DEF Errors

LEMMA OthersWith ==
    ASSUME NEW D, NEW e, e.line.is # "block"
    PROVE  BlocksIn(D \cup {e}) = BlocksIn(D)
  BY DEF BlocksIn, Of

LEMMA RulesWith ==
    ASSUME NEW D, NEW e
    PROVE  /\ RulesIn(D \cup {e}) =
                IF e.line.is = "rule" THEN RulesIn(D) \cup {It(e)} ELSE RulesIn(D)
           /\ TypesIn(D \cup {e}) =
                IF e.line.is = "type" THEN TypesIn(D) \cup {It(e)} ELSE TypesIn(D)
<1>1. /\ Of("rule", D \cup {e}) =
            IF e.line.is = "rule" THEN Of("rule", D) \cup {e} ELSE Of("rule", D)
      /\ Of("type", D \cup {e}) =
            IF e.line.is = "type" THEN Of("type", D) \cup {e} ELSE Of("type", D)
  BY DEF Of
<1> QED
  BY <1>1 DEF RulesIn, TypesIn

\* A line that is not a block is compatible with all others if it is good.
LEMMA OtherIsCompatible ==
    ASSUME NEW D, NEW classes, Compatible(D, classes), NEW e, e.line.is # "block"
    PROVE  Compatible(D \cup {e}, classes) <=> GoodEntry(e, classes)
  BY OthersWith DEF Compatible

LEMMA BlockIsCompatible ==
    ASSUME NEW D, NEW classes, Compatible(D, classes), NEW e, e.line.is = "block"
    PROVE  Compatible(D \cup {e}, classes) <=>
                /\ GoodEntry(e, classes)
                /\ \A c \in BlocksOn(Block(e).resource, D) : SameNames(Block(e), c)
<1> DEFINE b == Block(e)
<1>1. BlocksIn(D \cup {e}) = BlocksIn(D) \cup {b}
  BY BlocksWith
<1>2. \A c, d : SameNames(c, d) => SameNames(d, c)
  BY SameIsEquivalence DEF SameNames
<1>3. SameNames(b, b)
  BY SameIsEquivalence DEF SameNames
<1> HIDE DEF b
<1>4. (\A c, d \in BlocksIn(D) \cup {b} : c.resource = d.resource => SameNames(c, d))
        <=> /\ \A c, d \in BlocksIn(D) : c.resource = d.resource => SameNames(c, d)
            /\ \A c \in BlocksOn(b.resource, D) : SameNames(b, c)
  BY <1>2, <1>3 DEF BlocksOn
<1> QED
  BY <1>1, <1>4 DEF Compatible, b

\* What holds of the blocks of D holds in a knowledge base with the same ones.
LEMMA SameBlocks ==
    ASSUME NEW k, NEW l, NEW D, NEW E, Gathered(k, D), BlocksIn(E) = BlocksIn(D),
           l.actors = k.actors, l.resources = k.resources,
           l.decls = k.decls, l.shorthand = k.shorthand
    PROVE  Gathered(l, E)
<1>1. \A r : BlocksOn(r, E) = BlocksOn(r, D)
  BY DEF BlocksOn
<1> QED
  BY <1>1 DEF Gathered

LEMMA RuleLoads ==
    ASSUME NEW acc, NEW base, NEW D, NEW files, NEW contents,
           Loading(acc.kb, base, D, files, contents), Compatible(D, DOMAIN base.constants),
           NEW line, IsLine(line), line.is = "rule", NEW at
    PROVE  LoadsTo(acc, LoadLine(acc, line, at), base, D \cup {Entry(line, at)}, files, contents)
<1> DEFINE e == Entry(line, at)
           E == D \cup {e}
           k == acc.kb
           rule == It(e)
           new == LoadLine(acc, line, at)
           l == [k EXCEPT !.rules = @ \cup {rule}]
<1>1. e.line = line /\ e.at = at /\ rule = [line.it EXCEPT !.at = at]
  BY DEF Entry, It
<1>2. new = [kb |-> l, diagnostics |-> acc.diagnostics \cup RuleWarnings(rule, k)]
  BY <1>1 DEF LoadLine, LoadRule, Add
<1>3. rule.lint = line.it.lint /\ IsRule(rule)
  BY <1>1 DEF IsLine, IsRule, Rule
<1>4. BlocksIn(E) = BlocksIn(D) /\ RulesIn(E) = RulesIn(D) \cup {rule} /\ TypesIn(E) = TypesIn(D)
  BY <1>1, OthersWith, RulesWith
<1>5. Compatible(E, DOMAIN base.constants) <=> line.it.lint \subseteq Warnings
  BY <1>1, OtherIsCompatible DEF GoodEntry
<1> HIDE DEF e, E, rule, new, k
<1>6. Errors(RuleWarnings(rule, k)) = {} <=> rule.lint \subseteq Warnings
  <2> DEFINE lints == {Diagnostic(kind, rule.at) : kind \in rule.lint}
             unknown == {Diagnostic("UnknownSpecializer", rule.at) :
                            i \in UnknownSpecializers(rule, k)}
  <2>1. \A d \in unknown : d.kind \in Warnings
    BY DEF Diagnostic, Warnings
  <2>2. (\A d \in lints : d.kind \in Warnings) <=> rule.lint \subseteq Warnings
    <3>1. \A kind : Diagnostic(kind, rule.at).kind = kind
      BY DEF Diagnostic
    <3> QED  BY <3>1
  <2>3. RuleWarnings(rule, k) = lints \cup unknown
    BY DEF RuleWarnings
  <2> HIDE DEF lints, unknown
  <2> QED  BY <2>1, <2>2, <2>3 DEF Errors
<1>7. Errors(new.diagnostics) = {} <=>
            Errors(acc.diagnostics) = {} /\ Compatible(E, DOMAIN base.constants)
  BY <1>2, <1>3, <1>5, <1>6, ErrorsOfUnion
<1>8. /\ IsKb(k) /\ Consistent(k, base) /\ Gathered(k, D)
      /\ k.rules = RulesIn(D) /\ k.types = base.types \cup TypesIn(D)
      /\ k.files = files /\ k.contents = contents
  BY DEF Loading, Consistent, k
<1>9. /\ IsKb(l) /\ l.rules = k.rules \cup {rule} /\ l.types = k.types
      /\ l.actors = k.actors /\ l.resources = k.resources
      /\ l.decls = k.decls /\ l.shorthand = k.shorthand
      /\ l.constants = k.constants /\ l.mro = k.mro
      /\ l.files = k.files /\ l.contents = k.contents
  BY <1>8 DEF IsKb
<1> HIDE DEF l
<1>10. Consistent(l, base)
  BY <1>3, <1>8, <1>9 DEF Consistent, Agree
<1>11. Gathered(l, E)
  BY <1>4, <1>8, <1>9, SameBlocks
<1>12. Loading(l, base, E, files, contents)
  BY <1>4, <1>8, <1>9, <1>10, <1>11 DEF Loading
<1> QED
  BY <1>2, <1>7, <1>12 DEF LoadsTo, new, E, e

LEMMA TypeLoads ==
    ASSUME NEW acc, NEW base, NEW D, NEW files, NEW contents,
           Loading(acc.kb, base, D, files, contents), Compatible(D, DOMAIN base.constants),
           NEW line, IsLine(line), line.is = "type", NEW at
    PROVE  LoadsTo(acc, LoadLine(acc, line, at), base, D \cup {Entry(line, at)}, files, contents)
<1> DEFINE e == Entry(line, at)
           E == D \cup {e}
           k == acc.kb
           type == It(e)
           new == LoadLine(acc, line, at)
           l == [k EXCEPT !.types = @ \cup {type}]
           error == Diagnostic("InvalidRuleType", type.at)
<1>1. e.line = line /\ e.at = at /\ type = [line.it EXCEPT !.at = at]
  BY DEF Entry, It
<1>2. new = IF line.dots THEN [kb |-> k, diagnostics |-> acc.diagnostics \cup {error}]
            ELSE [kb |-> l, diagnostics |-> acc.diagnostics \cup {}]
  BY <1>1 DEF LoadLine, LoadType, Add
<1>3. BlocksIn(E) = BlocksIn(D) /\ RulesIn(E) = RulesIn(D) /\ TypesIn(E) = TypesIn(D) \cup {type}
  BY <1>1, OthersWith, RulesWith
<1>4. Compatible(E, DOMAIN base.constants) <=> ~line.dots
  <2>1. GoodEntry(e, DOMAIN base.constants) <=> ~line.dots
    BY <1>1 DEF GoodEntry
  <2> QED  BY <1>1, <2>1, OtherIsCompatible
<1>5. Errors({error}) # {}
  <2>1. error.kind = "InvalidRuleType"
    BY DEF Diagnostic
  <2> HIDE DEF error
  <2> QED  BY <2>1 DEF Errors, Warnings
<1> HIDE DEF e, E, type, new, k, error
<1>6. Errors(new.diagnostics) = {} <=>
            Errors(acc.diagnostics) = {} /\ Compatible(E, DOMAIN base.constants)
  BY <1>2, <1>4, <1>5, ErrorsOfUnion
<1>7. /\ IsKb(k) /\ Consistent(k, base) /\ Gathered(k, D)
      /\ k.rules = RulesIn(D) /\ k.types = base.types \cup TypesIn(D)
      /\ k.files = files /\ k.contents = contents
  BY DEF Loading, Consistent, k
<1>8. /\ IsKb(l) /\ l.rules = k.rules /\ l.types = k.types \cup {type}
      /\ l.actors = k.actors /\ l.resources = k.resources
      /\ l.decls = k.decls /\ l.shorthand = k.shorthand
      /\ l.constants = k.constants /\ l.mro = k.mro
      /\ l.files = k.files /\ l.contents = k.contents
  BY <1>7 DEF IsKb
<1> HIDE DEF l
<1>9. Consistent(l, base)
  BY <1>7, <1>8 DEF Consistent, Agree
<1>10. Gathered(l, E)
  BY <1>3, <1>7, <1>8, SameBlocks
<1>11. Loading(l, base, E, files, contents)
  BY <1>3, <1>7, <1>8, <1>9, <1>10 DEF Loading
<1> QED
  BY <1>2, <1>4, <1>6, <1>11 DEF LoadsTo, new, E, e

LEMMA QueryLoads ==
    ASSUME NEW acc, NEW base, NEW D, NEW files, NEW contents,
           Loading(acc.kb, base, D, files, contents), Compatible(D, DOMAIN base.constants),
           NEW line, IsLine(line), line.is = "query", NEW at
    PROVE  LoadsTo(acc, LoadLine(acc, line, at), base, D \cup {Entry(line, at)}, files, contents)
<1> DEFINE e == Entry(line, at)
           E == D \cup {e}
           k == acc.kb
           new == LoadLine(acc, line, at)
           l == [k EXCEPT !.queries = Append(@, line.it)]
<1>1. e.line = line
  BY DEF Entry
<1>2. new = [kb |-> l, diagnostics |-> acc.diagnostics \cup {}]
  BY DEF LoadLine, LoadQuery, Add
<1>3. BlocksIn(E) = BlocksIn(D) /\ RulesIn(E) = RulesIn(D) /\ TypesIn(E) = TypesIn(D)
  BY <1>1, OthersWith, RulesWith
<1>4. Compatible(E, DOMAIN base.constants)
  BY <1>1, OtherIsCompatible DEF GoodEntry
<1> HIDE DEF e, E, new, k
<1>5. Errors(new.diagnostics) = Errors(acc.diagnostics)
  BY <1>2
<1>6. /\ IsKb(k) /\ Consistent(k, base) /\ Gathered(k, D)
      /\ k.rules = RulesIn(D) /\ k.types = base.types \cup TypesIn(D)
      /\ k.files = files /\ k.contents = contents
  BY DEF Loading, Consistent, k
<1>7. /\ IsKb(l) /\ l.rules = k.rules /\ l.types = k.types
      /\ l.actors = k.actors /\ l.resources = k.resources
      /\ l.decls = k.decls /\ l.shorthand = k.shorthand
      /\ l.constants = k.constants /\ l.mro = k.mro
      /\ l.files = k.files /\ l.contents = k.contents
  <2>1. PICK queries : l = [k EXCEPT !.queries = queries]
    OBVIOUS
  <2> HIDE DEF l
  <2> QED  BY <1>6, <2>1 DEF IsKb
<1> HIDE DEF l
<1>8. Consistent(l, base)
  BY <1>6, <1>7 DEF Consistent, Agree
<1>9. Gathered(l, E)
  BY <1>3, <1>6, <1>7, SameBlocks
<1>10. Loading(l, base, E, files, contents)
  BY <1>3, <1>6, <1>7, <1>8, <1>9 DEF Loading
<1> QED
  BY <1>2, <1>4, <1>5, <1>10 DEF LoadsTo, new, E, e

LEMMA BlockLoads ==
    ASSUME NEW acc, NEW base, NEW D, NEW files, NEW contents,
           Loading(acc.kb, base, D, files, contents), Compatible(D, DOMAIN base.constants),
           NEW line, IsLine(line), line.is = "block", NEW at
    PROVE  LoadsTo(acc, LoadLine(acc, line, at), base, D \cup {Entry(line, at)}, files, contents)
<1> DEFINE e == Entry(line, at)
           E == D \cup {e}
           k == acc.kb
           b == Block(e)
           new == LoadLine(acc, line, at)
           index == IndexDeclarations(b)
           l == AddBlock(k, b, index)
           twice == Diagnostic("DuplicateResourceBlockDeclaration", b.at)
           class == IF b.resource \in DOMAIN k.constants THEN {}
                    ELSE {Diagnostic("UnregisteredClass", b.at)}
           again == Redeclared(DeclarationsOf(b.resource, k), index)
           wrong == BlockErrors(It(e))
           added == IF DeclaredTwice(b) THEN class \cup {twice}
                    ELSE class \cup {twice : n \in again}
           classes == DOMAIN base.constants
<1>1. e.line = line /\ It(e) = [line.it EXCEPT !.at = at] /\ b = BlockOf(It(e))
  BY DEF Entry, It, Block
<1>2. new = [kb |-> IF DeclaredTwice(b) THEN k ELSE l,
             diagnostics |-> acc.diagnostics \cup (wrong \cup added)]
  BY <1>1 DEF LoadLine, LoadBlock, Add, AddToKb
<1>3. /\ IsKb(k) /\ Agree(k) /\ Consistent(k, base) /\ Gathered(k, D)
      /\ k.rules = RulesIn(D) /\ k.types = base.types \cup TypesIn(D)
      /\ k.files = files /\ k.contents = contents /\ k.constants = base.constants
  BY DEF Loading, Consistent
<1>4. again = {} <=> \A c \in BlocksOn(b.resource, D) : SameNames(b, c)
  BY <1>3, RedeclaredIsIncompatible
<1>5. GoodEntry(e, classes) <=> wrong = {} /\ ~DeclaredTwice(b) /\ b.resource \in classes
  BY <1>1 DEF GoodEntry
<1>6. Compatible(E, classes) <=> GoodEntry(e, classes) /\ again = {}
  BY <1>1, <1>4, BlockIsCompatible
<1>7. wrong = {} <=> Errors(wrong) = {}
  BY DEF BlockErrors, Errors, BlockError, Diagnostic, Warnings
<1>8. Errors(added) = {} <=> ~DeclaredTwice(b) /\ b.resource \in classes /\ again = {}
  <2> HIDE DEF b, again
  <2>1. \A d \in added : d.kind \notin Warnings
    BY DEF Diagnostic, Warnings
  <2>2. Errors(added) = added
    BY <2>1 DEF Errors
  <2> QED  BY <1>3, <2>2
<1>9. ASSUME ~DeclaredTwice(b), again = {}
      PROVE  Loading(l, base, E, files, contents)
  <2>1. Gathered(l, E)
    BY <1>1, <1>3, <1>9, BlockIsGathered
  <2>2. Consistent(l, base)
    BY <1>3, AddBlockKeeps
  <2>3. RulesIn(E) = RulesIn(D) /\ TypesIn(E) = TypesIn(D)
    BY <1>1, BlocksWith
  <2>4. IsAdded(l, k, b, index)
    BY <1>3, AddedBlock
  <2> HIDE DEF l, k, E
  <2>5. l.rules = k.rules /\ l.types = k.types /\ l.files = k.files /\ l.contents = k.contents
    BY <2>4 DEF IsAdded
  <2> QED  BY <1>3, <2>1, <2>2, <2>3, <2>5 DEF Loading
<1> HIDE DEF e, E, k, b, new, l, wrong, added, again, classes
<1>10. Errors(new.diagnostics) = {} <=> Errors(acc.diagnostics) = {} /\ Compatible(E, classes)
  BY <1>2, <1>5, <1>6, <1>7, <1>8, ErrorsOfUnion
<1>11. Compatible(E, classes) => Loading(new.kb, base, E, files, contents)
  BY <1>2, <1>5, <1>6, <1>9
<1> QED
  BY <1>10, <1>11 DEF LoadsTo, new, E, e, classes

LEMMA LineLoads ==
    ASSUME NEW acc, NEW base, NEW D, NEW files, NEW contents,
           Loading(acc.kb, base, D, files, contents), Compatible(D, DOMAIN base.constants),
           NEW line, IsLine(line), NEW at
    PROVE  LoadsTo(acc, LoadLine(acc, line, at), base, D \cup {Entry(line, at)}, files, contents)
  BY RuleLoads, TypeLoads, BlockLoads, QueryLoads DEF IsLine

LEMMA FewerAreCompatible ==
    ASSUME NEW D, NEW E, D \subseteq E, NEW classes, Compatible(E, classes)
    PROVE  Compatible(D, classes)
  BY DEF Compatible, BlocksIn, Of

\* One part of a load after the other.
LEMMA LoadsOn ==
    ASSUME NEW old, NEW mid, NEW new, NEW base, NEW D, NEW E, D \subseteq E,
           NEW files, NEW contents, LoadsTo(old, mid, base, D, files, contents),
           mid.diagnostics \subseteq new.diagnostics,
           Compatible(D, DOMAIN base.constants) => LoadsTo(mid, new, base, E, files, contents)
    PROVE  LoadsTo(old, new, base, E, files, contents)
<1>1. Compatible(E, DOMAIN base.constants) => Compatible(D, DOMAIN base.constants)
  BY FewerAreCompatible
<1>2. Errors(new.diagnostics) = {} => Errors(mid.diagnostics) = {}
  BY DEF Errors
<1> QED
  BY <1>1, <1>2 DEF LoadsTo

LEMMA DiagnosticsStay ==
    ASSUME NEW acc, NEW line, IsLine(line), NEW at
    PROVE  acc.diagnostics \subseteq LoadLine(acc, line, at).diagnostics
<1>1. \A base, diagnostics : acc.diagnostics \subseteq Add(acc, base, diagnostics).diagnostics
  BY DEF Add
<1> QED
  BY <1>1 DEF LoadLine, LoadRule, LoadType, LoadBlock, LoadQuery, IsLine

EntriesOf(lines, at, n) == {Entry(lines[i], at) : i \in 1 .. n}

LEMMA LinesLoad ==
    ASSUME NEW acc, NEW base, NEW D, NEW files, NEW contents,
           Loading(acc.kb, base, D, files, contents), Compatible(D, DOMAIN base.constants),
           NEW lines, NEW at, Len(lines) \in Nat, DOMAIN lines = 1 .. Len(lines),
           \A i \in DOMAIN lines : IsLine(lines[i])
    PROVE  LoadsTo(acc, LoadLines(acc, lines, at), base,
                   D \cup EntriesOf(lines, at, Len(lines)), files, contents)
<1> DEFINE after == CHOOSE f : IsLinesLoaded(f, Len(lines), acc, lines, at)
           upTo(n) == D \cup EntriesOf(lines, at, n)
           Done(n) == LoadsTo(acc, after[n], base, upTo(n), files, contents)
<1>1. LoadLines(acc, lines, at) = after[Len(lines)]
  BY DEF LoadLines, IsLinesLoaded
<1>2. IsLinesLoaded(after, Len(lines), acc, lines, at)
  BY LinesAreLoaded
<1> HIDE DEF after, Done
<1> DEFINE T == {n \in 0 .. Len(lines) : ~Done(n)}
<1> HIDE DEF upTo
<1>3. ASSUME T # {} PROVE FALSE
  <2>1. PICK n \in T : \A j \in T : n <= j
    <3>1. T \in SUBSET Nat
      OBVIOUS
    <3> HIDE DEF T
    <3> QED  BY <1>3, <3>1, HasLeast
  <2>2. CASE n = 0
    <3>1. after[0] = acc
      BY <1>2 DEF IsLinesLoaded
    <3>2. upTo(0) = D
      BY DEF EntriesOf, upTo
    <3>3. Done(0)
      BY <3>1, <3>2 DEF LoadsTo, Done
    <3> QED  BY <2>1, <2>2, <3>3
  <2>3. CASE n # 0
    <3>1. n - 1 \in 0 .. Len(lines) /\ n - 1 \notin T /\ n \in DOMAIN lines
      BY <2>1, <2>3
    <3>2. after[n] = LoadLine(after[n - 1], lines[n], at)
      BY <1>2, <2>3 DEF IsLinesLoaded
    <3>3. Done(n - 1) /\ IsLine(lines[n])
      BY <3>1
    <3>4. upTo(n) = upTo(n - 1) \cup {Entry(lines[n], at)}
      <4>1. 1 .. n = (1 .. (n - 1)) \cup {n}
        BY <2>3
      <4> QED  BY <4>1 DEF EntriesOf, upTo
    <3>5. Compatible(upTo(n - 1), DOMAIN base.constants) =>
                LoadsTo(after[n - 1], after[n], base, upTo(n), files, contents)
      <4> SUFFICES ASSUME Compatible(upTo(n - 1), DOMAIN base.constants)
                   PROVE  LoadsTo(after[n - 1], after[n], base, upTo(n), files, contents)
        OBVIOUS
      <4>1. Loading(after[n - 1].kb, base, upTo(n - 1), files, contents)
        BY <3>3 DEF LoadsTo, Done
      <4>2. IsLine(lines[n]) /\ Compatible(upTo(n - 1), DOMAIN base.constants)
        BY <3>3
      <4>3. LoadsTo(after[n - 1], LoadLine(after[n - 1], lines[n], at), base,
                    upTo(n - 1) \cup {Entry(lines[n], at)}, files, contents)
        BY ONLY <4>1, <4>2, LineLoads
      <4> QED  BY <3>2, <3>4, <4>3
    <3>6. after[n - 1].diagnostics \subseteq after[n].diagnostics
      BY <3>2, <3>3, DiagnosticsStay
    <3>7. Done(n)
      <4>1. upTo(n - 1) \subseteq upTo(n)
        BY <3>4
      <4>2. LoadsTo(acc, after[n - 1], base, upTo(n - 1), files, contents)
        BY <3>3 DEF Done
      <4>3. LoadsTo(acc, after[n], base, upTo(n), files, contents)
        BY ONLY <3>5, <3>6, <4>1, <4>2, LoadsOn
      <4> QED  BY <4>3 DEF Done
    <3> QED  BY <2>1, <3>7
  <2> QED  BY <2>2, <2>3
<1>4. Done(Len(lines))
  BY <1>3
<1> QED
  BY <1>1, <1>4 DEF Done, upTo

(***************************************************************************)
(* The sources of a load                                                   *)
(***************************************************************************)

\* Of the first n of the sources s: their entries, and those in files.
LinesOf(source) == Text[source.src].lines
SourceEntries(source) == EntriesOf(LinesOf(source), source.filename, Len(LinesOf(source)))
FirstEntries(s, n) == UNION {SourceEntries(s[i]) : i \in 1 .. n}
InFiles(s, n) == {i \in 1 .. n : s[i].filename # NoFile}
FilesOf(s, n) == {s[i].filename : i \in InFiles(s, n)}
ContentsOf(s, n) == {s[i].src : i \in InFiles(s, n)}

\* They may be loaded without errors, as far as their lines go.
Apart(s, n) ==
    \A i, j \in InFiles(s, n) :
        i # j => s[i].filename # s[j].filename /\ s[i].src # s[j].src

Clean(s, n, classes) ==
    /\ Apart(s, n) /\ \A i \in 1 .. n : Text[s[i].src].parses
    /\ Compatible(FirstEntries(s, n), classes)

LoadingFirst(k, base, s, n) ==
    Loading(k, base, FirstEntries(s, n), FilesOf(s, n), ContentsOf(s, n))

LoadsFirst(old, new, base, s, n) ==
    /\ Errors(new.diagnostics) = {} <=>
            Errors(old.diagnostics) = {} /\ Clean(s, n, DOMAIN base.constants)
    /\ Clean(s, n, DOMAIN base.constants) => LoadingFirst(new.kb, base, s, n)

LEMMA FirstWith ==
    ASSUME NEW s, NEW n \in Nat
    PROVE  /\ FirstEntries(s, n + 1) = FirstEntries(s, n) \cup SourceEntries(s[n + 1])
           /\ InFiles(s, n + 1) = IF s[n + 1].filename = NoFile THEN InFiles(s, n)
                                  ELSE InFiles(s, n) \cup {n + 1}
           /\ n + 1 \notin InFiles(s, n)
<1>1. 1 .. n + 1 = (1 .. n) \cup {n + 1} /\ n + 1 \notin 1 .. n
  OBVIOUS
<1> QED
  BY <1>1 DEF FirstEntries, InFiles

LEMMA FewerAreClean ==
    ASSUME NEW s, NEW n \in Nat, NEW classes, Clean(s, n + 1, classes)
    PROVE  Clean(s, n, classes)
<1>1. /\ InFiles(s, n) \subseteq InFiles(s, n + 1)
      /\ FirstEntries(s, n) \subseteq FirstEntries(s, n + 1)
  <2>1. \A i \in 1 .. n : i \in 1 .. n + 1
    OBVIOUS
  <2> QED  BY <2>1 DEF InFiles, FirstEntries
<1>2. Apart(s, n)
  BY <1>1 DEF Clean, Apart
<1>3. Compatible(FirstEntries(s, n), classes)
  BY <1>1, FewerAreCompatible DEF Clean
<1>4. \A i \in 1 .. n : i \in 1 .. n + 1
  OBVIOUS
<1> QED
  BY <1>2, <1>3, <1>4 DEF Clean

LEMMA NewIsApart ==
    ASSUME NEW k, NEW s, NEW n \in Nat, Apart(s, n),
           k.files = FilesOf(s, n), k.contents = ContentsOf(s, n)
    PROVE  FileIsNew(s[n + 1], k) <=> Apart(s, n + 1)
<1> DEFINE new == InFiles(s, n + 1)
<1>0. /\ new = IF s[n + 1].filename = NoFile THEN InFiles(s, n) ELSE InFiles(s, n) \cup {n + 1}
      /\ n + 1 \notin InFiles(s, n)
  BY FirstWith
<1>3. Apart(s, n + 1) <=>
        \A i, j \in new : i # j => s[i].filename # s[j].filename /\ s[i].src # s[j].src
  BY DEF Apart
<1> HIDE DEF new
<1>1. CASE s[n + 1].filename = NoFile
  BY <1>0, <1>1, <1>3 DEF FileIsNew, Apart
<1>2. CASE s[n + 1].filename # NoFile
  <2>1. FileIsNew(s[n + 1], k) <=>
            \A i \in InFiles(s, n) : s[i].filename # s[n + 1].filename /\ s[i].src # s[n + 1].src
    BY <1>2 DEF FileIsNew, FilesOf, ContentsOf
  <2> QED  BY <1>0, <1>2, <1>3, <2>1 DEF Apart
<1> QED
  BY <1>1, <1>2

LEMMA RememberedLoading ==
    ASSUME NEW k, NEW base, NEW s, NEW n \in Nat, LoadingFirst(k, base, s, n)
    PROVE  Loading(Remember(s[n + 1], k), base, FirstEntries(s, n),
                   FilesOf(s, n + 1), ContentsOf(s, n + 1))
<1> DEFINE source == s[n + 1]
           l == Remember(source, k)
           D == FirstEntries(s, n)
<1>1. /\ IsKb(k) /\ Consistent(k, base) /\ Gathered(k, D)
      /\ k.rules = RulesIn(D) /\ k.types = base.types \cup TypesIn(D)
      /\ k.files = FilesOf(s, n) /\ k.contents = ContentsOf(s, n)
  BY DEF LoadingFirst, Loading, Consistent
<1>2. CASE source.filename = NoFile
  <2>1. l = k /\ FilesOf(s, n + 1) = FilesOf(s, n) /\ ContentsOf(s, n + 1) = ContentsOf(s, n)
    BY <1>2, FirstWith DEF Remember, FilesOf, ContentsOf
  <2> QED  BY <2>1 DEF LoadingFirst
<1>3. CASE source.filename # NoFile
  <2>1. l = [k EXCEPT !.files = @ \cup {source.filename}, !.contents = @ \cup {source.src}]
    BY <1>3 DEF Remember
  <2>2. /\ FilesOf(s, n + 1) = FilesOf(s, n) \cup {source.filename}
        /\ ContentsOf(s, n + 1) = ContentsOf(s, n) \cup {source.src}
    <3>1. InFiles(s, n + 1) = InFiles(s, n) \cup {n + 1}
      BY <1>3, FirstWith
    <3> QED  BY <3>1 DEF FilesOf, ContentsOf
  <2> HIDE DEF l, source, D
  <2>3. /\ IsKb(l) /\ l.rules = k.rules /\ l.types = k.types
        /\ l.actors = k.actors /\ l.resources = k.resources
        /\ l.decls = k.decls /\ l.shorthand = k.shorthand
        /\ l.constants = k.constants /\ l.mro = k.mro
        /\ l.files = k.files \cup {source.filename} /\ l.contents = k.contents \cup {source.src}
    BY <1>1, <2>1 DEF IsKb
  <2>4. Consistent(l, base)
    BY <1>1, <2>3 DEF Consistent, Agree
  <2>5. Gathered(l, D)
    BY <1>1, <2>3, SameBlocks
  <2>6. Loading(l, base, D, FilesOf(s, n + 1), ContentsOf(s, n + 1))
    BY <1>1, <2>2, <2>3, <2>4, <2>5 DEF Loading
  <2> QED  BY <2>6 DEF l, source, D
<1> QED
  BY <1>2, <1>3

LEMMA SourceLoads ==
    ASSUME NEW acc, NEW base, NEW s, NEW n \in Nat, LoadingFirst(acc.kb, base, s, n),
           Clean(s, n, DOMAIN base.constants), IsSource(s[n + 1])
    PROVE  LoadsFirst(acc, LoadSource(acc, s[n + 1]), base, s, n + 1)
<1> DEFINE source == s[n + 1]
           remembered == Add(acc, Remember(source, acc.kb), {})
           lines == LinesOf(source)
           new == LoadSource(acc, source)
           classes == DOMAIN base.constants
           D == FirstEntries(s, n)
           E == FirstEntries(s, n + 1)
           files == FilesOf(s, n + 1)
           contents == ContentsOf(s, n + 1)
<1>1. remembered.kb = Remember(source, acc.kb) /\ remembered.diagnostics = acc.diagnostics
  BY DEF Add
<1>2. Loading(remembered.kb, base, D, files, contents)
  BY <1>1, RememberedLoading
<1>3. FileIsNew(source, acc.kb) <=> Apart(s, n + 1)
  BY NewIsApart DEF Clean, LoadingFirst, Loading
<1>4. E = D \cup EntriesOf(lines, source.filename, Len(lines))
  BY FirstWith DEF SourceEntries
<1>5. Clean(s, n + 1, classes) <=>
            Apart(s, n + 1) /\ Text[source.src].parses /\ Compatible(E, classes)
  <2>1. 1 .. n + 1 = (1 .. n) \cup {n + 1}
    OBVIOUS
  <2> QED  BY <2>1 DEF Clean
<1>6. ASSUME NEW kind, kind \notin Warnings, NEW a
      PROVE  Errors(Add(a, a.kb, {Diagnostic(kind, source.filename)}).diagnostics) # {}
  <2> DEFINE d == Diagnostic(kind, source.filename)
  <2>1. d.kind = kind /\ d \in Add(a, a.kb, {d}).diagnostics
    BY DEF Diagnostic, Add
  <2> QED  BY <1>6, <2>1 DEF Errors
<1>7. CASE ~FileIsNew(source, acc.kb)
  <2>1. new = Add(acc, acc.kb, {Diagnostic("FileLoading", source.filename)})
    BY <1>7 DEF LoadSource
  <2>2. Errors(new.diagnostics) # {}
    BY <1>6, <2>1 DEF Warnings
  <2> QED  BY <1>3, <1>5, <1>7, <2>2 DEF LoadsFirst
<1>8. CASE FileIsNew(source, acc.kb) /\ ~Text[source.src].parses
  <2>1. new = Add(remembered, remembered.kb, {Diagnostic("Parse", source.filename)})
    BY <1>8 DEF LoadSource
  <2>2. Errors(new.diagnostics) # {}
    BY <1>6, <2>1 DEF Warnings
  <2> QED  BY <1>3, <1>5, <1>8, <2>2 DEF LoadsFirst
<1>9. CASE FileIsNew(source, acc.kb) /\ Text[source.src].parses
  <2>1. new = LoadLines(remembered, lines, source.filename)
    BY <1>9 DEF LoadSource, LinesOf
  <2>2. /\ DOMAIN lines = 1 .. Len(lines) /\ Len(lines) \in Nat
        /\ \A i \in DOMAIN lines : IsLine(lines[i])
    BY TextAssumption DEF IsSource, LinesOf
  <2>3. Compatible(D, classes)
    BY DEF Clean
  <2> HIDE DEF remembered, lines, new, source, D, E, files, contents
  <2>4. LoadsTo(remembered, new, base, E, files, contents)
    BY <1>2, <1>4, <2>1, <2>2, <2>3, LinesLoad
  <2> QED  BY <1>1, <1>3, <1>5, <1>9, <2>4 DEF LoadsTo, LoadsFirst, LoadingFirst,
                                                 new, source, E, files, contents
<1> QED
  BY <1>7, <1>8, <1>9

\* An error that has been found stays.
LEMMA LinesKeepDiagnostics ==
    ASSUME NEW acc, NEW lines, NEW at, Len(lines) \in Nat, DOMAIN lines = 1 .. Len(lines),
           \A i \in DOMAIN lines : IsLine(lines[i])
    PROVE  acc.diagnostics \subseteq LoadLines(acc, lines, at).diagnostics
<1> DEFINE after == CHOOSE f : IsLinesLoaded(f, Len(lines), acc, lines, at)
<1>1. LoadLines(acc, lines, at) = after[Len(lines)]
  BY DEF LoadLines, IsLinesLoaded
<1>2. IsLinesLoaded(after, Len(lines), acc, lines, at)
  BY LinesAreLoaded
<1> HIDE DEF after
<1> DEFINE T == {n \in 0 .. Len(lines) : ~(acc.diagnostics \subseteq after[n].diagnostics)}
<1>3. ASSUME T # {} PROVE FALSE
  <2>1. PICK n \in T : \A j \in T : n <= j
    <3>1. T \in SUBSET Nat
      OBVIOUS
    <3> HIDE DEF T
    <3> QED  BY <1>3, <3>1, HasLeast
  <2>2. CASE n = 0
    BY <1>2, <2>2 DEF IsLinesLoaded
  <2>3. CASE n # 0
    <3>1. n - 1 \in 0 .. Len(lines) /\ n - 1 \notin T /\ n \in DOMAIN lines
      BY <2>1, <2>3
    <3>2. after[n] = LoadLine(after[n - 1], lines[n], at)
      BY <1>2, <2>3 DEF IsLinesLoaded
    <3>3. after[n - 1].diagnostics \subseteq after[n].diagnostics
      BY <3>1, <3>2, DiagnosticsStay
    <3> QED  BY <2>1, <3>1, <3>3
  <2> QED  BY <2>2, <2>3
<1> QED
  BY <1>1, <1>3

LEMMA SourceKeepsDiagnostics ==
    ASSUME NEW acc, NEW source, IsSource(source)
    PROVE  acc.diagnostics \subseteq LoadSource(acc, source).diagnostics
<1> DEFINE remembered == Add(acc, Remember(source, acc.kb), {})
           lines == Text[source.src].lines
<1>1. \A a, base, diagnostics : a.diagnostics \subseteq Add(a, base, diagnostics).diagnostics
  BY DEF Add
<1>2. acc.diagnostics \subseteq remembered.diagnostics
  BY <1>1
<1>3. remembered.diagnostics \subseteq LoadLines(remembered, lines, source.filename).diagnostics
  BY TextAssumption, LinesKeepDiagnostics DEF IsSource
<1> HIDE DEF remembered
<1> QED
  BY <1>1, <1>2, <1>3 DEF LoadSource, remembered

LEMMA SourcesLoad ==
    ASSUME NEW acc, NEW base, NEW s, NEW m \in Nat, LoadingFirst(acc.kb, base, s, m),
           Clean(s, m, DOMAIN base.constants), NEW sources, Len(sources) \in Nat,
           \A i \in 1 .. Len(sources) : sources[i] = s[m + i] /\ IsSource(sources[i])
    PROVE  LoadsFirst(acc, LoadSources(acc, sources), base, s, m + Len(sources))
<1> DEFINE after == CHOOSE f : IsSourcesLoaded(f, Len(sources), acc, sources)
           Done(n) == LoadsFirst(acc, after[n], base, s, m + n)
           classes == DOMAIN base.constants
<1>1. LoadSources(acc, sources) = after[Len(sources)]
  BY DEF LoadSources, IsSourcesLoaded
<1>2. IsSourcesLoaded(after, Len(sources), acc, sources)
  BY SourcesAreLoaded
<1> HIDE DEF after, Done
<1> DEFINE T == {n \in 0 .. Len(sources) : ~Done(n)}
<1>3. ASSUME T # {} PROVE FALSE
  <2>1. PICK n \in T : \A j \in T : n <= j
    <3>1. T \in SUBSET Nat
      OBVIOUS
    <3> HIDE DEF T
    <3> QED  BY <1>3, <3>1, HasLeast
  <2>2. CASE n = 0
    <3>1. after[0] = acc /\ m + 0 = m
      BY <1>2 DEF IsSourcesLoaded
    <3>2. Done(0)
      BY <3>1 DEF LoadsFirst, Done
    <3> QED  BY <2>1, <2>2, <3>2
  <2>3. CASE n # 0
    <3> DEFINE i == m + (n - 1)
               mid == after[n - 1]
               new == after[n]
    <3>1. /\ n - 1 \in 0 .. Len(sources) /\ n - 1 \notin T /\ n \in 1 .. Len(sources)
          /\ i \in Nat /\ i + 1 = m + n
      BY <2>1, <2>3
    <3>2. new = LoadSource(mid, sources[n])
      BY <1>2, <2>3 DEF IsSourcesLoaded
    <3>3. sources[n] = s[i + 1] /\ IsSource(s[i + 1])
      BY <3>1
    <3>4. LoadsFirst(acc, mid, base, s, i)
      BY <3>1 DEF Done
    <3>5. mid.diagnostics \subseteq new.diagnostics
      BY <3>2, <3>3, SourceKeepsDiagnostics
    <3> HIDE DEF i, mid, new
    <3>6. Errors(new.diagnostics) = {} => Errors(mid.diagnostics) = {}
      BY <3>5 DEF Errors
    <3>7. Clean(s, i + 1, classes) => Clean(s, i, classes)
      BY <3>1, FewerAreClean
    <3>8. ASSUME Clean(s, i, classes) PROVE LoadsFirst(acc, new, base, s, i + 1)
      <4>1. LoadingFirst(mid.kb, base, s, i)
        BY <3>4, <3>8 DEF LoadsFirst
      <4>2. LoadsFirst(mid, new, base, s, i + 1)
        BY <3>1, <3>2, <3>3, <3>8, <4>1, SourceLoads
      <4> QED  BY <3>4, <3>8, <3>7, <4>2 DEF LoadsFirst
    <3>9. LoadsFirst(acc, new, base, s, i + 1)
      BY <3>4, <3>6, <3>7, <3>8 DEF LoadsFirst
    <3>10. Done(n)
      BY <3>1, <3>9 DEF Done, new
    <3> QED  BY <2>1, <3>10
  <2> QED  BY <2>2, <2>3
<1>4. Done(Len(sources))
  BY <1>3
<1> QED
  BY <1>1, <1>4 DEF Done

(***************************************************************************)
(* The order of the sources                                                *)
(***************************************************************************)

Reordered(sources, order) == [i \in DOMAIN sources |-> sources[order[i]]]

\* Every source is in another place, and every place has a source.
Orders(sources) == Bijection(DOMAIN sources, DOMAIN sources)

LEMMA OrderIsBijection ==
    ASSUME NEW s \in Seq(Sources), NEW order \in Orders(s), NEW n, n = Len(s)
    PROVE  /\ \A i \in 1 .. n : order[i] \in 1 .. n
           /\ \A i, j \in 1 .. n : i # j => order[i] # order[j]
           /\ \A j \in 1 .. n : \E i \in 1 .. n : order[i] = j
           /\ Reordered(s, order) = [i \in 1 .. n |-> s[order[i]]]
<1>1. DOMAIN s = 1 .. n
  OBVIOUS
<1>2. order \in [1 .. n -> 1 .. n] /\ IsInjective(order)
  BY <1>1 DEF Orders, Bijection, Injection
<1>3. \A j \in 1 .. n : \E i \in 1 .. n : order[i] = j
  BY <1>1 DEF Orders, Bijection, Surjection
<1>4. \A i, j \in 1 .. n : i # j => order[i] # order[j]
  BY <1>2 DEF IsInjective
<1>5. Reordered(s, order) = [i \in 1 .. n |-> s[order[i]]]
  BY <1>1 DEF Reordered
<1> QED
  BY <1>2, <1>3, <1>4, <1>5

\* What is without errors in one order is so in any.
LEMMA ReorderedIsClean ==
    ASSUME NEW s \in Seq(Sources), NEW order \in Orders(s),
           NEW classes, Clean(s, Len(s), classes)
    PROVE  /\ Clean(Reordered(s, order), Len(s), classes)
           /\ FirstEntries(Reordered(s, order), Len(s)) = FirstEntries(s, Len(s))
<1> DEFINE n == Len(s)
           r == Reordered(s, order)
<1>1. n \in Nat /\ n = Len(s)
  OBVIOUS
<1> HIDE DEF n
<1>2. /\ \A i \in 1 .. n : order[i] \in 1 .. n
      /\ \A i, j \in 1 .. n : i # j => order[i] # order[j]
      /\ \A j \in 1 .. n : \E i \in 1 .. n : order[i] = j
      /\ r = [i \in 1 .. n |-> s[order[i]]]
  BY <1>1, OrderIsBijection
<1> HIDE DEF r
<1>3. /\ \A i \in 1 .. n : r[i] = s[order[i]]
      /\ \A j \in 1 .. n : \E i \in 1 .. n : r[i] = s[j]
  BY <1>2
<1>4. FirstEntries(r, n) = FirstEntries(s, n)
  <2>1. \A i \in 1 .. n : \E j \in 1 .. n : SourceEntries(r[i]) = SourceEntries(s[j])
    BY <1>2, <1>3
  <2>2. \A j \in 1 .. n : \E i \in 1 .. n : SourceEntries(s[j]) = SourceEntries(r[i])
    BY <1>3
  <2> QED  BY <2>1, <2>2 DEF FirstEntries
<1>5. \A i \in 1 .. n : Text[r[i].src].parses
  BY <1>2, <1>3 DEF Clean, n
<1>6. Apart(r, n)
  <2> SUFFICES ASSUME NEW i \in InFiles(r, n), NEW j \in InFiles(r, n), i # j
               PROVE  r[i].filename # r[j].filename /\ r[i].src # r[j].src
    BY DEF Apart
  <2>1. order[i] \in InFiles(s, n) /\ order[j] \in InFiles(s, n) /\ order[i] # order[j]
    BY <1>2, <1>3 DEF InFiles
  <2>2. r[i] = s[order[i]] /\ r[j] = s[order[j]]
    BY <1>3 DEF InFiles
  <2> QED  BY <2>1, <2>2 DEF Clean, Apart, n
<1> QED
  BY <1>4, <1>5, <1>6 DEF Clean, r, n

LEMMA ReverseIsReordered ==
    ASSUME NEW s \in Seq(Sources)
    PROVE  \E order \in Orders(s) : Reverse(s) = Reordered(s, order)
<1> DEFINE n == Len(s)
           order == [i \in 1 .. n |-> (n - i) + 1]
<1>1. n \in Nat /\ DOMAIN s = 1 .. n /\ Reverse(s) = [i \in 1 .. n |-> s[(n - i) + 1]]
  BY DEF Reverse
<1> HIDE DEF n
<1>2. /\ order \in [1 .. n -> 1 .. n]
      /\ \A i, j \in 1 .. n : order[i] = order[j] => i = j
      /\ \A j \in 1 .. n : order[(n - j) + 1] = j /\ (n - j) + 1 \in 1 .. n
  BY <1>1
<1>3. Reordered(s, order) = Reverse(s)
  BY <1>1 DEF Reordered
<1> HIDE DEF order
<1>4. order \in Orders(s)
  BY <1>1, <1>2 DEF Orders, Bijection, Injection, Surjection, IsInjective
<1> QED
  BY <1>3, <1>4

\* More classes make no errors.
LEMMA CleanStays ==
    ASSUME NEW s, NEW n, NEW classes, NEW more, classes \subseteq more, Clean(s, n, classes)
    PROVE  Clean(s, n, more)
  BY DEF Clean, Compatible, GoodEntry

(***************************************************************************)
(* The blocks of one knowledge base within those of another                *)
(***************************************************************************)

Within(k, l) ==
    /\ \A r \in DOMAIN k.decls :
            /\ r \in DOMAIN l.decls
            /\ \A name \in DOMAIN k.decls[r] :
                    /\ name \in DOMAIN l.decls[r]
                    /\ SameDeclaration(k.decls[r][name], l.decls[r][name])
    /\ \A r \in DOMAIN k.shorthand :
            r \in DOMAIN l.shorthand /\ k.shorthand[r] \subseteq l.shorthand[r]

LEMMA GatheredWithin ==
    ASSUME NEW k, NEW l, NEW D, NEW E, Agree(k), Agree(l), Gathered(k, D), Gathered(l, E),
           D \subseteq E
    PROVE  Within(k, l)
<1>1. BlocksIn(D) \subseteq BlocksIn(E)
  BY DEF BlocksIn, Of
<1>2. \A r : BlocksOn(r, D) \subseteq BlocksOn(r, E)
  BY <1>1 DEF BlocksOn
<1>3. k.resources \subseteq l.resources
  BY <1>1 DEF Gathered
<1>4. ASSUME NEW r \in k.resources, NEW name \in DOMAIN k.decls[r]
      PROVE  /\ name \in DOMAIN l.decls[r]
             /\ SameDeclaration(k.decls[r][name], l.decls[r][name])
  <2>1. PICK b \in BlocksOn(r, D) : name \in DOMAIN IndexDeclarations(b)
    BY <1>4 DEF Gathered
  <2>2. SameDeclaration(k.decls[r][name], IndexDeclarations(b)[name])
    BY <2>1 DEF Gathered
  <2>3. /\ name \in DOMAIN l.decls[r]
        /\ SameDeclaration(l.decls[r][name], IndexDeclarations(b)[name])
    <3>1. r \in l.resources /\ b \in BlocksOn(r, E)
      BY <1>2, <1>3, <2>1
    <3> QED  BY <2>1, <3>1 DEF Gathered
  <2> QED  BY <2>2, <2>3, SameIsEquivalence
<1>5. \A r \in k.resources : k.shorthand[r] \subseteq l.shorthand[r]
  BY <1>2, <1>3 DEF Gathered
<1> QED
  BY <1>3, <1>4, <1>5 DEF Within, Agree

LEMMA DeclaredWithin ==
    ASSUME NEW k, NEW l, Within(k, l), NEW name, NEW r, IsDeclared(name, r, k)
    PROVE  /\ r \in DOMAIN k.decls /\ r \in DOMAIN l.decls /\ name \in DOMAIN k.decls[r]
           /\ IsDeclared(name, r, l)
           /\ SameDeclaration(Declaration(name, r, k), Declaration(name, r, l))
<1>1. r \in DOMAIN k.decls
  <2> SUFFICES ASSUME r \notin DOMAIN k.decls PROVE FALSE
    OBVIOUS
  <2>1. DeclarationsOf(r, k) = <<>>
    BY DEF DeclarationsOf
  <2>2. name \in DOMAIN <<>>
    BY <2>1 DEF IsDeclared
  <2> QED  BY <2>2
<1>2. name \in DOMAIN k.decls[r]
  BY <1>1 DEF IsDeclared, DeclarationsOf
<1> QED
  BY <1>1, <1>2 DEF Within, IsDeclared, DeclarationsOf, Declaration

\* What a name is, it is in both.
LEMMA NamedWithin ==
    ASSUME NEW k, NEW l, Within(k, l), NEW name, NEW r, IsDeclared(name, r, k)
    PROVE  /\ IsDeclared(name, r, l)
           /\ RuleName(name, r, l) = RuleName(name, r, k)
           /\ RelationType(name, r, l) = RelationType(name, r, k)
           /\ IsRelation(name, r, l) <=> IsRelation(name, r, k)
<1>1. IsDeclared(name, r, l) /\ SameDeclaration(Declaration(name, r, k), Declaration(name, r, l))
  BY DeclaredWithin
<1> QED
  BY <1>1 DEF SameDeclaration, RuleName, RelationType, IsRelation

LEMMA ShorthandWithin ==
    ASSUME NEW k, NEW l, Within(k, l), NEW s, NEW r, ShorthandErrors(s, r, k) = {}
    PROVE  ShorthandErrors(s, r, l) = {} /\ AsRule(s, r, l) = AsRule(s, r, k)
<1> DEFINE there == RelationType(s.relation, r, k)
<1>1. /\ IsDeclared(s.head, r, k)
      /\ s.relation = NoRelation => IsDeclared(s.implier, r, k)
      /\ s.relation # NoRelation => /\ s.keyword = "on" /\ IsRelation(s.relation, r, k)
                                    /\ there \in DOMAIN k.decls
                                    /\ IsDeclared(s.implier, there, k)
  BY DEF ShorthandErrors
<1>2. IsDeclared(s.head, r, l) /\ RuleName(s.head, r, l) = RuleName(s.head, r, k)
  BY <1>1, NamedWithin
<1>3. CASE s.relation = NoRelation
  <2>1. IsDeclared(s.implier, r, l) /\ RuleName(s.implier, r, l) = RuleName(s.implier, r, k)
    BY <1>1, <1>3, NamedWithin
  <2> QED  BY <1>2, <1>3, <2>1 DEF ShorthandErrors, AsRule, ShorthandBody
<1>4. CASE s.relation # NoRelation
  <2>1. IsDeclared(s.relation, r, k)
    BY <1>1, <1>4 DEF IsRelation
  <2>2. IsRelation(s.relation, r, l) /\ RelationType(s.relation, r, l) = there
    BY <1>1, <1>4, <2>1, NamedWithin
  <2>3. there \in DOMAIN l.decls
    BY <1>1, <1>4 DEF Within
  <2>4. /\ IsDeclared(s.implier, there, l)
        /\ RuleName(s.implier, there, l) = RuleName(s.implier, there, k)
    BY <1>1, <1>4, NamedWithin
  <2> HIDE DEF there
  <2> QED  BY <1>1, <1>2, <1>4, <2>2, <2>3, <2>4 DEF ShorthandErrors, AsRule, ShorthandBody, there
<1> QED
  BY <1>3, <1>4

LEMMA TuplesWithin ==
    ASSUME NEW k, NEW l, Within(k, l)
    PROVE  /\ AllShorthand(k) \subseteq AllShorthand(l)
           /\ RelationTuples(k) \subseteq RelationTuples(l)
           /\ RequiredTuples(k) \subseteq RequiredTuples(l)
<1>1. AllShorthand(k) \subseteq AllShorthand(l)
  BY DEF AllShorthand, Within
<1>2. \A name, r : IsRelation(name, r, k) =>
            IsRelation(name, r, l) /\ RelationType(name, r, l) = RelationType(name, r, k)
  BY NamedWithin DEF IsRelation
<1> DEFINE tuple(name, r, base) ==
                [subject |-> RelationType(name, r, base), name |-> name, object |-> r]
<1>3. \A name, r : IsRelation(name, r, k) => tuple(name, r, l) = tuple(name, r, k)
  BY <1>2
<1>4. ASSUME NEW t \in RelationTuples(k) PROVE t \in RelationTuples(l)
  <2>0. PICK r \in DOMAIN k.decls : \E name \in DOMAIN k.decls[r] :
            IsRelation(name, r, k) /\ t = tuple(name, r, k)
    BY <1>4 DEF RelationTuples
  <2>1. PICK name \in DOMAIN k.decls[r] : IsRelation(name, r, k) /\ t = tuple(name, r, k)
    BY <2>0
  <2>2. r \in DOMAIN l.decls /\ name \in DOMAIN l.decls[r]
    BY DEF Within
  <2>3. IsRelation(name, r, l) /\ t = tuple(name, r, l)
    BY <1>2, <1>3, <2>1
  <2> QED  BY <2>2, <2>3 DEF RelationTuples
<1> DEFINE along(base) == {p \in AllShorthand(base) : IsRelation(p[2].relation, p[1], base)}
           there(p, base) == RelationType(p[2].relation, p[1], base)
           implying(base) == {p \in along(base) : IsRelation(p[2].implier, there(p, base), base)}
           local(base) == {p \in AllShorthand(base) : /\ p[2].relation = NoRelation
                                                     /\ IsRelation(p[2].implier, p[1], base)}
<1>5. \A base : RequiredTuples(base) =
            {tuple(p[2].relation, p[1], base) : p \in along(base)}
            \cup {tuple(p[2].implier, there(p, base), base) : p \in implying(base)}
            \cup {tuple(p[2].implier, p[1], base) : p \in local(base)}
  BY DEF RequiredTuples
<1>6. along(k) \subseteq along(l) /\ \A p \in along(k) : there(p, l) = there(p, k)
  BY <1>1, <1>2
<1>7. implying(k) \subseteq implying(l)
  BY <1>2, <1>6
<1>8. local(k) \subseteq local(l)
  BY <1>1, <1>2
<1>9. /\ \A p \in along(k) : tuple(p[2].relation, p[1], l) = tuple(p[2].relation, p[1], k)
      /\ \A p \in implying(k) :
            tuple(p[2].implier, there(p, l), l) = tuple(p[2].implier, there(p, k), k)
      /\ \A p \in local(k) : tuple(p[2].implier, p[1], l) = tuple(p[2].implier, p[1], k)
  BY <1>3, <1>6
<1> HIDE DEF tuple, along, there, implying, local
<1>10. RequiredTuples(k) \subseteq RequiredTuples(l)
  BY <1>5, <1>6, <1>7, <1>8, <1>9
<1> QED
  BY <1>1, <1>4, <1>10

(***************************************************************************)
(* The rule types of blocks                                                *)
(***************************************************************************)

Required(types) == {t \in types : t.required}

\* What is asked for and what is required are the same.
SameTypes(A, B) == Heads(A) = Heads(B) /\ Heads(Required(A)) = Heads(Required(B))

LEMMA HeadsOfUnion ==
    ASSUME NEW A, NEW B
    PROVE  /\ Heads(A \cup B) = Heads(A) \cup Heads(B)
           /\ Heads(Required(A \cup B)) = Heads(Required(A)) \cup Heads(Required(B))
  BY DEF Heads, Required

LEMMA SameWithMore ==
    ASSUME NEW A, NEW B, NEW C, SameTypes(A, B)
    PROVE  SameTypes(C \cup A, C \cup B)
<1>1. /\ Heads(C \cup A) = Heads(C) \cup Heads(A)
      /\ Heads(C \cup B) = Heads(C) \cup Heads(B)
      /\ Heads(Required(C \cup A)) = Heads(Required(C)) \cup Heads(Required(A))
      /\ Heads(Required(C \cup B)) = Heads(Required(C)) \cup Heads(Required(B))
  BY HeadsOfUnion
<1> QED
  BY <1>1 DEF SameTypes

LEMMA TypesWithin ==
    ASSUME NEW k, NEW l, Within(k, l)
    PROVE  /\ Heads(ResourceSpecificTypes(k)) \subseteq Heads(ResourceSpecificTypes(l))
           /\ Heads(Required(ResourceSpecificTypes(k)))
                \subseteq Heads(Required(ResourceSpecificTypes(l)))
<1> DEFINE params(t) == <<Bound("subject", Instance(t.subject, {})), Given(Str(t.name)),
                          Bound("object", Instance(t.object, {}))>>
           ofTuple(t, base) == Type("has_relation", params(t), t \in RequiredTuples(base),
                                    Declaration(t.name, t.object, base).first)
           role == Type("has_role",
                        <<Bound("actor", Instance("Actor", {})),
                          Bound("role", Instance("String", {})),
                          Bound("resource", Instance("Resource", {}))>>, TRUE, NoSource)
           roles(base) == {d \in DOMAIN base.decls :
                            \E n \in DOMAIN base.decls[d] : base.decls[d][n].is = "role"}
           types(base) == {ofTuple(t, base) : t \in RelationTuples(base)}
                          \cup {role : d \in roles(base)}
           head(t) == [name |-> "has_relation", params |-> params(t)]
           heads(T) == {head(t) : t \in T}
           roleHead(base) == {[name |-> role.name, params |-> role.params] : d \in roles(base)}
<1>1. \A base : ResourceSpecificTypes(base) = types(base)
  BY DEF ResourceSpecificTypes
<1>2. \A base : roles(base) # {} <=> \E d \in roles(base) : TRUE
  OBVIOUS
<1>3. roles(k) \subseteq roles(l)
  BY DEF Within, SameDeclaration
<1>4. \A t, base : /\ ofTuple(t, base).name = "has_relation" /\ ofTuple(t, base).params = params(t)
                   /\ ofTuple(t, base).required = (t \in RequiredTuples(base))
  BY DEF Type
<1>5. role.required = TRUE
  BY DEF Type
<1> HIDE DEF params, ofTuple, role, roles
<1>6. \A base : Heads(types(base)) = heads(RelationTuples(base)) \cup roleHead(base)
  BY <1>4 DEF Heads
<1>7. \A base : Heads(Required(types(base))) =
            heads(RelationTuples(base) \cap RequiredTuples(base)) \cup roleHead(base)
  <2> SUFFICES ASSUME NEW base
               PROVE  Heads(Required(types(base))) =
                heads(RelationTuples(base) \cap RequiredTuples(base)) \cup roleHead(base)
    OBVIOUS
  <2> DEFINE tuples == RelationTuples(base) \cap RequiredTuples(base)
  <2>1. Required(types(base)) = {ofTuple(t, base) : t \in tuples} \cup {role : d \in roles(base)}
    BY <1>4, <1>5 DEF Required
  <2> HIDE DEF types, tuples
  <2>2. Heads(Required(types(base))) = heads(tuples) \cup roleHead(base)
    BY <1>4, <2>1 DEF Heads
  <2> QED  BY <2>2 DEF tuples
<1> QED
  BY <1>1, <1>3, <1>6, <1>7, TuplesWithin

(***************************************************************************)
(* What is found of a policy                                               *)
(***************************************************************************)

\* A comparison that does not end in an error does not when there are more
\* classes.
LEMMA UnionHasNoError ==
    ASSUME NEW k, NEW l, HasMoreClasses(k, l), NEW rule, NEW type,
           ~IsError(CheckUnion(rule, type, k))
    PROVE  ~IsError(CheckUnion(rule, type, l))
<1> DEFINE Members == GetUnionMembers(type.name, k)
           of(m, base) == CheckSubclass(rule.name, rule.fields, m, type.fields, base)
<1>1. GetUnionMembers(type.name, l) = Members
  BY DEF GetUnionMembers, HasMoreClasses
<1>2. ASSUME ~IsUnion(rule.name), rule.name \notin Members
      PROVE  ~IsError(CheckUnion(rule, type, l))
  <2>1. \A m \in Members : ~IsError(of(m, k))
    BY <1>2 DEF CheckUnion, IsError
  <2>2. \A m \in Members : ~IsError(of(m, l))
    BY <2>1, SubclassStays
  <2> QED  BY <1>1, <1>2, <2>2 DEF CheckUnion, Bool, IsError
<1> QED
  BY <1>1, <1>2 DEF CheckUnion, Bool, IsError

LEMMA PatternHasNoError ==
    ASSUME NEW k, NEW l, HasMoreClasses(k, l), NEW rule, NEW type,
           ~IsError(CheckPatternParam(rule, type, k))
    PROVE  ~IsError(CheckPatternParam(rule, type, l))
<1>1. CASE type.is = "Instance" /\ rule.is = "Instance"
  <2>1. CASE type.name = rule.name
    BY <1>1, <2>1 DEF CheckPatternParam
  <2>2. CASE type.name # rule.name /\ IsUnion(type.name)
    BY <1>1, <2>2, UnionHasNoError DEF CheckPatternParam
  <2>3. CASE type.name # rule.name /\ ~IsUnion(type.name)
    BY <1>1, <2>3, SubclassStays DEF CheckPatternParam
  <2> QED  BY <2>1, <2>2, <2>3
<1>2. CASE ~(type.is = "Instance" /\ rule.is = "Instance")
  BY <1>2 DEF CheckPatternParam
<1> QED
  BY <1>1, <1>2

LEMMA ParamHasNoError ==
    ASSUME NEW k, NEW l, HasMoreClasses(k, l), NEW rule, NEW type,
           ~IsError(CheckParam(rule, type, k))
    PROVE  ~IsError(CheckParam(rule, type, l))
<1>1. \A r, t : ~IsError(CheckPatternParam(r, t, k)) => ~IsError(CheckPatternParam(r, t, l))
  BY PatternHasNoError
<1>2. \A v, t : ~IsError(CheckValueAgainstPattern(v, t, k)) =>
                ~IsError(CheckValueAgainstPattern(v, t, l))
  BY <1>1 DEF CheckValueAgainstPattern
<1> QED
  BY <1>1, <1>2 DEF CheckParam

LEMMA RuleIsInError ==
    ASSUME NEW rule, IsRule(rule), NEW type, NEW k
    PROVE  IsError(RuleParamsMatch(rule, type, k)) <=>
                /\ Len(rule.params) = Len(type.params)
                /\ \E i \in DOMAIN rule.params :
                        IsError(CheckParam(rule.params[i], type.params[i], k))
<1> DEFINE results == [i \in DOMAIN rule.params |->
                        CheckParam(rule.params[i], type.params[i], k)]
           errors == {i \in DOMAIN results : IsError(results[i])}
           first == CHOOSE i \in errors : \A j \in errors : i <= j
<1>1. CASE Len(rule.params) # Len(type.params)
  BY <1>1 DEF RuleParamsMatch, IsError
<1>2. CASE Len(rule.params) = Len(type.params) /\ errors # {}
  <2>1. RuleParamsMatch(rule, type, k) = results[first]
    BY <1>2 DEF RuleParamsMatch
  <2>2. errors \in SUBSET Nat
    BY DEF IsRule
  <2>3. first \in errors
    BY <1>2, <2>2, HasLeast
  <2> QED  BY <1>2, <2>1, <2>3
<1>3. CASE Len(rule.params) = Len(type.params) /\ errors = {}
  <2>1. RuleParamsMatch(rule, type, k) = Bool(\A i \in DOMAIN results : results[i] = "match")
    BY <1>3 DEF RuleParamsMatch
  <2> QED  BY <1>3, <2>1 DEF Bool, IsError
<1> QED
  BY <1>1, <1>2, <1>3

\* No comparison of the rule with a type of its name ends in an error.
Comparable(rule, k) ==
    \A type \in Named(rule.name, k.types) : ~IsError(RuleParamsMatch(rule, type, k))

LEMMA NoResult ==
    ASSUME NEW k, NEW rule
    PROVE  RuleResult(rule, k) = {} <=> Fits(rule, k) /\ Comparable(rule, k)
<1> DEFINE types == Named(rule.name, k.types)
           results == {RuleParamsMatch(rule, type, k) : type \in types}
           failures == {r \in results : IsError(r)}
<1>1. RuleResult(rule, k) = IF failures # {} THEN failures
                            ELSE IF types = {} \/ "match" \in results THEN {}
                            ELSE {"InvalidRule"}
  BY DEF RuleResult
<1>2. Fits(rule, k) <=> types = {} \/ "match" \in results
  BY DEF Fits
<1>3. Comparable(rule, k) <=> failures = {}
  BY DEF Comparable
<1> HIDE DEF types, results, failures
<1> QED
  BY <1>1, <1>2, <1>3

\* What the validation of rules and types and the one of calls ask for.
FitsTypes(k) ==
    /\ \A rule \in k.rules : Fits(rule, k) /\ Comparable(rule, k)
    /\ \A type \in Required(k.types) : Implemented(type, k)

LEMMA NoTypeErrors ==
    ASSUME NEW k
    PROVE  RuleTypeErrors(k) = {} <=> FitsTypes(k)
<1> DEFINE ofRules == UNION {{Diagnostic(kind, SourceOf(kind, rule)) :
                                kind \in RuleResult(rule, k)} : rule \in k.rules}
           missing == {type \in k.types : type.required /\ ~Implemented(type, k)}
           ofTypes == {Diagnostic("MissingRequiredRule",
                            IF type.name = "has_relation" THEN type.at ELSE NoSource) :
                        type \in missing}
<1>1. RuleTypeErrors(k) = IF ofRules # {} THEN ofRules ELSE ofTypes
  BY DEF RuleTypeErrors
<1>2. ofRules = {} <=> \A rule \in k.rules : RuleResult(rule, k) = {}
  <2> SUFFICES ASSUME NEW rule \in k.rules, NEW kind \in RuleResult(rule, k)
               PROVE  ofRules # {}
    OBVIOUS
  <2>1. Diagnostic(kind, SourceOf(kind, rule)) \in ofRules
    OBVIOUS
  <2> QED  BY <2>1
<1>3. ofTypes = {} <=> missing = {}
  OBVIOUS
<1>4. missing = {} <=> \A type \in Required(k.types) : Implemented(type, k)
  BY DEF Required
<1> HIDE DEF ofRules, missing, ofTypes
<1> QED
  BY <1>1, <1>2, <1>3, <1>4, NoResult DEF FitsTypes

\* What the rewriting of the blocks, and what the validation asks for.
Rewritable(k) ==
    /\ \A p \in AllShorthand(k) : ShorthandErrors(p[2], p[1], k) = {}
    /\ \A t \in RelationTuples(k) : t.subject \in DOMAIN k.constants

Valid(k) == Rewritable(k) /\ FitsTypes(k) /\ CallErrors(k) = {}

\* Only the name and the parameters of a rule type are compared.
LEMMA OnlyHeadsMatter ==
    ASSUME NEW A, NEW B, Heads(A) = Heads(B), NEW type \in A
    PROVE  \E t \in B : t.name = type.name /\ t.params = type.params
<1>1. [name |-> type.name, params |-> type.params] \in Heads(B)
  BY DEF Heads
<1>2. PICK t \in B : [name |-> type.name, params |-> type.params]
                        = [name |-> t.name, params |-> t.params]
  BY <1>1 DEF Heads
<1> QED  BY <1>2

LEMMA SameParamsMatch ==
    ASSUME NEW rule, NEW type, NEW t, t.params = type.params, NEW k
    PROVE  RuleParamsMatch(rule, t, k) = RuleParamsMatch(rule, type, k)
  BY DEF RuleParamsMatch

LEMMA FitsStays ==
    ASSUME NEW k, NEW l, HasMoreClasses(k, l), l.rules = k.rules, SameTypes(k.types, l.types),
           \A rule \in k.rules : IsRule(rule), FitsTypes(k)
    PROVE  FitsTypes(l)
<1>1. ASSUME NEW rule, IsRule(rule), NEW type, NEW t, t.params = type.params
      PROVE  /\ RuleParamsMatch(rule, type, k) = "match" => RuleParamsMatch(rule, t, l) = "match"
             /\ ~IsError(RuleParamsMatch(rule, type, k)) => ~IsError(RuleParamsMatch(rule, t, l))
  <2>1. RuleParamsMatch(rule, t, l) = RuleParamsMatch(rule, type, l)
    BY <1>1, SameParamsMatch
  <2>2. RuleParamsMatch(rule, type, k) = "match" => RuleParamsMatch(rule, type, l) = "match"
    BY <1>1, RuleStays
  <2>3. ~IsError(RuleParamsMatch(rule, type, k)) => ~IsError(RuleParamsMatch(rule, type, l))
    BY <1>1, RuleIsInError, ParamHasNoError
  <2> QED  BY <2>1, <2>2, <2>3
<1>2. ASSUME NEW rule \in l.rules
      PROVE  Fits(rule, l) /\ Comparable(rule, l)
  <2>1. IsRule(rule) /\ Fits(rule, k) /\ Comparable(rule, k)
    BY <1>2 DEF FitsTypes
  <2>2. ASSUME NEW t \in Named(rule.name, l.types) PROVE ~IsError(RuleParamsMatch(rule, t, l))
    <3>1. PICK type \in k.types : type.name = t.name /\ type.params = t.params
      BY OnlyHeadsMatter DEF SameTypes, Named
    <3>2. ~IsError(RuleParamsMatch(rule, type, k))
      BY <2>1, <3>1 DEF Comparable, Named
    <3> QED  BY <1>1, <2>1, <3>1, <3>2
  <2>3. CASE Named(rule.name, k.types) = {}
    <3>1. ASSUME NEW t \in Named(rule.name, l.types) PROVE FALSE
      <4>1. PICK type \in k.types : type.name = t.name /\ type.params = t.params
        BY OnlyHeadsMatter DEF SameTypes, Named
      <4> QED  BY <2>3, <4>1 DEF Named
    <3> QED  BY <2>2, <3>1 DEF Fits, Comparable
  <2>4. CASE Named(rule.name, k.types) # {}
    <3>1. PICK type \in Named(rule.name, k.types) : RuleParamsMatch(rule, type, k) = "match"
      BY <2>1, <2>4 DEF Fits
    <3>2. PICK t \in l.types : t.name = type.name /\ t.params = type.params
      BY OnlyHeadsMatter DEF SameTypes, Named
    <3>3. RuleParamsMatch(rule, t, l) = "match"
      BY <1>1, <2>1, <3>1, <3>2
    <3> QED  BY <2>2, <3>1, <3>2, <3>3 DEF Fits, Comparable, Named
  <2> QED  BY <2>3, <2>4
<1>3. ASSUME NEW t \in Required(l.types)
      PROVE  Implemented(t, l)
  <2>1. PICK type \in Required(k.types) : type.name = t.name /\ type.params = t.params
    BY OnlyHeadsMatter DEF SameTypes
  <2>2. PICK rule \in Named(type.name, k.rules) : RuleParamsMatch(rule, type, k) = "match"
    BY <2>1 DEF FitsTypes, Implemented
  <2>3. IsRule(rule) /\ rule \in Named(t.name, l.rules)
    BY <2>1, <2>2 DEF Named
  <2>4. RuleParamsMatch(rule, t, l) = "match"
    BY <1>1, <2>1, <2>2, <2>3
  <2> QED  BY <2>3, <2>4 DEF Implemented
<1> QED
  BY <1>2, <1>3 DEF FitsTypes

LEMMA RewritableStays ==
    ASSUME NEW k, NEW l, Within(k, l), Within(l, k),
           \A c \in DOMAIN k.constants : c \in DOMAIN l.constants, Rewritable(k)
    PROVE  Rewritable(l)
<1>1. AllShorthand(l) \subseteq AllShorthand(k) /\ RelationTuples(l) \subseteq RelationTuples(k)
  BY TuplesWithin
<1>2. \A p \in AllShorthand(l) : ShorthandErrors(p[2], p[1], l) = {}
  BY <1>1, ShorthandWithin DEF Rewritable
<1> QED
  BY <1>1, <1>2 DEF Rewritable

\* A policy without errors is one with more classes, and with the same blocks,
\* rules and types, wherever they are from.
LEMMA ValidStays ==
    ASSUME NEW k, NEW l, HasMoreClasses(k, l), Within(k, l), Within(l, k),
           l.rules = k.rules, SameTypes(k.types, l.types),
           \A rule \in k.rules : IsRule(rule), Valid(k)
    PROVE  Valid(l)
<1>1. Rewritable(l)
  BY RewritableStays DEF Valid, HasMoreClasses
<1>2. FitsTypes(l)
  BY FitsStays DEF Valid
<1>3. CallErrors(l) = {}
  BY DEF Valid, CallErrors, Defined
<1> QED
  BY <1>1, <1>2, <1>3 DEF Valid

(***************************************************************************)
(* What is made of the blocks, and a load without errors                   *)
(***************************************************************************)

BlockRules(k) == {AsRule(p[2], p[1], k) : p \in AllShorthand(k)}

\* With the rules and the types that its blocks stand for.
Completed(k) == WithTypes(RewriteShorthandRules(k).kb)

SameParts(k, l) ==
    /\ l.decls = k.decls /\ l.shorthand = k.shorthand
    /\ l.actors = k.actors /\ l.resources = k.resources
    /\ l.constants = k.constants /\ l.mro = k.mro
    /\ l.files = k.files /\ l.contents = k.contents

LEMMA SamePartsWithin ==
    ASSUME NEW k, NEW l, SameParts(k, l)
    PROVE  Within(k, l) /\ Within(l, k)
  BY SameIsEquivalence DEF SameParts, Within

LEMMA RewrittenParts ==
    ASSUME NEW k, IsKb(k)
    PROVE  LET l == RewriteShorthandRules(k).kb
           IN  /\ IsKb(l) /\ SameParts(k, l) /\ l.types = k.types
               /\ Rewritable(k) => l.rules = k.rules \cup BlockRules(k)
<1> DEFINE l == RewriteShorthandRules(k).kb
           good == {p \in AllShorthand(k) : ShorthandErrors(p[2], p[1], k) = {}}
           rules == {AsRule(p[2], p[1], k) : p \in good}
<1>1. l = [k EXCEPT !.rules = @ \cup rules]
  BY DEF RewriteShorthandRules
<1>2. Rewritable(k) => rules = BlockRules(k)
  <2>1. Rewritable(k) => good = AllShorthand(k)
    BY DEF Rewritable
  <2> HIDE DEF good
  <2> QED  BY <2>1 DEF BlockRules
<1> HIDE DEF l, rules
<1>3. /\ IsKb(l) /\ l.rules = k.rules \cup rules /\ l.types = k.types
      /\ l.decls = k.decls /\ l.shorthand = k.shorthand
      /\ l.actors = k.actors /\ l.resources = k.resources
      /\ l.constants = k.constants /\ l.mro = k.mro
      /\ l.files = k.files /\ l.contents = k.contents
  BY <1>1 DEF IsKb
<1> QED
  BY <1>2, <1>3 DEF SameParts, l

LEMMA CompletedParts ==
    ASSUME NEW k, IsKb(k)
    PROVE  /\ SameParts(k, Completed(k)) /\ k.types \subseteq Completed(k).types
           /\ SameTypes(Completed(k).types, k.types \cup ResourceSpecificTypes(k))
           /\ Rewritable(k) => Completed(k).rules = k.rules \cup BlockRules(k)
<1> DEFINE r == RewriteShorthandRules(k).kb
           types == ResourceSpecificTypes(r)
           l == Completed(k)
<1>1. /\ IsKb(r) /\ SameParts(k, r) /\ r.types = k.types
      /\ Rewritable(k) => r.rules = k.rules \cup BlockRules(k)
  BY RewrittenParts
<1>2. l = [r EXCEPT !.types = @ \cup types]
  BY DEF Completed, WithTypes
<1>3. SameTypes(types, ResourceSpecificTypes(k))
  <2>1. Within(k, r) /\ Within(r, k)
    BY <1>1, SamePartsWithin
  <2>2. /\ Heads(ResourceSpecificTypes(k)) \subseteq Heads(types)
        /\ Heads(Required(ResourceSpecificTypes(k))) \subseteq Heads(Required(types))
    BY <2>1, TypesWithin
  <2>3. /\ Heads(types) \subseteq Heads(ResourceSpecificTypes(k))
        /\ Heads(Required(types)) \subseteq Heads(Required(ResourceSpecificTypes(k)))
    BY <2>1, TypesWithin
  <2> QED  BY <2>2, <2>3 DEF SameTypes
<1> HIDE DEF r, types, l
<1>4. SameParts(r, l) /\ l.types = r.types \cup types /\ l.rules = r.rules
  BY <1>1, <1>2 DEF IsKb, SameParts
<1>5. SameTypes(k.types \cup types, k.types \cup ResourceSpecificTypes(k))
  BY <1>3, SameWithMore
<1> QED
  BY <1>1, <1>4, <1>5 DEF SameParts, l

LEMMA RewritingErrors ==
    ASSUME NEW k
    PROVE  Errors(RewriteShorthandRules(k).diagnostics) = {} <=> Rewritable(k)
<1> DEFINE failing == UNION {ShorthandErrors(p[2], p[1], k) : p \in AllShorthand(k)}
           unregistered == {t \in RelationTuples(k) : t.subject \notin DOMAIN k.constants}
           missing == {Diagnostic("UnregisteredClass", Declaration(t.name, t.object, k).at) :
                            t \in unregistered}
<1>1. RewriteShorthandRules(k).diagnostics = failing \cup missing
  BY DEF RewriteShorthandRules
<1>2. \A d \in failing : d.kind = "ResourceBlock"
  BY DEF ShorthandErrors, BlockError, Diagnostic
<1>3. \A d \in missing : d.kind = "UnregisteredClass"
  BY DEF Diagnostic
<1>4. failing = {} <=> \A p \in AllShorthand(k) : ShorthandErrors(p[2], p[1], k) = {}
  OBVIOUS
<1>5. missing = {} <=> \A t \in RelationTuples(k) : t.subject \in DOMAIN k.constants
  OBVIOUS
<1> HIDE DEF failing, missing
<1>6. Errors(failing \cup missing) = failing \cup missing
  BY <1>2, <1>3 DEF Errors, Warnings
<1> QED
  BY <1>1, <1>4, <1>5, <1>6 DEF Rewritable

\* A load without errors has completed what its sources make, which is valid.
LEMMA LoadIsValid ==
    ASSUME NEW base, NEW sources, NEW added,
           added = LoadSources([kb |-> base, diagnostics |-> {}], sources),
           Consistent(added.kb, base),
           NEW result \in DiagnosticLoad(base, sources), Errors(result.diagnostics) = {}
    PROVE  /\ Errors(added.diagnostics) = {} /\ Consistent(result.kb, base)
           /\ result.kb = Completed(added.kb) /\ Valid(result.kb)
<1> DEFINE rewritten == WithBlocks(added)
           typed == [rewritten EXCEPT !.kb = WithTypes(@)]
           blocks == RewriteShorthandRules(added.kb)
<1>1. ~Unrecoverable(result.diagnostics)
  BY DEF Unrecoverable, Errors, Warnings
<1>2. result \in Validated(typed)
  BY <1>1 DEF DiagnosticLoad, RewrittenUnless, ValidatedUnless
<1> HIDE DEF blocks
<1>3. rewritten = [kb |-> blocks.kb, diagnostics |-> added.diagnostics \cup blocks.diagnostics]
  BY DEF WithBlocks, Add, blocks
<1> HIDE DEF rewritten
<1>4. /\ typed.kb = Completed(added.kb)
      /\ typed.diagnostics = added.diagnostics \cup blocks.diagnostics
  BY <1>3 DEF Completed, blocks
<1> HIDE DEF typed
<1> DEFINE errors == RuleTypeErrors(typed.kb)
           rest == CallErrors(typed.kb) \cup PolicyWarnings(typed.kb)
<1>5. PICK first \in IF errors = {} THEN {{}} ELSE {{e} : e \in errors} :
            result = Add(typed, typed.kb, rest \cup first)
  BY <1>2 DEF Validated
<1>6. result.kb = typed.kb /\ result.diagnostics = typed.diagnostics \cup (rest \cup first)
  BY <1>5 DEF Add
<1> HIDE DEF errors, rest
<1>7. /\ Errors(added.diagnostics) = {} /\ Errors(blocks.diagnostics) = {}
      /\ Errors(rest) = {} /\ Errors(first) = {}
  <2>1. \A D : D \subseteq result.diagnostics => Errors(D) = {}
    BY DEF Errors
  <2>2. /\ added.diagnostics \subseteq result.diagnostics
        /\ blocks.diagnostics \subseteq result.diagnostics
        /\ rest \subseteq result.diagnostics /\ first \subseteq result.diagnostics
    BY <1>4, <1>6
  <2> QED  BY <2>1, <2>2
<1>8. Consistent(typed.kb, base)
  BY <1>4, BlocksKeep, WithTypesKeeps DEF Completed
<1>9. errors = {}
  <2> SUFFICES ASSUME NEW e \in errors PROVE FALSE
    OBVIOUS
  <2>1. PICK d \in errors : first = {d}
    BY <1>5
  <2>2. d.kind \notin Warnings
    BY <1>8, UnfitIsReported DEF Consistent, errors
  <2> QED  BY <1>7, <2>1, <2>2 DEF Errors
<1>10. CallErrors(typed.kb) = {}
  <2>1. \A d \in CallErrors(typed.kb) : d.kind = "UndefinedRuleCall"
    BY DEF CallErrors, Diagnostic
  <2>2. \A d \in CallErrors(typed.kb) : d \in rest
    BY DEF rest
  <2> QED  BY <1>7, <2>1, <2>2 DEF Errors, Warnings
<1>11. Rewritable(typed.kb)
  <2>1. Rewritable(added.kb)
    BY <1>7, RewritingErrors DEF blocks
  <2>2. SameParts(added.kb, typed.kb)
    BY <1>4, CompletedParts DEF Consistent
  <2> QED  BY <2>1, <2>2, SamePartsWithin, RewritableStays DEF SameParts
<1>12. FitsTypes(typed.kb)
  BY <1>9, NoTypeErrors DEF errors
<1> QED
  BY <1>4, <1>6, <1>7, <1>8, <1>10, <1>11, <1>12 DEF Valid

\* And if what they make is valid when it is completed, there are no errors.
LEMMA ValidIsLoaded ==
    ASSUME NEW base, NEW sources, NEW added,
           added = LoadSources([kb |-> base, diagnostics |-> {}], sources),
           Consistent(added.kb, base), Errors(added.diagnostics) = {},
           Valid(Completed(added.kb))
    PROVE  \E result \in DiagnosticLoad(base, sources) :
                Errors(result.diagnostics) = {} /\ result.kb = Completed(added.kb)
<1> DEFINE rewritten == WithBlocks(added)
           typed == [rewritten EXCEPT !.kb = WithTypes(@)]
           blocks == RewriteShorthandRules(added.kb)
           k == Completed(added.kb)
           result == Add(typed, k, PolicyWarnings(k))
<1> HIDE DEF blocks, k
<1>1. rewritten = [kb |-> blocks.kb, diagnostics |-> added.diagnostics \cup blocks.diagnostics]
  BY DEF WithBlocks, Add, blocks
<1>2. Errors(blocks.diagnostics) = {}
  <2>1. SameParts(added.kb, k)
    BY CompletedParts DEF Consistent, k
  <2>2. Rewritable(added.kb)
    BY <2>1, SamePartsWithin, RewritableStays DEF SameParts, Valid, k
  <2> QED  BY <2>2, RewritingErrors DEF blocks
<1>3. /\ typed.kb = k /\ typed.diagnostics = rewritten.diagnostics
      /\ Errors(rewritten.diagnostics) = {}
  <2>1. /\ rewritten.kb = blocks.kb
        /\ rewritten.diagnostics = added.diagnostics \cup blocks.diagnostics
    BY <1>1
  <2>2. Errors(rewritten.diagnostics) = {}
    <3>1. Errors(added.diagnostics \cup blocks.diagnostics)
            = Errors(added.diagnostics) \cup Errors(blocks.diagnostics)
      BY ErrorsOfUnion
    <3> QED  BY <1>2, <2>1, <3>1
  <2>3. typed.kb = WithTypes(rewritten.kb) /\ typed.diagnostics = rewritten.diagnostics
    BY <1>1
  <2> QED  BY <2>1, <2>2, <2>3 DEF Completed, blocks, k
<1> HIDE DEF rewritten, typed
<1>4. RuleTypeErrors(k) = {} /\ CallErrors(k) = {}
  BY NoTypeErrors DEF Valid, k
<1>5. result \in Validated(typed)
  <2>1. (CallErrors(k) \cup PolicyWarnings(k)) \cup {} = PolicyWarnings(k)
    BY <1>4
  <2>2. result = Add(typed, typed.kb, (CallErrors(typed.kb) \cup PolicyWarnings(typed.kb)) \cup {})
    BY <1>3, <2>1
  <2> QED  BY <1>3, <1>4, <2>2 DEF Validated
<1>6. Errors(result.diagnostics) = {} /\ result.kb = k
  <2>1. Errors(PolicyWarnings(k)) = {}
    BY DEF PolicyWarnings, Errors, Diagnostic, Warnings
  <2> QED  BY <1>3, <2>1, ErrorsOfUnion DEF Add
<1>7. result \in DiagnosticLoad(base, sources)
  <2>1. ~Unrecoverable(added.diagnostics) /\ ~Unrecoverable(rewritten.diagnostics)
    BY <1>3 DEF Unrecoverable, Errors, Warnings
  <2> HIDE DEF result
  <2>2. result \in ValidatedUnless(rewritten)
    BY <1>5, <2>1 DEF ValidatedUnless, typed
  <2> QED  BY <2>1, <2>2 DEF DiagnosticLoad, RewrittenUnless, rewritten
<1> QED
  BY <1>6, <1>7 DEF k

(***************************************************************************)
(* The policy that a knowledge base holds                                  *)
(***************************************************************************)

LEMMA SameBlockRules ==
    ASSUME NEW k, NEW l, Within(k, l), Within(l, k), Rewritable(k)
    PROVE  BlockRules(l) = BlockRules(k)
<1>1. AllShorthand(k) \subseteq AllShorthand(l)
  BY TuplesWithin
<1>2. AllShorthand(l) \subseteq AllShorthand(k)
  BY TuplesWithin
<1>3. \A p \in AllShorthand(k) : AsRule(p[2], p[1], l) = AsRule(p[2], p[1], k)
  BY ShorthandWithin DEF Rewritable
<1> QED
  BY <1>1, <1>2, <1>3 DEF BlockRules

LEMMA SameBlockTypes ==
    ASSUME NEW k, NEW l, Within(k, l), Within(l, k)
    PROVE  SameTypes(ResourceSpecificTypes(k), ResourceSpecificTypes(l))
<1>1. /\ Heads(ResourceSpecificTypes(k)) \subseteq Heads(ResourceSpecificTypes(l))
      /\ Heads(Required(ResourceSpecificTypes(k)))
            \subseteq Heads(Required(ResourceSpecificTypes(l)))
  BY TypesWithin
<1>2. /\ Heads(ResourceSpecificTypes(l)) \subseteq Heads(ResourceSpecificTypes(k))
      /\ Heads(Required(ResourceSpecificTypes(l)))
            \subseteq Heads(Required(ResourceSpecificTypes(k)))
  BY TypesWithin
<1> QED
  BY <1>1, <1>2 DEF SameTypes

\* Of the sources s and nothing else: what their lines say and what their
\* blocks stand for, on top of the rule types that there are in any case.
Says(k, types, s, n) ==
    LET D == FirstEntries(s, n)
    IN  /\ Gathered(k, D)
        /\ k.files = FilesOf(s, n) /\ k.contents = ContentsOf(s, n)
        /\ k.rules = RulesIn(D) \cup BlockRules(k)
        /\ TypesIn(D) \subseteq k.types
        /\ SameTypes(k.types, (types \cup TypesIn(D)) \cup ResourceSpecificTypes(k))

Policy(k, s) ==
    /\ Says(k, DefaultTypes, s, Len(s))
    /\ Clean(s, Len(s), DOMAIN k.constants) /\ Valid(k)

LEMMA SameIsGathered ==
    ASSUME NEW k, NEW l, NEW D, SameParts(k, l), Gathered(k, D)
    PROVE  Gathered(l, D)
  BY SameBlocks DEF SameParts

LEMMA CompletedSays ==
    ASSUME NEW k, NEW base, NEW s, NEW n, LoadingFirst(k, base, s, n), Rewritable(k)
    PROVE  SameParts(k, Completed(k)) /\ Says(Completed(k), base.types, s, n)
<1> DEFINE l == Completed(k)
           D == FirstEntries(s, n)
           types == base.types \cup TypesIn(D)
<1>1. /\ IsKb(k) /\ Gathered(k, D) /\ k.rules = RulesIn(D) /\ k.types = types
      /\ k.files = FilesOf(s, n) /\ k.contents = ContentsOf(s, n)
  BY DEF LoadingFirst, Loading, Consistent
<1>2. /\ SameParts(k, l) /\ k.types \subseteq l.types
      /\ SameTypes(l.types, k.types \cup ResourceSpecificTypes(k))
      /\ l.rules = k.rules \cup BlockRules(k)
  BY <1>1, CompletedParts
<1>3. Within(k, l) /\ Within(l, k)
  BY <1>2, SamePartsWithin
<1>4. BlockRules(l) = BlockRules(k)
  BY <1>3, SameBlockRules
<1>5. SameTypes(types \cup ResourceSpecificTypes(k), types \cup ResourceSpecificTypes(l))
  BY <1>3, SameBlockTypes, SameWithMore
<1>6. Gathered(l, D)
  BY <1>1, <1>2, SameIsGathered
<1>7. l.files = FilesOf(s, n) /\ l.contents = ContentsOf(s, n)
  BY <1>1, <1>2 DEF SameParts
<1>8. TypesIn(D) \subseteq l.types
  BY <1>1, <1>2
<1> HIDE DEF l, D, types
<1>9. SameTypes(l.types, types \cup ResourceSpecificTypes(l))
  BY <1>1, <1>2, <1>5 DEF SameTypes
<1> QED
  BY <1>1, <1>2, <1>4, <1>6, <1>7, <1>8, <1>9 DEF Says, l, D, types

\* No policy at all.
LEMMA NothingIsPolicy ==
    ASSUME NEW k, k.rules = {}, k.types = DefaultTypes, k.decls = <<>>, k.shorthand = <<>>,
           k.actors = {}, k.resources = {}, k.files = {}, k.contents = {}
    PROVE  Policy(k, <<>>)
<1>1. /\ FirstEntries(<<>>, 0) = {} /\ InFiles(<<>>, 0) = {}
      /\ FilesOf(<<>>, 0) = {} /\ ContentsOf(<<>>, 0) = {}
  BY DEF FirstEntries, InFiles, FilesOf, ContentsOf
<1>2. BlocksIn({}) = {} /\ RulesIn({}) = {} /\ TypesIn({}) = {}
  BY DEF BlocksIn, RulesIn, TypesIn, Of
<1>3. DOMAIN k.decls = {} /\ DOMAIN k.shorthand = {}
  OBVIOUS
<1>4. AllShorthand(k) = {} /\ RelationTuples(k) = {} /\ ResourceSpecificTypes(k) = {}
  <2>1. AllShorthand(k) = {}
    BY <1>3 DEF AllShorthand
  <2>2. RelationTuples(k) = {}
    BY <1>3 DEF RelationTuples
  <2> QED  BY <1>3, <2>1, <2>2 DEF ResourceSpecificTypes
<1>5. Gathered(k, {})
  BY <1>2 DEF Gathered
<1>6. Says(k, DefaultTypes, <<>>, 0)
  <2>1. BlockRules(k) = {}
    BY <1>4 DEF BlockRules
  <2>2. SameTypes(k.types, (DefaultTypes \cup {}) \cup {})
    BY DEF SameTypes
  <2> QED  BY <1>1, <1>2, <1>4, <1>5, <2>1, <2>2 DEF Says
<1>7. Clean(<<>>, 0, DOMAIN k.constants)
  <2>1. Apart(<<>>, 0)
    BY <1>1 DEF Apart
  <2>2. Compatible({}, DOMAIN k.constants)
    BY <1>2 DEF Compatible
  <2>3. \A i \in 1 .. 0 : FALSE
    OBVIOUS
  <2> QED  BY <1>1, <2>1, <2>2, <2>3 DEF Clean
<1>8. Valid(k)
  <2>1. Required(k.types) = {}
    BY DEF Required, DefaultTypes, Type
  <2> QED  BY <1>4, <2>1 DEF Valid, Rewritable, FitsTypes, CallErrors
<1> QED
  BY <1>6, <1>7, <1>8 DEF Policy

\* A policy is the same when more classes are registered.
LEMMA PolicyStays ==
    ASSUME NEW k, NEW l, NEW s, Policy(k, s), HasMoreClasses(k, l),
           \A rule \in k.rules : IsRule(rule),
           l.rules = k.rules, l.types = k.types, l.decls = k.decls, l.shorthand = k.shorthand,
           l.files = k.files, l.contents = k.contents
    PROVE  Policy(l, s)
<1> DEFINE n == Len(s)
           D == FirstEntries(s, n)
           types == DefaultTypes \cup TypesIn(D)
<1>1. /\ Gathered(k, D) /\ k.files = FilesOf(s, n) /\ k.contents = ContentsOf(s, n)
      /\ k.rules = RulesIn(D) \cup BlockRules(k) /\ TypesIn(D) \subseteq k.types
      /\ SameTypes(k.types, types \cup ResourceSpecificTypes(k))
      /\ Clean(s, n, DOMAIN k.constants) /\ Valid(k)
  BY DEF Policy, Says
<1>2. Within(k, l) /\ Within(l, k)
  BY SameIsEquivalence DEF Within
<1>3. BlockRules(l) = BlockRules(k)
  BY <1>1, <1>2, SameBlockRules DEF Valid
<1>4. SameTypes(types \cup ResourceSpecificTypes(k), types \cup ResourceSpecificTypes(l))
  BY <1>2, SameBlockTypes, SameWithMore
<1>5. Gathered(l, D)
  BY <1>1, SameBlocks DEF HasMoreClasses
<1>6. Clean(s, n, DOMAIN l.constants)
  BY <1>1, CleanStays DEF HasMoreClasses
<1>7. Valid(l)
  <2>1. SameTypes(k.types, l.types)
    BY DEF SameTypes
  <2> QED  BY <1>1, <1>2, <2>1, ValidStays
<1> HIDE DEF n, D, types
<1>8. SameTypes(l.types, types \cup ResourceSpecificTypes(l))
  BY <1>1, <1>4 DEF SameTypes
<1> QED
  BY <1>1, <1>3, <1>5, <1>6, <1>7, <1>8 DEF Policy, Says, n, D, types

\* Where a load starts.
LEMMA LoadStarts ==
    ASSUME NEW k, Consistent(k, k), k.rules = {}, NEW t, Policy(k, t), Len(t) \in Nat,
           NEW s, \A i \in 1 .. Len(t) : s[i] = t[i]
    PROVE  LoadingFirst(k, k, s, Len(t)) /\ Clean(s, Len(t), DOMAIN k.constants)
<1> DEFINE m == Len(t)
<1>1. FirstEntries(s, m) = FirstEntries(t, m)
  BY DEF FirstEntries
<1>2. InFiles(s, m) = InFiles(t, m) /\ \A i \in InFiles(t, m) : s[i] = t[i]
  BY DEF InFiles
<1>3. FilesOf(s, m) = FilesOf(t, m) /\ ContentsOf(s, m) = ContentsOf(t, m)
  BY <1>2 DEF FilesOf, ContentsOf
<1>4. Says(k, DefaultTypes, t, m) /\ Clean(t, m, DOMAIN k.constants)
  BY DEF Policy
<1>5. \A i \in 1 .. m : s[i] = t[i]
  OBVIOUS
<1> HIDE DEF m
<1>6. Clean(s, m, DOMAIN k.constants)
  <2>1. Apart(s, m)
    BY <1>2, <1>4 DEF Clean, Apart
  <2> QED  BY <1>1, <1>4, <1>5, <2>1 DEF Clean
<1>7. Loading(k, k, FirstEntries(s, m), FilesOf(s, m), ContentsOf(s, m))
  <2> DEFINE D == FirstEntries(t, m)
  <2>1. RulesIn(D) = {} /\ k.types = k.types \cup TypesIn(D)
    BY <1>4 DEF Says
  <2> QED  BY <1>1, <1>3, <1>4, <2>1 DEF Says, Loading
<1> QED
  BY <1>6, <1>7 DEF LoadingFirst, m

LEMMA LoadedSources ==
    ASSUME NEW base, Consistent(base, base), NEW sources \in Seq(Sources), NEW s, NEW m \in Nat,
           LoadingFirst(base, base, s, m), Clean(s, m, DOMAIN base.constants),
           \A i \in 1 .. Len(sources) : sources[i] = s[m + i],
           NEW added, added = LoadSources([kb |-> base, diagnostics |-> {}], sources)
    PROVE  /\ Consistent(added.kb, base)
           /\ Errors(added.diagnostics) = {} <=>
                    Clean(s, m + Len(sources), DOMAIN base.constants)
           /\ Clean(s, m + Len(sources), DOMAIN base.constants) =>
                    LoadingFirst(added.kb, base, s, m + Len(sources))
<1> DEFINE start == [kb |-> base, diagnostics |-> {}]
<1>1. /\ Len(sources) \in Nat /\ DOMAIN sources = 1 .. Len(sources)
      /\ \A i \in DOMAIN sources : IsSource(sources[i])
  BY KbAssumption DEF IsSource
<1>2. start.kb = base /\ Errors(start.diagnostics) = {}
  BY DEF Errors
<1> HIDE DEF start
<1>3. Consistent(LoadSources(start, sources).kb, base)
  BY <1>1, <1>2, LoadSourcesKeeps
<1>4. LoadsFirst(start, LoadSources(start, sources), base, s, m + Len(sources))
  BY <1>1, <1>2, SourcesLoad
<1> QED
  BY <1>2, <1>3, <1>4 DEF LoadsFirst, start

LEMMA TypesOnTop ==
    ASSUME NEW A, NEW B, NEW T, NEW more, NEW R, NEW S, T \subseteq more,
           SameTypes(A, (B \cup T) \cup R), Heads(R) \subseteq Heads(S),
           Heads(Required(R)) \subseteq Heads(Required(S))
    PROVE  SameTypes((A \cup more) \cup S, (B \cup more) \cup S)
<1> DEFINE old == B \cup T
           new == A \cup more
           all == B \cup more
<1>1. Heads(T) \subseteq Heads(more) /\ Heads(Required(T)) \subseteq Heads(Required(more))
  BY DEF Heads, Required
<1>2. /\ Heads(old) = Heads(B) \cup Heads(T)
      /\ Heads(Required(old)) = Heads(Required(B)) \cup Heads(Required(T))
      /\ Heads(new) = Heads(A) \cup Heads(more)
      /\ Heads(Required(new)) = Heads(Required(A)) \cup Heads(Required(more))
      /\ Heads(all) = Heads(B) \cup Heads(more)
      /\ Heads(Required(all)) = Heads(Required(B)) \cup Heads(Required(more))
  BY HeadsOfUnion
<1> HIDE DEF old, new, all
<1>3. /\ Heads(old \cup R) = Heads(old) \cup Heads(R)
      /\ Heads(Required(old \cup R)) = Heads(Required(old)) \cup Heads(Required(R))
      /\ Heads(new \cup S) = Heads(new) \cup Heads(S)
      /\ Heads(Required(new \cup S)) = Heads(Required(new)) \cup Heads(Required(S))
      /\ Heads(all \cup S) = Heads(all) \cup Heads(S)
      /\ Heads(Required(all \cup S)) = Heads(Required(all)) \cup Heads(Required(S))
  BY HeadsOfUnion
<1>4. Heads(A) = Heads(old \cup R) /\ Heads(Required(A)) = Heads(Required(old \cup R))
  BY DEF SameTypes, old
<1>5. Heads(new \cup S) = Heads(all \cup S)
  BY <1>1, <1>2, <1>3, <1>4
<1>6. Heads(Required(new \cup S)) = Heads(Required(all \cup S))
  BY <1>1, <1>2, <1>3, <1>4
<1> QED
  BY <1>5, <1>6 DEF SameTypes, new, all

\* A load without errors adds its sources to those of the policy.
LEMMA PolicyLoads ==
    ASSUME NEW k, Consistent(k, k), k.rules = {}, NEW t \in Seq(Sources), Policy(k, t),
           NEW sources \in Seq(Sources), NEW result \in DiagnosticLoad(k, sources),
           Errors(result.diagnostics) = {}
    PROVE  Policy(result.kb, t \o sources)
<1> DEFINE s == t \o sources
           m == Len(t)
           n == m + Len(sources)
           D == FirstEntries(s, n)
           classes == DOMAIN k.constants
           added == LoadSources([kb |-> k, diagnostics |-> {}], sources)
           l == result.kb
<1>1. /\ m \in Nat /\ n \in Nat /\ m <= n /\ Len(s) = n
      /\ \A i \in 1 .. m : s[i] = t[i]
      /\ \A i \in 1 .. Len(sources) : sources[i] = s[m + i]
  OBVIOUS
<1>2. LoadingFirst(k, k, s, m) /\ Clean(s, m, classes)
  BY <1>1, LoadStarts
<1> HIDE DEF s, m
<1>3. /\ Consistent(added.kb, k) /\ (Errors(added.diagnostics) = {} <=> Clean(s, n, classes))
      /\ Clean(s, n, classes) => LoadingFirst(added.kb, k, s, n)
  BY <1>1, <1>2, LoadedSources
<1> HIDE DEF n, classes
<1>4. /\ Errors(added.diagnostics) = {} /\ l = Completed(added.kb) /\ Consistent(l, k) /\ Valid(l)
  BY <1>3, LoadIsValid
<1>5. Clean(s, n, classes) /\ LoadingFirst(added.kb, k, s, n)
  BY <1>3, <1>4
<1> HIDE DEF added, l
<1>6. Rewritable(added.kb)
  <2>1. SameParts(added.kb, l)
    BY <1>3, <1>4, CompletedParts DEF Consistent
  <2> QED  BY <1>4, <2>1, SamePartsWithin, RewritableStays DEF SameParts, Valid
<1>7. Says(l, k.types, s, n)
  BY <1>4, <1>5, <1>6, CompletedSays
<1>8. Says(l, DefaultTypes, s, n)
  <2> DEFINE E == FirstEntries(t, m)
             R == ResourceSpecificTypes(k)
             S == ResourceSpecificTypes(l)
  <2>1. /\ Gathered(k, E) /\ SameTypes(k.types, (DefaultTypes \cup TypesIn(E)) \cup R)
    BY DEF Policy, Says, m
  <2>2. E \subseteq D
    <3>1. \A i \in 1 .. m : i \in 1 .. n /\ s[i] = t[i]
      BY <1>1
    <3> QED  BY <3>1 DEF FirstEntries
  <2>3. Gathered(l, D) /\ SameTypes(l.types, (k.types \cup TypesIn(D)) \cup S)
    BY <1>7 DEF Says
  <2>4. Within(k, l)
    BY <1>4, <2>1, <2>2, <2>3, GatheredWithin DEF Consistent
  <2>5. Heads(R) \subseteq Heads(S) /\ Heads(Required(R)) \subseteq Heads(Required(S))
    BY <2>4, TypesWithin
  <2>6. TypesIn(E) \subseteq TypesIn(D)
    BY <2>2 DEF TypesIn, Of
  <2> HIDE DEF D, E, R, S
  <2>7. SameTypes((k.types \cup TypesIn(D)) \cup S, (DefaultTypes \cup TypesIn(D)) \cup S)
    BY <2>1, <2>5, <2>6, TypesOnTop
  <2>8. SameTypes(l.types, (DefaultTypes \cup TypesIn(D)) \cup S)
    BY <2>3, <2>7 DEF SameTypes
  <2> QED  BY <1>7, <2>8 DEF Says, D, S
<1>9. Clean(s, n, DOMAIN l.constants)
  BY <1>4, <1>5 DEF Consistent, classes
<1> QED
  BY <1>1, <1>4, <1>8, <1>9 DEF Policy, s, l

\* The sources of a policy, in any order, in one load.
LEMMA ReorderedLoads ==
    ASSUME NEW k, Consistent(k, k), NEW s \in Seq(Sources), Policy(k, s), NEW order \in Orders(s)
    PROVE  \E result \in DiagnosticLoad(Cleared(k), Reordered(s, order)) :
                /\ Errors(result.diagnostics) = {}
                /\ WithoutSources(result.kb) = WithoutSources(k)
<1> DEFINE base == Cleared(k)
           r == Reordered(s, order)
           n == Len(s)
           D == FirstEntries(s, n)
           classes == DOMAIN base.constants
           added == LoadSources([kb |-> base, diagnostics |-> {}], r)
           c == added.kb
           l == Completed(c)
<1>1. /\ n \in Nat /\ Len(r) = n /\ r \in Seq(Sources)
      /\ \A i \in 1 .. Len(r) : r[i] = r[0 + i]
  <2>1. n \in Nat /\ n = Len(s) /\ \A i \in 1 .. n : s[i] \in Sources
    OBVIOUS
  <2> HIDE DEF n, r
  <2>2. r = [i \in 1 .. n |-> s[order[i]]] /\ \A i \in 1 .. n : order[i] \in 1 .. n
    BY <2>1, OrderIsBijection DEF r
  <2>3. r \in [1 .. n -> Sources]
    BY <2>1, <2>2
  <2>4. r \in Seq(Sources) /\ Len(r) = n
    BY <2>1, <2>3
  <2> QED  BY <2>1, <2>4
<1>2. /\ Consistent(base, base) /\ base.rules = {} /\ base.types = DefaultTypes
      /\ base.constants = k.constants /\ base.mro = k.mro /\ Policy(base, <<>>)
  <2>1. base = [EmptyKb EXCEPT !.constants = k.constants, !.mro = k.mro]
    BY DEF Cleared
  <2>2. /\ base.rules = {} /\ base.types = DefaultTypes
        /\ base.decls = <<>> /\ base.shorthand = <<>> /\ base.actors = {}
        /\ base.resources = {} /\ base.files = {} /\ base.contents = {}
    BY <2>1 DEF EmptyKb
  <2> HIDE DEF base
  <2> QED  BY <2>2, ClearedIsConsistent, NothingIsPolicy DEF base
<1> HIDE DEF base
<1>3. LoadingFirst(base, base, r, 0) /\ Clean(r, 0, classes)
  <2>1. Len(<<>>) = 0 /\ \A i \in 1 .. Len(<<>>) : r[i] = <<>>[i]
    OBVIOUS
  <2> HIDE DEF r
  <2> QED  BY <1>2, <2>1, LoadStarts
<1>4. Clean(r, n, classes) /\ FirstEntries(r, n) = D
  <2>1. Clean(s, n, classes)
    BY <1>2 DEF Policy
  <2> QED  BY <2>1, ReorderedIsClean
<1> HIDE DEF r
<1>5. /\ Consistent(c, base) /\ (Errors(added.diagnostics) = {} <=> Clean(r, n, classes))
      /\ Clean(r, n, classes) => LoadingFirst(c, base, r, n)
  <2>1. 0 + Len(r) = n /\ 0 \in Nat
    BY <1>1
  <2>2. /\ Consistent(c, base) /\ (Errors(added.diagnostics) = {} <=> Clean(r, 0 + Len(r), classes))
        /\ Clean(r, 0 + Len(r), classes) => LoadingFirst(c, base, r, 0 + Len(r))
    BY <1>1, <1>2, <1>3, <2>1, LoadedSources
  <2> QED  BY <2>1, <2>2
<1>6. Errors(added.diagnostics) = {} /\ LoadingFirst(c, base, r, n)
  BY <1>4, <1>5
<1> HIDE DEF added, n
<1>7. Agree(c) /\ Gathered(c, D) /\ Agree(k) /\ Gathered(k, D)
  <2>1. Gathered(c, FirstEntries(r, n))
    BY <1>6 DEF LoadingFirst, Loading
  <2> QED  BY <1>4, <1>5, <2>1 DEF Consistent, Policy, Says, n
<1>8. Rewritable(c)
  <2>1. Within(k, c) /\ Within(c, k)
    BY <1>7, GatheredWithin
  <2> QED  BY <1>2, <1>5, <2>1, RewritableStays DEF Policy, Valid, Consistent
<1>9. SameParts(c, l) /\ Says(l, DefaultTypes, r, n)
  BY <1>2, <1>6, <1>8, CompletedSays
<1> HIDE DEF c, l, D
<1>10. Agree(l) /\ Gathered(l, D)
  BY <1>4, <1>7, <1>9 DEF SameParts, Agree, Says
<1>11. Within(k, l) /\ Within(l, k)
  BY <1>7, <1>10, GatheredWithin
<1>12. l.rules = k.rules
  <2>1. BlockRules(l) = BlockRules(k)
    BY <1>11, SameBlockRules DEF Policy, Valid
  <2>2. l.rules = RulesIn(D) \cup BlockRules(l)
    BY <1>4, <1>9 DEF Says
  <2> QED  BY <2>1, <2>2 DEF Policy, Says, D, n
<1>13. SameTypes(k.types, l.types)
  <2> DEFINE types == DefaultTypes \cup TypesIn(D)
  <2>1. SameTypes(types \cup ResourceSpecificTypes(k), types \cup ResourceSpecificTypes(l))
    BY <1>11, SameBlockTypes, SameWithMore
  <2>2. SameTypes(l.types, types \cup ResourceSpecificTypes(l))
    BY <1>4, <1>9 DEF Says
  <2>3. SameTypes(k.types, types \cup ResourceSpecificTypes(k))
    BY DEF Policy, Says, D, n
  <2> QED  BY <2>1, <2>2, <2>3 DEF SameTypes
<1>14. l.actors = k.actors /\ l.resources = k.resources
  BY <1>7, <1>10 DEF Gathered
<1>15. Valid(l)
  <2>1. HasMoreClasses(k, l)
    BY <1>2, <1>5, <1>9, <1>14 DEF HasMoreClasses, Consistent, SameParts
  <2> QED  BY <1>11, <1>12, <1>13, <2>1, ValidStays DEF Policy, Consistent
<1>16. PICK result \in DiagnosticLoad(base, r) :
            Errors(result.diagnostics) = {} /\ result.kb = l
  BY <1>5, <1>6, <1>15, ValidIsLoaded DEF added, c, l
<1>17. WithoutSources(l) = WithoutSources(k)
  BY <1>12, <1>13, <1>14 DEF WithoutSources, SameTypes, Required
<1> QED
  BY <1>16, <1>17 DEF base, r

LEMMA LoadKeeps ==
    ASSUME NEW base, Consistent(base, base), NEW sources \in Loads,
           NEW result \in DiagnosticLoad(base, sources), Errors(result.diagnostics) = {}
    PROVE  /\ Consistent(result.kb, base)
           /\ \A rule \in result.kb.rules : Fits(rule, result.kb)
<1> DEFINE start == [kb |-> base, diagnostics |-> {}]
<1>1. /\ Len(sources) \in Nat /\ DOMAIN sources = 1 .. Len(sources)
      /\ \A i \in DOMAIN sources : IsSource(sources[i])
  BY KbAssumption DEF IsSource
<1>2. Consistent(LoadSources(start, sources).kb, base)
  BY <1>1, LoadSourcesKeeps
<1>3. Consistent(result.kb, base) /\ Valid(result.kb)
  BY <1>2, LoadIsValid
<1> QED
  BY <1>3 DEF Valid, FitsTypes

(***************************************************************************)
(* The invariant                                                           *)
(***************************************************************************)

\* RulesCovered is not inductive: it speaks of the values of classes that are
\* registered.  That each rule fits a type of its name says so of the classes
\* themselves, and it stays true when there are more.
Inv ==
    /\ Consistent(kb, kb) /\ KnownClasses(kb)
    /\ \A rule \in kb.rules : Fits(rule, kb)

LEMMA InitInv == Init => Inv
<1> SUFFICES ASSUME Init PROVE Inv
  OBVIOUS
<1>1. kb = [EmptyKb EXCEPT !.constants = [c \in Builtins |-> Class[c].id]]
  BY DEF Init
<1>2. /\ IsKb(kb) /\ kb.rules = {} /\ kb.decls = <<>> /\ kb.shorthand = <<>>
      /\ kb.actors = {} /\ kb.resources = {}
      /\ kb.constants = [c \in Builtins |-> Class[c].id] /\ kb.mro = <<>>
  BY <1>1 DEF EmptyKb, IsKb
<1>3. DOMAIN kb.decls = {} /\ DOMAIN kb.shorthand = {} /\ DOMAIN kb.mro = {}
  BY <1>2
<1>4. Consistent(kb, kb)
  BY <1>2, <1>3 DEF Consistent, Agree
<1>5. KnownClasses(kb)
  BY <1>2, <1>3, KbAssumption DEF KnownClasses
<1> QED
  BY <1>2, <1>4, <1>5 DEF Inv

LEMMA RegisterInv ==
    ASSUME Inv, NEW name \in DOMAIN Class, RegisterClass(name)
    PROVE  Inv'
<1> DEFINE names == DOMAIN kb.constants \cup {name}
<1>1. kb' = [kb EXCEPT !.constants = [c \in names |-> Class[c].id]]
  BY DEF RegisterClass
<1>2. IsKb(kb) /\ Agree(kb) /\ \A rule \in kb.rules : IsRule(rule)
  BY DEF Inv, Consistent
<1>3. /\ IsKb(kb') /\ kb'.rules = kb.rules /\ kb'.types = kb.types
      /\ kb'.decls = kb.decls /\ kb'.shorthand = kb.shorthand
      /\ kb'.actors = kb.actors /\ kb'.resources = kb.resources
      /\ kb'.constants = [c \in names |-> Class[c].id] /\ kb'.mro = kb.mro
  <2> HIDE DEF names
  <2> QED  BY <1>1, <1>2 DEF IsKb
<1>4. Consistent(kb', kb')
  BY <1>2, <1>3 DEF Consistent, Agree
<1>5. KnownClasses(kb')
  BY <1>3 DEF Inv, KnownClasses
<1>6. HasMoreClasses(kb, kb')
  BY <1>3 DEF Inv, KnownClasses, HasMoreClasses
<1>7. \A rule \in kb'.rules : Fits(rule, kb')
  <2> SUFFICES ASSUME NEW rule \in kb.rules PROVE Fits(rule, kb')
    BY <1>3
  <2>1. Fits(rule, kb) /\ IsRule(rule)
    BY <1>2 DEF Inv
  <2> QED  BY <1>3, <1>6, <2>1, RuleStays DEF Fits
<1>8. /\ Consistent(kb, kb)' /\ KnownClasses(kb)'
      /\ (\A rule \in kb.rules : Fits(rule, kb))'
  BY <1>4, <1>5, <1>7 DEF Consistent, KnownClasses, Fits
<1> QED
  BY <1>8 DEF Inv

\* Registering the ancestors changes nothing else, and tells of more of them.
LEMMA MrosKeep ==
    ASSUME NEW k, Consistent(k, k), KnownClasses(k)
    PROVE  LET l == RegisterMros(k)
           IN  /\ Consistent(l, l) /\ KnownClasses(l) /\ HasMoreClasses(k, l)
               /\ l.rules = k.rules /\ l.types = k.types /\ l.decls = k.decls
               /\ l.shorthand = k.shorthand /\ l.actors = k.actors
               /\ l.resources = k.resources /\ l.files = k.files
               /\ l.contents = k.contents /\ l.constants = k.constants
<1> DEFINE ids == {k.constants[d] : d \in DOMAIN k.constants}
           mro == [c \in DOMAIN k.constants |-> Class[c].mro \cap ids]
           l == RegisterMros(k)
<1>1. IsKb(k) /\ l = [k EXCEPT !.mro = mro]
  BY DEF Consistent, RegisterMros
<1> HIDE DEF l
<1>2. /\ IsKb(l) /\ l.rules = k.rules /\ l.types = k.types /\ l.decls = k.decls
      /\ l.shorthand = k.shorthand /\ l.actors = k.actors /\ l.resources = k.resources
      /\ l.files = k.files /\ l.contents = k.contents /\ l.constants = k.constants
      /\ l.mro = mro
  <2> HIDE DEF mro
  <2> QED  BY <1>1 DEF IsKb
<1>3. Consistent(l, l)
  BY <1>2 DEF Consistent, Agree
<1>4. KnownClasses(l) /\ HasMoreClasses(k, l)
  BY <1>2 DEF KnownClasses, HasMoreClasses
<1> QED
  BY <1>2, <1>3, <1>4 DEF l

LEMMA FitsWithMros ==
    ASSUME Inv, NEW rule \in kb.rules
    PROVE  Fits(rule, RegisterMros(kb))
<1> DEFINE l == RegisterMros(kb)
<1>1. Fits(rule, kb) /\ IsRule(rule) /\ HasMoreClasses(kb, l) /\ l.types = kb.types
  BY MrosKeep DEF Inv, Consistent
<1> HIDE DEF l
<1>2. Fits(rule, l)
  BY <1>1, RuleStays DEF Fits
<1> QED  BY <1>2 DEF l

LEMMA LoadInv ==
    ASSUME Inv, NEW sources \in Loads, Load(sources)
    PROVE  Inv'
<1> DEFINE base == RegisterMros(kb)
<1>1. PICK result \in DiagnosticLoad(base, sources) :
            kb' = IF Errors(result.diagnostics) = {} THEN result.kb ELSE Cleared(base)
  BY DEF Load
<1>2. Consistent(base, base) /\ KnownClasses(base)
  BY MrosKeep DEF Inv
<1> HIDE DEF base
<1>3. CASE Errors(result.diagnostics) = {}
  <2>1. /\ Consistent(kb', base) /\ \A rule \in kb'.rules : Fits(rule, kb')
    BY <1>1, <1>2, <1>3, LoadKeeps
  <2>2. Consistent(kb', kb') /\ KnownClasses(kb')
    BY <1>2, <2>1 DEF Consistent, KnownClasses
  <2>3. /\ Consistent(kb, kb)' /\ KnownClasses(kb)'
        /\ (\A rule \in kb.rules : Fits(rule, kb))'
    BY <2>1, <2>2 DEF Consistent, KnownClasses, Fits
  <2> QED  BY <2>3 DEF Inv
<1>4. CASE Errors(result.diagnostics) # {}
  <2>1. kb' = Cleared(base)
    BY <1>1, <1>4
  <2>2. /\ Consistent(kb', kb') /\ kb'.rules = {} /\ KnownClasses(kb')
    BY <1>2, <2>1, ClearedIsConsistent DEF KnownClasses
  <2>3. /\ Consistent(kb, kb)' /\ KnownClasses(kb)' /\ (kb.rules = {})'
    BY <2>2 DEF Consistent, KnownClasses
  <2> QED  BY <2>3 DEF Inv
<1> QED
  BY <1>3, <1>4

LEMMA RefusedInv ==
    ASSUME Inv, RefusedLoad
    PROVE  Inv'
<1>1. kb' = RegisterMros(kb) /\ kb'.rules = kb.rules
  BY MrosKeep DEF RefusedLoad, Inv
<1>2. Consistent(kb', kb') /\ KnownClasses(kb')
  BY <1>1, MrosKeep DEF Inv
<1>3. \A rule \in kb'.rules : Fits(rule, kb')
  BY <1>1, FitsWithMros
<1>4. /\ Consistent(kb, kb)' /\ KnownClasses(kb)'
      /\ (\A rule \in kb.rules : Fits(rule, kb))'
  BY <1>2, <1>3 DEF Consistent, KnownClasses, Fits
<1> QED  BY <1>4 DEF Inv

LEMMA ClearInv ==
    ASSUME Inv, ClearRules
    PROVE  Inv'
<1>1. /\ Consistent(kb', kb') /\ kb'.rules = {} /\ KnownClasses(kb')
  BY ClearedIsConsistent DEF ClearRules, Inv, KnownClasses
<1>2. /\ Consistent(kb, kb)' /\ KnownClasses(kb)' /\ (kb.rules = {})'
  BY <1>1 DEF Consistent, KnownClasses
<1> QED
  BY <1>2 DEF Inv

LEMMA Invariance == Spec => []Inv
<1>1. Inv /\ [Next]_vars => Inv'
  <2> SUFFICES ASSUME Inv, [Next]_vars PROVE Inv'
    OBVIOUS
  <2>1. ASSUME NEW name \in DOMAIN Class, RegisterClass(name) PROVE Inv'
    BY <2>1, RegisterInv
  <2>2. ASSUME NEW sources \in Loads, Load(sources) PROVE Inv'
    BY <2>2, LoadInv
  <2>3. CASE RefusedLoad
    BY <2>3, RefusedInv
  <2>4. CASE ClearRules
    BY <2>4, ClearInv
  <2>5. CASE UNCHANGED vars
    <3>1. kb' = kb
      BY <2>5 DEF vars
    <3> QED  BY <3>1 DEF Inv, Consistent, KnownClasses, Fits
  <2> QED  BY <2>1, <2>2, <2>3, <2>4, <2>5 DEF Next
<1> QED  BY <1>1, InitInv, PTL DEF Spec

\* However often blocks are opened again, in whatever sources, and whatever of
\* them is refused, the declarations, the shorthand rules and the unions of the
\* knowledge base speak of the same resources (ResourceBlocks::add, clear_rules).
THEOREM BlocksAlwaysAgree == Spec => []BlocksAgree
<1>1. Inv => BlocksAgree
  BY DEF Inv, Consistent, Agree, KnownClasses, BlocksAgree
<1> QED  BY <1>1, Invariance, PTL

\* No rule of a policy that was loaded without errors accepts a call that no
\* rule type of its name asks for, whichever classes are registered before or
\* after the load (validate_rule_types, rule_params_match, check_param).
THEOREM RulesAlwaysCovered == Spec => []RulesCovered
<1>1. Inv => RulesCovered
  <2> SUFFICES ASSUME Inv, NEW rule \in kb.rules, Named(rule.name, kb.types) # {},
                      NEW args \in Calls(Len(rule.params)), AcceptsCall(rule.params, args)
               PROVE  \E type \in Named(rule.name, kb.types) : AsksCall(type.params, args)
    BY DEF RulesCovered
  <2>1. KnownClasses(kb) /\ IsRule(rule) /\ Fits(rule, kb)
    BY DEF Inv, Consistent
  <2>2. PICK type \in Named(rule.name, kb.types) : RuleParamsMatch(rule, type, kb) = "match"
    BY <2>1 DEF Fits
  <2> QED  BY <2>1, <2>2, RuleCovers
<1> QED  BY <1>1, Invariance, PTL

(***************************************************************************)
(* The invariant of the order                                              *)
(***************************************************************************)

\* OrderIrrelevant is not inductive: what a second load finds depends on all
\* that the first one has left.  That the knowledge base says what the sources
\* of its loads say, and nothing else, determines it.
OrderInv == Inv /\ loaded \in Seq(Sources) /\ Policy(kb, loaded)

LEMMA RegisterKeepsOrder ==
    ASSUME OrderInv, NEW name \in DOMAIN Class, RegisterClass(name)
    PROVE  OrderInv'
<1>1. Inv'
  BY RegisterInv DEF OrderInv
<1> DEFINE names == DOMAIN kb.constants \cup {name}
<1>2. /\ kb' = [kb EXCEPT !.constants = [c \in names |-> Class[c].id]]
      /\ loaded' = loaded
  BY DEF RegisterClass
<1>3. IsKb(kb) /\ KnownClasses(kb) /\ \A rule \in kb.rules : IsRule(rule)
  BY DEF OrderInv, Inv, Consistent
<1>4. /\ kb'.rules = kb.rules /\ kb'.types = kb.types
      /\ kb'.decls = kb.decls /\ kb'.shorthand = kb.shorthand
      /\ kb'.actors = kb.actors /\ kb'.resources = kb.resources
      /\ kb'.files = kb.files /\ kb'.contents = kb.contents
      /\ kb'.constants = [c \in names |-> Class[c].id] /\ kb'.mro = kb.mro
  <2> HIDE DEF names
  <2> QED  BY <1>2, <1>3 DEF IsKb
<1>5. HasMoreClasses(kb, kb')
  BY <1>3, <1>4 DEF KnownClasses, HasMoreClasses
<1>6. Policy(kb', loaded)
  BY <1>3, <1>4, <1>5, PolicyStays DEF OrderInv
<1>7. Policy(kb, loaded)' /\ (loaded \in Seq(Sources))'
  BY <1>2, <1>6 DEF OrderInv
<1> QED
  BY <1>1, <1>7 DEF OrderInv

LEMMA PolicyWithMros ==
    ASSUME OrderInv
    PROVE  /\ Policy(RegisterMros(kb), loaded)
           /\ Consistent(RegisterMros(kb), RegisterMros(kb))
<1> DEFINE l == RegisterMros(kb)
<1>1. /\ HasMoreClasses(kb, l) /\ Consistent(l, l)
      /\ l.rules = kb.rules /\ l.types = kb.types /\ l.decls = kb.decls
      /\ l.shorthand = kb.shorthand /\ l.files = kb.files /\ l.contents = kb.contents
  BY MrosKeep DEF OrderInv, Inv
<1>2. Policy(kb, loaded) /\ \A rule \in kb.rules : IsRule(rule)
  BY DEF OrderInv, Inv, Consistent
<1> HIDE DEF l
<1>3. Policy(l, loaded)
  BY <1>1, <1>2, PolicyStays
<1> QED  BY <1>1, <1>3 DEF l

LEMMA RefusedKeepsOrder ==
    ASSUME OrderInv, RefusedLoad
    PROVE  OrderInv'
<1>1. Inv'
  BY RefusedInv DEF OrderInv
<1>2. kb' = RegisterMros(kb) /\ loaded' = loaded
  BY DEF RefusedLoad
<1>3. Policy(kb, loaded)' /\ (loaded \in Seq(Sources))'
  BY <1>2, PolicyWithMros DEF OrderInv
<1> QED  BY <1>1, <1>3 DEF OrderInv

LEMMA ClearedIsPolicy ==
    ASSUME NEW base
    PROVE  Policy(Cleared(base), <<>>)
<1> DEFINE k == Cleared(base)
<1>1. k = [EmptyKb EXCEPT !.constants = base.constants, !.mro = base.mro]
  BY DEF Cleared
<1>2. /\ k.rules = {} /\ k.types = DefaultTypes /\ k.decls = <<>> /\ k.shorthand = <<>>
      /\ k.actors = {} /\ k.resources = {} /\ k.files = {} /\ k.contents = {}
  BY <1>1 DEF EmptyKb
<1> HIDE DEF k
<1>3. Policy(k, <<>>)
  BY <1>2, NothingIsPolicy
<1> QED  BY <1>3 DEF k

LEMMA LoadKeepsOrder ==
    ASSUME OrderInv, NEW sources \in Loads, Load(sources)
    PROVE  OrderInv'
<1> DEFINE base == RegisterMros(kb)
<1>1. Inv'
  BY LoadInv DEF OrderInv
<1>2. PICK result \in DiagnosticLoad(base, sources) :
            IF Errors(result.diagnostics) = {}
            THEN kb' = result.kb /\ loaded' = loaded \o sources
            ELSE kb' = Cleared(base) /\ loaded' = <<>>
  BY DEF Load
<1>3. /\ Consistent(base, base) /\ Policy(base, loaded)
      /\ base.rules = kb.rules
  BY PolicyWithMros, MrosKeep DEF OrderInv, Inv
<1> HIDE DEF base
<1>4. CASE Errors(result.diagnostics) = {}
  <2>1. loaded \in Seq(Sources)
    BY DEF OrderInv
  <2>2. sources \in Seq(Sources) /\ base.rules = {}
    BY <1>3, KbAssumption DEF Load
  <2>3. Policy(result.kb, loaded \o sources)
    BY <1>3, <1>4, <2>1, <2>2, PolicyLoads
  <2>4. kb' = result.kb /\ loaded' = loaded \o sources
    BY <1>2, <1>4
  <2>5. loaded \o sources \in Seq(Sources)
    BY <2>1, <2>2
  <2>6. Policy(kb, loaded)' /\ (loaded \in Seq(Sources))'
    BY <2>3, <2>4, <2>5
  <2> QED  BY <1>1, <2>6 DEF OrderInv
<1>5. CASE Errors(result.diagnostics) # {}
  <2>1. kb' = Cleared(base) /\ loaded' = <<>>
    BY <1>2, <1>5
  <2>2. Policy(kb, loaded)' /\ (loaded \in Seq(Sources))'
    BY <2>1, ClearedIsPolicy
  <2> QED  BY <1>1, <2>2 DEF OrderInv
<1> QED
  BY <1>4, <1>5

LEMMA OrderInvariance == Spec => []OrderInv
<1>1. Init => OrderInv
  <2> SUFFICES ASSUME Init PROVE OrderInv
    OBVIOUS
  <2>1. /\ kb = [EmptyKb EXCEPT !.constants = [c \in Builtins |-> Class[c].id]]
        /\ loaded = <<>>
    BY DEF Init
  <2>2. /\ kb.rules = {} /\ kb.types = DefaultTypes /\ kb.decls = <<>> /\ kb.shorthand = <<>>
        /\ kb.actors = {} /\ kb.resources = {} /\ kb.files = {} /\ kb.contents = {}
    BY <2>1 DEF EmptyKb
  <2>3. Policy(kb, loaded)
    BY <2>1, <2>2, NothingIsPolicy
  <2> QED  BY <2>1, <2>3, InitInv DEF OrderInv
<1>2. OrderInv /\ [Next]_vars => OrderInv'
  <2> SUFFICES ASSUME OrderInv, [Next]_vars PROVE OrderInv'
    OBVIOUS
  <2>1. ASSUME NEW name \in DOMAIN Class, RegisterClass(name) PROVE OrderInv'
    BY <2>1, RegisterKeepsOrder
  <2>2. ASSUME NEW sources \in Loads, Load(sources) PROVE OrderInv'
    BY <2>2, LoadKeepsOrder
  <2>3. CASE RefusedLoad
    BY <2>3, RefusedKeepsOrder
  <2>4. CASE ClearRules
    <3>1. kb' = Cleared(kb) /\ loaded' = <<>> /\ Inv'
      BY <2>4, ClearInv DEF ClearRules, OrderInv
    <3>2. Policy(kb, loaded)' /\ (loaded \in Seq(Sources))'
      BY <3>1, ClearedIsPolicy
    <3> QED  BY <3>1, <3>2 DEF OrderInv
  <2>5. CASE UNCHANGED vars
    <3>1. kb' = kb /\ loaded' = loaded
      BY <2>5 DEF vars
    <3>2. Inv'
      BY <3>1 DEF OrderInv, Inv, Consistent, KnownClasses, Fits
    <3>3. Policy(kb, loaded)' /\ (loaded \in Seq(Sources))'
      BY <3>1 DEF OrderInv
    <3> QED  BY <3>2, <3>3 DEF OrderInv
  <2> QED  BY <2>1, <2>2, <2>3, <2>4, <2>5 DEF Next
<1> QED  BY <1>1, <1>2, PTL DEF Spec

LEMMA OrderedLoads ==
    ASSUME OrderInv, NEW order \in Orders(loaded)
    PROVE  \E result \in DiagnosticLoad(Cleared(RegisterMros(kb)), Reordered(loaded, order)) :
                /\ Errors(result.diagnostics) = {}
                /\ WithoutSources(result.kb) = WithoutSources(kb)
<1> DEFINE l == RegisterMros(kb)
<1>1. Consistent(l, l) /\ Policy(l, loaded) /\ loaded \in Seq(Sources)
  BY PolicyWithMros DEF OrderInv
<1>2. WithoutSources(l) = WithoutSources(kb)
  BY MrosKeep DEF OrderInv, Inv, WithoutSources
<1> HIDE DEF l
<1>3. PICK result \in DiagnosticLoad(Cleared(l), Reordered(loaded, order)) :
                /\ Errors(result.diagnostics) = {}
                /\ WithoutSources(result.kb) = WithoutSources(l)
  BY <1>1, ReorderedLoads
<1> QED  BY <1>2, <1>3 DEF l

\* The policy in another order, whichever it is.
OrdersAgree ==
    \A order \in Orders(loaded) :
        \E result \in DiagnosticLoad(Cleared(RegisterMros(kb)), Reordered(loaded, order)) :
            /\ Errors(result.diagnostics) = {}
            /\ WithoutSources(result.kb) = WithoutSources(kb)

\* Whatever has been loaded without errors, in one load or in several, can be
\* loaded without errors in one load and in any order of its sources, and then
\* has the same rules and unions, and rule types that ask for and require the
\* same (diagnostic_load, ResourceBlocks::add, validate_rules).
THEOREM AnyOrderLoads == Spec => []OrdersAgree
<1>1. OrderInv => OrdersAgree
  BY OrderedLoads DEF OrdersAgree
<1> QED  BY <1>1, OrderInvariance, PTL

\* So it is in the reverse order (the order that the run tries).
THEOREM OrderNeverMatters == Spec => []OrderIrrelevant
<1>1. OrderInv => OrderIrrelevant
  <2> SUFFICES ASSUME OrderInv
               PROVE  \E result \in DiagnosticLoad(Cleared(RegisterMros(kb)), Reverse(loaded)) :
                            /\ Errors(result.diagnostics) = {}
                            /\ WithoutSources(result.kb) = WithoutSources(kb)
    BY DEF OrderIrrelevant
  <2>1. PICK order \in Orders(loaded) : Reverse(loaded) = Reordered(loaded, order)
    BY ReverseIsReordered DEF OrderInv
  <2> QED  BY <2>1, OrderedLoads
<1> QED  BY <1>1, OrderInvariance, PTL

(***************************************************************************)
(* The relations that rules go along                                       *)
(***************************************************************************)

\* A primitive value is of its class, and of the ancestors of it.
LEMMA PrimitiveHasClass ==
    ASSUME KnownClasses(kb), NEW v \in World, v.is \in Primitives,
           NEW name \in DOMAIN kb.constants,
           name # v.is =>
                v.is \in DOMAIN kb.mro /\ kb.constants[name] \in kb.mro[v.is]
    PROVE  HasTag(v, name)
<1>1. v.is \in DOMAIN kb.constants /\ ClassOf(v) = v.is
  BY KbAssumption DEF KnownClasses, ClassOf, Primitives
<1>2. kb.constants[name] \in Class[v.is].mro
  BY <1>1, KbAssumption DEF KnownClasses
<1>3. ~IsUnion(name)
  BY KbAssumption DEF KnownClasses
<1> QED
  BY <1>1, <1>2, <1>3 DEF HasTag, HasClass

\* A value of one class is of another that the validation finds above it.
LEMMA SubclassHasTag ==
    ASSUME KnownClasses(kb), NEW v, NEW name \in DOMAIN kb.constants, ClassOf(v) = name,
           NEW ancestor \in DOMAIN kb.constants,
           name # ancestor =>
                name \in DOMAIN kb.mro /\ kb.constants[ancestor] \in kb.mro[name]
    PROVE  HasTag(v, name) /\ HasTag(v, ancestor)
<1>1. {kb.constants[name], kb.constants[ancestor]} \subseteq Class[name].mro
  BY KbAssumption DEF KnownClasses
<1>2. ~IsUnion(name) /\ ~IsUnion(ancestor)
  BY KbAssumption DEF KnownClasses
<1> QED
  BY <1>1, <1>2 DEF HasTag, HasClass

\* A pattern that fits a class is one of a class below it, or of a dictionary.
LEMMA PatternOfClass ==
    ASSUME KnownClasses(kb), NEW pattern, pattern.is \in Patterns,
           NEW class \in DOMAIN kb.constants,
           CheckPatternParam(pattern, Instance(class, {}), kb) = "match"
    PROVE  \/ /\ pattern.is = "Instance" /\ pattern.name \in DOMAIN kb.constants
              /\ pattern.name # class =>
                    /\ pattern.name \in DOMAIN kb.mro
                    /\ kb.constants[class] \in kb.mro[pattern.name]
           \/ pattern.is = "DictPattern" /\ class = "Dictionary"
<1> DEFINE type == Instance(class, {})
<1>1. type.is = "Instance" /\ type.name = class /\ type.fields = {}
  BY DEF Instance, Term
<1>2. ~IsUnion(class) /\ DOMAIN kb.mro \subseteq DOMAIN kb.constants
  BY KbAssumption DEF KnownClasses
<1> HIDE DEF type
<1>3. CASE pattern.is = "Instance"
  <2>1. CASE pattern.name = class
    BY <1>3, <2>1
  <2>2. CASE pattern.name # class
    <3>1. CheckSubclass(pattern.name, pattern.fields, class, type.fields, kb) = "match"
      BY <1>1, <1>2, <1>3, <2>2 DEF CheckPatternParam, type
    <3> QED  BY <1>2, <1>3, <3>1 DEF CheckSubclass, Bool
  <2> QED  BY <2>1, <2>2
<1>4. CASE pattern.is = "DictPattern"
  <2>1. CheckPatternParam(pattern, type, kb) =
            Bool(type.name = "Dictionary" /\ ParamFieldsMatch(type.fields, pattern.fields))
    BY <1>1, <1>4 DEF CheckPatternParam
  <2> QED  BY <1>1, <1>4, <2>1 DEF Bool, type
<1> QED
  BY <1>3, <1>4 DEF Patterns

\* A value stands for its class.
LEMMA ValueOfClass ==
    ASSUME KnownClasses(kb), NEW value \in World, NEW class \in DOMAIN kb.constants,
           CheckValueAgainstPattern(value, Instance(class, {}), kb) = "match"
    PROVE  HasTag(value, class)
<1> DEFINE type == Instance(class, {})
           own == Instance(value.is, value.fields)
<1>1. type.is = "Instance"
  BY DEF Instance, Term
<1>2. own.is = "Instance" /\ own.name = value.is
  BY DEF Instance, Term
<1> HIDE DEF type, own
<1>3. value.is \in Primitives /\ CheckPatternParam(own, type, kb) = "match"
  BY <1>1 DEF CheckValueAgainstPattern, Bool, type, own
<1>4. value.is # class =>
            value.is \in DOMAIN kb.mro /\ kb.constants[class] \in kb.mro[value.is]
  BY <1>2, <1>3, PatternOfClass DEF type, Patterns
<1> QED
  BY <1>3, <1>4, PrimitiveHasClass

\* A parameter that fits a class accepts a value of it.
LEMMA ClassIsAccepted ==
    ASSUME KnownClasses(kb), NEW param, IsParam(param), Possible(param),
           NEW class \in DOMAIN kb.constants,
           NEW type, type.parameter.is = "Variable", type.specializer = Instance(class, {}),
           CheckParam(param, type, kb) = "match"
    PROVE  \E v \in World : Accepts(param, v) /\ HasTag(v, class)
<1> DEFINE asked == Asked(param)
           isVar == param.parameter.is = "Variable"
           value == IF isVar /\ param.specializer # NoTerm THEN param.specializer
                    ELSE param.parameter
<1>1. type.specializer # NoTerm /\ type.specializer.is \in Patterns
  BY PatternIsTerm DEF Instance, Term, Patterns
<1>2. ~(isVar /\ param.specializer = NoTerm)
  BY <1>1 DEF CheckParam, Patterns
<1>3. value = asked
  BY <1>2 DEF Asked
<1>4. CASE asked.is \in Patterns
  <2>1. isVar /\ asked = param.specializer
    BY <1>4 DEF IsParam, Asked
  <2>2. CheckPatternParam(asked, Instance(class, {}), kb) = "match"
    BY <1>1, <1>2, <1>3, <1>4, <2>1 DEF CheckParam
  <2>3. asked # NoTerm
    BY <1>4, PatternIsTerm
  <2>4. CASE asked.is = "Instance" /\ asked.name \in DOMAIN kb.constants
    <3>1. asked.name # class =>
                asked.name \in DOMAIN kb.mro /\ kb.constants[class] \in kb.mro[asked.name]
      BY <1>4, <2>2, <2>4, PatternOfClass
    <3>2. asked.name \in DOMAIN Class
      BY <2>4 DEF KnownClasses
    <3>3. PICK v \in World : ClassOf(v) = asked.name /\ asked.fields \subseteq v.fields
      BY <2>3, <2>4, <3>2 DEF Possible, Candidates
    <3>4. HasTag(v, asked.name) /\ HasTag(v, class)
      BY <2>4, <3>1, <3>3, SubclassHasTag
    <3>5. Allows(asked, v)
      BY <2>3, <2>4, <3>3, <3>4 DEF Allows
    <3> QED  BY <2>1, <3>4, <3>5 DEF Accepts
  <2>5. CASE asked.is = "DictPattern" /\ class = "Dictionary"
    <3>1. PICK v \in World : v.is = "Dictionary" /\ asked.fields \subseteq v.fields
      BY <2>3, <2>5 DEF Possible, Candidates
    <3>2. HasTag(v, class)
      BY <2>5, <3>1, PrimitiveHasClass DEF Primitives
    <3>3. Allows(asked, v)
      BY <2>3, <2>5, <3>1 DEF Allows
    <3> QED  BY <2>1, <3>2, <3>3 DEF Accepts
  <2> QED  BY <1>4, <2>2, <2>4, <2>5, PatternOfClass
<1>5. CASE asked.is \notin Patterns
  <2>1. CheckValueAgainstPattern(asked, Instance(class, {}), kb) = "match"
    BY <1>1, <1>2, <1>3, <1>5 DEF CheckParam
  <2>2. asked # NoTerm
    BY <2>1, NoTermIsNone DEF CheckValueAgainstPattern, Instance, Term, Primitives, Bool
  <2>3. asked \in World
    BY <1>5, <2>2 DEF Possible, Candidates, Patterns
  <2>4. HasTag(asked, class)
    BY <2>1, <2>3, ValueOfClass
  <2>5. Accepts(param, asked)
    BY <1>2, <1>5, <2>2 DEF Accepts, Allows, Asked, Patterns
  <2> QED  BY <2>3, <2>4, <2>5
<1> QED
  BY <1>4, <1>5

\* A parameter that fits a name accepts it.
LEMMA NameIsAccepted ==
    ASSUME NEW param, IsParam(param), Possible(param), NEW name,
           CheckParam(param, Given(Str(name)), kb) = "match"
    PROVE  Str(name) \in World /\ Accepts(param, Str(name))
<1> DEFINE type == Given(Str(name))
           isVar == param.parameter.is = "Variable"
           value == IF isVar /\ param.specializer # NoTerm THEN param.specializer
                    ELSE param.parameter
<1>1. /\ type.parameter = Str(name) /\ type.specializer = NoTerm
      /\ Str(name).is = "String"
  BY DEF Given, Param, Str, Term
<1> HIDE DEF type
<1>2. ~(isVar /\ param.specializer # NoTerm)
  BY <1>1 DEF CheckParam, type
<1>3. CheckValueParam(param.parameter, Str(name)) = "match"
  BY <1>1, <1>2 DEF CheckParam, type
<1>4. param.parameter = Str(name)
  BY <1>1, <1>3 DEF CheckValueParam, Bool
<1>5. Asked(param) = Str(name) /\ ~isVar
  BY <1>1, <1>4 DEF Asked
<1>6. Str(name) # NoTerm
  BY <1>1, NoTermIsNone
<1>7. Str(name) \in World
  BY <1>1, <1>5, <1>6 DEF Possible, Candidates
<1> QED
  BY <1>4, <1>5, <1>7 DEF Accepts

\* A rule that fits a relation type, and asks for what there is, accepts a
\* call with values of both ends.
Implementing(rule, name, subject, object) ==
    \E args \in Calls(3) :
        /\ AcceptsCall(rule.params, args)
        /\ HasTag(args[1], subject) /\ args[2] = Str(name) /\ HasTag(args[3], object)

\* The rule type of a relation (create_resource_specific_rule_types).
RelationParams(t) ==
    <<Bound("subject", Instance(t.subject, {})), Given(Str(t.name)),
      Bound("object", Instance(t.object, {}))>>

LEMMA RuleImplements ==
    ASSUME KnownClasses(kb), NEW rule, IsRule(rule),
           \A i \in DOMAIN rule.params : Possible(rule.params[i]),
           NEW t, {t.subject, t.object} \subseteq DOMAIN kb.constants,
           NEW type, type.params = RelationParams(t),
           RuleParamsMatch(rule, type, kb) = "match"
    PROVE  Implementing(rule, t.name, t.subject, t.object)
<1>1. /\ Len(type.params) = 3
      /\ type.params[1] = Bound("subject", Instance(t.subject, {}))
      /\ type.params[2] = Given(Str(t.name))
      /\ type.params[3] = Bound("object", Instance(t.object, {}))
  BY DEF RelationParams
<1>2. /\ DOMAIN rule.params = 1 .. 3 /\ Len(rule.params) = 3
      /\ \A i \in 1 .. 3 : CheckParam(rule.params[i], type.params[i], kb) = "match"
  BY <1>1, RuleMatches DEF IsRule
<1>3. \A i \in 1 .. 3 : IsParam(rule.params[i]) /\ Possible(rule.params[i])
  BY <1>2 DEF IsRule
<1>4. \A x, term : Bound(x, term).parameter.is = "Variable" /\ Bound(x, term).specializer = term
  BY DEF Bound, Param, Variable, Term
<1>5. PICK v \in World : Accepts(rule.params[1], v) /\ HasTag(v, t.subject)
  BY <1>1, <1>2, <1>3, <1>4, ClassIsAccepted
<1>6. Str(t.name) \in World /\ Accepts(rule.params[2], Str(t.name))
  BY <1>1, <1>2, <1>3, NameIsAccepted
<1>7. PICK w \in World : Accepts(rule.params[3], w) /\ HasTag(w, t.object)
  BY <1>1, <1>2, <1>3, <1>4, ClassIsAccepted
<1> DEFINE args == [i \in 1 .. 3 |-> IF i = 1 THEN v ELSE IF i = 2 THEN Str(t.name) ELSE w]
<1>8. args \in Calls(3) /\ Len(args) = 3 /\ DOMAIN args = 1 .. 3
  BY <1>6 DEF Calls
<1>9. args[1] = v /\ args[2] = Str(t.name) /\ args[3] = w
  OBVIOUS
<1> HIDE DEF args
<1>10. AcceptsCall(rule.params, args)
  <2>1. \A i \in 1 .. 3 : Accepts(rule.params[i], args[i])
    <3>1. \A i \in 1 .. 3 : i = 1 \/ i = 2 \/ i = 3
      OBVIOUS
    <3> QED  BY <1>5, <1>6, <1>7, <1>9, <3>1
  <2> QED  BY <1>2, <1>8, <2>1 DEF AcceptsCall
<1> QED
  BY <1>5, <1>7, <1>8, <1>9, <1>10 DEF Implementing

\* The rule of a shorthand rule asks for any actor: it fits no relation type.
LEMMA BlockRulesDiffer ==
    ASSUME KnownClasses(kb), NEW p, NEW rule, rule = AsRule(p[2], p[1], kb), IsRule(rule),
           NEW t, t.subject \in DOMAIN kb.constants,
           NEW type, type.params = RelationParams(t)
    PROVE  RuleParamsMatch(rule, type, kb) # "match"
<1> SUFFICES ASSUME RuleParamsMatch(rule, type, kb) = "match" PROVE FALSE
  OBVIOUS
<1> DEFINE actor == Instance("Actor", {})
           subject == Instance(t.subject, {})
<1>1. rule.params[1] = Bound("actor", actor) /\ Len(rule.params) = 3
  BY DEF AsRule, Rule, HeadParams
<1>2. type.params[1] = Bound("subject", subject)
  BY DEF RelationParams
<1>3. CheckParam(Bound("actor", actor), Bound("subject", subject), kb) = "match"
  BY <1>1, <1>2, RuleMatches DEF IsRule
<1>4. \A x, term : Bound(x, term).parameter.is = "Variable" /\ Bound(x, term).specializer = term
  BY DEF Bound, Param, Variable, Term
<1>5. /\ actor.is \in Patterns /\ actor.is = "Instance" /\ actor.name = "Actor"
      /\ subject.is \in Patterns
  BY DEF Instance, Term, Patterns
<1>6. actor # NoTerm /\ subject # NoTerm
  BY <1>5, PatternIsTerm
<1> HIDE DEF actor
<1>7. CheckPatternParam(actor, subject, kb) = "match"
  <2> HIDE DEF subject
  <2> QED  BY <1>3, <1>4, <1>5, <1>6 DEF CheckParam
<1>8. "Actor" \in DOMAIN kb.constants
  BY <1>5, <1>7, PatternOfClass
<1> QED
  BY <1>8, KbAssumption DEF KnownClasses, IsUnion

\* The world has what the rules of the texts ask for.
LEMMA TextRulesArePossible ==
    ASSUME NEW s \in Seq(Sources), NEW rule \in RulesIn(FirstEntries(s, Len(s))),
           rule.name = "has_relation"
    PROVE  \A j \in DOMAIN rule.params : Possible(rule.params[j])
<1>1. PICK e \in FirstEntries(s, Len(s)) : e.line.is = "rule" /\ rule = It(e)
  BY DEF RulesIn, Of
<1>2. PICK m \in 1 .. Len(s) : e \in SourceEntries(s[m])
  BY <1>1 DEF FirstEntries
<1>3. s[m] \in Sources
  OBVIOUS
<1>4. s[m].src \in Contents
  BY <1>3, KbAssumption
<1> DEFINE lines == Text[s[m].src].lines
<1>5. /\ DOMAIN lines = 1 .. Len(lines) /\ \A i \in DOMAIN lines : IsLine(lines[i])
  BY <1>4, TextAssumption
<1>6. PICK i \in DOMAIN lines : e = Entry(lines[i], s[m].filename)
  BY <1>2, <1>5 DEF SourceEntries, EntriesOf, LinesOf
<1>7. e.line = lines[i] /\ e.at = s[m].filename
  BY <1>6 DEF Entry
<1>8. IsRule(lines[i].it) /\ lines[i].is = "rule"
  BY <1>1, <1>5, <1>7 DEF IsLine
<1>9. rule = [lines[i].it EXCEPT !.at = s[m].filename]
  BY <1>1, <1>7 DEF It
<1>10. rule.name = lines[i].it.name /\ rule.params = lines[i].it.params
  BY <1>8, <1>9 DEF IsRule, Rule
<1> QED
  BY <1>4, <1>8, <1>10, WorldAssumption DEF Possible

\* What the shorthand rules require is declared.
LEMMA RequiredAreRelations ==
    ASSUME NEW k
    PROVE  /\ RequiredTuples(k) \subseteq RelationTuples(k)
           /\ \A name, object : IsRelation(name, object, k) =>
                /\ object \in DOMAIN k.decls
                /\ [subject |-> RelationType(name, object, k), name |-> name,
                    object |-> object] \in RelationTuples(k)
<1>1. ASSUME NEW name, NEW object, IsRelation(name, object, k)
      PROVE  /\ object \in DOMAIN k.decls
             /\ [subject |-> RelationType(name, object, k), name |-> name,
                 object |-> object] \in RelationTuples(k)
  <2>1. object \in DOMAIN k.decls
    BY <1>1 DEF IsRelation, IsDeclared, DeclarationsOf
  <2>2. name \in {n \in DOMAIN k.decls[object] : IsRelation(n, object, k)}
    BY <1>1, <2>1 DEF IsRelation, IsDeclared, DeclarationsOf
  <2> QED  BY <2>1, <2>2 DEF RelationTuples
<1>2. RequiredTuples(k) \subseteq RelationTuples(k)
  BY <1>1 DEF RequiredTuples
<1> QED
  BY <1>1, <1>2

\* The classes of the blocks of a policy without errors are registered.
LEMMA ResourcesAreRegistered ==
    ASSUME OrderInv, NEW r \in DOMAIN kb.decls
    PROVE  r \in DOMAIN kb.constants
<1> DEFINE D == FirstEntries(loaded, Len(loaded))
<1>1. r \in {b.resource : b \in BlocksIn(D)}
  BY DEF OrderInv, Inv, Policy, Says, Gathered, Consistent, Agree
<1>2. PICK e \in D : e.line.is = "block" /\ Block(e).resource = r
  BY <1>1 DEF BlocksIn, Of
<1>3. GoodEntry(e, DOMAIN kb.constants)
  BY <1>2 DEF OrderInv, Policy, Clean, Compatible
<1> QED  BY <1>2, <1>3 DEF GoodEntry

\* A relation that is required has a rule that implements it.
LEMMA RequiredIsImplemented ==
    ASSUME OrderInv, NEW t \in RequiredTuples(kb)
    PROVE  \E rule \in Named("has_relation", kb.rules) :
                Implementing(rule, t.name, t.subject, t.object)
<1> DEFINE D == FirstEntries(loaded, Len(loaded))
           typeOf(required) ==
                Type("has_relation", RelationParams(t), required,
                     Declaration(t.name, t.object, kb).first)
<1>1. /\ KnownClasses(kb) /\ Consistent(kb, kb) /\ Valid(kb) /\ loaded \in Seq(Sources)
      /\ kb.rules = RulesIn(D) \cup BlockRules(kb)
      /\ SameTypes(kb.types, (DefaultTypes \cup TypesIn(D)) \cup ResourceSpecificTypes(kb))
  BY DEF OrderInv, Inv, Policy, Says
<1>2. t \in RelationTuples(kb)
  BY RequiredAreRelations
<1>3. typeOf(t \in RequiredTuples(kb)) \in ResourceSpecificTypes(kb)
  BY <1>2 DEF ResourceSpecificTypes, RelationParams
<1>4. typeOf(TRUE) \in ResourceSpecificTypes(kb)
  BY <1>3
<1>5. PICK type \in Required(kb.types) :
            type.name = "has_relation" /\ type.params = RelationParams(t)
  <2>1. /\ typeOf(TRUE).required /\ typeOf(TRUE).name = "has_relation"
        /\ typeOf(TRUE).params = RelationParams(t)
    BY DEF Type
  <2> HIDE DEF typeOf
  <2>2. typeOf(TRUE) \in Required((DefaultTypes \cup TypesIn(D)) \cup ResourceSpecificTypes(kb))
    BY <1>4, <2>1 DEF Required
  <2>3. Heads(Required((DefaultTypes \cup TypesIn(D)) \cup ResourceSpecificTypes(kb)))
            = Heads(Required(kb.types))
    BY <1>1 DEF SameTypes
  <2>4. PICK type \in Required(kb.types) :
            type.name = typeOf(TRUE).name /\ type.params = typeOf(TRUE).params
    <3> DEFINE A == Required((DefaultTypes \cup TypesIn(D)) \cup ResourceSpecificTypes(kb))
               B == Required(kb.types)
    <3> HIDE DEF A, B, D
    <3>1. typeOf(TRUE) \in A /\ Heads(A) = Heads(B)
      BY <2>2, <2>3 DEF A, B
    <3>2. \E type \in B : type.name = typeOf(TRUE).name /\ type.params = typeOf(TRUE).params
      BY <3>1, OnlyHeadsMatter
    <3> QED  BY <3>2 DEF B
  <2> QED  BY <2>1, <2>4
<1>6. PICK rule \in Named("has_relation", kb.rules) : RuleParamsMatch(rule, type, kb) = "match"
  BY <1>1, <1>5 DEF Valid, FitsTypes, Implemented
<1>7. IsRule(rule) /\ rule \in kb.rules /\ rule.name = "has_relation"
  BY <1>1, <1>6 DEF Consistent, Named
<1>8. {t.subject, t.object} \subseteq DOMAIN kb.constants
  <2>1. t.subject \in DOMAIN kb.constants
    BY <1>1, <1>2 DEF Valid, Rewritable
  <2>2. t.object \in DOMAIN kb.decls
    BY <1>2 DEF RelationTuples
  <2> QED  BY <2>1, <2>2, ResourcesAreRegistered
<1>9. rule \in RulesIn(D)
  <2> SUFFICES ASSUME rule \in BlockRules(kb) PROVE FALSE
    BY <1>1, <1>7
  <2>1. PICK p \in AllShorthand(kb) : rule = AsRule(p[2], p[1], kb)
    BY DEF BlockRules
  <2> QED  BY <1>1, <1>5, <1>6, <1>7, <1>8, <2>1, BlockRulesDiffer
<1>10. \A i \in DOMAIN rule.params : Possible(rule.params[i])
  BY <1>1, <1>7, <1>9, TextRulesArePossible
<1> QED
  BY <1>1, <1>5, <1>6, <1>7, <1>8, <1>10, RuleImplements

\* In a policy without errors, whatever its texts are and however many loads it
\* took, somebody is in the relations that its shorthand rules go along and
\* that imply in them: a rule accepts a call about values of both classes.
THEOREM RelationsAlwaysImplemented == Spec => []RelationsImplemented
<1>1. OrderInv => RelationsImplemented
  <2> SUFFICES ASSUME OrderInv PROVE RelationsImplemented
    OBVIOUS
  <2> DEFINE where(pair) ==
                IF pair[2].relation = NoRelation THEN pair[1]
                ELSE RelationType(pair[2].relation, pair[1], kb)
             implemented(name, object) ==
                \E rule \in Named("has_relation", kb.rules), args \in Calls(3) :
                    /\ AcceptsCall(rule.params, args)
                    /\ HasTag(args[1], RelationType(name, object, kb))
                    /\ args[2] = Str(name)
                    /\ HasTag(args[3], object)
             tuple(name, object) == [subject |-> RelationType(name, object, kb),
                                     name |-> name, object |-> object]
  <2>1. \A name, object : tuple(name, object) \in RequiredTuples(kb) => implemented(name, object)
    BY RequiredIsImplemented DEF Implementing
  <2>2. ASSUME NEW pair \in AllShorthand(kb)
        PROVE  /\ pair[2].relation # NoRelation => implemented(pair[2].relation, pair[1])
               /\ IsRelation(pair[2].implier, where(pair), kb)
                    => implemented(pair[2].implier, where(pair))
    <3> HIDE DEF implemented
    <3>1. pair[2].relation # NoRelation => IsRelation(pair[2].relation, pair[1], kb)
      BY <2>2 DEF OrderInv, Policy, Valid, Rewritable, ShorthandErrors
    <3>2. IsRelation(pair[2].relation, pair[1], kb)
            => tuple(pair[2].relation, pair[1]) \in RequiredTuples(kb)
      BY DEF RequiredTuples
    <3>3. IsRelation(pair[2].implier, where(pair), kb)
            => tuple(pair[2].implier, where(pair)) \in RequiredTuples(kb)
      BY <3>1 DEF RequiredTuples
    <3> HIDE DEF tuple, where
    <3> QED  BY <2>1, <3>1, <3>2, <3>3
  <2> QED  BY <2>2 DEF RelationsImplemented
<1> QED  BY <1>1, OrderInvariance, PTL

(***************************************************************************)
(* What the rules of blocks derive                                         *)
(***************************************************************************)

\* Of a policy whose rules with bodies, and whose rule types about relations,
\* are those that its blocks stand for; no block is about dictionaries, which
\* a pattern without a class is taken for.
OfBlocks ==
    /\ {rule \in kb.rules : rule.body # <<>>} \subseteq BlockRules(kb)
    /\ \A type \in Named("has_relation", kb.types) :
            \E t \in RelationTuples(kb) : type.params = RelationParams(t)
    /\ \A t \in RelationTuples(kb) : "Dictionary" \notin {t.subject, t.object}

\* A value that is of two resources, as one inherits from the other, has names
\* that both declare in the same way.
NamesAgree ==
    \A v \in Objects, r, q \in DOMAIN kb.decls :
        HasTag(v, r) /\ HasTag(v, q) =>
            \A name \in DOMAIN kb.decls[r] \cap DOMAIN kb.decls[q] :
                SameDeclaration(kb.decls[r][name], kb.decls[q][name])

\* A declaration is of a role, a permission or a relation.
LEMMA DeclarationKinds ==
    ASSUME OrderInv, NEW r \in DOMAIN kb.decls, NEW name \in DOMAIN kb.decls[r]
    PROVE  kb.decls[r][name].is \in {"role", "permission", "relation"}
<1> DEFINE D == FirstEntries(loaded, Len(loaded))
<1>1. Gathered(kb, D) /\ r \in kb.resources
  BY DEF OrderInv, Inv, Policy, Says, Consistent, Agree
<1>2. PICK b \in BlocksOn(r, D) : name \in DOMAIN IndexDeclarations(b)
  BY <1>1 DEF Gathered
<1>3. SameDeclaration(kb.decls[r][name], IndexDeclarations(b)[name])
  BY <1>1, <1>2 DEF Gathered
<1>4. IndexDeclarations(b)[name].is \in {"role", "permission", "relation"}
  BY <1>2 DEF IndexDeclarations, Declared
<1> QED  BY <1>3, <1>4 DEF SameDeclaration

LEMMA OneRuleName ==
    ASSUME OrderInv, NEW r \in DOMAIN kb.decls, NEW name \in DOMAIN kb.decls[r]
    PROVE  /\ IsDeclared(name, r, kb)
           /\ RuleName(name, r, kb) = "has_relation" <=> IsRelation(name, r, kb)
<1>1. IsDeclared(name, r, kb) /\ Declaration(name, r, kb) = kb.decls[r][name]
  BY DEF IsDeclared, DeclarationsOf, Declaration
<1>2. kb.decls[r][name].is \in {"role", "permission", "relation"}
  BY DeclarationKinds
<1> QED  BY <1>1, <1>2 DEF RuleName, IsRelation

\* In a policy without errors the names of a shorthand rule are declared.
LEMMA ShorthandIsDeclared ==
    ASSUME OrderInv, NEW p \in AllShorthand(kb)
    PROVE  /\ p[1] \in DOMAIN kb.decls /\ p[2].head \in DOMAIN kb.decls[p[1]]
           /\ p[2].relation = NoRelation => p[2].implier \in DOMAIN kb.decls[p[1]]
           /\ p[2].relation # NoRelation =>
                /\ p[2].relation \in DOMAIN kb.decls[p[1]]
                /\ IsRelation(p[2].relation, p[1], kb)
                /\ RelationType(p[2].relation, p[1], kb) \in DOMAIN kb.decls
                /\ p[2].implier \in DOMAIN kb.decls[RelationType(p[2].relation, p[1], kb)]
<1> DEFINE there == RelationType(p[2].relation, p[1], kb)
<1>1. ShorthandErrors(p[2], p[1], kb) = {}
  BY DEF OrderInv, Policy, Valid, Rewritable
<1>2. \A name, r : IsDeclared(name, r, kb) => r \in DOMAIN kb.decls /\ name \in DOMAIN kb.decls[r]
  BY DEF IsDeclared, DeclarationsOf
<1> HIDE DEF there
<1>3. IsDeclared(p[2].head, p[1], kb)
  BY <1>1 DEF ShorthandErrors
<1>4. p[2].relation = NoRelation => IsDeclared(p[2].implier, p[1], kb)
  BY <1>1 DEF ShorthandErrors
<1>5. p[2].relation # NoRelation =>
        /\ IsRelation(p[2].relation, p[1], kb) /\ there \in DOMAIN kb.decls
        /\ IsDeclared(p[2].implier, there, kb)
  BY <1>1 DEF ShorthandErrors, there
<1> QED  BY <1>2, <1>3, <1>4, <1>5 DEF IsRelation, there

LEMMA ClassIsAskedFor ==
    ASSUME NEW name, NEW class, class # "Dictionary", NEW v,
           Asks(Bound(name, Instance(class, {})), v)
    PROVE  HasTag(v, class)
<1> DEFINE term == Instance(class, {})
           param == Bound(name, term)
<1>1. term.is = "Instance" /\ term.name = class /\ term.fields = {}
  BY DEF Instance, Term
<1>2. param.parameter.is = "Variable" /\ param.specializer = term
  BY DEF Bound, Param, Variable, Term
<1>3. term # NoTerm
  BY <1>1, PatternIsTerm DEF Patterns
<1> HIDE DEF term, param
<1>4. Asked(param) = term /\ ~HasMore(v, term) /\ ~AsksForDictionary(param)
  BY <1>1, <1>2 DEF Asked, HasMore, AsksForDictionary
<1>5. Allows(term, v)
  <2>1. Asks(param, v)
    BY DEF term, param
  <2> QED  BY <1>2, <1>4, <2>1 DEF Asks, Accepts
<1> QED  BY <1>1, <1>3, <1>5 DEF Allows

LEMMA NameIsTyped ==
    ASSUME NEW param, NEW name, NEW typed,
           CheckParam(param, Given(Str(typed)), kb) = "match", Accepts(param, Str(name))
    PROVE  name = typed
<1> DEFINE type == Given(Str(typed))
           isVar == param.parameter.is = "Variable"
<1>1. /\ type.parameter = Str(typed) /\ type.specializer = NoTerm
      /\ Str(typed).is = "String"
  BY DEF Given, Param, Str, Term
<1> HIDE DEF type
<1>2. ~(isVar /\ param.specializer # NoTerm)
  BY <1>1 DEF CheckParam, type
<1>3. CheckValueParam(param.parameter, Str(typed)) = "match"
  BY <1>1, <1>2 DEF CheckParam, type
<1>4. param.parameter = Str(typed)
  BY <1>1, <1>3 DEF CheckValueParam, Bool
<1>5. Str(name) = Str(typed)
  BY <1>1, <1>4 DEF Accepts
<1>6. Str(name).name = name /\ Str(typed).name = typed
  BY DEF Str, Term
<1> QED  BY <1>5, <1>6

LEMMA TuplesAreRelations ==
    ASSUME NEW t \in RelationTuples(kb)
    PROVE  /\ t.object \in DOMAIN kb.decls /\ IsRelation(t.name, t.object, kb)
           /\ t.subject = RelationType(t.name, t.object, kb)
  BY DEF RelationTuples

\* Who is in a relation is what the block says, whoever the rule is about.
LEMMA RelationIsTyped ==
    ASSUME OrderInv, OfBlocks, NEW rule \in kb.rules, rule.name = "has_relation",
           Len(rule.params) = 3, NEW a \in World, NEW x \in World, NEW name,
           Accepts(rule.params[1], a), Accepts(rule.params[2], Str(name)),
           Accepts(rule.params[3], x),
           NEW r, IsRelation(name, r, kb)
    PROVE  \E q \in DOMAIN kb.decls :
                /\ IsRelation(name, q, kb) /\ HasTag(x, q)
                /\ HasTag(a, RelationType(name, q, kb))
<1> DEFINE D == FirstEntries(loaded, Len(loaded))
           u == [subject |-> RelationType(name, r, kb), name |-> name, object |-> r]
           given == Type("has_relation", RelationParams(u), u \in RequiredTuples(kb),
                         Declaration(u.name, u.object, kb).first)
<1>1. /\ KnownClasses(kb) /\ IsRule(rule) /\ Fits(rule, kb)
      /\ SameTypes(kb.types, (DefaultTypes \cup TypesIn(D)) \cup ResourceSpecificTypes(kb))
  BY DEF OrderInv, Inv, Policy, Says, Consistent
<1>2. u \in RelationTuples(kb)
  BY RequiredAreRelations
<1>3. given \in ResourceSpecificTypes(kb)
  BY <1>2 DEF ResourceSpecificTypes, RelationParams
<1>4. given.name = "has_relation"
  BY DEF Type
<1> HIDE DEF D, given
<1>5. Named("has_relation", kb.types) # {}
  <2> DEFINE A == (DefaultTypes \cup TypesIn(D)) \cup ResourceSpecificTypes(kb)
  <2>1. given \in A /\ Heads(A) = Heads(kb.types)
    BY <1>1, <1>3 DEF SameTypes
  <2> HIDE DEF A
  <2>2. \E type \in kb.types : type.name = given.name /\ type.params = given.params
    BY <2>1, OnlyHeadsMatter
  <2> QED  BY <1>4, <2>2 DEF Named
<1>6. PICK type \in Named("has_relation", kb.types) : RuleParamsMatch(rule, type, kb) = "match"
  BY <1>1, <1>5 DEF Fits
<1>7. PICK t \in RelationTuples(kb) : type.params = RelationParams(t)
  BY <1>6 DEF OfBlocks
<1>8. /\ type.params[1] = Bound("subject", Instance(t.subject, {}))
      /\ type.params[2] = Given(Str(t.name))
      /\ type.params[3] = Bound("object", Instance(t.object, {}))
  BY <1>7 DEF RelationParams
<1>9. DOMAIN rule.params = 1 .. 3
  BY <1>1 DEF IsRule
<1>10. /\ \A i \in 1 .. 3 : CheckParam(rule.params[i], type.params[i], kb) = "match"
       /\ \A i \in 1 .. 3 : IsParam(rule.params[i])
  BY <1>1, <1>6, <1>9, RuleMatches DEF IsRule
<1>11. Asks(type.params[1], a) /\ Asks(type.params[3], x)
  BY <1>1, <1>10, ParamCovers
<1>12. HasTag(a, t.subject) /\ HasTag(x, t.object)
  BY <1>7, <1>8, <1>11, ClassIsAskedFor DEF OfBlocks
<1>13. name = t.name
  BY <1>8, <1>10, NameIsTyped
<1> QED
  BY <1>7, <1>12, <1>13, TuplesAreRelations

(***************************************************************************)
(* Facts                                                                   *)
(***************************************************************************)

\* A fact is about a name by what a resource of the value declares it as, and
\* whoever is in a relation is of the class that a resource of it declares.
IsFact(f) ==
    /\ f = <<f[1], f[2], f[3], f[4]>> /\ f[2] \in Objects /\ f[4] \in Objects
    /\ \E r \in DOMAIN kb.decls :
            /\ HasTag(f[4], r) /\ f[3] \in DOMAIN kb.decls[r]
            /\ f[1] = RuleName(f[3], r, kb)
    /\ f[1] = "has_relation" =>
            \E r \in DOMAIN kb.decls :
                /\ IsRelation(f[3], r, kb) /\ HasTag(f[4], r)
                /\ HasTag(f[2], RelationType(f[3], r, kb))

LEMMA Parts ==
    ASSUME NEW n, NEW a, NEW name, NEW x
    PROVE  LET f == <<n, a, name, x>>
           IN  /\ f[1] = n /\ f[2] = a /\ f[3] = name /\ f[4] = x
               /\ Tail(f) = <<a, name, x>>
  OBVIOUS

LEMMA IsOfItsClass ==
    ASSUME OrderInv, NEW v, ClassOf(v) \in DOMAIN kb.constants
    PROVE  HasTag(v, ClassOf(v))
  BY SubclassHasTag DEF OrderInv, Inv

LEMMA FactsFit ==
    ASSUME OrderInv, OfBlocks, NEW f \in Facts
    PROVE  IsFact(f)
<1> DEFINE r == ClassOf(f[4])
<1>1. /\ f = <<f[1], f[2], f[3], f[4]>> /\ f[2] \in Objects /\ f[4] \in Objects
      /\ IsDeclared(f[3], r, kb) /\ RuleName(f[3], r, kb) = f[1]
      /\ \E rule \in Named(f[1], kb.rules) :
            rule.body = <<>> /\ AcceptsCall(rule.params, <<f[2], Str(f[3]), f[4]>>)
  BY DEF Facts
<1>2. r \in DOMAIN kb.decls /\ f[3] \in DOMAIN kb.decls[r]
  BY <1>1 DEF IsDeclared, DeclarationsOf
<1>3. HasTag(f[4], r)
  BY <1>2, ResourcesAreRegistered, IsOfItsClass
<1>4. ASSUME f[1] = "has_relation"
      PROVE  \E q \in DOMAIN kb.decls :
                /\ IsRelation(f[3], q, kb) /\ HasTag(f[4], q)
                /\ HasTag(f[2], RelationType(f[3], q, kb))
  <2>1. PICK rule \in kb.rules :
            /\ rule.name = "has_relation"
            /\ AcceptsCall(rule.params, <<f[2], Str(f[3]), f[4]>>)
    BY <1>1, <1>4 DEF Named
  <2>2. /\ Len(rule.params) = 3 /\ Accepts(rule.params[1], f[2])
        /\ Accepts(rule.params[2], Str(f[3])) /\ Accepts(rule.params[3], f[4])
    BY <2>1 DEF AcceptsCall
  <2>3. IsRelation(f[3], r, kb)
    BY <1>1, <1>2, <1>4, OneRuleName
  <2>4. f[2] \in World /\ f[4] \in World
    BY <1>1 DEF Objects
  <2> HIDE DEF r
  <2> QED  BY <2>1, <2>2, <2>3, <2>4, RelationIsTyped
<1> QED
  BY <1>1, <1>2, <1>3, <1>4 DEF IsFact

\* Two resources of a value say the same of a name.
LEMMA SameName ==
    ASSUME NamesAgree, NEW v \in Objects, NEW r \in DOMAIN kb.decls, NEW q \in DOMAIN kb.decls,
           HasTag(v, r), HasTag(v, q),
           NEW name, name \in DOMAIN kb.decls[r], name \in DOMAIN kb.decls[q]
    PROVE  /\ RuleName(name, r, kb) = RuleName(name, q, kb)
           /\ RelationType(name, r, kb) = RelationType(name, q, kb)
<1>1. SameDeclaration(kb.decls[r][name], kb.decls[q][name])
  BY DEF NamesAgree
<1> QED  BY <1>1 DEF RuleName, RelationType, Declaration, SameDeclaration

(***************************************************************************)
(* A step of the rules, and of what the blocks say                         *)
(***************************************************************************)

\* What the body of a shorthand rule asks for, of facts.
Follows(p, a, x, facts) ==
    IF p[2].relation = NoRelation
    THEN <<RuleName(p[2].implier, p[1], kb), a, p[2].implier, x>> \in facts
    ELSE \E y \in Objects :
            /\ <<"has_relation", y, p[2].relation, x>> \in facts
            /\ <<RuleName(p[2].implier, RelationType(p[2].relation, p[1], kb), kb),
                 a, p[2].implier, y>> \in facts

\* The fact that it is about.
Concludes(p, a, x) == <<RuleName(p[2].head, p[1], kb), a, p[2].head, x>>

Applies(p, a, x) == HasTag(a, "Actor") /\ HasTag(x, p[1])

LEMMA RuleApplies ==
    ASSUME NEW p, NEW a, NEW x
    PROVE  LET rule == AsRule(p[2], p[1], kb)
           IN  /\ Accepts(rule.params[1], a) <=> HasTag(a, "Actor")
               /\ Accepts(rule.params[2], Str(p[2].head))
               /\ Accepts(rule.params[3], x) <=> HasTag(x, p[1])
               /\ rule.name = RuleName(p[2].head, p[1], kb)
               /\ rule.body = ShorthandBody(p[2], p[1], kb) /\ rule.body # <<>>
               /\ rule.params[2].parameter.name = p[2].head /\ Len(rule.params) = 3
<1> DEFINE rule == AsRule(p[2], p[1], kb)
<1>1. /\ rule.name = RuleName(p[2].head, p[1], kb)
      /\ rule.body = ShorthandBody(p[2], p[1], kb) /\ Len(rule.params) = 3
      /\ rule.params[1] = Bound("actor", Instance("Actor", {}))
      /\ rule.params[2] = Given(Str(p[2].head))
      /\ rule.params[3] = Bound("this", Instance(p[1], {}))
  BY DEF AsRule, Rule, HeadParams
<1>2. \A var, class, v : Accepts(Bound(var, Instance(class, {})), v) <=> HasTag(v, class)
  <2> TAKE var, class, v
  <2>1. /\ Instance(class, {}).is = "Instance" /\ Instance(class, {}).name = class
        /\ Instance(class, {}).fields = {}
    BY DEF Instance, Term
  <2>2. /\ Bound(var, Instance(class, {})).parameter.is = "Variable"
        /\ Bound(var, Instance(class, {})).specializer = Instance(class, {})
    BY DEF Bound, Param, Variable, Term
  <2>3. Instance(class, {}) # NoTerm
    BY <2>1, PatternIsTerm DEF Patterns
  <2>4. Allows(Instance(class, {}), v) <=> HasTag(v, class)
    BY <2>1, <2>3 DEF Allows
  <2> QED  BY <2>2, <2>4 DEF Accepts
<1>3. /\ Given(Str(p[2].head)).parameter = Str(p[2].head)
      /\ Str(p[2].head).is = "String" /\ Str(p[2].head).name = p[2].head
  BY DEF Given, Param, Str, Term
<1>4. Accepts(Given(Str(p[2].head)), Str(p[2].head))
  BY <1>3 DEF Accepts
<1>5. ShorthandBody(p[2], p[1], kb) # <<>>
  BY DEF ShorthandBody
<1> HIDE DEF rule
<1>6. /\ Accepts(rule.params[1], a) <=> HasTag(a, "Actor")
      /\ Accepts(rule.params[2], Str(p[2].head))
      /\ Accepts(rule.params[3], x) <=> HasTag(x, p[1])
      /\ rule.params[2].parameter.name = p[2].head
  BY <1>1, <1>2, <1>3, <1>4
<1> QED  BY <1>1, <1>5, <1>6 DEF rule

\* The rules with bodies are those of the shorthand rules.
LEMMA RulesOfBlocks ==
    ASSUME OrderInv, OfBlocks
    PROVE  {rule \in kb.rules : rule.body # <<>>} = BlockRules(kb)
<1>1. BlockRules(kb) \subseteq kb.rules
  BY DEF OrderInv, Policy, Says
<1>2. \A rule \in BlockRules(kb) : rule.body # <<>>
  BY RuleApplies DEF BlockRules
<1> QED  BY <1>1, <1>2 DEF OfBlocks

LEMMA PairsOfObjects ==
    ASSUME NEW pairs, pairs \subseteq Objects \X Objects
    PROVE  \A q \in pairs : q = <<q[1], q[2]>> /\ q[1] \in Objects /\ q[2] \in Objects
  OBVIOUS

LEMMA DerivedFacts ==
    ASSUME OrderInv, OfBlocks, NEW facts, NEW g
    PROVE  g \in Derive(facts) <=>
                \/ g \in facts
                \/ \E p \in AllShorthand(kb), a \in Objects, x \in Objects :
                        Applies(p, a, x) /\ Follows(p, a, x, facts) /\ g = Concludes(p, a, x)
<1> DEFINE value(variable, a, x, y) ==
                CASE variable = "actor" -> a [] variable = "this" -> x [] variable = "related" -> y
           holds(call, a, x, y) ==
                <<call.name, value(call.args[1], a, x, y), call.args[2],
                  value(call.args[3], a, x, y)>> \in facts
           meets(rule, a, x) ==
                /\ Accepts(rule.params[1], a) /\ Accepts(rule.params[3], x)
                /\ \E y \in Objects : \A i \in DOMAIN rule.body :
                        holds(rule.body[i], a, x, y)
           step(rule) ==
                {<<rule.name, q[1], rule.params[2].parameter.name, q[2]>> : q \in
                    {p \in Objects \X Objects :
                        /\ Accepts(rule.params[1], p[1]) /\ Accepts(rule.params[3], p[2])
                        /\ \E y \in Objects : \A i \in DOMAIN rule.body :
                                holds(rule.body[i], p[1], p[2], y)}}
           rules == {rule \in kb.rules : rule.body # <<>>}
<1>1. Derive(facts) = facts \cup UNION {step(rule) : rule \in rules}
  BY DEF Derive
<1>2. ASSUME NEW p, NEW a \in Objects, NEW x \in Objects
      PROVE  (\E y \in Objects : \A i \in DOMAIN ShorthandBody(p[2], p[1], kb) :
                    holds(ShorthandBody(p[2], p[1], kb)[i], a, x, y))
                <=> Follows(p, a, x, facts)
  <2>1. \A n, u, v, w : Call(n, <<u, v, w>>).name = n /\ Call(n, <<u, v, w>>).args[1] = u
                        /\ Call(n, <<u, v, w>>).args[2] = v /\ Call(n, <<u, v, w>>).args[3] = w
    BY DEF Call
  <2>2. \A y : value("actor", a, x, y) = a /\ value("this", a, x, y) = x
               /\ value("related", a, x, y) = y
    OBVIOUS
  <2> HIDE DEF value
  <2>3. CASE p[2].relation = NoRelation
    <3> DEFINE call == Call(RuleName(p[2].implier, p[1], kb),
                            <<"actor", p[2].implier, "this">>)
    <3>1. /\ DOMAIN ShorthandBody(p[2], p[1], kb) = {1}
          /\ ShorthandBody(p[2], p[1], kb)[1] = call
      BY <2>3 DEF ShorthandBody
    <3>2. \A y : holds(call, a, x, y) <=>
                    <<RuleName(p[2].implier, p[1], kb), a, p[2].implier, x>> \in facts
      BY <2>1, <2>2
    <3> HIDE DEF call, holds
    <3> QED  BY <2>3, <3>1, <3>2 DEF Follows
  <2>4. CASE p[2].relation # NoRelation
    <3> DEFINE there == RelationType(p[2].relation, p[1], kb)
               first == Call("has_relation", <<"related", p[2].relation, "this">>)
               second == Call(RuleName(p[2].implier, there, kb),
                              <<"actor", p[2].implier, "related">>)
    <3>1. /\ DOMAIN ShorthandBody(p[2], p[1], kb) = {1, 2}
          /\ ShorthandBody(p[2], p[1], kb)[1] = first
          /\ ShorthandBody(p[2], p[1], kb)[2] = second
      BY <2>4 DEF ShorthandBody
    <3>2. \A y : holds(first, a, x, y) <=> <<"has_relation", y, p[2].relation, x>> \in facts
      BY <2>1, <2>2
    <3>3. \A y : holds(second, a, x, y) <=>
                    <<RuleName(p[2].implier, there, kb), a, p[2].implier, y>> \in facts
      BY <2>1, <2>2
    <3> HIDE DEF first, second, holds
    <3> QED  BY <2>4, <3>1, <3>2, <3>3 DEF Follows
  <2> QED  BY <2>3, <2>4
<1>3. ASSUME NEW p
      PROVE  g \in step(AsRule(p[2], p[1], kb)) <=>
                \E a \in Objects, x \in Objects :
                    Applies(p, a, x) /\ Follows(p, a, x, facts) /\ g = Concludes(p, a, x)
  <2> DEFINE rule == AsRule(p[2], p[1], kb)
  <2> HIDE DEF holds
  <2>1. g \in step(rule) <=>
            \E a \in Objects, x \in Objects :
                meets(rule, a, x) /\ g = <<rule.name, a, rule.params[2].parameter.name, x>>
    <3> DEFINE pairs == {q \in Objects \X Objects : meets(rule, q[1], q[2])}
    <3> HIDE DEF rule, meets
    <3> DEFINE n == rule.name
               name == rule.params[2].parameter.name
    <3>1. step(rule) = {<<n, q[1], name, q[2]>> : q \in pairs}
      BY DEF meets
    <3>2. \A a \in Objects, x \in Objects : <<a, x>> \in pairs <=> meets(rule, a, x)
      OBVIOUS
    <3>3. pairs \subseteq Objects \X Objects
      OBVIOUS
    <3> HIDE DEF pairs, step, n, name
    <3>4. g \in step(rule) <=> \E q \in pairs : g = <<n, q[1], name, q[2]>>
      BY <3>1
    <3>5. (\E q \in pairs : g = <<n, q[1], name, q[2]>>) <=>
            \E a \in Objects, x \in Objects : <<a, x>> \in pairs /\ g = <<n, a, name, x>>
      <4>1. \A q \in pairs : q = <<q[1], q[2]>> /\ q[1] \in Objects /\ q[2] \in Objects
        BY <3>3, PairsOfObjects
      <4>2. \A a, x : <<a, x>>[1] = a /\ <<a, x>>[2] = x
        OBVIOUS
      <4> QED  BY <4>1, <4>2
    <3> QED  BY <3>2, <3>4, <3>5 DEF n, name
  <2>2. ASSUME NEW a \in Objects, NEW x \in Objects
        PROVE  /\ meets(rule, a, x) <=> Applies(p, a, x) /\ Follows(p, a, x, facts)
               /\ <<rule.name, a, rule.params[2].parameter.name, x>> = Concludes(p, a, x)
    <3>1. /\ Accepts(rule.params[1], a) <=> HasTag(a, "Actor")
          /\ Accepts(rule.params[3], x) <=> HasTag(x, p[1])
          /\ rule.name = RuleName(p[2].head, p[1], kb)
          /\ rule.body = ShorthandBody(p[2], p[1], kb)
          /\ rule.params[2].parameter.name = p[2].head
      BY RuleApplies
    <3> HIDE DEF rule
    <3> QED  BY <1>2, <3>1 DEF Applies, Concludes
  <2> HIDE DEF meets, step, rule
  <2>3. g \in step(rule) <=>
            \E a \in Objects, x \in Objects :
                Applies(p, a, x) /\ Follows(p, a, x, facts) /\ g = Concludes(p, a, x)
    BY <2>1, <2>2
  <2> QED  BY <2>3 DEF rule
<1> HIDE DEF step
<1>4. rules = BlockRules(kb)
  BY RulesOfBlocks
<1>5. (\E rule \in rules : g \in step(rule)) <=>
            \E p \in AllShorthand(kb) : g \in step(AsRule(p[2], p[1], kb))
  BY <1>4 DEF BlockRules
<1> HIDE DEF rules
<1> QED
  BY <1>1, <1>3, <1>5

\* The same of tuples, of which it is not said what the name is declared as.
Has(s, a, x, tuples) ==
    IF s.relation = NoRelation THEN <<a, s.implier, x>> \in tuples
    ELSE \E y \in Objects : <<y, s.relation, x>> \in tuples /\ <<a, s.implier, y>> \in tuples

LEMMA ImpliedTuples ==
    ASSUME NEW tuples, NEW g
    PROVE  g \in Imply(tuples) <=>
                \/ g \in tuples
                \/ \E p \in AllShorthand(kb), a \in Objects, x \in Objects :
                        Applies(p, a, x) /\ Has(p[2], a, x, tuples) /\ g = <<a, p[2].head, x>>
<1> DEFINE implied(p) ==
                {<<r[1], p[2].head, r[2]>> : r \in
                    {q \in Objects \X Objects : /\ HasTag(q[1], "Actor")
                                                /\ HasTag(q[2], p[1])
                                                /\ Has(p[2], q[1], q[2], tuples)}}
<1>1. Imply(tuples) = tuples \cup UNION {implied(p) : p \in AllShorthand(kb)}
  BY DEF Imply, Has
<1>2. ASSUME NEW p
      PROVE  g \in implied(p) <=>
                \E a \in Objects, x \in Objects :
                    Applies(p, a, x) /\ Has(p[2], a, x, tuples) /\ g = <<a, p[2].head, x>>
  <2> DEFINE pairs == {q \in Objects \X Objects :
                            Applies(p, q[1], q[2]) /\ Has(p[2], q[1], q[2], tuples)}
  <2> DEFINE head == p[2].head
  <2>1. implied(p) = {<<q[1], head, q[2]>> : q \in pairs}
    BY DEF Applies
  <2>2. \A a \in Objects, x \in Objects :
            <<a, x>> \in pairs <=> Applies(p, a, x) /\ Has(p[2], a, x, tuples)
    OBVIOUS
  <2>3. pairs \subseteq Objects \X Objects
    OBVIOUS
  <2> HIDE DEF pairs, implied, head
  <2>4. g \in implied(p) <=> \E q \in pairs : g = <<q[1], head, q[2]>>
    BY <2>1
  <2>5. (\E q \in pairs : g = <<q[1], head, q[2]>>) <=>
            \E a \in Objects, x \in Objects : <<a, x>> \in pairs /\ g = <<a, head, x>>
    <3>1. \A q \in pairs : q = <<q[1], q[2]>> /\ q[1] \in Objects /\ q[2] \in Objects
      BY <2>3, PairsOfObjects
    <3>2. \A a, x : <<a, x>>[1] = a /\ <<a, x>>[2] = x
      OBVIOUS
    <3> QED  BY <3>1, <3>2
  <2> QED  BY <2>2, <2>4, <2>5 DEF head
<1> HIDE DEF implied
<1> QED
  BY <1>1, <1>2

LEMMA TailOfFact ==
    ASSUME NEW f, IsFact(f)
    PROVE  Tail(f) = <<f[2], f[3], f[4]>>
<1>1. PICK n, a, name, x : f = <<n, a, name, x>>
  BY DEF IsFact
<1> QED  BY <1>1, Parts

\* The tuple of a name that is declared as n comes from the fact about n.
LEMMA TupleIsFact ==
    ASSUME OrderInv, NamesAgree, NEW facts, \A f \in facts : IsFact(f),
           NEW a, NEW name, NEW x, <<a, name, x>> \in {Tail(f) : f \in facts},
           NEW r \in DOMAIN kb.decls, HasTag(x, r), name \in DOMAIN kb.decls[r]
    PROVE  /\ <<RuleName(name, r, kb), a, name, x>> \in facts
           /\ IsRelation(name, r, kb) => HasTag(a, RelationType(name, r, kb))
<1>1. PICK f \in facts : <<a, name, x>> = Tail(f)
  OBVIOUS
<1>2. IsFact(f) /\ f[2] = a /\ f[3] = name /\ f[4] = x
  BY <1>1, TailOfFact
<1>3. x \in Objects /\ f = <<f[1], a, name, x>>
  BY <1>2 DEF IsFact
<1>4. f[1] = RuleName(name, r, kb)
  <2>1. PICK q \in DOMAIN kb.decls :
            HasTag(x, q) /\ name \in DOMAIN kb.decls[q] /\ f[1] = RuleName(name, q, kb)
    BY <1>2 DEF IsFact
  <2> QED  BY <1>3, <2>1, SameName
<1>5. IsRelation(name, r, kb) => HasTag(a, RelationType(name, r, kb))
  <2> SUFFICES ASSUME IsRelation(name, r, kb) PROVE HasTag(a, RelationType(name, r, kb))
    OBVIOUS
  <2>1. f[1] = "has_relation"
    BY <1>4, OneRuleName
  <2>2. PICK q \in DOMAIN kb.decls :
            IsRelation(name, q, kb) /\ HasTag(x, q) /\ HasTag(a, RelationType(name, q, kb))
    BY <1>2, <2>1 DEF IsFact
  <2>3. name \in DOMAIN kb.decls[q]
    BY <2>2 DEF IsRelation, IsDeclared, DeclarationsOf
  <2> QED  BY <1>3, <2>2, <2>3, SameName
<1> QED
  BY <1>1, <1>3, <1>4, <1>5

\* What a rule derives is a fact as well.
LEMMA ConcludesFact ==
    ASSUME OrderInv, OfBlocks, NEW p \in AllShorthand(kb),
           NEW a \in Objects, NEW x \in Objects, Applies(p, a, x)
    PROVE  IsFact(Concludes(p, a, x)) /\ Tail(Concludes(p, a, x)) = <<a, p[2].head, x>>
<1> DEFINE n == RuleName(p[2].head, p[1], kb)
           f == <<n, a, p[2].head, x>>
           rule == AsRule(p[2], p[1], kb)
<1>1. /\ f = Concludes(p, a, x) /\ f[1] = n /\ f[2] = a /\ f[3] = p[2].head /\ f[4] = x
      /\ Tail(f) = <<a, p[2].head, x>>
  BY Parts DEF Concludes
<1>2. p[1] \in DOMAIN kb.decls /\ p[2].head \in DOMAIN kb.decls[p[1]]
  BY ShorthandIsDeclared
<1>3. HasTag(a, "Actor") /\ HasTag(x, p[1]) /\ a \in World /\ x \in World
  BY DEF Applies, Objects
<1>4. /\ Accepts(rule.params[1], a) /\ Accepts(rule.params[2], Str(p[2].head))
      /\ Accepts(rule.params[3], x) /\ rule.name = n /\ Len(rule.params) = 3
  BY <1>3, RuleApplies
<1>5. rule \in kb.rules
  BY DEF BlockRules, OrderInv, Policy, Says
<1> HIDE DEF rule, n
<1>6. ASSUME n = "has_relation"
      PROVE  \E q \in DOMAIN kb.decls :
                /\ IsRelation(p[2].head, q, kb) /\ HasTag(x, q)
                /\ HasTag(a, RelationType(p[2].head, q, kb))
  <2>1. IsRelation(p[2].head, p[1], kb)
    BY <1>2, <1>6, OneRuleName DEF n
  <2> QED  BY <1>3, <1>4, <1>5, <1>6, <2>1, RelationIsTyped
<1>7. IsFact(f)
  BY <1>1, <1>2, <1>3, <1>6 DEF IsFact, n
<1> QED
  BY <1>1, <1>7

\* If each fact is one of its tuple, a step of the rules is one of the blocks.
LEMMA StepsAgree ==
    ASSUME OrderInv, OfBlocks, NamesAgree, NEW facts, \A f \in facts : IsFact(f)
    PROVE  /\ \A f \in Derive(facts) : IsFact(f)
           /\ {Tail(f) : f \in Derive(facts)} = Imply({Tail(f) : f \in facts})
<1> DEFINE tuples == {Tail(f) : f \in facts}
<1>1. \A f \in facts : Tail(f) \in tuples /\ Tail(f) = <<f[2], f[3], f[4]>>
  BY TailOfFact
<1>2. ASSUME NEW p \in AllShorthand(kb), NEW a \in Objects, NEW x \in Objects, Applies(p, a, x)
      PROVE  Follows(p, a, x, facts) <=> Has(p[2], a, x, tuples)
  <2>1. HasTag(x, p[1]) /\ p[1] \in DOMAIN kb.decls
    BY <1>2, ShorthandIsDeclared DEF Applies
  <2>2. \A n, u, name, v : <<n, u, name, v>> \in facts => <<u, name, v>> \in tuples
    <3> HIDE DEF tuples
    <3> TAKE n, u, name, v
    <3> DEFINE f == <<n, u, name, v>>
    <3>1. f[2] = u /\ f[3] = name /\ f[4] = v
      OBVIOUS
    <3> HIDE DEF f
    <3>2. f \in facts => <<u, name, v>> \in tuples
      BY <1>1, <3>1
    <3> QED  BY <3>2 DEF f
  <2>3. CASE p[2].relation = NoRelation
    <3>1. p[2].implier \in DOMAIN kb.decls[p[1]]
      BY <2>3, ShorthandIsDeclared
    <3>2. <<a, p[2].implier, x>> \in tuples =>
                <<RuleName(p[2].implier, p[1], kb), a, p[2].implier, x>> \in facts
      BY <2>1, <3>1, TupleIsFact
    <3> HIDE DEF tuples
    <3> QED  BY <2>2, <2>3, <3>2 DEF Follows, Has
  <2>4. CASE p[2].relation # NoRelation
    <3> DEFINE there == RelationType(p[2].relation, p[1], kb)
    <3>1. /\ p[2].relation \in DOMAIN kb.decls[p[1]] /\ IsRelation(p[2].relation, p[1], kb)
          /\ there \in DOMAIN kb.decls /\ p[2].implier \in DOMAIN kb.decls[there]
      BY <2>4, ShorthandIsDeclared
    <3>2. RuleName(p[2].relation, p[1], kb) = "has_relation"
      BY <2>1, <3>1, OneRuleName
    <3>3. ASSUME NEW y \in Objects,
                 <<y, p[2].relation, x>> \in tuples, <<a, p[2].implier, y>> \in tuples
          PROVE  /\ <<"has_relation", y, p[2].relation, x>> \in facts
                 /\ <<RuleName(p[2].implier, there, kb), a, p[2].implier, y>> \in facts
      <4>1. /\ <<"has_relation", y, p[2].relation, x>> \in facts
            /\ HasTag(y, there)
        BY <2>1, <3>1, <3>2, <3>3, TupleIsFact
      <4>2. <<RuleName(p[2].implier, there, kb), a, p[2].implier, y>> \in facts
        BY <3>1, <3>3, <4>1, TupleIsFact
      <4> QED  BY <4>1, <4>2
    <3> HIDE DEF tuples
    <3> QED  BY <2>2, <2>4, <3>3 DEF Follows, Has
  <2> QED  BY <2>3, <2>4
<1>3. ASSUME NEW f \in Derive(facts) PROVE IsFact(f) /\ Tail(f) \in Imply(tuples)
  <2>1. CASE f \in facts
    BY <1>1, <2>1, ImpliedTuples
  <2>2. ASSUME NEW p \in AllShorthand(kb), NEW a \in Objects, NEW x \in Objects,
               Applies(p, a, x), Follows(p, a, x, facts), f = Concludes(p, a, x)
        PROVE  IsFact(f) /\ Tail(f) \in Imply(tuples)
    <3>1. IsFact(f) /\ Tail(f) = <<a, p[2].head, x>>
      BY <2>2, ConcludesFact
    <3>2. Has(p[2], a, x, tuples)
      BY <1>2, <2>2
    <3> HIDE DEF tuples
    <3> QED  BY <2>2, <3>1, <3>2, ImpliedTuples
  <2> QED  BY <1>3, <2>1, <2>2, DerivedFacts
<1>4. ASSUME NEW g \in Imply(tuples) PROVE \E f \in Derive(facts) : g = Tail(f)
  <2>1. CASE g \in tuples
    <3>1. PICK f \in facts : g = Tail(f)
      BY <2>1
    <3> QED  BY <3>1, DerivedFacts
  <2>2. ASSUME NEW p \in AllShorthand(kb), NEW a \in Objects, NEW x \in Objects,
               Applies(p, a, x), Has(p[2], a, x, tuples), g = <<a, p[2].head, x>>
        PROVE  \E f \in Derive(facts) : g = Tail(f)
    <3>1. Tail(Concludes(p, a, x)) = g
      BY <2>2, ConcludesFact
    <3>2. Follows(p, a, x, facts)
      BY <1>2, <2>2
    <3>3. Concludes(p, a, x) \in Derive(facts)
      BY <2>2, <3>2, DerivedFacts
    <3> QED  BY <3>1, <3>3
  <2> HIDE DEF tuples
  <2> QED  BY <1>4, <2>1, <2>2, ImpliedTuples
<1>5. {Tail(f) : f \in Derive(facts)} = Imply(tuples)
  <2> HIDE DEF tuples
  <2> QED  BY <1>3, <1>4
<1> QED
  BY <1>3, <1>5

(***************************************************************************)
(* Steps after steps                                                       *)
(***************************************************************************)

IsDerived(after, m, facts) ==
    after = [n \in 0 .. m |-> IF n = 0 THEN facts ELSE Derive(after[n - 1])]
IsImplied(after, m, tuples) ==
    after = [n \in 0 .. m |-> IF n = 0 THEN tuples ELSE Imply(after[n - 1])]

LEMMA FactsAreDerived ==
    ASSUME NEW facts, NEW m \in Nat
    PROVE  \E after : IsDerived(after, m, facts)
<1> DEFINE T == {n \in Nat : ~ \E after : IsDerived(after, n, facts)}
<1> SUFFICES ASSUME T # {} PROVE FALSE
  OBVIOUS
<1>1. PICK n \in T : \A j \in T : n <= j
  BY HasLeast
<1>2. CASE n = 0
  <2>1. IsDerived([i \in 0 .. 0 |-> facts], 0, facts)
    BY DEF IsDerived
  <2> QED  BY <1>2, <2>1
<1>3. CASE n # 0
  <2>1. n - 1 \in Nat /\ n - 1 \notin T
    BY <1>1, <1>3
  <2>2. PICK before : IsDerived(before, n - 1, facts)
    BY <2>1
  <2> DEFINE after == [i \in 0 .. n |-> IF i = n THEN Derive(before[n - 1]) ELSE before[i]]
             expected == [i \in 0 .. n |-> IF i = 0 THEN facts ELSE Derive(after[i - 1])]
  <2>3. before = [i \in 0 .. n - 1 |-> IF i = 0 THEN facts ELSE Derive(before[i - 1])]
    BY <2>2 DEF IsDerived
  <2>4. ASSUME NEW i \in 0 .. n PROVE after[i] = expected[i]
    <3>1. CASE i = 0
      BY <1>3, <2>1, <2>3, <3>1
    <3>2. CASE i # 0 /\ i # n
      <4>1. i \in 0 .. n - 1 /\ i - 1 \in 0 .. n - 1 /\ i - 1 # n
        BY <3>2
      <4>2. before[i] = Derive(before[i - 1])
        BY <2>3, <3>2, <4>1
      <4>3. after[i - 1] = before[i - 1]
        BY <4>1
      <4> QED  BY <3>2, <4>2, <4>3
    <3>3. CASE i # 0 /\ i = n
      <4>1. after[i - 1] = before[i - 1]
        BY <3>3
      <4> QED  BY <3>3, <4>1
    <3> QED  BY <3>1, <3>2, <3>3
  <2>5. after = expected
    BY <2>4
  <2>6. IsDerived(after, n, facts)
    BY <2>5 DEF IsDerived
  <2> QED  BY <2>6
<1> QED
  BY <1>2, <1>3

LEMMA TuplesAreImplied ==
    ASSUME NEW tuples, NEW m \in Nat
    PROVE  \E after : IsImplied(after, m, tuples)
<1> DEFINE T == {n \in Nat : ~ \E after : IsImplied(after, n, tuples)}
<1> SUFFICES ASSUME T # {} PROVE FALSE
  OBVIOUS
<1>1. PICK n \in T : \A j \in T : n <= j
  BY HasLeast
<1>2. CASE n = 0
  <2>1. IsImplied([i \in 0 .. 0 |-> tuples], 0, tuples)
    BY DEF IsImplied
  <2> QED  BY <1>2, <2>1
<1>3. CASE n # 0
  <2>1. n - 1 \in Nat /\ n - 1 \notin T
    BY <1>1, <1>3
  <2>2. PICK before : IsImplied(before, n - 1, tuples)
    BY <2>1
  <2> DEFINE after == [i \in 0 .. n |-> IF i = n THEN Imply(before[n - 1]) ELSE before[i]]
             expected == [i \in 0 .. n |-> IF i = 0 THEN tuples ELSE Imply(after[i - 1])]
  <2>3. before = [i \in 0 .. n - 1 |-> IF i = 0 THEN tuples ELSE Imply(before[i - 1])]
    BY <2>2 DEF IsImplied
  <2>4. ASSUME NEW i \in 0 .. n PROVE after[i] = expected[i]
    <3>1. CASE i = 0
      BY <1>3, <2>1, <2>3, <3>1
    <3>2. CASE i # 0 /\ i # n
      <4>1. i \in 0 .. n - 1 /\ i - 1 \in 0 .. n - 1 /\ i - 1 # n
        BY <3>2
      <4>2. before[i] = Imply(before[i - 1])
        BY <2>3, <3>2, <4>1
      <4>3. after[i - 1] = before[i - 1]
        BY <4>1
      <4> QED  BY <3>2, <4>2, <4>3
    <3>3. CASE i # 0 /\ i = n
      <4>1. after[i - 1] = before[i - 1]
        BY <3>3
      <4> QED  BY <3>3, <4>1
    <3> QED  BY <3>1, <3>2, <3>3
  <2>5. after = expected
    BY <2>4
  <2>6. IsImplied(after, n, tuples)
    BY <2>5 DEF IsImplied
  <2> QED  BY <2>6
<1> QED
  BY <1>2, <1>3

\* After each number of steps the rules say of facts what the blocks say.
LEMMA ChainsAgree ==
    ASSUME OrderInv, OfBlocks, NamesAgree, NEW facts, \A f \in facts : IsFact(f)
    PROVE  {Tail(f) : f \in AllDerived(facts)} = AllImplied({Tail(f) : f \in facts})
<1> DEFINE tuples == {Tail(f) : f \in facts}
           derived == CHOOSE after : IsDerived(after, MaxChain, facts)
           implied == CHOOSE after : IsImplied(after, MaxChain, tuples)
<1>1. MaxChain \in Nat
  BY KbAssumption
<1>2. AllDerived(facts) = derived[MaxChain] /\ AllImplied(tuples) = implied[MaxChain]
  BY DEF AllDerived, AllImplied, IsDerived, IsImplied
<1>3. IsDerived(derived, MaxChain, facts)
  BY <1>1, FactsAreDerived
<1>4. IsImplied(implied, MaxChain, tuples)
  BY <1>1, TuplesAreImplied
<1> HIDE DEF derived, implied
<1>5. ASSUME NEW n \in 0 .. MaxChain
      PROVE  /\ derived[n] = IF n = 0 THEN facts ELSE Derive(derived[n - 1])
             /\ implied[n] = IF n = 0 THEN tuples ELSE Imply(implied[n - 1])
  BY <1>3, <1>4 DEF IsDerived, IsImplied
<1> DEFINE Good(n) == /\ \A f \in derived[n] : IsFact(f)
                      /\ {Tail(f) : f \in derived[n]} = implied[n]
           T == {n \in 0 .. MaxChain : ~Good(n)}
<1>6. ASSUME T # {} PROVE FALSE
  <2>1. PICK n \in T : \A j \in T : n <= j
    <3>1. T \in SUBSET Nat
      BY <1>1
    <3> HIDE DEF T
    <3> QED  BY <1>6, <3>1, HasLeast
  <2>2. CASE n = 0
    BY <1>5, <2>1, <2>2
  <2>3. CASE n # 0
    <3>1. n \in 0 .. MaxChain /\ n - 1 \in 0 .. MaxChain /\ n - 1 \notin T
      BY <1>1, <2>1, <2>3
    <3>2. Good(n - 1)
      BY <3>1
    <3>3. derived[n] = Derive(derived[n - 1]) /\ implied[n] = Imply(implied[n - 1])
      BY <1>5, <2>3, <3>1
    <3>4. /\ \A f \in Derive(derived[n - 1]) : IsFact(f)
          /\ {Tail(f) : f \in Derive(derived[n - 1])} = Imply({Tail(f) : f \in derived[n - 1]})
      BY <3>2, StepsAgree
    <3>5. Good(n)
      BY <3>2, <3>3, <3>4
    <3> QED  BY <2>1, <3>5
  <2> QED  BY <2>2, <2>3
<1>7. Good(MaxChain)
  BY <1>1, <1>6
<1> QED
  BY <1>2, <1>7

\* In such a policy the rules that the blocks stand for derive, in any number
\* of steps and from whatever roles and relations the data of the application
\* has, what the blocks say (shorthand_rule_body_to_rule_body,
\* ShorthandRule::as_rule).
THEOREM BlocksAlwaysMean == Spec => [](OfBlocks /\ NamesAgree => BlocksMean)
<1>1. OrderInv => (OfBlocks /\ NamesAgree => BlocksMean)
  <2> SUFFICES ASSUME OrderInv, OfBlocks, NamesAgree, NEW facts \in SUBSET Facts
               PROVE  {Tail(f) : f \in AllDerived(facts)} = AllImplied({Tail(f) : f \in facts})
    BY DEF BlocksMean
  <2>1. \A f \in facts : IsFact(f)
    BY FactsFit
  <2> QED  BY <2>1, ChainsAgree
<1> QED  BY <1>1, OrderInvariance, PTL
================================================================================
