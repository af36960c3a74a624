------------------------------- MODULE DataModel -------------------------------
(***************************************************************************)
(* What the host has registered about its types, the records it keeps, and *)
(* what a constraint says of a record.                                     *)
(*                                                                         *)
(* Types is the map the host sends along (serialize_types of               *)
(* polar/data_filtering.py): for a class and a field either a relation to  *)
(* another class, with the columns that join them, or a base field.  A     *)
(* database db is a record: db.of[class] is the set of objects of a class, *)
(* db.col[object, column] the set of values in a column, of one value for  *)
(* a plain column, of any number for a collection, empty for a null.       *)
(***************************************************************************)
EXTENDS Partials, Functions, FiniteSetsExt

CONSTANT Types

Relation(kind, other, mine, theirs) ==
    [is |-> "relation", kind |-> kind, other |-> other, mine |-> mine,
     theirs |-> theirs]
Base == [is |-> "base", kind |-> "one", other |-> "", mine |-> "", theirs |-> ""]

\* What a relation to one gives when there is none: the host's null.
Nil == 0

Known(class, field)      == <<class, field>> \in DOMAIN Types
IsRelation(class, field) == Known(class, field)
                            /\ Types[class, field].is = "relation"

Column(db, o, c) == IF c = "id" THEN {o} ELSE db.col[o, c]

Objects(db)    == UNION Range(db.of)
ClassOf(db, o) == CHOOSE c \in DOMAIN db.of : o \in db.of[c]

\* The records that a relation of o leads to.
Related(db, o, r) ==
    {x \in db.of[r.other] : Column(db, o, r.mine) \cap Column(db, x, r.theirs) # {}}

\* What o.field is in the host.
Member(db, o, field) ==
    LET class   == ClassOf(db, o)
        r       == Types[class, field]
        related == Related(db, o, r)
    IN  IF o \notin Objects(db) THEN {}
        ELSE IF ~IsRelation(class, field) THEN Column(db, o, field)
        ELSE IF r.kind = "one" /\ related = {} THEN {Nil}
        ELSE related

RECURSIVE Meant(_, _, _)
Meant(db, env, t) ==
    CASE IsVar(t)      -> {env[t]}
      [] IsLit(t)      -> {t.val}
      [] t.is = "Dot"  -> UNION {Member(db, o, t.name) :
                                   o \in Meant(db, env, t.args[1])}
      [] t.is = "List" -> UNION {Meant(db, env, t.args[i]) : i \in DOMAIN t.args}

\* The variables of a negation, or a forall, that nothing outside binds are
\* under it: no value of theirs may satisfy what is negated.
RECURSIVE Outside(_)
Outside(t) == IF IsVar(t) THEN {t} ELSE IF t.is \in {"Not", "ForAll"} THEN {}
              ELSE UNION {Outside(t.args[i]) : i \in DOMAIN t.args}

\* One operation, given what its parts come to.
HoldsOf(db, env, t, Part(_)) ==
    LET of(i) == Meant(db, env, t.args[i])
    IN  CASE t.is = "And" -> \A i \in DOMAIN t.args : Part(t.args[i])
          [] t.is = "Or"  -> \E i \in DOMAIN t.args : Part(t.args[i])
          [] t.is = "Not" -> ~Part(t.args[1])
          [] t.is = "ForAll" -> ~Part(Op("And", <<t.args[1], Not(t.args[2])>>))
          [] t.is = "Isa" -> of(1) \subseteq db.of[t.name]
          [] t.is = "In"  -> of(1) \cap of(2) # {}
          [] OTHER -> \E a \in of(1), b \in of(2) : Compares(t.is, a, b)

(* Values for the free variables, one at a time.  A variable that a          *)
(* conjunct equates with, or places in, something already known is given    *)
(* the values that has; there is no need to try the others.                *)
Givers(env, t, v) ==
    {i \in DOMAIN t.args : /\ t.args[i].is \in {"Unify", "In"}
                           /\ t.args[i].args[1] = v
                           /\ VariablesOf(t.args[i].args[2]) \subseteq DOMAIN env}

RECURSIVE Satisfied(_, _, _)
Satisfied(db, env, t) ==
    LET free  == Outside(t) \ DOMAIN env
        ready == {v \in free : t.is = "And" /\ Givers(env, t, v) # {}}
    IN  IF free = {}
        THEN HoldsOf(db, env, t, LAMBDA part : Satisfied(db, env, part))
        ELSE LET v == CHOOSE v \in free : ready # {} => v \in ready
                 values == IF v \in ready
                           THEN Meant(db, env,
                                      t.args[CHOOSE i \in Givers(env, t, v) : TRUE].args[2])
                           ELSE Objects(db) \cup UNION Range(db.col)
             IN  \E x \in values :
                   Satisfied(db, [w \in DOMAIN env \cup {v} |->
                                    IF w = v THEN x ELSE env[w]], t)

\* A record satisfies a partial on a variable.
Satisfies(db, o, var, t) ==
    IF IsLit(t) THEN t.val = o
    ELSE Satisfied(db, [v \in {var} |-> o], t)

(***************************************************************************)
(* partition_equivs: classes of equal variables, from pairs taken in a     *)
(* given order.  A pair goes into the first class that has either side;    *)
(* two classes that a later pair joins stay two classes.                   *)
(***************************************************************************)
Joined(classes, pair) ==
    LET hits == {i \in DOMAIN classes : classes[i] \cap pair # {}}
    IN  IF hits = {} THEN Append(classes, pair)
        ELSE [classes EXCEPT ![Min(hits)] = @ \cup pair]

PartitionEquivs(pairs) == FoldLeft(Joined, <<>>, pairs)
=============================================================================
