----------------------------- MODULE ResourceBlocks -----------------------------
(***************************************************************************)
(* Resource blocks (polar-core/src/resource_block.rs, and the functions of *)
(* polar-core/src/kb.rs that turn them into rules and rule types).         *)
(*                                                                         *)
(* A block of a policy is a record: its keyword, the name of the resource, *)
(* its productions in their order, and the source it is in.  A production  *)
(* declares names (roles, permissions: a list; relations: a dictionary),   *)
(* or is a shorthand rule: head if implier, or head if implier on relation.*)
(*                                                                         *)
(* Of a knowledge base this module reads and extends                       *)
(*   decls      resource -> declared name -> what it is declared as        *)
(*   shorthand  resource -> its shorthand rules                            *)
(*   actors, resources    the unions                                       *)
(*                                                                         *)
(* Abstractions.  The variables of a rewritten rule are called actor, this *)
(* and related; the code makes them of the names of the classes in lower   *)
(* case, so that they are distinct too unless a class is named to clash.   *)
(***************************************************************************)
EXTENDS RuleTypes, SequencesExt

NoRelation == "no relation"

Declares(name, form, list, dict) ==
    [is |-> name, form |-> form, list |-> list, dict |-> dict,
     head |-> "", implier |-> "", keyword |-> "", relation |-> NoRelation]
Shorthand(head, implier, keyword, relation) ==
    [is |-> "shorthand", form |-> "", list |-> <<>>, dict |-> {},
     head |-> head, implier |-> implier, keyword |-> keyword, relation |-> relation]

\* The names of a dictionary given as a set of pairs <<name, class>>.
Keys(dict) == {pair[1] : pair \in dict}

(***************************************************************************)
(* From productions to a block                                             *)
(***************************************************************************)

BlockError(at) == Diagnostic("ResourceBlock", at)

\* validate_parsed_declaration.
WellFormed(p) ==
    \/ p.is \in {"roles", "permissions"} /\ p.form = "List"
    \/ p.is = "relations" /\ p.form = "Dictionary"

\* block_type_from_keyword; without a good one the block is a resource.
GoodKeyword(block) == block.keyword \in {"actor", "resource"}

Declarations(block, name) ==
    SelectSeq(block.productions, LAMBDA p : p.is = name /\ WellFormed(p))

\* resource_block_from_productions: the last declaration of each kind, all of
\* the shorthand rules, and an error for each declaration that is repeated or
\* not well formed, and for the keyword.
BlockOf(block) ==
    LET last(name, none) ==
            LET ds == Declarations(block, name) IN IF ds = <<>> THEN none ELSE Last(ds)
        rules == {p \in ToSet(block.productions) : p.is = "shorthand"}
    IN  [actor |-> block.keyword = "actor",
         resource |-> block.resource,
         at |-> block.at,
         roles |-> last("roles", Declares("roles", "List", <<>>, {})).list,
         permissions |-> last("permissions", Declares("permissions", "List", <<>>, {})).list,
         relations |-> last("relations", Declares("relations", "Dictionary", <<>>, {})).dict,
         shorthand |-> {[head |-> p.head, implier |-> p.implier, keyword |-> p.keyword,
                         relation |-> p.relation, at |-> block.at] : p \in rules}]

BlockErrors(block) ==
    IF /\ GoodKeyword(block)
       /\ \A p \in ToSet(block.productions) : p.is # "shorthand" => WellFormed(p)
       /\ \A name \in {"roles", "permissions", "relations"} :
                Len(Declarations(block, name)) <= 1
    THEN {} ELSE {BlockError(block.at)}

(***************************************************************************)
(* From a block to the knowledge base                                      *)
(***************************************************************************)

\* What a name is declared as; first: the source that declared it first.
Declared(is, type, at) == [is |-> is, type |-> type, at |-> at, first |-> at]

\* index_declarations: no name may be declared twice in a block.
DeclaredNames(b) == b.roles \o b.permissions \o SetToSeq(Keys(b.relations))
DeclaredTwice(b) == ~IsInjective(DeclaredNames(b))

IndexDeclarations(b) ==
    [name \in ToSet(DeclaredNames(b)) |->
        CASE name \in ToSet(b.roles) -> Declared("role", "", b.at)
          [] name \in ToSet(b.permissions) -> Declared("permission", "", b.at)
          [] OTHER -> Declared("relation",
                               (CHOOSE r \in b.relations : r[1] = name)[2], b.at)]

DeclarationsOf(resource, kb) ==
    IF resource \in DOMAIN kb.decls THEN kb.decls[resource] ELSE <<>>
ShorthandOf(resource, kb) ==
    IF resource \in DOMAIN kb.shorthand THEN kb.shorthand[resource] ELSE {}

SameDeclaration(d, e) == d.is = e.is /\ d.type = e.type

\* A mutant of MergeDeclarations: a block that is opened again replaces what
\* was declared.
ReplaceDeclarations(old, new) == new

\* What is declared anew prevails; the key of the map is the older one.
MergeDeclarations(old, new) ==
    [name \in DOMAIN old \cup DOMAIN new |->
        CASE name \notin DOMAIN new -> old[name]
          [] name \notin DOMAIN old -> new[name]
          [] OTHER -> [new[name] EXCEPT !.first = old[name].first]]

Redeclared(old, new) ==
    {name \in DOMAIN old \cap DOMAIN new : ~SameDeclaration(old[name], new[name])}

At(f, key, value) == [k \in DOMAIN f \cup {key} |-> IF k = key THEN value ELSE f[k]]

\* A mutant of Unions: an actor is not a resource.
SeparateUnions(base, b) ==
    IF b.actor THEN [base EXCEPT !.actors = @ \cup {b.resource}]
    ELSE [base EXCEPT !.resources = @ \cup {b.resource}]

\* An actor block goes into both of the unions.
Unions(base, b) ==
    [base EXCEPT !.actors = IF b.actor THEN @ \cup {b.resource} ELSE @,
                 !.resources = @ \cup {b.resource}]

\* ResourceBlocks::add: a block may be opened again, in any source.
AddBlock(kb, b, declarations) ==
    [Unions(kb, b) EXCEPT
        !.decls = At(@, b.resource,
                     MergeDeclarations(DeclarationsOf(b.resource, kb), declarations)),
        !.shorthand = At(@, b.resource, ShorthandOf(b.resource, kb) \cup b.shorthand)]

\* ResourceBlock::add_to_kb: a block with a name declared twice is not added.
AddToKb(kb, b) ==
    LET declarations == IndexDeclarations(b)
        twice == Diagnostic("DuplicateResourceBlockDeclaration", b.at)
        class == IF b.resource \in DOMAIN kb.constants THEN {}
                 ELSE {Diagnostic("UnregisteredClass", b.at)}
    IN  IF DeclaredTwice(b)
        THEN [kb |-> kb, diagnostics |-> class \cup {twice}]
        ELSE [kb |-> AddBlock(kb, b, declarations),
              diagnostics |-> class \cup
                    {twice : n \in Redeclared(DeclarationsOf(b.resource, kb), declarations)}]

(***************************************************************************)
(* Shorthand rules                                                         *)
(***************************************************************************)

IsDeclared(name, resource, kb) == name \in DOMAIN DeclarationsOf(resource, kb)
Declaration(name, resource, kb) == kb.decls[resource][name]
IsRelation(name, resource, kb) ==
    /\ IsDeclared(name, resource, kb)
    /\ Declaration(name, resource, kb).is = "relation"

\* get_relation_type_in_resource_block.
RelationType(relation, resource, kb) == Declaration(relation, resource, kb).type

\* Declaration::as_rule_name, of what the name is declared as in the block.
RuleName(name, resource, kb) ==
    CASE Declaration(name, resource, kb).is = "role" -> "has_role"
      [] Declaration(name, resource, kb).is = "permission" -> "has_permission"
      [] OTHER -> "has_relation"

Call(name, args) == [name |-> name, args |-> args]

HeadParams(head, resource) ==
    <<Bound("actor", Instance("Actor", {})), Given(Str(head)),
      Bound("this", Instance(resource, {}))>>

Rule(name, params, body, lint, at) ==
    [name |-> name, params |-> params, body |-> body, lint |-> lint, at |-> at]

\* A mutant of ShorthandBody: what the implier is, is looked up in the block
\* of the rule.
ShorthandBodyLocal(s, resource, kb) ==
    IF s.relation = NoRelation
    THEN <<Call(RuleName(s.implier, resource, kb), <<"actor", s.implier, "this">>)>>
    ELSE <<Call("has_relation", <<"related", s.relation, "this">>),
           Call(IF IsDeclared(s.implier, resource, kb) THEN RuleName(s.implier, resource, kb)
                ELSE "has_role", <<"actor", s.implier, "related">>)>>

\* shorthand_rule_body_to_rule_body.
ShorthandBody(s, resource, kb) ==
    IF s.relation = NoRelation
    THEN <<Call(RuleName(s.implier, resource, kb), <<"actor", s.implier, "this">>)>>
    ELSE <<Call("has_relation", <<"related", s.relation, "this">>),
           Call(RuleName(s.implier, RelationType(s.relation, resource, kb), kb),
                <<"actor", s.implier, "related">>)>>

\* The source of the error that keeps a shorthand rule from being rewritten,
\* or none: an undeclared head, the keyword, the relation, the implier.  A
\* block that is missing is an error at the declaration of the relation.
ShorthandErrors(s, resource, kb) ==
    IF \/ ~IsDeclared(s.head, resource, kb)
       \/ s.relation = NoRelation /\ ~IsDeclared(s.implier, resource, kb)
       \/ s.relation # NoRelation /\ s.keyword # "on"
       \/ s.relation # NoRelation /\ ~IsRelation(s.relation, resource, kb)
    THEN {BlockError(s.at)}
    ELSE IF s.relation = NoRelation THEN {}
    ELSE IF RelationType(s.relation, resource, kb) \notin DOMAIN kb.decls
    THEN {BlockError(Declaration(s.relation, resource, kb).at)}
    ELSE IF ~IsDeclared(s.implier, RelationType(s.relation, resource, kb), kb)
    THEN {BlockError(s.at)}
    ELSE {}

\* ShorthandRule::as_rule.
AsRule(s, resource, kb) ==
    Rule(RuleName(s.head, resource, kb), HeadParams(s.head, resource),
         ShorthandBody(s, resource, kb), {}, s.at)

\* The shorthand rules of all blocks, each with its resource.
AllShorthand(kb) ==
    UNION {{<<resource, s>> : s \in kb.shorthand[resource]} : resource \in DOMAIN kb.shorthand}

\* relation_tuples.
RelationTuples(kb) ==
    UNION {{[subject |-> RelationType(name, object, kb), name |-> name, object |-> object] :
                name \in {n \in DOMAIN kb.decls[object] : IsRelation(n, object, kb)}} :
           object \in DOMAIN kb.decls}

\* rewrite_shorthand_rules: the rules that can be rewritten are added, whether
\* or not others cannot.
RewriteShorthandRules(kb) ==
    LET failing(pair) == ShorthandErrors(pair[2], pair[1], kb)
        good == {pair \in AllShorthand(kb) : failing(pair) = {}}
        unregistered == {t \in RelationTuples(kb) : t.subject \notin DOMAIN kb.constants}
    IN  [kb |-> [kb EXCEPT !.rules = @ \cup {AsRule(pair[2], pair[1], kb) : pair \in good}],
         diagnostics |->
            (UNION {failing(pair) : pair \in AllShorthand(kb)}) \cup
            {Diagnostic("UnregisteredClass", Declaration(t.name, t.object, kb).at) :
                t \in unregistered}]

(***************************************************************************)
(* Rule types                                                              *)
(***************************************************************************)

\* A mutant of RequiredTuples: the relation that a rule goes along is required,
\* the relation that implies, on the other side, is not.
RequiredAlong(kb) ==
    {[subject |-> RelationType(p[2].relation, p[1], kb), name |-> p[2].relation,
      object |-> p[1]] :
        p \in {q \in AllShorthand(kb) : IsRelation(q[2].relation, q[1], kb)}}

\* The relations that shorthand rules go along, and those that imply in them.
RequiredTuples(kb) ==
    LET tuple(name, object) == [subject |-> RelationType(name, object, kb),
                                name |-> name, object |-> object]
        along == {p \in AllShorthand(kb) : IsRelation(p[2].relation, p[1], kb)}
        there(p) == RelationType(p[2].relation, p[1], kb)
    IN  {tuple(p[2].relation, p[1]) : p \in along}
        \cup {tuple(p[2].implier, there(p)) :
                p \in {q \in along : IsRelation(q[2].implier, there(q), kb)}}
        \cup {tuple(p[2].implier, p[1]) :
                p \in {q \in AllShorthand(kb) : /\ q[2].relation = NoRelation
                                                /\ IsRelation(q[2].implier, q[1], kb)}}

\* create_resource_specific_rule_types: one for each relation that is declared,
\* required if a shorthand rule uses it, and has_role if there are any roles.
ResourceSpecificTypes(kb) ==
    LET typeOf(t, required) ==
            Type("has_relation",
                 <<Bound("subject", Instance(t.subject, {})), Given(Str(t.name)),
                   Bound("object", Instance(t.object, {}))>>,
                 required, Declaration(t.name, t.object, kb).first)
        roles == {d \in DOMAIN kb.decls :
                    \E n \in DOMAIN kb.decls[d] : kb.decls[d][n].is = "role"}
        required == RequiredTuples(kb)
    IN  {typeOf(t, t \in required) : t \in RelationTuples(kb)}
        \cup {Type("has_role",
                   <<Bound("actor", Instance("Actor", {})), Bound("role", Instance("String", {})),
                     Bound("resource", Instance("Resource", {}))>>, TRUE, NoSource) : d \in roles}
================================================================================
