----------------------------- MODULE PolicySources -----------------------------
(***************************************************************************)
(* What is made of the sources of a policy: diagnostic_load of             *)
(* polar-core/src/polar.rs, from the lines of each source to the rules,    *)
(* types and blocks of the knowledge base and to the diagnostics.          *)
(*                                                                         *)
(* A source is a file name, or NoFile, and a content; Text says what the   *)
(* parser makes of a content.  Values of parameters, specializers and      *)
(* blocks are those of RuleTypes and ResourceBlocks; calls in bodies are   *)
(* listed, and what else bodies do is left to the virtual machine.         *)
(***************************************************************************)
EXTENDS ResourceBlocks

CONSTANT Text       \* a content -> [parses, lines]

Contents == DOMAIN Text

EmptyKb ==
    [constants |-> <<>>, mro |-> <<>>, rules |-> {}, types |-> DefaultTypes,
     decls |-> <<>>, shorthand |-> <<>>, actors |-> {}, resources |-> {},
     files |-> {}, contents |-> {}, queries |-> <<>>]

\* A knowledge base has these parts.
IsKb(k) ==
    k = [constants |-> k.constants, mro |-> k.mro, rules |-> k.rules, types |-> k.types,
         decls |-> k.decls, shorthand |-> k.shorthand, actors |-> k.actors,
         resources |-> k.resources, files |-> k.files, contents |-> k.contents,
         queries |-> k.queries]

\* What the parser makes of the head of a rule: a parameter is a variable,
\* perhaps with a specializer, or a value.
IsParam(param) ==
    param.parameter.is # "Variable" =>
        param.specializer = NoTerm /\ param.parameter.is \notin Patterns

IsRule(rule) ==
    /\ rule = Rule(rule.name, rule.params, rule.body, rule.lint, rule.at)
    /\ DOMAIN rule.params = 1 .. Len(rule.params)
    /\ \A i \in DOMAIN rule.params : IsParam(rule.params[i])

IsLine(line) ==
    /\ line.is \in {"rule", "type", "block", "query"}
    /\ line.is = "rule" => IsRule(line.it)
    /\ line.is = "type" =>
            line.it = Type(line.it.name, line.it.params, line.it.required, line.it.at)
    /\ line.is = "block" =>
            line.it = [keyword |-> line.it.keyword, resource |-> line.it.resource,
                       productions |-> line.it.productions, at |-> line.it.at]

ASSUME TextAssumption ==
    \A c \in Contents :
        LET lines == Text[c].lines
        IN  /\ DOMAIN lines = 1 .. Len(lines) /\ Len(lines) \in Nat
            /\ \A i \in DOMAIN lines : IsLine(lines[i])

(***************************************************************************)
(* The lines of a source                                                   *)
(***************************************************************************)

\* A line is a record: what it is, and the rule, rule type, block or query.
\* dots: the head of a rule type would be rewritten, for it has a dot in it.
RuleLine(rule) == [is |-> "rule", it |-> rule]
TypeLine(type, dots) == [is |-> "type", it |-> type, dots |-> dots]
QueryLine(name) == [is |-> "query", it |-> name]
BlockLine(block) == [is |-> "block", it |-> block]

Add(acc, base, diagnostics) ==
    [kb |-> base, diagnostics |-> acc.diagnostics \cup diagnostics]

LoadRule(acc, rule) ==
    Add(acc, [acc.kb EXCEPT !.rules = @ \cup {rule}], RuleWarnings(rule, acc.kb))

LoadType(acc, type, dots) ==
    IF dots THEN Add(acc, acc.kb, {Diagnostic("InvalidRuleType", type.at)})
    ELSE Add(acc, [acc.kb EXCEPT !.types = @ \cup {type}], {})

LoadBlock(acc, block) ==
    LET added == AddToKb(acc.kb, BlockOf(block))
    IN  Add(acc, added.kb, BlockErrors(block) \cup added.diagnostics)

LoadQuery(acc, query) == Add(acc, [acc.kb EXCEPT !.queries = Append(@, query)], {})

LoadLine(acc, line, at) ==
    CASE line.is = "rule" -> LoadRule(acc, [line.it EXCEPT !.at = at])
      [] line.is = "type" -> LoadType(acc, [line.it EXCEPT !.at = at], line.dots)
      [] line.is = "block" -> LoadBlock(acc, [line.it EXCEPT !.at = at])
      [] line.is = "query" -> LoadQuery(acc, line.it)

\* All of them, one after the other.
LoadLines(acc, lines, at) ==
    LET after[n \in 0 .. Len(lines)] ==
            IF n = 0 THEN acc ELSE LoadLine(after[n - 1], lines[n], at)
    IN  after[Len(lines)]

(***************************************************************************)
(* Sources                                                                 *)
(***************************************************************************)

NoFile == "no file"

\* check_file.
FileIsNew(source, base) ==
    source.filename # NoFile =>
        source.filename \notin base.files /\ source.src \notin base.contents

\* add_source.
Remember(source, base) ==
    IF source.filename = NoFile THEN base
    ELSE [base EXCEPT !.files = @ \cup {source.filename}, !.contents = @ \cup {source.src}]

\* add_source and load_source: a source that is refused, or does not parse,
\* leaves nothing but its error, and the next one is loaded all the same.
LoadSource(acc, source) ==
    LET remembered == Add(acc, Remember(source, acc.kb), {})
        failed(a, kind) == Add(a, a.kb, {Diagnostic(kind, source.filename)})
    IN  CASE ~FileIsNew(source, acc.kb) -> failed(acc, "FileLoading")
          [] FileIsNew(source, acc.kb) /\ ~Text[source.src].parses ->
                failed(remembered, "Parse")
          [] OTHER -> LoadLines(remembered, Text[source.src].lines, source.filename)

LoadSources(acc, sources) ==
    LET after[n \in 0 .. Len(sources)] ==
            IF n = 0 THEN acc ELSE LoadSource(after[n - 1], sources[n])
    IN  after[Len(sources)]

\* Diagnostic::is_unrecoverable.
Unrecoverable(diagnostics) ==
    \E d \in diagnostics : d.kind \in {"Parse", "FileLoading", "ResourceBlock"}

\* The rules and types that blocks stand for.
WithBlocks(acc) ==
    LET rewritten == RewriteShorthandRules(acc.kb)
    IN  Add(acc, rewritten.kb, rewritten.diagnostics)

WithTypes(base) == [base EXCEPT !.types = @ \cup ResourceSpecificTypes(base)]

\* validate_rules and the warnings about the whole policy, for each of the
\* errors that the validation of the rule types may find first.
Validated(acc) ==
    LET errors == RuleTypeErrors(acc.kb)
        rest == CallErrors(acc.kb) \cup PolicyWarnings(acc.kb)
    IN  {Add(acc, acc.kb, rest \cup first) :
            first \in IF errors = {} THEN {{}} ELSE {{e} : e \in errors}}

\* The rest of diagnostic_load, of what the sources and then the blocks left:
\* an unrecoverable error ends it.
ValidatedUnless(rewritten) ==
    IF Unrecoverable(rewritten.diagnostics) THEN {rewritten}
    ELSE Validated([rewritten EXCEPT !.kb = WithTypes(@)])

RewrittenUnless(added) ==
    IF Unrecoverable(added.diagnostics) THEN {added}
    ELSE UNION {ValidatedUnless(rewritten) : rewritten \in {WithBlocks(added)}}

\* diagnostic_load: what it may leave and report.
DiagnosticLoad(base, sources) ==
    UNION {RewrittenUnless(added) :
           added \in {LoadSources([kb |-> base, diagnostics |-> {}], sources)}}

Warnings ==
    {"UnknownSpecializer", "AmbiguousPrecedence", "MissingAllowRule",
     "MissingHasPermissionRule"}

Errors(diagnostics) == {d \in diagnostics : d.kind \notin Warnings}

\* clear_rules: the classes stay.
Cleared(base) == [EmptyKb EXCEPT !.constants = base.constants, !.mro = base.mro]
================================================================================
