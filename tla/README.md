# Polar, the policy engine of oso, in TLA+

This directory models and checks the engine under `src/polar-core/src`, its
language server, and what the Python library does with a data filtering request:
how a policy is loaded, validated and rewritten, how the virtual machine finds
rules and answers a query, how variables are bound, constrained and rolled back,
how `not` is evaluated, how the constraints on an unknown resource become a filter
over the application's data, and what an editor is shown. Names in the modules
are those of the source wherever TLA+ allows; `PROJECT.json` gives, for each
definition, the lines it stands for. File names below without a directory are in
`src/polar-core/src`.

## 1. The system

A `Polar` instance owns one `KnowledgeBase` behind a read-write lock. A language
library (Python, Ruby, Node, Java, Go, Rust) loads sources into it and makes
`Query` objects from it. A query runs in one thread: `next_event` runs the
virtual machine until it needs something, the library answers (`call_result`,
`question_result`, `application_error`) and asks for the next event. When the
resource of a query is unknown, its results are constraints; they are simplified
and turned into a filter, which the library hands to an adapter.

| component | state | operations | interacts with | what is hard | what makes it correct |
| --- | --- | --- | --- | --- | --- |
| Identifier counter (`counter.rs`) | one `AtomicU64` | `next` | all threads, VMs and runnables | two atomic operations per call; the wrap | an id is not handed out twice |
| Binding manager (`bindings.rs`) | stack of (variable, value); followers | `bind`, `add_constraint`, `variable_state`, `bsp`, `backtrack` | the VM, which queries again the goals it hands back | cycles of variables, partials, look-ups through both, re-evaluation, truncation | the stack means what was told; look-ups and re-evaluation end; backtracking restores |
| Constraints (`partial/partial.rs`) | none | `variables`, `ground`, `merge_constraints`, `invert`, `mirror` | binding manager, simplifier, inverter | grounding that finds a contradiction, negation | meaning is kept |
| Inverter (`inverter.rs`) | a cloned VM, results, current follower | `run` | a runnable of the query; its follower mirrors a binding manager | follower and main stack see different histories; the negation of what was collected | the follower holds what the operand added; the constraint it leaves is the negation |
| Virtual machine (`vm.rs`) | goals, choices, queries, bindings, call ids, error, timer | one instruction per goal | knowledge base, binding manager, query | cut by query-stack prefix, conditionals, incremental sorting, answers that arrive later | the answers of the term, in order, and then an end |
| Choice of rules (`vm.rs`, `rules.rs`, `partial/isa_constraint_check.rs`) | an index; positions of a sort; a check in progress | `get_applicable_rules`, `filter_rules`, `sort_rules`, `isa_expr` | knowledge base, host | a comparison that is no order, questions to the host in between | the rules that match are called, the more specific ones first |
| Terms and numbers (`vm.rs`, `terms.rs`, `numerics.rs`) | bindings and choices | `unify`, `isa`, `lookup`, `in`, comparison, arithmetic | binding manager | rest variables, numbers of two kinds, width | no solution is lost or invented |
| Query (`query.rs`, `runnable.rs`, `events.rs`) | stack of runnables with call ids | `next_event`, `call_result`, `question_result`, `application_error` | VM, inverters, application | which runnable an answer or error belongs to | the same as the VM's |
| Loading (`polar.rs`) | the shared knowledge base | `load`, `diagnostic_load`, `clear_rules`, `next_inline_query` | threads of the application | three critical sections in one load | failed loads leave nothing, the policy is valid |
| Knowledge base (`kb.rs`, `rules.rs`, `sources.rs`, `validations.rs`) | rules, rule types, blocks, unions, sources, files, constants, MROs | `add_source`, `add_rule`, `validate_rules`, `clear_rules`, registration | loading, VM, language server | which shapes of parameters fit which | accepted rules are within their types |
| Resource blocks (`resource_block.rs`) | declarations, shorthand rules, unions | `add`, rewriting, required rule types | loading | blocks that name each other, in any order | the rewritten rules derive what the blocks say |
| Rewrites (`rewrites.rs`) | none | lookups become conjuncts | loading | where a conjunct must go | the body means the same |
| Simplifier (`partial/simplify.rs`) | bindings of one run | `simplify_partial`, `simplify_bindings` | VM results, inverter | term rewriting to a fixpoint | meaning on the outputs is kept |
| Data filtering (`filter.rs`, `data_filtering.rs`, `normalize.rs`; `data_filtering.py`, the adapter) | a plan in the making | filters and plans from results | library adapters | unions, joins, several results | what is fetched is what is permitted |
| Language server (`polar-language-server`, the VS Code client) | documents; what is shown | one handler per notification | editor and its watchers, knowledge base | events that are late or come twice | shown diagnostics are current, files are known |
| Debugger, traces, messages, errors, parser, formatter | little or none | | | text | left out |

## 2. Modules

| module | models | extends | checked by |
| --- | --- | --- | --- |
| `IdCounter` | `Counter::next` by any number of threads | | `MC_IdCounter` |
| `Bindings` | the binding stack as data | | the four below |
| `ConstraintStore` | abstract: a store that is told constraints and can be rolled back | `Bindings` | target of `BindingManager` |
| `BindingManager` | the stack under goals, choices, cut and backtracking | `Bindings` | `MC_BindingManager` |
| `Reevaluation` | one branch: goals that binding hands back, queried again | `Bindings` | `MC_Reevaluation` |
| `Inverter` | a main stack and its follower while `not` runs its operand | `Bindings` | `MC_Inverter` |
| `VirtualMachine`, `Query` | every goal of the VM; run loop, stack of runnables, application | `Query` the first | `MC_Query` |
| `QueryAnswers` | abstract: the answers come in order, then the query ends | | target of `QueryMeaning` |
| `QueryMeaning` | the answers a term has, and that the query gives them | `Query` | `MC_Query` |
| `RuleSpecificity`, `IsaCheck` | index and comparison of rules, class checks of partials | `IsaCheck` the first | `MC_RuleChoice` |
| `RuleChoice` | filtering, sorting and calling the rules of a call | `IsaCheck` | `MC_RuleChoice` |
| `Numerics` | comparison, hash and integer arithmetic of numbers, with two theorems | | `MC_Unification` |
| `Unification` | goals on lists, dictionaries, patterns and numbers | `Numerics` | `MC_Unification` |
| `PolicyLoad` | concurrent loads, clears and inline queries | | `MC_PolicyLoad` |
| `RuleTypes` | parameters and rule types, validation | | `MC_KnowledgeBase` |
| `ResourceBlocks` | blocks: declarations, rewriting, required types | `RuleTypes` | `MC_KnowledgeBase` |
| `PolicySources` | `diagnostic_load`: from sources to rules and diagnostics | `ResourceBlocks` | the two below |
| `KnowledgeBase` | registering, loading and clearing, one call a step | `PolicySources` | `MC_KnowledgeBase` |
| `LanguageServer` | the server's handlers, the editor, its watchers | `PolicySources` | `MC_LanguageServer` |
| `Partials` | constraint terms, inversion, mirrors | | `MC_DataFiltering` |
| `Simplifier` | simplification | `Partials` | `MC_DataFiltering` |
| `DataModel` | types, records, and what a constraint says of a record | `Partials` | `MC_DataFiltering` |
| `PartialQuery` | rewriting of a body, and the VM on it when its resource is unknown, `not` included | `Simplifier` | `MC_DataFiltering` |
| `Filter`, `FilterPlan` | the two ways to filter data | `DataModel` | `MC_DataFiltering` |
| `DataFiltering` | a request from bodies to fetched records | the three above | `MC_DataFiltering` |
| `IdCounter_proof`, `BindingManager_proof`, `Query_proof`, `PolicyLoad_proof`, `KnowledgeBase_proof`, `RuleChoice_proof`, `LanguageServer_proof` | theorems | the module and TLAPS | |

How state and actions correspond to the code:

- **IdCounter.** `next` is the atomic; `pc` holds a thread between the failed
  compare-exchange (`CasFails`) and its `FetchAdd`; `Wrap` is the exchange that
  succeeds. `lap` is history. `U64` is the width at which the addition wraps.
- **Bindings.** An entry's value is a ground value, a variable or a partial (a
  sequence of constraints). Each operator returns what the Rust function pushes
  (`push`), the goals it hands back (`requery`) and whether it fits (`ok`). Ground
  values are compared by equality; constraints are `=` and `!=`. The variables of a
  constraint are pushed in one order where the code takes a `HashSet`'s: all get
  the same partial, so no look-up can tell.
- **BindingManager.** `stack` is `bindings`; a choice has the `Bsp` it was made
  with and, as history, the stack itself. `StateGoal` is a goal of the policy,
  `Requery` one that was handed back, and those run first. `PushChoice`, `Cut` and
  `Backtrack` are the VM's. A `bind` that does not fit is a failed branch and an
  `add_constraint` that does not fit an error, as the callers in `vm.rs` make them.
- **Reevaluation.** The same without choices; entries hidden by later ones of the
  same variable are dropped, so that a loop shows up as a loop.
- **Inverter.** `main` is the clone's stack, `follower` the one follower, told
  first or last exactly as in `bind` and `add_constraint`; `Result` takes the
  follower away and puts an empty one with a new id in place; `FollowerBacktrack`
  is the lookup by id in the choice's `Bsps`.
- **VirtualMachine, Query and QueryMeaning.** A machine is a record of the stacks and flags of
  `PolarVirtualMachine`. `Perform` is `next`; each goal has one operator. `vms` is
  the query's machine and, above it, the machines of the inverters on the runnable
  stack. `RunGoal` pops and performs one goal, with the timeout test before it;
  `Result` and `Resume` are the two ends of `run`; `AnswerCall`, `AnswerNext`,
  `AnswerIsa` and `NextEvent` are the language library's handlers. Terms are
  ground: `Fact(b)` stands for a call that leaves the binding `b`, and whether a
  rule's head fits and how specific it is are attributes of the rule. Time is
  counted in goals. `QueryMeaning` says what the answers are by recursion over the
  terms (`Solve`) and keeps them as history (`outcome`), which the query must give.
- **RuleChoice.** A rule is its number in the policy; `FilterRule` tries the next
  one of the index on the arguments. A partial as argument starts an
  `IsaConstraintCheck` for each way it is reached (`StartCheck`); `Run` and
  `HostAnswers` are the runnable and the library's answer. `Swap` and `NextOuter`
  are the two sides of the conditional of `sort_rules`, with a host that answers
  `is_subspecializer` from the MRO.
- **Unification.** `goals`, `choices` and `bindings` are the machine's stacks; each
  `...Next` action pops a goal and does what its helper does: replace it by goals,
  bind, leave alternatives, fail, or end in an error. Operands are looked up as in
  `query_op_helper`.
- **PolicyLoad.** `Check`, `Lock`/`AddSource`/`Validate`, and `Clear` are the
  critical sections of one load. Entries carry the number of their load as history.
  A rule is its name, the shape of its parameters and the rules it calls; an inline
  query is the name of a rule and succeeds when there is such a rule.
- **KnowledgeBase.** `kb` is the record of the maps of `KnowledgeBase`; a source is
  the lines its text parses to. `Load` is what a library's `load` does: it registers
  the ancestors of the classes there are by then (`RegisterMros`, `host.py:128`), and
  then comes `diagnostic_load` and what is made of its diagnostics, in one step: the
  interleaving is `PolicyLoad`'s. `RefusedLoad` is a load where there are rules.
- **LanguageServer.** `documents` is the server's map, `shown` what the editor has
  been told per file; `buffers` and `disk` are the editor's and the user's. `unseen`
  and `deleted` are changes the watchers have not yet told of, `trashed` deletions the
  editor has not; the two come in either order. `astray` are files that were worked on
  before their deletion was heard of.
- **DataFiltering.** `Answer` runs the next body with `PartialQuery` and simplifies
  its results as the result event does; `StartFilter`, `AddConjunction` build the
  filter of all results; `BuildPlan` the plan. Fetching is a function of a database.

## 3. Runs

"Pass" runs finish with no error; each property has a mutant in `PROJECT.json`: a
changed definition, beside the real one in the same module, that makes the run
find a violation.

| run | shows | states |
| --- | --- | --- |
| `counter_fresh` | three threads, `MaxId` 4, width 16: ids are fresh within a lap through every interleaving, including laps that jump over `MaxId` | 20 956 |
| `bindings` | three variables, two values, three goals, two nested choices, cut anywhere: the stack implements `ConstraintStore` (nothing lost, nothing invented, failure only when nothing is left), backtracking restores, look-ups end, no `IncompatibleBindings` surfaces | 42 379 |
| `requery_settles` | any three of the comparisons over three variables and two values: what is handed back settles, within the goal stack, and the branch answers exactly its goals | 4 387 |
| `not_follower` | two outer and two inner constraints, one choice: followers never say more than main, and the first says all of it | 285 505 |
| `query` | about four thousand pairs of policy and query, each with and without a timeout: the answers in order (`QueryAnswers`), an end, no panic, balanced query stacks (the specification is `PromiseSpec` of `QueryMeaning`: `Spec` with its history) | 280 132 |
| `policy_load` | two threads, three loads out of eight: failed loads leave nothing, validity, files once | 21 456 |
| `knowledge_base` | single texts, all pairs of ten policies of blocks and of nine of rule types, longer loads, classes registered before or after, and loads that are refused: blocks mean what they say, rules are within their types, the order of the sources does not matter | 17 356 |
| `language_server` | two files in nested directories, two changes from outside, every lateness of the watchers and of the editor's deletions, in either order: diagnostics are current, all files are known, deleted ones are not | 28 403 |
| `data_filtering` | every request of one or two simple conditions, of one body or two, and of harder ones alone, over twelve databases: results mean the rules, filter and plan fetch the permitted records | 2 606 |
| `filter_mirror` | violation, below | |
| `rule_choice` | three rules of one parameter, or four of two, with values, classes, fields and unions; numbers, instances and partials as arguments, and a partial with an instance | 112 572 |
| `terms` | all integers of four bits with all floats, all results of integer arithmetic, booleans compared with both, strings by their order, all pairs of short lists with rests, rows of two and three goals | 26 315 |

Bounds, and why they are enough to meet the cases that matter:

- `MaxId` 4 with three threads: all three can pass the failed exchange just below
  it, so that the counter jumps by up to three, and the width 16 lets it wrap.
- `bindings`: three goals over three variables are the smallest number that joins
  two partials, extends a cycle, or grounds a partial through a cycle. For queries
  without inequations on variables nothing depends on the bound: three of the
  properties are proved for any number of goals and variables (section 5). With
  inequations three goals are as far as all of them hold (section 4). `MaxStack`
  bounds what a requery finds on the stack (18 entries; three goals push fewer).
  `MaxChoices` 2 nests a choice in another; choices with no and with two alternatives
  arise. Values are interchangeable, and so are variables: nothing depends on their
  names, and the order in which the variables of one constraint are pushed is not
  seen through their states; hence the symmetry.
- `requery_settles` at three goals is exact but not the whole truth: at four there
  are queries that never settle (section 4).
- `StackLimit` 40 in place of 10 000: rules without a base case reach it, and no
  other query of the run does. `MaxDepth` 4 bounds nested inverters; no query of
  `query` nests more. `Timeouts` 0 and 60: queries that end before, and loops,
  sorts and negations that are cut short by the timer. `Endless` names the rules
  without a base case whose first way in never ends: calling them ends in an error,
  after the answers that come before.
- `MaxLoads` 3: a load can fail between another's check and its own adding, and a
  third one sees what they left.
- `knowledge_base` loads at most five sources: two resources, an actor, and the
  relation rules of both. Facts of data range over all sets. `MaxChain` 4 is more
  steps than a chain of their rules has; nothing depends on it (section 5).
- `language_server`: `MaxChanges` 2 changes outside the editor allow one to overtake
  the notification of another, and the editor and the watcher to notify one deletion
  in either order; the editor itself is not bounded. Three texts: a
  block that needs a rule, the rule, and a syntax error, so that each file repairs
  or breaks the other.
- `data_filtering`: conditions over a number, a relation to one and a relation to
  many, a collection, and each connective; databases with nulls, shared and
  distinct related records. A condition on a null relation is where `bar != B1` and
  `not bar = B1` could differ; `PlanRoot` is the class asked for.
- `rule_choice`: three rules let a comparison that is no order misplace one; four
  with a rule of another arity show the index. Two parameters meet a partial and an
  instance, so that a rule with a value for the partial is not ground, and is tried.
- `terms`: `Exact` 4 and `MaxInt` 7, so that there are integers that are floats,
  integers that are not, floats beyond all integers on both sides, and halves only
  below four. Lists of two items and a rest meet lists that are shorter, as long and
  longer. For the numbers the theorems leave the bound behind.

Terminal states are real: a query ends, a branch halts, a request is answered. So
deadlock is only checked where something can always be done: the counter, the
loads (whose threads can clear or return), and the knowledge base.

**Fairness.** `Query` has weak fairness of `Next`: one thread runs the query and
answers its events, so as long as anything can be done something is (an
application that never asks again is not running the query). `Reevaluation` has
weak fairness of taking a goal off the stack, which is what the `while let` of
`run` does; stating further goals is not fair. The other modules state no liveness:
their loops are bounded walks over what they are given.

## 4. Where the code differs from what is said of it

One divergence is a run. `filter_mirror` checks `ResultsMean` with a request whose
body says `1 <= n and n > 1`: the results should mean what the rule says, but
simplification takes a constraint for a duplicate when its mirror image is already
there, and `mirror` (`partial/partial.rs:279`) negates the comparison as well as
turning its operands around. One of the two is dropped, and the filter fetches `n = 1`.

The others are properties stated in the modules, next to the ones that hold, which
no passing run checks. To reproduce one, take the `.cfg` of the passing run of that
MC module, change the constants as said, and put the property in place of the
others; TLC finds each of them violated. The comment above each quotes where it is
said.

| property | MC module and changed constants | what happens |
| --- | --- | --- |
| `WithinDouble` | `MC_IdCounter` | threads that pass the failed exchange together jump over `MAX_ID`; the ids from then on are beyond it (`counter.rs:32`) |
| `UnifiedAgree` | `MC_BindingManager`, `Goals <- MC_BetweenVars`, `MaxChoices = 0` | after `x != y`, `x = y` succeeds and records nothing |
| `ImplementsStore`, `UnifiedAgree` | `MC_BindingManager`, `MaxGoals = 4`, `MaxChoices = 0` | two partials become a cycle that the next constraint on one of them does not join with the other's: in `x != 1, x = y, z != 2, y = z` an equation is lost (`bindings.rs:525`) |
| `LookupEnds` | `MC_BindingManager`, `Var = {w, x, y, z}`, `Goals <- MC_Joins`, `MaxGoals = 6`, `MaxStack = 40`, `MaxChoices = 0`, no symmetry | `x != 1, y != 1, w = y, w = z, x = y, z = x`: `z` leads into a cycle of `x` and `y` that it is not on, and `variable_state_at_point` (`bindings.rs:453`) goes round it for ever |
| `NoRuntimeError` | the same, `Goals <- MC_Retied`, `MaxGoals = 7` | the old partial of a variable that was tied anew is met with the value it has by now: `z != 2, x != 2, w = z, z != 1, z = x, x = 1, w != 1` is an `IncompatibleBindings` error (`bindings.rs:287`) |
| `NeverOverflows` | `MC_Reevaluation`, `MaxGoals = 4`, `Const = {c1}`, `StackLimit = 40` | `x = y and x != 1 and z != 1 and z = y` hands partials back for ever |
| `FollowerSucceeds` | `MC_Inverter` | a follower refuses a binding that main has accepted, and `bind` unwraps the refusal |
| `ResultsComplete` | `MC_Inverter` | followers of later results miss what was said before the choice that was resumed |
| `CutCommits` | `MC_Query`, `Queries <- MC_CallF`, `Policies <- MC_NestedCut`, `StackLimit = 30`, `Endless = {}`, `Timeouts = {0}`, `MaxDepth = 2` | a cut inside a disjunction does not commit to the rule: answers come that it should have cut |
| `NothingLost` | the same, `Queries <- MC_CallTwice`, `Policies <- MC_SecondCut` | in `f() and f()` a cut in the second call removes the alternatives of the first |
| `ErrorsSurface` | the same, `Queries <- MC_NotBroken` | an application error inside `not` is told to the query's own machine: the `not` succeeds |
| `TimesOut` | the same, `Queries <- MC_CallLoop`, `Policies <- MC_NotLoop`, `Endless = {"loop"}`, `Timeouts = {30}`, `MaxDepth = 9` | the machine of every nested `not` starts a timer of its own |
| `SecondLoadFails` | `MC_PolicyLoad`, `MaxLoads = 2`, `Loads <- MC_RuleLoads` (two threads) or `MC_TypeLoads` (one) | both loads see no rules before either adds any; a load of rule types alone leaves no rules to see |
| `InlineQueriesChecked` | `MC_PolicyLoad`, `MaxLoads = 2`, `Loads <- MC_InlineLoads` | a load may run, and fail by, the inline query of another load, which then succeeds unchecked |
| `TracksWhatIs` | `MC_LanguageServer` | a document that was closed without ever being saved, or edited again before its deletion was heard of, stays tracked: the server ignores closes |
| `PlanNeverWider` | `MC_DataFiltering`, `Requests <- MCTwoValues` or `MCChain` | of two values for one class of variables the plan keeps one; of equal fields that are joined in an unlucky order it loses a link |
| `FilterMissesNone` | `MC_DataFiltering` | in `n = 1 or bar = B1` the relation of the second condition is joined for the first as well (`filter.rs:214`): a record with `n = 1` and no `bar` is missed. `FilterComplete` holds of databases in which every record has what the relations ask for (`NoGaps`), and shows nothing of the others |
| `FilterSound` | `MC_DataFiltering`, `Requests <- MCNotIn` | `not S1 in subs` becomes a join with the rows of `subs` that are not `S1`: one other row is enough |
| `PlanComplete` | `MC_DataFiltering`, `Requests <- MCFieldNeq` | `n != bar.n` between fields of two records is planned so that permitted records are missed |
| `ResultsMean` | `MC_DataFiltering`, `Requests <- MCTwoFields` (`bindings.rs:198-201`), `MCNotAnyOr` (`inverter.rs:79`), `MCNotShared`, `MCNotApart` | `x = n, y = a, x = y`, and operands of `not` with a result that holds of everything, with shared conditions, or with conditions that are unified from outside, come out meaning something else |
| `MostSpecificFirst` | `MC_RuleChoice` | the comparison of rules is no order, so an insertion sort cannot put every rule before all less specific ones (`docs/content/any/reference/polar/polar-syntax/index.md:367`) |
| `CheckDecides` | `MC_RuleChoice`, `Calls <- MCDeepPath` | `path()` (`isa_constraint_check.rs:14`) does not give the path its caller describes in lines 150-151, so constraints on paths of more than one field are not compared |
| `SolutionsKept` | `MC_Unification`, `Queries <- MCPatternWithRest` | a rest on the right of `matches` turns the operands around: `[{a: 1}] matches [{a: 1}, *r]` asks a pattern to match a dictionary and reaches a `todo!` (`vm.rs`, `isa`) |
| `SolutionsKept` | `MC_Unification`, `Queries <- MCLargeModulus` | `(c + b) % b` (`numerics.rs:123-124`) overflows for a large modulus and a negative number: a wrong answer in a release build, a panic in a debug build (`docs/content/any/project/changelogs/2020-10-27.md:16`) |

The passing runs leave exactly these cases out, by what they enumerate: no `x != y`
between variables in `bindings`; in `query` a cut stands at the end of a body or
between conditions outside a disjunction, no rule that cuts is called twice in a
conjunction, and `broken` is not called within `not`; in `data_filtering` no
mirrored pairs, and none of the requests named above; in `rule_choice` no deep
paths; in `terms` no large moduli, no patterns under a rest on the right, and no
operands that are unbound or tied to themselves.

Also met while modelling, without a property:

- On a null relation, `bar != B1` and `not bar.n = 1` differ in what they fetch.
- A file deleted outside the editor and re-created by a save there may never be
  tracked again, as a deletion and a creation race with the watcher. The telemetry's
  count of Polar files includes documents that are gone. The server ignores
  `UnregisteredClass`, which may hide another error of the same load.
- If the class of one resource inherits from that of another and declares a name of
  it as something else (a role there, a permission here), the rules of the other call
  the role of an instance, not the permission: `BlocksMean` does not hold of these.
- `unsatisfiable` of `simplify_bindings_opt` is never set.
- In a plan, `y in x.foos and x in _this.subs` is always an error of an unknown type,
  and two variables over one relation share one projection. The SQLAlchemy adapter
  joins with inner joins, and knows `Eq`, `Neq`, `In` and `Nin` only.
- The test of arity in `filter_rules` never fails once the index was asked.

## 5. Proofs

TLAPS proves these for every value of the constants, from the constants' named
assumptions only (`CounterAssumption`, `BindingsAssumption`, `ManagerAssumption`,
`StackLimitAssumption`, `QueryAssumption`, `TermsAssumption`, `WorldsAssumption`,
`LoadAssumption`, `TextAssumption`, `KbAssumption`, `WorldAssumption`,
`CallsAssumption`, `MroAssumption`, `NumericsAssumption`, `ServerAssumption`), which
TLC evaluates in the runs. Where a theorem has a hypothesis of its own, it is named
below.

- **IdCounter_proof.** `TypeCorrect`, `CounterAboveLap`, `IdsFresh`. The inductive
  invariant is `TypeOK /\ BelowNext`: freshness concerns a single step, and holds
  because whatever the lap has handed out is below the counter. This holds for any
  number of threads, and also after the counter has jumped over `MaxId`.
- **BindingManager_proof.** `BacktrackRestores`: every choice finds the stack it was
  made with. `SnapshotsIntact` alone is not inductive: truncating to one choice's
  pointer might cut into an earlier one's. `StackDiscipline` adds that pointers do
  not decrease along the choices, and that stack and choices are sequences. What
  `bind` and `add_constraint` push plays no part beyond being a sequence, which a
  chain of lemmas shows operator by operator.

  Then, for queries whose goals are equations, and comparisons of two values
  (`PlainGoals`; a query that is not partial has no others), for any number of
  variables, values, goals, choices and cuts: `LookingUpEnds`, `NeverIncompatible`,
  `UnifiedStayEqual`, and `StoreImplemented`, the refinement `ImplementsStore`. The
  hypothesis is needed: with inequations on variables none of the four holds
  (section 4). What makes them true is the shape of the stack. Only the latest entry
  of a variable counts, so the stack is a graph (`Graph`), and in it every variable
  is on a cycle, or on a chain that ends at a value, or has no entry (`WellFormed`).
  That cycles are not entered from outside (`NeverEnters`) is what `LookupEnds` needs
  and what an inequation breaks. `Rotated` and `Joined` show that splicing two cycles
  at the last variables of two walks gives one cycle, whichever those are,
  `TyingMeans` that it adds exactly the equation. The inductive invariant `PlainInv`
  adds that the stack allows just the assignments that satisfy what was told
  (`Meaning(stack) = Satisfying(told)`), that a failed branch was told what nothing
  satisfies, and the same of the stack of every choice, so that backtracking finds
  it again.

  Last, `TypeCorrect`, of all queries, those with inequations on variables too:
  whatever an operation is given, what it pushes and what it hands back to be queried
  again are entries and constraints (`IsAnswer`). It needs `BacktrackRestores`: what
  a choice points at is a prefix of the stack only while it lies within it. That
  merging and grounding constraints gives constraints is an induction along `Picked`,
  by the least place where it would fail (`PickedExists`, `PickedTyped`).
- **Query_proof.** For all terms, policies, applications, timeouts and limits:
  `TypeCorrect`, `NoPanics` (no sequence of goals, answers and errors of the
  application leads to what the code takes for impossible), and `Balances` (a machine
  that comes to a result has proved every query it has begun). They need one
  invariant: each goal, also one that a choice has saved or holds as an alternative,
  must find what it takes for granted when its turn comes. `MachineOK` says what may
  be where on a stack of goals: a cut or a question to the application on top, or
  right under a goal that makes no choice (`GoalsOK`); as many `PopQuery` goals as
  queries, in the machine and in every choice (`Balanced`); a choice for each iterable
  that is being read, which is the last one when the application's answer is none
  (`Known`, `Asking`, `Doomed`); and pointers into bindings and choices that do not
  outlive them (`ChoicesOK`). `Fit` relates the machines: each but the last waits for
  the id of the one above it. There is a lemma per goal (`Performed` has them all) and
  one per action.
- **PolicyLoad_proof.** `TypeCorrect` (including that the lock is held exactly by
  the thread that adds sources), `FailedLoadsLeaveNothing`, `PoliciesAreValid`,
  `FilesAreOnce`. The second needs `IInv`: loads under way have numbers of their own
  (`LoadsApart`) and every entry comes from a load that has begun (`Known`), so
  that the `Clear` of a failing load, which removes everything, is the last that is
  seen of it. The third is an induction over the windows of the lock: a `Validate`
  that finds nothing has seen the whole policy, and nothing but the holder of the
  lock adds to it; a failing load stays `clearing` until nothing is left.
- **KnowledgeBase_proof.** For every hierarchy of classes and all texts:
  `BlocksAlwaysAgree`, that declarations, shorthand rules and unions speak of the
  same resources through every refusal, and `RulesAlwaysCovered`, that a policy
  loaded without errors accepts no call that no rule type of its name asks for. The
  second is about meaning: `ParamCovers` shows, shape by shape, that a parameter
  `check_param` lets pass accepts only what its type asks for, where a class's values
  are those of its ancestors (`Inherits`, from `KbAssumption`). A
  type that asks for a `Dictionary` is met by any pattern with its fields, so there it
  asks for the fields alone (`AsksForDictionary`). The invariant `Inv` adds that the rules fit
  their types (`Fits`), and keeps this when classes are registered later
  and a later load tells of more ancestors (`RuleStays`, `MrosKeep`). What a load does line by line (`LoadLines`, `LoadSources`) is
  recursive: the induction is by a least counterexample (`HasLeast`), since the
  library's induction theorems cannot be instantiated.

  `AnyOrderLoads`: what has been loaded without errors, in however many loads, can be
  loaded in one load in every order of its sources, without errors and to the same
  effect; `OrderNeverMatters` has the reverse order, which the run tries. A set has no
  order, so what the lines of a load find and leave is stated of the set of them:
  whether they go together (`Compatible`), and that the blocks of the knowledge base
  are those of the lines (`Gathered`). `LineLoads` goes on from one set to the next,
  `SourcesLoad` to the end. What the validation finds depends on the blocks, the rules
  and what the types ask for (`Valid`, `ValidStays`), and not on the sources they are
  from. The invariant `OrderInv` is needed because a second load goes on from what the
  first has left: the knowledge base says what the sources of its loads say, and
  nothing else (`Policy`). Two things came out of the attempts. The property used to
  compare the types themselves, which is false: a relation that is declared in one load
  and used in a second has two types, one of which is required; what they ask for and
  require is the same. And the guards of `RuleResult` overlapped where one comparison
  is an error and another a match, which left its value open; it is an `IF` now, in the
  order of the code.

  `RelationsAlwaysImplemented` follows from `OrderInv`: every relation that shorthand
  rules go along or that implies in them has a required type, whatever load it came
  with (`RequiredIsImplemented`), so a rule fits it; the rules that blocks stand for
  never do (`BlockRulesDiffer`), and one of the texts accepts values of both classes if
  there are any (`RuleImplements`, `ClassIsAccepted`). That there are is a condition on
  the world, `WorldAssumption`: without it a policy may be without errors and its
  relations empty, as when the rule asks for a field that nothing has.

  `BlocksAlwaysMean`: from whatever facts the application's data makes true, the
  rewritten rules derive what the blocks say, in any number of steps (`MaxChain`). Two
  conditions on the policy are needed, which every policy of the run meets. Rules with
  bodies and rule types about relations are those of blocks, none of them about
  dictionaries (`OfBlocks`). And if a value is of two resources, because one class
  inherits from the other, a name that both declare is the same in both (`NamesAgree`):
  else the property is false (section 4). What blocks say is about names (`Imply`),
  what rules derive about names as roles, permissions or relations (`Derive`), so that
  a step of one is a step of the other (`StepsAgree`) only if no name turns up as
  something else. `IsFact` says so and is kept by the rules (`ConcludesFact`): a name
  is what a resource of the value declares it as, and whoever is in a relation is of
  the class that is declared, as no rule fits a relation's type that accepts others
  (`RelationIsTyped`, from `RulesAlwaysCovered`'s invariant). That is why the body of a
  rule may look the implier up in the block of that class.
- **RuleChoice_proof.** `RulesSorted`: for every policy, hierarchy and arguments,
  the rules of a call are called in an order in which no neighbours are the wrong
  way round, and a rule comes before an earlier one of the policy only if it is the
  more specific of the two. The comparison of rules is no order (it is not
  transitive), so the usual argument for an insertion sort is not there. What there
  is, is asymmetry, from the fields up: `FieldsAsymmetric`, `MroAsymmetric`,
  `MoreAsymmetric`. The inductive invariant `SortInv` says that up to the outer
  position neighbours are in order but for the rule that is being inserted, that the
  rules on both sides of it are in order with each other, and that the filter found
  the rules last first.

  `ChecksDecide`: a check of a partial is refused exactly if a type that is known is
  incompatible with the class. `CallsMatch`: every rule that matches is called, and of
  the others only ground ones. Both are for calls of which one argument at most is a
  partial, as in the model, and of this one the types of variables and of their fields
  are known (`OneShallowPartial`, a condition of the theorems that all calls of
  `rule_choice` meet): of deeper paths `CheckDecides` is false (section 4).
  `ConstraintDecides` shows, for two paths of one or two names, that the questions of
  a constraint are the ones its answer depends on. The invariant of a check,
  `CheckOK`, says how many constraints are left, that those it is through with
  fit, and what the answer that is due and the alternative would tell; that of
  a trial, `Underway` and `Checking`, that the paths and the classes of a union
  before have been decided. `IndexExact` shows that the index gives the rules whose
  ground parameters equal the arguments; `MatchInv` follows the rules that match
  through the filter, the checks and the swaps of the sort.
- **LanguageServer_proof.** `FilesAreKnown` and `DeletedAreForgotten`, for any number
  of files, directories and changes. Neither is inductive, and they need each other's
  parts: when the editor closes a file that is on the disk, or the watchers report
  it, what the server has of it must be right already (`TrackedAsOpen`); a file
  that is there again before its deletion was notified counts as worked on (`Reborn`);
  and no document is left but of files that are there, or whose deletion is yet to be
  notified (`NoneIsLeft`), by the watcher or by the editor (`Due`), whichever comes
  first. The server compares a directory with a document as far as
  both paths go; `OnlyInDirectory` shows that this hits the files in the directory
  and no others, because no file is a directory (a part of `ServerAssumption`).

  `PublishedIsCurrent`, for every policy text: what is shown is what the documents
  there are now give when they are loaded together, also of documents that are gone;
  a diagnostic that is about no document is shown in all of them.
  It needs to know of a load that it reports nothing elsewhere than in one of its
  sources, or in none (`ReportedPlaces`), which goes through all of loading: lines,
  blocks, rewriting, required types and validation (`LinePlaced` to `LoadPlaced`).
- **Numerics.** `ComparesExactly`: the comparison of integers and floats agrees with
  what they are worth, for integers of every width and floats of every precision
  up to it, so that it is one total order; `EqualHashEqual`: numbers that are equal
  hash alike, as a map needs. Both rest on `CutOff` (where a float is beyond
  every integer) and `MixedExact` (what cutting off the fraction decides).

Only model-checked:

- Liveness (`Settles`, `Terminates`), which is out of the prover's reach, and the
  refinement `ImplementsAnswers`, as `Solve` is `RECURSIVE`.
- The binding stack under inequations on variables: `LookupEnds`, `NoRuntimeError`
  and `ImplementsStore` in the bounds of `bindings`, what `Reevaluation` checks in
  those of `requery_settles`. Beyond them they fail (section 4), so there is nothing
  to prove. The followers (`Inverter`) are told of inequations by their nature.
- Data filtering and `SolutionsKept`, whose terms and constraints are `RECURSIVE`.
- `CheckDecides` and `CallsMatching` of paths of more than one field, of which the
  former is false (section 4).
- `TypeOK` of the followers (`Inverter`): that the stacks hold entries and constraints,
  which the operations keep as in the binding manager, and that the choices point into
  the stacks of the machine and of the follower they were made with.

## 6. What is not modelled, and why

- Parser, lexer, formatter, messages, and the debugger's and tracer's output:
  text and sequential traversals, without state between calls. That a `Debug` event
  starts the timer anew is a hazard without a property.
- In terms: arithmetic of floats, `NaN`, strings as iterables, `new`, and the fields and methods of instances, which the host computes. A float
  is a multiple of a unit, integers with more digits than a float has are cut off.
- In `PartialQuery`: lookups on values and external calls, lists other than on the
  right of `in`, arithmetic, rule heads, `print` and `debug`. The resource is one
  variable of a known class.
- Of the rewrites: only lookups are rewritten; arithmetic and `new` are taken out of
  a term in the same way.
- Simplification of bindings of several variables: the answers that a data filter
  is made of are of one resource.
- Versions and ranges of documents, and starting and stopping of language clients
  for workspace folders.
- `isa` asked a second time of a constraint it was asked of before, and a replay of
  constraints into a follower that fails; both are walks over what the first asking
  has left. Followers of an enclosing `not`: what they are told in the clone is
  thrown away.
- Reading the knowledge base in the middle of a query while another thread loads.
- `Query::bind` and `debug_command`, which a host may call between events.
- The C, WASM and Java layers: pointers and conversions.

## 7. Plan

Done, in this order: the identifier counter; bindings with their abstract store;
re-evaluation; inverter; virtual machine and query with its abstract answers;
loading; knowledge base, rule types and resource blocks; language server; data
filtering from bodies to records; choice of rules; terms and numbers; the eight
modules with theorems.

Next:

1. `LoadedQuery`: a query while another thread clears and loads, composing
   `PolicyLoad` and `Query`: which rules and constants it sees.
2. That every operator of `VirtualMachine` keeps the stack limits, and that choices
   remember prefixes of the query stack.
3. Instances and constraints as operands in `Unification`, which would join it with
   `PartialQuery`.
4. Followers of nested `not`s, and simplification of several variables.
