---------------------------- MODULE ConstraintStore ----------------------------
(***************************************************************************)
(* What a BindingManager promises the virtual machine, with no stack, no   *)
(* cycles and no partials: a store that has been told some constraints and *)
(* can be rolled back to the points where a choice was made.               *)
(*                                                                         *)
(* The store answers with the assignments that satisfy everything it has   *)
(* been told; there are none once it has been told something inconsistent. *)
(***************************************************************************)
EXTENDS Bindings

VARIABLES
    told,     \* the constraints told on this branch
    models,   \* the assignments still allowed
    saved     \* for each choice, what was told and allowed when it was made

storeVars == <<told, models, saved>>

StoreInit ==
    /\ told = {}
    /\ models = Assignments
    /\ saved = <<>>

\* Telling a constraint keeps the assignments that satisfy it.
Tell ==
    /\ \E c \in Constraint :
            /\ told' = told \cup {c}
            /\ models' = {m \in models : Sat(m, c)}
    /\ UNCHANGED saved

Choose ==
    /\ saved' = Append(saved, [told |-> told, models |-> models])
    /\ UNCHANGED <<told, models>>

\* Rolling back to a choice restores what was allowed when it was made; the
\* choice itself stays when it has more alternatives.
RollBack(i) ==
    /\ told' = saved[i].told
    /\ models' = saved[i].models
    /\ saved' \in {SubSeq(saved, 1, i - 1), SubSeq(saved, 1, i)}

Commit(i) ==
    /\ saved' = SubSeq(saved, 1, i)
    /\ UNCHANGED <<told, models>>

\* With no choice left to roll back to, the search is over.
GiveUp ==
    /\ models' = {}
    /\ saved' = <<>>
    /\ UNCHANGED told

StoreNext ==
    \/ Tell
    \/ Choose
    \/ \E i \in DOMAIN saved : RollBack(i)
    \/ \E i \in 0 .. Len(saved) : Commit(i)
    \/ GiveUp

StoreSpec == StoreInit /\ [][StoreNext]_storeVars
================================================================================
