------------------------------ MODULE QueryAnswers ------------------------------
(***************************************************************************)
(* What a query promises the application: it gives the answers of its      *)
(* term, one by one and in their order, and then it is done, or it ends in *)
(* an error.  It may time out at any moment.  Nothing is said of how the   *)
(* answers are found.                                                      *)
(***************************************************************************)
EXTENDS Naturals, Sequences

VARIABLES
    outcome,       \* the answers, and whether they end in an error (Policy)
    emitted,       \* the answers given so far
    status         \* "running", "done", "error" or "QueryTimeout"

AnswersInit ==
    /\ outcome.answers \in Seq(Seq(STRING))
    /\ emitted = <<>>
    /\ status = "running"

Emit ==
    /\ status = "running"
    /\ Len(emitted) < Len(outcome.answers)
    /\ emitted' = Append(emitted, outcome.answers[Len(emitted) + 1])
    /\ UNCHANGED <<outcome, status>>

End ==
    /\ status = "running"
    /\ emitted = outcome.answers
    /\ status' = IF outcome.error THEN "error" ELSE "done"
    /\ UNCHANGED <<outcome, emitted>>

TimeOut ==
    /\ status = "running"
    /\ status' = "QueryTimeout"
    /\ UNCHANGED <<outcome, emitted>>

AnswersNext == Emit \/ End \/ TimeOut

avars == <<outcome, emitted, status>>

AnswersSpec == AnswersInit /\ [][AnswersNext]_avars
================================================================================
