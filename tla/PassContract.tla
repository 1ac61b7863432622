---------------------------- MODULE PassContract ----------------------------
(***************************************************************************)
(* What one benchmark pass promises its caller: the abstract specification *)
(* of ui.go benchmarkServerPass.  The caller sees the progress callbacks,  *)
(* one per collected result, and the error the call returns; it may cancel *)
(* the context at any moment.                                              *)
(*                                                                         *)
(*  - a pass does not begin under a context that is already canceled;      *)
(*  - it succeeds exactly when all its results were collected, and then it *)
(*    succeeds even if the context is canceled in the meantime;            *)
(*  - it aborts only under a canceled context;                             *)
(*  - it always returns.                                                   *)
(***************************************************************************)
EXTENDS Naturals

CONSTANT Hosts            \* the number of host names of the pass

VARIABLES begun,          \* the first query has been admitted
          progress,       \* how often the progress callback was called
          canceled,       \* the context is canceled
          outcome         \* "none" until the call returns, "ok" or "canceled"

vars == <<begun, progress, canceled, outcome>>

Init == /\ begun = FALSE
        /\ progress = 0
        /\ canceled = FALSE
        /\ outcome = "none"

Cancel == /\ ~canceled
          /\ canceled' = TRUE
          /\ UNCHANGED <<begun, progress, outcome>>

Begin == /\ ~begun /\ ~canceled /\ outcome = "none"
         /\ begun' = TRUE
         /\ UNCHANGED <<progress, canceled, outcome>>

Progress == /\ begun /\ outcome = "none" /\ progress < Hosts
            /\ progress' = progress + 1
            /\ UNCHANGED <<begun, canceled, outcome>>

Succeed == /\ outcome = "none" /\ progress = Hosts
           /\ outcome' = "ok"
           /\ UNCHANGED <<begun, progress, canceled>>

Abort == /\ outcome = "none" /\ canceled /\ progress < Hosts
         /\ outcome' = "canceled"
         /\ UNCHANGED <<begun, progress, canceled>>

Work == Begin \/ Progress \/ Succeed \/ Abort

Next == Cancel \/ Work

Safety == Init /\ [][Next]_vars

Spec == Safety /\ WF_vars(Work)
=============================================================================
