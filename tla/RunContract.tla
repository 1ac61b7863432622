---------------------------- MODULE RunContract -----------------------------
(***************************************************************************)
(* What the benchmark job API promises the page that uses it: the abstract *)
(* specification of ui/jobs.go as seen through /submit, /progress and      *)
(* /cancel.                                                                *)
(*                                                                         *)
(*  - a run starts only when no other run is active;                       *)
(*  - a run that has started is eventually completed, failed or canceled,  *)
(*    and that verdict never changes;                                      *)
(*  - it is reported as canceled only if somebody canceled it;             *)
(*  - it stays visible until some time after its verdict.                  *)
(***************************************************************************)
CONSTANT Jobs

VARIABLES status,         \* what /progress reports of each job
          canceled,       \* the jobs whose cancellation was requested
          visible         \* the jobs /progress finds

vars == <<status, canceled, visible>>

Active == {"queued", "running"}
Verdicts == {"completed", "error", "canceled"}

Init == /\ status = [j \in Jobs |-> "none"]
        /\ canceled = {}
        /\ visible = {}

Start(j) ==
  /\ status[j] = "none"
  /\ \A i \in Jobs : status[i] \notin Active
  /\ status' = [status EXCEPT ![j] = "queued"]
  /\ visible' = visible \union {j}
  /\ UNCHANGED canceled

Run(j) ==
  /\ status[j] = "queued"
  /\ status' = [status EXCEPT ![j] = "running"]
  /\ UNCHANGED <<canceled, visible>>

End(j) ==
  /\ status[j] = "running"
  /\ \E verdict \in Verdicts :
       /\ verdict = "canceled" => j \in canceled
       /\ status' = [status EXCEPT ![j] = verdict]
  /\ UNCHANGED <<canceled, visible>>

(* Canceling is a request: it does not by itself decide the verdict.  Any *)
(* request may make the API forget jobs whose verdict is old.             *)
Request ==
  /\ \E asked, forgotten \in SUBSET visible :
       /\ \A j \in forgotten : status[j] \in Verdicts
       /\ canceled' = canceled \union asked
       /\ visible' = visible \ forgotten
  /\ UNCHANGED status

Next == (\E j \in Jobs : Start(j) \/ Run(j) \/ End(j)) \/ Request

Safety == Init /\ [][Next]_vars

Spec == Safety /\ \A j \in Jobs : WF_vars(Run(j)) /\ WF_vars(End(j))
=============================================================================
