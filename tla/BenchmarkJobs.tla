--------------------------- MODULE BenchmarkJobs ----------------------------
(***************************************************************************)
(* The benchmark job API of ui/jobs.go and the run goroutine behind it.    *)
(*                                                                         *)
(* /submit takes the single run slot (activeBenchmarkJobs), stores a job   *)
(* in the registry (benchmarkJobs) and starts its goroutine; /progress     *)
(* reads it, /cancel and a shutdown cancel its context.  The goroutine     *)
(* measures one resolver after the other: a cold-cache pass, a warm-cache  *)
(* pass and the integrity probes, counting a step per query, and checks    *)
(* the context only between them or where a pass or a probe reports it.    *)
(*                                                                         *)
(* A pass is represented by what module ServerPass is shown to implement,  *)
(* PassContract.  All runs measure the same number of resolvers and hosts. *)
(* The host list is never empty (history.Random returns at least one name  *)
(* or fallbackHostnames does), and a measurement fails only by its context,*)
(* so the early return for an empty list and the warning for any other     *)
(* error are not reachable and not modelled.                               *)
(***************************************************************************)
EXTENDS Integers, FiniteSets

CONSTANTS Jobs,           \* the job ids of the submissions that take the slot
          Servers,        \* len(candidateServers)
          Hosts,          \* len(hostnames)
          Probes          \* INTEGRITY_PROBE_COUNT

ASSUME JobsAssumption == /\ Servers \in Nat \ {0}
                         /\ Hosts \in Nat \ {0}
                         /\ Probes \in Nat \ {0}

VARIABLES slot,           \* activeBenchmarkJobs
          registry,       \* the keys of benchmarkJobs
          canceled,       \* the jobs whose context is canceled
          status,         \* job.status, "none" before the job exists
          steps,          \* job.progress.CompletedSteps
          total,          \* job.progress.TotalSteps
          finished,       \* job.finished: "never", "recent", or "old" (> 30 min)
          pc,             \* where the submission and then the run goroutine is
          server,         \* the index of the resolver being measured
          phase,          \* "cold", "warm" or "integrity"
          done,           \* results of the pass collected, or probes sent
          ranked          \* len(results)

jobVars == <<status, steps, total, finished>>
cursor == <<server, phase, done, ranked>>
vars == <<slot, registry, canceled, jobVars, pc, cursor>>

Active == {"queued", "running"}
Verdicts == {"completed", "error", "canceled"}

PerServer == 2 * Hosts + Probes
(* Mutant: the probes are not counted. *)
PassSteps == Servers * 2 * Hosts

TotalSteps == Servers * PerServer

(* Types; no resolver, pass or probe beyond the last is reached. *)
TypeOK ==
  /\ slot \in {0, 1}
  /\ registry \subseteq Jobs /\ canceled \subseteq Jobs
  /\ status \in [Jobs -> {"none"} \union Active \union Verdicts]
  /\ steps \in [Jobs -> Nat] /\ total \in [Jobs -> Nat]
  /\ finished \in [Jobs -> {"never", "recent", "old"}]
  /\ pc \in [Jobs -> {"none", "reserved", "spawned", "load", "next", "enter", "pass",
                      "probe", "probing", "abort", "finish", "unwind", "gone"}]
  /\ server \in [Jobs -> 1..Servers + 1]
  /\ phase \in [Jobs -> {"cold", "warm", "integrity"}]
  /\ done \in [Jobs -> 0..Hosts + Probes]
  /\ ranked \in [Jobs -> 0..Servers]

Init == /\ slot = 0 /\ registry = {} /\ canceled = {}
        /\ status = [j \in Jobs |-> "none"]
        /\ steps = [j \in Jobs |-> 0]
        /\ total = [j \in Jobs |-> 1]
        /\ finished = [j \in Jobs |-> "never"]
        /\ pc = [j \in Jobs |-> "none"]
        /\ server = [j \in Jobs |-> 1]
        /\ phase = [j \in Jobs |-> "cold"]
        /\ done = [j \in Jobs |-> 0]
        /\ ranked = [j \in Jobs |-> 0]

-----------------------------------------------------------------------------
(* The HTTP handlers. *)

(* Mutant: the zero time of a job that has not finished counts as long ago. *)
ExpiredOrUnfinished(j) == finished[j] # "recent"

(* isExpired: a job that has not finished has no age. *)
Expired(j) == finished[j] = "old"

(* The registry after cleanupExpiredBenchmarkJobs. *)
Kept == {j \in registry : ~Expired(j)}

(* Mutant: the compare-and-swap is gone. *)
SlotIgnored == TRUE

SlotFree == slot = 0

(* /submit, first half: the compare-and-swap of the slot. *)
Reserve(j) ==
  /\ pc[j] = "none" /\ SlotFree
  /\ slot' = 1
  /\ registry' = Kept
  /\ pc' = [pc EXCEPT ![j] = "reserved"]
  /\ UNCHANGED <<canceled, jobVars, cursor>>

(* /submit while the slot is taken: cleanup, then 409. *)
SubmitBusy ==
  /\ ~SlotFree
  /\ registry' = Kept
  /\ UNCHANGED <<slot, canceled, jobVars, pc, cursor>>

(* /submit, second half: the job is stored and its goroutine started. *)
Publish(j) ==
  /\ pc[j] = "reserved"
  /\ status' = [status EXCEPT ![j] = "queued"]
  /\ registry' = registry \union {j}
  /\ pc' = [pc EXCEPT ![j] = "spawned"]
  /\ UNCHANGED <<slot, canceled, steps, total, finished, cursor>>

(* /progress, for any job id: the lookup cleans up. *)
Progress ==
  /\ registry' = Kept
  /\ UNCHANGED <<slot, canceled, jobVars, pc, cursor>>

(* /cancel of a job the lookup finds, also of one that is over. *)
Cancel(j) ==
  /\ j \in Kept
  /\ registry' = Kept
  /\ canceled' = canceled \union {j}
  /\ UNCHANGED <<slot, jobVars, pc, cursor>>

(* CancelAllBenchmarkJobs, called by requestShutdown. *)
CancelAll ==
  /\ canceled' = canceled \union registry
  /\ UNCHANGED <<slot, registry, jobVars, pc, cursor>>

(* More than benchmarkJobRetention passes after a job has finished. *)
Age(j) ==
  /\ finished[j] = "recent"
  /\ finished' = [finished EXCEPT ![j] = "old"]
  /\ UNCHANGED <<slot, registry, canceled, status, steps, total, pc, cursor>>

-----------------------------------------------------------------------------
(* The run goroutine. *)

At(j, here) == pc[j] = here
Goto(j, there) == pc' = [pc EXCEPT ![j] = there]

(* Mutants: the context is not checked; any error is taken for a cancel. *)
AlwaysProceed(j) == j \in Jobs
AnyError(j) == j \in Jobs

(* The context checks of the server loop, the passes and the probes. *)
MayProceed(j) == j \notin canceled

(* benchmarkSingleServerWithContext returns context.Canceled. *)
Interrupted(j) == j \in canceled

Start(j) ==
  /\ At(j, "spawned") /\ Goto(j, "load")
  /\ status' = [status EXCEPT ![j] = "running"]
  /\ UNCHANGED <<slot, registry, canceled, steps, total, finished, cursor>>

(* complete, fail and cancelled: a verdict and the time it was reached. *)
EndWith(j, verdict) ==
  /\ status' = [status EXCEPT ![j] = verdict]
  /\ finished' = [finished EXCEPT ![j] = "recent"]

(* Mutant: the run goes on after fail. *)
LoadFailsOnly(j) ==
  /\ At(j, "load") /\ Goto(j, "load")
  /\ EndWith(j, "error")
  /\ UNCHANGED <<slot, registry, canceled, steps, total, cursor>>

(* The browser history cannot be read. *)
LoadFails(j) ==
  /\ At(j, "load") /\ Goto(j, "unwind")
  /\ EndWith(j, "error")
  /\ UNCHANGED <<slot, registry, canceled, steps, total, cursor>>

BeginProgress(j) ==
  /\ At(j, "load") /\ Goto(j, "next")
  /\ status' = [status EXCEPT ![j] = "running"]
  /\ steps' = [steps EXCEPT ![j] = 0]
  /\ total' = [total EXCEPT ![j] = TotalSteps]
  /\ UNCHANGED <<slot, registry, canceled, finished, cursor>>

(* The head of the server loop; a loop that is over is not canceled. *)
NextServer(j) ==
  /\ At(j, "next")
  /\ \/ server[j] > Servers /\ Goto(j, "finish")
     \/ server[j] <= Servers /\ MayProceed(j) /\ Goto(j, "enter")
     \/ server[j] <= Servers /\ ~MayProceed(j) /\ Goto(j, "abort")
  /\ UNCHANGED <<slot, registry, canceled, jobVars, cursor>>

(* A pass, or the probes, first check the context. *)
Enter(j) ==
  /\ At(j, "enter")
  /\ \/ MayProceed(j) /\ Goto(j, IF phase[j] = "integrity" THEN "probe" ELSE "pass")
     \/ ~MayProceed(j) /\ Goto(j, "abort")
  /\ UNCHANGED <<slot, registry, canceled, jobVars, cursor>>

(* advanceProgress(1): the count is clamped, the status rewritten. *)
StepsAfter(j) == IF steps[j] + 1 > total[j] THEN total[j] ELSE steps[j] + 1
Advance(j) ==
  /\ steps' = [steps EXCEPT ![j] = StepsAfter(j)]
  /\ status' = [status EXCEPT ![j] = "running"]
  /\ UNCHANGED <<total, finished>>

(* The pass collects a result ... *)
PassProgress(j) ==
  /\ At(j, "pass") /\ done[j] < Hosts
  /\ Advance(j)
  /\ done' = [done EXCEPT ![j] = @ + 1]
  /\ UNCHANGED <<slot, registry, canceled, pc, server, phase, ranked>>

(* ... succeeds when it has them all ... *)
PassDone(j) ==
  /\ At(j, "pass") /\ done[j] = Hosts /\ Goto(j, "enter")
  /\ phase' = [phase EXCEPT ![j] = IF @ = "cold" THEN "warm" ELSE "integrity"]
  /\ done' = [done EXCEPT ![j] = 0]
  /\ UNCHANGED <<slot, registry, canceled, jobVars, server, ranked>>

(* ... or gives up under a canceled context. *)
PassAborted(j) ==
  /\ At(j, "pass") /\ done[j] < Hosts /\ Interrupted(j) /\ Goto(j, "abort")
  /\ UNCHANGED <<slot, registry, canceled, jobVars, cursor>>

(* The next probe: SendQuery dials, which fails under a canceled context. *)
(* The step is counted before the error is looked at.                     *)
SendProbe(j) ==
  /\ At(j, "probe")
  /\ \/ MayProceed(j) /\ Goto(j, "probing") /\ UNCHANGED jobVars
     \/ ~MayProceed(j) /\ Goto(j, "abort") /\ Advance(j)
  /\ UNCHANGED <<slot, registry, canceled, cursor>>

(* The probe's answer or error, after which the next probe is due or the  *)
(* resolver's result is added and the next resolver is due.               *)
ProbeDone(j) ==
  /\ At(j, "probing") /\ Advance(j)
  /\ IF done[j] + 1 < Probes
     THEN /\ Goto(j, "probe")
          /\ done' = [done EXCEPT ![j] = @ + 1]
          /\ UNCHANGED <<server, phase, ranked>>
     ELSE /\ Goto(j, "next")
          /\ done' = [done EXCEPT ![j] = 0]
          /\ server' = [server EXCEPT ![j] = @ + 1]
          /\ phase' = [phase EXCEPT ![j] = "cold"]
          /\ ranked' = [ranked EXCEPT ![j] = @ + 1]
  /\ UNCHANGED <<slot, registry, canceled>>

(* A truncated answer is asked for again over TCP, and that dial fails. *)
ProbeCanceled(j) ==
  /\ At(j, "probing") /\ Interrupted(j) /\ Advance(j) /\ Goto(j, "abort")
  /\ UNCHANGED <<slot, registry, canceled, cursor>>

(* Mutant: the slot is not released on the canceled path. *)
AbortKeepsSlot(j) ==
  /\ At(j, "abort") /\ Goto(j, "gone")
  /\ EndWith(j, "canceled")
  /\ UNCHANGED <<slot, registry, canceled, steps, total, cursor>>

Abort(j) ==
  /\ At(j, "abort") /\ Goto(j, "unwind")
  /\ EndWith(j, "canceled")
  /\ UNCHANGED <<slot, registry, canceled, steps, total, cursor>>

(* Ranking, the metadata lookups (which ignore the job's context) and the *)
(* choice of the winner end in complete.                                  *)
Complete(j) ==
  /\ At(j, "finish") /\ Goto(j, "unwind")
  /\ EndWith(j, "completed")
  /\ steps' = [steps EXCEPT ![j] = total[j]]
  /\ UNCHANGED <<slot, registry, canceled, total, cursor>>

(* The deferred release of the slot. *)
Unwind(j) ==
  /\ At(j, "unwind") /\ Goto(j, "gone")
  /\ slot' = 0
  /\ UNCHANGED <<registry, canceled, jobVars, cursor>>

Goroutine(j) ==
  \/ Start(j) \/ LoadFails(j) \/ BeginProgress(j) \/ NextServer(j) \/ Enter(j)
  \/ PassProgress(j) \/ PassDone(j) \/ PassAborted(j)
  \/ SendProbe(j) \/ ProbeDone(j) \/ ProbeCanceled(j)
  \/ Abort(j) \/ Complete(j) \/ Unwind(j)

Next == \/ SubmitBusy \/ Progress \/ CancelAll
        \/ \E j \in Jobs : Reserve(j) \/ Publish(j) \/ Cancel(j) \/ Age(j) \/ Goroutine(j)

(* A handler that took the slot goes on, and so does the goroutine: a pass *)
(* returns (ServerPass) and a probe ends by its timeout.                   *)
Fairness == \A j \in Jobs : WF_vars(Publish(j)) /\ WF_vars(Goroutine(j))

Spec == Init /\ [][Next]_vars /\ Fairness

-----------------------------------------------------------------------------
Running(j) == pc[j] \notin {"none", "gone"}
IsActive(j) == status[j] \in Active

(* "Limited benchmark execution to one active run at a time": at most one   *)
(* submission or goroutine is between taking the slot and releasing it, the *)
(* slot says so, and only it can be queued or running.  The slot is         *)
(* released after the verdict, never before.                                *)
OneActiveRun ==
  /\ \A i, j \in Jobs : Running(i) /\ Running(j) => i = j
  /\ slot = 1 <=> \E j \in Jobs : Running(j)
  /\ \A j \in Jobs : IsActive(j) => Running(j)

(* A queued or running job is in the registry, whatever cleanups ran: the   *)
(* page can poll and cancel it, HasRunningJobs sees it (so the idle monitor *)
(* does not stop the program under it) and a shutdown cancels it.           *)
ActiveJobIsRegistered == \A j \in Jobs : IsActive(j) => j \in registry

(* The queries a run has finished, by where it is. *)
BeforePhase == [cold |-> 0, warm |-> Hosts, integrity |-> 2 * Hosts]
StepsDone(j) == (server[j] - 1) * PerServer + BeforePhase[phase[j]] + done[j]

(* The steps a run has counted are the queries it has finished: the clamp   *)
(* of advanceProgress never bites, and when complete sets the count to the  *)
(* total the count already was the total, with every resolver ranked.       *)
ProgressAccounted ==
  \A j \in Jobs :
    /\ pc[j] \in {"next", "enter", "pass", "probe", "probing", "finish"} =>
         total[j] = TotalSteps /\ steps[j] = StepsDone(j) /\ steps[j] <= total[j]
    /\ pc[j] = "finish" => steps[j] = total[j] /\ ranked[j] = Servers
    /\ pc[j] \in {"abort", "unwind", "gone"} => steps[j] <= total[j]

(* A verdict is final: no late progress step, cancellation or cleanup makes *)
(* a completed, failed or canceled job queued or running again, or changes  *)
(* one verdict into another.                                                *)
VerdictIsFinal == [][\A j \in Jobs : status[j] \in Verdicts => status'[j] = status[j]]_vars

(* After a cancellation nothing new is started: no resolver is taken up, no *)
(* pass begins and no probe is sent.  At most what is under way ends.       *)
CancelStopsNewWork ==
  [][\A j \in canceled :
       /\ pc'[j] \in {"pass", "probing"} => pc[j] = pc'[j]
       /\ pc'[j] = "enter" => pc[j] \in {"enter", "pass"}
       /\ ranked'[j] > ranked[j] => done[j] + 1 = Probes]_vars

(* The slot never stays taken: whatever ends a run, another can follow. *)
SlotReleased == slot = 1 ~> slot = 0

(* The API as the page sees it. *)
Contract == INSTANCE RunContract WITH visible <- registry

(* It keeps the contract of RunContract: every run that starts gets one     *)
(* verdict, canceled only on request, and stays visible until then.         *)
ImplementsContract == Contract!Spec

(* README: "Cancel the run at any time".  A run that is canceled while it   *)
(* is queued or running does not end as completed.                          *)
CancelAnyTime ==
  [][\A j \in canceled : IsActive(j) => status'[j] # "completed"]_vars
=============================================================================
