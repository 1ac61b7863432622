------------------------- MODULE BenchmarkJobsProofs ------------------------
(***************************************************************************)
(* Proofs about BenchmarkJobs, for any set of jobs and any number of       *)
(* resolvers, hosts and probes.                                            *)
(*                                                                         *)
(* The inductive invariant has two halves.  ControlInv says which stage of *)
(* a submission goes with which status, and that the slot is held by the   *)
(* one submission that is under way.  ProgressInv says where the cursor of *)
(* a run can be in each stage and how many steps that accounts for.        *)
(***************************************************************************)
EXTENDS BenchmarkJobs, TLAPS

Stages == {"none", "reserved", "spawned", "load", "next", "enter", "pass",
           "probe", "probing", "abort", "finish", "unwind", "gone"}

ControlTypes ==
  /\ slot \in {0, 1}
  /\ registry \subseteq Jobs /\ canceled \subseteq Jobs
  /\ status \in [Jobs -> {"none"} \union Active \union Verdicts]
  /\ finished \in [Jobs -> {"never", "recent", "old"}]
  /\ pc \in [Jobs -> Stages]

StatusOfStage(j) ==
  /\ pc[j] \in {"none", "reserved"} => status[j] = "none"
  /\ pc[j] = "spawned" => status[j] = "queued"
  /\ pc[j] \notin {"none", "reserved", "spawned", "unwind", "gone"} => status[j] = "running"
  /\ pc[j] \in {"unwind", "gone"} => status[j] \in Verdicts
  /\ pc[j] \notin {"unwind", "gone"} => finished[j] = "never"
  /\ pc[j] \notin {"none", "reserved", "unwind", "gone"} => j \in registry
  /\ pc[j] = "abort" => j \in canceled

SlotHeld ==
  /\ \A i, j \in Jobs : Running(i) /\ Running(j) => i = j
  /\ slot = 1 <=> \E j \in Jobs : Running(j)

ControlInv == /\ ControlTypes
              /\ SlotHeld
              /\ \A j \in Jobs : StatusOfStage(j)

(* A job that is not over survives every cleanup. *)
LEMMA CleanupKeepsActive ==
  ASSUME NEW j \in Jobs, StatusOfStage(j),
         pc[j] \notin {"none", "reserved", "unwind", "gone"}
  PROVE  j \in Kept
BY DEF StatusOfStage, Kept, Expired

(* A step of the goroutine of j that leaves the slot alone and moves j from *)
(* one stage under way to another, with the status that goes with it.       *)
LEMMA GoroutineControl ==
  ASSUME ControlInv, NEW j \in Jobs, NEW there \in Stages,
         Running(j), there \notin {"none", "gone"}, Goto(j, there),
         slot' = slot, canceled' = canceled, registry \subseteq registry',
         registry' \subseteq Jobs,
         status' \in [Jobs -> {"none"} \union Active \union Verdicts],
         finished' \in [Jobs -> {"never", "recent", "old"}],
         \A i \in Jobs \ {j} : status'[i] = status[i] /\ finished'[i] = finished[i],
         StatusOfStage(j)'
  PROVE  ControlInv'
<1>1. ControlTypes'
  BY DEF ControlInv, ControlTypes, Goto
<1>2. \A i \in Jobs : Running(i)' <=> Running(i)
  BY DEF ControlInv, ControlTypes, Goto, Running
<1>3. SlotHeld'
  BY <1>2 DEF ControlInv, SlotHeld
<1>4. ASSUME NEW i \in Jobs \ {j} PROVE StatusOfStage(i)'
  <2>1. pc'[i] = pc[i] /\ status'[i] = status[i] /\ finished'[i] = finished[i]
    BY DEF ControlInv, ControlTypes, Goto
  <2>2. StatusOfStage(i)
    BY DEF ControlInv
  <2> QED
    BY <2>1, <2>2 DEF StatusOfStage
<1> QED
  BY <1>1, <1>3, <1>4 DEF ControlInv

(* A step that moves nobody and changes no status keeps ControlInv when it  *)
(* leaves the active jobs in the registry.                                  *)
LEMMA HandlerControl ==
  ASSUME ControlInv, slot' = slot, pc' = pc, status' = status,
         finished' \in [Jobs -> {"never", "recent", "old"}],
         \A i \in Jobs : finished[i] = "never" => finished'[i] = "never",
         canceled \subseteq canceled', canceled' \subseteq Jobs, registry' \subseteq Jobs, Kept \subseteq registry'
  PROVE  ControlInv'
<1>1. ControlTypes' /\ SlotHeld'
  BY DEF ControlInv, ControlTypes, SlotHeld, Running
<1>2. ASSUME NEW i \in Jobs PROVE StatusOfStage(i)'
  <2>1. StatusOfStage(i)
    BY DEF ControlInv
  <2>2. pc[i] \notin {"none", "reserved", "unwind", "gone"} => i \in registry'
    BY <2>1, CleanupKeepsActive
  <2> QED
    BY <2>1, <2>2 DEF StatusOfStage
<1> QED
  BY <1>1, <1>2 DEF ControlInv

LEMMA InitControl == Init => ControlInv
BY DEF Init, ControlInv, ControlTypes, SlotHeld, StatusOfStage, Running, Stages, Active, Verdicts

(* The steps of the goroutine before its release of the slot. *)
Working(j) ==
  \/ Start(j) \/ LoadFails(j) \/ BeginProgress(j) \/ NextServer(j) \/ Enter(j)
  \/ PassProgress(j) \/ PassDone(j) \/ PassAborted(j)
  \/ SendProbe(j) \/ ProbeDone(j) \/ ProbeCanceled(j)
  \/ Abort(j) \/ Complete(j)

LEMMA WorkingControl ==
  ASSUME ControlInv, NEW j \in Jobs, Working(j)
  PROVE  ControlInv'
<1> USE DEF ControlInv, ControlTypes, At, Goto, StatusOfStage, Running, Stages, Active, Verdicts,
           MayProceed, Interrupted
<1>1. CASE Start(j)
  BY <1>1, GoroutineControl DEF Start
<1>2. CASE LoadFails(j)
  BY <1>2, GoroutineControl, ZenonT(40) DEF LoadFails, EndWith
<1>3. CASE BeginProgress(j)
  BY <1>3, GoroutineControl, ZenonT(40) DEF BeginProgress
<1>4. CASE NextServer(j)
  BY <1>4, GoroutineControl DEF NextServer, jobVars
<1>5. CASE Enter(j)
  BY <1>5, GoroutineControl DEF Enter, jobVars
<1>6. CASE PassProgress(j)
  BY <1>6, HandlerControl DEF PassProgress, Advance, Kept
<1>7. CASE PassDone(j)
  BY <1>7, GoroutineControl, ZenonT(40) DEF PassDone, jobVars
<1>8. CASE PassAborted(j)
  BY <1>8, GoroutineControl, ZenonT(40) DEF PassAborted, jobVars
<1>9. CASE SendProbe(j)
  BY <1>9, GoroutineControl DEF SendProbe, Advance, jobVars
<1>10. CASE ProbeDone(j)
  BY <1>10, GoroutineControl DEF ProbeDone, Advance
<1>11. CASE ProbeCanceled(j)
  BY <1>11, GoroutineControl, ZenonT(40) DEF ProbeCanceled, Advance
<1>12. CASE Abort(j)
  BY <1>12, GoroutineControl, ZenonT(40) DEF Abort, EndWith
<1>13. CASE Complete(j)
  BY <1>13, GoroutineControl, ZenonT(40) DEF Complete, EndWith
<1> QED
  BY <1>1, <1>2, <1>3, <1>4, <1>5, <1>6, <1>7, <1>8, <1>9, <1>10, <1>11, <1>12, <1>13
     DEF Working

LEMMA NextControl == ControlInv /\ [Next]_vars => ControlInv'
<1> SUFFICES ASSUME ControlInv, [Next]_vars PROVE ControlInv'
  OBVIOUS
<1>1. CASE UNCHANGED vars
  BY <1>1, HandlerControl DEF vars, jobVars, Kept, ControlInv, ControlTypes
<1>2. CASE SubmitBusy \/ Progress
  BY <1>2, HandlerControl DEF SubmitBusy, Progress, jobVars, Kept, ControlInv, ControlTypes
<1>3. CASE CancelAll
  BY <1>3, HandlerControl DEF CancelAll, jobVars, Kept, ControlInv, ControlTypes
<1>4. ASSUME NEW j \in Jobs, Cancel(j) PROVE ControlInv'
  BY <1>4, HandlerControl DEF Cancel, jobVars, Kept, ControlInv, ControlTypes
<1>5. ASSUME NEW j \in Jobs, Age(j) PROVE ControlInv'
  BY <1>5, HandlerControl DEF Age, Kept, ControlInv, ControlTypes
<1>6. ASSUME NEW j \in Jobs, Reserve(j) PROVE ControlInv'
  <2>1. ControlTypes' /\ SlotHeld'
    BY <1>6 DEF Reserve, SlotFree, Kept, ControlInv, ControlTypes, SlotHeld, Running, Stages, jobVars
  <2>2. ASSUME NEW i \in Jobs PROVE StatusOfStage(i)'
    BY <1>6, CleanupKeepsActive
       DEF Reserve, ControlInv, ControlTypes, StatusOfStage, jobVars
  <2> QED
    BY <2>1, <2>2 DEF ControlInv
<1>7. ASSUME NEW j \in Jobs, Publish(j) PROVE ControlInv'
  BY <1>7, GoroutineControl
     DEF Publish, Goto, ControlInv, ControlTypes, StatusOfStage, Running, Stages, Active
<1>8. ASSUME NEW j \in Jobs, Working(j) PROVE ControlInv'
  BY <1>8, WorkingControl
<1>9. ASSUME NEW j \in Jobs, Unwind(j) PROVE ControlInv'
  <2>1. ControlTypes' /\ SlotHeld'
    BY <1>9 DEF Unwind, At, Goto, ControlInv, ControlTypes, SlotHeld, Running, Stages, jobVars
  <2>2. ASSUME NEW i \in Jobs PROVE StatusOfStage(i)'
    BY <1>9 DEF Unwind, At, Goto, ControlInv, ControlTypes, StatusOfStage, jobVars
  <2> QED
    BY <2>1, <2>2 DEF ControlInv
<1> QED
  BY <1>1, <1>2, <1>3, <1>4, <1>5, <1>6, <1>7, <1>8, <1>9 DEF Next, Goroutine, Working

-----------------------------------------------------------------------------
(* Progress. *)

ProgressTypes ==
  /\ pc \in [Jobs -> Stages]
  /\ steps \in [Jobs -> Nat] /\ total \in [Jobs -> Nat]
  /\ server \in [Jobs -> 1..Servers + 1]
  /\ phase \in [Jobs -> {"cold", "warm", "integrity"}]
  /\ done \in [Jobs -> 0..Hosts + Probes]
  /\ ranked \in [Jobs -> 0..Servers]

(* What the steps of a run are while it is measuring. *)
Accounted(j) == total[j] = TotalSteps /\ steps[j] = StepsDone(j)

(* Where the cursor of a run can be in each stage. *)
CursorOfStage(j) ==
  /\ pc[j] \in {"none", "reserved", "spawned", "load"} =>
       server[j] = 1 /\ phase[j] = "cold" /\ done[j] = 0 /\ ranked[j] = 0
  /\ pc[j] = "next" => phase[j] = "cold" /\ done[j] = 0
  /\ pc[j] = "enter" => server[j] <= Servers /\ done[j] = 0
  /\ pc[j] = "pass" => server[j] <= Servers /\ phase[j] \in {"cold", "warm"} /\ done[j] <= Hosts
  /\ pc[j] \in {"probe", "probing"} =>
       server[j] <= Servers /\ phase[j] = "integrity" /\ done[j] < Probes
  /\ pc[j] = "finish" => server[j] = Servers + 1 /\ phase[j] = "cold" /\ done[j] = 0
  /\ pc[j] \in {"next", "enter", "pass", "probe", "probing", "finish"} =>
       ranked[j] = server[j] - 1 /\ Accounted(j)
  /\ steps[j] <= total[j]

ProgressInv == ProgressTypes /\ \A j \in Jobs : CursorOfStage(j)

(* The steps of one more resolver. *)
LEMMA NextBlock ==
  ASSUME NEW s \in Nat, NEW p \in Nat PROVE s * p = (s - 1) * p + p
OBVIOUS

LEMMA BlocksAreMonotonic ==
  ASSUME NEW s \in Nat, NEW n \in Nat, NEW p \in Nat, s <= n
  PROVE  s * p <= n * p /\ s * p \in Nat
OBVIOUS

LEMMA PerServerType == PerServer \in Nat /\ TotalSteps \in Nat
BY JobsAssumption DEF PerServer, TotalSteps

(* While a resolver is measured, a step that is due still fits the total. *)
LEMMA RoomForStep ==
  ASSUME ProgressInv, NEW j \in Jobs,
         \/ pc[j] = "pass" /\ done[j] < Hosts
         \/ pc[j] \in {"probe", "probing"}
  PROVE  steps[j] + 1 <= total[j] /\ StepsAfter(j) = steps[j] + 1
<1>1. server[j] \in 1..Servers /\ done[j] \in Nat /\ Accounted(j) /\ CursorOfStage(j)
  BY JobsAssumption DEF ProgressInv, ProgressTypes, CursorOfStage
<1>2. (server[j] - 1) * PerServer + PerServer <= TotalSteps
  <2>1. server[j] * PerServer = (server[j] - 1) * PerServer + PerServer
    BY <1>1, NextBlock, PerServerType, JobsAssumption
  <2>2. server[j] * PerServer <= Servers * PerServer
    BY <1>1, BlocksAreMonotonic, PerServerType, JobsAssumption
  <2> QED
    BY <2>1, <2>2 DEF TotalSteps
<1>3. (server[j] - 1) * PerServer \in Nat
  BY <1>1, BlocksAreMonotonic, PerServerType, JobsAssumption
<1>4. StepsDone(j) + 1 <= (server[j] - 1) * PerServer + PerServer
  <2> DEFINE before == (server[j] - 1) * PerServer
  <2>1. before \in Nat
    BY <1>3
  <2>2. StepsDone(j) = before + BeforePhase[phase[j]] + done[j]
    BY DEF StepsDone
  <2>3. \/ phase[j] \in {"cold", "warm"} /\ done[j] < Hosts
        \/ phase[j] = "integrity" /\ done[j] < Probes
    BY <1>1 DEF CursorOfStage
  <2> HIDE DEF before
  <2>4. StepsDone(j) + 1 <= before + PerServer
    BY <2>1, <2>2, <2>3, <1>1, JobsAssumption DEF PerServer, BeforePhase
  <2> QED
    BY <2>4 DEF before
<1>5. steps[j] \in Nat /\ total[j] \in Nat
  BY DEF ProgressInv, ProgressTypes
<1>6. steps[j] + 1 <= total[j]
  <2>1. total[j] = TotalSteps /\ steps[j] = StepsDone(j)
    BY <1>1 DEF Accounted
  <2> DEFINE before == (server[j] - 1) * PerServer
  <2>2. before \in Nat /\ before + PerServer <= TotalSteps /\ StepsDone(j) + 1 <= before + PerServer
    BY <1>2, <1>3, <1>4
  <2> HIDE DEF before
  <2> QED
    BY <2>1, <2>2, <1>5, PerServerType
<1> QED
  BY <1>5, <1>6 DEF StepsAfter

LEMMA InitProgress == Init => ProgressInv
BY JobsAssumption
   DEF Init, ProgressInv, ProgressTypes, CursorOfStage, Stages

(* A step of job j leaves the cursors of the other jobs alone. *)
LEMMA OneCursorMoves ==
  ASSUME ProgressInv, NEW j \in Jobs, ProgressTypes', CursorOfStage(j)',
         \A i \in Jobs \ {j} :
           /\ pc'[i] = pc[i] /\ steps'[i] = steps[i] /\ total'[i] = total[i]
           /\ server'[i] = server[i] /\ phase'[i] = phase[i]
           /\ done'[i] = done[i] /\ ranked'[i] = ranked[i]
  PROVE  ProgressInv'
<1> SUFFICES ASSUME NEW i \in Jobs \ {j} PROVE CursorOfStage(i)'
  BY DEF ProgressInv
<1>1. CursorOfStage(i)
  BY DEF ProgressInv
<1> QED
  BY <1>1 DEF CursorOfStage, Accounted, StepsDone

(* A step that moves job j and counts nothing. *)
LEMMA MoveProgress ==
  ASSUME ProgressInv, NEW j \in Jobs, NEW there \in Stages, Goto(j, there),
         UNCHANGED <<steps, total, cursor>>, CursorOfStage(j)'
  PROVE  ProgressInv'
<1>1. ProgressTypes'
  BY DEF ProgressInv, ProgressTypes, Goto, cursor
<1> QED
  BY <1>1, OneCursorMoves DEF ProgressInv, ProgressTypes, Goto, cursor

(* A step that touches nothing a cursor is made of. *)
LEMMA IdleProgress ==
  ASSUME ProgressInv, UNCHANGED <<pc, steps, total, cursor>>
  PROVE  ProgressInv'
BY DEF ProgressInv, ProgressTypes, CursorOfStage, Accounted, StepsDone, cursor

LEMMA BeginProgressProgress ==
  ASSUME ProgressInv, NEW j \in Jobs, BeginProgress(j)
  PROVE  ProgressInv'
<1>1. ProgressTypes'
  BY PerServerType DEF BeginProgress, ProgressInv, ProgressTypes, Goto, cursor, Stages
<1>2. CursorOfStage(j)'
  <2>1. pc'[j] = "next" /\ steps'[j] = 0 /\ total'[j] = TotalSteps
    BY DEF BeginProgress, ProgressInv, ProgressTypes, Goto
  <2>2. server'[j] = 1 /\ phase'[j] = "cold" /\ done'[j] = 0 /\ ranked'[j] = 0
    BY DEF BeginProgress, ProgressInv, ProgressTypes, CursorOfStage, At, cursor
  <2>3. StepsDone(j)' = 0
    BY <2>2, PerServerType DEF StepsDone, BeforePhase
  <2> QED
    BY <2>1, <2>2, <2>3, PerServerType DEF CursorOfStage, Accounted
<1> QED
  BY <1>1, <1>2, OneCursorMoves DEF BeginProgress, ProgressInv, ProgressTypes, Goto, cursor

(* Between two counted steps the cursor moves without a gap: the last host  *)
(* of a pass is followed by the first of the next phase.                    *)
LEMMA PassDoneProgress ==
  ASSUME ProgressInv, NEW j \in Jobs, PassDone(j)
  PROVE  ProgressInv'
<1>1. ProgressTypes'
  BY JobsAssumption
     DEF PassDone, ProgressInv, ProgressTypes, Goto, jobVars, Stages
<1>2. /\ pc'[j] = "enter" /\ done'[j] = 0 /\ server'[j] = server[j] /\ ranked'[j] = ranked[j]
      /\ phase'[j] = IF phase[j] = "cold" THEN "warm" ELSE "integrity"
      /\ steps'[j] = steps[j] /\ total'[j] = total[j]
  BY DEF PassDone, ProgressInv, ProgressTypes, Goto, jobVars
<1>3. /\ CursorOfStage(j) /\ pc[j] = "pass" /\ done[j] = Hosts
      /\ server[j] \in Nat /\ phase[j] \in {"cold", "warm"}
  BY JobsAssumption DEF ProgressInv, ProgressTypes, CursorOfStage, PassDone, At
<1>4. StepsDone(j)' = StepsDone(j)
  <2> DEFINE before == (server[j] - 1) * PerServer
  <2>1. /\ StepsDone(j) = before + BeforePhase[phase[j]] + Hosts
        /\ StepsDone(j)' = before + BeforePhase[phase'[j]] + 0
    BY <1>2, <1>3 DEF StepsDone, PerServer, BeforePhase
  <2>2. before \in Int
    BY <1>3, PerServerType
  <2> HIDE DEF before
  <2> QED
    BY <2>1, <2>2, <1>2, <1>3, JobsAssumption DEF BeforePhase
<1>5. CursorOfStage(j)'
  BY <1>2, <1>3, <1>4 DEF CursorOfStage, Accounted
<1> QED
  BY <1>1, <1>5, OneCursorMoves DEF PassDone, ProgressInv, ProgressTypes, Goto, jobVars

LEMMA PassProgressProgress ==
  ASSUME ProgressInv, NEW j \in Jobs, PassProgress(j)
  PROVE  ProgressInv'
<1>1. pc[j] = "pass" /\ done[j] < Hosts /\ CursorOfStage(j) /\ done[j] \in Nat /\ steps[j] \in Nat
  BY JobsAssumption DEF ProgressInv, ProgressTypes, PassProgress, At
<1>2. steps[j] + 1 <= total[j] /\ StepsAfter(j) = steps[j] + 1
  BY <1>1, RoomForStep
<1>3. ProgressTypes'
  BY <1>1, <1>2, JobsAssumption
     DEF PassProgress, Advance, ProgressInv, ProgressTypes
<1>4. /\ pc'[j] = "pass" /\ done'[j] = done[j] + 1 /\ server'[j] = server[j]
      /\ ranked'[j] = ranked[j] /\ phase'[j] = phase[j]
      /\ steps'[j] = steps[j] + 1 /\ total'[j] = total[j]
  BY <1>1, <1>2 DEF PassProgress, Advance, ProgressInv, ProgressTypes
<1>5. StepsDone(j)' = StepsDone(j) + 1
  <2> DEFINE before == (server[j] - 1) * PerServer + BeforePhase[phase[j]]
  <2>1. StepsDone(j) = before + done[j] /\ StepsDone(j)' = before + (done[j] + 1)
    BY <1>4 DEF StepsDone, PerServer, BeforePhase
  <2>2. before \in Int
    BY PerServerType, JobsAssumption DEF ProgressInv, ProgressTypes, BeforePhase
  <2> HIDE DEF before
  <2> QED
    BY <2>1, <2>2, <1>1
<1>6. CursorOfStage(j)'
  BY <1>1, <1>2, <1>4, <1>5, JobsAssumption DEF CursorOfStage, Accounted
<1> QED
  BY <1>3, <1>6, OneCursorMoves DEF PassProgress, Advance, ProgressInv, ProgressTypes

(* A step counted on the way out keeps the count within the total. *)
LEMMA AdvanceToAbort ==
  ASSUME ProgressInv, NEW j \in Jobs, pc[j] \in {"probe", "probing"},
         Advance(j), Goto(j, "abort"), UNCHANGED cursor
  PROVE  ProgressInv'
<1>1. steps[j] \in Nat /\ steps[j] + 1 <= total[j] /\ StepsAfter(j) = steps[j] + 1
  BY RoomForStep DEF ProgressInv, ProgressTypes
<1>2. ProgressTypes'
  BY <1>1 DEF Advance, Goto, Stages, ProgressInv, ProgressTypes, cursor
<1>3. CursorOfStage(j)'
  BY <1>1 DEF Advance, Goto, ProgressInv, ProgressTypes, CursorOfStage
<1> QED
  BY <1>2, <1>3, OneCursorMoves DEF Advance, Goto, ProgressInv, ProgressTypes, cursor

LEMMA SendProbeProgress ==
  ASSUME ProgressInv, NEW j \in Jobs, SendProbe(j)
  PROVE  ProgressInv'
<1>1. CASE Goto(j, "probing") /\ UNCHANGED jobVars
  <2>1. CursorOfStage(j) /\ pc[j] = "probe" /\ pc'[j] = "probing"
    BY <1>1 DEF SendProbe, At, Goto, ProgressInv, ProgressTypes
  <2>2. CursorOfStage(j)'
    BY <1>1, <2>1
       DEF SendProbe, CursorOfStage, Accounted, StepsDone, cursor, jobVars
  <2> QED
    BY <1>1, <2>2, MoveProgress DEF SendProbe, Stages, jobVars
<1>2. CASE Goto(j, "abort") /\ Advance(j)
  BY <1>2, AdvanceToAbort DEF SendProbe, At
<1> QED
  BY <1>1, <1>2 DEF SendProbe

LEMMA ProbeDoneProgress ==
  ASSUME ProgressInv, NEW j \in Jobs, ProbeDone(j)
  PROVE  ProgressInv'
<1>1. /\ pc[j] = "probing" /\ CursorOfStage(j) /\ done[j] \in Nat /\ steps[j] \in Nat
      /\ server[j] \in 1..Servers /\ phase[j] = "integrity" /\ done[j] < Probes
      /\ ranked[j] = server[j] - 1 /\ Accounted(j)
  BY JobsAssumption DEF ProgressInv, ProgressTypes, ProbeDone, At, CursorOfStage
<1>2. steps[j] + 1 <= total[j] /\ StepsAfter(j) = steps[j] + 1
  BY <1>1, RoomForStep
<1>3. ProgressTypes'
  BY <1>1, <1>2, JobsAssumption
     DEF ProbeDone, Advance, Goto, Stages, ProgressInv, ProgressTypes
<1>4. steps'[j] = steps[j] + 1 /\ total'[j] = total[j]
  BY <1>2 DEF ProbeDone, Advance, ProgressInv, ProgressTypes
<1> DEFINE before == (server[j] - 1) * PerServer
<1>5. before \in Nat /\ StepsDone(j) = before + 2 * Hosts + done[j]
  BY <1>1, BlocksAreMonotonic, PerServerType, JobsAssumption DEF StepsDone, BeforePhase
<1>6. ASSUME done[j] + 1 < Probes PROVE CursorOfStage(j)'
  <2>1. /\ pc'[j] = "probe" /\ done'[j] = done[j] + 1 /\ server'[j] = server[j]
        /\ ranked'[j] = ranked[j] /\ phase'[j] = phase[j]
    BY <1>6 DEF ProbeDone, Goto, ProgressInv, ProgressTypes
  <2>2. StepsDone(j)' = before + 2 * Hosts + (done[j] + 1)
    BY <2>1, <1>1 DEF StepsDone, BeforePhase, PerServer
  <2>3. StepsDone(j)' = StepsDone(j) + 1
    <3> HIDE DEF before
    <3> QED
      BY <2>2, <1>1, <1>5, JobsAssumption
  <2> QED
    BY <1>1, <1>2, <1>4, <1>6, <2>1, <2>3 DEF CursorOfStage, Accounted
<1>7. ASSUME ~(done[j] + 1 < Probes) PROVE CursorOfStage(j)'
  <2>1. /\ pc'[j] = "next" /\ done'[j] = 0 /\ server'[j] = server[j] + 1
        /\ ranked'[j] = ranked[j] + 1 /\ phase'[j] = "cold"
    BY <1>7 DEF ProbeDone, Goto, ProgressInv, ProgressTypes
  <2>2. StepsDone(j)' = server[j] * PerServer
    BY <2>1, <1>1, PerServerType, JobsAssumption DEF StepsDone, BeforePhase, PerServer
  <2>3. server[j] * PerServer = before + PerServer
    BY <1>1, NextBlock, PerServerType, JobsAssumption
  <2>4. StepsDone(j)' = StepsDone(j) + 1
    <3> HIDE DEF before
    <3> QED
      BY <2>2, <2>3, <1>1, <1>5, <1>7, JobsAssumption DEF PerServer
  <2> QED
    BY <1>1, <1>2, <1>4, <2>1, <2>4 DEF CursorOfStage, Accounted
<1>8. CursorOfStage(j)'
  BY <1>6, <1>7
<1>9. \A i \in Jobs \ {j} :
        /\ pc'[i] = pc[i] /\ steps'[i] = steps[i] /\ total'[i] = total[i]
        /\ server'[i] = server[i] /\ phase'[i] = phase[i]
        /\ done'[i] = done[i] /\ ranked'[i] = ranked[i]
  BY DEF ProbeDone, Advance, Goto, ProgressInv, ProgressTypes
<1> QED
  BY <1>3, <1>8, <1>9, OneCursorMoves

LEMMA MovesProgress ==
  ASSUME ProgressInv, NEW j \in Jobs,
         \/ Start(j) \/ LoadFails(j) \/ NextServer(j) \/ Enter(j) \/ PassAborted(j)
         \/ Abort(j) \/ Unwind(j) \/ Publish(j) \/ Reserve(j)
  PROVE  ProgressInv'
<1>1. CursorOfStage(j) /\ pc \in [Jobs -> Stages] /\ server[j] \in 1..Servers + 1
  BY DEF ProgressInv, ProgressTypes
<1> USE <1>1, MoveProgress
    DEF At, Goto, Stages, CursorOfStage, Accounted, StepsDone, cursor, jobVars, EndWith
<1>2. CASE Start(j)
  BY <1>2 DEF Start
<1>3. CASE LoadFails(j)
  BY <1>3 DEF LoadFails
<1>4. CASE NextServer(j)
  BY <1>4, JobsAssumption DEF NextServer
<1>5. CASE Enter(j)
  BY <1>5, JobsAssumption, SMTT(30) DEF Enter, ProgressInv, ProgressTypes
<1>6. CASE PassAborted(j)
  BY <1>6 DEF PassAborted
<1>7. CASE Abort(j)
  BY <1>7 DEF Abort
<1>8. CASE Unwind(j)
  BY <1>8 DEF Unwind
<1>9. CASE Publish(j)
  BY <1>9 DEF Publish
<1>10. CASE Reserve(j)
  BY <1>10 DEF Reserve
<1> QED
  BY <1>2, <1>3, <1>4, <1>5, <1>6, <1>7, <1>8, <1>9, <1>10

LEMMA NextProgress == ProgressInv /\ [Next]_vars => ProgressInv'
<1> SUFFICES ASSUME ProgressInv, [Next]_vars PROVE ProgressInv'
  OBVIOUS
<1>1. CASE UNCHANGED vars
  BY <1>1, IdleProgress DEF vars, jobVars
<1>2. CASE SubmitBusy \/ Progress \/ CancelAll
  BY <1>2, IdleProgress DEF SubmitBusy, Progress, CancelAll, jobVars
<1>3. ASSUME NEW j \in Jobs, Cancel(j) \/ Age(j) PROVE ProgressInv'
  BY <1>3, IdleProgress DEF Cancel, Age, jobVars
<1>4. ASSUME NEW j \in Jobs, BeginProgress(j) PROVE ProgressInv'
  BY <1>4, BeginProgressProgress
<1>5. ASSUME NEW j \in Jobs, PassProgress(j) PROVE ProgressInv'
  BY <1>5, PassProgressProgress
<1>6. ASSUME NEW j \in Jobs, PassDone(j) PROVE ProgressInv'
  BY <1>6, PassDoneProgress
<1>7. ASSUME NEW j \in Jobs, SendProbe(j) PROVE ProgressInv'
  BY <1>7, SendProbeProgress
<1>8. ASSUME NEW j \in Jobs, ProbeDone(j) PROVE ProgressInv'
  BY <1>8, ProbeDoneProgress
<1>9. ASSUME NEW j \in Jobs, ProbeCanceled(j) PROVE ProgressInv'
  BY <1>9, AdvanceToAbort DEF ProbeCanceled, At
<1>10. ASSUME NEW j \in Jobs, Complete(j) PROVE ProgressInv'
  <2>1. ProgressTypes' /\ CursorOfStage(j)'
    BY <1>10 DEF Complete, EndWith, At, Goto, Stages, ProgressInv, ProgressTypes, CursorOfStage, cursor
  <2> QED
    BY <1>10, <2>1, OneCursorMoves
       DEF Complete, EndWith, Goto, ProgressInv, ProgressTypes, cursor
<1>11. ASSUME NEW j \in Jobs,
              \/ Start(j) \/ LoadFails(j) \/ NextServer(j) \/ Enter(j) \/ PassAborted(j)
              \/ Abort(j) \/ Unwind(j) \/ Publish(j) \/ Reserve(j)
       PROVE  ProgressInv'
  BY <1>11, MovesProgress
<1> QED
  BY <1>1, <1>2, <1>3, <1>4, <1>5, <1>6, <1>7, <1>8, <1>9, <1>10, <1>11 DEF Next, Goroutine

-----------------------------------------------------------------------------
(* The theorems. *)

LEMMA Invariants == Spec => [](ControlInv /\ ProgressInv)
<1>1. Init => ControlInv /\ ProgressInv
  BY InitControl, InitProgress
<1>2. ControlInv /\ ProgressInv /\ [Next]_vars => (ControlInv /\ ProgressInv)'
  BY NextControl, NextProgress
<1> QED
  BY <1>1, <1>2, PTL DEF Spec

(* Every variable keeps to its type; the cursor of a run stays in range. *)
THEOREM TypeCorrect == Spec => []TypeOK
<1>1. ControlInv /\ ProgressInv => TypeOK
  BY DEF ControlInv, ControlTypes, ProgressInv, ProgressTypes, TypeOK, Stages
<1> QED
  BY <1>1, Invariants, PTL

(* At most one submission is between taking the slot of ui/jobs.go and the *)
(* deferred release of it, and only that one is queued or running.         *)
THEOREM OneActiveRunHolds == Spec => []OneActiveRun
<1>1. ControlInv => OneActiveRun
  BY DEF ControlInv, ControlTypes, SlotHeld, StatusOfStage, OneActiveRun, Running,
         IsActive, Active, Verdicts
<1> QED
  BY <1>1, Invariants, PTL

(* No cleanup of expired jobs ever removes a queued or running one. *)
THEOREM ActiveJobsStayRegistered == Spec => []ActiveJobIsRegistered
<1>1. ControlInv => ActiveJobIsRegistered
  BY DEF ControlInv, ControlTypes, StatusOfStage, ActiveJobIsRegistered,
         IsActive, Active, Verdicts
<1> QED
  BY <1>1, Invariants, PTL

(* The steps a run has counted are the queries it has finished, so that the *)
(* count complete writes is the count the run has reached.                  *)
THEOREM ProgressIsAccounted == Spec => []ProgressAccounted
<1>1. ASSUME ProgressInv, NEW j \in Jobs, pc[j] = "finish"
      PROVE  steps[j] = total[j] /\ ranked[j] = Servers
  <2>1. /\ server[j] = Servers + 1 /\ phase[j] = "cold" /\ done[j] = 0
        /\ ranked[j] = server[j] - 1 /\ total[j] = TotalSteps /\ steps[j] = StepsDone(j)
    BY <1>1 DEF ProgressInv, CursorOfStage, Accounted
  <2>2. server[j] - 1 = Servers
    BY <2>1, JobsAssumption
  <2>3. StepsDone(j) = TotalSteps
    BY <2>1, <2>2, PerServerType DEF StepsDone, BeforePhase, TotalSteps
  <2> QED
    BY <2>1, <2>2, <2>3
<1>2. ProgressInv => ProgressAccounted
  BY <1>1 DEF ProgressInv, CursorOfStage, Accounted, ProgressAccounted
<1> QED
  BY <1>2, Invariants, PTL

(* No step of any handler or goroutine takes a verdict back. *)
THEOREM VerdictsAreFinal == Spec => VerdictIsFinal
<1>1. ASSUME ControlInv, [Next]_vars, NEW j \in Jobs, status[j] \in Verdicts
      PROVE  status'[j] = status[j]
  <2>1. pc[j] \in {"unwind", "gone"} /\ status \in [Jobs -> {"none"} \union Active \union Verdicts]
    BY <1>1 DEF ControlInv, ControlTypes, StatusOfStage, Stages, Active, Verdicts
  <2>2. CASE UNCHANGED status
    BY <2>2
  <2>3. ASSUME NEW i \in Jobs, Publish(i) PROVE status'[j] = status[j]
    BY <2>1, <2>3 DEF Publish
  <2>4. ASSUME NEW i \in Jobs, Goroutine(i), ~UNCHANGED status PROVE status'[j] = status[j]
    BY <2>1, <2>4
       DEF Goroutine, Start, LoadFails, BeginProgress, NextServer, Enter, PassProgress,
           PassDone, PassAborted, SendProbe, ProbeDone, ProbeCanceled, Abort, Complete,
           Unwind, Advance, EndWith, At, jobVars
  <2> QED
    BY <1>1, <2>2, <2>3, <2>4
       DEF Next, vars, jobVars, SubmitBusy, Progress, CancelAll, Reserve, Cancel, Age
<1>2. ControlInv /\ [Next]_vars =>
        [\A j \in Jobs : status[j] \in Verdicts => status'[j] = status[j]]_vars
  BY <1>1
<1> QED
  BY <1>2, Invariants, PTL DEF Spec, VerdictIsFinal

(* After a cancellation no resolver is taken up, no pass begins and no probe *)
(* is sent; a result is added only for a resolver whose last probe was out.  *)
THEOREM CancellationStopsWork == Spec => CancelStopsNewWork
<1> DEFINE NoNewWork(j) ==
      /\ pc'[j] \in {"pass", "probing"} => pc[j] = pc'[j]
      /\ pc'[j] = "enter" => pc[j] \in {"enter", "pass"}
      /\ ranked'[j] > ranked[j] => done[j] + 1 = Probes
<1>1. ASSUME ProgressInv, [Next]_vars, NEW j \in Jobs, j \in canceled
      PROVE  NoNewWork(j)
  <2>1. pc \in [Jobs -> Stages] /\ ranked[j] \in Nat /\ ranked \in [Jobs -> 0..Servers]
    BY <1>1, JobsAssumption DEF ProgressInv, ProgressTypes
  <2>2. CASE pc'[j] = pc[j] /\ ranked'[j] = ranked[j]
    BY <2>1, <2>2
  <2>3. ASSUME NEW i \in Jobs, i # j, Reserve(i) \/ Publish(i) \/ Goroutine(i)
        PROVE  pc'[j] = pc[j] /\ ranked'[j] = ranked[j]
    BY <2>1, <2>3
       DEF Reserve, Publish, Goroutine, Start, LoadFails, BeginProgress, NextServer, Enter,
           PassProgress, PassDone, PassAborted, SendProbe, ProbeDone, ProbeCanceled, Abort,
           Complete, Unwind, At, Goto, cursor
  <2>4. CASE ProbeDone(j)
    <3>1. done[j] \in Nat /\ done[j] < Probes
      BY <1>1, <2>4, JobsAssumption
         DEF ProbeDone, At, ProgressInv, ProgressTypes, CursorOfStage
    <3> QED
      BY <2>1, <2>4, <3>1, JobsAssumption DEF ProbeDone, At, Goto
  <2>5. CASE (Reserve(j) \/ Publish(j) \/ Goroutine(j)) /\ ~ProbeDone(j)
    BY <1>1, <2>1, <2>5
       DEF Reserve, Publish, Goroutine, Start, LoadFails, BeginProgress, NextServer, Enter,
           PassProgress, PassDone, PassAborted, SendProbe, ProbeCanceled, Abort,
           Complete, Unwind, At, Goto, cursor, MayProceed
  <2>6. CASE UNCHANGED <<pc, ranked>>
    BY <2>2, <2>6
  <2> QED
    BY <1>1, <2>2, <2>3, <2>4, <2>5, <2>6
       DEF Next, vars, cursor, SubmitBusy, Progress, CancelAll, Cancel, Age
<1>2. ProgressInv /\ [Next]_vars => [\A j \in canceled : j \in Jobs => NoNewWork(j)]_vars
  BY <1>1
<1>3. ControlInv /\ [\A j \in canceled : j \in Jobs => NoNewWork(j)]_vars
        => [\A j \in canceled : NoNewWork(j)]_vars
  BY DEF ControlInv, ControlTypes
<1> QED
  BY <1>2, <1>3, Invariants, PTL DEF Spec, CancelStopsNewWork

(* The API implements the safety part of RunContract: every step of the     *)
(* handlers and of the run goroutine is a step of the contract or changes   *)
(* nothing its clients can see.                                             *)
THEOREM ImplementsContractSafely == Spec => Contract!Safety
<1>1. Init => Contract!Init
  BY DEF Init, Contract!Init
<1>2. ASSUME ControlInv, [Next]_vars PROVE [Contract!Next]_(Contract!vars)
  <2> USE DEF Contract!Next, Contract!Request, Contract!vars, Contract!Active, Contract!Verdicts
  <2>1. ASSUME NEW j \in Kept PROVE j \in registry
    BY DEF Kept
  <2>2. ASSUME NEW j \in registry \ Kept PROVE status[j] \in Verdicts
    BY <1>2 DEF Kept, Expired, ControlInv, ControlTypes, StatusOfStage, Stages
  <2>3. ASSUME registry' = Kept, UNCHANGED status, NEW asked \in SUBSET registry,
               canceled' = canceled \union asked
        PROVE  Contract!Request
    <3>1. /\ registry \ Kept \in SUBSET registry
          /\ \A j \in registry \ Kept : status[j] \in Verdicts
          /\ registry' = registry \ (registry \ Kept)
      BY <2>1, <2>2, <2>3
    <3> QED
      BY <2>3, <3>1 DEF Verdicts
  <2>4. CASE UNCHANGED <<status, canceled, registry>>
    BY <2>4
  <2>5. CASE UNCHANGED <<status, canceled>> /\ registry' = Kept
    <3>1. {} \in SUBSET registry /\ canceled' = canceled \union {}
      BY <2>5
    <3> QED
      BY <2>3, <2>5, <3>1
  <2>6. CASE CancelAll
    <3>1. {} \in SUBSET registry /\ registry \in SUBSET registry
          /\ registry' = registry \ {} /\ canceled' = canceled \union registry
          /\ UNCHANGED status
      BY <2>6 DEF CancelAll, jobVars
    <3> QED
      BY <3>1
  <2>7. ASSUME NEW j \in Jobs, Cancel(j) PROVE Contract!Next
    <3>1. {j} \in SUBSET registry /\ canceled' = canceled \union {j}
      BY <2>1, <2>7 DEF Cancel
    <3> QED
      BY <2>3, <2>7, <3>1 DEF Cancel, jobVars
  <2>8. ASSUME NEW j \in Jobs, Publish(j) PROVE Contract!Start(j)
    BY <1>2, <2>8
       DEF Publish, Contract!Start, ControlInv, ControlTypes, SlotHeld, StatusOfStage,
           Running, Stages, Active, Verdicts
  <2>9. ASSUME NEW j \in Jobs, Start(j) PROVE Contract!Run(j)
    BY <1>2, <2>9
       DEF Start, At, Contract!Run, ControlInv, StatusOfStage
  <2>10. ASSUME NEW j \in Jobs, LoadFails(j) \/ Abort(j) \/ Complete(j)
         PROVE  Contract!End(j)
    BY <1>2, <2>10
       DEF LoadFails, Abort, Complete, EndWith, At, Contract!End, ControlInv, ControlTypes,
           StatusOfStage
  <2>11. ASSUME NEW j \in Jobs, BeginProgress(j) \/ PassProgress(j) \/ SendProbe(j)
                                \/ ProbeDone(j) \/ ProbeCanceled(j)
         PROVE  UNCHANGED <<status, canceled, registry>>
    BY <1>2, <2>11
       DEF BeginProgress, PassProgress, SendProbe, ProbeDone, ProbeCanceled, Advance, At,
           ControlInv, ControlTypes, StatusOfStage, jobVars
  <2>12. ASSUME NEW j \in Jobs, NextServer(j) \/ Enter(j) \/ PassDone(j) \/ PassAborted(j)
                                \/ Unwind(j) \/ Age(j)
         PROVE  UNCHANGED <<status, canceled, registry>>
    BY <2>12 DEF NextServer, Enter, PassDone, PassAborted, Unwind, Age, jobVars
  <2>13. CASE UNCHANGED vars
    BY <2>4, <2>13 DEF vars, jobVars
  <2>14. CASE SubmitBusy \/ Progress
    BY <2>5, <2>14 DEF SubmitBusy, Progress, jobVars
  <2>15. ASSUME NEW j \in Jobs, Reserve(j)
         PROVE  UNCHANGED <<status, canceled>> /\ registry' = Kept
    BY <2>15 DEF Reserve, jobVars
  <2>16. ASSUME NEW j \in Jobs, Goroutine(j) PROVE [Contract!Next]_(Contract!vars)
    BY <2>4, <2>9, <2>10, <2>11, <2>12, <2>16 DEF Goroutine
  <2> QED
    BY <1>2, <2>5, <2>6, <2>7, <2>8, <2>12, <2>4, <2>13, <2>14, <2>15, <2>16 DEF Next
<1>3. ControlInv /\ [Next]_vars => [Contract!Next]_(Contract!vars)
  BY <1>2
<1> QED
  BY <1>1, <1>3, Invariants, PTL DEF Spec, Contract!Safety
=============================================================================
