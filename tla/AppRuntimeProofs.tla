-------------------------- MODULE AppRuntimeProofs --------------------------
(***************************************************************************)
(* Proofs about AppRuntime, for any set of tabs and any limits.            *)
(*                                                                         *)
(* The clock of an empty session list is touched by the requests and by    *)
(* the monitor, in any order.  Its invariant is inductive once the types   *)
(* are known; every other step leaves the four variables it speaks of      *)
(* alone, or only lets the sessions grow older.                            *)
(*                                                                         *)
(* The properties of the monitor look back, so they are proved with the    *)
(* history variables of MCAppRuntime: DecisionInv for why it quits, and    *)
(* TimeInv for how long it takes after the last page.                      *)
(***************************************************************************)
EXTENDS MCAppRuntime, TLAPS

ClockInv == TypeOK /\ QuietClock

LEMMA InitClock == Init => ClockInv
<1> SUFFICES ASSUME Init PROVE ClockInv
  OBVIOUS
<1>1. TypeOK
  <2>1. 0 \in 0..Idle
    BY RuntimeAssumption
  <2> QED
    BY <2>1 DEF Init, TypeOK
<1>2. Sessions = {} /\ ~hadSession /\ quiet = None
  BY DEF Init, Sessions
<1> QED
  BY <1>1, <1>2 DEF ClockInv, QuietClock

(* A step that leaves the sessions and their clock alone. *)
LEMMA ClockUntouched ==
  ASSUME QuietClock, UNCHANGED <<seen, hadSession, quiet>>
  PROVE  QuietClock'
BY DEF QuietClock, Sessions

(* The requests of the pages, and what they leave alone. *)
LEMMA PageSteps ==
  ASSUME ClockInv,
         (\E t \in Tabs : OpenTab(t) \/ SendPing(t) \/ Leave(t))
           \/ Refuse \/ OtherRequest \/ Submit \/ AskShutdown
  PROVE  ClockInv'
<1> USE RuntimeAssumption DEF ClockInv, sessionVars, jobVars, pageVars, Send
<1>1. ASSUME NEW t \in Tabs, OpenTab(t) PROVE ClockInv'
  <2>1. TypeOK'
    BY <1>1 DEF OpenTab, TypeOK
  <2> QED
    BY <1>1, <2>1, ClockUntouched DEF OpenTab
<1>2. ASSUME NEW t \in Tabs, SendPing(t) PROVE ClockInv'
  <2>1. TypeOK'
    BY <1>2 DEF SendPing, TypeOK
  <2> QED
    BY <1>2, <2>1, ClockUntouched DEF SendPing
<1>3. ASSUME NEW t \in Tabs, Leave(t) PROVE ClockInv'
  <2>1. TypeOK'
    BY <1>3 DEF Leave, TypeOK
  <2> QED
    BY <1>3, <2>1, ClockUntouched DEF Leave
<1>4. CASE Refuse
  <2>1. TypeOK'
    BY <1>4 DEF Refuse, TypeOK
  <2> QED
    BY <1>4, <2>1, ClockUntouched DEF Refuse
<1>5. CASE OtherRequest
  <2>1. TypeOK'
    BY <1>5 DEF OtherRequest, TypeOK
  <2> QED
    BY <1>5, <2>1, ClockUntouched DEF OtherRequest
<1>6. CASE Submit
  <2>1. TypeOK'
    BY <1>6 DEF Submit, TypeOK
  <2> QED
    BY <1>6, <2>1, ClockUntouched DEF Submit
<1>7. CASE AskShutdown
  <2>1. TypeOK'
    BY <1>7 DEF AskShutdown, TypeOK
  <2> QED
    BY <1>7, <2>1, ClockUntouched DEF AskShutdown
<1> QED
  BY <1>1, <1>2, <1>3, <1>4, <1>5, <1>6, <1>7

(* An open or a ping, also one that arrives after the close of its page: a *)
(* session is there, and the clock stands.                                 *)
LEMMA SessionSeenClock ==
  ASSUME ClockInv, NEW t \in Tabs, SessionSeen(t)
  PROVE  ClockInv'
<1> USE RuntimeAssumption DEF ClockInv, jobVars
<1>1. wire' \subseteq wire
  BY DEF SessionSeen, Receive
<1>2. idleFor' = 0
  BY DEF SessionSeen, Receive
<1>3. TypeOK'
  BY <1>1, <1>2 DEF SessionSeen, TypeOK
<1>4. t \in Sessions'
  BY DEF SessionSeen, Sessions, None, TypeOK
<1>5. QuietClock'
  BY <1>4 DEF SessionSeen, QuietClock
<1> QED
  BY <1>3, <1>5

(* A close takes one session; the clock starts if it was the last one, and *)
(* does not start anew if there was none.                                  *)
LEMMA SessionClosedClock ==
  ASSUME ClockInv, NEW t \in Tabs, SessionClosed(t)
  PROVE  ClockInv'
<1> USE RuntimeAssumption DEF ClockInv, jobVars
<1>1. wire' \subseteq wire /\ idleFor' = 0
  BY DEF SessionClosed, Receive
<1>2. Sessions' = Sessions \ {t}
  BY DEF SessionClosed, Sessions, TypeOK
<1>3. quiet' \in {None} \union 0..Grace
  BY DEF SessionClosed, QuietAfter, TypeOK
<1>4. TypeOK'
  BY <1>1, <1>3 DEF SessionClosed, TypeOK
<1>5. QuietClock'
  BY <1>2 DEF SessionClosed, QuietAfter, QuietClock, None
<1> QED
  BY <1>4, <1>5

LEMMA TickClock ==
  ASSUME ClockInv, Tick
  PROVE  ClockInv'
<1> USE RuntimeAssumption DEF ClockInv, jobVars, pageVars
<1>1. \A t \in Tabs : /\ seen'[t] \in {None} \union 0..Stale + 1
                      /\ seen'[t] = None <=> seen[t] = None
  BY DEF Tick, Older, TypeOK, None
<1>2. /\ quiet' \in {None} \union 0..Grace
      /\ quiet' = None <=> quiet = None
      /\ idleFor' \in 0..Idle
  BY DEF Tick, Older, TypeOK, None
<1>3. TypeOK'
  BY <1>1, <1>2 DEF Tick, TypeOK
<1>4. Sessions' = Sessions
  BY <1>1 DEF Sessions
<1>5. QuietClock'
  BY <1>2, <1>4 DEF Tick, QuietClock
<1> QED
  BY <1>3, <1>5

(* The sessions that are left are the fresh ones; the clock is stopped or  *)
(* started with them.                                                      *)
LEMMA PruneClock ==
  ASSUME ClockInv, Prune
  PROVE  ClockInv'
<1> USE RuntimeAssumption DEF ClockInv, jobVars, pageVars
<1>1. Sessions' = Fresh
  BY DEF Prune, Sessions, Fresh, TypeOK
<1>2. quiet' \in {None} \union 0..Grace
  BY DEF Prune, QuietAfter, TypeOK
<1>3. TypeOK'
  BY <1>2 DEF Prune, TypeOK
<1>4. Fresh \subseteq Sessions
  BY DEF Fresh
<1>5. QuietClock'
  BY <1>1, <1>4 DEF Prune, QuietAfter, QuietClock, None
<1> QED
  BY <1>3, <1>5

LEMMA OtherSteps ==
  ASSUME ClockInv,
         RunJob \/ CheckJobs \/ CheckSessions \/ CheckIdle \/ MonitorQuits \/ Shutdown
  PROVE  ClockInv'
<1> USE DEF ClockInv, TypeOK, sessionVars, jobVars, pageVars, Begun
<1>1. CASE RunJob
  BY <1>1, ClockUntouched DEF RunJob
<1>2. CASE CheckJobs
  BY <1>2, ClockUntouched DEF CheckJobs
<1>3. CASE CheckSessions
  BY <1>3, ClockUntouched DEF CheckSessions
<1>4. CASE CheckIdle
  BY <1>4, ClockUntouched DEF CheckIdle
<1>5. CASE MonitorQuits
  BY <1>5, ClockUntouched DEF MonitorQuits
<1>6. CASE UserQuits
  BY <1>6, ClockUntouched, ZenonT(40) DEF UserQuits
<1>7. CASE CancelJobs
  BY <1>7, ClockUntouched DEF CancelJobs, JobActive
<1>8. CASE Drain \/ Drained \/ ExitMain
  BY <1>8, ClockUntouched DEF Drain, Drained, ExitMain
<1> QED
  BY <1>1, <1>2, <1>3, <1>4, <1>5, <1>6, <1>7, <1>8 DEF Shutdown

LEMMA StepKeepsClock == ClockInv /\ [Next]_vars => ClockInv'
<1> SUFFICES ASSUME ClockInv, [Next]_vars PROVE ClockInv'
  OBVIOUS
<1>1. CASE UNCHANGED vars
  BY <1>1 DEF ClockInv, TypeOK, QuietClock, Sessions, vars, pageVars, sessionVars, jobVars
<1>2. CASE Next
  BY <1>2, PageSteps, SessionSeenClock, SessionClosedClock, TickClock, PruneClock, OtherSteps
  DEF Next, Monitor
<1> QED
  BY <1>1, <1>2

-----------------------------------------------------------------------------
(* The variables of server_runtime.go and of the pages stay within their   *)
(* types: no age of a session or of the clock runs out of its limits.      *)
THEOREM TypeCorrect == Spec => []TypeOK
<1>1. ClockInv => TypeOK
  BY DEF ClockInv
<1> QED
  BY <1>1, InitClock, StepKeepsClock, PTL DEF Spec

(* noSessionSince is set exactly while there is no session although there  *)
(* was one, however opens, pings, closes and prunes interleave.            *)
THEOREM ClockIsRight == Spec => []QuietClock
<1>1. ClockInv => QuietClock
  BY DEF ClockInv
<1> QED
  BY <1>1, InitClock, StepKeepsClock, PTL DEF Spec
-----------------------------------------------------------------------------
(* The monitor's decisions, with the history of MCAppRuntime. *)

HistoryTypes == runSince \in BOOLEAN /\ visitSince \in BOOLEAN /\ left \in Nat

(* A job that became active since the check of the jobs is known. *)
JobsKnown == monitor \in {"sessions", "idle", "quit"} /\ JobActive => runSince

DecisionInv == ClockInv /\ HistoryTypes /\ JobsKnown /\ QuitIsJustified

LEMMA InitDecision == HInit => DecisionInv
<1> SUFFICES ASSUME HInit PROVE DecisionInv
  OBVIOUS
<1>1. ClockInv
  BY InitClock DEF HInit
<1>2. HistoryTypes /\ monitor = "wait"
  BY DEF HInit, Init, HistoryTypes
<1> QED
  BY <1>1, <1>2 DEF DecisionInv, JobsKnown, QuitIsJustified

LEMMA HistoryStep ==
  ASSUME HistoryTypes, HNext
  PROVE  HistoryTypes'
<1>1. runSince' \in BOOLEAN
  BY Zenon DEF HNext
<1>2. visitSince' \in BOOLEAN
  BY Zenon DEF HNext
<1>3. left' = 0 \/ left' = left + 1 \/ left' = left
  BY DEF HNext
<1> QED
  BY <1>1, <1>2, <1>3 DEF HistoryTypes

(* Only one step makes a job active. *)
LEMMA JobsStayKnown ==
  ASSUME ClockInv, JobsKnown, HNext
  PROVE  JobsKnown'
<1>1. \/ job' = job
      \/ job = "reserved" /\ job' = "queued" /\ monitor' = monitor
      \/ job = "queued" /\ job' = "running" /\ monitor' = monitor
      \/ job' \in {"none", "reserved"}
  BY DEF HNext, Next, OpenTab, SendPing, Leave, SessionSeen, SessionClosed, Refuse, OtherRequest,
         Submit, RunJob, AskShutdown, Tick, Monitor, Prune, CheckJobs, CheckSessions, CheckIdle,
         MonitorQuits, Shutdown, UserQuits, CancelJobs, Drain, Drained, ExitMain,
         pageVars, sessionVars, jobVars
<1>2. \/ monitor' = monitor
      \/ monitor' \in {"jobs", "wait", "stopped"}
      \/ monitor = "jobs" /\ monitor' = "sessions" /\ ~JobActive /\ job' = job
      \/ monitor \in {"sessions", "idle"} /\ monitor' \in {"idle", "quit"} /\ job' = job
  BY DEF HNext, Next, OpenTab, SendPing, Leave, SessionSeen, SessionClosed, Refuse, OtherRequest,
         Submit, RunJob, AskShutdown, Tick, Monitor, Prune, CheckJobs, CheckSessions, CheckIdle,
         MonitorQuits, Shutdown, UserQuits, CancelJobs, Drain, Drained, ExitMain,
         pageVars, sessionVars, jobVars
<1>3. runSince' = (/\ monitor \in {"sessions", "idle", "quit"}
                   /\ runSince \/ (job = "reserved" /\ job' = "queued"))
  BY DEF HNext
<1> QED
  BY <1>1, <1>2, <1>3 DEF JobsKnown, JobActive

LEMMA QuitStaysJustified ==
  ASSUME DecisionInv, HNext
  PROVE  QuitIsJustified'
<1>1. monitor' = "quit" /\ JobActive' => runSince'
  BY JobsStayKnown DEF DecisionInv, JobsKnown
<1>2. ASSUME monitor' = "quit"
      PROVE  NoSessionsLeft' \/ idleFor' = Idle \/ visitSince'
  <2>1. CASE monitor = "quit"
    <3>1. Served \/ (UNCHANGED <<seen, hadSession, quiet, idleFor>>)
      BY <1>2, <2>1
      DEF HNext, Next, Served, SendPing, Leave, Refuse, RunJob, Tick, Monitor, Prune, CheckJobs,
          CheckSessions, CheckIdle, MonitorQuits, Shutdown, UserQuits, CancelJobs, Drain, Drained,
          ExitMain, pageVars, sessionVars, jobVars
    <3>2. visitSince' = (visitSince \/ Served)
      BY <2>1 DEF HNext
    <3>3. CASE Served
      BY <3>2, <3>3
    <3>4. CASE UNCHANGED <<seen, hadSession, quiet, idleFor>>
      BY <2>1, <3>2, <3>4 DEF DecisionInv, QuitIsJustified, NoSessionsLeft, Sessions
    <3> QED
      BY <3>1, <3>3, <3>4
  <2>2. CASE monitor # "quit"
    <3>1. CheckSessions \/ CheckIdle
      BY <1>2, <2>2
      DEF HNext, Next, OpenTab, SendPing, Leave, SessionSeen, SessionClosed, Refuse, OtherRequest,
          Submit, RunJob, AskShutdown, Tick, Monitor, Prune, CheckJobs, MonitorQuits, Shutdown,
          UserQuits, CancelJobs, Drain, Drained, ExitMain, pageVars, sessionVars, jobVars
    <3>2. CASE CheckSessions
      BY <1>2, <3>2 DEF CheckSessions, NoSessionsLeft, Sessions, sessionVars
    <3>3. CASE CheckIdle
      BY <1>2, <3>3, RuntimeAssumption DEF CheckIdle, sessionVars, DecisionInv, ClockInv, TypeOK
    <3> QED
      BY <3>1, <3>2, <3>3
  <2> QED
    BY <2>1, <2>2
<1> QED
  BY <1>1, <1>2 DEF QuitIsJustified

LEMMA StepKeepsDecision == DecisionInv /\ [HNext]_<<vars, history>> => DecisionInv'
<1> SUFFICES ASSUME DecisionInv, [HNext]_<<vars, history>> PROVE DecisionInv'
  OBVIOUS
<1>1. CASE HNext
  <2>1. ClockInv'
    BY <1>1, StepKeepsClock DEF DecisionInv, HNext
  <2> QED
    BY <1>1, <2>1, HistoryStep, JobsStayKnown, QuitStaysJustified DEF DecisionInv
<1>2. CASE UNCHANGED <<vars, history>>
  <2>1. ClockInv'
    BY <1>2, StepKeepsClock DEF DecisionInv
  <2> QED
    BY <1>2, <2>1 DEF DecisionInv, HistoryTypes, JobsKnown, JobActive, QuitIsJustified,
                      NoSessionsLeft, Sessions, vars, history, sessionVars, jobVars
<1> QED
  BY <1>1, <1>2

(* When the monitor decides to quit there is a reason in what it saw, or in  *)
(* what arrived since: nothing a page did before its check is ignored.       *)
THEOREM QuitsForAReason == HSpec => []QuitIsJustified
<1>1. DecisionInv => QuitIsJustified
  BY DEF DecisionInv
<1> QED
  BY <1>1, InitDecision, StepKeepsDecision, PTL DEF HSpec
-----------------------------------------------------------------------------
(* The deadline.  `left` counts the intervals since the last sign of a page. *)
(* A session that is still there is at least as old; after Stale + 1 of them *)
(* the next prune leaves none; from then on the clock of the empty list runs *)
(* along; and in the last interval the monitor does not get past its check.  *)

Pruned == ~(monitor = "wait" /\ due)

OnTime ==
  left > 0 =>
    /\ ~PageOrRun /\ hadSession
    /\ \A t \in Sessions : seen[t] >= left \/ seen[t] = Stale + 1
    /\ Pruned /\ left > Stale => Sessions = {}
    /\ left > Stale + 1 => Sessions = {}
    /\ left > Stale /\ Sessions = {} => quiet >= left - (Stale + 1) \/ quiet = Grace
    /\ left <= Deadline
    /\ left = Deadline => ~Pruned \/ monitor \in {"jobs", "sessions", "quit", "stopped"}

TimeInv == ClockInv /\ HistoryTypes /\ OnTime

LEMMA InitTime == HInit => TimeInv
<1> SUFFICES ASSUME HInit PROVE TimeInv
  OBVIOUS
<1>1. ClockInv
  BY InitClock DEF HInit
<1>2. HistoryTypes /\ left = 0
  BY DEF HInit, HistoryTypes
<1> QED
  BY <1>1, <1>2 DEF TimeInv, OnTime

LEMMA TickOnTime ==
  ASSUME TimeInv, ClockInv', HNext, Tick, left' = left + 1, ~PageOrRun, hadSession
  PROVE  OnTime'
<1> USE RuntimeAssumption DEF TimeInv, ClockInv, TypeOK, HistoryTypes
<1>1. ~PageOrRun' /\ hadSession'
  BY DEF Tick, PageOrRun, pageVars, jobVars
<1>2. /\ monitor = "wait" /\ ~due /\ monitor' = "wait" /\ due' = TRUE
      /\ Pruned /\ ~Pruned'
  BY DEF Tick, Pruned
<1>3. /\ \A t \in Tabs : seen[t] = None <=> seen'[t] = None
      /\ \A t \in Sessions : \/ seen[t] # Stale + 1 /\ seen'[t] = seen[t] + 1
                             \/ seen[t] = Stale + 1 /\ seen'[t] = Stale + 1
  BY DEF Tick, Older, None, Sessions
<1>4. Sessions' = Sessions
  BY <1>3 DEF Sessions
<1>5. \A t \in Sessions' : seen'[t] >= left' \/ seen'[t] = Stale + 1
  <2> SUFFICES ASSUME NEW t \in Sessions PROVE seen'[t] >= left' \/ seen'[t] = Stale + 1
    BY <1>4
  <2>1. seen[t] \in 0..Stale + 1
    BY DEF Sessions, None
  <2>2. left > 0 => seen[t] >= left \/ seen[t] = Stale + 1
    BY DEF OnTime
  <2>3. \/ seen[t] # Stale + 1 /\ seen'[t] = seen[t] + 1
        \/ seen[t] = Stale + 1 /\ seen'[t] = Stale + 1
    BY <1>3
  <2>4. left \in Nat /\ left' = left + 1 /\ Stale \in Nat
    OBVIOUS
  <2> HIDE DEF TimeInv, ClockInv, TypeOK, HistoryTypes
  <2> QED
    BY <2>1, <2>2, <2>3, <2>4
<1>6. left' > Stale + 1 => Sessions' = {}
  BY <1>2, <1>4 DEF OnTime
<1>7. Sessions = {} =>
        /\ quiet \in 0..Grace
        /\ \/ quiet # Grace /\ quiet' = quiet + 1
           \/ quiet = Grace /\ quiet' = Grace
  <2>1. HAVE Sessions = {}
  <2>2. quiet # None /\ quiet \in 0..Grace
    BY <2>1 DEF QuietClock
  <2>3. quiet' = IF quiet = Grace THEN quiet ELSE quiet + 1
    BY <2>2 DEF Tick, Older
  <2> QED
    BY <2>2, <2>3
<1>8. left' > Stale /\ Sessions' = {} => quiet' >= left' - (Stale + 1) \/ quiet' = Grace
  BY <1>4, <1>7 DEF OnTime
<1>9. left # Deadline
  BY <1>2 DEF OnTime, Deadline
<1>10. left' <= Deadline
  BY <1>9 DEF OnTime, Deadline
<1> QED
  BY <1>1, <1>2, <1>5, <1>6, <1>8, <1>10 DEF OnTime

(* The other steps while nothing comes from a page: the turn of the monitor, *)
(* and steps that leave the sessions alone.                                  *)
LEMMA MonitorOnTime ==
  ASSUME TimeInv, ClockInv', HNext, ~Tick, ~Served, left' = left, left > 0
  PROVE  OnTime'
<1> USE RuntimeAssumption DEF TimeInv, ClockInv, TypeOK, HistoryTypes
<1>1. ~PageOrRun /\ hadSession
  BY DEF OnTime
<1>2. \/ Prune \/ CheckJobs \/ CheckSessions \/ CheckIdle \/ MonitorQuits
      \/ UNCHANGED <<tab, job, seen, hadSession, quiet, monitor, due>>
  BY <1>1 DEF HNext, Next, Served, PageOrRun, SendPing, Leave, Refuse, RunJob, Monitor, Shutdown,
              UserQuits, CancelJobs, Drain, Drained, ExitMain, pageVars, sessionVars, jobVars
<1>3. CASE UNCHANGED <<tab, job, seen, hadSession, quiet, monitor, due>>
  BY <1>3 DEF OnTime, PageOrRun, Sessions, Pruned
<1>4. CASE Prune
  <2>1. Sessions' = Fresh /\ \A t \in Fresh : seen'[t] = seen[t] /\ seen[t] <= Stale
    BY <1>4 DEF Prune, Sessions, Fresh
  <2>2. UNCHANGED <<tab, job, hadSession>> /\ monitor' = "jobs" /\ Fresh \subseteq Sessions
    BY <1>4 DEF Prune, pageVars, jobVars, Fresh
  <2>3. \A t \in Fresh : seen[t] >= left /\ left <= Stale
    BY <2>1, <2>2 DEF OnTime, Sessions, None
  <2>4. left > Stale => Sessions' = {}
    BY <2>1, <2>3
  <2>5. left > Stale + 1 => quiet' = quiet
    BY <1>4, <2>1, <2>2, <2>4 DEF Prune, QuietAfter, OnTime, QuietClock
  <2>6. left = Stale + 1 => quiet' \in 0..Grace
    BY <2>2, <2>4 DEF QuietClock, OnTime, None
  <2>7. left > Stale => quiet' >= left - (Stale + 1) \/ quiet' = Grace
    BY <2>5, <2>6 DEF OnTime
  <2> QED
    BY <1>1, <2>1, <2>2, <2>3, <2>4, <2>7 DEF OnTime, PageOrRun, Pruned
<1>5. CASE CheckJobs
  <2>1. monitor' = "sessions" /\ monitor = "jobs"
    BY <1>1, <1>5 DEF CheckJobs, JobActive, PageOrRun
  <2>2. UNCHANGED <<tab, job, seen, hadSession, quiet>>
    BY <1>5 DEF CheckJobs, pageVars, sessionVars, jobVars
  <2> QED
    BY <2>1, <2>2 DEF OnTime, PageOrRun, Sessions, Pruned
<1>6. CASE CheckSessions
  <2>1. monitor = "sessions" /\ UNCHANGED <<tab, job, seen, hadSession, quiet>>
    BY <1>6 DEF CheckSessions, pageVars, sessionVars, jobVars
  <2>2. left = Deadline => NoSessionsLeft
    BY <1>1, <2>1 DEF OnTime, Deadline, Pruned, NoSessionsLeft, QuietClock
  <2>3. monitor' \in {"quit", "idle"} /\ (left = Deadline => monitor' = "quit")
    BY <1>6, <2>2 DEF CheckSessions
  <2> QED
    BY <2>1, <2>3 DEF OnTime, PageOrRun, Sessions, Pruned
<1>7. CASE CheckIdle \/ MonitorQuits
  <2>1. /\ monitor \in {"idle", "quit"} /\ UNCHANGED <<tab, job, seen, hadSession, quiet, due>>
        /\ monitor = "quit" => monitor' = "stopped"
    BY <1>7 DEF CheckIdle, MonitorQuits, pageVars, sessionVars, jobVars
  <2>2. left = Deadline => monitor = "quit"
    BY <2>1 DEF OnTime, Pruned
  <2> QED
    BY <2>1, <2>2 DEF OnTime, PageOrRun, Sessions, Pruned
<1> QED
  BY <1>2, <1>3, <1>4, <1>5, <1>6, <1>7

LEMMA StepKeepsTime == TimeInv /\ [HNext]_<<vars, history>> => TimeInv'
<1> SUFFICES ASSUME TimeInv, [HNext]_<<vars, history>> PROVE TimeInv'
  OBVIOUS
<1>1. ClockInv'
  BY StepKeepsClock DEF TimeInv, HNext
<1>2. CASE HNext
  <2>1. HistoryTypes'
    BY <1>2, HistoryStep DEF TimeInv
  <2>2. \/ left' = 0
        \/ ~PageOrRun /\ hadSession /\ ~Served /\ Tick /\ left' = left + 1
        \/ ~PageOrRun /\ hadSession /\ ~Served /\ ~Tick /\ left' = left
    BY <1>2 DEF HNext
  <2>3. OnTime'
    <3>1. CASE left' = 0
      BY <3>1 DEF OnTime
    <3>2. CASE ~PageOrRun /\ hadSession /\ ~Served /\ Tick /\ left' = left + 1
      BY <1>1, <1>2, <3>2, TickOnTime
    <3>3. CASE ~PageOrRun /\ hadSession /\ ~Served /\ ~Tick /\ left' = left /\ left > 0
      BY <1>1, <1>2, <3>3, MonitorOnTime
    <3>4. CASE left' = left /\ ~(left > 0)
      BY <3>4 DEF OnTime
    <3> QED
      BY <2>2, <3>1, <3>2, <3>3, <3>4
  <2> QED
    BY <1>1, <2>1, <2>3 DEF TimeInv
<1>3. CASE UNCHANGED <<vars, history>>
  BY <1>1, <1>3 DEF TimeInv, HistoryTypes, OnTime, PageOrRun, Sessions, Pruned, vars, history,
                    pageVars, sessionVars, jobVars
<1> QED
  BY <1>2, <1>3

(* The deadline holds for any number of tabs and any limits: the last        *)
(* session, a ghost of a late ping or not, is dropped after Stale + 1 checks *)
(* and the program begins to end after Grace more.                           *)
THEOREM LeavesByTheDeadline == HSpec => []LeavesInTime
<1>1. TimeInv => LeavesInTime
  BY RuntimeAssumption DEF TimeInv, HistoryTypes, OnTime, LeavesInTime, Deadline
<1> QED
  BY <1>1, InitTime, StepKeepsTime, PTL DEF HSpec
=============================================================================
