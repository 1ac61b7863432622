---------------------------- MODULE MCAppRuntime ----------------------------
(***************************************************************************)
(* AppRuntime with history variables, for the properties that compare a    *)
(* decision of the monitor with what it saw and with what came since.      *)
(***************************************************************************)
EXTENDS AppRuntime, TLC

VARIABLES runSince,       \* a job was stored since the monitor's job check
          visitSince,     \* a request was served since its last check
          left            \* check intervals since the last sign of a page

history == <<runSince, visitSince, left>>

(* A ghost session, made by a ping that arrives after the close, is dropped *)
(* after Stale + 1 intervals; Grace more, and the monitor quits.            *)
Deadline == Stale + 1 + Grace

HInit == Init /\ runSince = FALSE /\ visitSince = FALSE /\ left = 0

Served == \/ \E t \in Tabs : OpenTab(t) \/ SessionSeen(t) \/ SessionClosed(t)
          \/ OtherRequest \/ Submit \/ AskShutdown

PageOrRun == (\E t \in Tabs : tab[t] \in {"open", "leaving"}) \/ job # "none"

HNext ==
  /\ Next
  /\ runSince' = (/\ monitor \in {"sessions", "idle", "quit"}
                  /\ runSince \/ (job = "reserved" /\ job' = "queued"))
  /\ visitSince' = (monitor = "quit" /\ (visitSince \/ Served))
  /\ left' = IF PageOrRun \/ ~hadSession \/ Served THEN 0
             ELSE IF Tick THEN left + 1 ELSE left

HSpec == HInit /\ [][HNext]_<<vars, history>>

(* Where exploration stops: once the jobs are canceled the properties below *)
(* have nothing new to say, and AppRuntimeLive.cfg goes on to the exit.      *)
UntilCanceled == stop \in {"no", "begun"}

TabSymmetry == Permutations(Tabs)

(* The monitor decides to quit only if no benchmark was queued or running   *)
(* at its check and no session was left for the whole grace period, or no   *)
(* request came for the whole idle timeout.  What it finds otherwise at the *)
(* moment it acts was submitted or requested since: nothing else is lost.   *)
QuitIsJustified ==
  monitor = "quit" => /\ JobActive => runSince
                      /\ NoSessionsLeft \/ idleFor = Idle \/ visitSince

(* v0.2.5: "the local backend exits shortly after the last UI tab/window    *)
(* closes".  Once every page is left and no benchmark runs, the shutdown    *)
(* begins by the deadline, in whatever order the last requests arrived.     *)
LeavesInTime == stop = "no" => left <= Deadline
=============================================================================
