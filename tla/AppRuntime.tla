----------------------------- MODULE AppRuntime -----------------------------
(***************************************************************************)
(* The life of the local program: server_runtime.go with the part of main  *)
(* that serves and waits, and the page requests that feed it.              *)
(*                                                                         *)
(* Every page opens a session, pings it and closes it when it is left.     *)
(* These requests travel independently, so they may arrive late and out of *)
(* order.  A monitor wakes up once per check interval, drops sessions that *)
(* were not pinged, and requests a shutdown when no benchmark runs and no  *)
(* session was left for a while, or no request came for long.  Its checks  *)
(* and the shutdown are separate critical sections: requests can be served *)
(* between them.  The user can request the shutdown too.                   *)
(*                                                                         *)
(* Time advances in check intervals; ages saturate at their limits.  Of    *)
(* the jobs only the one that may be active is represented (OneActiveRun   *)
(* of BenchmarkJobs).  The idle timeout is on; 0 would switch the monitor  *)
(* off.                                                                    *)
(***************************************************************************)
EXTENDS Integers, FiniteSets

CONSTANTS Tabs,           \* browser tabs, each with a session id of its own
          Grace,          \* uiSessionGracePeriod, in check intervals
          Stale,          \* uiSessionStaleAfter
          Idle            \* idleTimeout

ASSUME RuntimeAssumption ==
  /\ Grace \in Nat \ {0} /\ Stale \in Nat \ {0} /\ Idle \in Nat \ {0}

VARIABLES tab,            \* the page in each tab
          wire,           \* session requests under way, <<tab, kind>>
          seen,           \* uiSessions: the age of each session's last sign
          hadSession,     \* hadUISession
          quiet,          \* the age of noSessionSince
          idleFor,        \* the age of lastActivity
          job,            \* the benchmark that holds the run slot
          jobCanceled,
          monitor,        \* where monitorIdle is
          due,            \* the ticker has fired
          asked,          \* shutdown requests accepted from the page
          stop            \* how far the shutdown is

pageVars == <<tab, wire>>
sessionVars == <<seen, hadSession, quiet, idleFor>>
jobVars == <<job, jobCanceled>>
vars == <<pageVars, sessionVars, jobVars, monitor, due, asked, stop>>

None == -1                \* no entry in uiSessions; the zero time

Sessions == {t \in Tabs : seen[t] # None}
Listening == stop \in {"no", "begun", "canceled"}
Serving == Listening \/ stop = "draining"

(* Types; ages stay within their limits. *)
TypeOK ==
  /\ tab \in [Tabs -> {"new", "open", "leaving", "gone"}]
  /\ wire \subseteq Tabs \X {"open", "ping", "close"}
  /\ seen \in [Tabs -> {None} \union 0..Stale + 1]
  /\ hadSession \in BOOLEAN
  /\ quiet \in {None} \union 0..Grace
  /\ idleFor \in 0..Idle
  /\ job \in {"none", "reserved", "queued", "running"}
  /\ jobCanceled \in BOOLEAN
  /\ monitor \in {"wait", "jobs", "sessions", "idle", "quit", "stopped"}
  /\ due \in BOOLEAN /\ asked \in BOOLEAN
  /\ stop \in {"no", "begun", "canceled", "draining", "done", "exited"}

Init == /\ tab = [t \in Tabs |-> "new"] /\ wire = {}
        /\ seen = [t \in Tabs |-> None]
        /\ hadSession = FALSE /\ quiet = None /\ idleFor = 0
        /\ job = "none" /\ jobCanceled = FALSE
        /\ monitor = "wait" /\ due = FALSE
        /\ asked = FALSE /\ stop = "no"

-----------------------------------------------------------------------------
(* The pages: index.js. *)

Send(t, kind) == wire' = wire \union {<<t, kind>>}

(* init: openSession.  The page was served, so the server is running. *)
OpenTab(t) ==
  /\ tab[t] = "new" /\ Listening
  /\ tab' = [tab EXCEPT ![t] = "open"]
  /\ Send(t, "open")
  /\ idleFor' = 0
  /\ UNCHANGED <<seen, hadSession, quiet, jobVars, monitor, due, asked, stop>>

(* pingServer: by timer, when the page becomes visible, after the open. *)
SendPing(t) ==
  /\ tab[t] \in {"open", "leaving"}
  /\ Send(t, "ping")
  /\ UNCHANGED <<tab, sessionVars, jobVars, monitor, due, asked, stop>>

(* beforeunload, then pagehide: both run closeSession. *)
Leave(t) ==
  /\ tab[t] \in {"open", "leaving"}
  /\ tab' = [tab EXCEPT ![t] = IF @ = "open" THEN "leaving" ELSE "gone"]
  /\ Send(t, "close")
  /\ UNCHANGED <<sessionVars, jobVars, monitor, due, asked, stop>>

(* The server has stopped listening: the request fails. *)
Refuse == \E m \in wire : /\ ~Listening
                          /\ wire' = wire \ {m}
                          /\ UNCHANGED <<tab, sessionVars, jobVars, monitor, due, asked, stop>>

-----------------------------------------------------------------------------
(* The handlers; each first marks the activity (wrapHandler). *)

Receive(t, kind) == /\ Serving /\ <<t, kind>> \in wire
                    /\ wire' = wire \ {<<t, kind>>}
                    /\ idleFor' = 0

(* sessionOpened and sessionPing: a ping also adds a session it does not find. *)
SessionSeen(t) ==
  /\ Receive(t, "open") \/ Receive(t, "ping")
  /\ seen' = [seen EXCEPT ![t] = 0]
  /\ hadSession' = TRUE
  /\ quiet' = None
  /\ UNCHANGED <<tab, jobVars, monitor, due, asked, stop>>

(* Mutant: any close starts the clock, whoever is left. *)
QuietAfterAnyClose(left) == IF hadSession /\ quiet = None THEN 0 ELSE quiet

(* noSessionSince once `left` are the sessions that are left. *)
QuietAfter(left) == IF left = {} /\ hadSession /\ quiet = None THEN 0 ELSE quiet

SessionClosed(t) ==
  /\ Receive(t, "close")
  /\ seen' = [seen EXCEPT ![t] = None]
  /\ quiet' = QuietAfter(Sessions \ {t})
  /\ UNCHANGED <<tab, hadSession, jobVars, monitor, due, asked, stop>>

(* Any other request of a page, as a poll of /progress. *)
OtherRequest ==
  /\ Serving /\ \E t \in Tabs : tab[t] \in {"open", "leaving"}
  /\ idleFor' = 0
  /\ UNCHANGED <<pageVars, seen, hadSession, quiet, jobVars, monitor, due, asked, stop>>

(* /submit takes the slot, then stores the job; the run may be canceled. *)
Submit ==
  /\ Serving /\ job = "none" /\ \E t \in Tabs : tab[t] = "open"
  /\ job' = "reserved"
  /\ idleFor' = 0
  /\ UNCHANGED <<pageVars, seen, hadSession, quiet, jobCanceled, monitor, due, asked, stop>>

RunJob ==
  /\ stop # "exited"
  /\ \/ job = "reserved" /\ job' = "queued"
     \/ job = "queued" /\ job' = "running"
     \/ job = "running" /\ job' = "none"
  /\ jobCanceled' = (jobCanceled /\ job' # "none")
  /\ UNCHANGED <<pageVars, sessionVars, monitor, due, asked, stop>>

(* /shutdown answers and leaves the work to a goroutine. *)
AskShutdown ==
  /\ Serving /\ \E t \in Tabs : tab[t] = "open"
  /\ asked' = TRUE
  /\ idleFor' = 0
  /\ UNCHANGED <<pageVars, seen, hadSession, quiet, jobVars, monitor, due, stop>>

-----------------------------------------------------------------------------
(* monitorIdle.  One wake-up per unit of time. *)

Older(age, limit) == IF age = None \/ age = limit THEN age ELSE age + 1

Tick ==
  /\ stop = "no" /\ monitor = "wait" /\ ~due
  /\ due' = TRUE
  /\ seen' = [t \in Tabs |-> Older(seen[t], Stale + 1)]
  /\ quiet' = Older(quiet, Grace)
  /\ idleFor' = Older(idleFor, Idle)
  /\ UNCHANGED <<pageVars, hadSession, jobVars, monitor, asked, stop>>

(* pruneStaleSessions *)
Fresh == {t \in Sessions : seen[t] <= Stale}
(* Mutant: sessions are dropped, the clock is not started. *)
PruneWithoutClock ==
  /\ monitor = "wait" /\ due /\ stop # "exited"
  /\ due' = FALSE
  /\ seen' = [t \in Tabs |-> IF t \in Fresh THEN seen[t] ELSE None]
  /\ quiet' = IF Fresh = {} THEN quiet ELSE None
  /\ monitor' = "jobs"
  /\ UNCHANGED <<pageVars, hadSession, idleFor, jobVars, asked, stop>>

Prune ==
  /\ monitor = "wait" /\ due /\ stop # "exited"
  /\ due' = FALSE
  /\ seen' = [t \in Tabs |-> IF t \in Fresh THEN seen[t] ELSE None]
  /\ quiet' = IF Fresh = {} THEN QuietAfter(Fresh) ELSE None
  /\ monitor' = "jobs"
  /\ UNCHANGED <<pageVars, hadSession, idleFor, jobVars, asked, stop>>

(* HasRunningJobs sees jobs that are in the registry and not over. *)
JobActive == job \in {"queued", "running"}
CheckJobs ==
  /\ monitor = "jobs" /\ stop # "exited"
  /\ monitor' = IF JobActive THEN "wait" ELSE "sessions"
  /\ UNCHANGED <<pageVars, sessionVars, jobVars, due, asked, stop>>

(* shouldShutdownForNoSessions *)
NoSessionsLeft == hadSession /\ Sessions = {} /\ quiet # None /\ quiet >= Grace
(* Mutant: no grace period. *)
CheckSessionsAtOnce ==
  /\ monitor = "sessions" /\ stop # "exited"
  /\ monitor' = IF hadSession /\ Sessions = {} THEN "quit" ELSE "idle"
  /\ UNCHANGED <<pageVars, sessionVars, jobVars, due, asked, stop>>

CheckSessions ==
  /\ monitor = "sessions" /\ stop # "exited"
  /\ monitor' = IF NoSessionsLeft THEN "quit" ELSE "idle"
  /\ UNCHANGED <<pageVars, sessionVars, jobVars, due, asked, stop>>

(* Mutant: the idle timeout waits for a first session. *)
CheckIdleAfterSession ==
  /\ monitor = "idle" /\ stop # "exited"
  /\ monitor' = IF ~hadSession \/ idleFor < Idle THEN "wait" ELSE "quit"
  /\ UNCHANGED <<pageVars, sessionVars, jobVars, due, asked, stop>>

CheckIdle ==
  /\ monitor = "idle" /\ stop # "exited"
  /\ monitor' = IF idleFor < Idle THEN "wait" ELSE "quit"
  /\ UNCHANGED <<pageVars, sessionVars, jobVars, due, asked, stop>>

-----------------------------------------------------------------------------
(* requestShutdown: only the first caller gets past beginShutdown. *)

(* Mutant: every request begins the shutdown anew. *)
BegunAnew == stop' = "begun"

Begun == stop' = IF stop = "no" THEN "begun" ELSE stop

MonitorQuits ==
  /\ monitor = "quit" /\ stop # "exited" /\ Begun
  /\ monitor' = "stopped"
  /\ UNCHANGED <<pageVars, sessionVars, jobVars, due, asked>>

UserQuits ==
  /\ asked /\ stop # "exited" /\ Begun
  /\ asked' = FALSE
  /\ UNCHANGED <<pageVars, sessionVars, jobVars, monitor, due>>

CancelJobs ==
  /\ stop = "begun" /\ stop' = "canceled"
  /\ jobCanceled' = (jobCanceled \/ JobActive)
  /\ UNCHANGED <<pageVars, sessionVars, job, monitor, due, asked>>

(* server.Shutdown: Serve returns at once; requests that have been accepted *)
(* are served for five seconds at most.                                     *)
Drain ==
  /\ stop = "canceled" /\ stop' = "draining"
  /\ UNCHANGED <<pageVars, sessionVars, jobVars, monitor, due, asked>>

(* Shutdown or Close has returned: close(shutdownDone). *)
Drained ==
  /\ stop = "draining" /\ stop' = "done"
  /\ UNCHANGED <<pageVars, sessionVars, jobVars, monitor, due, asked>>

(* main: waitForShutdown returns and with it the program ends. *)
ExitMain ==
  /\ stop = "done" /\ stop' = "exited"
  /\ UNCHANGED <<pageVars, sessionVars, jobVars, monitor, due, asked>>

Monitor == Prune \/ CheckJobs \/ CheckSessions \/ CheckIdle \/ MonitorQuits
Shutdown == UserQuits \/ CancelJobs \/ Drain \/ Drained \/ ExitMain

Next == \/ \E t \in Tabs : OpenTab(t) \/ SendPing(t) \/ Leave(t)
                             \/ SessionSeen(t) \/ SessionClosed(t)
        \/ Refuse \/ OtherRequest \/ Submit \/ RunJob \/ AskShutdown
        \/ Tick \/ Monitor \/ Shutdown

Fairness == /\ WF_vars(Tick) /\ WF_vars(Monitor) /\ WF_vars(RunJob)
            /\ WF_vars(UserQuits) /\ WF_vars(CancelJobs)
            /\ WF_vars(Drain) /\ WF_vars(Drained) /\ WF_vars(ExitMain)

Spec == Init /\ [][Next]_vars /\ Fairness

-----------------------------------------------------------------------------
(* The clock of an empty page list is right whatever the order in which     *)
(* opens, pings, closes and prunes take effect: it runs exactly while there *)
(* is no session although there was one.  Were it lost, the program would   *)
(* outlive its last page; were it to run on, it would end under a page.     *)
QuietClock ==
  /\ hadSession => (Sessions = {} <=> quiet # None)
  /\ ~hadSession => Sessions = {} /\ quiet = None

(* A shutdown that was requested, by the user or the monitor, goes through: *)
(* main never waits for a shutdownDone that nobody closes, also when both   *)
(* request it.                                                              *)
ShutdownEnds == asked \/ stop # "no" ~> stop = "exited"

NoPage == \A t \in Tabs : tab[t] \notin {"open", "leaving"}

(* A program without a page ends, whether a page was ever opened or not,    *)
(* whichever of the last requests arrive, and after any running benchmark.  *)
EndsWhenAbandoned == <>[]NoPage => <>(stop = "exited")
=============================================================================
