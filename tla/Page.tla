-------------------------------- MODULE Page --------------------------------
(***************************************************************************)
(* The page of ui/static/index.js as a user of the benchmark job API.      *)
(*                                                                         *)
(* runBenchmark, cancelBenchmark, runDnssecCheck and shutdownApp are       *)
(* coroutines: each runs from one await to the next without interruption,  *)
(* and in between clicks and the other coroutines run.  An action is such  *)
(* a stretch, with everything it assigns and every control it changes.     *)
(* The job API is what module RunContract promises, with the run slot that *)
(* the goroutine gives back after its verdict.                             *)
(*                                                                         *)
(* The r-th submission asks for job r.  The status line and the log text   *)
(* are one message, without what a check or a failure says in it; the      *)
(* progress bar is left out.  What the report looks like is the subject of *)
(* module Report: here it is the job the report belongs to.                *)
(***************************************************************************)
EXTENDS Integers, FiniteSets

CONSTANTS MaxRuns,        \* bound: submissions
          Cancels         \* bound: cancel requests under way at the same time

ASSUME PageAssumption == MaxRuns \in Nat

Runs == 1..MaxRuns
None == 0                 \* "" of currentJobId, null of currentResult

VARIABLES status, canceled, visible,  \* the job API: see RunContract
          slot,           \* the job that holds the run slot
          current,        \* currentJobId
          result,         \* the job of currentResult
          running,        \* benchmarkRunning
          pings,          \* keepAliveHandle # 0
          consent,        \* the checkbox history-consent
          enabled,        \* the buttons that are not disabled
          message,        \* the status text and the log set with it
          shown,          \* the job of metrics, winner banner, table and charts
          cards,          \* the job of the summary cards
          diagnosed,      \* the job of the diagnostics
          run,            \* where the r-th runBenchmark is
          answer,         \* what the answer to its request says
          cancel,         \* the jobs of the cancel requests under way
          dnssec,         \* runDnssecCheck awaits its answer
          shut            \* where shutdownApp is

API == INSTANCE RunContract WITH Jobs <- Runs

server == <<status, canceled, visible, slot>>
globals == <<current, result, running, pings>>
report == <<shown, cards, diagnosed>>
screen == <<consent, enabled, message, report>>
vars == <<server, globals, screen, run, answer, cancel, dnssec, shut>>

Watching == {"poll", "polled", "sleep"}
Busy == {"running", "checking", "stopping"}
Failures == {"failed", "canceled", "stop failed"}

(* Types. *)
TypeOK ==
  /\ status \in [Runs -> {"none"} \union API!Active \union API!Verdicts]
  /\ canceled \subseteq Runs /\ visible \subseteq Runs
  /\ slot \in Runs \union {None} /\ current \in Runs \union {None}
  /\ result \in Runs \union {None} /\ running \in BOOLEAN /\ pings \in BOOLEAN
  /\ consent \in BOOLEAN /\ dnssec \in BOOLEAN
  /\ enabled \subseteq {"start", "cancel", "dnssec", "shutdown", "export"}
  /\ message \in {"ready", "completed", "checked", "stopped"} \union Busy \union Failures
  /\ shown \in Runs \union {None} /\ cards \in Runs \union {None}
  /\ diagnosed \in Runs \union {None}
  /\ run \in [Runs -> {"idle", "submit", "submitted", "ended"} \union Watching]
  /\ answer \in [Runs -> {"none", "accepted", "refused", "failed"}
                         \union API!Active \union API!Verdicts]
  /\ cancel \in [Cancels -> Runs \union {None}]
  /\ shut \in {"idle", "asked", "served", "accepted"}

(* The page is loaded: no job, export and cancel disabled, consent not given. *)
Init == /\ API!Init /\ slot = None
        /\ current = None /\ result = None /\ running = FALSE /\ pings = TRUE
        /\ consent = FALSE /\ enabled = {"dnssec", "shutdown"}
        /\ message = "ready"
        /\ shown = None /\ cards = None /\ diagnosed = None
        /\ run = [r \in Runs |-> "idle"] /\ answer = [r \in Runs |-> "none"]
        /\ cancel = [c \in Cancels |-> None]
        /\ dnssec = FALSE /\ shut = "idle"

-----------------------------------------------------------------------------
(* What the handlers share. *)

Goto(r, stage) == run' = [run EXCEPT ![r] = stage]

(* refreshBenchmarkEligibility, applied to a set of enabled buttons. *)
Refreshed(buttons, isRunning, agreed) ==
  (buttons \ {"start"}) \union (IF ~isRunning /\ agreed THEN {"start"} ELSE {})

(* Mutant: the start button looks at the run only. *)
ButtonsWithoutConsent(buttons, isRunning) ==
  (buttons \ {"start", "cancel", "dnssec"})
    \union (IF isRunning THEN {"cancel"} ELSE {"dnssec", "start"})

(* setBenchmarkButtons, the same way. *)
Buttons(buttons, isRunning) ==
  Refreshed((buttons \ {"cancel", "dnssec"})
              \union (IF isRunning THEN {"cancel"} ELSE {"dnssec"}), isRunning, consent)

(* Mutant: the finally of runBenchmark leaves the buttons alone. *)
FinallyKeepsButtons(r, buttons) ==
  /\ Goto(r, "ended")
  /\ running' = FALSE
  /\ enabled' = buttons

(* The finally of runBenchmark; `buttons` is what the try left. *)
Finally(r, buttons) ==
  /\ Goto(r, "ended")
  /\ running' = FALSE
  /\ enabled' = Buttons(buttons, FALSE)

(* The catch of runBenchmark: a request failed or was refused.  currentJobId *)
(* stays, and so do the export buttons.                                      *)
Catch(r) ==
  /\ result' = None /\ message' = "failed" /\ cards' = None
  /\ UNCHANGED <<current, shown, diagnosed>>
  /\ Finally(r, enabled)

-----------------------------------------------------------------------------
(* runBenchmark and pollBenchmark. *)

(* A click on Start Benchmark, up to the request. *)
Start(r) ==
  /\ run[r] = "idle" /\ \A q \in 1..r-1 : run[q] # "idle"
  /\ "start" \in enabled
  /\ result' = None /\ running' = TRUE
  /\ enabled' = Buttons(enabled \ {"export"}, TRUE)
  /\ cards' = None /\ diagnosed' = None
  /\ message' = "running"
  /\ Goto(r, "submit")
  /\ UNCHANGED <<server, current, pings, consent, shown, answer, cancel, dnssec, shut>>

(* The answer to the submission; pollBenchmark starts with a poll. *)
TakeSubmit(r) ==
  /\ run[r] = "submitted"
  /\ \/ /\ answer[r] = "accepted"
        /\ current' = r /\ Goto(r, "poll")
        /\ UNCHANGED <<result, running, screen>>
     \/ /\ answer[r] # "accepted"
        /\ Catch(r)
        /\ UNCHANGED consent
  /\ answer' = [answer EXCEPT ![r] = "none"]
  /\ UNCHANGED <<server, pings, cancel, dnssec, shut>>

(* Mutant: every verdict that is not a failure is rendered. *)
PollEndedWell(r) ==
  /\ answer[r] \in {"completed", "canceled"}
  /\ result' = r /\ shown' = r /\ cards' = r /\ diagnosed' = r
  /\ message' = "completed"
  /\ current' = None /\ Finally(r, enabled \union {"export"})

(* The run is completed: its result is rendered and can be exported. *)
PollCompleted(r) ==
  /\ answer[r] = "completed"
  /\ result' = r /\ shown' = r /\ cards' = r /\ diagnosed' = r
  /\ message' = "completed"
  /\ current' = None /\ Finally(r, enabled \union {"export"})

(* Mutant: an error is polled on. *)
PollCanceledOnly(r) ==
  \/ /\ answer[r] = "canceled"
     /\ message' = "canceled" /\ cards' = None
     /\ current' = None /\ Finally(r, enabled)
     /\ UNCHANGED <<result, shown, diagnosed>>
  \/ /\ answer[r] = "error" /\ Goto(r, "sleep")
     /\ UNCHANGED <<current, result, running, enabled, message, report>>

(* Mutant: a job that still waits for its goroutine counts as failed. *)
PollQueuedIsOver(r) ==
  /\ answer[r] \in {"canceled", "error", "queued"} /\ message' = "failed"
  /\ cards' = None
  /\ current' = None /\ Finally(r, enabled)
  /\ UNCHANGED <<result, shown, diagnosed>>

(* The run was canceled or has failed. *)
PollGivenUp(r) ==
  /\ \/ answer[r] = "canceled" /\ message' = "canceled"
     \/ answer[r] = "error" /\ message' = "failed"
  /\ cards' = None
  /\ current' = None /\ Finally(r, enabled)
  /\ UNCHANGED <<result, shown, diagnosed>>

(* Mutant: the status line shows the status of the job as it is. *)
PollShowsStatus(r) ==
  /\ answer[r] \in API!Active
  /\ message' = answer[r]
  /\ Goto(r, "sleep")
  /\ UNCHANGED <<current, result, running, enabled, report>>

(* The run goes on: 700 ms until the next poll. *)
PollRunning(r) ==
  /\ answer[r] \in API!Active
  /\ message' = "running"
  /\ Goto(r, "sleep")
  /\ UNCHANGED <<current, result, running, enabled, report>>

(* The answer to a poll.  Nothing asks whether the job is still current. *)
TakePoll(r) ==
  /\ run[r] = "polled"
  /\ \/ PollCompleted(r) \/ PollGivenUp(r) \/ PollRunning(r)
     \/ answer[r] \in {"refused", "failed"} /\ Catch(r)
  /\ answer' = [answer EXCEPT ![r] = "none"]
  /\ UNCHANGED <<server, pings, consent, cancel, dnssec, shut>>

(* The timer: another poll, or the loop ends and runBenchmark with it. *)
Wake(r) ==
  /\ run[r] = "sleep"
  /\ \/ /\ current = r /\ Goto(r, "poll")
        /\ UNCHANGED <<globals, screen>>
     \/ /\ current # r /\ UNCHANGED current
        /\ Finally(r, enabled)
        /\ UNCHANGED <<result, pings, consent, message, report>>
  /\ UNCHANGED <<server, answer, cancel, dnssec, shut>>

-----------------------------------------------------------------------------
(* The other controls. *)

(* A click on Cancel Run, up to the request; without a job id it does nothing. *)
ClickCancel(c) ==
  /\ cancel[c] = None /\ "cancel" \in enabled /\ current # None
  /\ cancel' = [cancel EXCEPT ![c] = current]
  /\ UNCHANGED <<server, globals, screen, run, answer, dnssec, shut>>

(* The finally of cancelBenchmark, whatever the answer, whatever is current. *)
EndCancel(c) ==
  /\ cancel[c] # None
  /\ cancel' = [cancel EXCEPT ![c] = None]
  /\ current' = None /\ result' = None /\ running' = FALSE
  /\ enabled' = Buttons(enabled \ {"export"}, FALSE)
  /\ cards' = None
  /\ message' = "canceled"
  /\ UNCHANGED <<server, pings, consent, shown, diagnosed, run, answer, dnssec, shut>>

(* A click on Quick DNSSEC Check.  Bound: one check under way. *)
ClickDnssec ==
  /\ ~dnssec /\ "dnssec" \in enabled
  /\ dnssec' = TRUE
  /\ enabled' = enabled \ {"dnssec"} /\ message' = "checking"
  /\ UNCHANGED <<server, globals, consent, report, run, answer, cancel, shut>>

EndDnssec ==
  /\ dnssec /\ dnssec' = FALSE
  /\ enabled' = enabled \union {"dnssec"}
  /\ message' = "checked"
  /\ UNCHANGED <<server, globals, consent, report, run, answer, cancel, shut>>

(* A click on Shut Down App that is confirmed. *)
ClickShutdown ==
  /\ "shutdown" \in enabled /\ shut' = "asked"
  /\ current' = None /\ result' = None /\ running' = FALSE /\ pings' = FALSE
  /\ enabled' = Buttons(enabled \ {"shutdown", "export"}, FALSE)
  /\ message' = "stopping"
  /\ UNCHANGED <<server, consent, report, run, answer, cancel, dnssec>>

(* The answer to the shutdown.  The window may close itself after success. *)
ShutdownAccepted ==
  /\ shut = "served" /\ shut' = "accepted"
  /\ message' = "stopped"
  /\ UNCHANGED <<server, globals, consent, enabled, report, run, answer,
                 cancel, dnssec>>

(* Mutant: the page stops pinging for good. *)
ShutdownFailedQuietly ==
  /\ shut \in {"asked", "served"} /\ shut' = "idle"
  /\ enabled' = Refreshed(enabled \union {"shutdown"}, running, consent)
  /\ message' = "stop failed"
  /\ UNCHANGED <<server, globals, consent, report, run, answer, cancel, dnssec>>

ShutdownFailed ==
  /\ shut \in {"asked", "served"} /\ shut' = "idle"
  /\ enabled' = Refreshed(enabled \union {"shutdown"}, running, consent)
  /\ message' = "stop failed" /\ pings' = TRUE
  /\ UNCHANGED <<server, current, result, running, consent, report, run, answer,
                 cancel, dnssec>>

ToggleConsent ==
  /\ consent' = ~consent
  /\ enabled' = Refreshed(enabled, running, consent')
  /\ UNCHANGED <<server, globals, message, report, run, answer, cancel,
                 dnssec, shut>>

-----------------------------------------------------------------------------
(* The job API and the way to it. *)

page == <<globals, screen, cancel, dnssec>>

Reply(r, stage, a) == Goto(r, stage) /\ answer' = [answer EXCEPT ![r] = a]

(* The server listens until it has answered a shutdown. *)
Listening == shut # "accepted"

(* /submit: 409 while the slot is taken. *)
ServeSubmit(r) ==
  /\ run[r] = "submit" /\ Listening
  /\ \/ /\ slot = None /\ slot' = r
        /\ API!Start(r) /\ Reply(r, "submitted", "accepted")
     \/ /\ slot # None /\ Reply(r, "submitted", "refused")
        /\ UNCHANGED server
  /\ UNCHANGED <<page, shut>>

(* /progress. *)
ServePoll(r) ==
  /\ run[r] = "poll" /\ Listening
  /\ Reply(r, "polled", status[r])
  /\ UNCHANGED <<server, page, shut>>

(* A request fails, or its answer cannot be read or is not 200, as for a job *)
(* that ended so long ago that it was forgotten.                             *)
Lose(r) ==
  /\ \/ run[r] \in {"submit", "submitted"} /\ Reply(r, "submitted", "failed")
     \/ run[r] \in {"poll", "polled"} /\ Reply(r, "polled", "failed")
  /\ UNCHANGED <<server, page, shut>>

(* /cancel. *)
ServeCancel(c) ==
  /\ cancel[c] \in visible /\ Listening
  /\ canceled' = canceled \union {cancel[c]}
  /\ UNCHANGED <<status, visible, slot, page, run, answer, shut>>

(* /shutdown, with CancelAllBenchmarkJobs. *)
ServeShutdown ==
  /\ shut = "asked" /\ shut' = "served"
  /\ canceled' = canceled \union visible
  /\ UNCHANGED <<status, visible, slot, page, run, answer>>

(* The run goroutine: it starts, ends with a verdict, and leaves the slot. *)
Work ==
  /\ \/ \E r \in Runs : /\ API!Run(r) \/ API!End(r)
                        /\ UNCHANGED slot
     \/ \E r \in Runs : /\ slot = r /\ status[r] \in API!Verdicts
                        /\ slot' = None
                        /\ UNCHANGED <<status, canceled, visible>>
  /\ UNCHANGED <<page, run, answer, shut>>

Coroutine(r) == \/ ServeSubmit(r) \/ TakeSubmit(r)
                \/ ServePoll(r) \/ TakePoll(r) \/ Wake(r)
                \/ ~Listening /\ Lose(r)

Next == \/ \E r \in Runs : Start(r) \/ Coroutine(r) \/ Lose(r)
        \/ \E c \in Cancels : ClickCancel(c) \/ ServeCancel(c) \/ EndCancel(c)
        \/ ClickDnssec \/ EndDnssec
        \/ ClickShutdown \/ ServeShutdown \/ ShutdownAccepted \/ ShutdownFailed
        \/ ToggleConsent \/ Work

(* Requests are answered, timers fire, runs end; nobody has to click. *)
Fairness == WF_vars(Work) /\ WF_vars(\E r \in Runs : Coroutine(r))

Spec == Init /\ [][Next]_vars /\ Fairness

-----------------------------------------------------------------------------
(* No coroutine is under way. *)
AtRest == /\ \A r \in Runs : run[r] \in {"idle", "ended"}
          /\ \A c \in Cancels : cancel[c] = None
          /\ ~dnssec /\ shut \in {"idle", "accepted"}

(* What exportJson and exportCsv ask for before they write a file. *)
CanExport == "export" \in enabled /\ result # None

(* Whatever is rendered is the result of a run the server has completed:    *)
(* no late, canceled or failed run shows up as a report; the parts of the   *)
(* report never belong to two runs, except that one of them may have been   *)
(* reset, and the result kept for the export is the one in the table.       *)
ReportIsGenuine ==
  /\ \A r \in {shown, cards, diagnosed, result} \ {None} :
       status[r] = "completed" /\ r = shown
  /\ result # None => CanExport

(* "Benchmark start requires explicit consent" (README.md:108): whatever    *)
(* was checked, unchecked, started and ended before, no run is submitted    *)
(* while the box is not checked.                                            *)
ConsentGiven ==
  [][\A r \in Runs : run[r] = "idle" /\ run'[r] # "idle" => consent]_vars

(* However the runs, cancels, checks and shutdowns overlapped: when the last *)
(* of them is over the buttons offer what can be done, and a page whose      *)
(* shutdown was not accepted goes on keeping the server alive.               *)
ButtonsAtRest ==
  AtRest =>
    /\ enabled \ {"export", "shutdown"} = {"dnssec"} \union (IF consent THEN {"start"} ELSE {})
    /\ shut = "idle" => pings /\ "shutdown" \in enabled

(* Every runBenchmark ends, with whatever verdict, answer or loss: again and *)
(* again there is none under way, and the page never polls for ever.         *)
RunReturns == []<>(\A r \in Runs : run[r] \in {"idle", "ended"})

(* "Cancel the run at any time" (README.md:95): once the page offers Cancel  *)
(* for the run it watches, it does not take the offer back while it goes on *)
(* watching this run.                                                       *)
CancelWhileWatched ==
  [][\A r \in Runs : /\ run[r] \in Watching /\ run'[r] \in Watching
                     /\ current = r /\ current' = r /\ "cancel" \in enabled
                     => "cancel" \in enabled']_vars
=============================================================================
