----------------------------- MODULE PageProofs ------------------------------
(***************************************************************************)
(* Proofs about Page, for any number of submissions and of cancel requests *)
(* under way: the page reports only what the server has completed, starts  *)
(* nothing without consent, and offers the right buttons when it rests;    *)
(* and with the history of MCPage: only mishaps make it lose sight of a    *)
(* run or leave a status line behind that misleads.                        *)
(***************************************************************************)
EXTENDS MCPage, TLAPS

(* The start button works when nothing runs and the box is checked, cancel  *)
(* only while something runs, the check unless one of the two is under way. *)
ButtonsInv ==
  /\ "start" \in enabled <=> ~running /\ consent
  /\ "cancel" \in enabled => running
  /\ ~running /\ ~dnssec => "dnssec" \in enabled

(* A page that runs has a runBenchmark under way. *)
RunningInv == running => \E r \in Runs : run[r] \notin {"idle", "ended"}

(* The pings stop only for a shutdown. *)
PingsInv == shut = "idle" => pings /\ "shutdown" \in enabled

(* What the answers say of a completed run stays true. *)
AnswersInv == \A r \in Runs : answer[r] = "completed" => status[r] = "completed"

ReportInv ==
  /\ shown # None => shown \in Runs /\ status[shown] = "completed"
  /\ cards \in {None, shown} /\ diagnosed \in {None, shown} /\ result \in {None, shown}
  /\ result # None => "export" \in enabled

IInv == TypeOK /\ ButtonsInv /\ RunningInv /\ PingsInv /\ AnswersInv /\ ReportInv

-----------------------------------------------------------------------------
(* The steps. *)

(* Steps that touch neither what the page keeps nor what it shows. *)
Silent == \/ \E c \in Cancels : ClickCancel(c) \/ ServeCancel(c)
          \/ \E r \in Runs : ServeSubmit(r) \/ ServePoll(r) \/ Lose(r)
          \/ ServeShutdown \/ Work

(* Steps that end a runBenchmark. *)
Ending(r) == \/ TakeSubmit(r) /\ answer[r] # "accepted"
             \/ TakePoll(r) /\ answer[r] \notin API!Active
             \/ Wake(r) /\ current # r

(* Steps after which it goes on. *)
Continuing(r) == \/ TakeSubmit(r) /\ answer[r] = "accepted"
                 \/ TakePoll(r) /\ answer[r] \in API!Active
                 \/ Wake(r) /\ current = r

(* The other steps of the user. *)
Dnssec == ClickDnssec \/ EndDnssec
Shutdown == ClickShutdown \/ ShutdownAccepted \/ ShutdownFailed

LEMMA Steps ==
  Next <=> \/ Silent \/ (\E r \in Runs : Start(r) \/ Ending(r) \/ Continuing(r))
           \/ (\E c \in Cancels : EndCancel(c)) \/ Dnssec \/ Shutdown \/ ToggleConsent
  BY Zenon DEF Next, Silent, Ending, Continuing, Dnssec, Shutdown, Coroutine

LEMMA SilentChanges ==
  Silent => UNCHANGED <<globals, screen, dnssec>>
  BY DEF Silent, ClickCancel, ServeCancel, ServeSubmit, ServePoll, Lose, ServeShutdown, Work,
         page, globals, screen, report

LEMMA ContinuingChanges ==
  ASSUME NEW r \in Runs, Continuing(r)
  PROVE  UNCHANGED <<result, running, pings, consent, enabled, report, dnssec, shut, status>>
  <1>1. CASE TakeSubmit(r) /\ answer[r] = "accepted"
    BY <1>1 DEF TakeSubmit, Catch, Finally, screen, server
  <1>2. CASE TakePoll(r) /\ answer[r] \in API!Active
    BY <1>2 DEF TakePoll, PollCompleted, PollGivenUp, PollRunning, API!Active, server
  <1>3. CASE Wake(r) /\ current = r
    BY <1>3 DEF Wake, globals, screen, server
  <1> QED BY <1>1, <1>2, <1>3 DEF Continuing

LEMMA EndingChanges ==
  ASSUME NEW r \in Runs, Ending(r)
  PROVE  /\ \/ Finally(r, enabled)
            \/ Finally(r, enabled \union {"export"}) /\ PollCompleted(r)
         /\ UNCHANGED <<pings, consent, dnssec, shut, status>>
  <1>1. CASE TakeSubmit(r) /\ answer[r] # "accepted"
    BY <1>1 DEF TakeSubmit, Catch, server
  <1>2. CASE TakePoll(r) /\ answer[r] \notin API!Active
    BY <1>2 DEF TakePoll, Catch, PollCompleted, PollGivenUp, PollRunning, server
  <1>3. CASE Wake(r) /\ current # r
    BY <1>3 DEF Wake, server
  <1> QED BY <1>1, <1>2, <1>3 DEF Ending

(* setBenchmarkButtons. *)
LEMMA ButtonsSet ==
  ASSUME NEW buttons, NEW isRunning \in BOOLEAN
  PROVE  LET set == Buttons(buttons, isRunning) IN
         /\ "start" \in set <=> ~isRunning /\ consent
         /\ "cancel" \in set <=> isRunning
         /\ "dnssec" \in set <=> ~isRunning
         /\ "export" \in set <=> "export" \in buttons
         /\ "shutdown" \in set <=> "shutdown" \in buttons
  BY DEF Buttons, Refreshed

(* refreshBenchmarkEligibility. *)
LEMMA StartRefreshed ==
  ASSUME NEW buttons, NEW isRunning \in BOOLEAN, NEW agreed \in BOOLEAN
  PROVE  LET set == Refreshed(buttons, isRunning, agreed) IN
         /\ "start" \in set <=> ~isRunning /\ agreed
         /\ \A b : b # "start" => (b \in set <=> b \in buttons)
  BY DEF Refreshed

LEMMA FinallyResets ==
  ASSUME NEW r \in Runs, NEW buttons, Finally(r, buttons), TypeOK
  PROVE  /\ running' = FALSE /\ run' = [run EXCEPT ![r] = "ended"]
         /\ "start" \in enabled' <=> consent
         /\ "cancel" \notin enabled' /\ "dnssec" \in enabled'
         /\ "export" \in enabled' <=> "export" \in buttons
         /\ "shutdown" \in enabled' <=> "shutdown" \in buttons
  BY ButtonsSet DEF Finally, Goto

-----------------------------------------------------------------------------
(* The buttons. *)
LEMMA StepButtons ==
  ASSUME TypeOK, ButtonsInv, [Next]_vars
  PROVE  ButtonsInv'
  <1> USE DEF ButtonsInv
  <1>0. running \in BOOLEAN /\ consent \in BOOLEAN /\ dnssec \in BOOLEAN
    BY DEF TypeOK
  <1>1. CASE UNCHANGED <<running, consent, enabled, dnssec>>
    BY <1>1
  <1>2. CASE Silent
    BY <1>1, <1>2, SilentChanges DEF globals, screen
  <1>3. ASSUME NEW r \in Runs, Start(r) PROVE ButtonsInv'
    BY <1>3, ButtonsSet DEF Start
  <1>4. ASSUME NEW r \in Runs, Continuing(r) PROVE ButtonsInv'
    BY <1>1, <1>4, ContinuingChanges
  <1>5. ASSUME NEW r \in Runs, Ending(r) PROVE ButtonsInv'
    BY <1>5, EndingChanges, FinallyResets
  <1>6. ASSUME NEW c \in Cancels, EndCancel(c) PROVE ButtonsInv'
    BY <1>6, ButtonsSet DEF EndCancel
  <1>7. CASE Dnssec
    BY <1>7 DEF Dnssec, ClickDnssec, EndDnssec, globals
  <1>8. CASE Shutdown
    <2>1. CASE ClickShutdown
      BY <2>1, ButtonsSet DEF ClickShutdown
    <2>2. CASE ShutdownAccepted
      BY <2>2, <1>1 DEF ShutdownAccepted, globals
    <2>3. CASE ShutdownFailed
      <3>1. /\ enabled' = Refreshed(enabled \union {"shutdown"}, running, consent)
            /\ UNCHANGED <<running, consent, dnssec>>
        BY <2>3 DEF ShutdownFailed
      <3>2. /\ "start" \in enabled' <=> ~running /\ consent
            /\ "cancel" \in enabled' <=> "cancel" \in enabled
            /\ "dnssec" \in enabled' <=> "dnssec" \in enabled
        BY <1>0, <3>1, StartRefreshed
      <3> QED BY <3>1, <3>2
    <2> QED BY <1>8, <2>1, <2>2, <2>3 DEF Shutdown
  <1>9. CASE ToggleConsent
    <2>1. /\ enabled' = Refreshed(enabled, running, consent') /\ consent' \in BOOLEAN
          /\ UNCHANGED <<running, dnssec>>
      BY <1>0, <1>9 DEF ToggleConsent, globals
    <2>2. /\ "start" \in enabled' <=> ~running /\ consent'
          /\ "cancel" \in enabled' <=> "cancel" \in enabled
          /\ "dnssec" \in enabled' <=> "dnssec" \in enabled
      BY <1>0, <2>1, StartRefreshed
    <2> QED BY <2>1, <2>2
  <1>10. CASE UNCHANGED vars
    BY <1>1, <1>10 DEF vars, globals, screen
  <1> QED BY <1>2, <1>3, <1>4, <1>5, <1>6, <1>7, <1>8, <1>9, <1>10, Steps

-----------------------------------------------------------------------------
(* The types. *)
LEMMA EnabledType ==
  ASSUME NEW buttons \in SUBSET {"start", "cancel", "dnssec", "shutdown", "export"},
         NEW isRunning, NEW agreed
  PROVE  /\ Buttons(buttons, isRunning) \subseteq {"start", "cancel", "dnssec", "shutdown", "export"}
         /\ Refreshed(buttons, isRunning, agreed)
              \subseteq {"start", "cancel", "dnssec", "shutdown", "export"}
  BY DEF Buttons, Refreshed

LEMMA StepTypes ==
  ASSUME TypeOK, [Next]_vars
  PROVE  TypeOK'
  <1> USE DEF TypeOK
  <1>1. ASSUME NEW r \in Runs, Start(r) PROVE TypeOK'
    BY <1>1, EnabledType DEF Start, Goto, server, Busy
  <1>2. ASSUME NEW r \in Runs, TakeSubmit(r) PROVE TypeOK'
    BY <1>2, EnabledType DEF TakeSubmit, Catch, Finally, Goto, server, screen, report, Failures, Watching
  <1>3. ASSUME NEW r \in Runs, TakePoll(r) PROVE TypeOK'
    <2>1. CASE PollCompleted(r)
      BY <1>3, <2>1, EnabledType DEF TakePoll, PollCompleted, Finally, Goto, server
    <2>2. CASE PollGivenUp(r)
      BY <1>3, <2>2, EnabledType, ZenonT(40) DEF TakePoll, PollGivenUp, Finally, Goto, server, Failures
    <2>3. CASE PollRunning(r)
      BY <1>3, <2>3 DEF TakePoll, PollRunning, Goto, server, report, Busy, Watching
    <2>4. CASE Catch(r)
      BY <1>3, <2>4, EnabledType, ZenonT(40) DEF TakePoll, Catch, Finally, Goto, server, Failures
    <2> QED BY <1>3, <2>1, <2>2, <2>3, <2>4 DEF TakePoll
  <1>4. ASSUME NEW r \in Runs, Wake(r) PROVE TypeOK'
    BY <1>4, EnabledType DEF Wake, Finally, Goto, server, globals, screen, report, Watching
  <1>5. ASSUME NEW r \in Runs, ServeSubmit(r) PROVE TypeOK'
    BY <1>5 DEF ServeSubmit, Reply, Goto, API!Start, API!Active, server, page, globals, screen, report
  <1>6. ASSUME NEW r \in Runs, ServePoll(r) PROVE TypeOK'
    BY <1>6 DEF ServePoll, Reply, Goto, server, page, globals, screen, report, Watching
  <1>7. ASSUME NEW r \in Runs, Lose(r) PROVE TypeOK'
    BY <1>7 DEF Lose, Reply, Goto, server, page, globals, screen, report, Watching
  <1>8. ASSUME NEW c \in Cancels, ClickCancel(c) \/ ServeCancel(c) PROVE TypeOK'
    BY <1>8 DEF ClickCancel, ServeCancel, server, page, globals, screen, report
  <1>9. ASSUME NEW c \in Cancels, EndCancel(c) PROVE TypeOK'
    BY <1>9, EnabledType DEF EndCancel, server, Failures
  <1>10. CASE Dnssec
    BY <1>10 DEF Dnssec, ClickDnssec, EndDnssec, server, globals, report, Busy
  <1>11. CASE Shutdown
    BY <1>11, EnabledType DEF Shutdown, ClickShutdown, ShutdownAccepted, ShutdownFailed,
                              server, globals, report, Busy, Failures
  <1>12. CASE ServeShutdown
    BY <1>12 DEF ServeShutdown, page, globals, screen, report
  <1>13. CASE ToggleConsent
    BY <1>13, EnabledType DEF ToggleConsent, server, globals, report
  <1>14. CASE Work
    BY <1>14 DEF Work, API!Run, API!End, API!Active, API!Verdicts, page, globals, screen, report
  <1>15. CASE UNCHANGED vars
    BY <1>15 DEF vars, server, globals, screen, report
  <1> QED BY <1>1, <1>2, <1>3, <1>4, <1>5, <1>6, <1>7, <1>8, <1>9, <1>10, <1>11, <1>12,
             <1>13, <1>14, <1>15 DEF Next, Coroutine, Dnssec, Shutdown

-----------------------------------------------------------------------------
(* A page that runs has a coroutine. *)
LEMMA StepRunning ==
  ASSUME TypeOK, RunningInv, [Next]_vars
  PROVE  RunningInv'
  <1> DEFINE UnderWay(r) == run[r] \notin {"idle", "ended"}
  <1>0. running \in BOOLEAN /\ run \in [Runs -> {"idle", "submit", "submitted", "ended"} \union Watching]
    BY DEF TypeOK
  <1>1. ASSUME ~running' PROVE RunningInv'
    BY <1>1 DEF RunningInv
  <1>2. ASSUME UNCHANGED running, \A r \in Runs : UnderWay(r) => UnderWay(r)'
        PROVE  RunningInv'
    BY <1>2 DEF RunningInv
  <1>3. ASSUME NEW r \in Runs, Start(r) PROVE RunningInv'
    <2>1. run'[r] = "submit"
      BY <1>0, <1>3 DEF Start, Goto
    <2> QED BY <2>1 DEF RunningInv
  <1>4. ASSUME NEW r \in Runs, Ending(r) PROVE RunningInv'
    BY <1>1, <1>4, EndingChanges, FinallyResets
  <1>5. ASSUME NEW r \in Runs, Continuing(r) PROVE RunningInv'
    <2>1. run' = [run EXCEPT ![r] = "poll"] \/ run' = [run EXCEPT ![r] = "sleep"]
      BY <1>5 DEF Continuing, TakeSubmit, TakePoll, Wake, PollCompleted, PollGivenUp, PollRunning,
                  Goto, API!Active, Catch
    <2>2. \A q \in Runs : UnderWay(q) => UnderWay(q)'
      BY <1>0, <2>1
    <2> QED BY <1>2, <1>5, <2>2, ContinuingChanges
  <1>6. ASSUME NEW c \in Cancels, EndCancel(c) PROVE RunningInv'
    BY <1>1, <1>6 DEF EndCancel
  <1>7. CASE Silent
    <2>1. \/ UNCHANGED run
          \/ \E r \in Runs, stage \in {"submitted", "polled"} : run' = [run EXCEPT ![r] = stage]
      BY <1>7 DEF Silent, ClickCancel, ServeCancel, ServeSubmit, ServePoll, Lose, ServeShutdown,
                  Work, Reply, Goto
    <2>2. \A q \in Runs : UnderWay(q) => UnderWay(q)'
      BY <1>0, <2>1
    <2>3. UNCHANGED running
      BY <1>7, SilentChanges DEF globals
    <2> QED BY <1>2, <2>2, <2>3
  <1>8. CASE Dnssec \/ ShutdownAccepted \/ ShutdownFailed \/ ToggleConsent \/ UNCHANGED vars
    <2>1. UNCHANGED <<running, run>>
      BY <1>8 DEF Dnssec, ClickDnssec, EndDnssec, ShutdownAccepted, ShutdownFailed, ToggleConsent,
                  vars, globals
    <2> QED BY <1>2, <2>1
  <1>9. CASE ClickShutdown
    BY <1>1, <1>9 DEF ClickShutdown
  <1> QED BY <1>3, <1>4, <1>5, <1>6, <1>7, <1>8, <1>9, Steps DEF Shutdown

(* The pings. *)
LEMMA StepPings ==
  ASSUME TypeOK, PingsInv, [Next]_vars
  PROVE  PingsInv'
  <1> USE DEF PingsInv
  <1>0. pings \in BOOLEAN /\ running \in BOOLEAN /\ consent \in BOOLEAN
    BY DEF TypeOK
  <1>1. ASSUME UNCHANGED <<shut, pings>>, "shutdown" \in enabled' <=> "shutdown" \in enabled
        PROVE  PingsInv'
    BY <1>1
  <1>2. ASSUME NEW r \in Runs, Start(r) PROVE PingsInv'
    BY <1>1, <1>2, ButtonsSet DEF Start
  <1>3. ASSUME NEW r \in Runs, Ending(r) PROVE PingsInv'
    <2>1. UNCHANGED <<shut, pings>>
      BY <1>3, EndingChanges
    <2>2. "shutdown" \in enabled' <=> "shutdown" \in enabled
      <3>1. ASSUME NEW buttons, Finally(r, buttons),
                   "shutdown" \in buttons <=> "shutdown" \in enabled
            PROVE  "shutdown" \in enabled' <=> "shutdown" \in enabled
        BY <3>1, FinallyResets
      <3> QED BY <1>3, <3>1, EndingChanges
    <2> QED BY <1>1, <2>1, <2>2
  <1>4. ASSUME NEW r \in Runs, Continuing(r) PROVE PingsInv'
    BY <1>1, <1>4, ContinuingChanges
  <1>5. ASSUME NEW c \in Cancels, EndCancel(c) PROVE PingsInv'
    BY <1>1, <1>5, ButtonsSet DEF EndCancel
  <1>6. CASE Silent
    <2>1. UNCHANGED <<pings, enabled>>
      BY <1>6, SilentChanges DEF globals, screen
    <2>2. shut' = shut \/ shut' = "served"
      BY <1>6 DEF Silent, ClickCancel, ServeCancel, ServeSubmit, ServePoll, Lose, ServeShutdown, Work
    <2> QED BY <2>1, <2>2
  <1>7. CASE Dnssec
    BY <1>1, <1>7 DEF Dnssec, ClickDnssec, EndDnssec, globals
  <1>8. CASE Shutdown
    <2>1. CASE ClickShutdown \/ ShutdownAccepted
      BY <2>1 DEF ClickShutdown, ShutdownAccepted
    <2>2. CASE ShutdownFailed
      <3>1. "shutdown" \in enabled'
        BY <1>0, <2>2, StartRefreshed DEF ShutdownFailed
      <3>2. pings' = TRUE
        BY <2>2 DEF ShutdownFailed
      <3> QED BY <3>1, <3>2
    <2> QED BY <1>8, <2>1, <2>2 DEF Shutdown
  <1>9. CASE ToggleConsent
    <2>1. /\ enabled' = Refreshed(enabled, running, consent') /\ consent' \in BOOLEAN
          /\ UNCHANGED <<pings, shut>>
      BY <1>0, <1>9 DEF ToggleConsent, globals
    <2>2. "shutdown" \in enabled' <=> "shutdown" \in enabled
      BY <1>0, <2>1, StartRefreshed
    <2> QED BY <1>1, <2>1, <2>2
  <1>10. CASE UNCHANGED vars
    BY <1>1, <1>10 DEF vars, globals, screen
  <1> QED BY <1>2, <1>3, <1>4, <1>5, <1>6, <1>7, <1>8, <1>9, <1>10, Steps

(* The answers. *)
LEMMA StepAnswers ==
  ASSUME TypeOK, AnswersInv, [Next]_vars
  PROVE  AnswersInv' /\ \A r \in Runs : status[r] = "completed" => status'[r] = "completed"
  <1> DEFINE Kept == \A r \in Runs : status[r] = "completed" => status'[r] = "completed"
  <1>0. /\ status \in [Runs -> {"none"} \union API!Active \union API!Verdicts]
        /\ DOMAIN answer = Runs
    BY DEF TypeOK
  <1>1. Kept
    <2>1. CASE Work
      BY <1>0, <2>1 DEF Work, API!Run, API!End
    <2>2. ASSUME NEW r \in Runs, ServeSubmit(r) PROVE Kept
      BY <1>0, <2>2 DEF ServeSubmit, API!Start, server
    <2>3. CASE UNCHANGED status
      BY <2>3
    <2>4. ~Work /\ (\A r \in Runs : ~ServeSubmit(r)) => UNCHANGED status
      <3>1. CASE Silent
        BY <3>1 DEF Silent, ClickCancel, ServeCancel, ServePoll, Lose, ServeShutdown, server
      <3>2. ASSUME NEW r \in Runs, Start(r) \/ Ending(r) \/ Continuing(r) PROVE UNCHANGED status
        BY <3>2, EndingChanges, ContinuingChanges DEF Start, server
      <3>3. ASSUME NEW c \in Cancels, EndCancel(c) PROVE UNCHANGED status
        BY <3>3 DEF EndCancel, server
      <3>4. CASE Dnssec \/ Shutdown \/ ToggleConsent \/ UNCHANGED vars
        BY <3>4 DEF Dnssec, ClickDnssec, EndDnssec, Shutdown, ClickShutdown, ShutdownAccepted,
                    ShutdownFailed, ToggleConsent, vars, server
      <3> QED BY <3>1, <3>2, <3>3, <3>4, Steps
    <2> QED BY <2>1, <2>2, <2>3, <2>4
  <1>2. ASSUME NEW r \in Runs, NEW a, answer' = [answer EXCEPT ![r] = a],
               a = "completed" => status[r] = "completed"
        PROVE  AnswersInv'
    BY <1>0, <1>1, <1>2 DEF AnswersInv
  <1>3. CASE UNCHANGED answer
    BY <1>1, <1>3 DEF AnswersInv
  <1>4. ASSUME NEW r \in Runs, TakeSubmit(r) \/ TakePoll(r) PROVE AnswersInv'
    BY <1>2, <1>4 DEF TakeSubmit, TakePoll
  <1>5. ASSUME NEW r \in Runs, ServeSubmit(r) \/ ServePoll(r) \/ Lose(r) PROVE AnswersInv'
    BY <1>2, <1>5 DEF ServeSubmit, ServePoll, Lose, Reply
  <1>6. ASSUME NEW r \in Runs, Start(r) \/ Wake(r) PROVE AnswersInv'
    BY <1>3, <1>6 DEF Start, Wake
  <1>7. ASSUME NEW c \in Cancels, ClickCancel(c) \/ ServeCancel(c) \/ EndCancel(c) PROVE AnswersInv'
    BY <1>3, <1>7 DEF ClickCancel, ServeCancel, EndCancel
  <1>8. CASE \/ Dnssec \/ Shutdown \/ ServeShutdown \/ ToggleConsent \/ Work
             \/ UNCHANGED vars
    BY <1>3, <1>8 DEF Dnssec, ClickDnssec, EndDnssec, Shutdown, ClickShutdown, ShutdownAccepted,
                ShutdownFailed, ServeShutdown, ToggleConsent, Work, vars
  <1> QED BY <1>1, <1>4, <1>5, <1>6, <1>7, <1>8 DEF Next, Coroutine, Dnssec, Shutdown

(* The report. *)
LEMMA StepReport ==
  ASSUME TypeOK, ReportInv, AnswersInv, [Next]_vars
  PROVE  ReportInv'
  <1> USE DEF ReportInv
  <1>0. \A r \in Runs : status[r] = "completed" => status'[r] = "completed"
    BY StepAnswers
  <1>1. ASSUME shown' = shown, cards' \in {None, cards}, diagnosed' \in {None, diagnosed},
               result' \in {None, result},
               result' # None => ("export" \in enabled => "export" \in enabled')
        PROVE  ReportInv'
    BY <1>0, <1>1
  <1>2. ASSUME UNCHANGED <<result, enabled, report>> PROVE ReportInv'
    BY <1>1, <1>2 DEF report
  <1>3. ASSUME NEW r \in Runs, Start(r) PROVE ReportInv'
    BY <1>1, <1>3 DEF Start
  <1>4. ASSUME NEW r \in Runs, Ending(r) PROVE ReportInv'
    <2>1. CASE PollCompleted(r)
      <3>1. status'[r] = "completed"
        BY <1>0, <2>1 DEF PollCompleted, AnswersInv
      <3>2. "export" \in enabled'
        BY <2>1, ButtonsSet DEF PollCompleted, Finally
      <3> QED BY <2>1, <3>1, <3>2 DEF PollCompleted
    <2>2. CASE ~PollCompleted(r)
      <3>1. "export" \in enabled' <=> "export" \in enabled
        BY <1>4, <2>2, EndingChanges, FinallyResets
      <3>2. /\ shown' = shown /\ cards' \in {None, cards} /\ diagnosed' = diagnosed
            /\ result' \in {None, result}
        BY <1>4, <2>2 DEF Ending, TakeSubmit, TakePoll, Wake, Catch, PollGivenUp, PollRunning, report
      <3> QED BY <1>1, <3>1, <3>2
    <2> QED BY <2>1, <2>2
  <1>5. ASSUME NEW r \in Runs, Continuing(r) PROVE ReportInv'
    BY <1>2, <1>5, ContinuingChanges
  <1>6. ASSUME NEW c \in Cancels, EndCancel(c) PROVE ReportInv'
    BY <1>1, <1>6 DEF EndCancel
  <1>7. CASE Silent
    BY <1>2, <1>7, SilentChanges DEF globals, screen
  <1>8. CASE Dnssec
    BY <1>1, <1>8 DEF Dnssec, ClickDnssec, EndDnssec, globals, report
  <1>9. CASE Shutdown
    <2>1. CASE ClickShutdown
      BY <1>1, <2>1 DEF ClickShutdown, report
    <2>2. CASE ShutdownAccepted
      BY <1>2, <2>2 DEF ShutdownAccepted, globals
    <2>3. CASE ShutdownFailed
      BY <1>1, <2>3 DEF ShutdownFailed, Refreshed, report
    <2> QED BY <1>9, <2>1, <2>2, <2>3 DEF Shutdown
  <1>10. CASE ToggleConsent
    BY <1>1, <1>10 DEF ToggleConsent, Refreshed, globals, report
  <1>11. CASE UNCHANGED vars
    BY <1>2, <1>11 DEF vars, globals, screen
  <1> QED BY <1>3, <1>4, <1>5, <1>6, <1>7, <1>8, <1>9, <1>10, <1>11, Steps

-----------------------------------------------------------------------------
LEMMA InitInv == Init => IInv
  <1> SUFFICES ASSUME Init PROVE IInv
    OBVIOUS
  <1>1. TypeOK
    BY DEF Init, TypeOK, API!Init
  <1>2. ButtonsInv /\ RunningInv /\ PingsInv
    BY DEF Init, ButtonsInv, RunningInv, PingsInv
  <1>3. AnswersInv /\ ReportInv
    BY DEF Init, AnswersInv, ReportInv
  <1> QED BY <1>1, <1>2, <1>3 DEF IInv

LEMMA StepInv == IInv /\ [Next]_vars => IInv'
  BY StepTypes, StepButtons, StepRunning, StepPings, StepAnswers, StepReport DEF IInv

(* The state of the page and of the jobs it asked for has its type. *)
THEOREM TypeCorrect == Spec => []TypeOK
  <1>1. IInv => TypeOK
    BY DEF IInv
  <1> QED BY InitInv, StepInv, <1>1, PTL DEF Spec

(* Whatever is rendered is the result of a run the server has completed, and *)
(* what can be exported is what the table shows.                             *)
THEOREM ReportsAreGenuine == Spec => []ReportIsGenuine
  <1>1. IInv => ReportIsGenuine
    BY DEF IInv, ReportInv, ReportIsGenuine, CanExport
  <1> QED BY InitInv, StepInv, <1>1, PTL DEF Spec

(* When no coroutine is under way the buttons offer what can be done, and a *)
(* page whose shutdown was not accepted keeps the server alive.             *)
THEOREM ButtonsRestCorrectly == Spec => []ButtonsAtRest
  <1>1. IInv => ButtonsAtRest
    <2> SUFFICES ASSUME IInv, AtRest
                 PROVE  /\ enabled \ {"export", "shutdown"}
                             = {"dnssec"} \union (IF consent THEN {"start"} ELSE {})
                        /\ shut = "idle" => pings /\ "shutdown" \in enabled
      BY DEF ButtonsAtRest
    <2>1. ~running /\ ~dnssec
      BY DEF IInv, RunningInv, AtRest
    <2>2. /\ "start" \in enabled <=> consent
          /\ "cancel" \notin enabled /\ "dnssec" \in enabled
      BY <2>1 DEF IInv, ButtonsInv
    <2>3. enabled \subseteq {"start", "cancel", "dnssec", "shutdown", "export"}
      BY DEF IInv, TypeOK
    <2>4. shut = "idle" => pings /\ "shutdown" \in enabled
      BY DEF IInv, PingsInv
    <2> QED BY <2>2, <2>3, <2>4
  <1> QED BY InitInv, StepInv, <1>1, PTL DEF Spec

(* No run is submitted while the box is not checked. *)
THEOREM ConsentIsGiven == Spec => ConsentGiven
  <1>1. IInv /\ [Next]_vars =>
          [\A r \in Runs : run[r] = "idle" /\ run'[r] # "idle" => consent]_vars
    <2> SUFFICES ASSUME IInv, Next, NEW r \in Runs, run[r] = "idle", run'[r] # "idle"
                 PROVE  consent
      OBVIOUS
    <2>0. DOMAIN run = Runs
      BY DEF IInv, TypeOK
    <2>1. PICK q \in Runs : Start(q) \/ Coroutine(q) \/ Lose(q)
      BY DEF Next, ClickCancel, ServeCancel, EndCancel, ClickDnssec, EndDnssec, ClickShutdown,
             ServeShutdown, ShutdownAccepted, ShutdownFailed, ToggleConsent, Work
    <2>2. ~Coroutine(q) /\ ~Lose(q)
      <3>1. ASSUME NEW stage, run' = [run EXCEPT ![q] = stage], run[q] # "idle" PROVE FALSE
        BY <2>0, <3>1
      <3>2. run[q] # "idle" => \A stage : run' # [run EXCEPT ![q] = stage]
        BY <3>1
      <3> QED BY <3>2 DEF Coroutine, Lose, ServeSubmit, ServePoll, TakeSubmit, TakePoll, Wake, Catch,
                  PollCompleted, PollGivenUp, PollRunning, Finally, Reply, Goto
    <2>3. Start(q) /\ "start" \in enabled
      BY <2>1, <2>2 DEF Start
    <2> QED BY <2>3 DEF IInv, ButtonsInv
  <1> QED BY InitInv, StepInv, <1>1, PTL DEF Spec, ConsentGiven

-----------------------------------------------------------------------------
(* What the page loses sight of. *)

(* What the page may know of a job: nothing before the request is served, and *)
(* a verdict only if it is the verdict.                                       *)
KnownInv ==
  \A r \in Runs :
    /\ status[r] # "none" => r \in visible
    /\ run[r] \in {"idle", "submit"} => status[r] = "none"
    /\ run[r] = "submitted" =>
         \/ answer[r] = "accepted" /\ status[r] # "none"
         \/ answer[r] = "refused" /\ status[r] = "none"
         \/ answer[r] = "failed"
    /\ run[r] \in Watching => status[r] # "none"
    /\ run[r] = "polled" =>
         \/ answer[r] \in API!Active \union {"failed"}
         \/ answer[r] \in API!Verdicts /\ answer[r] = status[r]

(* The coroutine that will replace what the status line says. *)
MessageInv ==
  mishap # "late poll" =>
    /\ message = "running" =>
         \E r \in Runs : run[r] \in {"submit", "submitted"} \/ (run[r] \in Watching /\ current = r)
    /\ message = "checking" => dnssec
    /\ message = "stopping" => shut \in {"asked", "served"}

(* Who sees to it that a job that goes on is watched or canceled. *)
WatchedInv ==
  mishap = "none" =>
    \A r \in Runs : status[r] \in API!Active /\ r \notin canceled =>
      run[r] = "submitted" \/ (run[r] \in Watching /\ current = r) \/ shut = "asked"

hvars == <<vars, mishap, troubles>>

(* What is known. *)
LEMMA StepKnown ==
  ASSUME TypeOK, KnownInv, [Next]_vars
  PROVE  KnownInv'
  <1> USE DEF API!Active, API!Verdicts, Watching
  <1>0. /\ status \in [Runs -> {"none"} \union API!Active \union API!Verdicts]
        /\ DOMAIN run = Runs /\ DOMAIN answer = Runs
    BY DEF TypeOK
  <1>1. CASE UNCHANGED <<status, visible, run, answer>>
    BY <1>1 DEF KnownInv
  <1>2. ASSUME NEW r \in Runs, NEW stage, run' = [run EXCEPT ![r] = stage],
               UNCHANGED <<status, visible>>,
               \A q \in Runs : q # r => answer'[q] = answer[q],
               stage \in {"idle", "submit"} => run[r] = "idle",
               stage = "submitted" => \/ answer'[r] = "failed"
                                      \/ answer'[r] = "refused" /\ status[r] = "none",
               stage \in Watching => status[r] # "none",
               stage = "polled" => \/ answer'[r] = "failed"
                                   \/ answer'[r] \in API!Active \union API!Verdicts
                                        /\ answer'[r] = status[r]
        PROVE  KnownInv'
    BY <1>0, <1>2 DEF KnownInv
  <1>3. ASSUME NEW r \in Runs, Start(r) PROVE KnownInv'
    BY <1>2, <1>3 DEF Start, Goto, server
  <1>4. ASSUME NEW r \in Runs, TakeSubmit(r) PROVE KnownInv'
    <2>1. /\ UNCHANGED <<status, visible>> /\ \A q \in Runs : q # r => answer'[q] = answer[q]
          /\ \/ run' = [run EXCEPT ![r] = "ended"]
             \/ run' = [run EXCEPT ![r] = "poll"] /\ status[r] # "none"
      BY <1>0, <1>4 DEF TakeSubmit, Catch, Finally, Goto, server, KnownInv
    <2> QED BY <1>2, <2>1
  <1>5. ASSUME NEW r \in Runs, TakePoll(r) PROVE KnownInv'
    <2>1. /\ UNCHANGED <<status, visible>> /\ \A q \in Runs : q # r => answer'[q] = answer[q]
          /\ run' = [run EXCEPT ![r] = "ended"] \/ run' = [run EXCEPT ![r] = "sleep"]
          /\ status[r] # "none"
      BY <1>0, <1>5 DEF TakePoll, PollCompleted, PollGivenUp, PollRunning, Catch, Finally, Goto,
                        server, KnownInv
    <2> QED BY <1>2, <2>1
  <1>6. ASSUME NEW r \in Runs, Wake(r) PROVE KnownInv'
    <2>1. /\ UNCHANGED <<status, visible, answer>>
          /\ run' = [run EXCEPT ![r] = "ended"] \/ run' = [run EXCEPT ![r] = "poll"]
          /\ status[r] # "none"
      BY <1>0, <1>6 DEF Wake, Finally, Goto, server, KnownInv
    <2> QED BY <1>2, <2>1
  <1>7. ASSUME NEW r \in Runs, ServeSubmit(r) PROVE KnownInv'
    <2>1. CASE slot = None
      <3>1. /\ status' = [status EXCEPT ![r] = "queued"] /\ visible' = visible \union {r}
            /\ run' = [run EXCEPT ![r] = "submitted"] /\ answer' = [answer EXCEPT ![r] = "accepted"]
        BY <1>7, <2>1 DEF ServeSubmit, API!Start, Reply, Goto
      <3> QED BY <1>0, <3>1 DEF KnownInv
    <2>2. CASE slot # None
      <3>1. /\ UNCHANGED <<status, visible>> /\ status[r] = "none"
            /\ run' = [run EXCEPT ![r] = "submitted"] /\ answer' = [answer EXCEPT ![r] = "refused"]
        BY <1>7, <2>2 DEF ServeSubmit, Reply, Goto, server, KnownInv
      <3> QED BY <1>0, <1>2, <3>1
    <2> QED BY <2>1, <2>2
  <1>8. ASSUME NEW r \in Runs, ServePoll(r) PROVE KnownInv'
    <2>1. /\ UNCHANGED <<status, visible>> /\ status[r] # "none"
          /\ run' = [run EXCEPT ![r] = "polled"] /\ answer' = [answer EXCEPT ![r] = status[r]]
      BY <1>8 DEF ServePoll, Reply, Goto, server, KnownInv
    <2> QED BY <1>0, <1>2, <2>1
  <1>9. ASSUME NEW r \in Runs, Lose(r) PROVE KnownInv'
    <2>1. /\ UNCHANGED <<status, visible>> /\ answer' = [answer EXCEPT ![r] = "failed"]
          /\ \/ run' = [run EXCEPT ![r] = "submitted"]
             \/ run' = [run EXCEPT ![r] = "polled"] /\ status[r] # "none"
      BY <1>9 DEF Lose, Reply, Goto, server, KnownInv
    <2> QED BY <1>0, <1>2, <2>1
  <1>10. CASE Work
    <2>1. CASE \E r \in Runs : API!Run(r) \/ API!End(r)
      <3>1. PICK r \in Runs, s \in {"running"} \union API!Verdicts :
                   /\ status' = [status EXCEPT ![r] = s] /\ status[r] \in API!Active
                   /\ UNCHANGED visible
        BY <2>1 DEF API!Run, API!End
      <3>2. UNCHANGED <<run, answer>>
        BY <1>10 DEF Work
      <3> QED BY <1>0, <3>1, <3>2 DEF KnownInv
    <2>2. CASE UNCHANGED <<status, canceled, visible>>
      BY <1>1, <1>10, <2>2 DEF Work
    <2> QED BY <1>10, <2>1, <2>2 DEF Work
  <1>11. ASSUME NEW c \in Cancels, ClickCancel(c) \/ ServeCancel(c) \/ EndCancel(c) PROVE KnownInv'
    BY <1>1, <1>11 DEF ClickCancel, ServeCancel, EndCancel, server
  <1>12. CASE Dnssec \/ Shutdown \/ ServeShutdown \/ ToggleConsent \/ UNCHANGED vars
    BY <1>1, <1>12 DEF Dnssec, ClickDnssec, EndDnssec, Shutdown, ClickShutdown, ShutdownAccepted,
                ShutdownFailed, ServeShutdown, ToggleConsent, vars, server
  <1> QED BY <1>3, <1>4, <1>5, <1>6, <1>7, <1>8, <1>9, <1>10, <1>11, <1>12
          DEF Next, Coroutine, Dnssec, Shutdown

(* What the history variable records of a step. *)
LEMMA HistoryStep ==
  ASSUME [HNext]_hvars
  PROVE  /\ [Next]_vars
         /\ mishap' # "late poll" => mishap # "late poll" /\ ~LatePoll
         /\ mishap' = "none" => mishap = "none" /\ ~LatePoll /\ ~Late /\ ~NoAnswer
  <1>1. CASE UNCHANGED hvars
    BY <1>1 DEF hvars, vars, screen, LatePoll, Late, NoAnswer
  <1>2. CASE HNext
    BY <1>2, Zenon DEF HNext
  <1> QED BY <1>1, <1>2 DEF hvars

(* The status line. *)
LEMMA StepMessage ==
  ASSUME TypeOK, MessageInv, [HNext]_hvars
  PROVE  MessageInv'
  <1> DEFINE Shows(r) == run[r] \in {"submit", "submitted"} \/ (run[r] \in Watching /\ current = r)
             Goal == /\ message' = "running" => \E r \in Runs : Shows(r)'
                     /\ message' = "checking" => dnssec'
                     /\ message' = "stopping" => shut' \in {"asked", "served"}
  <1> SUFFICES ASSUME mishap' # "late poll" PROVE Goal
    BY DEF MessageInv
  <1> USE DEF Watching
  <1>0. /\ DOMAIN run = Runs
        /\ message = "running" => \E r \in Runs : Shows(r)
        /\ message = "checking" => dnssec
        /\ message = "stopping" => shut \in {"asked", "served"}
        /\ [Next]_vars /\ ~LatePoll
    BY HistoryStep DEF MessageInv, TypeOK
  <1>1. ASSUME UNCHANGED <<message, dnssec>>, shut' = shut \/ shut' = "served",
               \A r \in Runs : Shows(r) => Shows(r)'
        PROVE  Goal
    BY <1>0, <1>1
  <1>2. ASSUME message' \notin Busy PROVE Goal
    BY <1>2 DEF Busy
  <1>3. ASSUME NEW r \in Runs, Start(r) PROVE Goal
    <2>1. message' = "running" /\ run'[r] = "submit"
      BY <1>0, <1>3 DEF Start, Goto
    <2> QED BY <2>1
  <1>4. ASSUME NEW r \in Runs, TakeSubmit(r) PROVE Goal
    <2>1. CASE answer[r] = "accepted"
      <3>1. /\ UNCHANGED <<message, dnssec, shut>>
            /\ run'[r] = "poll" /\ current' = r
        BY <1>0, <1>4, <2>1 DEF TakeSubmit, Catch, Finally, Goto, screen
      <3> QED BY <1>0, <3>1
    <2>2. CASE answer[r] # "accepted"
      BY <1>2, <1>4, <2>2 DEF TakeSubmit, Catch, Busy
    <2> QED BY <2>1, <2>2
  <1>5. ASSUME NEW r \in Runs, TakePoll(r) PROVE Goal
    <2>1. CASE PollRunning(r)
      <3>1. run[r] = "polled" /\ run'[r] = "sleep" /\ UNCHANGED current /\ message' = "running"
        BY <1>0, <1>5, <2>1 DEF TakePoll, PollRunning, Goto
      <3>2. current = r
        BY <1>0, <3>1 DEF LatePoll
      <3> QED BY <3>1, <3>2
    <2>2. CASE ~PollRunning(r)
      BY <1>2, <1>5, <2>2 DEF TakePoll, PollCompleted, PollGivenUp, Catch, Busy
    <2> QED BY <2>1, <2>2
  <1>6. ASSUME NEW r \in Runs, Wake(r) PROVE Goal
    <2>1. /\ UNCHANGED <<message, dnssec, shut, current>>
          /\ \/ current = r /\ run' = [run EXCEPT ![r] = "poll"]
             \/ current # r /\ run' = [run EXCEPT ![r] = "ended"] /\ run[r] = "sleep"
      BY <1>6 DEF Wake, Finally, Goto, globals, screen
    <2>2. \A q \in Runs : Shows(q) => Shows(q)'
      BY <1>0, <2>1
    <2> QED BY <1>1, <2>1, <2>2
  <1>7. CASE Silent
    <2>1. UNCHANGED <<message, dnssec, current>> /\ shut' \in {shut, "served"}
      BY <1>7, SilentChanges DEF Silent, ClickCancel, ServeCancel, ServeSubmit, ServePoll, Lose,
                 ServeShutdown, Work, globals, screen
    <2>2. \/ UNCHANGED run
          \/ \E r \in Runs :
               \/ run[r] \in {"submit", "submitted"} /\ run' = [run EXCEPT ![r] = "submitted"]
               \/ run[r] \in Watching /\ run' = [run EXCEPT ![r] = "polled"]
      BY <1>7 DEF Silent, ClickCancel, ServeCancel, ServeSubmit, ServePoll, Lose,
                  ServeShutdown, Work, Reply, Goto
    <2>3. \A q \in Runs : Shows(q) => Shows(q)'
      BY <1>0, <2>1, <2>2
    <2> QED BY <1>1, <2>1, <2>3
  <1>8. ASSUME NEW c \in Cancels, EndCancel(c) PROVE Goal
    BY <1>2, <1>8 DEF EndCancel, Busy
  <1>9. CASE Dnssec
    BY <1>9 DEF Dnssec, ClickDnssec, EndDnssec
  <1>10. CASE Shutdown
    BY <1>10 DEF Shutdown, ClickShutdown, ShutdownAccepted, ShutdownFailed
  <1>11. CASE ToggleConsent \/ UNCHANGED vars
    <2>1. UNCHANGED <<message, dnssec, shut, current, run>>
      BY <1>11 DEF ToggleConsent, vars, globals, screen
    <2>2. \A q \in Runs : Shows(q) => Shows(q)'
      BY <2>1
    <2> QED BY <1>1, <2>1, <2>2
  <1> QED
    <2>1. ASSUME NEW r \in Runs, Start(r) \/ Coroutine(r) \/ Lose(r) PROVE Goal
      BY <1>3, <1>4, <1>5, <1>6, <1>7, <2>1 DEF Coroutine, Silent
    <2>2. ASSUME NEW c \in Cancels, ClickCancel(c) \/ ServeCancel(c) \/ EndCancel(c) PROVE Goal
      BY <1>7, <1>8, <2>2 DEF Silent
    <2>3. CASE ServeShutdown \/ Work
      BY <1>7, <2>3 DEF Silent
    <2> QED BY <1>0, <1>9, <1>10, <1>11, <2>1, <2>2, <2>3 DEF Next, Dnssec, Shutdown

(* The runs that go on. *)
LEMMA StepWatched ==
  ASSUME TypeOK, KnownInv, WatchedInv, [HNext]_hvars
  PROVE  WatchedInv'
  <1> DEFINE Cared(r) == status[r] \in API!Active /\ r \notin canceled =>
                           run[r] = "submitted" \/ (run[r] \in Watching /\ current = r) \/ shut = "asked"
             Goal == \A r \in Runs : Cared(r)'
  <1> SUFFICES ASSUME mishap' = "none" PROVE Goal
    BY DEF WatchedInv
  <1> USE DEF Watching, API!Active, API!Verdicts
  <1>0. /\ DOMAIN run = Runs /\ DOMAIN answer = Runs
        /\ status \in [Runs -> {"none"} \union API!Active \union API!Verdicts]
        /\ None \notin Runs
        /\ \A r \in Runs : Cared(r)
        /\ [Next]_vars /\ ~LatePoll /\ ~Late /\ ~NoAnswer
    <2>1. None \notin Runs
      BY PageAssumption DEF Runs, None
    <2> QED BY <2>1, HistoryStep DEF WatchedInv, TypeOK
  <1>1. ASSUME UNCHANGED <<current, shut, run>>, canceled \subseteq canceled',
               \A q \in Runs : status'[q] \in API!Active => status[q] \in API!Active
        PROVE  Goal
    BY <1>0, <1>1
  (* One coroutine moves on. *)
  <1>2. ASSUME NEW r \in Runs, NEW stage, run' = [run EXCEPT ![r] = stage],
               UNCHANGED <<status, canceled, shut>>, current' = current \/ current = None,
               Cared(r)'
        PROVE  Goal
    BY <1>0, <1>2
  <1>3. ASSUME NEW r \in Runs, Start(r) PROVE Goal
    <2>1. status[r] = "none"
      BY <1>3 DEF Start, KnownInv
    <2> QED BY <1>2, <1>3, <2>1 DEF Start, Goto, server
  <1>4. ASSUME NEW r \in Runs, TakeSubmit(r) PROVE Goal
    <2>1. CASE answer[r] = "accepted"
      <3>1. /\ run' = [run EXCEPT ![r] = "poll"] /\ current' = r /\ run[r] = "submitted"
            /\ UNCHANGED <<status, canceled, shut>>
        BY <1>4, <2>1 DEF TakeSubmit, Catch, Finally, Goto, server
      <3>2. current = None
        BY <1>0, <3>1 DEF Late
      <3> QED BY <1>0, <1>2, <3>1, <3>2
    <2>2. CASE answer[r] # "accepted"
      <3>1. /\ run' = [run EXCEPT ![r] = "ended"] /\ run[r] = "submitted"
            /\ answer' = [answer EXCEPT ![r] = "none"]
            /\ UNCHANGED <<status, canceled, shut, current>>
        BY <1>4, <2>2 DEF TakeSubmit, Catch, Finally, Goto, server
      <3>2. status[r] = "none"
        BY <1>0, <2>2, <3>1 DEF NoAnswer, KnownInv
      <3> QED BY <1>2, <3>1, <3>2
    <2> QED BY <2>1, <2>2
  <1>5. ASSUME NEW r \in Runs, TakePoll(r) PROVE Goal
    <2>1. /\ run[r] = "polled" /\ answer' = [answer EXCEPT ![r] = "none"]
          /\ UNCHANGED <<status, canceled, shut>>
      BY <1>5 DEF TakePoll, server
    <2>2. run'[r] # "polled"
      BY <1>0, <1>5 DEF TakePoll, PollCompleted, PollGivenUp, PollRunning, Catch, Finally, Goto
    <2>3. current = r
      BY <1>0, <2>1, <2>2 DEF LatePoll
    <2>4. CASE PollRunning(r)
      <3>1. run' = [run EXCEPT ![r] = "sleep"] /\ UNCHANGED current
        BY <2>4 DEF PollRunning, Goto
      <3> QED BY <1>0, <1>2, <2>1, <2>3, <3>1
    <2>5. CASE ~PollRunning(r)
      <3>1. answer[r] # "failed"
        BY <1>0, <2>1 DEF NoAnswer
      <3>2. status[r] \in API!Verdicts
        BY <1>5, <2>1, <2>5, <3>1 DEF TakePoll, PollCompleted, PollGivenUp, KnownInv
      <3>3. run' = [run EXCEPT ![r] = "ended"]
        BY <1>5, <2>5 DEF TakePoll, PollCompleted, PollGivenUp, Catch, Finally, Goto
      <3> QED BY <1>0, <2>1, <2>3, <3>2, <3>3
    <2> QED BY <2>4, <2>5
  <1>6. ASSUME NEW r \in Runs, Wake(r) PROVE Goal
    <2>1. /\ UNCHANGED <<status, canceled, shut, current>> /\ run[r] = "sleep"
          /\ \/ current = r /\ run' = [run EXCEPT ![r] = "poll"]
             \/ current # r /\ run' = [run EXCEPT ![r] = "ended"]
      BY <1>6 DEF Wake, Finally, Goto, globals, screen, server
    <2> QED BY <1>0, <1>2, <2>1
  <1>7. ASSUME NEW r \in Runs, ServeSubmit(r) \/ ServePoll(r) \/ Lose(r) PROVE Goal
    <2>1. UNCHANGED <<current, shut, canceled>>
      BY <1>7 DEF ServeSubmit, ServePoll, Lose, API!Start, server, page, globals
    <2>2. CASE ServeSubmit(r)
      <3>1. /\ run' = [run EXCEPT ![r] = "submitted"]
            /\ UNCHANGED status \/ status' = [status EXCEPT ![r] = "queued"]
        BY <2>2 DEF ServeSubmit, Reply, Goto, API!Start, server
      <3> QED BY <1>0, <2>1, <3>1
    <2>3. CASE ServePoll(r) \/ Lose(r)
      <3>1. /\ UNCHANGED status
            /\ \/ run[r] \in {"submit", "submitted"} /\ run' = [run EXCEPT ![r] = "submitted"]
               \/ run[r] \in Watching /\ run' = [run EXCEPT ![r] = "polled"]
        BY <2>3 DEF ServePoll, Lose, Reply, Goto, server
      <3> QED BY <1>0, <2>1, <3>1
    <2> QED BY <1>7, <2>2, <2>3
  <1>8. ASSUME NEW c \in Cancels, ClickCancel(c) \/ ServeCancel(c) PROVE Goal
    <2>1. UNCHANGED <<current, shut, run, status>> /\ canceled \subseteq canceled'
      BY <1>8 DEF ClickCancel, ServeCancel, server, page, globals
    <2> QED BY <1>1, <2>1
  <1>9. ASSUME NEW c \in Cancels, EndCancel(c) PROVE Goal
    <2>1. /\ cancel[c] # None /\ cancel' = [cancel EXCEPT ![c] = None] /\ current' = None
          /\ UNCHANGED <<status, canceled, shut, run>>
      BY <1>9 DEF EndCancel, server
    <2>2. cancel'[c] = None
      BY <2>1 DEF TypeOK
    <2>3. cancel[c] \in canceled /\ current \in {cancel[c], None}
      BY <1>0, <2>1, <2>2 DEF Late, NoAnswer
    <2> QED BY <1>0, <2>1, <2>3
  <1>10. CASE ClickShutdown
    BY <1>10 DEF ClickShutdown
  <1>11. CASE ServeShutdown
    <2>1. canceled' = canceled \union visible /\ UNCHANGED status
      BY <1>11 DEF ServeShutdown
    <2> QED BY <1>0, <2>1 DEF KnownInv
  <1>12. CASE ShutdownFailed
    <2>1. shut # "idle" /\ shut' = "idle"
      BY <1>12 DEF ShutdownFailed
    <2> QED BY <1>0, <2>1 DEF NoAnswer
  <1>13. CASE ShutdownAccepted
    <2>1. shut = "served" /\ UNCHANGED <<current, run, status, canceled>>
      BY <1>13 DEF ShutdownAccepted, server, globals
    <2> QED BY <1>0, <2>1
  <1>14. CASE Dnssec \/ ToggleConsent \/ UNCHANGED vars
    <2>1. UNCHANGED <<current, shut, run, status, canceled>>
      BY <1>14 DEF Dnssec, ClickDnssec, EndDnssec, ToggleConsent, vars, server, globals
    <2> QED BY <1>1, <2>1
  <1>15. CASE Work
    <2>1. UNCHANGED <<current, shut, run, canceled>>
      BY <1>15 DEF Work, API!Run, API!End, page, globals
    <2>2. \A q \in Runs : status'[q] \in API!Active => status[q] \in API!Active
      BY <1>0, <1>15 DEF Work, API!Run, API!End
    <2> QED BY <1>1, <2>1, <2>2
  <1> QED
    <2>1. ASSUME NEW r \in Runs, Start(r) \/ Coroutine(r) \/ Lose(r) PROVE Goal
      BY <1>3, <1>4, <1>5, <1>6, <1>7, <2>1 DEF Coroutine
    <2>2. ASSUME NEW c \in Cancels, ClickCancel(c) \/ ServeCancel(c) \/ EndCancel(c) PROVE Goal
      BY <1>8, <1>9, <2>2
    <2> QED BY <1>0, <1>10, <1>11, <1>12, <1>13, <1>14, <1>15, <2>1, <2>2 DEF Next, Dnssec


LEMMA InitHistory == HInit => IInv /\ KnownInv /\ MessageInv /\ WatchedInv
  <1> SUFFICES ASSUME HInit PROVE IInv /\ KnownInv /\ MessageInv /\ WatchedInv
    OBVIOUS
  <1>1. Init
    BY DEF HInit
  <1>2. IInv
    BY <1>1, InitInv
  <1>3. KnownInv /\ MessageInv /\ WatchedInv
    BY <1>1 DEF Init, API!Init, API!Active, KnownInv, MessageInv, WatchedInv, Watching
  <1> QED BY <1>2, <1>3

LEMMA StepHistory ==
  IInv /\ KnownInv /\ MessageInv /\ WatchedInv /\ [HNext]_hvars
    => (IInv /\ KnownInv /\ MessageInv /\ WatchedInv)'
  BY HistoryStep, StepInv, StepKnown, StepMessage, StepWatched DEF IInv

(* When everything is over the status line does not claim that something     *)
(* goes on unless an answer came late, and every run of the page that goes   *)
(* on has been canceled unless an answer came late or not at all.            *)
THEOREM MishapsMislead == HSpec => []OnlyMishapsMislead
  <1>1. IInv /\ MessageInv /\ WatchedInv => OnlyMishapsMislead
    <2> SUFFICES ASSUME MessageInv, WatchedInv, AtRest
                 PROVE  /\ message \in Busy => mishap = "late poll"
                        /\ (\E r \in Runs : status[r] \in API!Active /\ r \notin canceled)
                             => mishap # "none"
      BY DEF OnlyMishapsMislead
    <2> QED BY DEF AtRest, MessageInv, WatchedInv, Busy, Watching
  <1> QED BY InitHistory, StepHistory, <1>1, PTL DEF HSpec, hvars
=============================================================================
