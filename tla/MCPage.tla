------------------------------- MODULE MCPage -------------------------------
(***************************************************************************)
(* Page with a history variable, what went wrong between page and server,  *)
(* and a bound on what comes between: clicks apart from those that start a *)
(* run, and requests of runs that fail while the server still listens.     *)
(***************************************************************************)
EXTENDS Page

CONSTANT MaxTroubles      \* bound: clicks and failed requests together

VARIABLES mishap,         \* "none", "late poll", or "some" other
          troubles

HInit == Init /\ mishap = "none" /\ troubles = 0

Trouble ==
         \/ \E c \in Cancels : cancel[c] = None /\ cancel'[c] # None
         \/ dnssec' /\ ~dnssec
         \/ shut = "idle" /\ shut' # "idle"
         \/ consent /\ ~consent'
         \/ Listening /\ \E r \in Runs : answer'[r] = "failed" /\ answer[r] # "failed"

(* An answer to a poll of a job that is no longer current. *)
LatePoll == \E r \in Runs : run[r] = "polled" /\ run'[r] # "polled" /\ current # r

(* A submission is accepted, or a cancel ends, while another job is current. *)
Late == \/ \E r \in Runs : current # None /\ run[r] = "submitted" /\ run'[r] = "poll"
        \/ \E c \in Cancels : cancel[c] # None /\ cancel'[c] = None
                              /\ current \notin {cancel[c], None}

(* A request got no usable answer: the page does not know what it did. *)
NoAnswer == \/ \E r \in Runs : answer[r] = "failed" /\ answer'[r] = "none"
            \/ \E c \in Cancels : cancel[c] # None /\ cancel'[c] = None
                                  /\ cancel[c] \notin canceled
            \/ shut # "idle" /\ shut' = "idle"

HNext == /\ Next
         /\ troubles' = IF Trouble THEN troubles + 1 ELSE troubles
         /\ troubles' <= MaxTroubles
         /\ mishap' = IF mishap = "late poll" \/ LatePoll THEN "late poll"
                      ELSE IF Late \/ NoAnswer THEN "some" ELSE mishap

HSpec == HInit /\ [][HNext]_<<vars, mishap, troubles>> /\ Fairness

(* Constraint: nobody asks for a shutdown, every request is answered in time. *)
Undisturbed == shut = "idle" /\ mishap = "none"

(* When nothing is under way any more, the status line does not claim that   *)
(* something is, unless an answer came late; and no run of this page goes on *)
(* that the page does not watch and nobody canceled, unless an answer came   *)
(* late or not at all.  These are all the ways to lose sight of a run.       *)
OnlyMishapsMislead ==
  AtRest =>
    /\ message \in Busy => mishap = "late poll"
    /\ (\E r \in Runs : status[r] \in API!Active /\ r \notin canceled) => mishap # "none"
=============================================================================
