----------------------------- MODULE ServerPass -----------------------------
(***************************************************************************)
(* One benchmark pass over one resolver: ui.go benchmarkServerPass and the *)
(* worker pool of dnsqueue.go it runs on.                                  *)
(*                                                                         *)
(* The caller queues one request per host name into a buffered channel,    *)
(* then collects as many results, selecting on ctx.Done() each time; on    *)
(* every way out the deferred SendCompletionSignal queues one exit request *)
(* per worker.  Each worker takes a request, queries the resolver over UDP *)
(* (and over TCP when the answer was truncated) and sends a result.        *)
(*                                                                         *)
(* A host name is its index in the caller's list.  Of a result only        *)
(* whether it counts as a success is kept: latencies do not steer the      *)
(* control.  Dialing observes the context, an exchange under way does not: *)
(* it ends with an answer or with the client's timeout.                    *)
(***************************************************************************)
EXTENDS Integers, Sequences, FiniteSets

CONSTANTS Workers,        \* the goroutines StartQueue spawns (WORKERS = 8)
          Size,           \* the capacity of both channels (QUEUE_LENGTH = 65535)
          Hosts           \* the host names of the pass (parsePositiveInt: <= 2000)

ASSUME PassAssumption == /\ IsFiniteSet(Workers)
                         /\ Workers # {}
                         /\ Size \in Nat \ {0}
                         /\ Hosts \in Nat \ {0}

(* The constants of ui.go leave room for every host and every exit signal. *)
ASSUME CapacityAssumption == Hosts + Cardinality(Workers) <= Size

VARIABLES pc,             \* where the caller is
          queued,         \* requests the caller has queued
          exits,          \* exit requests the caller has queued
          successes,      \* len(latencies)
          failures,
          outcome,        \* the error benchmarkServerPass is about to return
          canceled,       \* ctx.Err() # nil
          requests,       \* q.Requests: host indices, Exit for exit requests
          results,        \* q.Results
          worker          \* what each worker is doing, and for which host

callerVars == <<pc, queued, exits, successes, failures, outcome>>
vars == <<callerVars, canceled, requests, results, worker>>

Exit == 0
Host == 1..Hosts

collected == successes + failures

(* A worker between taking a request and sending its result. *)
Querying == {"dial", "udp", "redial", "tcp", "answered", "failed"}
Busy == {w \in Workers : worker[w].at \in Querying}
Exited == {w \in Workers : worker[w].at = "exited"}

(* Types; no more is queued than there are hosts and exit requests to send. *)
TypeOK == /\ pc \in {"check", "add", "collect", "signal", "returned"}
          /\ queued \in 0..Hosts
          /\ exits \in 0..Cardinality(Workers)
          /\ successes \in Nat /\ failures \in Nat
          /\ outcome \in {"none", "ok", "canceled"}
          /\ canceled \in BOOLEAN
          /\ requests \in Seq({Exit} \union Host)
          /\ results \in Seq([host : Host, ok : BOOLEAN])
          /\ worker \in [Workers -> [at : Querying \union {"idle", "exited"},
                                     host : {Exit} \union Host]]

Init == /\ pc = "check" /\ queued = 0 /\ exits = 0
        /\ successes = 0 /\ failures = 0
        /\ outcome = "none"
        /\ canceled = FALSE
        /\ requests = <<>> /\ results = <<>>
        /\ worker = [w \in Workers |-> [at |-> "idle", host |-> Exit]]

-----------------------------------------------------------------------------
(* The caller. *)

HasRoom(channel) == Len(channel) < Size

(* Mutant: a cancellation breaks out of the loop instead of returning. *)
CheckContextBreaks ==
  /\ pc = "check"
  /\ pc' = IF queued = Hosts \/ canceled THEN "collect" ELSE "add"
  /\ UNCHANGED <<queued, exits, successes, failures, outcome, canceled, requests, results, worker>>

(* The head of the queueing loop: leave it when all hosts are queued or the *)
(* context is canceled, else go on to queue the next host.                  *)
CheckContext ==
  /\ pc = "check"
  /\ \/ /\ queued = Hosts
        /\ pc' = "collect" /\ outcome' = outcome
     \/ /\ queued < Hosts /\ canceled
        /\ pc' = "signal" /\ outcome' = "canceled"
     \/ /\ queued < Hosts /\ ~canceled
        /\ pc' = "add" /\ outcome' = outcome
  /\ UNCHANGED <<queued, exits, successes, failures, canceled, requests, results, worker>>

(* AddWithContext blocks while the channel is full, canceled or not. *)
AddQuery ==
  /\ pc = "add" /\ HasRoom(requests)
  /\ requests' = Append(requests, queued + 1)
  /\ queued' = queued + 1
  /\ pc' = "check"
  /\ UNCHANGED <<exits, successes, failures, outcome, canceled, results, worker>>

(* Mutants: the loop stops one result early; failures are not counted. *)
AllButOneCollected == collected + 1 >= queued
AllSucceeded == successes = queued

(* The collecting loop runs until as many results as were queued are in. *)
AllCollected == collected = queued

CollectResult ==
  /\ pc = "collect" /\ ~AllCollected /\ results # <<>>
  /\ IF Head(results).ok
     THEN successes' = successes + 1 /\ failures' = failures
     ELSE failures' = failures + 1 /\ successes' = successes
  /\ results' = Tail(results)
  /\ UNCHANGED <<pc, queued, exits, outcome, canceled, requests, worker>>

CollectCanceled ==
  /\ pc = "collect" /\ ~AllCollected /\ canceled
  /\ pc' = "signal" /\ outcome' = "canceled"
  /\ UNCHANGED <<queued, exits, successes, failures, canceled, requests, results, worker>>

FinishPass ==
  /\ pc = "collect" /\ AllCollected
  /\ pc' = "signal" /\ outcome' = "ok"
  /\ UNCHANGED <<queued, exits, successes, failures, canceled, requests, results, worker>>

(* Mutants: one exit request too many, one too few. *)
OneExitMore == Cardinality(Workers) + 1
OneExitLess == Cardinality(Workers) - 1

(* The deferred SendCompletionSignal: as many exit requests as workers. *)
ExitSignals == Cardinality(Workers)

SendExit ==
  /\ pc = "signal" /\ exits < ExitSignals /\ HasRoom(requests)
  /\ requests' = Append(requests, Exit)
  /\ exits' = exits + 1
  /\ UNCHANGED <<pc, queued, successes, failures, outcome, canceled, results, worker>>

Return ==
  /\ pc = "signal" /\ exits = ExitSignals
  /\ pc' = "returned"
  /\ UNCHANGED <<queued, exits, successes, failures, outcome, canceled, requests, results, worker>>

Caller == CheckContext \/ AddQuery \/ CollectResult \/ CollectCanceled
            \/ FinishPass \/ SendExit \/ Return

-----------------------------------------------------------------------------
(* The workers. *)

Go(w, at) == worker' = [worker EXCEPT ![w].at = at]

Receive(w) ==
  /\ worker[w].at = "idle" /\ requests # <<>>
  /\ worker' = [worker EXCEPT ![w] =
                  [at |-> IF Head(requests) = Exit THEN "exited" ELSE "dial",
                   host |-> Head(requests)]]
  /\ requests' = Tail(requests)
  /\ UNCHANGED <<callerVars, canceled, results>>

(* Dialing the resolver fails at once under a canceled context, over UDP *)
(* and again over TCP, and may fail anyway.                              *)
Dial(w) ==
  /\ worker[w].at \in {"dial", "redial"}
  /\ \/ ~canceled /\ Go(w, IF worker[w].at = "dial" THEN "udp" ELSE "tcp")
     \/ Go(w, "failed")
  /\ UNCHANGED <<callerVars, canceled, requests, results>>

(* An answer with records; an error, a timeout or an empty answer; over UDP *)
(* a truncated answer, which is asked for again over TCP.                   *)
FinishExchange(w) ==
  /\ worker[w].at \in {"udp", "tcp"}
  /\ \/ \E at \in {"answered", "failed"} : Go(w, at)
     \/ worker[w].at = "udp" /\ Go(w, "redial")
  /\ UNCHANGED <<callerVars, canceled, requests, results>>

(* Mutant: a result is dropped when the context is canceled. *)
DeliverUnlessCanceled(w) ==
  /\ worker[w].at \in {"answered", "failed"} /\ HasRoom(results)
  /\ results' = IF canceled THEN results
                ELSE Append(results, [host |-> worker[w].host, ok |-> worker[w].at = "answered"])
  /\ Go(w, "idle")
  /\ UNCHANGED <<callerVars, canceled, requests>>

Deliver(w) ==
  /\ worker[w].at \in {"answered", "failed"} /\ HasRoom(results)
  /\ results' = Append(results, [host |-> worker[w].host, ok |-> worker[w].at = "answered"])
  /\ Go(w, "idle")
  /\ UNCHANGED <<callerVars, canceled, requests>>

Worker(w) == Receive(w) \/ Dial(w) \/ FinishExchange(w) \/ Deliver(w)

(* The owner of the context: Cancel and CancelAllBenchmarkJobs in jobs.go. *)
Cancel == /\ ~canceled
          /\ canceled' = TRUE
          /\ UNCHANGED <<callerVars, requests, results, worker>>

(* The pass is over and its goroutines are gone. *)
Done == pc = "returned" /\ Exited = Workers /\ UNCHANGED vars

Next == Caller \/ (\E w \in Workers : Worker(w)) \/ Cancel \/ Done

(* Goroutines that can run are scheduled; an exchange ends by its timeout. *)
Fairness == WF_vars(Caller) /\ \A w \in Workers : WF_vars(Worker(w))

Spec == Init /\ [][Next]_vars /\ Fairness

-----------------------------------------------------------------------------
(* The source of dnsqueue.go calls Add a call that "only blocks if queue is *)
(* full".  With the capacity ui.go gives the channels no send ever blocks:  *)
(* neither the caller's, queueing hosts or exit signals while nobody        *)
(* collects, nor a worker's, whose results nobody collects after a cancel.  *)
NeverBlocked ==
  /\ pc = "add" => HasRoom(requests)
  /\ pc = "signal" /\ exits < ExitSignals => HasRoom(requests)
  /\ \A w \in Workers : worker[w].at \in {"answered", "failed"} => HasRoom(results)

Waiting == {requests[i] : i \in DOMAIN requests} \ {Exit}
Held == {worker[w].host : w \in Busy}
Answered == {results[i].host : i \in DOMAIN results}

(* Every queued query is in exactly one place: waiting in the request       *)
(* channel, held by a worker, waiting in the result channel, or collected   *)
(* and counted once.  No result is lost and none is counted twice.          *)
ExactlyOnce ==
  /\ Waiting \intersect Held = {} /\ Waiting \intersect Answered = {}
  /\ Held \intersect Answered = {}
  /\ Cardinality(Waiting) + Cardinality(Held) + Cardinality(Answered) + collected = queued
  /\ Cardinality(Held) = Cardinality(Busy)

(* The cold-cache and the warm-cache pass of a resolver are measured apart: *)
(* when a pass returns success, none of its queries is still on the wire,   *)
(* waiting or undelivered, so none can disturb the pass that follows.       *)
PassIsolation == outcome = "ok" => /\ Busy = {} /\ results = <<>> /\ Waiting = {}

(* benchmarkServerPass returns, canceled or not. *)
PassReturns == <>(pc = "returned")

(* Every worker goroutine exits, also those of a pass that was canceled     *)
(* while requests were queued and results were on their way: no leak.       *)
WorkersExit == <>[](Exited = Workers)

(* The pass as its caller sees it. *)
Contract == INSTANCE PassContract WITH
              begun    <- queued > 0 \/ pc = "add",
              progress <- collected,
              outcome  <- IF pc = "returned" THEN outcome ELSE "none"

(* It keeps the contract of PassContract, on which the jobs rely: a success *)
(* means all results, an abort means a canceled context, and it returns.    *)
ImplementsContract == Contract!Spec
=============================================================================
