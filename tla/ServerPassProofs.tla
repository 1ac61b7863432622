-------------------------- MODULE ServerPassProofs --------------------------
(***************************************************************************)
(* Proofs about ServerPass, for any finite pool of workers, any number of  *)
(* hosts and any channel capacity that holds the hosts and one exit        *)
(* request per worker.                                                     *)
(*                                                                         *)
(* The argument counts.  Exit requests are queued behind all hosts, so the *)
(* request channel holds first hosts and then exits; and the hosts in it,  *)
(* the busy workers, the results in the other channel and the collected    *)
(* ones add up to the hosts queued.                                        *)
(***************************************************************************)
EXTENDS ServerPass, FiniteSetTheorems, SequenceTheorems, TLAPS

(* Exit requests not yet received, and the hosts waiting in front of them. *)
PendingExits == exits - Cardinality(Exited)
PendingHosts == Len(requests) - PendingExits

(* The requests are hosts followed by exits, and every host is accounted for. *)
Balance ==
  /\ PendingExits \in 0..Len(requests)
  /\ \A i \in 1..Len(requests) : requests[i] = Exit <=> i > PendingHosts
  /\ PendingHosts + Cardinality(Busy) + Len(results) + collected = queued

(* What the caller has done by where it is. *)
CallerStage ==
  /\ pc \in {"check", "add", "collect"} => exits = 0 /\ outcome = "none"
  /\ pc \in {"check", "add"} => collected = 0
  /\ pc = "add" => queued < Hosts
  /\ pc = "collect" => queued = Hosts
  /\ pc \in {"signal", "returned"} => outcome # "none"
  /\ outcome = "ok" => queued = Hosts /\ collected = Hosts
  /\ outcome = "canceled" => canceled /\ collected < Hosts

(* What a busy worker holds is a host. *)
BusyWithHost == \A w \in Busy : worker[w].host \in Host

PassInv == TypeOK /\ CallerStage /\ Balance /\ BusyWithHost

-----------------------------------------------------------------------------
LEMMA ConstantTypes ==
  /\ IsFiniteSet(Workers) /\ Cardinality(Workers) \in Nat
  /\ Size \in Nat /\ Hosts \in Nat /\ Hosts > 0
BY PassAssumption, FS_CardinalityType

LEMMA GroupsAreFinite ==
  /\ IsFiniteSet(Busy) /\ Cardinality(Busy) \in Nat
  /\ IsFiniteSet(Exited) /\ Cardinality(Exited) \in Nat
<1>1. Busy \in SUBSET Workers /\ Exited \in SUBSET Workers
  BY DEF Busy, Exited
<1> QED
  BY <1>1, ConstantTypes, FS_Subset, FS_CardinalityType

(* How the two groups of workers change when one worker moves. *)
LEMMA OneWorkerMoves ==
  ASSUME TypeOK, NEW w \in Workers, NEW at,
         worker'[w].at = at,
         \A v \in Workers \ {w} : worker'[v] = worker[v]
  PROVE  /\ Busy' = IF at \in Querying THEN Busy \union {w} ELSE Busy \ {w}
         /\ Exited' = IF at = "exited" THEN Exited \union {w} ELSE Exited \ {w}
BY DEF Busy, Exited

(* A worker that goes on querying changes neither group. *)
LEMMA StillBusy ==
  ASSUME TypeOK, NEW w \in Workers, worker[w].at \in Querying,
         NEW at \in Querying, Go(w, at)
  PROVE  Busy' = Busy /\ Exited' = Exited
BY DEF TypeOK, Busy, Exited, Go, Querying

LEMMA InitPass == Init => PassInv
<1> SUFFICES ASSUME Init PROVE PassInv
  OBVIOUS
<1>1. TypeOK
  <2>1. requests \in Seq({Exit} \union Host) /\ results \in Seq([host : Host, ok : BOOLEAN])
    BY DEF Init
  <2>2. worker \in [Workers -> [at : Querying \union {"idle", "exited"},
                                host : {Exit} \union Host]]
    BY DEF Init
  <2>3. /\ pc = "check" /\ queued \in 0..Hosts /\ exits \in 0..Cardinality(Workers)
        /\ successes \in Nat /\ failures \in Nat /\ outcome = "none"
    BY ConstantTypes DEF Init
  <2>4. canceled \in BOOLEAN
    BY DEF Init
  <2> QED
    BY <2>1, <2>2, <2>3, <2>4 DEF TypeOK
<1>2. CallerStage
  BY DEF Init, CallerStage, collected
<1>3. Busy = {} /\ Exited = {}
  BY DEF Init, Busy, Exited, Querying
<1>4. Balance
  BY <1>3, FS_EmptySet DEF Init, Balance, PendingExits, PendingHosts, collected
<1> QED
  BY <1>1, <1>2, <1>3, <1>4 DEF PassInv, BusyWithHost

(* A step that leaves the workers alone keeps what they hold. *)
LEMMA IdleWorkers ==
  ASSUME PassInv, UNCHANGED worker
  PROVE  Busy' = Busy /\ Exited' = Exited /\ BusyWithHost'
BY DEF PassInv, BusyWithHost, Busy, Exited

(* Steps that leave channels, counters and groups alone keep the balance. *)
LEMMA QuietBalance ==
  ASSUME Balance, UNCHANGED <<queued, exits, successes, failures, requests, results>>,
         Busy' = Busy, Exited' = Exited
  PROVE  Balance'
BY DEF Balance, PendingExits, PendingHosts, collected

LEMMA AddQueryBalance ==
  ASSUME PassInv, AddQuery
  PROVE  PassInv'
<1>1. /\ requests \in Seq({Exit} \union Host) /\ queued + 1 \in Host /\ queued + 1 # Exit
      /\ queued \in Nat /\ exits = 0 /\ collected = 0 /\ queued < Hosts
  BY ConstantTypes DEF PassInv, TypeOK, CallerStage, AddQuery, Host, Exit
<1>2. /\ requests' \in Seq({Exit} \union Host) /\ Len(requests') = Len(requests) + 1
      /\ \A i \in 1..Len(requests) : requests'[i] = requests[i]
      /\ requests'[Len(requests) + 1] = queued + 1
  BY <1>1, AppendProperties DEF AddQuery
<1>3. TypeOK'
  BY <1>1, <1>2, ConstantTypes DEF PassInv, TypeOK, AddQuery
<1>4. CallerStage'
  BY <1>1 DEF PassInv, CallerStage, AddQuery, collected
<1>5. Busy' = Busy /\ Exited' = Exited /\ BusyWithHost'
  BY IdleWorkers DEF AddQuery
<1>6. Balance'
  <2>1. PendingExits = 0 /\ PendingExits' = 0 /\ Len(requests) \in Nat
    BY <1>1, <1>5, GroupsAreFinite DEF PassInv, Balance, PendingExits, AddQuery
  <2>2. PendingHosts = Len(requests) /\ PendingHosts' = Len(requests) + 1
    BY <1>2, <2>1 DEF PendingHosts
  <2>3. \A i \in 1..Len(requests') : requests'[i] = Exit <=> i > PendingHosts'
    BY <1>1, <1>2, <2>1, <2>2 DEF PassInv, Balance
  <2>4. PendingHosts' + Cardinality(Busy)' + Len(results)' + collected' = queued'
    <3>1. collected' = collected /\ results' = results /\ queued' = queued + 1
          /\ Cardinality(Busy)' = Cardinality(Busy)
      BY <1>5 DEF AddQuery, collected
    <3>2. Len(results) \in Nat /\ Cardinality(Busy) \in Nat
      BY GroupsAreFinite DEF PassInv, TypeOK
    <3> QED
      BY <1>1, <2>1, <2>2, <3>1, <3>2 DEF PassInv, Balance
  <2> QED
    BY <1>2, <2>1, <2>3, <2>4 DEF Balance
<1> QED
  BY <1>3, <1>4, <1>5, <1>6 DEF PassInv

LEMMA SendExitBalance ==
  ASSUME PassInv, SendExit
  PROVE  PassInv'
<1>1. /\ requests \in Seq({Exit} \union Host) /\ exits \in Nat
      /\ exits < Cardinality(Workers) /\ pc = "signal"
  BY ConstantTypes DEF PassInv, TypeOK, SendExit, ExitSignals
<1>2. /\ requests' \in Seq({Exit} \union Host) /\ Len(requests') = Len(requests) + 1
      /\ \A i \in 1..Len(requests) : requests'[i] = requests[i]
      /\ requests'[Len(requests) + 1] = Exit
  BY <1>1, AppendProperties DEF SendExit
<1>3. TypeOK'
  BY <1>1, <1>2, ConstantTypes DEF PassInv, TypeOK, SendExit
<1>4. CallerStage'
  BY <1>1 DEF PassInv, CallerStage, SendExit, collected
<1>5. Busy' = Busy /\ Exited' = Exited /\ BusyWithHost'
  BY IdleWorkers DEF SendExit
<1>6. Balance'
  <2>1. PendingExits' = PendingExits + 1 /\ PendingExits \in 0..Len(requests)
        /\ Len(requests) \in Nat
    BY <1>1, <1>5, GroupsAreFinite DEF PassInv, Balance, PendingExits, SendExit
  <2>2. PendingHosts' = PendingHosts /\ PendingHosts \in Nat /\ PendingHosts <= Len(requests)
    BY <1>2, <2>1 DEF PendingHosts
  <2>3. \A i \in 1..Len(requests') : requests'[i] = Exit <=> i > PendingHosts'
    BY <1>2, <2>1, <2>2 DEF PassInv, Balance
  <2> QED
    BY <1>2, <1>5, <2>1, <2>2, <2>3 DEF PassInv, Balance, SendExit, collected
<1> QED
  BY <1>3, <1>4, <1>5, <1>6 DEF PassInv

LEMMA CollectResultBalance ==
  ASSUME PassInv, CollectResult
  PROVE  PassInv'
<1>1. /\ results \in Seq([host : Host, ok : BOOLEAN]) /\ results # <<>>
      /\ pc = "collect" /\ queued \in Nat /\ successes \in Nat /\ failures \in Nat
  BY ConstantTypes DEF PassInv, TypeOK, CollectResult
<1>2. /\ results' \in Seq([host : Host, ok : BOOLEAN]) /\ Len(results') = Len(results) - 1
      /\ Len(results) \in Nat
  BY <1>1, HeadTailProperties DEF CollectResult
<1>3. collected' = collected + 1 /\ successes' \in Nat /\ failures' \in Nat /\ collected \in Nat
  BY <1>1 DEF CollectResult, collected
<1>4. TypeOK'
  BY <1>2, <1>3 DEF PassInv, TypeOK, CollectResult
<1>5. CallerStage'
  BY <1>1 DEF PassInv, CallerStage, CollectResult
<1>6. Busy' = Busy /\ Exited' = Exited /\ BusyWithHost'
  BY IdleWorkers DEF CollectResult
<1>7. Balance'
  <2>1. PendingExits' = PendingExits /\ PendingHosts' = PendingHosts
    BY <1>6 DEF CollectResult, PendingExits, PendingHosts
  <2>2. PendingHosts \in Int /\ Cardinality(Busy) \in Nat
    BY GroupsAreFinite DEF PassInv, TypeOK, Balance, PendingHosts, PendingExits
  <2>3. /\ PendingExits' \in 0..Len(requests')
        /\ \A i \in 1..Len(requests') : requests'[i] = Exit <=> i > PendingHosts'
    BY <2>1 DEF PassInv, Balance, CollectResult
  <2>4. Cardinality(Busy)' = Cardinality(Busy) /\ queued' = queued
    BY <1>6 DEF CollectResult
  <2>5. PendingHosts + Cardinality(Busy) + Len(results) + collected = queued
    BY DEF PassInv, Balance
  <2>6. PendingHosts' + Cardinality(Busy)' + Len(results)' + collected' = queued'
    BY <1>2, <1>3, <2>1, <2>2, <2>4, <2>5, SMTT(30)
  <2> QED
    BY <2>3, <2>6 DEF Balance
<1> QED
  BY <1>4, <1>5, <1>6, <1>7 DEF PassInv

(* The other steps of the caller touch neither channels nor counters. *)
LEMMA CallerMoves ==
  ASSUME PassInv, CheckContext \/ CollectCanceled \/ FinishPass \/ Return
  PROVE  PassInv'
<1>1. UNCHANGED <<queued, exits, successes, failures, canceled, requests, results, worker>>
  BY DEF CheckContext, CollectCanceled, FinishPass, Return
<1>2. TypeOK'
  BY <1>1 DEF PassInv, TypeOK, CheckContext, CollectCanceled, FinishPass, Return
<1>3. CallerStage'
  <2>1. /\ queued \in 0..Hosts /\ Hosts > 0 /\ Hosts \in Nat /\ collected' = collected
        /\ collected <= queued
    <3>1. /\ PendingHosts \in Nat /\ Cardinality(Busy) \in Nat /\ Len(results) \in Nat
          /\ collected \in Nat /\ queued \in Nat
      BY GroupsAreFinite, SMTT(30) DEF PassInv, TypeOK, Balance, PendingHosts, PendingExits, collected
    <3> QED
      BY <1>1, <3>1, ConstantTypes DEF PassInv, TypeOK, Balance, collected
  <2> USE <1>1, <2>1 DEF PassInv, TypeOK, CallerStage
  <2>2. CASE CheckContext
    BY <2>2 DEF CheckContext
  <2>3. CASE CollectCanceled
    BY <2>3 DEF CollectCanceled, AllCollected, collected
  <2>4. CASE FinishPass
    BY <2>4 DEF FinishPass, AllCollected
  <2>5. CASE Return
    BY <2>5 DEF Return
  <2> QED
    BY <2>2, <2>3, <2>4, <2>5
<1>4. Balance' /\ BusyWithHost'
  BY <1>1, QuietBalance, IdleWorkers DEF PassInv
<1> QED
  BY <1>2, <1>3, <1>4 DEF PassInv

-----------------------------------------------------------------------------
(* The workers. *)

LEMMA ReceiveBalance ==
  ASSUME PassInv, NEW w \in Workers, Receive(w)
  PROVE  PassInv'
<1>1. requests \in Seq({Exit} \union Host) /\ requests # <<>> /\ worker[w].at = "idle"
  BY DEF PassInv, TypeOK, Receive
<1>2. /\ requests' \in Seq({Exit} \union Host) /\ Len(requests') = Len(requests) - 1
      /\ \A i \in 1..Len(requests') : requests'[i] = requests[i + 1]
      /\ Head(requests) = requests[1] /\ Head(requests) \in {Exit} \union Host
      /\ Len(requests) \in Nat \ {0}
  BY <1>1, HeadTailProperties DEF Receive
<1> DEFINE at == IF Head(requests) = Exit THEN "exited" ELSE "dial"
<1>3. /\ worker'[w] = [at |-> at, host |-> Head(requests)]
      /\ \A v \in Workers \ {w} : worker'[v] = worker[v]
  BY DEF Receive, PassInv, TypeOK
<1>4. TypeOK'
  <2>1. worker' \in [Workers -> [at : Querying \union {"idle", "exited"},
                                 host : {Exit} \union Host]]
    BY <1>2 DEF Receive, PassInv, TypeOK, Querying
  <2> QED
    BY <1>2, <2>1 DEF Receive, PassInv, TypeOK, callerVars
<1>5. CallerStage'
  BY DEF Receive, PassInv, CallerStage, callerVars, collected
<1>6. w \notin Busy /\ w \notin Exited
  BY <1>1 DEF Busy, Exited, Querying
<1>7. /\ PendingExits \in 0..Len(requests) /\ PendingHosts = Len(requests) - PendingExits
      /\ requests[1] = Exit <=> 1 > PendingHosts
  BY <1>2 DEF PassInv, Balance, PendingHosts
<1>8. UNCHANGED <<queued, exits, results>> /\ collected' = collected
  BY DEF Receive, callerVars, collected
<1>11. BusyWithHost'
  <2>1. Busy' \subseteq Busy \union {w} /\ (w \in Busy' => Head(requests) # Exit)
    BY <1>3, OneWorkerMoves DEF PassInv, Querying
  <2>2. w \in Busy' => worker'[w].host \in Host
    BY <1>2, <1>3, <2>1
  <2>3. Busy \subseteq Workers
    BY DEF Busy
  <2> QED
    BY <1>3, <2>1, <2>2, <2>3 DEF PassInv, BusyWithHost
<1>9. CASE Head(requests) = Exit
  <2>1. Busy' = Busy \ {w} /\ Exited' = Exited \union {w}
    BY <1>3, <1>9, OneWorkerMoves DEF PassInv, Querying
  <2>2. Cardinality(Busy)' = Cardinality(Busy) /\ Cardinality(Exited)' = Cardinality(Exited) + 1
    BY <1>6, <2>1, GroupsAreFinite, FS_AddElement, FS_RemoveElement
  <2>3. PendingExits' = PendingExits - 1
    BY <1>8, <2>2, GroupsAreFinite DEF PendingExits, PassInv, TypeOK
  <2>4. PendingHosts = 0 /\ PendingHosts' = 0 /\ PendingExits = Len(requests)
    BY <1>2, <1>7, <1>9, <2>3 DEF PendingHosts
  <2>5. \A i \in 1..Len(requests') : requests'[i] = Exit <=> i > PendingHosts'
    BY <1>2, <2>4 DEF PassInv, Balance
  <2>6. PendingExits' \in 0..Len(requests')
    BY <1>2, <2>3, <2>4
  <2>7. PendingHosts' + Cardinality(Busy)' + Len(results)' + collected' = queued'
    BY <1>8, <2>2, <2>4 DEF PassInv, Balance
  <2> QED
    BY <1>4, <1>5, <1>11, <2>5, <2>6, <2>7 DEF PassInv, Balance
<1>10. CASE Head(requests) # Exit
  <2>1. Busy' = Busy \union {w} /\ Exited' = Exited \ {w}
    BY <1>3, <1>10, OneWorkerMoves DEF PassInv, Querying
  <2>2. Cardinality(Busy)' = Cardinality(Busy) + 1 /\ Cardinality(Exited)' = Cardinality(Exited)
    BY <1>6, <2>1, GroupsAreFinite, FS_AddElement, FS_RemoveElement
  <2>3. PendingExits' = PendingExits
    BY <1>8, <2>2 DEF PendingExits
  <2>4. PendingHosts' = PendingHosts - 1 /\ PendingHosts > 0 /\ PendingHosts \in Int
    BY <1>2, <1>7, <1>10, <2>3 DEF PendingHosts
  <2>5. \A i \in 1..Len(requests') : requests'[i] = Exit <=> i > PendingHosts'
    BY <1>2, <2>4 DEF PassInv, Balance
  <2>6. PendingExits' \in 0..Len(requests')
    BY <1>2, <1>7, <2>3, <2>4
  <2>7. PendingHosts' + Cardinality(Busy)' + Len(results)' + collected' = queued'
    BY <1>8, <2>2, <2>4, GroupsAreFinite DEF PassInv, TypeOK, Balance, collected
  <2> QED
    BY <1>4, <1>5, <1>11, <2>5, <2>6, <2>7 DEF PassInv, Balance
<1> QED
  BY <1>9, <1>10

LEMMA QueryMoves ==
  ASSUME PassInv, NEW w \in Workers, Dial(w) \/ FinishExchange(w)
  PROVE  PassInv'
<1>1. PICK at \in Querying : Go(w, at)
  BY DEF Dial, FinishExchange, Querying
<1>2. UNCHANGED <<callerVars, canceled, requests, results>> /\ worker[w].at \in Querying
  BY DEF Dial, FinishExchange, Querying
<1>3. TypeOK'
  BY <1>1, <1>2 DEF Go, PassInv, TypeOK, callerVars
<1>4. CallerStage'
  BY <1>2 DEF PassInv, CallerStage, callerVars, collected
<1>5. Balance'
  BY <1>1, <1>2, StillBusy, QuietBalance DEF PassInv, callerVars
<1>6. BusyWithHost'
  <2>1. Busy' = Busy /\ \A v \in Workers : worker'[v].host = worker[v].host
    BY <1>1, <1>2, StillBusy DEF PassInv, TypeOK, Go
  <2> QED
    BY <2>1 DEF PassInv, BusyWithHost, Busy
<1> QED
  BY <1>3, <1>4, <1>5, <1>6 DEF PassInv

LEMMA DeliverBalance ==
  ASSUME PassInv, NEW w \in Workers, Deliver(w)
  PROVE  PassInv'
<1> DEFINE answer == [host |-> worker[w].host, ok |-> worker[w].at = "answered"]
<1>1. w \in Busy /\ w \notin Exited /\ worker[w].host \in Host
  BY DEF Deliver, PassInv, BusyWithHost, Busy, Exited, Querying
<1>2. answer \in [host : Host, ok : BOOLEAN]
  BY <1>1
<1>3. results \in Seq([host : Host, ok : BOOLEAN]) /\ results' = Append(results, answer)
  BY DEF PassInv, TypeOK, Deliver
<1>4. /\ results' \in Seq([host : Host, ok : BOOLEAN]) /\ Len(results') = Len(results) + 1
      /\ Len(results) \in Nat
  <2> HIDE DEF answer
  <2> QED
    BY <1>2, <1>3, AppendProperties
<1>5. Go(w, "idle") /\ UNCHANGED <<callerVars, canceled, requests>>
  BY DEF Deliver
<1>6. /\ worker'[w].at = "idle"
      /\ \A v \in Workers \ {w} : worker'[v] = worker[v]
      /\ worker' \in [Workers -> [at : Querying \union {"idle", "exited"},
                                  host : {Exit} \union Host]]
  BY <1>5 DEF Go, PassInv, TypeOK
<1>7. TypeOK'
  BY <1>4, <1>5, <1>6 DEF PassInv, TypeOK, callerVars
<1>8. CallerStage'
  BY <1>5 DEF PassInv, CallerStage, callerVars, collected
<1>9. Busy' = Busy \ {w} /\ Exited' = Exited
  BY <1>1, <1>6, OneWorkerMoves DEF PassInv, Querying
<1>10. Cardinality(Busy)' = Cardinality(Busy) - 1
  BY <1>1, <1>9, GroupsAreFinite, FS_RemoveElement
<1>11. Balance'
  <2>1. PendingExits' = PendingExits /\ PendingHosts' = PendingHosts
    BY <1>5, <1>9 DEF PendingExits, PendingHosts, callerVars
  <2>2. collected' = collected /\ queued' = queued /\ requests' = requests
    BY <1>5 DEF callerVars, collected
  <2>3. PendingHosts + Cardinality(Busy) + Len(results) + collected = queued
    BY DEF PassInv, Balance
  <2>4. PendingHosts \in Int /\ Cardinality(Busy) \in Nat /\ collected \in Nat
    BY GroupsAreFinite DEF PassInv, TypeOK, Balance, PendingHosts, PendingExits, collected
  <2>5. PendingHosts' + Cardinality(Busy)' + Len(results)' + collected' = queued'
    BY <1>4, <1>10, <2>1, <2>2, <2>3, <2>4
  <2> QED
    BY <2>1, <2>2, <2>5 DEF PassInv, Balance
<1>12. BusyWithHost'
  BY <1>6, <1>9 DEF PassInv, BusyWithHost, Busy
<1> QED
  BY <1>7, <1>8, <1>11, <1>12 DEF PassInv

-----------------------------------------------------------------------------
LEMMA NextPass == PassInv /\ [Next]_vars => PassInv'
<1> SUFFICES ASSUME PassInv, [Next]_vars PROVE PassInv'
  OBVIOUS
<1>1. CASE UNCHANGED vars
  <2>1. TypeOK' /\ CallerStage'
    BY <1>1 DEF vars, callerVars, PassInv, TypeOK, CallerStage, collected
  <2>2. Balance' /\ BusyWithHost'
    BY <1>1, QuietBalance, IdleWorkers DEF vars, callerVars, PassInv
  <2> QED
    BY <2>1, <2>2 DEF PassInv
<1>2. CASE Caller
  BY <1>2, AddQueryBalance, SendExitBalance, CollectResultBalance, CallerMoves DEF Caller
<1>3. ASSUME NEW w \in Workers, Worker(w) PROVE PassInv'
  BY <1>3, ReceiveBalance, QueryMoves, DeliverBalance DEF Worker
<1>4. CASE Cancel
  <2>1. TypeOK' /\ CallerStage'
    BY <1>4 DEF Cancel, callerVars, PassInv, TypeOK, CallerStage, collected
  <2>2. Balance' /\ BusyWithHost'
    BY <1>4, QuietBalance, IdleWorkers DEF Cancel, callerVars, PassInv
  <2> QED
    BY <2>1, <2>2 DEF PassInv
<1> QED
  BY <1>1, <1>2, <1>3, <1>4 DEF Next, Done

LEMMA PassInvariant == Spec => []PassInv
<1> QED
  BY InitPass, NextPass, PTL DEF Spec

(* Every variable keeps to its type: no more is queued than there are hosts *)
(* and no more exit requests are sent than there are workers.               *)
THEOREM TypeCorrect == Spec => []TypeOK
<1>1. PassInv => TypeOK
  BY DEF PassInv
<1> QED
  BY <1>1, PassInvariant, PTL

(* With room for the hosts and the exit requests no send ever blocks: not   *)
(* the caller's while nobody collects, not a worker's after a cancellation. *)
THEOREM SendsNeverBlock == Spec => []NeverBlocked
<1>1. ASSUME PassInv PROVE NeverBlocked
  <2>1. /\ PendingHosts \in Nat /\ PendingExits \in Nat /\ collected \in Nat
        /\ Len(requests) \in Nat /\ Len(results) \in Nat
        /\ queued \in 0..Hosts /\ exits \in 0..Cardinality(Workers)
        /\ PendingExits <= exits /\ Len(requests) = PendingHosts + PendingExits
    <3>1. queued \in 0..Hosts /\ exits \in 0..Cardinality(Workers)
      BY <1>1 DEF PassInv, TypeOK
    <3>2. Len(requests) \in Nat /\ Len(results) \in Nat
      BY <1>1 DEF PassInv, TypeOK
    <3>3. collected \in Nat
      BY <1>1 DEF PassInv, TypeOK, collected
    <3>4. PendingExits \in 0..Len(requests)
      BY <1>1 DEF PassInv, Balance
    <3>5. PendingHosts \in Nat /\ PendingExits \in Nat /\ Len(requests) = PendingHosts + PendingExits
      BY <3>2, <3>4 DEF PendingHosts
    <3>6. PendingExits <= exits
      BY <3>1, GroupsAreFinite, ConstantTypes DEF PendingExits
    <3> QED
      BY <3>1, <3>2, <3>3, <3>5, <3>6
  <2>2. PendingHosts + Cardinality(Busy) + Len(results) + collected = queued
    BY <1>1 DEF PassInv, Balance
  <2>3. Len(requests) <= queued + exits /\ Len(results) + Cardinality(Busy) <= Hosts
    BY <2>1, <2>2, GroupsAreFinite, ConstantTypes
  <2>4. pc = "add" => HasRoom(requests)
    BY <1>1, <2>1, <2>3, ConstantTypes, CapacityAssumption
       DEF PassInv, CallerStage, HasRoom
  <2>5. pc = "signal" /\ exits < ExitSignals => HasRoom(requests)
    BY <2>1, <2>3, ConstantTypes, CapacityAssumption DEF ExitSignals, HasRoom
  <2>6. ASSUME NEW w \in Workers, worker[w].at \in {"answered", "failed"}
        PROVE  HasRoom(results)
    <3>1. w \in Busy
      BY <2>6 DEF Busy, Querying
    <3>2. Cardinality(Busy) > 0
      BY <3>1, GroupsAreFinite, FS_EmptySet
    <3> QED
      BY <2>1, <2>3, <3>2, GroupsAreFinite, ConstantTypes, CapacityAssumption DEF HasRoom
  <2> QED
    BY <2>4, <2>5, <2>6 DEF NeverBlocked
<1> QED
  BY <1>1, PassInvariant, PTL

(* A pass that returns success leaves nothing behind that could disturb the *)
(* pass that follows: no query waits, is on the wire or is undelivered.     *)
THEOREM PassesAreIsolated == Spec => []PassIsolation
<1>1. ASSUME PassInv, outcome = "ok" PROVE Busy = {} /\ results = <<>> /\ Waiting = {}
  <2>1. collected = queued /\ collected \in Nat
    BY <1>1 DEF PassInv, CallerStage, TypeOK, collected
  <2>2. /\ PendingHosts \in Nat /\ Len(results) \in Nat /\ Cardinality(Busy) \in Nat
        /\ PendingHosts + Cardinality(Busy) + Len(results) + collected = queued
    BY <1>1, GroupsAreFinite DEF PassInv, TypeOK, Balance, PendingHosts, PendingExits
  <2>3. PendingHosts = 0 /\ Cardinality(Busy) = 0 /\ Len(results) = 0
    BY <2>1, <2>2
  <2>4. Busy = {}
    BY <2>3, GroupsAreFinite, FS_EmptySet
  <2>5. results = <<>>
    BY <1>1, <2>3, EmptySeq DEF PassInv, TypeOK
  <2>6. \A i \in DOMAIN requests : requests[i] = Exit
    BY <1>1, <2>3 DEF PassInv, TypeOK, Balance
  <2> QED
    BY <2>4, <2>5, <2>6 DEF Waiting
<1>2. PassInv => PassIsolation
  BY <1>1 DEF PassIsolation
<1> QED
  BY <1>2, PassInvariant, PTL

-----------------------------------------------------------------------------
(* Where each query is.  Balance counts places; that every host has a place  *)
(* of its own needs the order of the requests: those received are the hosts  *)
(* up to some number, those waiting the ones after it, one by one.           *)

Received == Cardinality(Busy) + Len(results) + collected

Places ==
  /\ \A i \in 1..PendingHosts : requests[i] = Received + i
  /\ \A v, w \in Busy : worker[v].host = worker[w].host => v = w
  /\ \A i, j \in 1..Len(results) : results[i].host = results[j].host => i = j
  /\ \A w \in Busy : worker[w].host <= Received
  /\ \A i \in 1..Len(results) : results[i].host <= Received
  /\ \A w \in Busy, i \in 1..Len(results) : worker[w].host # results[i].host

Counts ==
  /\ PendingHosts \in Nat /\ Received \in Nat /\ queued \in Nat /\ collected \in Nat
  /\ Len(results) \in Nat /\ Len(requests) \in Nat /\ Cardinality(Busy) \in Nat
  /\ PendingHosts <= Len(requests)
  /\ queued = Received + PendingHosts

LEMMA Counted == PassInv => Counts
<1> SUFFICES ASSUME PassInv PROVE Counts
  OBVIOUS
<1>1. Len(results) \in Nat /\ Len(requests) \in Nat /\ queued \in Nat /\ collected \in Nat
  BY ConstantTypes DEF PassInv, TypeOK, collected
<1>2. PendingExits \in 0..Len(requests)
  BY DEF PassInv, Balance
<1>3. PendingHosts \in Nat /\ PendingHosts <= Len(requests)
  BY <1>1, <1>2 DEF PendingHosts
<1>4. Cardinality(Busy) \in Nat
  BY GroupsAreFinite
<1>5. Received \in Nat
  BY <1>1, <1>4 DEF Received
<1>6. queued = Received + PendingHosts
  <2>1. PendingHosts + Cardinality(Busy) + Len(results) + collected = queued
    BY DEF PassInv, Balance
  <2> QED
    BY <1>1, <1>3, <1>4, <2>1 DEF Received
<1> QED
  BY <1>1, <1>3, <1>4, <1>5, <1>6 DEF Counts

LEMMA CountedNext == PassInv' => Counts'
BY Counted, PTL

LEMMA PendingFollows ==
  ASSUME Counts, Counts'
  PROVE  /\ queued' = queued /\ Received' = Received => PendingHosts' = PendingHosts
         /\ queued' = queued + 1 /\ Received' = Received => PendingHosts' = PendingHosts + 1
         /\ queued' = queued /\ Received' = Received + 1 => PendingHosts' = PendingHosts - 1
<1>1. queued \in Nat /\ Received \in Nat /\ PendingHosts \in Nat /\ queued = Received + PendingHosts
  BY DEF Counts
<1>2. queued' \in Nat /\ Received' \in Nat /\ PendingHosts' \in Nat
      /\ queued' = Received' + PendingHosts'
  BY DEF Counts
<1>3. PICK r \in Nat : r = Received'
  BY <1>2, Zenon
<1>4. PICK p \in Nat : p = PendingHosts'
  BY <1>2, Zenon
<1>5. queued' = r + p
  BY <1>2, <1>3, <1>4, Zenon
<1>6. /\ queued' = queued /\ r = Received => p = PendingHosts
      /\ queued' = queued + 1 /\ r = Received => p = PendingHosts + 1
      /\ queued' = queued /\ r = Received + 1 => p = PendingHosts - 1
  BY <1>1, <1>5
<1> QED
  BY <1>3, <1>4, <1>6, Zenon

LEMMA ResultHosts ==
  ASSUME PassInv
  PROVE  \A i \in 1..Len(results) : results[i].host \in Int
<1>1. results \in Seq([host : Host, ok : BOOLEAN])
  BY DEF PassInv, TypeOK
<1>2. \A i \in 1..Len(results) : results[i] \in [host : Host, ok : BOOLEAN]
  <2> DEFINE R == [host : Host, ok : BOOLEAN]
  <2>1. results \in Seq(R)
    BY <1>1
  <2> HIDE DEF R
  <2>2. \A i \in 1..Len(results) : results[i] \in R
    BY <2>1, ElementOfSeq
  <2> QED
    BY <2>2 DEF R
<1> QED
  BY <1>2, ConstantTypes DEF Host

(* A step that moves no query: those waiting and those received stay. *)
LEMMA PlacesStay ==
  ASSUME PassInv, Counts, Counts', Places, Busy' = Busy,
         \A w \in Busy : worker'[w].host = worker[w].host,
         results' = results, collected' = collected, queued' = queued,
         \A i \in 1..PendingHosts : requests'[i] = requests[i]
  PROVE  Places'
<1>1. Received' = Received /\ PendingHosts' = PendingHosts
  <2>1. Received' = Received
    BY DEF Received
  <2> QED
    BY <2>1, PendingFollows
<1> QED
  BY <1>1 DEF Places

LEMMA AddQueryPlaces ==
  ASSUME PassInv, Counts, Counts', Places, AddQuery
  PROVE  Places'
<1>1. /\ requests \in Seq({Exit} \union Host) /\ queued + 1 \in Host
      /\ requests' = Append(requests, queued + 1) /\ queued' = queued + 1
      /\ UNCHANGED <<worker, results>> /\ collected' = collected
  BY ConstantTypes DEF PassInv, TypeOK, CallerStage, AddQuery, Host, collected
<1>2. /\ \A i \in 1..Len(requests) : requests'[i] = requests[i]
      /\ requests'[Len(requests) + 1] = queued + 1
      /\ Len(requests') = Len(requests) + 1
  BY <1>1, AppendProperties
<1>3. Busy' = Busy
  BY <1>1, IdleWorkers
<1>4. Received' = Received /\ PendingHosts' = PendingHosts + 1
  <2>1. Received' = Received
    BY <1>1, <1>3 DEF Received
  <2> QED
    BY <1>1, <2>1, PendingFollows
<1>5. PendingHosts = Len(requests)
  <2>1. exits = 0 /\ PendingExits \in 0..Len(requests)
    BY DEF PassInv, CallerStage, AddQuery, Balance
  <2>2. PendingExits = 0 /\ Len(requests) \in Nat
    BY <2>1, GroupsAreFinite, SMTT(30) DEF PendingExits, Counts
  <2> QED
    BY <2>2 DEF PendingHosts
<1>6. \A i \in 1..PendingHosts' : requests'[i] = Received' + i
  <2> SUFFICES ASSUME NEW i \in 1..PendingHosts' PROVE requests'[i] = Received' + i
    OBVIOUS
  <2>1. i \in 1..PendingHosts \/ i = PendingHosts + 1
    BY <1>4 DEF Counts
  <2>2. CASE i \in 1..PendingHosts
    BY <1>2, <1>4, <1>5, <2>2 DEF Places
  <2>3. CASE i = PendingHosts + 1
    <3>1. requests'[i] = queued + 1
      BY <1>2, <1>5, <2>3
    <3> QED
      BY <1>4, <2>3, <3>1 DEF Counts
  <2> QED
    BY <2>1, <2>2, <2>3
<1> QED
  BY <1>1, <1>3, <1>4, <1>6 DEF Places

LEMMA CollectResultPlaces ==
  ASSUME PassInv, Counts, Counts', Places, CollectResult
  PROVE  Places'
<1>1. /\ results \in Seq([host : Host, ok : BOOLEAN]) /\ results # <<>>
      /\ results' = Tail(results) /\ UNCHANGED <<worker, requests, queued>>
      /\ collected' = collected + 1
  BY DEF PassInv, TypeOK, CollectResult, collected
<1>2. /\ \A i \in 1..Len(results') : results'[i] = results[i + 1]
      /\ Len(results') = Len(results) - 1
  BY <1>1, HeadTailProperties
<1>3. Busy' = Busy
  BY <1>1, IdleWorkers
<1>4. Received' = Received /\ PendingHosts' = PendingHosts
  <2>1. Received' = Received
    BY <1>1, <1>2, <1>3, SMTT(30) DEF Received, Counts
  <2> QED
    BY <1>1, <2>1, PendingFollows
<1>5. \A i \in 1..Len(results') : i + 1 \in 1..Len(results)
  BY <1>2 DEF Counts
<1>6. \A i, j \in 1..Len(results') : results'[i].host = results'[j].host => i = j
  BY <1>2, <1>5 DEF Places
<1>7. /\ \A i \in 1..Len(results') : results'[i].host <= Received'
      /\ \A w \in Busy', i \in 1..Len(results') : worker'[w].host # results'[i].host
  BY <1>1, <1>2, <1>3, <1>4, <1>5 DEF Places
<1> QED
  BY <1>1, <1>3, <1>4, <1>6, <1>7 DEF Places

(* The host received is the next one, so it is none of those received before. *)
LEMMA ReceivePlaces ==
  ASSUME PassInv, Counts, Counts', Places, NEW w \in Workers, Receive(w)
  PROVE  Places'
<1> DEFINE at == IF Head(requests) = Exit THEN "exited" ELSE "dial"
<1>1. /\ requests \in Seq({Exit} \union Host) /\ requests # <<>> /\ worker[w].at = "idle"
      /\ UNCHANGED <<queued, results>> /\ collected' = collected
  BY DEF PassInv, TypeOK, Receive, callerVars, collected
<1>2. /\ Len(requests') = Len(requests) - 1 /\ Head(requests) = requests[1]
      /\ \A i \in 1..Len(requests') : requests'[i] = requests[i + 1]
      /\ Len(requests) > 0
  BY <1>1, HeadTailProperties DEF Receive
<1>3. /\ worker'[w] = [at |-> at, host |-> Head(requests)]
      /\ \A v \in Workers \ {w} : worker'[v] = worker[v]
  BY DEF Receive, PassInv, TypeOK
<1>4. w \notin Busy /\ Busy \subseteq Workers
  BY <1>1 DEF Busy, Querying
<1>5. requests[1] = Exit <=> 1 > PendingHosts
  BY <1>2 DEF PassInv, Balance, Counts
<1>6. PendingHosts' \in Nat /\ PendingHosts' <= Len(requests')
  BY DEF Counts
<1>7. CASE Head(requests) = Exit
  <2>1. Busy' = Busy
    <3>1. Busy' = Busy \ {w}
      BY <1>3, <1>7, OneWorkerMoves DEF PassInv, Querying
    <3> QED
      BY <1>4, <3>1
  <2>2. PendingHosts = 0
    BY <1>2, <1>5, <1>7, SMTT(30) DEF Counts
  <2>3. \A v \in Busy : worker'[v].host = worker[v].host
    BY <1>3, <1>4
  <2> QED
    BY <1>1, <2>1, <2>2, <2>3, PlacesStay DEF Counts
<1>8. CASE Head(requests) # Exit
  <2>1. Busy' = Busy \union {w}
    BY <1>3, <1>8, OneWorkerMoves DEF PassInv, Querying
  <2>2. Cardinality(Busy)' = Cardinality(Busy) + 1
    BY <1>4, <2>1, GroupsAreFinite, FS_AddElement
  <2>3. Received' = Received + 1 /\ PendingHosts' = PendingHosts - 1 /\ PendingHosts > 0
    <3>1. Received' = Received + 1
      BY <1>1, <2>2, SMTT(30) DEF Received, Counts
    <3>2. PendingHosts > 0
      BY <1>2, <1>5, <1>8 DEF Counts
    <3> QED
      BY <1>1, <3>1, <3>2, PendingFollows
  <2>4. worker'[w].host = Received + 1
    <3>1. 1 \in 1..PendingHosts
      BY <2>3 DEF Counts
    <3>2. requests[1] = Received + 1
      BY <3>1 DEF Places
    <3> QED
      BY <1>2, <1>3, <3>2
  <2>5. \A i \in 1..PendingHosts' : requests'[i] = Received' + i
    <3> SUFFICES ASSUME NEW i \in 1..PendingHosts' PROVE requests'[i] = Received' + i
      OBVIOUS
    <3>1. i \in 1..Len(requests') /\ i + 1 \in 1..PendingHosts
      BY <1>2, <1>6, <2>3 DEF Counts
    <3>2. requests'[i] = requests[i + 1] /\ requests[i + 1] = Received + (i + 1)
      BY <1>2, <3>1 DEF Places
    <3> QED
      BY <2>3, <3>2 DEF Counts
  <2>6. \A v \in Busy : worker'[v].host = worker[v].host /\ worker[v].host <= Received
    BY <1>3, <1>4 DEF Places
  <2>7. \A v \in Busy : worker[v].host \in Int
    BY ConstantTypes DEF PassInv, BusyWithHost, Host
  <2>8. \A i \in 1..Len(results) : results[i].host \in Int /\ results[i].host <= Received
    BY ResultHosts DEF Places
  <2>9. \A v \in Busy : worker'[v].host # Received + 1
    <3> SUFFICES ASSUME NEW v \in Busy PROVE worker[v].host # Received + 1
      BY <2>6
    <3>1. worker[v].host \in Int /\ worker[v].host <= Received /\ Received \in Nat
      BY <2>6, <2>7 DEF Counts
    <3> QED
      BY <3>1
  <2>10. \A u, v \in Busy' : worker'[u].host = worker'[v].host => u = v
    <3>1. \A u, v \in Busy : worker'[u].host = worker'[v].host => u = v
      BY <2>6 DEF Places
    <3> QED
      BY <2>1, <2>4, <2>9, <3>1
  <2>11. \A v \in Busy' : worker'[v].host <= Received'
    <3> SUFFICES ASSUME NEW v \in Busy' PROVE worker'[v].host <= Received + 1
      BY <2>3
    <3>1. CASE v = w
      BY <2>4, <3>1 DEF Counts
    <3>2. CASE v \in Busy
      <4>1. worker'[v].host \in Int /\ worker'[v].host <= Received /\ Received \in Nat
        BY <2>6, <2>7, <3>2 DEF Counts
      <4> QED
        BY <4>1
    <3> QED
      BY <2>1, <3>1, <3>2
  <2>12. \A i \in 1..Len(results) : results[i].host <= Received + 1 /\ results[i].host # Received + 1
    <3> SUFFICES ASSUME NEW i \in 1..Len(results)
                 PROVE  results[i].host <= Received + 1 /\ results[i].host # Received + 1
      OBVIOUS
    <3>1. results[i].host \in Int /\ results[i].host <= Received /\ Received \in Nat
      BY <2>8 DEF Counts
    <3> QED
      BY <3>1
  <2>13. /\ \A i \in 1..Len(results') : results'[i].host <= Received'
         /\ \A v \in Busy', i \in 1..Len(results') : worker'[v].host # results'[i].host
    <3>1. \A v \in Busy, i \in 1..Len(results) : worker'[v].host # results[i].host
      BY <2>6 DEF Places
    <3> QED
      BY <1>1, <2>1, <2>3, <2>4, <2>12, <3>1
  <2>14. \A i, j \in 1..Len(results') : results'[i].host = results'[j].host => i = j
    BY <1>1 DEF Places
  <2> QED
    BY <2>5, <2>10, <2>11, <2>13, <2>14 DEF Places
<1> QED
  BY <1>7, <1>8

LEMMA DeliverPlaces ==
  ASSUME PassInv, Counts, Counts', Places, NEW w \in Workers, Deliver(w)
  PROVE  Places'
<1> DEFINE answer == [host |-> worker[w].host, ok |-> worker[w].at = "answered"]
<1>1. w \in Busy /\ worker[w].host \in Host
  BY DEF Deliver, PassInv, BusyWithHost, Busy, Querying
<1>2. /\ results \in Seq([host : Host, ok : BOOLEAN]) /\ results' = Append(results, answer)
      /\ UNCHANGED <<queued, requests>> /\ collected' = collected
  BY DEF PassInv, TypeOK, Deliver, callerVars, collected
<1>3. answer \in [host : Host, ok : BOOLEAN]
  BY <1>1
<1>4. /\ \A i \in 1..Len(results) : results'[i] = results[i]
      /\ results'[Len(results) + 1].host = worker[w].host
      /\ Len(results') = Len(results) + 1
  <2>1. answer.host = worker[w].host
    OBVIOUS
  <2> HIDE DEF answer
  <2> QED
    BY <1>2, <1>3, <2>1, AppendProperties
<1>5. /\ worker'[w].at = "idle"
      /\ \A v \in Workers \ {w} : worker'[v] = worker[v]
  BY DEF Deliver, Go, PassInv, TypeOK
<1>6. Busy' = Busy \ {w} /\ Busy \subseteq Workers
  BY <1>5, OneWorkerMoves DEF PassInv, Querying, Busy
<1>7. Cardinality(Busy)' = Cardinality(Busy) - 1
  BY <1>1, <1>6, GroupsAreFinite, FS_RemoveElement
<1>8. Received' = Received /\ PendingHosts' = PendingHosts
  <2>1. Received' = Received
    BY <1>2, <1>4, <1>7 DEF Received, Counts
  <2> QED
    BY <1>2, <2>1, PendingFollows
<1>9. \A v \in Busy' : worker'[v] = worker[v] /\ v \in Busy /\ v # w
  BY <1>5, <1>6
<1>10. \A i \in 1..Len(results') : i \in 1..Len(results) \/ i = Len(results) + 1
  BY <1>4, SMTT(30) DEF Counts
<1>11. \A i, j \in 1..Len(results') : results'[i].host = results'[j].host => i = j
  BY <1>1, <1>4, <1>10 DEF Places
<1>12. \A i \in 1..Len(results') : results'[i].host <= Received'
  BY <1>1, <1>4, <1>8, <1>10 DEF Places
<1>13. \A v \in Busy', i \in 1..Len(results') : worker'[v].host # results'[i].host
  BY <1>1, <1>4, <1>9, <1>10 DEF Places
<1>14. /\ \A u, v \in Busy' : worker'[u].host = worker'[v].host => u = v
       /\ \A v \in Busy' : worker'[v].host <= Received'
  BY <1>8, <1>9 DEF Places
<1>15. \A i \in 1..PendingHosts' : requests'[i] = Received' + i
  BY <1>2, <1>8 DEF Places
<1> QED
  BY <1>11, <1>12, <1>13, <1>14, <1>15 DEF Places

LEMMA NextPlaces == PassInv /\ Places /\ [Next]_vars => Places'
<1> SUFFICES ASSUME PassInv, Places, [Next]_vars PROVE Places'
  OBVIOUS
<1>1. Counts /\ Counts'
  BY NextPass, Counted, CountedNext
<1>2. CASE UNCHANGED <<queued, successes, failures, results, requests, worker>>
  BY <1>1, <1>2, IdleWorkers, PlacesStay DEF collected
<1>3. CASE SendExit
  <2>1. \A i \in 1..Len(requests) : requests'[i] = requests[i]
    <3>1. requests \in Seq({Exit} \union Host)
      BY DEF PassInv, TypeOK
    <3> QED
      BY <1>3, <3>1, AppendProperties DEF SendExit
  <2>2. \A i \in 1..PendingHosts : requests'[i] = requests[i]
    BY <2>1, Counted DEF Counts
  <2> QED
    BY <1>1, <1>3, <2>2, IdleWorkers, PlacesStay DEF SendExit, collected
<1>4. ASSUME NEW w \in Workers, Dial(w) \/ FinishExchange(w) PROVE Places'
  <2>1. PICK at \in Querying : Go(w, at)
    BY <1>4 DEF Dial, FinishExchange, Querying
  <2>2. UNCHANGED <<callerVars, requests, results>> /\ worker[w].at \in Querying
    BY <1>4 DEF Dial, FinishExchange, Querying
  <2>3. Busy' = Busy /\ \A v \in Workers : worker'[v].host = worker[v].host
    BY <2>1, <2>2, StillBusy DEF PassInv, TypeOK, Go
  <2> QED
    BY <1>1, <2>2, <2>3, PlacesStay DEF callerVars, collected, Busy
<1>5. CASE CheckContext \/ CollectCanceled \/ FinishPass \/ Return \/ Cancel \/ UNCHANGED vars
  BY <1>2, <1>5 DEF CheckContext, CollectCanceled, FinishPass, Return, Cancel, vars, callerVars
<1> QED
  BY <1>1, <1>3, <1>4, <1>5, AddQueryPlaces, CollectResultPlaces, ReceivePlaces, DeliverPlaces
     DEF Next, Caller, Worker, Done

(* An injective image of a finite set has its size. *)
LEMMA SameSize ==
  ASSUME NEW S, IsFiniteSet(S), NEW f, f \in [S -> Int],
         \A x, y \in S : f[x] = f[y] => x = y
  PROVE  Cardinality({f[x] : x \in S}) = Cardinality(S)
<1> DEFINE T == {f[x] : x \in S}
<1>1. f \in Surjection(S, T) /\ f \in Injection(S, T)
  BY DEF Surjection, Injection, IsInjective
<1> QED
  BY <1>1, FS_Surjection

LEMMA InitialSegment ==
  \A n \in Nat : IsFiniteSet(1..n) /\ Cardinality(1..n) = n
<1> SUFFICES ASSUME NEW n \in Nat PROVE IsFiniteSet(1..n) /\ Cardinality(1..n) = n
  OBVIOUS
<1>1. IsFiniteSet(1..n) /\ Cardinality(1..n) = IF 1 > n THEN 0 ELSE n - 1 + 1
  BY FS_Interval
<1> QED
  BY <1>1

(* No result is lost and none is counted twice: every query that was queued  *)
(* waits, is held by one worker, is one result, or was collected, and two    *)
(* places never hold the same one, whatever the number of hosts and workers. *)
THEOREM EachExactlyOnce == Spec => []ExactlyOnce
<1>1. Init => Places
  <2> SUFFICES ASSUME Init PROVE Places
    OBVIOUS
  <2>1. PassInv /\ Len(requests) = 0 /\ Len(results) = 0 /\ Busy = {}
    BY InitPass DEF Init, Busy, Querying
  <2> QED
    BY <2>1, Counted DEF Places, Counts
<1>2. ASSUME PassInv, Places PROVE ExactlyOnce
  <2>0. Counts
    BY <1>2, Counted
  <2> DEFINE hostOf == [w \in Busy |-> worker[w].host]
             answerOf == [i \in 1..Len(results) |-> results[i].host]
  <2>1. Waiting = (Received + 1)..queued
    <3>1. \A i \in 1..Len(requests) : requests[i] # Exit <=> i <= PendingHosts
      BY <1>2, <2>0 DEF PassInv, Balance, Counts
    <3>2. DOMAIN requests = 1..Len(requests)
      BY <1>2 DEF PassInv, TypeOK
    <3>3. Waiting = {requests[i] : i \in 1..PendingHosts}
      BY <1>2, <3>1, <3>2, <2>0 DEF Waiting, Counts
    <3>4. \A i \in 1..PendingHosts : requests[i] = Received + i
      BY <1>2 DEF Places
    <3>5. \A n \in (Received + 1)..queued : n - Received \in 1..PendingHosts /\ n = Received + (n - Received)
      BY <1>2, <2>0 DEF Counts
    <3>6. \A i \in 1..PendingHosts : Received + i \in (Received + 1)..queued
      BY <1>2, <2>0 DEF Counts
    <3> QED
      BY <3>3, <3>4, <3>5, <3>6
  <2>2. Cardinality(Waiting) = PendingHosts
    BY <1>2, <2>1, <2>0, FS_Interval DEF Counts
  <2>3. /\ \A w \in Busy : worker[w].host \in Int /\ worker[w].host <= Received
        /\ \A i \in 1..Len(results) : results[i].host \in Int /\ results[i].host <= Received
    <3>1. \A w \in Busy : worker[w].host \in Host
      BY <1>2 DEF PassInv, BusyWithHost
    <3>2. Host \subseteq Int
      BY ConstantTypes DEF Host
    <3> QED
      BY <1>2, <3>1, <3>2, ResultHosts DEF Places
  <2>4. Held = {hostOf[w] : w \in Busy} /\ hostOf \in [Busy -> Int]
    BY <2>3 DEF Held
  <2>5. Cardinality(Held) = Cardinality(Busy)
    <3>1. \A v, w \in Busy : hostOf[v] = hostOf[w] => v = w
      BY <1>2 DEF Places
    <3> HIDE DEF hostOf
    <3> QED
      BY <1>2, <2>4, <3>1, SameSize, GroupsAreFinite
  <2>6. Answered = {answerOf[i] : i \in 1..Len(results)} /\ answerOf \in [1..Len(results) -> Int]
    <3>1. DOMAIN results = 1..Len(results)
      BY <1>2 DEF PassInv, TypeOK
    <3> QED
      BY <2>3, <3>1 DEF Answered
  <2>7. Cardinality(Answered) = Len(results)
    <3>1. \A i, j \in 1..Len(results) : answerOf[i] = answerOf[j] => i = j
      BY <1>2 DEF Places
    <3>2. IsFiniteSet(1..Len(results)) /\ Cardinality(1..Len(results)) = Len(results)
      <4>1. Len(results) \in Nat
        BY <2>0 DEF Counts
      <4> QED
        BY <4>1, InitialSegment, Zenon
    <3> HIDE DEF answerOf
    <3> QED
      BY <2>6, <3>1, <3>2, SameSize
  <2>8. /\ Waiting \intersect Held = {} /\ Waiting \intersect Answered = {}
        /\ Held \intersect Answered = {}
    <3>1. \A n \in Waiting : n > Received
      BY <1>2, <2>1, <2>0 DEF Counts
    <3>2. \A n \in Held \union Answered : n \in Int /\ n <= Received
      BY <2>3, <2>4, <2>6
    <3>3. Held \intersect Answered = {}
      BY <1>2, <2>4, <2>6 DEF Places
    <3> QED
      BY <1>2, <3>1, <3>2, <3>3, <2>0 DEF Counts
  <2>9. Cardinality(Waiting) + Cardinality(Held) + Cardinality(Answered) + collected = queued
    BY <2>0, <2>2, <2>5, <2>7 DEF Counts, Received
  <2> QED
    BY <2>5, <2>8, <2>9 DEF ExactlyOnce
<1> QED
  BY <1>1, <1>2, NextPlaces, PassInvariant, PTL DEF Spec

(* A pass implements the safety part of PassContract: what its caller sees  *)
(* of a step is a step of the contract or nothing.                          *)
THEOREM ImplementsContractSafely == Spec => Contract!Safety
<1>1. Init => Contract!Init
  BY DEF Init, Contract!Init, collected
<1>2. ASSUME PassInv, [Next]_vars PROVE [Contract!Next]_(Contract!vars)
  <2> USE DEF Contract!Next, Contract!Work, Contract!vars
  <2>1. /\ queued \in Nat /\ successes \in Nat /\ failures \in Nat /\ collected \in Nat
        /\ queued <= Hosts /\ Hosts \in Nat
    BY <1>2, ConstantTypes DEF PassInv, TypeOK, collected
  <2>2. CASE UNCHANGED <<callerVars, canceled>>
    BY <2>2 DEF callerVars, collected
  <2>3. ASSUME NEW w \in Workers, Worker(w) PROVE UNCHANGED <<callerVars, canceled>>
    BY <2>3 DEF Worker, Receive, Dial, FinishExchange, Deliver
  <2>4. CASE CheckContext
    <3>1. collected' = collected /\ outcome = "none" /\ pc' # "returned" /\ pc = "check"
          /\ UNCHANGED <<queued, canceled>>
      BY <1>2, <2>4 DEF CheckContext, collected, PassInv, CallerStage
    <3>2. CASE pc' = "add" /\ queued = 0
      BY <2>1, <2>4, <3>1, <3>2 DEF CheckContext, Contract!Begin
    <3>3. CASE pc' # "add" \/ queued > 0
      BY <2>1, <3>1, <3>3
    <3> QED
      BY <2>1, <3>2, <3>3
  <2>5. CASE AddQuery
    BY <2>1, <2>5 DEF AddQuery, collected
  <2>6. CASE CollectResult
    <3>1. collected' = collected + 1 /\ collected # queued /\ queued = Hosts
      BY <1>2, <2>1, <2>6 DEF CollectResult, AllCollected, collected, PassInv, CallerStage
    <3>2. collected < Hosts
      <4>1. collected <= queued
        <5>1. Len(results) \in Nat
          BY <1>2 DEF PassInv, TypeOK
        <5>2. Len(requests) \in Nat
          BY <1>2 DEF PassInv, TypeOK
        <5>3. PendingHosts \in Nat
          BY <1>2, <5>2 DEF PassInv, Balance, PendingHosts
        <5>4. PendingHosts + Cardinality(Busy) + Len(results) + collected = queued
          BY <1>2 DEF PassInv, Balance
        <5> QED
          BY <2>1, <5>1, <5>3, <5>4, GroupsAreFinite
      <4> QED
        BY <2>1, <3>1, <4>1
    <3>3. pc = "collect" /\ UNCHANGED <<pc, queued, canceled, outcome>>
      BY <2>6 DEF CollectResult
    <3> QED
      BY <2>1, <3>1, <3>2, <3>3, ConstantTypes DEF Contract!Progress
  <2>7. CASE CollectCanceled \/ FinishPass
    BY <2>1, <2>7 DEF CollectCanceled, FinishPass, collected
  <2>8. CASE SendExit
    BY <2>8 DEF SendExit, collected
  <2>9. CASE Return
    <3>1. pc = "signal" /\ pc' = "returned" /\ collected' = collected
          /\ UNCHANGED <<queued, outcome, canceled>>
      BY <2>9 DEF Return, collected
    <3>2. \/ outcome = "ok" /\ collected = Hosts
          \/ outcome = "canceled" /\ canceled /\ collected < Hosts
      BY <1>2, <3>1 DEF PassInv, TypeOK, CallerStage
    <3> QED
      BY <3>1, <3>2 DEF Contract!Succeed, Contract!Abort
  <2>10. CASE Cancel
    BY <2>10 DEF Cancel, callerVars, collected, Contract!Cancel
  <2>11. CASE UNCHANGED vars
    BY <2>2, <2>11 DEF vars
  <2> QED
    BY <1>2, <2>2, <2>3, <2>4, <2>5, <2>6, <2>7, <2>8, <2>9, <2>10, <2>11
       DEF Next, Caller, Done
<1> QED
  BY <1>1, <1>2, PassInvariant, PTL DEF Spec, Contract!Safety
=============================================================================
