------------------------- MODULE InstanceGuardProofs ------------------------
(***************************************************************************)
(* Theorems about InstanceGuard, for any number of launches.  Everything   *)
(* follows from who may hold the lock and whose URL the file may contain.  *)
(***************************************************************************)
EXTENDS InstanceGuard, TLAPS

(* The lock is held by the one program between its lock and its release. *)
LockIsHeld == \A p \in Procs : Holding(p) <=> lock = p

(* A URL in the file is that of a program that holds the lock or crashed. *)
FileIsKnown == file \in Procs => Holding(file) \/ pc[file] = "crashed"

(* A program that is about to drop the lock has removed the file. *)
FileIsRemoved == \A p \in Procs : pc[p] = "releasing" => file = "absent"

(* A launch that has not read the file yet has opened nothing. *)
NothingOpened == \A p \in Procs : pc[p] = "denied" => opened[p] = NoProc
Untouched == \A p \in Procs : pc[p] = "none" => opened[p] = NoProc

GuardInv == /\ TypeOK /\ LockIsHeld /\ FileIsKnown
            /\ FileIsRemoved /\ NothingOpened /\ Untouched

-----------------------------------------------------------------------------
LEMMA InitGuard == Init => GuardInv
BY GuardAssumption
   DEF Init, GuardInv, TypeOK, LockIsHeld, FileIsKnown, FileIsRemoved, NothingOpened,
       Untouched, Holding

(* The steps of a launch that leave the lock and the file alone. *)
LEMMA QuietSteps ==
  ASSUME GuardInv, NEW p \in Procs, OpenRunning(p) \/ Listen(p)
  PROVE  GuardInv'
<1>1. TypeOK'
  BY DEF GuardInv, TypeOK, OpenRunning, Listen, Goto
<1>2. LockIsHeld'
  BY DEF GuardInv, TypeOK, LockIsHeld, Holding, OpenRunning, Listen, Goto
<1>3. FileIsKnown'
  BY DEF GuardInv, TypeOK, FileIsKnown, Holding, OpenRunning, Listen, Goto
<1>4. FileIsRemoved' /\ NothingOpened' /\ Untouched'
  BY DEF GuardInv, TypeOK, FileIsRemoved, NothingOpened, Untouched, OpenRunning, Listen, Goto
<1> QED
  BY <1>1, <1>2, <1>3, <1>4 DEF GuardInv

LEMMA LaunchStep ==
  ASSUME GuardInv, NEW p \in Procs, Launch(p)
  PROVE  GuardInv'
<1>1. TypeOK'
  BY DEF GuardInv, TypeOK, Launch, Goto
<1>2. LockIsHeld'
  BY GuardAssumption DEF GuardInv, TypeOK, LockIsHeld, Holding, Launch, Goto
<1>3. FileIsKnown'
  BY DEF GuardInv, TypeOK, FileIsKnown, Holding, Launch, Goto
<1>4. FileIsRemoved' /\ NothingOpened' /\ Untouched'
  BY DEF GuardInv, TypeOK, FileIsRemoved, NothingOpened, Untouched, Launch, Goto
<1> QED
  BY <1>1, <1>2, <1>3, <1>4 DEF GuardInv

(* Only the holder writes the file: nobody else is about to release. *)
LEMMA WriteStep ==
  ASSUME GuardInv, NEW p \in Procs, Truncate(p) \/ Write(p)
  PROVE  GuardInv'
<1>1. TypeOK'
  BY DEF GuardInv, TypeOK, Truncate, Write, Goto
<1>2. LockIsHeld'
  BY DEF GuardInv, TypeOK, LockIsHeld, Holding, Truncate, Write, Goto
<1>3. FileIsKnown'
  BY GuardAssumption DEF GuardInv, TypeOK, FileIsKnown, Holding, Truncate, Write, Goto
<1>4. FileIsRemoved'
  BY DEF GuardInv, TypeOK, LockIsHeld, Holding, FileIsRemoved, Truncate, Write, Goto
<1>5. NothingOpened' /\ Untouched'
  BY DEF GuardInv, TypeOK, NothingOpened, Untouched, Truncate, Write, Goto
<1> QED
  BY <1>1, <1>2, <1>3, <1>4, <1>5 DEF GuardInv

LEMMA ReleaseStep ==
  ASSUME GuardInv, NEW p \in Procs, Release(p)
  PROVE  GuardInv'
<1>1. TypeOK'
  BY DEF GuardInv, TypeOK, Release, Goto
<1>2. LockIsHeld'
  BY GuardAssumption DEF GuardInv, TypeOK, LockIsHeld, Holding, Release, Goto
<1>3. FileIsKnown'
  BY GuardAssumption
     DEF GuardInv, TypeOK, FileIsKnown, FileIsRemoved, Holding, Release, Goto
<1>4. FileIsRemoved' /\ NothingOpened' /\ Untouched'
  BY DEF GuardInv, TypeOK, FileIsRemoved, NothingOpened, Untouched, Release, Goto
<1> QED
  BY <1>1, <1>2, <1>3, <1>4 DEF GuardInv

LEMMA CrashStep ==
  ASSUME GuardInv, NEW p \in Procs, Crash(p)
  PROVE  GuardInv'
<1>1. TypeOK'
  BY DEF GuardInv, TypeOK, Crash, Goto
<1>2. LockIsHeld'
  BY GuardAssumption DEF GuardInv, TypeOK, LockIsHeld, Holding, Crash, Goto
<1>3. FileIsKnown'
  BY DEF GuardInv, TypeOK, FileIsKnown, Holding, Crash, Goto
<1>4. FileIsRemoved' /\ NothingOpened' /\ Untouched'
  BY DEF GuardInv, TypeOK, FileIsRemoved, NothingOpened, Untouched, Crash, Goto
<1> QED
  BY <1>1, <1>2, <1>3, <1>4 DEF GuardInv

LEMMA NextGuard == GuardInv /\ [Next]_vars => GuardInv'
<1> SUFFICES ASSUME GuardInv, [Next]_vars PROVE GuardInv'
  OBVIOUS
<1>1. CASE UNCHANGED vars
  BY <1>1 DEF vars, GuardInv, TypeOK, LockIsHeld, FileIsKnown, FileIsRemoved,
              NothingOpened, Untouched, Holding
<1>2. ASSUME NEW p \in Procs, Process(p) \/ Crash(p) PROVE GuardInv'
  BY <1>2, QuietSteps, LaunchStep, WriteStep, ReleaseStep, CrashStep DEF Process
<1> QED
  BY <1>1, <1>2 DEF Next

LEMMA GuardInvariant == Spec => []GuardInv
BY InitGuard, NextGuard, PTL DEF Spec

-----------------------------------------------------------------------------
(* Lock, file and launches keep to their types. *)
THEOREM TypeCorrect == Spec => []TypeOK
<1>1. GuardInv => TypeOK
  BY DEF GuardInv
<1> QED
  BY <1>1, GuardInvariant, PTL

(* Of any number of launches at most one serves at a time, whatever crashed. *)
THEOREM OneInstance == Spec => []SingleInstance
<1>1. GuardInv => SingleInstance
  BY DEF GuardInv, LockIsHeld, SingleInstance
<1> QED
  BY <1>1, GuardInvariant, PTL

(* While a program serves, nobody overwrites or removes its entry. *)
THEOREM FileIsStable == Spec => FileKeepsServer
<1>1. GuardInv /\ [Next]_vars
        => [\A p \in Procs : file = p /\ pc[p] = "serving" /\ pc'[p] = "serving"
                               => file' = p]_vars
  <2> SUFFICES ASSUME GuardInv, NEW p \in Procs, file = p, pc[p] = "serving",
                      pc'[p] = "serving", NEW q \in Procs, Process(q) \/ Crash(q)
               PROVE  file' = p
    BY DEF Next
  <2>1. lock = p
    BY DEF GuardInv, LockIsHeld, Holding
  <2>2. CASE Launch(q) \/ OpenRunning(q) \/ Listen(q) \/ Crash(q)
    BY <2>2 DEF Launch, OpenRunning, Listen, Crash
  <2>3. CASE Truncate(q) \/ Write(q) \/ Release(q)
    <3>1. q = p
      BY <2>1, <2>3 DEF GuardInv, LockIsHeld, Holding, Truncate, Write, Release
    <3> QED
      BY <2>3, <3>1 DEF GuardInv, TypeOK, Truncate, Write, Release, Goto
  <2> QED
    BY <2>2, <2>3 DEF Process
<1> QED
  BY <1>1, GuardInvariant, PTL DEF Spec, FileKeepsServer

(* A URL that is opened belongs to a program that runs or has crashed. *)
THEOREM MisledByCrashOnly == Spec => OnlyCrashesMislead
<1>1. GuardInv /\ [Next]_vars
        => [\A p \in Procs : opened'[p] # opened[p] =>
              Holding(opened'[p]) \/ pc[opened'[p]] = "crashed"]_vars
  <2> SUFFICES ASSUME GuardInv, NEW p \in Procs, opened'[p] # opened[p],
                      NEW q \in Procs, Process(q) \/ Crash(q)
               PROVE  Holding(opened'[p]) \/ pc[opened'[p]] = "crashed"
    BY DEF Next
  <2>1. OpenRunning(q)
    BY DEF Process, Launch, Listen, Truncate, Write, Release, Crash
  <2>2. q = p /\ opened[p] = NoProc
    BY <2>1 DEF GuardInv, TypeOK, NothingOpened, OpenRunning
  <2>3. file \in Procs /\ opened'[p] = file
    BY <2>1, <2>2 DEF GuardInv, TypeOK, OpenRunning
  <2> QED
    BY <2>3 DEF GuardInv, FileIsKnown
<1> QED
  BY <1>1, GuardInvariant, PTL DEF Spec, OnlyCrashesMislead
=============================================================================
