--------------------------- MODULE InstanceGuard ----------------------------
(***************************************************************************)
(* The single-instance guard: instance.go and its use in main.             *)
(*                                                                         *)
(* Every launch of the program tries an exclusive file lock.  The winner   *)
(* listens, writes its URL to instance.json and serves; when main returns  *)
(* it removes the file and releases the lock.  A loser reads the file and  *)
(* opens the URL it finds in the browser.  A crash, a kill or log.Fatalf   *)
(* ends a process without the deferred Release: the operating system drops *)
(* its lock, the file stays.                                               *)
(*                                                                         *)
(* A URL is represented by the process it belongs to (every process has a  *)
(* random base path).  os.WriteFile truncates before it writes, so a       *)
(* reader may find a file it cannot parse.                                 *)
(***************************************************************************)
EXTENDS Naturals

CONSTANTS Procs,          \* the launches of the program
          NoProc          \* nobody; no URL

ASSUME GuardAssumption == {NoProc, "absent", "torn"} \intersect Procs = {}

VARIABLES lock,           \* the holder of instance.lock
          file,           \* instance.json: "absent", "torn", or the URL in it
          pc,             \* where each launch is
          opened          \* the URL a launch has opened instead of serving

vars == <<lock, file, pc, opened>>

(* Types; the file is absent, torn, or holds the URL of a launch. *)
TypeOK == /\ lock \in Procs \union {NoProc}
          /\ file \in Procs \union {"absent", "torn"}
          /\ pc \in [Procs -> {"none", "locked", "listening", "writing", "serving",
                               "releasing", "denied", "gone", "crashed"}]
          /\ opened \in [Procs -> Procs \union {NoProc}]

Init == /\ lock = NoProc /\ file = "absent"
        /\ pc = [p \in Procs |-> "none"]
        /\ opened = [p \in Procs |-> NoProc]

Goto(p, there) == pc' = [pc EXCEPT ![p] = there]

(* Mutant: the result of TryLock is not looked at. *)
LaunchAnyway(p) ==
  /\ pc[p] = "none" /\ Goto(p, "locked")
  /\ lock' = p
  /\ UNCHANGED <<file, opened>>

(* acquireInstanceGuard: TryLock. *)
Launch(p) ==
  /\ pc[p] = "none"
  /\ \/ lock = NoProc /\ lock' = p /\ Goto(p, "locked")
     \/ lock # NoProc /\ lock' = lock /\ Goto(p, "denied")
  /\ UNCHANGED <<file, opened>>

(* acquireInstanceGuard, continued: readInstanceState, then openBrowser.   *)
(* Without a readable file the launch ends with an error message.          *)
OpenRunning(p) ==
  /\ pc[p] = "denied" /\ Goto(p, "gone")
  /\ opened' = [opened EXCEPT ![p] = IF file \in Procs THEN file ELSE NoProc]
  /\ UNCHANGED <<lock, file>>

(* net.Listen; its failure is a Fatalf, see Crash. *)
Listen(p) ==
  /\ pc[p] = "locked" /\ Goto(p, "listening")
  /\ UNCHANGED <<lock, file, opened>>

(* WriteState; its failure is logged and the program serves all the same. *)
Truncate(p) ==
  /\ pc[p] = "listening"
  /\ \/ Goto(p, "writing") /\ file' = "torn"
     \/ Goto(p, "serving") /\ file' = file
  /\ UNCHANGED <<lock, opened>>

Write(p) ==
  /\ pc[p] = "writing" /\ Goto(p, "serving")
  /\ file' \in {p, "torn"}
  /\ UNCHANGED <<lock, opened>>

(* Mutants: the lock goes first; the file stays; the file is emptied. *)
ReleaseLockFirst(p) ==
  /\ \/ pc[p] = "serving" /\ Goto(p, "releasing") /\ lock' = NoProc /\ file' = file
     \/ pc[p] = "releasing" /\ Goto(p, "gone") /\ file' = "absent" /\ lock' = lock
  /\ UNCHANGED opened

ReleaseLockOnly(p) ==
  /\ pc[p] = "serving" /\ Goto(p, "gone")
  /\ lock' = NoProc
  /\ UNCHANGED <<file, opened>>

(* The deferred Release: first the file goes, then the lock. *)
Release(p) ==
  /\ \/ /\ pc[p] = "serving" /\ Goto(p, "releasing")
        /\ file' = "absent" /\ lock' = lock
     \/ /\ pc[p] = "releasing" /\ Goto(p, "gone")
        /\ lock' = NoProc /\ file' = file
  /\ UNCHANGED opened

(* A crash, a kill or a log.Fatalf. *)
Crash(p) ==
  /\ pc[p] \notin {"none", "gone", "crashed"} /\ Goto(p, "crashed")
  /\ lock' = IF lock = p THEN NoProc ELSE lock
  /\ UNCHANGED <<file, opened>>

Process(p) == \/ Launch(p) \/ OpenRunning(p) \/ Listen(p) \/ Truncate(p)
              \/ Write(p) \/ Release(p)

Next == \E p \in Procs : Process(p) \/ Crash(p)

Spec == Init /\ [][Next]_vars

-----------------------------------------------------------------------------
Holding(p) == pc[p] \in {"locked", "listening", "writing", "serving", "releasing"}

(* "Added a single-instance guard ... instead of starting a second copy":   *)
(* of all launches at most one is between the lock and its release, however *)
(* the others crashed or ended.                                             *)
SingleInstance == \A p, q \in Procs : Holding(p) /\ Holding(q) => p = q

(* Once the file names the program that serves, it goes on naming it until  *)
(* that program ends: no other launch, late release or crash overwrites or  *)
(* removes it, so that every launch in between finds the running program.   *)
FileKeepsServer ==
  [][\A p \in Procs : file = p /\ pc[p] = "serving" /\ pc'[p] = "serving" => file' = p]_vars

(* A launch opens the URL of a program that is not running only if that     *)
(* program crashed: a clean end leaves no URL behind, and a half-written    *)
(* one is never opened.                                                     *)
OnlyCrashesMislead ==
  [][\A p \in Procs : opened'[p] # opened[p] =>
       Holding(opened'[p]) \/ pc[opened'[p]] = "crashed"]_vars

(* "re-launching opens the already running app": while a program runs, a    *)
(* launch that is denied and opens a URL opens that of the running program. *)
RelaunchOpensRunning ==
  [][\A p \in Procs : opened'[p] # opened[p] /\ lock # NoProc => opened'[p] = lock]_vars
=============================================================================
