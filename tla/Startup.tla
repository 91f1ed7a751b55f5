------------------------------ MODULE Startup -------------------------------
(***************************************************************************)
(* The two kinds of rilld process (main.rs): control processes, which      *)
(* answer on the public sockets (proxy.rs, run_control), and workers,      *)
(* which hold the shells (lib.rs, Daemon::bind).  A control that finds no  *)
(* worker spawns one; a worker takes a file lock before it touches the     *)
(* socket path, a control does not.                                        *)
(*                                                                         *)
(* Each control has a worker of the same name, the one it may spawn.  A    *)
(* path holds the name of the live process whose socket lies there, or     *)
(* Stale, the file of one that ended.  The cold sockets of a process are   *)
(* bound with its first one.                                               *)
(***************************************************************************)
EXTENDS Integers, FiniteSets

CONSTANTS
  Controls,
  None, Stale,
  MaxStarts,    \* control processes ever started
  MaxCrashes    \* processes ever killed

ASSUME StartupAssumption ==
  /\ None \notin Controls /\ Stale \notin Controls
  /\ {MaxStarts, MaxCrashes} \subseteq Nat

VARIABLES
  control,      \* what each control is at in run_control
  worker,       \* what each worker is at in Daemon::bind
  lock,         \* the worker that holds the lock file
  workerPath,   \* the worker whose socket lies at the worker path
  publicPath,   \* the control whose socket lies at the public path
  starts, crashes

procVars == <<control, worker, lock, workerPath, publicPath, starts, crashes>>

\* Nothing runs; a reboot may have left socket files.
StartupInit ==
  /\ control = [c \in Controls |-> "off"]
  /\ worker = [w \in Controls |-> "off"]
  /\ lock = None
  /\ workerPath \in {None, Stale} /\ publicPath \in {None, Stale}
  /\ starts = 0 /\ crashes = 0

\* connect succeeds when the file there is of a process that listens.
WorkerAlive == workerPath \notin {None, Stale}
PublicAlive == publicPath \notin {None, Stale}

ControlAt(c, from, to) == control[c] = from /\ control' = [control EXCEPT ![c] = to]
WorkerAt(w, from, to) == worker[w] = from /\ worker' = [worker EXCEPT ![w] = to]

(***************************************************************************)
(* run_control                                                             *)
(***************************************************************************)

StartControl(c) ==
  /\ starts < MaxStarts /\ starts' = starts + 1
  /\ ControlAt(c, "off", "find_worker")
  /\ UNCHANGED <<worker, lock, workerPath, publicPath, crashes>>

\* The worker an earlier start spawned under this name has settled by then.
FindWorker(c) ==
  /\ IF WorkerAlive
     THEN ControlAt(c, "find_worker", "look") /\ UNCHANGED worker
     ELSE /\ ControlAt(c, "find_worker", "await_worker")
          /\ worker[c] = "off"
          /\ worker' = [worker EXCEPT ![c] = "start"]
  /\ UNCHANGED <<lock, workerPath, publicPath, starts, crashes>>

\* spawn_worker polls for five seconds.
AwaitWorker(c) ==
  /\ WorkerAlive /\ ControlAt(c, "await_worker", "look")
  /\ UNCHANGED <<worker, lock, workerPath, publicPath, starts, crashes>>

WorkerMissing(c) ==
  /\ ~WorkerAlive /\ ControlAt(c, "await_worker", "off")
  /\ UNCHANGED <<worker, lock, workerPath, publicPath, starts, crashes>>

\* exists, then connect, then remove_file, then bind: four steps.
Look(c) ==
  /\ ControlAt(c, "look", IF publicPath = None THEN "bind" ELSE "probe")
  /\ UNCHANGED <<worker, lock, workerPath, publicPath, starts, crashes>>

ProbePublic(c) ==
  /\ ControlAt(c, "probe", IF PublicAlive THEN "off" ELSE "remove")
  /\ UNCHANGED <<worker, lock, workerPath, publicPath, starts, crashes>>

RemovePublic(c) ==
  /\ ControlAt(c, "remove", "bind")
  /\ publicPath' = None
  /\ UNCHANGED <<worker, lock, workerPath, starts, crashes>>

BindPublic(c) ==
  /\ ControlAt(c, "bind", IF publicPath = None THEN "serve" ELSE "off")
  /\ publicPath' = IF publicPath = None THEN c ELSE publicPath
  /\ UNCHANGED <<worker, lock, workerPath, starts, crashes>>

(***************************************************************************)
(* Daemon::bind in a worker                                                *)
(***************************************************************************)

\* The lock is tried without waiting and its failure ends the worker.
TakeLockNever(w) ==
  /\ WorkerAt(w, "start", "locked") /\ lock' = lock
  /\ UNCHANGED <<control, workerPath, publicPath, starts, crashes>>

TakeLock(w) ==
  /\ WorkerAt(w, "start", IF lock = None THEN "locked" ELSE "off")
  /\ lock' = IF lock = None THEN w ELSE lock
  /\ UNCHANGED <<control, workerPath, publicPath, starts, crashes>>

\* Under the lock a file at the path is stale unless somebody answers.
LookAtWorkerPath(w) ==
  /\ WorkerAt(w, "locked", IF workerPath = None THEN "bind"
                           ELSE IF WorkerAlive THEN "off" ELSE "remove")
  /\ lock' = IF WorkerAlive THEN None ELSE lock
  /\ UNCHANGED <<control, workerPath, publicPath, starts, crashes>>

RemoveWorkerPath(w) ==
  /\ WorkerAt(w, "remove", "bind")
  /\ workerPath' = None
  /\ UNCHANGED <<control, lock, publicPath, starts, crashes>>

BindWorker(w) ==
  /\ WorkerAt(w, "bind", IF workerPath = None THEN "serve" ELSE "off")
  /\ workerPath' = IF workerPath = None THEN w ELSE workerPath
  /\ lock' = IF workerPath = None \/ lock # w THEN lock ELSE None
  /\ UNCHANGED <<control, publicPath, starts, crashes>>

(***************************************************************************)
(* Ends.  A kill leaves the socket file and frees the lock.  A worker      *)
(* whose loop fails removes its files first (Drop for Daemon).             *)
(***************************************************************************)

KillControl(c) ==
  /\ crashes < MaxCrashes /\ crashes' = crashes + 1
  /\ control[c] # "off" /\ control' = [control EXCEPT ![c] = "off"]
  /\ publicPath' = IF publicPath = c THEN Stale ELSE publicPath
  /\ UNCHANGED <<worker, lock, workerPath, starts>>

EndWorker(w, clean) ==
  /\ crashes < MaxCrashes /\ crashes' = crashes + 1
  /\ worker[w] # "off" /\ (clean => worker[w] = "serve")
  /\ worker' = [worker EXCEPT ![w] = "off"]
  /\ lock' = IF lock = w THEN None ELSE lock
  /\ workerPath' = IF clean THEN None ELSE IF workerPath = w THEN Stale ELSE workerPath
  /\ UNCHANGED <<control, publicPath, starts>>

ControlStep(c) ==
  \/ FindWorker(c) \/ AwaitWorker(c) \/ Look(c) \/ ProbePublic(c)
  \/ RemovePublic(c) \/ BindPublic(c)
WorkerStep(w) ==
  \/ TakeLock(w) \/ LookAtWorkerPath(w) \/ RemoveWorkerPath(w) \/ BindWorker(w)

=============================================================================
