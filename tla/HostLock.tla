------------------------------ MODULE HostLock ------------------------------
(***************************************************************************)
(* Start-up, heartbeat and shutdown of code-bridge-host processes, and the *)
(* two files of a workspace's .code directory they coordinate through:     *)
(* code-bridge.lock and code-bridge.json (bin/code-bridge-host.js).        *)
(*                                                                         *)
(* Each step of a process is at most one file-system or socket call, so    *)
(* processes interleave between the calls of tryAcquireLock.  A file write *)
(* is two steps, because fs.writeFileSync truncates before it writes.      *)
(* Time advances in ticks of HEARTBEAT_INTERVAL_MS; a process that is not  *)
(* suspended runs its due timers before the next tick.                     *)
(***************************************************************************)
EXTENDS Integers, FiniteSets

CONSTANTS
  Proc,         \* host processes, named by pid; each is started at most once
  Workspace,    \* workspace directories
  WorkspaceOf,  \* the workspace each process is started in
  Port,         \* TCP ports, from preferredPort upwards
  StaleTicks,   \* HEARTBEAT_STALE_MS / HEARTBEAT_INTERVAL_MS
  NoFile,       \* the file does not exist
  Torn,         \* the file was truncated and its content not yet written
  None          \* no process, no port, no secret

ASSUME ConstantsAssumption ==
  /\ WorkspaceOf \in [Proc -> Workspace]
  /\ StaleTicks \in Nat \ {0}
  /\ Port \subseteq Nat
  /\ None \notin Proc \cup Port
  /\ NoFile \notin Proc
  /\ Torn \notin Proc \cup {NoFile}

(***************************************************************************)
(* A metadata file holds the writer's pid, port and secret.  A generated   *)
(* secret is named after the process that generated it.                    *)
(***************************************************************************)
Metadata == [pid : Proc, port : Port, secret : Proc]

ASSUME MetadataAssumption == {NoFile, Torn} \cap Metadata = {}

VARIABLES
  pc,         \* pc[p]: where process p stands
  seen,       \* seen[p]: the pid p read from the lock file
  port,       \* port[p]: the port findAvailablePort returned to p
  secret,     \* secret[p]: the secret p serves with
  alive,      \* pids for which process.kill(pid, 0) succeeds
  suspended,  \* processes that are not scheduled (sleep, SIGSTOP, debugger)
  due,        \* processes with an expired timer that has not run yet
  lock,       \* lock[w]: NoFile, Torn or the pid in code-bridge.lock
  meta,       \* meta[w]: NoFile, Torn or the content of code-bridge.json
  age,        \* age[w]: ticks since the heartbeatAt in meta[w]
  listening   \* listening[n]: the process bound to port n

procVars == <<pc, seen, port, secret>>
osVars   == <<alive, suspended>>
vars     == <<procVars, osVars, due, lock, meta, age, listening>>

Starting  == {"checking", "reading", "judging", "reclaiming", "locking", "writing"}
Preparing == {"probing", "publishing", "filling", "binding"}
Hosting   == {"serving", "beating"}
Leaving   == {"stopping", "leaving", "failing"}
Ended     == {"refused", "dead"}
Label     == {"idle"} \cup Starting \cup Preparing \cup Hosting \cup Leaving \cup Ended

Init ==
  /\ pc = [p \in Proc |-> "idle"]
  /\ seen = [p \in Proc |-> None]
  /\ port = [p \in Proc |-> None]
  /\ secret = [p \in Proc |-> None]
  /\ alive = {} /\ suspended = {} /\ due = {}
  /\ lock = [w \in Workspace |-> NoFile]
  /\ meta = [w \in Workspace |-> NoFile]
  /\ age = [w \in Workspace |-> 0]
  /\ listening = [n \in Port |-> None]

-----------------------------------------------------------------------------
(* Control and file-system helpers.                                        *)

MyLock(p) == lock[WorkspaceOf[p]]
MyMeta(p) == meta[WorkspaceOf[p]]

\* p, which is scheduled, moves from label a to label b.
Step(p, a, b) ==
  /\ pc[p] = a
  /\ p \notin suspended
  /\ pc' = [pc EXCEPT ![p] = b]

SetLock(p, v) == lock' = [lock EXCEPT ![WorkspaceOf[p]] = v]
SetMeta(p, v) == meta' = [meta EXCEPT ![WorkspaceOf[p]] = v]

\* existsSync then unlinkSync: whoever wrote the file, it is gone afterwards.
RemoveLock(p) == SetLock(p, NoFile)

\* Faulty: the generated secret is not written.
OwnMetadataSansSecret(p) == [pid |-> p, port |-> port[p], secret |-> None]

\* Faulty: the secret is a new one, whichever was loaded.
OwnMetadataNewSecret(p) == [pid |-> p, port |-> port[p], secret |-> p]

\* The metadata p writes, with a heartbeatAt of now.
OwnMetadata(p) == [pid |-> p, port |-> port[p], secret |-> secret[p]]
\* Faulty: the file is rewritten with the heartbeatAt of start-up.
WriteStaleMetadata(p) == SetMeta(p, OwnMetadata(p)) /\ age' = age /\ due' = due \ {p}

WriteOwnMetadata(p) ==
  /\ SetMeta(p, OwnMetadata(p))
  /\ age' = [age EXCEPT ![WorkspaceOf[p]] = 0]
  /\ due' = due \ {p}

\* The operating system ends p: its pid is free, its sockets and memory are gone
\* (secret[p] is kept: clients may still hold it).
Gone(p) ==
  /\ seen' = [seen EXCEPT ![p] = None]
  /\ port' = [port EXCEPT ![p] = None]
  /\ alive' = alive \ {p}
  /\ suspended' = suspended \ {p}
  /\ due' = due \ {p}
  /\ listening' = [n \in Port |-> IF listening[n] = p THEN None ELSE listening[n]]

\* Faulty: the age of the heartbeat is not looked at.
HeartbeatIgnored(w) == FALSE

\* The metadata is readable and older than HEARTBEAT_STALE_MS.
StaleMetadata(w) == meta[w] \in Metadata /\ age[w] > StaleTicks

FreePorts == {n \in Port : listening[n] = None}

-----------------------------------------------------------------------------
(* tryAcquireLock.                                                         *)

Start(p) ==
  /\ Step(p, "idle", "checking")
  /\ alive' = alive \cup {p}
  /\ UNCHANGED <<seen, port, secret, suspended, due, lock, meta, age, listening>>

CheckExists(p) ==
  /\ Step(p, "checking", IF MyLock(p) = NoFile THEN "locking" ELSE "reading")
  /\ UNCHANGED <<seen, port, secret, osVars, due, lock, meta, age, listening>>

ReadLock(p) ==
  /\ MyLock(p) \in Proc
  /\ Step(p, "reading", "judging")
  /\ seen' = [seen EXCEPT ![p] = MyLock(p)]
  /\ UNCHANGED <<port, secret, osVars, due, lock, meta, age, listening>>

\* The file vanished after existsSync, or does not parse: exit(1).
ReadLockFails(p) ==
  /\ MyLock(p) \notin Proc
  /\ Step(p, "reading", "refused")
  /\ Gone(p)
  /\ UNCHANGED <<secret, lock, meta, age>>

\* Faulty: metadata that does not parse counts as stale.
HolderRunsReadably(p) ==
  /\ seen[p] \in alive
  /\ MyMeta(p) \in Metadata /\ ~StaleMetadata(WorkspaceOf[p])

HolderRuns(p) == seen[p] \in alive /\ ~StaleMetadata(WorkspaceOf[p])

\* Faulty: the exit handler, which releases the lock, is registered already.
RefuseAndRelease(p) ==
  /\ HolderRuns(p)
  /\ Step(p, "judging", "refused")
  /\ RemoveLock(p) /\ Gone(p)
  /\ UNCHANGED <<secret, meta, age>>

Refuse(p) ==
  /\ HolderRuns(p)
  /\ Step(p, "judging", "refused")
  /\ Gone(p)
  /\ UNCHANGED <<secret, lock, meta, age>>

Reclaim(p) ==
  /\ ~HolderRuns(p)
  /\ Step(p, "judging", "reclaiming")
  /\ seen' = [seen EXCEPT ![p] = None]
  /\ UNCHANGED <<port, secret, osVars, due, lock, meta, age, listening>>

UnlinkStale(p) ==
  /\ Step(p, "reclaiming", "locking")
  /\ RemoveLock(p)
  /\ UNCHANGED <<seen, port, secret, osVars, due, meta, age, listening>>

OpenLock(p) ==
  /\ Step(p, "locking", "writing")
  /\ SetLock(p, Torn)
  /\ UNCHANGED <<seen, port, secret, osVars, due, meta, age, listening>>

WriteLock(p) ==
  /\ Step(p, "writing", "probing")
  /\ SetLock(p, p)
  /\ UNCHANGED <<seen, port, secret, osVars, due, meta, age, listening>>

-----------------------------------------------------------------------------
(* startServer after the lock: port, secret, metadata, listen.             *)

\* The lowest port on which the probe server could listen.
FindAvailablePort(p) ==
  /\ Step(p, "probing", "publishing")
  /\ \E n \in FreePorts :
       /\ \A m \in FreePorts : n <= m
       /\ port' = [port EXCEPT ![p] = n]
  /\ UNCHANGED <<seen, secret, osVars, due, lock, meta, age, listening>>

\* loadExistingSecret, then the truncation by writeMetadata's writeFileSync.
LoadSecretAndOpenMeta(p) ==
  /\ Step(p, "publishing", "filling")
  /\ secret' = [secret EXCEPT ![p] =
                  IF MyMeta(p) \in Metadata THEN MyMeta(p).secret ELSE p]
  /\ SetMeta(p, Torn)
  /\ UNCHANGED <<seen, port, osVars, due, lock, age, listening>>

PublishMeta(p) ==
  /\ Step(p, "filling", "binding")
  /\ WriteOwnMetadata(p)
  /\ UNCHANGED <<seen, port, secret, osVars, lock, listening>>

\* writeFileSync throws (disk full): startServer rejects, its catch handler runs.
PublishFails(p) ==
  /\ Step(p, "filling", "failing")
  /\ UNCHANGED <<seen, port, secret, osVars, due, lock, meta, age, listening>>

\* server.listen: when the port has been taken meanwhile, the error event only
\* reaches a handler that logs it, and the process goes on without a socket.
Listen(p) ==
  /\ Step(p, "binding", "serving")
  /\ listening' = IF listening[port[p]] = None
                    THEN [listening EXCEPT ![port[p]] = p] ELSE listening
  /\ UNCHANGED <<seen, port, secret, osVars, due, lock, meta, age>>

-----------------------------------------------------------------------------
(* The heartbeat timer.                                                    *)

OpenHeartbeat(p) ==
  /\ p \in due
  /\ Step(p, "serving", "beating")
  /\ SetMeta(p, Torn)
  /\ UNCHANGED <<seen, port, secret, osVars, due, lock, age, listening>>

WriteHeartbeat(p) ==
  /\ Step(p, "beating", "serving")
  /\ WriteOwnMetadata(p)
  /\ UNCHANGED <<seen, port, secret, osVars, lock, listening>>

\* The write throws and is logged; the file stays truncated.
HeartbeatFails(p) ==
  /\ Step(p, "beating", "serving")
  /\ due' = due \ {p}
  /\ UNCHANGED <<seen, port, secret, osVars, lock, meta, age, listening>>

-----------------------------------------------------------------------------
(* Shutdown, failure and exit.                                             *)

\* SIGINT or SIGTERM: the timers stop and server.close stops listening.
Shutdown(p) ==
  /\ Step(p, "serving", "stopping")
  /\ due' = due \ {p}
  /\ listening' = [n \in Port |-> IF listening[n] = p THEN None ELSE listening[n]]
  /\ UNCHANGED <<seen, port, secret, osVars, lock, meta, age>>

\* All connections have closed, or the 5 s timer forces the exit.
ShutdownRelease(p) ==
  /\ Step(p, "stopping", "leaving")
  /\ due' = due \ {p}
  /\ RemoveLock(p)
  /\ UNCHANGED <<seen, port, secret, osVars, meta, age, listening>>

\* process.exit runs the 'exit' handler, which releases the lock once more.
ExitRelease(p) ==
  /\ Step(p, "leaving", "dead")
  /\ RemoveLock(p)
  /\ Gone(p)
  /\ UNCHANGED <<secret, meta, age>>

\* The catch handler of startServer: releaseLock, exit(1).
FailRelease(p) ==
  /\ Step(p, "failing", "dead")
  /\ RemoveLock(p)
  /\ Gone(p)
  /\ UNCHANGED <<secret, meta, age>>

-----------------------------------------------------------------------------
(* The environment.                                                        *)

\* SIGKILL, power loss, or a signal before the handlers are registered.
Crash(p) ==
  /\ pc[p] \notin {"idle"} \cup Ended
  /\ pc' = [pc EXCEPT ![p] = "dead"]
  /\ Gone(p)
  /\ UNCHANGED <<secret, lock, meta, age>>

\* The operating system gives the pid of an ended host to another program.
ReusePid(p) ==
  /\ pc[p] \in Ended /\ p \notin alive
  /\ alive' = alive \cup {p}
  /\ UNCHANGED <<procVars, suspended, due, lock, meta, age, listening>>

Suspend(p) ==
  /\ pc[p] \notin {"idle"} \cup Ended /\ p \notin suspended
  /\ suspended' = suspended \cup {p}
  /\ UNCHANGED <<procVars, alive, due, lock, meta, age, listening>>

Resume(p) ==
  /\ p \in suspended
  /\ suspended' = suspended \ {p}
  /\ UNCHANGED <<procVars, alive, due, lock, meta, age, listening>>

\* Labels at which a process waits in its event loop, or does not run at all.
Waiting == {"idle", "probing", "serving", "stopping"} \cup Ended

\* One heartbeat interval: no scheduled process has work left, then timers expire.
Tick ==
  /\ \A p \in Proc \ suspended : pc[p] \in Waiting /\ p \notin due
  /\ age' = [w \in Workspace |-> IF age[w] <= StaleTicks THEN age[w] + 1 ELSE age[w]]
  /\ due' = due \cup {p \in Proc : pc[p] \in {"binding", "serving", "beating", "stopping"}}
  /\ UNCHANGED <<procVars, osVars, lock, meta, listening>>

Run(p) ==
  \/ CheckExists(p) \/ ReadLock(p) \/ ReadLockFails(p) \/ Refuse(p) \/ Reclaim(p)
  \/ UnlinkStale(p) \/ OpenLock(p) \/ WriteLock(p) \/ FindAvailablePort(p)
  \/ LoadSecretAndOpenMeta(p) \/ PublishMeta(p) \/ PublishFails(p) \/ Listen(p)
  \/ OpenHeartbeat(p) \/ WriteHeartbeat(p) \/ HeartbeatFails(p)
  \/ ShutdownRelease(p) \/ ExitRelease(p) \/ FailRelease(p)

Next ==
  \/ Tick
  \/ \E p \in Proc : \/ Run(p) \/ Start(p) \/ Shutdown(p)
                     \/ Crash(p) \/ ReusePid(p) \/ Suspend(p) \/ Resume(p)

Spec == Init /\ [][Next]_vars

\* Time passes, and the operating system runs whatever it has not suspended.
Fairness == WF_vars(Tick) /\ \A p \in Proc : WF_vars(Run(p))
FairSpec == Spec /\ Fairness

-----------------------------------------------------------------------------
(* Careful operation: nothing is suspended, and a host is started or       *)
(* stopped only while no other host of its workspace is starting or        *)
(* stopping.  Crashes, failed writes and reused pids remain.               *)

Settled == {"idle"} \cup Hosting \cup Ended

Quiet(p) ==
  \A q \in Proc \ {p} : WorkspaceOf[q] = WorkspaceOf[p] => pc[q] \in Settled

CarefulNext ==
  \/ Tick
  \/ \E p \in Proc : \/ Run(p) \/ Crash(p) \/ ReusePid(p)
                     \/ Quiet(p) /\ Start(p)
                     \/ Quiet(p) /\ Shutdown(p)

CarefulSpec == Init /\ [][CarefulNext]_vars

-----------------------------------------------------------------------------
(* Properties.                                                             *)

\* Every variable has its type.
TypeOK ==
  /\ pc \in [Proc -> Label]
  /\ seen \in [Proc -> Proc \cup {None}]
  /\ port \in [Proc -> Port \cup {None}]
  /\ secret \in [Proc -> Proc \cup {None}]
  /\ alive \subseteq Proc /\ suspended \subseteq Proc /\ due \subseteq Proc
  /\ lock \in [Workspace -> Proc \cup {NoFile, Torn}]
  /\ meta \in [Workspace -> Metadata \cup {NoFile, Torn}]
  /\ age \in [Workspace -> 0 .. StaleTicks + 1]
  /\ listening \in [Port -> Proc \cup {None}]

\* At most one process hosts a workspace: the "singleton WebSocket server per
\* workspace" of the documentation.  It holds under CarefulSpec, not under Spec.
SingleHost ==
  \A p, q \in Proc :
    /\ pc[p] \in Hosting /\ pc[q] \in Hosting
    /\ WorkspaceOf[p] = WorkspaceOf[q]
    => p = q

\* The lock file names the process that hosts the workspace, so that the next
\* start finds it: no reclaim, and no release by another process, removed it.
LockNamesHost ==
  \A p \in Proc : pc[p] \in Hosting => MyLock(p) = p

\* Whoever finds readable metadata in a hosted workspace finds the port on which the
\* host listens and the secret it accepts: what bridges read to connect is not left over
\* from an earlier host, nor written by another.  It holds for one workspace; hosts of
\* two may race for a port.
MetadataLeadsToHost ==
  \A p \in Proc : pc[p] \in Hosting /\ MyMeta(p) \in Metadata =>
    /\ MyMeta(p) = [pid |-> p, port |-> port[p], secret |-> secret[p]]
    /\ listening[port[p]] = p

\* No process of w runs, and its lock file is there.
Abandoned(w) ==
  /\ lock[w] # NoFile
  /\ \A p \in Proc : WorkspaceOf[p] = w => pc[p] \in {"idle"} \cup Ended

\* A process that now ran tryAcquireLock in w would get the lock.
Acquirable(w) ==
  \/ lock[w] = NoFile
  \/ lock[w] \in Proc /\ (lock[w] \notin alive \/ StaleMetadata(w))

\* A lock left by a dead host is cleared by a later start, at the latest when its
\* heartbeat has become stale, provided both files were written completely: even
\* when another program has been given the dead host's pid.
CompleteLockReclaimable ==
  \A w \in Workspace :
    Abandoned(w) /\ lock[w] \in Proc /\ meta[w] \in Metadata
      ~> Acquirable(w) \/ ~Abandoned(w)

=============================================================================
