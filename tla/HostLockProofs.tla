--------------------------- MODULE HostLockProofs ---------------------------
(***************************************************************************)
(* Theorems about HostLock, for every set of processes and workspaces and  *)
(* every StaleTicks > 0.                                                   *)
(***************************************************************************)
EXTENDS HostHistory, TLAPS

-----------------------------------------------------------------------------
(* Types.  A process that writes metadata has a port and a secret.         *)

Published == {"filling", "binding"} \cup Hosting

TypeInv ==
  /\ TypeOK
  /\ \A p \in Proc : pc[p] \in {"publishing"} \cup Published => port[p] \in Port
  /\ \A p \in Proc : pc[p] \in Published => secret[p] \in Proc

LEMMA TypeStep == TypeInv /\ [Next]_vars => TypeInv'
  <1> SUFFICES ASSUME TypeInv, [Next]_vars PROVE TypeInv'
    OBVIOUS
  <1> USE ConstantsAssumption
      DEF TypeInv, TypeOK, Published, Label, Starting, Preparing, Hosting, Leaving,
         Ended
  <1>1. CASE Tick
    BY <1>1 DEF Tick, Waiting, procVars, osVars
  <1>2. ASSUME NEW p \in Proc, CheckExists(p) PROVE TypeInv'
    BY <1>2 DEF CheckExists, Step, MyLock, osVars
  <1>3. ASSUME NEW p \in Proc, ReadLock(p) PROVE TypeInv'
    BY <1>3 DEF ReadLock, Step, MyLock, osVars
  <1>4. ASSUME NEW p \in Proc, ReadLockFails(p) PROVE TypeInv'
    BY <1>4 DEF ReadLockFails, Step, Gone
  <1>5. ASSUME NEW p \in Proc, Refuse(p) PROVE TypeInv'
    BY <1>5 DEF Refuse, Step, Gone
  <1>6. ASSUME NEW p \in Proc, Reclaim(p) PROVE TypeInv'
    BY <1>6 DEF Reclaim, Step, osVars
  <1>7. ASSUME NEW p \in Proc, UnlinkStale(p) PROVE TypeInv'
    BY <1>7 DEF UnlinkStale, Step, RemoveLock, SetLock, osVars
  <1>8. ASSUME NEW p \in Proc, OpenLock(p) PROVE TypeInv'
    BY <1>8 DEF OpenLock, Step, SetLock, osVars
  <1>9. ASSUME NEW p \in Proc, WriteLock(p) PROVE TypeInv'
    BY <1>9 DEF WriteLock, Step, SetLock, osVars
  <1>10. ASSUME NEW p \in Proc, FindAvailablePort(p) PROVE TypeInv'
    BY <1>10 DEF FindAvailablePort, Step, FreePorts, osVars
  <1>11. ASSUME NEW p \in Proc, LoadSecretAndOpenMeta(p) PROVE TypeInv'
    BY <1>11 DEF LoadSecretAndOpenMeta, Step, SetMeta, MyMeta, osVars, Metadata
  <1>12. ASSUME NEW p \in Proc, PublishMeta(p) PROVE TypeInv'
    BY <1>12 DEF PublishMeta, Step, WriteOwnMetadata, SetMeta, OwnMetadata, osVars,
       Metadata
  <1>13. ASSUME NEW p \in Proc, PublishFails(p) PROVE TypeInv'
    BY <1>13 DEF PublishFails, Step, osVars
  <1>14. ASSUME NEW p \in Proc, Listen(p) PROVE TypeInv'
    BY <1>14 DEF Listen, Step, osVars
  <1>15. ASSUME NEW p \in Proc, OpenHeartbeat(p) PROVE TypeInv'
    BY <1>15 DEF OpenHeartbeat, Step, SetMeta, osVars
  <1>16. ASSUME NEW p \in Proc, WriteHeartbeat(p) PROVE TypeInv'
    BY <1>16 DEF WriteHeartbeat, Step, WriteOwnMetadata, SetMeta, OwnMetadata,
       osVars, Metadata
  <1>17. ASSUME NEW p \in Proc, HeartbeatFails(p) PROVE TypeInv'
    BY <1>17 DEF HeartbeatFails, Step, osVars
  <1>18. ASSUME NEW p \in Proc, ShutdownRelease(p) PROVE TypeInv'
    BY <1>18 DEF ShutdownRelease, Step, RemoveLock, SetLock, osVars
  <1>19. ASSUME NEW p \in Proc, ExitRelease(p) PROVE TypeInv'
    BY <1>19 DEF ExitRelease, Step, RemoveLock, SetLock, Gone
  <1>20. ASSUME NEW p \in Proc, FailRelease(p) PROVE TypeInv'
    BY <1>20 DEF FailRelease, Step, RemoveLock, SetLock, Gone
  <1>21. ASSUME NEW p \in Proc, Start(p) PROVE TypeInv'
    BY <1>21 DEF Start, Step
  <1>22. ASSUME NEW p \in Proc, Shutdown(p) PROVE TypeInv'
    BY <1>22 DEF Shutdown, Step, osVars
  <1>23. ASSUME NEW p \in Proc, Crash(p) PROVE TypeInv'
    BY <1>23 DEF Crash, Gone
  <1>24. ASSUME NEW p \in Proc, ReusePid(p) PROVE TypeInv'
    BY <1>24 DEF ReusePid, procVars
  <1>25. ASSUME NEW p \in Proc, Suspend(p) PROVE TypeInv'
    BY <1>25 DEF Suspend, procVars
  <1>26. ASSUME NEW p \in Proc, Resume(p) PROVE TypeInv'
    BY <1>26 DEF Resume, procVars
  <1>27. CASE UNCHANGED vars
    BY <1>27 DEF vars, procVars, osVars
  <1> QED
    BY <1>1, <1>2, <1>3, <1>4, <1>5, <1>6, <1>7, <1>8, <1>9, <1>10, <1>11, <1>12,
       <1>13, <1>14, <1>15, <1>16, <1>17, <1>18, <1>19, <1>20, <1>21, <1>22, <1>23,
       <1>24, <1>25, <1>26, <1>27 DEF Next, Run

\* TypeOK is an invariant of every behaviour.
THEOREM TypeCorrect == Spec => []TypeOK
  <1>1. Init => TypeInv
    BY ConstantsAssumption DEF Init, TypeInv, TypeOK, Label, Published, Hosting
  <1>2. TypeInv => TypeOK
    BY DEF TypeInv
  <1> QED
    BY <1>1, <1>2, TypeStep, PTL DEF Spec

-----------------------------------------------------------------------------
(* A healthy host's own metadata is fresh.                                 *)

Running == Label \ ({"idle"} \cup Ended)

\* p's metadata is what the file of p's workspace holds.
OwnsMeta(p) == meta[WorkspaceOf[p]] \in Metadata /\ meta[WorkspaceOf[p]].pid = p

FreshInv ==
  /\ TypeInv
  /\ \A p \in Proc : pc[p] \in Running => p \in alive
  /\ \A w \in Workspace : lock[w] \in Proc => WorkspaceOf[lock[w]] = w
  /\ \A p \in Proc : seen[p] \in Proc => WorkspaceOf[seen[p]] = WorkspaceOf[p]
  /\ \A p \in Proc :
       pc[p] \in {"idle", "probing", "publishing", "filling", "beating"} \cup Starting
         => ~OwnsMeta(p)
  /\ \A p \in Proc :
       pc[p] \in {"binding", "serving"} /\ OwnsMeta(p) /\ p \notin due
         => age[WorkspaceOf[p]] = 0

LEMMA FreshStep == FreshInv /\ [Next]_vars => FreshInv'
  <1> SUFFICES ASSUME FreshInv, [Next]_vars PROVE FreshInv'
    OBVIOUS
  <1> TypeInv'
    BY TypeStep DEF FreshInv
  <1> USE ConstantsAssumption, MetadataAssumption
      DEF FreshInv, TypeInv, TypeOK, OwnsMeta, Published, Running, Label, Starting,
          Preparing, Hosting, Leaving, Ended
  <1>1. CASE Tick
    BY <1>1 DEF Tick, Waiting, procVars, osVars
  <1>2. ASSUME NEW p \in Proc, CheckExists(p) PROVE FreshInv'
    BY <1>2 DEF CheckExists, Step, MyLock, osVars
  <1>3. ASSUME NEW p \in Proc, ReadLock(p) PROVE FreshInv'
    BY <1>3 DEF ReadLock, Step, MyLock, osVars
  <1>4. ASSUME NEW p \in Proc, ReadLockFails(p) PROVE FreshInv'
    BY <1>4 DEF ReadLockFails, Step, Gone
  <1>5. ASSUME NEW p \in Proc, Refuse(p) PROVE FreshInv'
    BY <1>5 DEF Refuse, Step, Gone
  <1>6. ASSUME NEW p \in Proc, Reclaim(p) PROVE FreshInv'
    BY <1>6 DEF Reclaim, Step, osVars
  <1>7. ASSUME NEW p \in Proc, UnlinkStale(p) PROVE FreshInv'
    BY <1>7 DEF UnlinkStale, Step, RemoveLock, SetLock, osVars
  <1>8. ASSUME NEW p \in Proc, OpenLock(p) PROVE FreshInv'
    BY <1>8 DEF OpenLock, Step, SetLock, osVars
  <1>9. ASSUME NEW p \in Proc, WriteLock(p) PROVE FreshInv'
    BY <1>9 DEF WriteLock, Step, SetLock, osVars
  <1>10. ASSUME NEW p \in Proc, FindAvailablePort(p) PROVE FreshInv'
    BY <1>10 DEF FindAvailablePort, Step, FreePorts, osVars
  <1>11. ASSUME NEW p \in Proc, LoadSecretAndOpenMeta(p) PROVE FreshInv'
    BY <1>11 DEF LoadSecretAndOpenMeta, Step, SetMeta, MyMeta, osVars
  <1>12. ASSUME NEW p \in Proc, PublishMeta(p) PROVE FreshInv'
    BY <1>12 DEF PublishMeta, Step, WriteOwnMetadata, SetMeta, OwnMetadata, osVars,
       Metadata
  <1>13. ASSUME NEW p \in Proc, PublishFails(p) PROVE FreshInv'
    BY <1>13 DEF PublishFails, Step, osVars
  <1>14. ASSUME NEW p \in Proc, Listen(p) PROVE FreshInv'
    BY <1>14 DEF Listen, Step, osVars
  <1>15. ASSUME NEW p \in Proc, OpenHeartbeat(p) PROVE FreshInv'
    BY <1>15 DEF OpenHeartbeat, Step, SetMeta, osVars
  <1>16. ASSUME NEW p \in Proc, WriteHeartbeat(p) PROVE FreshInv'
    BY <1>16 DEF WriteHeartbeat, Step, WriteOwnMetadata, SetMeta, OwnMetadata,
       osVars, Metadata
  <1>17. ASSUME NEW p \in Proc, HeartbeatFails(p) PROVE FreshInv'
    BY <1>17 DEF HeartbeatFails, Step, osVars
  <1>18. ASSUME NEW p \in Proc, ShutdownRelease(p) PROVE FreshInv'
    BY <1>18 DEF ShutdownRelease, Step, RemoveLock, SetLock, osVars
  <1>19. ASSUME NEW p \in Proc, ExitRelease(p) PROVE FreshInv'
    BY <1>19 DEF ExitRelease, Step, RemoveLock, SetLock, Gone
  <1>20. ASSUME NEW p \in Proc, FailRelease(p) PROVE FreshInv'
    BY <1>20 DEF FailRelease, Step, RemoveLock, SetLock, Gone
  <1>21. ASSUME NEW p \in Proc, Start(p) PROVE FreshInv'
    BY <1>21 DEF Start, Step
  <1>22. ASSUME NEW p \in Proc, Shutdown(p) PROVE FreshInv'
    BY <1>22 DEF Shutdown, Step, osVars
  <1>23. ASSUME NEW p \in Proc, Crash(p) PROVE FreshInv'
    BY <1>23 DEF Crash, Gone
  <1>24. ASSUME NEW p \in Proc, ReusePid(p) PROVE FreshInv'
    BY <1>24 DEF ReusePid, procVars
  <1>25. ASSUME NEW p \in Proc, Suspend(p) PROVE FreshInv'
    BY <1>25 DEF Suspend, procVars
  <1>26. ASSUME NEW p \in Proc, Resume(p) PROVE FreshInv'
    BY <1>26 DEF Resume, procVars
  <1>27. CASE UNCHANGED vars
    BY <1>27 DEF vars, procVars, osVars
  <1> QED
    BY <1>1, <1>2, <1>3, <1>4, <1>5, <1>6, <1>7, <1>8, <1>9, <1>10, <1>11, <1>12,
       <1>13, <1>14, <1>15, <1>16, <1>17, <1>18, <1>19, <1>20, <1>21, <1>22, <1>23,
       <1>24, <1>25, <1>26, <1>27 DEF Next, Run

\* p has not reached the point where it takes the lock over.
Undecided == {"idle", "checking", "reading", "judging"} \cup Ended

\* Who is not excused has judged nobody, or is judging the pid of the host.
ExcusedInv ==
  /\ excused \in [Proc -> SUBSET Proc]
  /\ \A p, q \in Proc :
       /\ Rivals(p, q) /\ p \notin excused[q]
       /\ pc[q] \in Preparing \cup Hosting /\ MyLock(q) = q
       => pc[p] \in Undecided /\ (pc[p] = "judging" => seen[p] = q)

\* A process that takes the lock over from the pid it judged does not judge a healthy host:
\* that host's heartbeat is fresh, or does not parse.
LEMMA HealthyIsKept ==
  ASSUME FreshInv, NEW p \in Proc, NEW q \in Proc, Reclaim(p), seen[p] = q
  PROVE  ~Healthy(q)
  <1>1. pc \in [Proc -> Label] /\ age \in [Workspace -> 0 .. StaleTicks + 1]
    BY DEF FreshInv, TypeInv, TypeOK
  <1>2. SUFFICES ASSUME Healthy(q) PROVE FALSE
    OBVIOUS
  <1>3. q \in alive /\ WorkspaceOf[q] = WorkspaceOf[p]
    BY <1>2 DEF FreshInv, Healthy, Running, Label, Preparing, Hosting, Ended
  <1>4. meta[WorkspaceOf[q]] \in Metadata /\ age[WorkspaceOf[q]] > StaleTicks
    BY <1>3 DEF Reclaim, HolderRuns, StaleMetadata
  <1>5. OwnsMeta(q)
    BY <1>2, <1>4 DEF Healthy, OwnsMeta, MyMeta
  <1>6. age[WorkspaceOf[q]] = 0
    BY <1>2, <1>5 DEF FreshInv, Healthy, Hosting
  <1> QED
    BY <1>4, <1>6, ConstantsAssumption


\* While the lock names q, an undecided process gets no further than to judge q, unless it
\* takes the lock over.
LEMMA UndecidedStep ==
  ASSUME FreshInv, Next, NEW p \in Proc, NEW q \in Proc, Rivals(p, q), MyLock(q) = q,
         pc[p] \in Undecided, pc[p] = "judging" => seen[p] = q
  PROVE  \/ pc'[p] \in Undecided /\ (pc'[p] = "judging" => seen'[p] = q)
         \/ Reclaim(p)
  <1>1. /\ pc \in [Proc -> Label] /\ seen \in [Proc -> Proc \cup {None}]
        /\ MyLock(p) = q /\ q # NoFile /\ "dead" \in Undecided /\ "refused" \in Undecided
    BY ConstantsAssumption
       DEF FreshInv, TypeInv, TypeOK, Rivals, MyLock, Undecided, Ended
  <1> USE <1>1
  <1>2. CASE UNCHANGED <<pc, seen>>
    BY <1>2
  <1>3. CASE Tick
    BY <1>2, <1>3 DEF Tick, procVars
  <1>4. ASSUME NEW r \in Proc, r # p, pc'[p] = pc[p], seen'[p] = seen[p]
        PROVE  pc'[p] \in Undecided /\ (pc'[p] = "judging" => seen'[p] = q)
    BY <1>4
  <1>5. ASSUME NEW r \in Proc, \/ Start(r) \/ Shutdown(r) \/ Crash(r) \/ ReusePid(r)
                              \/ Suspend(r) \/ Resume(r)
        PROVE  pc'[p] \in Undecided /\ (pc'[p] = "judging" => seen'[p] = q)
    BY <1>5 DEF Start, Shutdown, Crash, ReusePid, Suspend, Resume, Step, Gone, procVars,
       Undecided, Ended
  <1>6. ASSUME NEW r \in Proc, \/ CheckExists(r) \/ ReadLock(r) \/ ReadLockFails(r)
                              \/ Refuse(r)
        PROVE  pc'[p] \in Undecided /\ (pc'[p] = "judging" => seen'[p] = q)
    BY <1>6 DEF CheckExists, ReadLock, ReadLockFails, Refuse, Step, Gone, Undecided, Ended
  <1>7. ASSUME NEW r \in Proc, r # p, Reclaim(r)
        PROVE  pc'[p] \in Undecided /\ (pc'[p] = "judging" => seen'[p] = q)
    BY <1>7 DEF Reclaim, Step
  <1>8. ASSUME NEW r \in Proc, \/ UnlinkStale(r) \/ OpenLock(r) \/ WriteLock(r)
                              \/ FindAvailablePort(r) \/ LoadSecretAndOpenMeta(r)
                              \/ PublishMeta(r) \/ PublishFails(r) \/ Listen(r)
        PROVE  pc'[p] \in Undecided /\ (pc'[p] = "judging" => seen'[p] = q)
    BY <1>8 DEF UnlinkStale, OpenLock, WriteLock, FindAvailablePort,
       LoadSecretAndOpenMeta, PublishMeta, PublishFails, Listen, Step, Undecided, Ended
  <1>9. ASSUME NEW r \in Proc, \/ OpenHeartbeat(r) \/ WriteHeartbeat(r) \/ HeartbeatFails(r)
                              \/ ShutdownRelease(r) \/ ExitRelease(r) \/ FailRelease(r)
        PROVE  pc'[p] \in Undecided /\ (pc'[p] = "judging" => seen'[p] = q)
    BY <1>9 DEF OpenHeartbeat, WriteHeartbeat, HeartbeatFails, ShutdownRelease,
       ExitRelease, FailRelease, Step, Gone, Undecided, Ended
  <1> QED
    BY <1>3, <1>5, <1>6, <1>7, <1>8, <1>9 DEF Next, Run

\* The lock comes to name q, and q to hold it, only when q writes it.
LEMMA LockTaken ==
  ASSUME FreshInv, Next, NEW q \in Proc,
         pc'[q] \in Preparing \cup Hosting, lock'[WorkspaceOf[q]] = q
  PROVE  \/ Goes(q, "writing", "probing") /\ \A p \in Proc \ {q} : pc'[p] = pc[p]
         \/ /\ pc[q] \in Preparing \cup Hosting /\ MyLock(q) = q
            /\ ~Goes(q, "writing", "probing")
  <1>1. /\ pc \in [Proc -> Label] /\ lock \in [Workspace -> Proc \cup {NoFile, Torn}]
        /\ WorkspaceOf \in [Proc -> Workspace] /\ NoFile # q /\ Torn # q
    BY ConstantsAssumption DEF FreshInv, TypeInv, TypeOK
  <1> USE <1>1 DEF Goes, MyLock, Preparing, Hosting, Ended, Step
  <1>2. ASSUME NEW r \in Proc, WriteLock(r), r = q
        PROVE  Goes(q, "writing", "probing") /\ \A p \in Proc \ {q} : pc'[p] = pc[p]
    BY <1>2 DEF WriteLock
  <1> DEFINE Held == /\ pc[q] \in Preparing \cup Hosting /\ MyLock(q) = q
                     /\ ~Goes(q, "writing", "probing")
  <1>3. ASSUME NEW r \in Proc, WriteLock(r), r # q PROVE Held
    BY <1>3 DEF WriteLock, SetLock
  <1>4. CASE Tick
    BY <1>4 DEF Tick, procVars
  <1>5. ASSUME NEW r \in Proc, \/ Start(r) \/ Shutdown(r) \/ Crash(r) \/ ReusePid(r)
                              \/ Suspend(r) \/ Resume(r)
        PROVE  Held
    BY <1>5 DEF Start, Shutdown, Crash, ReusePid, Suspend, Resume, procVars
  <1>6. ASSUME NEW r \in Proc, \/ CheckExists(r) \/ ReadLock(r) \/ ReadLockFails(r)
                              \/ Refuse(r) \/ Reclaim(r) \/ UnlinkStale(r) \/ OpenLock(r)
        PROVE  Held
    BY <1>6 DEF CheckExists, ReadLock, ReadLockFails, Refuse, Reclaim, UnlinkStale,
       OpenLock, RemoveLock, SetLock
  <1>7. ASSUME NEW r \in Proc, \/ FindAvailablePort(r) \/ LoadSecretAndOpenMeta(r)
                              \/ PublishMeta(r) \/ PublishFails(r) \/ Listen(r)
        PROVE  Held
    BY <1>7 DEF FindAvailablePort, LoadSecretAndOpenMeta, PublishMeta, PublishFails, Listen
  <1>8. ASSUME NEW r \in Proc, \/ OpenHeartbeat(r) \/ WriteHeartbeat(r) \/ HeartbeatFails(r)
                              \/ ShutdownRelease(r) \/ ExitRelease(r) \/ FailRelease(r)
        PROVE  Held
    BY <1>8 DEF OpenHeartbeat, WriteHeartbeat, HeartbeatFails, ShutdownRelease,
       ExitRelease, FailRelease, RemoveLock, SetLock
  <1> QED
    BY <1>2, <1>3, <1>4, <1>5, <1>6, <1>7, <1>8 DEF Next, Run

LEMMA ExcusedStep ==
  FreshInv /\ ExcusedInv /\ [Next /\ RecordExcused]_historyVars => ExcusedInv'
  <1> SUFFICES ASSUME FreshInv, ExcusedInv, [Next /\ RecordExcused]_historyVars
               PROVE  ExcusedInv'
    OBVIOUS
  <1>1. CASE UNCHANGED historyVars
    BY <1>1 DEF historyVars, vars, procVars, ExcusedInv, MyLock
  <1>2. CASE Next /\ RecordExcused
    <2>1. excused' \in [Proc -> SUBSET Proc]
      BY <1>2 DEF RecordExcused, ExcusedInv, UnderWay, Condemning
    <2>2. ASSUME NEW p \in Proc, NEW q \in Proc, Rivals(p, q), p \notin excused'[q],
                 pc'[q] \in Preparing \cup Hosting, lock'[WorkspaceOf[q]] = q
          PROVE  pc'[p] \in Undecided /\ (pc'[p] = "judging" => seen'[p] = q)
      <3>1. CASE Goes(q, "writing", "probing") /\ \A r \in Proc \ {q} : pc'[r] = pc[r]
        <4>1. p \notin UnderWay(q)
          BY <1>2, <2>2, <3>1 DEF RecordExcused
        <4> QED
          BY <2>2, <3>1, <4>1 DEF UnderWay, Rivals, Undecided, Ended
      <3>2. CASE /\ pc[q] \in Preparing \cup Hosting /\ MyLock(q) = q
                 /\ ~Goes(q, "writing", "probing")
        <4>1. p \notin excused[q] /\ p \notin Condemning(q)
          BY <1>2, <2>2, <3>2 DEF RecordExcused
        <4>2. pc[p] \in Undecided /\ (pc[p] = "judging" => seen[p] = q)
          BY <2>2, <3>2, <4>1 DEF ExcusedInv
        <4>3. ASSUME Reclaim(p) PROVE FALSE
          <5>1. Goes(p, "judging", "reclaiming") /\ seen[p] = q
            BY <4>2, <4>3 DEF Reclaim, Step, Goes, FreshInv, TypeInv, TypeOK
          <5>2. ~Healthy(q)
            BY <4>3, <5>1, HealthyIsKept
          <5> QED
            BY <4>1, <5>1, <5>2 DEF Condemning
        <4> QED
          BY <1>2, <2>2, <3>2, <4>2, <4>3, UndecidedStep
      <3> QED
        BY <1>2, <2>2, <3>1, <3>2, LockTaken
    <2> QED
      BY <2>1, <2>2 DEF ExcusedInv, Rivals, MyLock
  <1> QED
    BY <1>1, <1>2

\* Only a process that has decided to take the lock over, or that had it, changes it.
LEMMA UndecidedLeavesLock ==
  ASSUME FreshInv, Next, NEW p \in Proc, pc[p] \in Undecided, pc'[p] # pc[p]
  PROVE  UNCHANGED lock
  <1>1. pc \in [Proc -> Label]
    BY DEF FreshInv, TypeInv, TypeOK
  <1> USE <1>1 DEF Undecided, Ended, Step
  <1>2. CASE Tick
    BY <1>2 DEF Tick
  <1>3. ASSUME NEW r \in Proc, \/ Start(r) \/ Shutdown(r) \/ Crash(r) \/ ReusePid(r)
                              \/ Suspend(r) \/ Resume(r)
        PROVE  UNCHANGED lock
    BY <1>3 DEF Start, Shutdown, Crash, ReusePid, Suspend, Resume
  <1>4. ASSUME NEW r \in Proc, \/ CheckExists(r) \/ ReadLock(r) \/ ReadLockFails(r)
                              \/ Refuse(r) \/ Reclaim(r) \/ FindAvailablePort(r)
                              \/ LoadSecretAndOpenMeta(r) \/ PublishMeta(r)
                              \/ PublishFails(r) \/ Listen(r) \/ OpenHeartbeat(r)
                              \/ WriteHeartbeat(r) \/ HeartbeatFails(r)
        PROVE  UNCHANGED lock
    BY <1>4 DEF CheckExists, ReadLock, ReadLockFails, Refuse, Reclaim, FindAvailablePort,
       LoadSecretAndOpenMeta, PublishMeta, PublishFails, Listen, OpenHeartbeat,
       WriteHeartbeat, HeartbeatFails
  <1>5. ASSUME NEW r \in Proc, \/ UnlinkStale(r) \/ OpenLock(r) \/ WriteLock(r)
                              \/ ShutdownRelease(r) \/ ExitRelease(r) \/ FailRelease(r)
        PROVE  FALSE
    <2>1. pc[r] \in {"reclaiming", "locking", "writing", "stopping", "leaving", "failing"}
      BY <1>5 DEF UnlinkStale, OpenLock, WriteLock, ShutdownRelease, ExitRelease, FailRelease
    <2>2. \A q \in Proc \ {r} : pc'[q] = pc[q]
      BY <1>5 DEF UnlinkStale, OpenLock, WriteLock, ShutdownRelease, ExitRelease, FailRelease
    <2> QED
      BY <2>1, <2>2
  <1> QED
    BY <1>2, <1>3, <1>4, <1>5 DEF Next, Run

\* In every behaviour, for any number of processes: whoever is started after a host took
\* its lock leaves that lock alone, unless it judges a host that is not healthy.
THEOREM HostKeeps == HistorySpec => HostKeepsLock
  <1> DEFINE Kept == \A p, q \in Proc :
                       /\ Rivals(p, q) /\ pc'[p] # pc[p]
                       /\ pc[q] \in Hosting /\ MyLock(q) = q /\ lock'[WorkspaceOf[q]] # q
                       => p \in excused[q]
             HInv == FreshInv /\ ExcusedInv
  <1>1. Init /\ HistoryInit => HInv
    <2> SUFFICES ASSUME Init, HistoryInit PROVE HInv
      OBVIOUS
    <2>1. FreshInv
      BY ConstantsAssumption, MetadataAssumption
         DEF Init, FreshInv, TypeInv, TypeOK, OwnsMeta, Published, Running, Label,
             Starting, Preparing, Hosting, Leaving, Ended
    <2>2. ExcusedInv
      BY DEF Init, HistoryInit, ExcusedInv, Preparing, Hosting
    <2> QED
      BY <2>1, <2>2
  <1>2. HInv /\ [Next /\ RecordExcused]_historyVars => HInv'
    <2>1. [Next /\ RecordExcused]_historyVars => [Next]_vars
      BY DEF historyVars
    <2> QED
      BY <2>1, FreshStep, ExcusedStep
  <1>3. HInv /\ [Next /\ RecordExcused]_historyVars => [Kept]_historyVars
    <2> SUFFICES ASSUME FreshInv, ExcusedInv, Next,
                        NEW p \in Proc, NEW q \in Proc, Rivals(p, q), pc'[p] # pc[p],
                        pc[q] \in Hosting, MyLock(q) = q, lock'[WorkspaceOf[q]] # q,
                        p \notin excused[q]
                 PROVE  FALSE
      OBVIOUS
    <2>1. pc[p] \in Undecided
      BY DEF ExcusedInv
    <2>2. UNCHANGED lock
      BY <2>1, UndecidedLeavesLock
    <2> QED
      BY <2>2 DEF MyLock
  <1> QED
    BY <1>1, <1>2, <1>3, PTL DEF HistorySpec, HostKeepsLock

-----------------------------------------------------------------------------
(* One host per workspace, under careful operation.                        *)

\* p has passed the point where it takes the lock over.
Taking == {"reclaiming", "locking", "writing"}

CarefulInv ==
  /\ TypeInv
  /\ suspended = {}
  /\ \A p \in Proc : pc[p] \in Running => p \in alive
  \* at most one process of a workspace is starting or stopping
  /\ \A p, q \in Proc : Rivals(p, q) /\ pc[p] \notin Settled => pc[q] \in Settled
  \* a process that took the lock still has it, and hosts alone
  /\ \A p \in Proc : pc[p] \in Preparing \cup Hosting => lock[WorkspaceOf[p]] = p
  /\ \A p, q \in Proc :
       Rivals(p,
       q) /\ pc[p] \in Taking \cup Preparing \cup Leaving => pc[q] \notin Hosting
  \* a process that is judging a host's lock has read that host's pid
  /\ \A p, q \in Proc :
       Rivals(p, q) /\ pc[p] = "judging" /\ pc[q] \in Hosting => seen[p] = q
  \* and finds its metadata fresh, or unreadable
  /\ \A p \in Proc : pc[p] = "beating" => meta[WorkspaceOf[p]] = Torn
  /\ \A p \in Proc :
       pc[p] \in {"binding", "serving"} /\ meta[WorkspaceOf[p]] \in Metadata
         => age[WorkspaceOf[p]] <= (IF p \in due THEN 1 ELSE 0)

LEMMA CarefulStep == CarefulInv /\ [CarefulNext]_vars => CarefulInv'
  <1> SUFFICES ASSUME CarefulInv, [CarefulNext]_vars PROVE CarefulInv'
    OBVIOUS
  <1> TypeInv'
    BY TypeStep DEF CarefulInv, CarefulNext, Next, Quiet
  <1> USE ConstantsAssumption, MetadataAssumption
      DEF CarefulInv, TypeInv, TypeOK, Published, Running, Label, Starting,
          Preparing, Hosting, Leaving, Ended, Settled, Rivals, Taking
  <1>1. CASE Tick
    BY <1>1 DEF Tick, Waiting, procVars, osVars
  <1>2. ASSUME NEW p \in Proc, CheckExists(p) PROVE CarefulInv'
    BY <1>2 DEF CheckExists, Step, MyLock, osVars
  <1>3. ASSUME NEW p \in Proc, ReadLock(p) PROVE CarefulInv'
    BY <1>3 DEF ReadLock, Step, MyLock, osVars
  <1>4. ASSUME NEW p \in Proc, ReadLockFails(p) PROVE CarefulInv'
    BY <1>4 DEF ReadLockFails, Step, Gone
  <1>5. ASSUME NEW p \in Proc, Refuse(p) PROVE CarefulInv'
    BY <1>5 DEF Refuse, Step, Gone, HolderRuns, StaleMetadata
  <1>6. ASSUME NEW p \in Proc, Reclaim(p) PROVE CarefulInv'
    BY <1>6 DEF Reclaim, Step, osVars, HolderRuns, StaleMetadata
  <1>7. ASSUME NEW p \in Proc, UnlinkStale(p) PROVE CarefulInv'
    BY <1>7 DEF UnlinkStale, Step, RemoveLock, SetLock, osVars
  <1>8. ASSUME NEW p \in Proc, OpenLock(p) PROVE CarefulInv'
    BY <1>8 DEF OpenLock, Step, SetLock, osVars
  <1>9. ASSUME NEW p \in Proc, WriteLock(p) PROVE CarefulInv'
    BY <1>9 DEF WriteLock, Step, SetLock, osVars
  <1>10. ASSUME NEW p \in Proc, FindAvailablePort(p) PROVE CarefulInv'
    BY <1>10 DEF FindAvailablePort, Step, FreePorts, osVars
  <1>11. ASSUME NEW p \in Proc, LoadSecretAndOpenMeta(p) PROVE CarefulInv'
    BY <1>11 DEF LoadSecretAndOpenMeta, Step, SetMeta, MyMeta, osVars
  <1>12. ASSUME NEW p \in Proc, PublishMeta(p) PROVE CarefulInv'
    BY <1>12 DEF PublishMeta, Step, WriteOwnMetadata, SetMeta, OwnMetadata, osVars,
       Metadata
  <1>13. ASSUME NEW p \in Proc, PublishFails(p) PROVE CarefulInv'
    BY <1>13 DEF PublishFails, Step, osVars
  <1>14. ASSUME NEW p \in Proc, Listen(p) PROVE CarefulInv'
    BY <1>14 DEF Listen, Step, osVars
  <1>15. ASSUME NEW p \in Proc, OpenHeartbeat(p) PROVE CarefulInv'
    BY <1>15 DEF OpenHeartbeat, Step, SetMeta, osVars
  <1>16. ASSUME NEW p \in Proc, WriteHeartbeat(p) PROVE CarefulInv'
    BY <1>16 DEF WriteHeartbeat, Step, WriteOwnMetadata, SetMeta, OwnMetadata,
       osVars, Metadata
  <1>17. ASSUME NEW p \in Proc, HeartbeatFails(p) PROVE CarefulInv'
    BY <1>17 DEF HeartbeatFails, Step, osVars
  <1>18. ASSUME NEW p \in Proc, ShutdownRelease(p) PROVE CarefulInv'
    BY <1>18 DEF ShutdownRelease, Step, RemoveLock, SetLock, osVars
  <1>19. ASSUME NEW p \in Proc, ExitRelease(p) PROVE CarefulInv'
    BY <1>19 DEF ExitRelease, Step, RemoveLock, SetLock, Gone
  <1>20. ASSUME NEW p \in Proc, FailRelease(p) PROVE CarefulInv'
    BY <1>20 DEF FailRelease, Step, RemoveLock, SetLock, Gone
  <1>21. ASSUME NEW p \in Proc, Quiet(p), Start(p) PROVE CarefulInv'
    BY <1>21 DEF Start, Step, Quiet
  <1>22. ASSUME NEW p \in Proc, Quiet(p), Shutdown(p) PROVE CarefulInv'
    BY <1>22 DEF Shutdown, Step, osVars, Quiet
  <1>23. ASSUME NEW p \in Proc, Crash(p) PROVE CarefulInv'
    BY <1>23 DEF Crash, Gone
  <1>24. ASSUME NEW p \in Proc, ReusePid(p) PROVE CarefulInv'
    BY <1>24 DEF ReusePid, procVars
  <1>25. CASE UNCHANGED vars
    BY <1>25 DEF vars, procVars, osVars
  <1> QED
    BY <1>1, <1>2, <1>3, <1>4, <1>5, <1>6, <1>7, <1>8, <1>9, <1>10, <1>11, <1>12,
       <1>13, <1>14, <1>15, <1>16, <1>17, <1>18, <1>19, <1>20, <1>21, <1>22, <1>23,
       <1>24, <1>25 DEF CarefulNext, Run

LEMMA CarefulInvariant == CarefulSpec => []CarefulInv
  <1>1. Init => CarefulInv
    BY ConstantsAssumption
       DEF Init, CarefulInv, TypeInv, TypeOK, Published, Running, Label, Starting,
           Preparing, Hosting, Leaving, Ended, Settled, Rivals, Taking
  <1> QED
    BY <1>1, CarefulStep, PTL DEF CarefulSpec

\* Hosts that are started and stopped one at a time are singletons.
THEOREM CarefulSingleHost == CarefulSpec => []SingleHost
  <1>1. CarefulInv => SingleHost
    BY DEF CarefulInv, SingleHost
  <1> QED
    BY <1>1, CarefulInvariant, PTL

\* The lock file of a host that is started and stopped with care stays its own.
THEOREM CarefulLockNamesHost == CarefulSpec => []LockNamesHost
  <1>1. CarefulInv => LockNamesHost
    BY DEF CarefulInv, LockNamesHost, MyLock
  <1> QED
    BY <1>1, CarefulInvariant, PTL

-----------------------------------------------------------------------------
(* What readable metadata says, under careful operation.                   *)

\* Between the truncation and the write of its metadata no other process of the
\* workspace writes; afterwards readable metadata is the host's own.
MetadataInv ==
  /\ \A p \in Proc : pc[p] = "filling" => MyMeta(p) = Torn
  /\ \A p \in Proc :
       pc[p] \in {"binding"} \cup Hosting /\ MyMeta(p) \in Metadata
         => MyMeta(p) = OwnMetadata(p)

LEMMA MetadataStep ==
  CarefulInv /\ MetadataInv /\ [CarefulNext]_vars => MetadataInv'
  <1> SUFFICES ASSUME CarefulInv, MetadataInv, [CarefulNext]_vars PROVE MetadataInv'
    OBVIOUS
  <1> USE ConstantsAssumption, MetadataAssumption
      DEF CarefulInv, MetadataInv, TypeInv, TypeOK, MyMeta, Published, Running, Label, Starting,
          Preparing, Hosting, Leaving, Ended, Settled, Rivals, Taking, OwnMetadata
  <1>1. CASE Tick
    BY <1>1 DEF Tick, Waiting, procVars, osVars
  <1>2. ASSUME NEW p \in Proc, CheckExists(p) PROVE MetadataInv'
    BY <1>2 DEF CheckExists, Step, MyLock, osVars
  <1>3. ASSUME NEW p \in Proc, ReadLock(p) PROVE MetadataInv'
    BY <1>3 DEF ReadLock, Step, MyLock, osVars
  <1>4. ASSUME NEW p \in Proc, ReadLockFails(p) PROVE MetadataInv'
    BY <1>4 DEF ReadLockFails, Step, Gone
  <1>5. ASSUME NEW p \in Proc, Refuse(p) PROVE MetadataInv'
    BY <1>5 DEF Refuse, Step, Gone
  <1>6. ASSUME NEW p \in Proc, Reclaim(p) PROVE MetadataInv'
    BY <1>6 DEF Reclaim, Step, osVars
  <1>7. ASSUME NEW p \in Proc, UnlinkStale(p) PROVE MetadataInv'
    BY <1>7 DEF UnlinkStale, Step, RemoveLock, SetLock, osVars
  <1>8. ASSUME NEW p \in Proc, OpenLock(p) PROVE MetadataInv'
    BY <1>8 DEF OpenLock, Step, SetLock, osVars
  <1>9. ASSUME NEW p \in Proc, WriteLock(p) PROVE MetadataInv'
    BY <1>9 DEF WriteLock, Step, SetLock, osVars
  <1>10. ASSUME NEW p \in Proc, FindAvailablePort(p) PROVE MetadataInv'
    BY <1>10 DEF FindAvailablePort, Step, FreePorts, osVars
  <1>11. ASSUME NEW p \in Proc, LoadSecretAndOpenMeta(p) PROVE MetadataInv'
    BY <1>11 DEF LoadSecretAndOpenMeta, Step, SetMeta, MyMeta, osVars
  <1>12. ASSUME NEW p \in Proc, PublishMeta(p) PROVE MetadataInv'
    BY <1>12 DEF PublishMeta, Step, WriteOwnMetadata, SetMeta, OwnMetadata, osVars,
       Metadata
  <1>13. ASSUME NEW p \in Proc, PublishFails(p) PROVE MetadataInv'
    BY <1>13 DEF PublishFails, Step, osVars
  <1>14. ASSUME NEW p \in Proc, Listen(p) PROVE MetadataInv'
    BY <1>14 DEF Listen, Step, osVars
  <1>15. ASSUME NEW p \in Proc, OpenHeartbeat(p) PROVE MetadataInv'
    BY <1>15 DEF OpenHeartbeat, Step, SetMeta, osVars
  <1>16. ASSUME NEW p \in Proc, WriteHeartbeat(p) PROVE MetadataInv'
    BY <1>16 DEF WriteHeartbeat, Step, WriteOwnMetadata, SetMeta, OwnMetadata, osVars,
       Metadata
  <1>17. ASSUME NEW p \in Proc, HeartbeatFails(p) PROVE MetadataInv'
    BY <1>17 DEF HeartbeatFails, Step, osVars
  <1>18. ASSUME NEW p \in Proc, ShutdownRelease(p) PROVE MetadataInv'
    BY <1>18 DEF ShutdownRelease, Step, RemoveLock, SetLock, osVars
  <1>19. ASSUME NEW p \in Proc, ExitRelease(p) PROVE MetadataInv'
    BY <1>19 DEF ExitRelease, Step, RemoveLock, SetLock, Gone
  <1>20. ASSUME NEW p \in Proc, FailRelease(p) PROVE MetadataInv'
    BY <1>20 DEF FailRelease, Step, RemoveLock, SetLock, Gone
  <1>21. ASSUME NEW p \in Proc, Quiet(p), Start(p) PROVE MetadataInv'
    BY <1>21 DEF Start, Step, Quiet
  <1>22. ASSUME NEW p \in Proc, Quiet(p), Shutdown(p) PROVE MetadataInv'
    BY <1>22 DEF Shutdown, Step, osVars, Quiet
  <1>23. ASSUME NEW p \in Proc, Crash(p) PROVE MetadataInv'
    BY <1>23 DEF Crash, Gone
  <1>24. ASSUME NEW p \in Proc, ReusePid(p) PROVE MetadataInv'
    BY <1>24 DEF ReusePid, procVars
  <1>25. CASE UNCHANGED vars
    BY <1>25 DEF vars, procVars, osVars
  <1> QED
    BY <1>1, <1>2, <1>3, <1>4, <1>5, <1>6, <1>7, <1>8, <1>9, <1>10, <1>11, <1>12,
       <1>13, <1>14, <1>15, <1>16, <1>17, <1>18, <1>19, <1>20, <1>21, <1>22, <1>23,
       <1>24, <1>25 DEF CarefulNext, Run

\* The port a process found free stays free until it listens on it, and then is its own,
\* when all processes run in one workspace.
PortInv ==
  /\ \A p \in Proc : pc[p] \in {"publishing", "filling", "binding"} => listening[port[p]] = None
  /\ \A p \in Proc : pc[p] \in Hosting => listening[port[p]] = p
  /\ \A n \in Port : listening[n] # None => pc[listening[n]] \in Hosting

LEMMA PortStep ==
  ASSUME \A p, q \in Proc : WorkspaceOf[p] = WorkspaceOf[q],
         CarefulInv, PortInv, [CarefulNext]_vars
  PROVE  PortInv'
  <1> DEFINE Binding == {"publishing", "filling", "binding"}
  <1> USE ConstantsAssumption DEF Hosting
  <1>A. /\ pc \in [Proc -> Label] /\ port \in [Proc -> Port \cup {None}]
        /\ listening \in [Port -> Proc \cup {None}]
        /\ \A p \in Proc : pc[p] \in Binding \cup Hosting => port[p] \in Port
    BY DEF CarefulInv, TypeInv, TypeOK, Published
  \* Steps of a process that leave the ports alone and neither begin nor end to use one.
  <1>B. ASSUME NEW p \in Proc, NEW l, pc' = [pc EXCEPT ![p] = l], UNCHANGED <<port, listening>>,
               l \in Binding => pc[p] \in Binding, l \in Hosting <=> pc[p] \in Hosting
        PROVE  PortInv'
    BY <1>A, <1>B DEF PortInv
  \* Steps that free what a process uses.
  <1>C. ASSUME NEW p \in Proc, NEW l, pc' = [pc EXCEPT ![p] = l], l \notin Binding \cup Hosting,
               listening' = [n \in Port |-> IF listening[n] = p THEN None ELSE listening[n]],
               \A q \in Proc \ {p} : port'[q] = port[q]
        PROVE  PortInv'
    <2>1. \A q \in Proc \ {p} : pc'[q] = pc[q] /\ port'[q] = port[q]
      BY <1>A, <1>C
    <2>2. pc'[p] \notin Binding \cup Hosting
      BY <1>A, <1>C
    <2>3. \A q \in Proc \ {p} : pc[q] \in Binding => listening'[port[q]] = None
      BY <1>A, <1>C DEF PortInv
    <2>4. \A q \in Proc \ {p} : pc[q] \in Hosting => listening'[port[q]] = q
      BY <1>A, <1>C DEF PortInv
    <2>5. \A n \in Port : listening'[n] # None =>
            listening'[n] = listening[n] /\ listening[n] \in Proc \ {p}
      BY <1>A, <1>C
    <2> QED
      BY <2>1, <2>2, <2>3, <2>4, <2>5 DEF PortInv
  <1>D. ASSUME NEW p \in Proc, NEW l, Gone(p), pc' = [pc EXCEPT ![p] = l],
               l \notin Binding \cup Hosting
        PROVE  PortInv'
    <2>1. \A q \in Proc \ {p} : port'[q] = port[q]
      BY <1>A, <1>D DEF Gone
    <2> QED
      BY <1>C, <1>D, <2>1 DEF Gone
  <1>1. CASE Tick \/ (\E p \in Proc : ReusePid(p)) \/ UNCHANGED vars
    BY <1>1 DEF Tick, ReusePid, vars, procVars, osVars, PortInv
  <1>2. ASSUME NEW p \in Proc, CheckExists(p) PROVE PortInv'
    BY <1>2, <1>B DEF CheckExists, Step
  <1>3. ASSUME NEW p \in Proc, ReadLock(p) PROVE PortInv'
    BY <1>3, <1>B DEF ReadLock, Step
  <1>4. ASSUME NEW p \in Proc, Reclaim(p) PROVE PortInv'
    BY <1>4, <1>B DEF Reclaim, Step
  <1>5. ASSUME NEW p \in Proc, UnlinkStale(p) PROVE PortInv'
    BY <1>5, <1>B DEF UnlinkStale, Step
  <1>6. ASSUME NEW p \in Proc, OpenLock(p) PROVE PortInv'
    BY <1>6, <1>B DEF OpenLock, Step
  <1>7. ASSUME NEW p \in Proc, WriteLock(p) PROVE PortInv'
    BY <1>7, <1>B DEF WriteLock, Step
  <1>8. ASSUME NEW p \in Proc, LoadSecretAndOpenMeta(p) PROVE PortInv'
    BY <1>8, <1>B DEF LoadSecretAndOpenMeta, Step
  <1>9. ASSUME NEW p \in Proc, PublishMeta(p) PROVE PortInv'
    BY <1>9, <1>B DEF PublishMeta, Step
  <1>10. ASSUME NEW p \in Proc, PublishFails(p) PROVE PortInv'
    BY <1>10, <1>B DEF PublishFails, Step
  <1>11. ASSUME NEW p \in Proc, OpenHeartbeat(p) PROVE PortInv'
    BY <1>11, <1>B DEF OpenHeartbeat, Step
  <1>12. ASSUME NEW p \in Proc, WriteHeartbeat(p) PROVE PortInv'
    BY <1>12, <1>B DEF WriteHeartbeat, Step
  <1>13. ASSUME NEW p \in Proc, HeartbeatFails(p) PROVE PortInv'
    BY <1>13, <1>B DEF HeartbeatFails, Step
  <1>14. ASSUME NEW p \in Proc, ShutdownRelease(p) PROVE PortInv'
    BY <1>14, <1>B DEF ShutdownRelease, Step
  <1>15. ASSUME NEW p \in Proc, Start(p) PROVE PortInv'
    BY <1>15, <1>B DEF Start, Step
  <1>16. ASSUME NEW p \in Proc, ReadLockFails(p) PROVE PortInv'
    BY <1>16, <1>D DEF ReadLockFails, Step
  <1>17. ASSUME NEW p \in Proc, Refuse(p) PROVE PortInv'
    BY <1>17, <1>D DEF Refuse, Step
  <1>18. ASSUME NEW p \in Proc, ExitRelease(p) PROVE PortInv'
    BY <1>18, <1>D DEF ExitRelease, Step
  <1>19. ASSUME NEW p \in Proc, FailRelease(p) PROVE PortInv'
    BY <1>19, <1>D DEF FailRelease, Step
  <1>20. ASSUME NEW p \in Proc, Crash(p) PROVE PortInv'
    BY <1>20, <1>D DEF Crash
  <1>21. ASSUME NEW p \in Proc, Shutdown(p) PROVE PortInv'
    BY <1>21, <1>C DEF Shutdown, Step
  \* The port is free, and nobody else is about to listen.
  <1>22. ASSUME NEW p \in Proc, FindAvailablePort(p) PROVE PortInv'
    <2>1. PICK n \in FreePorts : port' = [port EXCEPT ![p] = n]
      BY <1>22 DEF FindAvailablePort
    <2>2. listening[n] = None /\ UNCHANGED listening /\ pc[p] = "probing"
          /\ pc' = [pc EXCEPT ![p] = "publishing"]
      BY <1>22, <2>1 DEF FindAvailablePort, FreePorts, Step
    <2> QED
      BY <1>A, <2>1, <2>2 DEF PortInv
  <1>23. ASSUME NEW p \in Proc, Listen(p) PROVE PortInv'
    <2>1. pc[p] = "binding" /\ pc' = [pc EXCEPT ![p] = "serving"] /\ UNCHANGED port
      BY <1>23 DEF Listen, Step
    <2>2. listening[port[p]] = None
      BY <2>1 DEF PortInv
    <2>3. port[p] \in Port /\ listening' = [listening EXCEPT ![port[p]] = p]
      BY <1>23, <1>A, <2>1, <2>2 DEF Listen
    <2>4. \A q \in Proc \ {p} : pc[q] \notin Binding
      BY <2>1 DEF CarefulInv, Rivals, Settled, Ended
    <2>5. \A q \in Proc : pc[q] \in Hosting => port[q] # port[p]
      BY <2>2 DEF PortInv
    <2>6. \A q \in Proc \ {p} : pc[q] \in Hosting => listening'[port[q]] = q
      BY <1>A, <2>3, <2>5 DEF PortInv
    <2> QED
      BY <1>A, <2>1, <2>3, <2>4, <2>6 DEF PortInv
  <1> QED
    BY <1>1, <1>2, <1>3, <1>4, <1>5, <1>6, <1>7, <1>8, <1>9, <1>10, <1>11, <1>12, <1>13,
       <1>14, <1>15, <1>16, <1>17, <1>18, <1>19, <1>20, <1>21, <1>22, <1>23
      DEF CarefulNext, Run

\* In a workspace of its own, readable metadata of a host that is started and stopped with
\* care names the port it listens on and the secret it accepts.
THEOREM CarefulMetadataLeadsToHost ==
  ASSUME \A p, q \in Proc : WorkspaceOf[p] = WorkspaceOf[q]
  PROVE  CarefulSpec => []MetadataLeadsToHost
  <1>1. Init => MetadataInv /\ PortInv
    BY ConstantsAssumption DEF Init, MetadataInv, PortInv, Hosting
  <1>2. CarefulInv /\ MetadataInv /\ PortInv /\ [CarefulNext]_vars => MetadataInv' /\ PortInv'
    BY MetadataStep, PortStep
  <1>3. MetadataInv /\ PortInv => MetadataLeadsToHost
    BY DEF MetadataInv, PortInv, MetadataLeadsToHost, OwnMetadata, MyMeta
  <1> QED
    BY <1>1, <1>2, <1>3, CarefulInvariant, PTL DEF CarefulSpec

=============================================================================
