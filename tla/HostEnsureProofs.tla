--------------------------- MODULE HostEnsureProofs ---------------------------
(***************************************************************************)
(* Theorems about HostEnsure: what clients find, for any number of host    *)
(* processes, workspaces and clients, and however often hosts restart.     *)
(***************************************************************************)
EXTENDS HostEnsure, HostLockProofs

\* Every step of clients and hosts is a step of the hosts, or leaves them alone.
LEMMA HostsStep == [EnsureNext]_ensureVars => [Next]_vars
  BY DEF EnsureNext, ensureVars, HostStep, ClientNext, Look, LookInVain, SpawnFails, Poll, GiveUp,
         Spawn, Take, Next

LEMMA CarefulHostsStep == [CarefulEnsureNext]_ensureVars => [CarefulNext]_vars
  BY DEF CarefulEnsureNext, CarefulNext, ensureVars, Look, LookInVain, SpawnFails, Poll, GiveUp,
         Spawn, Take

\* Clients only start hosts, which anybody may: what is proved of the hosts alone holds
\* next to any number of clients.
THEOREM HostsUnaffected == (EnsureSpec => Spec) /\ (CarefulEnsureSpec => CarefulSpec)
  <1>1. EnsureInit => Init
    BY DEF EnsureInit
  <1> QED
    BY <1>1, HostsStep, CarefulHostsStep, PTL DEF EnsureSpec, Spec, CarefulEnsureSpec, CarefulSpec

-----------------------------------------------------------------------------
(* What a host has published.                                              *)

\* Labels of a process that has not published metadata yet.
Early == {"idle", "probing", "publishing", "filling"} \cup Starting

\* m is metadata of one host: of its secret, and of its port while it holds one.
FromOneHost(m) ==
  /\ m \in Metadata
  /\ pc[m.pid] \notin Early
  /\ secret[m.pid] = m.secret
  /\ pc[m.pid] \in {"binding"} \cup Hosting => port[m.pid] = m.port

\* Once true of a host it stays true, whatever any host does.
LEMMA PublishedStays ==
  ASSUME TypeInv, [Next]_vars
  PROVE  \A m \in Metadata : FromOneHost(m) => FromOneHost(m)'
  <1> SUFFICES ASSUME NEW m \in Metadata, FromOneHost(m) PROVE FromOneHost(m)'
    OBVIOUS
  <1> USE ConstantsAssumption
      DEF FromOneHost, TypeInv, TypeOK, Early, Label, Starting, Preparing, Hosting, Leaving, Ended
  <1>1. CASE Tick
    BY <1>1 DEF Tick, Waiting, procVars, osVars
  <1>2. ASSUME NEW p \in Proc, CheckExists(p) PROVE FromOneHost(m)'
    BY <1>2 DEF CheckExists, Step, MyLock, osVars
  <1>3. ASSUME NEW p \in Proc, ReadLock(p) PROVE FromOneHost(m)'
    BY <1>3 DEF ReadLock, Step, MyLock, osVars
  <1>4. ASSUME NEW p \in Proc, ReadLockFails(p) PROVE FromOneHost(m)'
    BY <1>4 DEF ReadLockFails, Step, Gone
  <1>5. ASSUME NEW p \in Proc, Refuse(p) PROVE FromOneHost(m)'
    BY <1>5 DEF Refuse, Step, Gone
  <1>6. ASSUME NEW p \in Proc, Reclaim(p) PROVE FromOneHost(m)'
    BY <1>6 DEF Reclaim, Step, osVars
  <1>7. ASSUME NEW p \in Proc, UnlinkStale(p) PROVE FromOneHost(m)'
    BY <1>7 DEF UnlinkStale, Step, RemoveLock, SetLock, osVars
  <1>8. ASSUME NEW p \in Proc, OpenLock(p) PROVE FromOneHost(m)'
    BY <1>8 DEF OpenLock, Step, SetLock, osVars
  <1>9. ASSUME NEW p \in Proc, WriteLock(p) PROVE FromOneHost(m)'
    BY <1>9 DEF WriteLock, Step, SetLock, osVars
  <1>10. ASSUME NEW p \in Proc, FindAvailablePort(p) PROVE FromOneHost(m)'
    BY <1>10 DEF FindAvailablePort, Step, FreePorts, osVars
  <1>11. ASSUME NEW p \in Proc, LoadSecretAndOpenMeta(p) PROVE FromOneHost(m)'
    BY <1>11 DEF LoadSecretAndOpenMeta, Step, SetMeta, MyMeta, osVars
  <1>12. ASSUME NEW p \in Proc, PublishMeta(p) PROVE FromOneHost(m)'
    BY <1>12 DEF PublishMeta, Step, WriteOwnMetadata, SetMeta, OwnMetadata, osVars,
       Metadata
  <1>13. ASSUME NEW p \in Proc, PublishFails(p) PROVE FromOneHost(m)'
    BY <1>13 DEF PublishFails, Step, osVars
  <1>14. ASSUME NEW p \in Proc, Listen(p) PROVE FromOneHost(m)'
    BY <1>14 DEF Listen, Step, osVars
  <1>15. ASSUME NEW p \in Proc, OpenHeartbeat(p) PROVE FromOneHost(m)'
    BY <1>15 DEF OpenHeartbeat, Step, SetMeta, osVars
  <1>16. ASSUME NEW p \in Proc, WriteHeartbeat(p) PROVE FromOneHost(m)'
    BY <1>16 DEF WriteHeartbeat, Step, WriteOwnMetadata, SetMeta, OwnMetadata, osVars,
       Metadata
  <1>17. ASSUME NEW p \in Proc, HeartbeatFails(p) PROVE FromOneHost(m)'
    BY <1>17 DEF HeartbeatFails, Step, osVars
  <1>18. ASSUME NEW p \in Proc, ShutdownRelease(p) PROVE FromOneHost(m)'
    BY <1>18 DEF ShutdownRelease, Step, RemoveLock, SetLock, osVars
  <1>19. ASSUME NEW p \in Proc, ExitRelease(p) PROVE FromOneHost(m)'
    BY <1>19 DEF ExitRelease, Step, RemoveLock, SetLock, Gone
  <1>20. ASSUME NEW p \in Proc, FailRelease(p) PROVE FromOneHost(m)'
    BY <1>20 DEF FailRelease, Step, RemoveLock, SetLock, Gone
  <1>21. ASSUME NEW p \in Proc, Start(p) PROVE FromOneHost(m)'
    BY <1>21 DEF Start, Step
  <1>22. ASSUME NEW p \in Proc, Shutdown(p) PROVE FromOneHost(m)'
    BY <1>22 DEF Shutdown, Step, osVars
  <1>23. ASSUME NEW p \in Proc, Crash(p) PROVE FromOneHost(m)'
    BY <1>23 DEF Crash, Gone
  <1>24. ASSUME NEW p \in Proc, ReusePid(p) PROVE FromOneHost(m)'
    BY <1>24 DEF ReusePid, procVars
  <1>25. ASSUME NEW p \in Proc, Suspend(p) PROVE FromOneHost(m)'
    BY <1>25 DEF Suspend, procVars
  <1>26. ASSUME NEW p \in Proc, Resume(p) PROVE FromOneHost(m)'
    BY <1>26 DEF Resume, procVars
  <1>27. CASE UNCHANGED vars
    BY <1>27 DEF vars, procVars, osVars
  <1> QED
    BY <1>1, <1>2, <1>3, <1>4, <1>5, <1>6, <1>7, <1>8, <1>9, <1>10, <1>11, <1>12,
       <1>13, <1>14, <1>15, <1>16, <1>17, <1>18, <1>19, <1>20, <1>21, <1>22, <1>23,
       <1>24, <1>25, <1>26, <1>27 DEF Next, Run


\* Metadata appears in a file only by a complete write of its owner.
LEMMA MetadataWritten ==
  ASSUME TypeInv, [Next]_vars, NEW w \in Workspace, meta'[w] \in Metadata, meta'[w] # meta[w]
  PROVE  \E p \in Proc : /\ PublishMeta(p) \/ WriteHeartbeat(p)
                         /\ w = WorkspaceOf[p] /\ meta'[w] = OwnMetadata(p)
  <1> USE ConstantsAssumption DEF TypeInv, TypeOK
  <1>1. ASSUME NEW p \in Proc, PublishMeta(p) \/ WriteHeartbeat(p)
        PROVE  w = WorkspaceOf[p] /\ meta'[w] = OwnMetadata(p)
    BY <1>1 DEF PublishMeta, WriteHeartbeat, WriteOwnMetadata, SetMeta
  <1>2. ASSUME NEW p \in Proc, LoadSecretAndOpenMeta(p) \/ OpenHeartbeat(p) PROVE FALSE
    BY <1>2, MetadataAssumption DEF LoadSecretAndOpenMeta, OpenHeartbeat, SetMeta
  <1>3. meta' = meta \/ \E p \in Proc : \/ PublishMeta(p) \/ WriteHeartbeat(p)
                                       \/ LoadSecretAndOpenMeta(p) \/ OpenHeartbeat(p)
    BY DEF Next, Run, Tick, CheckExists, ReadLock, ReadLockFails, Refuse, Reclaim, UnlinkStale,
           OpenLock, WriteLock, FindAvailablePort, PublishFails, Listen, HeartbeatFails,
           ShutdownRelease, ExitRelease, FailRelease, Start, Shutdown, Crash, ReusePid,
           Suspend, Resume, vars
  <1> QED
    BY <1>1, <1>2, <1>3

FileInv ==
  \A w \in Workspace :
    meta[w] \in Metadata => FromOneHost(meta[w]) /\ WorkspaceOf[meta[w].pid] = w

LEMMA FileStep == TypeInv /\ FileInv /\ [Next]_vars => FileInv'
  <1> SUFFICES ASSUME TypeInv, FileInv, [Next]_vars,
                      NEW w \in Workspace, meta'[w] \in Metadata
               PROVE  (FromOneHost(meta[w]) /\ WorkspaceOf[meta[w].pid] = w)'
    BY DEF FileInv
  <1>1. CASE meta'[w] = meta[w]
    <2>1. PICK m \in Metadata : m = meta[w]
      BY <1>1
    <2>2. FromOneHost(m) /\ WorkspaceOf[m.pid] = w
      BY <2>1 DEF FileInv
    <2>3. FromOneHost(m)'
      BY <2>2, PublishedStays
    <2> QED
      BY <1>1, <2>1, <2>2, <2>3
  <1>2. CASE meta'[w] # meta[w]
    <2>1. PICK p \in Proc : /\ PublishMeta(p) \/ WriteHeartbeat(p)
                            /\ w = WorkspaceOf[p] /\ meta'[w] = OwnMetadata(p)
      BY <1>2, MetadataWritten
    <2>2. /\ pc'[p] \in {"binding", "serving"}
          /\ UNCHANGED <<port, secret>>
      BY <2>1 DEF PublishMeta, WriteHeartbeat, Step, TypeInv, TypeOK
    <2>3. meta'[w].pid = p /\ meta'[w].port = port[p] /\ meta'[w].secret = secret[p]
      BY <2>1 DEF OwnMetadata
    <2> QED
      BY <2>1, <2>2, <2>3 DEF FromOneHost, Early, Starting, Hosting
  <1> QED
    BY <1>1, <1>2

-----------------------------------------------------------------------------
(* What a client has found.                                                *)

ConfigInv ==
  /\ TypeInv
  /\ FileInv
  /\ config \in [Client -> Metadata \cup {None}]
  /\ \A c \in Client : config[c] # None =>
       FromOneHost(config[c]) /\ WorkspaceOf[config[c].pid] = HomeOf[c]

LEMMA ConfigStep == ConfigInv /\ [EnsureNext]_ensureVars => ConfigInv'
  <1> SUFFICES ASSUME ConfigInv, [EnsureNext]_ensureVars PROVE ConfigInv'
    OBVIOUS
  <1>1. [Next]_vars /\ TypeInv' /\ FileInv'
    BY HostsStep, TypeStep, FileStep DEF ConfigInv
  \* What was one host's own still is.
  <1>2. ASSUME NEW m \in Metadata, NEW c \in Client,
               FromOneHost(m), WorkspaceOf[m.pid] = HomeOf[c], config'[c] = m
        PROVE  (FromOneHost(config[c]) /\ WorkspaceOf[config[c].pid] = HomeOf[c])'
    <2>1. FromOneHost(m)'
      BY <1>1, <1>2, PublishedStays DEF ConfigInv
    <2> QED
      BY <1>2, <2>1
  <1>3. CASE config' = config
    <2>1. config' \in [Client -> Metadata \cup {None}]
      BY <1>3 DEF ConfigInv
    <2>2. ASSUME NEW c \in Client, config'[c] # None
          PROVE  (FromOneHost(config[c]) /\ WorkspaceOf[config[c].pid] = HomeOf[c])'
      <3>1. PICK m \in Metadata : m = config[c] /\ config'[c] = m
        BY <1>3, <2>2 DEF ConfigInv
      <3>2. FromOneHost(m) /\ WorkspaceOf[m.pid] = HomeOf[c]
        BY <1>3, <2>2, <3>1 DEF ConfigInv
      <3> QED
        BY <1>2, <3>1, <3>2
    <2> QED
      BY <1>1, <2>1, <2>2 DEF ConfigInv
  <1>4. ASSUME NEW c \in Client, Look(c) \/ Poll(c) PROVE ConfigInv'
    <2>1. /\ meta[HomeOf[c]] \in Metadata /\ HomeOf[c] \in Workspace
          /\ config' = [config EXCEPT ![c] = meta[HomeOf[c]]]
          /\ UNCHANGED vars
      BY <1>4, ClientsAssumption DEF Look, Poll, Take, HealthyMeta
    <2>2. ASSUME NEW d \in Client, config'[d] # None
          PROVE  (FromOneHost(config[d]) /\ WorkspaceOf[config[d].pid] = HomeOf[d])'
      <3>1. CASE d = c
        <4>1. PICK m \in Metadata : m = meta[HomeOf[c]]
          BY <2>1
        <4>2. FromOneHost(m) /\ WorkspaceOf[m.pid] = HomeOf[d] /\ config'[d] = m
          BY <2>1, <3>1, <4>1 DEF ConfigInv, FileInv
        <4> QED
          BY <1>2, <4>2
      <3>2. CASE d # c
        <4>1. PICK m \in Metadata : m = config[d] /\ config'[d] = m
          BY <2>1, <2>2, <3>2 DEF ConfigInv
        <4>2. FromOneHost(m) /\ WorkspaceOf[m.pid] = HomeOf[d]
          BY <2>2, <4>1 DEF ConfigInv
        <4> QED
          BY <1>2, <4>1, <4>2
      <3> QED
        BY <3>1, <3>2
    <2>3. config' \in [Client -> Metadata \cup {None}]
      BY <2>1 DEF ConfigInv
    <2> QED
      BY <1>1, <2>2, <2>3 DEF ConfigInv
  <1> QED
    BY <1>3, <1>4
       DEF EnsureNext, HostStep, ClientNext, LookInVain, SpawnFails, GiveUp, Spawn, ensureVars,
           clientVars

\* A client connects to the port and with the secret of one host, of its own workspace,
\* however many hosts wrote the files while it looked and polled.
THEOREM ConfigFromOneHost == EnsureSpec => []ConfigOfOneHost
  <1>1. EnsureInit => ConfigInv
    BY ConstantsAssumption, MetadataAssumption
       DEF EnsureInit, Init, ConfigInv, FileInv, TypeInv, TypeOK, Label, Published, Hosting
  <1>2. ConfigInv => ConfigOfOneHost
    BY DEF ConfigInv, FromOneHost, ConfigOfOneHost
  <1> QED
    BY <1>1, <1>2, ConfigStep, PTL DEF EnsureSpec

-----------------------------------------------------------------------------
(* The secret a client keeps.                                              *)

\* Whoever has published serves with the client's secret, and the file, when readable,
\* holds it: as long as no host has generated another.
KeptInv ==
  /\ CarefulInv
  /\ MetadataInv
  /\ config \in [Client -> Metadata \cup {None}]
  /\ \A p \in Proc : pc[p] \in Early \ {"filling"} => secret[p] = None
  /\ \A c \in Client : config[c] # None /\ c \notin renewed =>
       /\ meta[HomeOf[c]] \in Metadata => meta[HomeOf[c]].secret = config[c].secret
       /\ \A p \in Proc : WorkspaceOf[p] = HomeOf[c] /\ pc[p] \in Published
                            => secret[p] = config[c].secret

LEMMA SecretUnset ==
  ASSUME TypeInv, \A p \in Proc : pc[p] \in Early \ {"filling"} => secret[p] = None,
         [CarefulNext]_vars
  PROVE  \A p \in Proc : pc'[p] \in Early \ {"filling"} => secret'[p] = None
  <1> DEFINE Unset == \A p \in Proc : pc[p] \in Early \ {"filling"} => secret[p] = None
  <1> SUFFICES Unset'
    OBVIOUS
  <1> USE DEF TypeInv, TypeOK, Early, Label, Starting, Preparing, Hosting, Leaving, Ended
  <1>1. CASE Tick
    BY <1>1 DEF Tick, Waiting, procVars, osVars
  <1>2. ASSUME NEW p \in Proc, CheckExists(p) PROVE Unset'
    BY <1>2 DEF CheckExists, Step, MyLock, osVars
  <1>3. ASSUME NEW p \in Proc, ReadLock(p) PROVE Unset'
    BY <1>3 DEF ReadLock, Step, MyLock, osVars
  <1>4. ASSUME NEW p \in Proc, ReadLockFails(p) PROVE Unset'
    BY <1>4 DEF ReadLockFails, Step, Gone
  <1>5. ASSUME NEW p \in Proc, Refuse(p) PROVE Unset'
    BY <1>5 DEF Refuse, Step, Gone
  <1>6. ASSUME NEW p \in Proc, Reclaim(p) PROVE Unset'
    BY <1>6 DEF Reclaim, Step, osVars
  <1>7. ASSUME NEW p \in Proc, UnlinkStale(p) PROVE Unset'
    BY <1>7 DEF UnlinkStale, Step, RemoveLock, SetLock, osVars
  <1>8. ASSUME NEW p \in Proc, OpenLock(p) PROVE Unset'
    BY <1>8 DEF OpenLock, Step, SetLock, osVars
  <1>9. ASSUME NEW p \in Proc, WriteLock(p) PROVE Unset'
    BY <1>9 DEF WriteLock, Step, SetLock, osVars
  <1>10. ASSUME NEW p \in Proc, FindAvailablePort(p) PROVE Unset'
    BY <1>10 DEF FindAvailablePort, Step, FreePorts, osVars
  <1>11. ASSUME NEW p \in Proc, LoadSecretAndOpenMeta(p) PROVE Unset'
    BY <1>11 DEF LoadSecretAndOpenMeta, Step, SetMeta, MyMeta, osVars
  <1>12. ASSUME NEW p \in Proc, PublishMeta(p) PROVE Unset'
    BY <1>12 DEF PublishMeta, Step, WriteOwnMetadata, SetMeta, OwnMetadata, osVars,
       Metadata
  <1>13. ASSUME NEW p \in Proc, PublishFails(p) PROVE Unset'
    BY <1>13 DEF PublishFails, Step, osVars
  <1>14. ASSUME NEW p \in Proc, Listen(p) PROVE Unset'
    BY <1>14 DEF Listen, Step, osVars
  <1>15. ASSUME NEW p \in Proc, OpenHeartbeat(p) PROVE Unset'
    BY <1>15 DEF OpenHeartbeat, Step, SetMeta, osVars
  <1>16. ASSUME NEW p \in Proc, WriteHeartbeat(p) PROVE Unset'
    BY <1>16 DEF WriteHeartbeat, Step, WriteOwnMetadata, SetMeta, OwnMetadata, osVars,
       Metadata
  <1>17. ASSUME NEW p \in Proc, HeartbeatFails(p) PROVE Unset'
    BY <1>17 DEF HeartbeatFails, Step, osVars
  <1>18. ASSUME NEW p \in Proc, ShutdownRelease(p) PROVE Unset'
    BY <1>18 DEF ShutdownRelease, Step, RemoveLock, SetLock, osVars
  <1>19. ASSUME NEW p \in Proc, ExitRelease(p) PROVE Unset'
    BY <1>19 DEF ExitRelease, Step, RemoveLock, SetLock, Gone
  <1>20. ASSUME NEW p \in Proc, FailRelease(p) PROVE Unset'
    BY <1>20 DEF FailRelease, Step, RemoveLock, SetLock, Gone
  <1>21. ASSUME NEW p \in Proc, Quiet(p), Start(p) PROVE Unset'
    BY <1>21 DEF Start, Step, Quiet
  <1>22. ASSUME NEW p \in Proc, Quiet(p), Shutdown(p) PROVE Unset'
    BY <1>22 DEF Shutdown, Step, osVars, Quiet
  <1>23. ASSUME NEW p \in Proc, Crash(p) PROVE Unset'
    BY <1>23 DEF Crash, Gone
  <1>24. ASSUME NEW p \in Proc, ReusePid(p) PROVE Unset'
    BY <1>24 DEF ReusePid, procVars
  <1>25. CASE UNCHANGED vars
    BY <1>25 DEF vars, procVars, osVars
  <1> QED
    BY <1>1, <1>2, <1>3, <1>4, <1>5, <1>6, <1>7, <1>8, <1>9, <1>10, <1>11, <1>12,
       <1>13, <1>14, <1>15, <1>16, <1>17, <1>18, <1>19, <1>20, <1>21, <1>22, <1>23,
       <1>24, <1>25 DEF CarefulNext, Run

\* A process serves with the secret it loaded, or with its own when there was none.
LEMMA SecretChosen ==
  ASSUME TypeInv, [CarefulNext]_vars, NEW p \in Proc, pc'[p] \in Published
  PROVE  \/ secret'[p] = secret[p] /\ pc[p] \in Published
         \/ /\ LoadSecretAndOpenMeta(p)
            /\ secret'[p] = IF MyMeta(p) \in Metadata THEN MyMeta(p).secret ELSE p
            /\ pc[p] = "publishing"
  <1> DEFINE Goal == \/ secret'[p] = secret[p] /\ pc[p] \in Published
                     \/ /\ LoadSecretAndOpenMeta(p)
                        /\ secret'[p] = IF MyMeta(p) \in Metadata THEN MyMeta(p).secret ELSE p
                        /\ pc[p] = "publishing"
  <1>1. CASE LoadSecretAndOpenMeta(p)
    BY <1>1 DEF LoadSecretAndOpenMeta, Step, TypeInv, TypeOK
  <1>2. CASE ~LoadSecretAndOpenMeta(p)
    <2>1. secret'[p] = secret[p]
      BY <1>2 DEF CarefulNext, Run, Tick, CheckExists, ReadLock, ReadLockFails, Refuse, Reclaim,
           UnlinkStale, OpenLock, WriteLock, FindAvailablePort, LoadSecretAndOpenMeta, PublishMeta,
           PublishFails, Listen, OpenHeartbeat, WriteHeartbeat, HeartbeatFails, ShutdownRelease,
           ExitRelease, FailRelease, Start, Shutdown, Crash, ReusePid, vars, procVars,
           TypeInv, TypeOK
    <2>2. pc[p] \in Published
      BY <1>2 DEF CarefulNext, Run, Tick, CheckExists, ReadLock, ReadLockFails, Refuse, Reclaim,
           UnlinkStale, OpenLock, WriteLock, FindAvailablePort, PublishMeta,
           LoadSecretAndOpenMeta,
           PublishFails, Listen, OpenHeartbeat, WriteHeartbeat, HeartbeatFails, ShutdownRelease,
           ExitRelease, FailRelease, Start, Shutdown, Crash, ReusePid, vars, procVars, Step,
           TypeInv, TypeOK, Published, Hosting, Ended
    <2> QED
      BY <2>1, <2>2
  <1> QED
    BY <1>1, <1>2

\* Steps that leave what the clients have found alone.
LEMMA KeptHostStep ==
  ASSUME KeptInv, [CarefulNext]_vars, config' = config, renewed \subseteq renewed',
         secret' = secret \/ NoteRenewal,
         NEW c \in Client, config[c] # None, c \notin renewed'
  PROVE  /\ meta'[HomeOf[c]] \in Metadata => meta'[HomeOf[c]].secret = config[c].secret
         /\ \A p \in Proc : WorkspaceOf[p] = HomeOf[c] /\ pc'[p] \in Published
                              => secret'[p] = config[c].secret
  <1>1. TypeInv /\ [Next]_vars /\ HomeOf[c] \in Workspace /\ c \notin renewed
    BY ClientsAssumption DEF KeptInv, CarefulInv, CarefulNext, Next
  <1>2. /\ meta[HomeOf[c]] \in Metadata => meta[HomeOf[c]].secret = config[c].secret
        /\ \A p \in Proc : WorkspaceOf[p] = HomeOf[c] /\ pc[p] \in Published
                             => secret[p] = config[c].secret
    BY <1>1 DEF KeptInv
  <1>3. ASSUME meta'[HomeOf[c]] \in Metadata
        PROVE  meta'[HomeOf[c]].secret = config[c].secret
    <2>1. CASE meta'[HomeOf[c]] = meta[HomeOf[c]]
      BY <1>2, <1>3, <2>1
    <2>2. CASE meta'[HomeOf[c]] # meta[HomeOf[c]]
      <3>1. PICK p \in Proc : /\ PublishMeta(p) \/ WriteHeartbeat(p)
                              /\ HomeOf[c] = WorkspaceOf[p] /\ meta'[HomeOf[c]] = OwnMetadata(p)
        BY <1>1, <1>3, <2>2, MetadataWritten
      <3>2. pc[p] \in Published
        BY <3>1 DEF PublishMeta, WriteHeartbeat, Step, Published, Hosting
      <3> QED
        BY <1>2, <3>1, <3>2 DEF OwnMetadata
    <2> QED
      BY <2>1, <2>2
  <1>4. ASSUME NEW p \in Proc, WorkspaceOf[p] = HomeOf[c], pc'[p] \in Published
        PROVE  secret'[p] = config[c].secret
    <2>1. CASE secret'[p] = secret[p] /\ pc[p] \in Published
      BY <1>2, <1>4, <2>1
    <2>2. CASE /\ secret'[p] = IF MyMeta(p) \in Metadata THEN MyMeta(p).secret ELSE p
               /\ pc[p] = "publishing"
      <3>1. secret[p] = None /\ p # None
        BY <2>2, ConstantsAssumption DEF KeptInv, Early
      <3>2. CASE MyMeta(p) \in Metadata
        BY <1>2, <1>4, <2>2, <3>2 DEF MyMeta
      <3>3. CASE MyMeta(p) \notin Metadata
        <4>1. secret'[p] = p
          BY <2>2, <3>3
        <4>2. c \in renewed'
          BY <1>4, <3>1, <4>1 DEF NoteRenewal
        <4> QED
          BY <4>2
      <3> QED
        BY <3>2, <3>3
    <2> QED
      BY <1>1, <1>4, <2>1, <2>2, SecretChosen
  <1> QED
    BY <1>3, <1>4

LEMMA KeptStep == KeptInv /\ [CarefulEnsureNext]_ensureVars => KeptInv'
  <1> SUFFICES ASSUME KeptInv, [CarefulEnsureNext]_ensureVars PROVE KeptInv'
    OBVIOUS
  <1> DEFINE Kept(c) ==
        config[c] # None /\ c \notin renewed =>
          /\ meta[HomeOf[c]] \in Metadata => meta[HomeOf[c]].secret = config[c].secret
          /\ \A p \in Proc : WorkspaceOf[p] = HomeOf[c] /\ pc[p] \in Published
                               => secret[p] = config[c].secret
  <1>1. [CarefulNext]_vars
    BY CarefulHostsStep
  <1>2. /\ CarefulInv /\ CarefulInv' /\ MetadataInv' /\ TypeInv
        /\ \A p \in Proc : pc'[p] \in Early \ {"filling"} => secret'[p] = None
    BY <1>1, CarefulStep, MetadataStep, SecretUnset DEF KeptInv, CarefulInv
  <1>3. CASE config' = config /\ renewed \subseteq renewed' /\ (secret' = secret \/ NoteRenewal)
    <2>1. \A c \in Client : Kept(c)'
      BY <1>1, <1>3, KeptHostStep
    <2> QED
      BY <1>2, <1>3, <2>1 DEF KeptInv
  <1>4. ASSUME NEW c \in Client, Look(c) \/ Poll(c) PROVE KeptInv'
    <2>1. /\ meta[HomeOf[c]] \in Metadata
          /\ config' = [config EXCEPT ![c] = meta[HomeOf[c]]]
          /\ UNCHANGED <<vars, renewed>>
      BY <1>4 DEF Look, Poll, Take, HealthyMeta
    <2>2. config' \in [Client -> Metadata \cup {None}]
      BY <2>1 DEF KeptInv
    <2>3. UNCHANGED <<pc, secret, meta, renewed>>
      BY <2>1 DEF vars, procVars
    \* Nobody is about to write, and whoever has written wrote what the client reads.
    <2>4. ASSUME NEW p \in Proc, WorkspaceOf[p] = HomeOf[c], pc[p] \in Published
          PROVE  secret[p] = meta[HomeOf[c]].secret
      <3>1. MyMeta(p) = meta[HomeOf[c]]
        BY <2>4 DEF MyMeta
      <3>2. pc[p] # "filling"
        BY <2>1, <3>1, MetadataAssumption DEF KeptInv, MetadataInv
      <3>3. MyMeta(p) = OwnMetadata(p)
        BY <2>1, <2>4, <3>1, <3>2 DEF KeptInv, MetadataInv, Published
      <3> QED
        BY <3>1, <3>3 DEF OwnMetadata
    <2>5. ASSUME NEW d \in Client PROVE Kept(d)'
      <3>1. CASE d = c
        <4>1. config'[d] = meta[HomeOf[c]]
          BY <2>1, <3>1 DEF KeptInv
        <4> QED
          BY <2>3, <2>4, <3>1, <4>1
      <3>2. CASE d # c
        <4>1. config'[d] = config[d]
          BY <2>1, <3>2 DEF KeptInv
        <4> QED
          BY <2>3, <4>1 DEF KeptInv
      <3> QED
        BY <3>1, <3>2
    <2> QED
      BY <1>2, <2>2, <2>5 DEF KeptInv
  <1>5. ASSUME NEW c \in Client, NEW p \in Proc, Spawn(c, p) PROVE KeptInv'
    BY <1>3, <1>5 DEF Spawn, Start
  <1>6. CASE NoteRenewal /\ UNCHANGED config
    BY <1>3, <1>6 DEF NoteRenewal
  <1>7. CASE UNCHANGED <<config, renewed, vars>>
    BY <1>3, <1>7 DEF vars, procVars
  <1>8. CASE UNCHANGED ensureVars
    BY <1>7, <1>8 DEF ensureVars, clientVars
  <1> QED
    BY <1>4, <1>5, <1>6, <1>7, <1>8 DEF CarefulEnsureNext, LookInVain, SpawnFails, GiveUp

\* A client can reconnect for good: while hosts are started and stopped with care, and
\* crash as they like, each host of its workspace accepts the secret it found, unless one
\* of them found no readable metadata and generated another.
THEOREM SecretKept == CarefulEnsureSpec => []SecretOutlivesHost
  <1>1. EnsureInit => CarefulInv
    BY ConstantsAssumption
       DEF EnsureInit, Init, CarefulInv, TypeInv, TypeOK, Published, Running, Label, Starting,
           Preparing, Hosting, Leaving, Ended, Settled, Rivals, Taking
  <1>2. EnsureInit => KeptInv
    BY <1>1, ConstantsAssumption DEF EnsureInit, Init, KeptInv, MetadataInv, Hosting
  <1>3. KeptInv => SecretOutlivesHost
    BY DEF KeptInv, SecretOutlivesHost, Published
  <1> QED
    BY <1>2, <1>3, KeptStep, PTL DEF CarefulEnsureSpec

=============================================================================
