----------------------------- MODULE HostEnsure -----------------------------
(***************************************************************************)
(* Programs that call startBridge, next to the hosts of HostLock:          *)
(* ensureHostIfPossible of src/client.ts reads the metadata of a host, or  *)
(* spawns one and polls for its metadata.                                  *)
(*                                                                         *)
(* The client keeps what it found for good: it reconnects with the same    *)
(* URL and secret, however often the host is restarted.                    *)
(***************************************************************************)
EXTENDS HostLock

CONSTANTS
  Client,   \* programs that call startBridge, each once
  HomeOf    \* the working directory of each

ASSUME ClientsAssumption == HomeOf \in [Client -> Workspace]

VARIABLES
  stage,    \* of each client: where it stands
  config,   \* the metadata it found, or None for the defaults
  renewed   \* clients of whose workspace a host has generated a secret since they looked

clientVars == <<stage, config, renewed>>
ensureVars == <<vars, clientVars>>

EnsureInit ==
  /\ Init
  /\ stage = [c \in Client |-> "new"]
  /\ config = [c \in Client |-> None]
  /\ renewed = {}

\* readHealthyMeta: the file parses, its process runs and its heartbeat is fresh.
HealthyMeta(w) == meta[w] \in Metadata /\ meta[w].pid \in alive /\ ~StaleMetadata(w)

Moves(c, a, b) == stage[c] = a /\ stage' = [stage EXCEPT ![c] = b]

\* The client goes on with what it read.
Take(c, a) ==
  /\ Moves(c, a, "ready")
  /\ HealthyMeta(HomeOf[c])
  /\ config' = [config EXCEPT ![c] = meta[HomeOf[c]]]
  /\ UNCHANGED <<renewed, vars>>

Look(c) == Take(c, "new")

LookInVain(c) ==
  /\ Moves(c, "new", "spawning")
  /\ ~HealthyMeta(HomeOf[c])
  /\ UNCHANGED <<config, renewed, vars>>

\* A detached host process; it may find that another has the lock.
Spawn(c, p) ==
  /\ Moves(c, "spawning", "polling")
  /\ WorkspaceOf[p] = HomeOf[c] /\ Start(p)
  /\ UNCHANGED <<config, renewed>>

\* The command does not exist: spawn throws, or its error event comes later.
SpawnFails(c) ==
  /\ Moves(c, "spawning", "polling") \/ Moves(c, "spawning", "ready")
  /\ UNCHANGED <<config, renewed, vars>>

Poll(c) == Take(c, "polling")

\* Two seconds have passed: the default URL and secret.
GiveUp(c) ==
  /\ Moves(c, "polling", "ready")
  /\ ~HealthyMeta(HomeOf[c])
  /\ UNCHANGED <<config, renewed, vars>>

\* Note who was looking when a host found no secret it could go on with.
NoteRenewal ==
  renewed' = renewed \cup
    {c \in Client : /\ config[c] # None
                    /\ \E p \in Proc : /\ WorkspaceOf[p] = HomeOf[c]
                                       /\ secret[p] = None /\ secret'[p] = p}

ClientNext(c) ==
  \/ Look(c) \/ LookInVain(c) \/ SpawnFails(c) \/ Poll(c) \/ GiveUp(c)
  \/ \E p \in Proc : Spawn(c, p)

HostStep == Next /\ NoteRenewal /\ UNCHANGED <<stage, config>>

EnsureNext == HostStep \/ \E c \in Client : ClientNext(c)
EnsureSpec == EnsureInit /\ [][EnsureNext]_ensureVars /\ Fairness

\* Careful operation, with clients that spawn no second host.
CarefulEnsureNext ==
  \/ CarefulNext /\ NoteRenewal /\ UNCHANGED <<stage, config>>
  \/ \E c \in Client : \/ Look(c) \/ LookInVain(c) \/ SpawnFails(c) \/ Poll(c) \/ GiveUp(c)
                       \/ \E p \in Proc : Quiet(p) /\ Spawn(c, p)
CarefulEnsureSpec == EnsureInit /\ [][CarefulEnsureNext]_ensureVars

-----------------------------------------------------------------------------
(* Properties.                                                             *)

\* What a client found is what one host of its own workspace serves with, however
\* hosts raced for the files while it read: never the port of one and the secret of
\* another.
ConfigOfOneHost ==
  \A c \in Client : config[c] # None =>
    LET m == config[c] IN
      /\ WorkspaceOf[m.pid] = HomeOf[c]
      /\ secret[m.pid] = m.secret
      /\ pc[m.pid] \in Hosting => port[m.pid] = m.port

\* A client can reconnect after the host was stopped, crashed or restarted: whichever
\* host serves its workspace accepts the secret the client found, unless some host
\* found no readable metadata to take the secret from.
SecretOutlivesHost ==
  \A c \in Client, p \in Proc :
    /\ config[c] # None /\ c \notin renewed
    /\ WorkspaceOf[p] = HomeOf[c] /\ pc[p] \in Hosting
    => secret[p] = config[c].secret

=============================================================================
