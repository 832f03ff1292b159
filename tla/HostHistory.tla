----------------------------- MODULE HostHistory -----------------------------
(***************************************************************************)
(* HostLock with a history variable: which processes may still take the    *)
(* lock of a host away, because they were under way before it had the      *)
(* lock, or judged it while it looked dead.                                *)
(***************************************************************************)
EXTENDS HostLock

VARIABLE excused   \* of each process: those that may remove or overwrite its lock

HistoryInit == excused = [q \in Proc |-> {}]

\* p and q are different processes of one workspace.
Rivals(p, q) == p # q /\ WorkspaceOf[p] = WorkspaceOf[q]

Goes(p, a, b) == pc[p] = a /\ pc'[p] = b

\* q has announced itself in the metadata, runs its timers in time, and no other host has
\* written the metadata since.
Healthy(q) ==
  /\ pc[q] \in {"binding"} \cup Hosting
  /\ q \notin suspended \cup due
  /\ MyMeta(q) \in Metadata => MyMeta(q).pid = q

\* Those that are starting or stopping while q takes the lock.
UnderWay(q) == {p \in Proc : Rivals(p, q) /\ pc[p] \notin {"idle"} \cup Ended}

\* Those that now decide to take the lock over from q, which is not healthy.
Condemning(q) ==
  {p \in Proc : Goes(p, "judging", "reclaiming") /\ seen[p] = q /\ ~Healthy(q)}

RecordExcused ==
  excused' = [q \in Proc |-> IF Goes(q, "writing", "probing")
                               THEN UnderWay(q) ELSE excused[q] \cup Condemning(q)]

historyVars == <<vars, excused>>
HistorySpec == Init /\ HistoryInit /\ [][Next /\ RecordExcused]_historyVars

-----------------------------------------------------------------------------
(* Properties.                                                             *)

\* A process that is started after a host took the lock neither removes nor overwrites
\* that lock, whether it is refused, takes over, fails, is stopped or crashes, unless it
\* judged the host while that was suspended, late with its heartbeat, or not yet or no
\* longer the one the metadata names.  Starts and stops that overlap with the host's own
\* start are excused: they do take its lock, as two hosts of one workspace show.
HostKeepsLock ==
  [][\A p, q \in Proc :
       /\ Rivals(p, q) /\ pc'[p] # pc[p]
       /\ pc[q] \in Hosting /\ MyLock(q) = q /\ lock'[WorkspaceOf[q]] # q
       => p \in excused[q]]_historyVars

=============================================================================
