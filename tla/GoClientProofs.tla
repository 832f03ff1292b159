---------------------------- MODULE GoClientProofs ----------------------------
(***************************************************************************)
(* Theorems about GoClient, for any number of goroutines that send, of     *)
(* connections and of events, and every limit of the buffer.               *)
(***************************************************************************)
EXTENDS GoClient, FiniteSetTheorems, SequenceTheorems, TLAPS

-----------------------------------------------------------------------------
(* Types.                                                                  *)

Senders == Apps \cup Readers

\* The goroutines are distinct.
LEMMA Goroutines ==
  /\ Goroutine = Senders \cup {Run, Closer}
  /\ Run # Closer /\ Run \notin Senders /\ Closer \notin Senders
  /\ Apps \cap Readers = {}
  /\ \A g \in Conn : Reader(g) \in Readers /\ Reader(g) \notin Apps
  /\ \A x \in Readers : \E g \in Conn : x = Reader(g)
  /\ \A g, h : Reader(g) = Reader(h) => g = h
  /\ \A x \in Goroutine : x # None
  BY ConstantsAssumption DEF Senders, Goroutine, Run, Closer, Reader, Readers, Apps

AnyFrame == [kind : {"auth", "hello", "direct", "flushed", "notice"}, n : Nat]

TypeInv ==
  /\ TypeOK
  /\ accepted \in Nat /\ dropped \in Nat /\ buffer \in Seq(Nat)
  /\ writing \in [Goroutine -> {None} \cup [to : Conn, frame : AnyFrame]]
  /\ wire \in [Conn -> Seq(AnyFrame)]

LEMMA FramesTyped ==
  /\ Auth \in AnyFrame /\ Hello \in AnyFrame
  /\ \A i \in Nat : Direct(i) \in AnyFrame /\ Flushed(i) \in AnyFrame /\ Notice(i) \in AnyFrame
  BY DEF Auth, Hello, Direct, Flushed, Notice, Frame, AnyFrame

\* A write begins, or the program panics.
LEMMA BeginTyped ==
  ASSUME TypeInv, NEW x \in Goroutine, NEW f \in AnyFrame, BeginWrite(x, f)
  PROVE  /\ writing' \in [Goroutine -> {None} \cup [to : Conn, frame : AnyFrame]]
         /\ up' \in [Conn -> {"none", "open", "broken", "closed"}]
         /\ wire' = wire /\ pc' = pc
  <1> USE DEF TypeInv, TypeOK
  <1>1. CASE Panic /\ UNCHANGED pc
    BY <1>1 DEF Panic
  <1>2. CASE /\ conn # None /\ UNCHANGED <<wire, crashed, pc>>
             /\ writing' = [writing EXCEPT ![x] = [to |-> conn, frame |-> f]]
             /\ up' = [up EXCEPT ![conn] = IF Busy(conn) /\ @ = "open" THEN "broken" ELSE @]
    <2>1. [to |-> conn, frame |-> f] \in [to : Conn, frame : AnyFrame]
      BY <1>2
    <2>2. writing' \in [Goroutine -> {None} \cup [to : Conn, frame : AnyFrame]]
      BY <1>2, <2>1
    <2> QED
      BY <1>2, <2>2
  <1> QED
    BY <1>1, <1>2 DEF BeginWrite

LEMMA EndTyped ==
  ASSUME TypeInv, NEW x \in Goroutine, EndWrite(x)
  PROVE  /\ writing' \in [Goroutine -> {None} \cup [to : Conn, frame : AnyFrame]]
         /\ wire' \in [Conn -> Seq(AnyFrame)] /\ up' = up
         /\ writing[x].to \in Conn /\ writing[x].frame \in AnyFrame
  <1> USE DEF TypeInv
  <1>1. writing[x].to \in Conn /\ writing[x].frame \in AnyFrame
    BY DEF EndWrite
  <1>2. Append(wire[writing[x].to], writing[x].frame) \in Seq(AnyFrame)
    BY <1>1, AppendProperties
  <1> QED
    BY <1>1, <1>2 DEF EndWrite

\* The buffer drops its first event when it is full.
LEMMA BufferTyped ==
  ASSUME TypeInv, NEW n \in Nat, buffer' = Append(IF Full THEN Tail(buffer) ELSE buffer, n)
  PROVE  buffer' \in Seq(Nat) /\ Len(buffer') <= BufferLimit /\ (Full => buffer # <<>>)
  <1> USE ConstantsAssumption DEF TypeInv, TypeOK, Full
  <1>1. Len(buffer) \in Nat
    BY LenProperties
  <1>2. \A q \in Seq(Nat) : Append(q, n) \in Seq(Nat) /\ Len(Append(q, n)) = Len(q) + 1
    BY AppendProperties
  <1>3. CASE Full
    <2>1. buffer # <<>>
      BY <1>1, <1>3, EmptySeq
    <2>2. Tail(buffer) \in Seq(Nat) /\ Len(Tail(buffer)) = Len(buffer) - 1
      BY <2>1, HeadTailProperties
    <2> QED
      BY <1>1, <1>2, <1>3, <2>1, <2>2
  <1>4. CASE ~Full
    BY <1>1, <1>2, <1>4
  <1> QED
    BY <1>3, <1>4

LEMMA InitTyped == Init => TypeInv
  BY ConstantsAssumption, Goroutines DEF Init, TypeInv, TypeOK, Conn

LEMMA TypeStep == TypeInv /\ [Next]_vars => TypeInv'
  <1> SUFFICES ASSUME TypeInv, [Next]_vars PROVE TypeInv'
    OBVIOUS
  <1> USE ConstantsAssumption
  <1>1. ASSUME UNCHANGED <<accepted, buffer, dropped, wire, writing>>, TypeOK' PROVE TypeInv'
    BY <1>1 DEF TypeInv
  <1> USE DEF TypeInv, TypeOK, connVars, ctxVars, queueVars, ioVars
  <1>2. ASSUME NEW from, NEW to, NEW f \in AnyFrame, Write(f, from, to),
               to \in {"await", "lock"}
        PROVE  TypeInv'
    <2>1. CASE BeginWrite(Run, f)
      BY <1>2, <2>1, BeginTyped, Goroutines DEF Write
    <2>2. CASE EndWrite(Run) /\ \E p \in {to, "returned"} : Goes(Run, from, p)
      <3>1. UNCHANGED <<connVars, ctxVars, queueVars, crashed>>
        BY <1>2, <2>2 DEF Write, EndWrite
      <3>2. pc' \in [Goroutine -> {"idle", "buffer", "send", "dial", "auth", "await", "hello",
                    "lock", "flush", "watch", "returned", "next", "reading", "handle",
                    "close", "done"}]
        BY <1>2, <2>2 DEF Goes
      <3> QED
        BY <2>2, <3>1, <3>2, EndTyped, Goroutines
    <2> QED
      BY <1>2, <2>1, <2>2 DEF Write
  <1>3. CASE Write(Auth, "auth", "await") \/ Write(Hello, "hello", "lock")
    BY <1>2, <1>3, FramesTyped
  <1>4. CASE Flush
    <2>1. buffer # <<>> => /\ Head(buffer) \in Nat /\ Tail(buffer) \in Seq(Nat)
                           /\ Len(Tail(buffer)) <= BufferLimit
      BY HeadTailProperties, LenProperties
    <2>2. Launch => pc' \in [Goroutine -> {"idle", "buffer", "send", "dial", "auth", "await",
             "hello", "lock", "flush", "watch", "returned", "next", "reading", "handle",
             "close", "done"}] /\ mu' = None
      BY DEF Launch
    <2>3. CASE buffer # <<>> /\ BeginWrite(Run, Flushed(Head(buffer)))
      BY <1>4, <2>1, <2>3, BeginTyped, FramesTyped, Goroutines DEF Flush, FlushFirst
    <2>4. CASE buffer # <<>> /\ EndWrite(Run) /\ UNCHANGED pc
      BY <1>4, <2>1, <2>4, EndTyped, Goroutines DEF Flush, FlushFirst
    <2>5. CASE BeginWrite(Run, Notice(dropped)) /\ UNCHANGED <<buffer, mu, dropped>>
      BY <1>4, <2>5, BeginTyped, FramesTyped, Goroutines DEF Flush, FlushFirst
    <2>6. CASE EndWrite(Run) /\ Launch /\ dropped' = ResetCount /\ UNCHANGED buffer
      BY <1>4, <2>2, <2>6, EndTyped, Goroutines DEF Flush, FlushFirst, ResetCount
    <2>7. CASE buffer = <<>> /\ dropped = 0 /\ Launch
      BY <1>4, <2>2, <2>7 DEF Flush, FlushFirst
    <2> QED
      BY <1>4, <2>3, <2>4, <2>5, <2>6, <2>7 DEF Flush, FlushFirst
  <1>5. CASE AuthFails \/ AuthSucceeds \/ (stopping /\ Moves(Run, "dial", "returned"))
    BY <1>5 DEF AuthFails, AuthSucceeds, Moves, Goes
  <1>6. CASE Leave
    BY <1>6 DEF Leave, Goes
  <1>7. CASE Dial
    <2>1. opened' \in Conn /\ opened' \in 0 .. MaxConns
      BY <1>7 DEF Dial, Conn
    <2> QED
      BY <1>7, <2>1 DEF Dial, Goes
  <1>8. CASE LockFlush
    BY <1>8, Goroutines DEF LockFlush, Lock, Goes
  <1>9. CASE CancelContext
    BY <1>9 DEF CancelContext
  <1>10. CASE Close
    BY <1>10 DEF Close, Goes, Panic
  <1>11. ASSUME NEW x \in Goroutine, NEW from, Accept(x, from) PROVE TypeInv'
    BY <1>11 DEF Accept, Lock, Goes
  <1>12. ASSUME NEW x \in Goroutine, Enqueue(x) PROVE TypeInv'
    <2>1. CASE Buffer(x)
      BY <1>12, <2>1, BufferTyped DEF Buffer, Returns, Goes
    <2>2. CASE SendNow(x) /\ BeginWrite(x, Direct(accepted)) /\ UNCHANGED mu
      BY <1>12, <2>2, BeginTyped, FramesTyped DEF SendNow
    <2>3. CASE SendNow(x) /\ EndWrite(x) /\ Returns(x, "send")
      BY <1>12, <2>3, EndTyped DEF SendNow, Returns, Goes
    <2> QED
      BY <1>12, <2>1, <2>2, <2>3 DEF Enqueue, SendNow
  <1>13. ASSUME NEW g \in Conn, LoopNext(g) PROVE TypeInv'
    <2>1. Reader(g) \in Goroutine
      BY Goroutines DEF Senders
    <2>2. CASE ReadNext(g)
      BY <2>1, <2>2 DEF ReadNext, Goes, Panic
    <2>3. CASE ReadEnds(g)
      BY <2>1, <2>3 DEF ReadEnds, Goes, WithCancelled
    <2>4. CASE ReadControl(g)
      BY <2>1, <2>4 DEF ReadControl, Moves, Goes
    <2>5. CASE Respond(g)
      BY <1>11, <2>1, <2>5 DEF Respond
    <2>6. CASE Tick(g)
      BY <2>6 DEF Tick, Panic, PingIgnores
    <2> QED
      BY <1>13, <2>2, <2>3, <2>4, <2>5, <2>6 DEF LoopNext, ReaderOwn, ReadFails, ReadTimesOut
  <1>14. ASSUME NEW k \in Conn, Break(k) PROVE TypeInv'
    BY <1>14 DEF Break
  <1>15. CASE UNCHANGED vars
    BY <1>15 DEF vars
  <1>16. \A x \in Apps \cup Readers : x \in Goroutine
    BY DEF Goroutine
  <1> QED
    BY <1>3, <1>4, <1>5, <1>6, <1>7, <1>8, <1>9, <1>10, <1>11, <1>12, <1>13, <1>14, <1>15, <1>16
       DEF Next, RunOwn, SendConsole

LEMMA TypeInvariant == Spec => []TypeInv
  BY InitTyped, TypeStep, PTL DEF Spec

\* Every variable has its type, and the buffer never exceeds its limit.
THEOREM TypeCorrect == Spec => []TypeOK
  <1>1. TypeInv => TypeOK
    BY DEF TypeInv
  <1> QED
    BY <1>1, TypeInvariant, PTL

-----------------------------------------------------------------------------
(* What steps do to the events.  They are those of the actions below; the  *)
(* other actions are Quiet.                                                *)

Holding == {"buffer", "send"}

\* Nothing is written or queued, and nobody takes or releases the mutex.
Quiet ==
  /\ UNCHANGED <<conn, opened, queueVars, writing, wire>>
  /\ \A x \in Senders : pc'[x] = pc[x] \/ (pc[x] \notin Holding /\ pc'[x] \notin Holding)
  /\ \/ pc'[Run] = pc[Run]
     \/ pc[Run] = "await" /\ pc'[Run] \in {"hello", "returned"}
     \/ pc[Run] = "dial" /\ pc'[Run] = "returned"

\* What a goroutine may begin to write.
Begins(x, f) ==
  /\ \/ x \in Senders /\ pc[x] = "send" /\ f = Direct(accepted)
     \/ x = Run /\ pc[Run] = "auth" /\ f = Auth
     \/ x = Run /\ pc[Run] = "hello" /\ f = Hello
     \/ x = Run /\ pc[Run] = "flush" /\ buffer # <<>> /\ f = Flushed(Head(buffer))
     \/ x = Run /\ pc[Run] = "flush" /\ buffer = <<>> /\ dropped > 0 /\ f = Notice(dropped)
  /\ conn \in Conn /\ writing' = [writing EXCEPT ![x] = [to |-> conn, frame |-> f]]
  /\ UNCHANGED <<pc, conn, opened, queueVars, wire>>

Writes(x, f) == x \in Goroutine /\ f \in AnyFrame /\ Begins(x, f)

\* run() has written auth or hello.
Greets ==
  /\ EndWrite(Run) /\ UNCHANGED <<conn, opened, queueVars>>
  /\ \/ pc[Run] = "auth" /\ \E p \in {"await", "returned"} : Goes(Run, "auth", p)
     \/ pc[Run] = "hello" /\ \E p \in {"lock", "returned"} : Goes(Run, "hello", p)

\* An event is accepted.
Accepts(x) ==
  /\ mu = None /\ mu' = x /\ accepted' = accepted + 1
  /\ pc[x] \notin Holding /\ pc' = [pc EXCEPT ![x] = IF conn = None THEN "buffer" ELSE "send"]
  /\ UNCHANGED <<conn, opened, buffer, dropped, writing, wire>>

\* It has been sent.
Sends(x) ==
  /\ pc[x] = "send" /\ EndWrite(x) /\ Returns(x, "send")
  /\ UNCHANGED <<conn, opened, accepted, buffer, dropped>>

\* An event has been flushed.
Flushes ==
  /\ pc[Run] = "flush" /\ buffer # <<>> /\ EndWrite(Run) /\ buffer' = Tail(buffer)
  /\ UNCHANGED <<pc, conn, opened, mu, accepted, dropped>>

\* The notice, if there was one to write, has been written.
Finishes ==
  /\ pc[Run] = "flush" /\ buffer = <<>> /\ Launch
  /\ \/ dropped > 0 /\ EndWrite(Run) /\ dropped' = 0
     \/ dropped = 0 /\ UNCHANGED <<dropped, writing, wire>>
  /\ UNCHANGED <<conn, opened, accepted, buffer>>

Effect ==
  \/ Quiet \/ Dial \/ Leave \/ LockFlush \/ Greets \/ Flushes \/ Finishes
  \/ \E x, f : Writes(x, f)
  \/ \E x \in Senders : Accepts(x) \/ Buffer(x) \/ Sends(x)

LEMMA Effects == TypeInv /\ [Next]_vars => Effect
  <1> SUFFICES ASSUME TypeInv, [Next]_vars PROVE Effect
    OBVIOUS
  <1> USE Goroutines
  <1> USE DEF queueVars, connVars, ctxVars, ioVars
  <1>1. conn # None => conn \in Conn
    BY DEF TypeInv, TypeOK
  <1>2. ASSUME UNCHANGED <<conn, opened, queueVars, writing, wire, pc>> PROVE Quiet
    BY <1>2 DEF Quiet
  <1>3. ASSUME NEW x \in Goroutine, NEW f \in AnyFrame, BeginWrite(x, f),
               UNCHANGED <<conn, opened, queueVars>>,
               \/ x \in Senders /\ pc[x] = "send" /\ f = Direct(accepted)
               \/ x = Run /\ pc[Run] = "auth" /\ f = Auth
               \/ x = Run /\ pc[Run] = "hello" /\ f = Hello
               \/ x = Run /\ pc[Run] = "flush" /\ buffer # <<>> /\ f = Flushed(Head(buffer))
               \/ /\ x = Run /\ pc[Run] = "flush" /\ buffer = <<>> /\ dropped > 0
                  /\ f = Notice(dropped)
        PROVE  Effect
    <2>1. CASE Panic /\ UNCHANGED pc
      BY <1>2, <1>3, <2>1 DEF Panic, Effect
    <2>2. CASE /\ conn # None /\ UNCHANGED <<wire, pc>>
               /\ writing' = [writing EXCEPT ![x] = [to |-> conn, frame |-> f]]
      BY <1>1, <1>3, <2>2 DEF Begins, Writes, Effect
    <2> QED
      BY <1>3, <2>1, <2>2 DEF BeginWrite
  <1>4. ASSUME NEW from, NEW to, NEW f \in AnyFrame, Write(f, from, to),
               \/ from = "auth" /\ to = "await" /\ f = Auth
               \/ from = "hello" /\ to = "lock" /\ f = Hello
        PROVE  Effect
    <2>1. CASE BeginWrite(Run, f)
      BY <1>3, <1>4, <2>1 DEF Write
    <2>2. CASE EndWrite(Run) /\ \E p \in {to, "returned"} : Goes(Run, from, p)
      BY <1>4, <2>2 DEF Write, Greets, Effect
    <2> QED
      BY <1>4, <2>1, <2>2 DEF Write
  <1>5. CASE Write(Auth, "auth", "await") \/ Write(Hello, "hello", "lock")
    <2>1. CASE Write(Auth, "auth", "await")
      BY <1>4, <2>1, FramesTyped
    <2>2. CASE Write(Hello, "hello", "lock")
      BY <1>4, <2>2, FramesTyped
    <2> QED
      BY <1>5, <2>1, <2>2
  <1>6. CASE Flush
    <2>1. buffer # <<>> => Head(buffer) \in Nat
      BY HeadTailProperties DEF TypeInv
    <2>2. CASE buffer # <<>> /\ BeginWrite(Run, Flushed(Head(buffer))) /\ UNCHANGED <<mu, dropped, buffer>>
      BY <1>3, <1>6, <2>1, <2>2, FramesTyped DEF Flush, FlushFirst
    <2>3. CASE buffer # <<>> /\ EndWrite(Run) /\ buffer' = Tail(buffer) /\ UNCHANGED <<pc, mu, dropped>>
      BY <1>6, <2>3 DEF Flush, FlushFirst, Flushes, Effect
    <2>4. CASE /\ buffer = <<>> /\ dropped > 0 /\ BeginWrite(Run, Notice(dropped))
               /\ UNCHANGED <<mu, dropped, buffer>>
      BY <1>3, <1>6, <2>4, FramesTyped DEF Flush, FlushFirst, TypeInv
    <2>5. CASE /\ buffer = <<>> /\ dropped > 0 /\ EndWrite(Run) /\ dropped' = ResetCount
               /\ Launch /\ UNCHANGED buffer
      BY <1>6, <2>5 DEF Flush, FlushFirst, Finishes, ResetCount, Effect
    <2>6. CASE buffer = <<>> /\ dropped = 0 /\ Launch /\ UNCHANGED <<buffer, dropped, ioVars>>
      BY <1>6, <2>6 DEF Flush, FlushFirst, Finishes, Effect
    <2> QED
      BY <1>6, <2>2, <2>3, <2>4, <2>5, <2>6 DEF Flush, FlushFirst
  <1>7. CASE AuthFails \/ AuthSucceeds \/ (stopping /\ Moves(Run, "dial", "returned"))
    BY <1>7 DEF AuthFails, AuthSucceeds, Moves, Goes, TypeInv, TypeOK, Senders, Goroutine, Quiet, Effect
  <1>8. CASE CancelContext \/ (\E k \in Conn : Break(k))
    BY <1>2, <1>8 DEF CancelContext, Break, Effect
  <1>9. CASE Close
    <2>1. UNCHANGED <<conn, opened, queueVars, writing, wire>>
      BY <1>9 DEF Close, Panic
    <2>2. \E to : pc' = [pc EXCEPT ![Closer] = to]
      BY <1>9 DEF Close, Goes
    <2> QED
      BY <2>1, <2>2 DEF TypeInv, TypeOK, Quiet, Effect, Senders, Goroutine
  <1>10. ASSUME NEW x \in Senders, NEW from, from \notin Holding, Accept(x, from) PROVE Effect
    BY <1>10 DEF Accept, Lock, Goes, Accepts, Effect
  <1>11. ASSUME NEW x \in Senders, Enqueue(x) PROVE Effect
    <2>1. CASE Buffer(x)
      BY <2>1 DEF Effect
    <2>2. CASE SendNow(x) /\ BeginWrite(x, Direct(accepted)) /\ UNCHANGED mu
      BY <1>3, <2>2, FramesTyped DEF SendNow, TypeInv
    <2>3. CASE SendNow(x) /\ EndWrite(x) /\ Returns(x, "send")
      BY <2>3 DEF SendNow, Sends, Effect
    <2> QED
      BY <1>11, <2>1, <2>2, <2>3 DEF Enqueue, SendNow
  <1>12. ASSUME NEW g \in Conn, LoopNext(g) PROVE Effect
    <2> DEFINE x == Reader(g)
    <2>1. x \in Senders
      BY DEF Senders
    <2>2. ASSUME NEW from, NEW to, Goes(x, from, to), from \notin Holding, to \notin Holding,
                 UNCHANGED <<conn, opened, queueVars, writing, wire>>
          PROVE  Effect
      BY <2>1, <2>2 DEF Goes, TypeInv, TypeOK, Quiet, Effect, Goroutine, Senders
    <2>3. CASE ReadNext(g)
      BY <2>2, <2>3 DEF ReadNext, Panic, Holding
    <2>4. CASE ReadEnds(g)
      BY <2>2, <2>4 DEF ReadEnds, Holding
    <2>5. CASE ReadControl(g)
      BY <2>2, <2>5 DEF ReadControl, Moves, Holding
    <2>6. CASE Respond(g)
      BY <1>10, <2>1, <2>6 DEF Respond, Holding
    <2>7. CASE Tick(g)
      BY <1>2, <2>7 DEF Tick, Panic, Effect
    <2> QED
      BY <1>12, <2>3, <2>4, <2>5, <2>6, <2>7 DEF LoopNext, ReaderOwn, ReadFails, ReadTimesOut
  <1>13. ASSUME NEW x \in Apps, SendConsole(x) PROVE Effect
    BY <1>10, <1>13 DEF SendConsole, Senders, Holding
  <1>14. CASE UNCHANGED vars
    BY <1>2, <1>14 DEF vars, Effect
  <1> QED
    BY <1>5, <1>6, <1>7, <1>8, <1>9, <1>11, <1>12, <1>13, <1>14
       DEF Next, RunOwn, Effect, Senders

-----------------------------------------------------------------------------
(* Goroutines, the mutex and the connection.                               *)

\* bufMu is held by the goroutine that is in enqueue or flushBuffer.
MutexInv ==
  /\ \A x \in Senders : pc[x] \in Holding <=> mu = x
  /\ pc[Run] = "flush" <=> mu = Run
  /\ pc[Run] \in {"dial", "auth", "await", "hello", "lock", "flush", "watch", "returned"}

\* From the dial on until it has left it, run() has the connection opened last.
ConnInv ==
  pc[Run] \in {"auth", "await", "hello", "lock", "flush", "watch"}
    => conn = opened /\ opened \in Conn

\* What each goroutine writes is what it will say it has written.
WriteInv ==
  /\ conn # None => conn <= opened
  /\ \A x \in Goroutine : writing[x] # None => writing[x].to <= opened
  /\ \A x \in Senders : writing[x] # None => pc[x] = "send" /\ writing[x].frame = Direct(accepted)
  /\ writing[Run] # None =>
       \/ pc[Run] = "auth" /\ writing[Run].frame = Auth
       \/ pc[Run] = "hello" /\ writing[Run].frame = Hello
       \/ /\ pc[Run] = "flush" /\ writing[Run].to = opened
          /\ IF buffer # <<>> THEN writing[Run].frame = Flushed(Head(buffer))
                              ELSE dropped > 0 /\ writing[Run].frame = Notice(dropped)

LEMMA MutexStep == TypeInv /\ MutexInv /\ [Next]_vars => MutexInv'
  <1> SUFFICES ASSUME TypeInv, MutexInv, Effect PROVE MutexInv'
    BY Effects
  <1> USE Goroutines
  <1> USE DEF MutexInv, Holding
  <1>1. /\ pc \in [Goroutine -> {"idle", "buffer", "send", "dial", "auth", "await", "hello", "lock",
                                "flush", "watch", "returned", "next", "reading", "handle",
                                "close", "done"}]
        /\ opened \in Nat
    BY ConstantsAssumption DEF TypeInv, TypeOK
  <1>2. CASE Quiet
    BY <1>2 DEF Quiet, queueVars
  <1>3. CASE Dial \/ Leave
    BY <1>1, <1>3 DEF Dial, Leave, Goes, queueVars
  <1>4. CASE LockFlush
    BY <1>1, <1>4 DEF LockFlush, Lock, Goes
  <1>5. CASE Greets
    BY <1>1, <1>5 DEF Greets, Goes, queueVars
  <1>6. CASE Flushes
    BY <1>6 DEF Flushes
  <1>7. ASSUME NEW x, NEW f, Writes(x, f) PROVE MutexInv'
    BY <1>7 DEF Writes, Begins, queueVars
  <1>8. ASSUME NEW x \in Senders, Accepts(x) PROVE MutexInv'
    BY <1>1, <1>8 DEF Accepts
  <1>9. ASSUME NEW x \in Senders, Returns(x, "buffer") \/ Returns(x, "send") PROVE MutexInv'
    BY <1>1, <1>9 DEF Returns, Goes
  <1>10. CASE Finishes
    <2>1. /\ mu = Run /\ mu' = None
          /\ pc' = [pc EXCEPT ![Run] = "watch", ![Reader(opened)] = "next"]
      BY <1>10 DEF Finishes, Launch
    <2>2. Run # Reader(opened)
      BY DEF Run, Reader
    <2>3. \A x \in Senders : pc[x] \notin Holding /\ pc'[x] \notin Holding
      BY <1>1, <2>1
    <2> QED
      BY <1>1, <2>1, <2>2, <2>3
  <1> QED
    BY <1>2, <1>3, <1>4, <1>5, <1>6, <1>7, <1>8, <1>9, <1>10 DEF Effect, Buffer, Sends

LEMMA ConnStep == TypeInv /\ MutexInv /\ ConnInv /\ [Next]_vars => ConnInv'
  <1> SUFFICES ASSUME TypeInv, MutexInv, ConnInv, Effect PROVE ConnInv'
    BY Effects
  <1> USE Goroutines
  <1> USE DEF ConnInv
  <1>1. /\ pc \in [Goroutine -> {"idle", "buffer", "send", "dial", "auth", "await", "hello", "lock",
                                "flush", "watch", "returned", "next", "reading", "handle",
                                "close", "done"}]
        /\ opened \in 0 .. MaxConns
    BY DEF TypeInv, TypeOK
  <1>2. CASE Quiet
    BY <1>2 DEF Quiet
  <1>3. CASE Dial
    BY <1>1, <1>3, ConstantsAssumption DEF Dial, Goes, Conn
  <1>4. CASE Leave
    BY <1>1, <1>4 DEF Leave, Goes
  <1>5. CASE LockFlush
    BY <1>1, <1>5 DEF LockFlush, Goes, connVars
  <1>6. CASE Greets
    BY <1>1, <1>6 DEF Greets, Goes
  <1>7. CASE Flushes
    BY <1>7 DEF Flushes
  <1>8. ASSUME NEW x, NEW f, Writes(x, f) PROVE ConnInv'
    BY <1>8 DEF Writes, Begins
  <1>9. ASSUME NEW x \in Senders, Accepts(x) \/ Buffer(x) \/ Sends(x) PROVE ConnInv'
    BY <1>1, <1>9 DEF Accepts, Buffer, Sends, Returns, Goes, connVars
  <1>10. CASE Finishes
    BY <1>10 DEF Finishes
  <1> QED
    BY <1>2, <1>3, <1>4, <1>5, <1>6, <1>7, <1>8, <1>9, <1>10 DEF Effect

LEMMA WriteStep == TypeInv /\ MutexInv /\ ConnInv /\ WriteInv /\ [Next]_vars => WriteInv'
  <1> SUFFICES ASSUME TypeInv, MutexInv, ConnInv, WriteInv, Effect PROVE WriteInv'
    BY Effects
  <1> USE Goroutines
  <1> USE DEF WriteInv
  <1>1. /\ pc \in [Goroutine -> {"idle", "buffer", "send", "dial", "auth", "await", "hello", "lock",
                                "flush", "watch", "returned", "next", "reading", "handle",
                                "close", "done"}]
        /\ opened \in 0 .. MaxConns /\ conn \in Conn \cup {None} /\ Conn \subseteq Nat
        /\ writing \in [Goroutine -> {None} \cup [to : Conn, frame : AnyFrame]]
    BY DEF TypeInv, TypeOK, Conn
  <1>2. CASE Quiet
    BY <1>2 DEF Quiet, queueVars, MutexInv, Holding
  <1>3. CASE Dial
    <2>1. opened' = opened + 1 /\ conn' = opened'
          /\ UNCHANGED <<writing, accepted, buffer, dropped>> /\ Goes(Run, "dial", "auth")
      BY <1>3 DEF Dial, queueVars
    <2>2. writing[Run] = None
      BY <2>1 DEF Goes
    <2>3. \A x \in Senders : pc'[x] = pc[x]
      BY <1>1, <2>1 DEF Goes
    <2>4. \A x \in Goroutine : writing[x] # None => writing[x].to \in Nat
      BY <1>1
    <2>5. /\ opened' \in Nat /\ conn' <= opened'
          /\ \A x \in Goroutine : writing'[x] # None => writing'[x].to <= opened'
      BY <1>1, <2>1, <2>4
    <2> QED
      BY <2>1, <2>2, <2>3, <2>5 DEF Direct
  <1>4. CASE Leave
    BY <1>1, <1>4 DEF Leave, Goes, queueVars
  <1>5. CASE LockFlush
    BY <1>1, <1>5 DEF LockFlush, Goes, connVars, ioVars
  <1>6. CASE Greets
    <2>1. writing' = [writing EXCEPT ![Run] = None] /\ UNCHANGED <<conn, opened, accepted>>
      BY <1>6 DEF Greets, EndWrite, queueVars
    <2>2. \A x \in Senders : pc'[x] = pc[x] /\ writing'[x] = writing[x]
      BY <1>1, <1>6, <2>1 DEF Greets, Goes
    <2>3. writing'[Run] = None /\ \A x \in Goroutine : writing'[x] \in {None, writing[x]}
      BY <1>1, <2>1
    <2> QED
      BY <2>1, <2>2, <2>3 DEF Direct
  <1>7. CASE Flushes
    <2>1. writing' = [writing EXCEPT ![Run] = None] /\ UNCHANGED <<pc, conn, opened, accepted>>
      BY <1>7 DEF Flushes, EndWrite
    <2>2. writing'[Run] = None /\ \A x \in Goroutine : writing'[x] \in {None, writing[x]}
      BY <1>1, <2>1
    <2> QED
      BY <2>1, <2>2 DEF Direct
  <1>8. CASE Finishes
    <2>1. UNCHANGED <<conn, opened, accepted>> /\ pc[Run] = "flush" /\ buffer = <<>>
          /\ pc' = [pc EXCEPT ![Run] = "watch", ![Reader(opened)] = "next"]
          /\ (writing' = [writing EXCEPT ![Run] = None] \/ (dropped = 0 /\ UNCHANGED writing))
      BY <1>8 DEF Finishes, Launch, EndWrite
    <2>2. writing'[Run] = None /\ \A x \in Goroutine : writing'[x] \in {None, writing[x]}
      BY <1>1, <2>1
    <2>3. \A x \in Senders : writing[x] = None
      BY <2>1 DEF MutexInv, Holding
    <2> QED
      BY <2>1, <2>2, <2>3
  <1>9. ASSUME NEW x, NEW f, Writes(x, f) PROVE WriteInv'
    <2>1. UNCHANGED <<pc, conn, opened, accepted, buffer, dropped>>
      BY <1>9 DEF Writes, Begins, queueVars
    <2>2. writing' = [writing EXCEPT ![x] = [to |-> conn, frame |-> f]] /\ x \in Goroutine /\ conn \in Conn
      BY <1>9 DEF Writes, Begins
    <2>3. writing'[x].to = conn /\ writing'[x].frame = f
      BY <1>1, <2>2
    <2>4. \A y \in Goroutine : y # x => writing'[y] = writing[y]
      BY <1>1, <2>2
    <2>5. \A y \in Goroutine : writing'[y] # None => writing'[y].to <= opened'
      <3>1. conn <= opened
        BY <2>2, ConstantsAssumption
      <3> QED
        BY <2>1, <2>3, <2>4, <3>1
    <2>6. \A y \in Senders : writing'[y] # None => pc'[y] = "send" /\ writing'[y].frame = Direct(accepted')
      BY <1>9, <2>1, <2>3, <2>4 DEF Writes, Begins
    <2>7. CASE x = Run
      BY <1>9, <2>1, <2>2, <2>3, <2>5, <2>6, <2>7 DEF Writes, Begins, ConnInv
    <2>8. CASE x # Run
      BY <2>1, <2>4, <2>5, <2>6, <2>8
    <2> QED
      BY <2>7, <2>8
  <1>10. ASSUME NEW x \in Senders, Accepts(x) PROVE WriteInv'
    <2>1. \A y \in Senders : writing[y] = None
      BY <1>10 DEF Accepts, MutexInv, Holding
    <2>2. UNCHANGED <<conn, opened, buffer, dropped, writing>> /\ pc'[Run] = pc[Run]
      BY <1>1, <1>10 DEF Accepts
    <2> QED
      BY <2>1, <2>2
  <1>11. ASSUME NEW x \in Senders, Buffer(x) \/ Sends(x) PROVE WriteInv'
    <2>1. mu = x
      BY <1>11 DEF Buffer, Sends, Returns, Goes, MutexInv, Holding
    <2>2. \A y \in Senders : y # x => writing[y] = None
      BY <2>1 DEF MutexInv, Holding
    <2>3. UNCHANGED <<conn, opened, accepted>> /\ pc'[Run] = pc[Run] /\ pc[Run] # "flush"
      BY <1>1, <1>11, <2>1 DEF Buffer, Sends, Returns, Goes, connVars, MutexInv
    <2>4. \A y \in Goroutine : writing'[y] \in {None, writing[y]}
      BY <1>1, <1>11 DEF Buffer, Sends, EndWrite, ioVars
    <2>5. writing'[x] = None
      BY <1>1, <1>11 DEF Buffer, Sends, EndWrite, ioVars, Returns, Goes
    <2> QED
      BY <2>2, <2>3, <2>4, <2>5
  <1> QED
    BY <1>2, <1>3, <1>4, <1>5, <1>6, <1>7, <1>8, <1>9, <1>10, <1>11 DEF Effect

\* What run() has flushed stays flushed: nobody is on the way to the buffer.
FlushedInv == pc[Run] = "watch" => buffer = <<>> /\ \A x \in Senders : pc[x] # "buffer"

LEMMA FlushedStep ==
  TypeInv /\ MutexInv /\ ConnInv /\ FlushedInv /\ [Next]_vars => FlushedInv'
  <1> SUFFICES ASSUME TypeInv, MutexInv, ConnInv, FlushedInv, Effect PROVE FlushedInv'
    BY Effects
  <1> USE Goroutines, ConstantsAssumption
  <1> USE DEF FlushedInv, MutexInv, Holding
  <1>1. pc \in [Goroutine -> {"idle", "buffer", "send", "dial", "auth", "await", "hello", "lock",
                              "flush", "watch", "returned", "next", "reading", "handle",
                              "close", "done"}]
    BY DEF TypeInv, TypeOK
  <1>2. CASE Quiet
    BY <1>2 DEF Quiet, queueVars
  <1>3. CASE Dial \/ Leave \/ LockFlush \/ Greets
    BY <1>1, <1>3 DEF Dial, Leave, LockFlush, Greets, Goes
  <1>4. CASE Flushes
    BY <1>4 DEF Flushes
  <1>5. CASE Finishes
    <2>1. pc' = [pc EXCEPT ![Run] = "watch", ![Reader(opened)] = "next"] /\ buffer' = <<>> /\ mu = Run
      BY <1>5 DEF Finishes, Launch
    <2> QED
      BY <1>1, <2>1
  <1>6. ASSUME NEW x, NEW f, Writes(x, f) PROVE FlushedInv'
    BY <1>6 DEF Writes, Begins, queueVars
  <1>7. ASSUME NEW x \in Senders, Accepts(x) PROVE FlushedInv'
    BY <1>1, <1>7 DEF Accepts, ConnInv
  <1>8. ASSUME NEW x \in Senders, Buffer(x) \/ Sends(x) PROVE FlushedInv'
    BY <1>1, <1>8 DEF Buffer, Sends, Returns, Goes
  <1> QED
    BY <1>2, <1>3, <1>4, <1>5, <1>6, <1>7, <1>8 DEF Effect

-----------------------------------------------------------------------------
(* Readers.                                                                *)

\* As long as the application does not stop the client: a reader runs while run() watches
\* the connection it was started for, and a context is cancelled by its reader only.
ReaderInv ==
  pc[Closer] = "idle" /\ ~stopping =>
    /\ \A g \in Conn : pc[Reader(g)] \notin {"idle", "done"} => pc[Run] = "watch" /\ g = opened
    /\ \A g \in cancelled : pc[Reader(g)] = "done"
    /\ \A g \in Conn : g > opened => pc[Reader(g)] = "idle"
    /\ pc[Run] \in {"auth", "await", "hello", "lock", "flush"} => pc[Reader(opened)] = "idle"

\* A goroutine other than run() that is not in hand moves from one place to another.
LEMMA ReaderMoves ==
  ASSUME TypeInv, ReaderInv, NEW g \in Conn, NEW from, NEW to, Goes(Reader(g), from, to),
         from \notin {"idle", "done"}, to # "idle", UNCHANGED <<opened, stopping>>,
         cancelled' \in {cancelled, cancelled \cup {g}}, cancelled' # cancelled => to = "done"
  PROVE  ReaderInv'
  <1> USE Goroutines
  <1>1. Reader(g) \in Goroutine /\ \A h \in Conn : Reader(h) \in Goroutine
    BY DEF Senders
  <1>2. \A x \in Goroutine : x # Reader(g) => pc'[x] = pc[x]
    BY DEF Goes, TypeInv, TypeOK
  <1>3. pc[Reader(g)] = from /\ pc'[Reader(g)] = to
    BY <1>1 DEF Goes, TypeInv, TypeOK
  <1>4. pc'[Run] = pc[Run] /\ pc'[Closer] = pc[Closer]
    BY <1>1, <1>2 DEF Senders
  <1>5. \A h \in Conn : h # g => pc'[Reader(h)] = pc[Reader(h)]
    BY <1>1, <1>2
  <1>6. cancelled \subseteq Conn /\ opened \in 0 .. MaxConns /\ Conn \subseteq Nat
    BY DEF TypeInv, TypeOK, Conn
  <1> SUFFICES ASSUME pc[Closer] = "idle", ~stopping PROVE ReaderInv'
    BY <1>4 DEF ReaderInv
  <1>7. pc[Run] = "watch" /\ g = opened
    BY <1>3 DEF ReaderInv
  <1>8. \A h \in cancelled' : pc'[Reader(h)] = "done"
    BY <1>3, <1>5, <1>6 DEF ReaderInv
  <1> QED
    BY <1>3, <1>4, <1>5, <1>6, <1>7, <1>8 DEF ReaderInv

LEMMA ReaderStep == TypeInv /\ ReaderInv /\ [Next]_vars => ReaderInv'
  <1> SUFFICES ASSUME TypeInv, ReaderInv, [Next]_vars PROVE ReaderInv'
    OBVIOUS
  <1> USE Goroutines
  <1> USE DEF connVars, ctxVars
  <1>1. /\ pc \in [Goroutine -> {"idle", "buffer", "send", "dial", "auth", "await", "hello", "lock",
                                "flush", "watch", "returned", "next", "reading", "handle",
                                "close", "done"}]
        /\ opened \in 0 .. MaxConns /\ Conn \subseteq Nat /\ cancelled \subseteq Conn
        /\ Run \in Goroutine /\ Closer \in Goroutine /\ \A g \in Conn : Reader(g) \in Goroutine
    BY DEF TypeInv, TypeOK, Conn, Senders
  <1>2. \A g : Reader(g) # Run /\ Reader(g) # Closer
    BY DEF Reader, Run, Closer
  \* Readers stay where they are, and run() where it was or on its way.
  <1>3. ASSUME UNCHANGED <<opened, ctxVars>>, \A g : pc'[Reader(g)] = pc[Reader(g)],
               pc'[Closer] = "idle" => pc[Closer] = "idle",
               \/ pc'[Run] = pc[Run]
               \/ pc[Run] # "watch" /\ pc'[Run] \in {"dial", "returned"}
               \/ /\ pc[Run] \in {"auth", "await", "hello", "lock"}
                  /\ pc'[Run] \in {"await", "hello", "lock", "flush"}
        PROVE  ReaderInv'
    BY <1>3 DEF ReaderInv
  <1>4. ASSUME NEW from, NEW to, Goes(Run, from, to), UNCHANGED <<opened, ctxVars>>,
               \/ from # "watch" /\ to \in {"dial", "returned"}
               \/ /\ from \in {"auth", "await", "hello", "lock"}
                  /\ to \in {"await", "hello", "lock", "flush"}
        PROVE  ReaderInv'
    BY <1>1, <1>2, <1>3, <1>4 DEF Goes
  <1>5. ASSUME UNCHANGED <<pc, opened, ctxVars>> PROVE ReaderInv'
    BY <1>3, <1>5
  <1>6. CASE Write(Auth, "auth", "await")
    BY <1>4, <1>5, <1>6 DEF Write, BeginWrite
  <1>7. CASE Write(Hello, "hello", "lock")
    BY <1>4, <1>5, <1>7 DEF Write, BeginWrite
  <1>8. CASE Flush
    <2>1. CASE Launch
      <3>1. pc' = [pc EXCEPT ![Run] = "watch", ![Reader(opened)] = "next"] /\ pc[Run] = "flush"
            /\ UNCHANGED <<opened, ctxVars>>
        BY <1>8, <2>1 DEF Flush, FlushFirst, Launch
      <3>2. /\ pc'[Run] = "watch" /\ pc'[Closer] = pc[Closer]
            /\ \A g \in Conn : g # opened => pc'[Reader(g)] = pc[Reader(g)]
        BY <1>1, <1>2, <3>1
      <3> QED
        BY <1>1, <3>1, <3>2 DEF ReaderInv
    <2>2. CASE UNCHANGED pc
      BY <1>5, <1>8, <2>2 DEF Flush, FlushFirst
    <2> QED
      BY <1>8, <2>1, <2>2 DEF Flush, FlushFirst, BeginWrite
  <1>9. CASE AuthFails \/ (stopping /\ Moves(Run, "dial", "returned"))
    BY <1>4, <1>9 DEF AuthFails, Moves
  <1>10. CASE AuthSucceeds
    BY <1>4, <1>10 DEF AuthSucceeds, Moves
  <1>11. CASE LockFlush
    BY <1>4, <1>11 DEF LockFlush
  <1>12. CASE Leave
    <2>1. /\ UNCHANGED <<opened, ctxVars>> /\ pc'[Run] = "dial" /\ pc'[Closer] = pc[Closer]
          /\ \A g \in Conn : pc'[Reader(g)] = pc[Reader(g)]
      BY <1>1, <1>2, <1>12 DEF Leave, Goes
    <2>2. opened \in cancelled \/ stopping
      BY <1>12 DEF Leave, Done
    <2> SUFFICES ASSUME pc[Closer] = "idle", ~stopping PROVE ReaderInv'
      BY <2>1 DEF ReaderInv
    <2>3. \A g \in Conn : pc[Reader(g)] \in {"idle", "done"}
      BY <2>2 DEF ReaderInv
    <2>4. /\ \A g \in cancelled' : pc'[Reader(g)] = "done"
          /\ \A g \in Conn : g > opened' => pc'[Reader(g)] = "idle"
      BY <1>1, <2>1 DEF ReaderInv
    <2>5. \A g \in Conn : pc'[Reader(g)] \in {"idle", "done"}
      BY <2>1, <2>3
    <2> QED
      BY <2>1, <2>4, <2>5 DEF ReaderInv
  <1>13. CASE Dial
    <2>1. /\ UNCHANGED ctxVars /\ pc[Run] = "dial" /\ pc'[Run] = "auth" /\ pc'[Closer] = pc[Closer]
          /\ \A g \in Conn : pc'[Reader(g)] = pc[Reader(g)]
          /\ opened' = opened + 1 /\ opened' \in Conn
      BY <1>1, <1>2, <1>13, ConstantsAssumption DEF Dial, Goes, Conn
    <2>2. \A g \in Conn : g > opened' => g > opened
      BY <1>1, <2>1
    <2>3. opened' > opened
      BY <1>1, <2>1
    <2> QED
      BY <1>1, <2>1, <2>2, <2>3 DEF ReaderInv
  <1>14. CASE CancelContext
    BY <1>14 DEF CancelContext, ReaderInv
  <1>15. CASE Close
    BY <1>1, <1>15 DEF Close, Goes, ReaderInv
  <1>16. ASSUME NEW x \in Apps, NEW from, NEW to, Goes(x, from, to), UNCHANGED <<opened, ctxVars>>
         PROVE  ReaderInv'
    <2>1. x # Run /\ x # Closer /\ \A g : Reader(g) # x
      BY DEF Senders, Apps, Reader
    <2> QED
      BY <1>1, <1>3, <1>16, <2>1 DEF Goes
  <1>17. ASSUME NEW x \in Apps, SendConsole(x) PROVE ReaderInv'
    BY <1>16, <1>17 DEF SendConsole, Accept
  <1>18. ASSUME NEW x \in Senders, Enqueue(x) PROVE ReaderInv'
    <2>1. UNCHANGED <<opened, ctxVars>>
      BY <1>18 DEF Enqueue, Buffer, SendNow
    <2>2. UNCHANGED pc \/ Returns(x, "buffer") \/ Returns(x, "send")
      BY <1>18 DEF Enqueue, Buffer, SendNow, BeginWrite
    <2>3. ASSUME NEW from, from \notin {"idle", "done"}, Returns(x, from) PROVE ReaderInv'
      <3>1. CASE x \in Apps
        BY <1>16, <2>1, <2>3, <3>1 DEF Returns
      <3>2. CASE x \in Readers
        <4>1. PICK g \in Conn : x = Reader(g)
          BY <3>2
        <4> QED
          BY <2>1, <2>3, <3>2, <4>1, ReaderMoves DEF Returns
      <3> QED
        BY <3>1, <3>2 DEF Senders
    <2> QED
      BY <1>5, <2>1, <2>2, <2>3
  <1>19. ASSUME NEW g \in Conn, LoopNext(g) PROVE ReaderInv'
    <2>1. CASE ReadNext(g)
      BY <2>1, ReaderMoves DEF ReadNext
    <2>2. CASE ReadEnds(g)
      BY <2>2, ReaderMoves DEF ReadEnds, WithCancelled
    <2>3. CASE ReadControl(g)
      BY <2>3, ReaderMoves DEF ReadControl, Moves
    <2>4. CASE Respond(g)
      BY <2>4, ReaderMoves DEF Respond, Accept
    <2>5. CASE Tick(g)
      BY <1>5, <2>5 DEF Tick, PingIgnores
    <2> QED
      BY <1>19, <2>1, <2>2, <2>3, <2>4, <2>5 DEF LoopNext, ReaderOwn, ReadFails, ReadTimesOut
  <1>20. CASE (\E k \in Conn : Break(k)) \/ UNCHANGED vars
    BY <1>5, <1>20 DEF Break, vars
  <1> QED
    BY <1>6, <1>7, <1>8, <1>9, <1>10, <1>11, <1>12, <1>13, <1>14, <1>15, <1>17, <1>18, <1>19, <1>20
       DEF Next, RunOwn, Senders

\* For any number of connections, however they end: unless the application stops the
\* client, a reader has ended before run() leaves its connection.
THEOREM ReadersEnd == Spec => []OneReader
  <1>1. Init => ReaderInv
    BY Goroutines DEF Init, ReaderInv, Senders, Goroutine
  <1>2. ReaderInv => OneReader
    BY DEF ReaderInv, OneReader
  <1> QED
    BY <1>1, <1>2, TypeInvariant, ReaderStep, PTL DEF Spec

-----------------------------------------------------------------------------
(* Where events are.                                                       *)

\* Positions, of any wires w.
PositionsOn(w, kinds) ==
  UNION {{k} \X {n \in DOMAIN w[k] : w[k][n].kind \in kinds} : k \in Conn}

LEMMA PositionsAre ==
  ASSUME NEW w \in [Conn -> Seq(AnyFrame)], NEW kinds, NEW p
  PROVE  p \in PositionsOn(w, kinds)
           <=> \E k \in Conn : \E n \in 1 .. Len(w[k]) : p = <<k, n>> /\ w[k][n].kind \in kinds
  <1>1. \A k \in Conn : DOMAIN w[k] = 1 .. Len(w[k])
    BY LenProperties
  <1> QED
    BY <1>1 DEF PositionsOn

\* The place of the frame that x is writing.
NextPlace(x) == <<writing[x].to, Len(wire[writing[x].to]) + 1>>

\* A frame is written: its position is a new one.
LEMMA PositionAdded ==
  ASSUME TypeInv, NEW x \in Goroutine, EndWrite(x), NEW kinds
  PROVE  /\ PositionsOn(wire', kinds) = IF writing[x].frame.kind \in kinds
                                          THEN PositionsOn(wire, kinds) \cup {NextPlace(x)}
                                          ELSE PositionsOn(wire, kinds)
         /\ \A p \in PositionsOn(wire, kinds) :
              p # NextPlace(x) /\ wire'[p[1]][p[2]] = wire[p[1]][p[2]]
         /\ wire'[NextPlace(x)[1]][NextPlace(x)[2]] = writing[x].frame
  <1> DEFINE w == wire
             v == wire'
             k == writing[x].to
             f == writing[x].frame
             q == NextPlace(x)
  <1>0. /\ w \in [Conn -> Seq(AnyFrame)] /\ k \in Conn /\ f \in AnyFrame
        /\ v = [w EXCEPT ![k] = Append(w[k], f)]
    BY EndTyped DEF TypeInv, EndWrite
  <1>1. q = <<k, Len(w[k]) + 1>>
    BY DEF NextPlace
  <1> HIDE DEF w, v, k, f, q
  <1>2. /\ v[k] = Append(w[k], f) /\ \A l \in Conn \ {k} : v[l] = w[l]
        /\ v \in [Conn -> Seq(AnyFrame)]
    BY <1>0, AppendProperties
  <1>3. /\ Len(v[k]) = Len(w[k]) + 1 /\ v[k][Len(w[k]) + 1] = f
        /\ \A n \in 1 .. Len(w[k]) : v[k][n] = w[k][n]
    BY <1>0, <1>2, AppendProperties
  <1>4. \A l \in Conn : Len(w[l]) \in Nat
    BY <1>0, LenProperties
  <1>5. \A p : p \in PositionsOn(w, kinds)
               <=> \E l \in Conn : \E n \in 1 .. Len(w[l]) : p = <<l, n>> /\ w[l][n].kind \in kinds
    BY <1>0, PositionsAre
  <1>6. \A p : p \in PositionsOn(v, kinds)
               <=> \E l \in Conn : \E n \in 1 .. Len(v[l]) : p = <<l, n>> /\ v[l][n].kind \in kinds
    BY <1>2, PositionsAre
  <1>7. \A p \in PositionsOn(w, kinds) : p # q /\ v[p[1]][p[2]] = w[p[1]][p[2]]
    <2> SUFFICES ASSUME NEW p \in PositionsOn(w, kinds)
                 PROVE  p # q /\ v[p[1]][p[2]] = w[p[1]][p[2]]
      OBVIOUS
    <2>0. PICK l \in Conn : \E n \in 1 .. Len(w[l]) : p = <<l, n>>
      BY <1>5
    <2>1. PICK n \in 1 .. Len(w[l]) : p = <<l, n>>
      BY <2>0
    <2>2. v[l][n] = w[l][n] /\ ~(l = k /\ n = Len(w[k]) + 1)
      BY <1>0, <1>2, <1>3, <1>4, <1>1
    <2> QED
      BY <1>1, <2>1, <2>2
  <1>8. ASSUME NEW p \in PositionsOn(w, kinds) PROVE p \in PositionsOn(v, kinds)
    <2>0. PICK l \in Conn : \E n \in 1 .. Len(w[l]) : p = <<l, n>> /\ w[l][n].kind \in kinds
      BY <1>5
    <2>1. PICK n \in 1 .. Len(w[l]) : p = <<l, n>> /\ w[l][n].kind \in kinds
      BY <2>0
    <2>2. n \in 1 .. Len(v[l]) /\ v[l][n].kind \in kinds
      BY <1>0, <1>2, <1>3, <1>4, <2>1
    <2> QED
      BY <1>6, <2>1, <2>2
  <1>9. ASSUME NEW p \in PositionsOn(v, kinds), p # q PROVE p \in PositionsOn(w, kinds)
    <2>0. PICK l \in Conn : \E n \in 1 .. Len(v[l]) : p = <<l, n>> /\ v[l][n].kind \in kinds
      BY <1>6
    <2>1. PICK n \in 1 .. Len(v[l]) : p = <<l, n>> /\ v[l][n].kind \in kinds
      BY <2>0
    <2>2. n \in 1 .. Len(w[l]) /\ w[l][n].kind \in kinds
      BY <1>0, <1>2, <1>3, <1>4, <1>9, <1>1, <2>1
    <2> QED
      BY <1>5, <2>1, <2>2
  <1>10. q \in PositionsOn(v, kinds) <=> f.kind \in kinds
    <2>1. ASSUME f.kind \in kinds PROVE q \in PositionsOn(v, kinds)
      <3>1. Len(w[k]) + 1 \in 1 .. Len(v[k]) /\ v[k][Len(w[k]) + 1].kind \in kinds
        BY <1>3, <1>4, <2>1
      <3> QED
        BY <1>0, <1>6, <1>1, <3>1
    <2>2. ASSUME q \in PositionsOn(v, kinds) PROVE f.kind \in kinds
      <3>0. PICK l \in Conn : \E n \in 1 .. Len(v[l]) : q = <<l, n>> /\ v[l][n].kind \in kinds
        BY <1>6, <2>2
      <3>1. PICK n \in 1 .. Len(v[l]) : q = <<l, n>> /\ v[l][n].kind \in kinds
        BY <3>0
      <3>2. l = k /\ n = Len(w[k]) + 1
        BY <1>1, <3>1
      <3> QED
        BY <1>3, <3>1, <3>2
    <2> QED
      BY <2>1, <2>2
  <1>11. v[q[1]][q[2]] = f
    BY <1>3, <1>1
  <1>12. PositionsOn(v, kinds) \ {q} = PositionsOn(w, kinds)
    BY <1>7, <1>8, <1>9
  <1>13. PositionsOn(v, kinds) = IF f.kind \in kinds THEN PositionsOn(w, kinds) \cup {q}
                                                     ELSE PositionsOn(w, kinds)
    BY <1>10, <1>12
  <1> QED
    BY <1>7, <1>11, <1>13 DEF w, v, f, q

ReportedOn(w) ==
  UNION {{p} \X (1 .. w[p[1]][p[2]].n) : p \in PositionsOn(w, {"notice"})}

\* A place of an event that is on a wire is a pair.
LEMMA SentTyped ==
  ASSUME TypeInv, NEW p \in Sent
  PROVE  /\ p[1] \in Conn /\ p[2] \in 1 .. Len(wire[p[1]]) /\ p = <<p[1], p[2]>>
         /\ wire[p[1]][p[2]] \in AnyFrame /\ wire[p[1]][p[2]].kind \in {"direct", "flushed"}
  <1>1. Sent = PositionsOn(wire, {"direct", "flushed"})
    BY DEF Sent, Positions, PositionsOn
  <1>2. wire \in [Conn -> Seq(AnyFrame)]
    BY DEF TypeInv
  <1>3. PICK k \in Conn : \E n \in 1 .. Len(wire[k]) : p = <<k, n>> /\ wire[k][n].kind \in {"direct", "flushed"}
    BY <1>1, <1>2, PositionsAre
  <1>4. PICK n \in 1 .. Len(wire[k]) : p = <<k, n>> /\ wire[k][n].kind \in {"direct", "flushed"}
    BY <1>3
  <1>5. wire[k][n] \in AnyFrame
    BY <1>2, <1>4, ElementOfSeq
  <1> QED
    BY <1>4, <1>5

\* The end of a write adds a frame to the wire.
LEMMA Written ==
  ASSUME TypeInv, NEW x \in Goroutine, EndWrite(x)
  PROVE  /\ Sent' = IF writing[x].frame.kind \in {"direct", "flushed"}
                      THEN Sent \cup {NextPlace(x)} ELSE Sent
         /\ NextPlace(x) \notin Sent
         /\ \A p \in Sent : wire'[p[1]][p[2]] = wire[p[1]][p[2]]
         /\ wire'[NextPlace(x)[1]][NextPlace(x)[2]] = writing[x].frame
         /\ writing[x].frame \in AnyFrame
         /\ Reported' = IF writing[x].frame.kind = "notice"
                          THEN Reported \cup ({NextPlace(x)} \X (1 .. writing[x].frame.n))
                          ELSE Reported
         /\ Reported \cap ({NextPlace(x)} \X (1 .. writing[x].frame.n)) = {}
  <1> DEFINE f == writing[x].frame
             q == NextPlace(x)
  <1>1. writing[x].to \in Conn /\ f \in AnyFrame
    BY EndTyped
  <1>2. wire \in [Conn -> Seq(AnyFrame)]
    BY DEF TypeInv
  <1>3. wire' = [wire EXCEPT ![writing[x].to] = Append(wire[writing[x].to], f)]
    BY DEF EndWrite
  <1>4. \A kinds :
          /\ PositionsOn(wire', kinds) = IF f.kind \in kinds THEN PositionsOn(wire, kinds) \cup {q}
                                                             ELSE PositionsOn(wire, kinds)
          /\ \A p \in PositionsOn(wire, kinds) : p # q /\ wire'[p[1]][p[2]] = wire[p[1]][p[2]]
          /\ wire'[q[1]][q[2]] = f
    BY PositionAdded
  <1> HIDE DEF f, q
  <1>5. /\ Sent = PositionsOn(wire, {"direct", "flushed"})
        /\ Sent' = PositionsOn(wire', {"direct", "flushed"})
    BY DEF Sent, Positions, PositionsOn
  <1>6. Reported = ReportedOn(wire) /\ Reported' = ReportedOn(wire')
    BY DEF Reported, Positions, PositionsOn, ReportedOn
  <1>7. ReportedOn(wire') = IF f.kind = "notice" THEN ReportedOn(wire) \cup ({q} \X (1 .. f.n))
                                                 ELSE ReportedOn(wire)
    <2>1. \A p \in PositionsOn(wire, {"notice"}) : wire'[p[1]][p[2]] = wire[p[1]][p[2]]
      BY <1>4
    <2>2. CASE f.kind = "notice"
      <3>1. PositionsOn(wire', {"notice"}) = PositionsOn(wire, {"notice"}) \cup {q}
        BY <1>4, <2>2
      <3>2. wire'[q[1]][q[2]] = f
        BY <1>4
      <3> QED
        BY <2>1, <2>2, <3>1, <3>2 DEF ReportedOn
    <2>3. CASE f.kind # "notice"
      <3>1. PositionsOn(wire', {"notice"}) = PositionsOn(wire, {"notice"})
        BY <1>4, <2>3
      <3> QED
        BY <2>1, <2>3, <3>1 DEF ReportedOn
    <2> QED
      BY <2>2, <2>3
  <1>8. ReportedOn(wire) \cap ({q} \X (1 .. f.n)) = {}
    <2>1. \A p \in PositionsOn(wire, {"notice"}) : p # q
      BY <1>4
    <2> QED
      BY <2>1 DEF ReportedOn
  <1> QED
    BY <1>1, <1>4, <1>5, <1>6, <1>7, <1>8 DEF f, q

-----------------------------------------------------------------------------
(* Every event is accounted for.                                           *)

Ev(p)    == wire[p[1]][p[2]].n
Buffered == {buffer[m] : m \in 1 .. Len(buffer)}
OnWire   == {Ev(p) : p \in Sent}
Nowhere  == (1 .. accepted) \ (Buffered \cup OnWire \cup InHand)

\* An event is in one place, and the buffer is in order.
PlacedInv ==
  /\ \A e \in Buffered \cup OnWire : e \in 1 .. accepted /\ e \notin InHand
  /\ Buffered \cap OnWire = {} /\ InHand \subseteq 1 .. accepted
  /\ \A m, n \in 1 .. Len(buffer) : m < n => buffer[m] < buffer[n]
  /\ \A p, q \in Sent : Ev(p) = Ev(q) => p = q

\* What is nowhere has been reported or will be.
CountInv ==
  /\ IsFiniteSet(Reported)
  /\ Cardinality(Nowhere) = dropped + Cardinality(Reported)

LEMMA NothingPlaced ==
  ASSUME TypeInv, PlacedInv, CountInv, UNCHANGED <<accepted, buffer, dropped, wire>>, InHand' = InHand
  PROVE  PlacedInv' /\ CountInv'
  <1>1. Sent' = Sent /\ Reported' = Reported
    BY DEF Sent, Positions, Reported
  <1>2. \A p \in Sent : Ev(p)' = Ev(p)
    BY DEF Ev
  <1>3. OnWire' = OnWire /\ Buffered' = Buffered
    BY <1>1, <1>2 DEF OnWire, Buffered, Ev
  <1>4. Nowhere' = Nowhere
    BY <1>3 DEF Nowhere
  <1>5. PlacedInv'
    BY <1>1, <1>2, <1>3 DEF PlacedInv
  <1> QED
    BY <1>1, <1>4, <1>5 DEF CountInv

\* A frame that carries no event and is no notice.
LEMMA NoEventWritten ==
  ASSUME TypeInv, PlacedInv, CountInv, NEW x \in Goroutine, EndWrite(x),
         writing[x].frame.kind \notin {"direct", "flushed", "notice"},
         UNCHANGED <<accepted, buffer, dropped>>, InHand' = InHand
  PROVE  PlacedInv' /\ CountInv'
  <1>1. Sent' = Sent /\ Reported' = Reported
    BY Written
  <1>2. \A p \in Sent : Ev(p)' = Ev(p)
    BY Written DEF Ev
  <1>3. OnWire' = OnWire /\ Buffered' = Buffered
    BY <1>1, <1>2 DEF OnWire, Buffered, Ev
  <1>4. Nowhere' = Nowhere
    BY <1>3 DEF Nowhere
  <1>5. PlacedInv'
    BY <1>1, <1>2, <1>3 DEF PlacedInv
  <1> QED
    BY <1>1, <1>4, <1>5 DEF CountInv

\* An event that is on no wire yet is written to one.
LEMMA EventWritten ==
  ASSUME TypeInv, PlacedInv, NEW x \in Goroutine, EndWrite(x),
         writing[x].frame.kind \in {"direct", "flushed"}, writing[x].frame.n \notin OnWire
  PROVE  /\ OnWire' = OnWire \cup {writing[x].frame.n}
         /\ \A p, q \in Sent' : Ev(p)' = Ev(q)' => p = q
         /\ Reported' = Reported
  <1> PICK q : q = NextPlace(x)
    OBVIOUS
  <1>1. Sent' = Sent \cup {q} /\ Reported' = Reported
    BY Written
  <1>2. \A p \in Sent : Ev(p)' = Ev(p)
    BY Written DEF Ev
  <1>3. Ev(q)' = writing[x].frame.n
    <2>1. wire'[q[1]][q[2]].n = writing[x].frame.n
      BY Written
    <2> QED
      BY <2>1 DEF Ev
  <1>4. OnWire' = {Ev(p)' : p \in Sent'}
    BY DEF OnWire, Ev
  <1>5. OnWire' = OnWire \cup {Ev(q)'}
    BY <1>1, <1>2, <1>4 DEF OnWire
  <1>6. \A p \in Sent : Ev(p)' # Ev(q)'
    BY <1>2, <1>3 DEF OnWire
  <1>7. \A p, r \in Sent : Ev(p)' = Ev(r)' => p = r
    BY <1>2 DEF PlacedInv
  <1> QED
    BY <1>1, <1>3, <1>5, <1>6, <1>7

\* The buffer loses its first event.
LEMMA HeadLeaves ==
  ASSUME TypeInv, PlacedInv, buffer # <<>>
  PROVE  /\ Head(buffer) \in Buffered
         /\ {Tail(buffer)[m] : m \in 1 .. Len(Tail(buffer))} = Buffered \ {Head(buffer)}
         /\ \A m, n \in 1 .. Len(Tail(buffer)) : m < n => Tail(buffer)[m] < Tail(buffer)[n]
  <1> DEFINE rest == Tail(buffer)
  <1>1. /\ buffer \in Seq(Nat) /\ Len(buffer) \in Nat /\ Head(buffer) = buffer[1]
        /\ \A m \in 1 .. Len(buffer) : buffer[m] \in Nat
    BY HeadTailProperties, LenProperties, ElementOfSeq DEF TypeInv
  <1>2. Len(buffer) \in Nat \ {0}
    BY <1>1, EmptySeq
  <1>3. Len(rest) = Len(buffer) - 1 /\ \A m \in 1 .. Len(rest) : rest[m] = buffer[m + 1]
    BY <1>1, HeadTailProperties
  <1> HIDE DEF rest
  <1>4. \A m \in 2 .. Len(buffer) : buffer[m] # buffer[1]
    BY <1>1, <1>2 DEF PlacedInv
  <1>5. {rest[m] : m \in 1 .. Len(rest)} = {buffer[m] : m \in 2 .. Len(buffer)}
    <2>1. {rest[m] : m \in 1 .. Len(rest)} = {buffer[m + 1] : m \in 1 .. Len(buffer) - 1}
      BY <1>3 DEF Buffered
    <2>2. \A m \in 2 .. Len(buffer) : m - 1 \in 1 .. Len(buffer) - 1 /\ (m - 1) + 1 = m
      BY <1>2
    <2>3. \A m \in 1 .. Len(buffer) - 1 : m + 1 \in 2 .. Len(buffer)
      BY <1>2
    <2> QED
      BY <2>1, <2>2, <2>3
  <1>6. Buffered = {buffer[1]} \cup {buffer[m] : m \in 2 .. Len(buffer)}
    <2>1. 1 .. Len(buffer) = {1} \cup 2 .. Len(buffer)
      BY <1>2
    <2> QED
      BY <2>1 DEF Buffered
  <1>7. \A m, n \in 1 .. Len(rest) : m < n => rest[m] < rest[n]
    BY <1>2, <1>3 DEF PlacedInv
  <1> QED
    BY <1>1, <1>4, <1>5, <1>6, <1>7 DEF rest

\* It gets an event that is later than those in it, and its first one leaves when it is full.
LEMMA EventBuffered ==
  ASSUME TypeInv, PlacedInv, mu \in Senders,
         buffer' = Append(IF Full THEN Tail(buffer) ELSE buffer, accepted)
  PROVE  /\ Buffered' = (IF Full THEN Buffered \ {Head(buffer)} ELSE Buffered) \cup {accepted}
         /\ Full => Head(buffer) \in Buffered
         /\ \A m, n \in 1 .. Len(buffer') : m < n => buffer'[m] < buffer'[n]
  <1> DEFINE rest == IF Full THEN Tail(buffer) ELSE buffer
             kept == {rest[m] : m \in 1 .. Len(rest)}
  <1>1. Full => buffer # <<>>
    BY BufferTyped DEF TypeInv
  <1>2. /\ rest \in Seq(Nat) /\ \A m, n \in 1 .. Len(rest) : m < n => rest[m] < rest[n]
        /\ kept = IF Full THEN Buffered \ {Head(buffer)} ELSE Buffered
        /\ Full => Head(buffer) \in Buffered
    <2>1. CASE ~Full
      BY <2>1 DEF TypeInv, PlacedInv, Buffered
    <2>2. CASE Full
      BY <1>1, <2>2, HeadLeaves, HeadTailProperties DEF TypeInv
    <2> QED
      BY <2>1, <2>2
  <1>3. Len(rest) \in Nat /\ accepted \in Nat
    BY <1>2, LenProperties DEF TypeInv
  <1>4. buffer' = Append(rest, accepted)
    OBVIOUS
  <1> HIDE DEF rest
  <1>5. /\ Len(buffer') = Len(rest) + 1 /\ buffer'[Len(rest) + 1] = accepted
        /\ \A m \in 1 .. Len(rest) : buffer'[m] = rest[m]
    <2>1. /\ Len(Append(rest, accepted)) = Len(rest) + 1
          /\ Append(rest, accepted)[Len(rest) + 1] = accepted
          /\ \A m \in 1 .. Len(rest) : Append(rest, accepted)[m] = rest[m]
      BY <1>2, <1>3, AppendProperties
    <2> QED
      BY <1>4, <2>1
  <1>6. \A m \in 1 .. Len(rest) : rest[m] \in Nat /\ rest[m] < accepted
    <2>1. \A e \in Buffered : e \in 1 .. accepted /\ e # accepted
      BY DEF PlacedInv, InHand, Senders
    <2>2. \A e \in Buffered : e \in Nat /\ e < accepted
      BY <1>3, <2>1
    <2>3. \A m \in 1 .. Len(rest) : rest[m] \in kept
      OBVIOUS
    <2>4. kept \subseteq Buffered
      BY <1>2
    <2> HIDE DEF kept
    <2> QED
      BY <2>2, <2>3, <2>4
  <1>7. Buffered' = kept \cup {accepted}
    <2>1. Buffered' = {buffer'[m] : m \in 1 .. Len(buffer')}
      BY DEF Buffered
    <2>2. 1 .. Len(buffer') = 1 .. Len(rest) \cup {Len(rest) + 1}
      BY <1>3, <1>5
    <2>3. {buffer'[m] : m \in 1 .. Len(buffer')} = {buffer'[m] : m \in 1 .. Len(rest)} \cup {accepted}
      BY <1>5, <2>2
    <2>4. {buffer'[m] : m \in 1 .. Len(rest)} = kept
      BY <1>5
    <2> QED
      BY <2>1, <2>3, <2>4
  <1>8. \A m, n \in 1 .. Len(buffer') : m < n => buffer'[m] < buffer'[n]
    <2> SUFFICES ASSUME NEW m \in 1 .. Len(buffer'), NEW n \in 1 .. Len(buffer'), m < n
                 PROVE  buffer'[m] < buffer'[n]
      OBVIOUS
    <2>1. m \in 1 .. Len(rest) /\ buffer'[m] = rest[m]
      BY <1>3, <1>5
    <2>2. CASE n \in 1 .. Len(rest)
      BY <1>2, <1>5, <2>1, <2>2
    <2>3. CASE n = Len(rest) + 1
      BY <1>5, <1>6, <2>1, <2>3
    <2> QED
      BY <1>3, <1>5, <2>2, <2>3
  <1> QED
    BY <1>2, <1>7, <1>8

LEMMA PlacedStep ==
  ASSUME TypeInv, MutexInv, ConnInv, WriteInv, PlacedInv, CountInv, [Next]_vars
  PROVE  PlacedInv' /\ CountInv'
  <1> USE Goroutines, ConstantsAssumption
  <1>1. Effect
    BY Effects
  <1>2. accepted \in Nat /\ dropped \in Nat /\ Senders = Apps \cup Readers
    BY DEF TypeInv, Senders
  <1>3. CASE UNCHANGED <<accepted, buffer, dropped, wire>> /\ UNCHANGED mu
    BY <1>3, NothingPlaced DEF InHand
  <1>4. CASE LockFlush
    BY <1>4, NothingPlaced DEF LockFlush, Lock, InHand, Senders, Goroutine, ioVars
  <1>5. CASE Greets
    <2>1. writing[Run].frame \in {Auth, Hello}
      BY <1>5 DEF Greets, EndWrite, WriteInv, Goes
    <2>2. writing[Run].frame.kind \in {"auth", "hello"}
      BY <2>1 DEF Auth, Hello, Frame
    <2> QED
      BY <1>5, <2>2, NoEventWritten DEF Greets, InHand, queueVars
  <1>6. CASE Flushes
    <2>1. writing[Run].frame = Flushed(Head(buffer)) /\ EndWrite(Run)
      BY <1>6 DEF Flushes, EndWrite, WriteInv
    <2>2. writing[Run].frame.kind = "flushed" /\ writing[Run].frame.n = Head(buffer)
      BY <2>1 DEF Flushed, Frame
    <2>3. /\ Head(buffer) \in Buffered
          /\ {Tail(buffer)[m] : m \in 1 .. Len(Tail(buffer))} = Buffered \ {Head(buffer)}
          /\ \A m, n \in 1 .. Len(Tail(buffer)) : m < n => Tail(buffer)[m] < Tail(buffer)[n]
      BY <1>6, HeadLeaves DEF Flushes
    <2>4. Head(buffer) \notin OnWire
      BY <2>3 DEF PlacedInv
    <2>5. /\ OnWire' = OnWire \cup {Head(buffer)} /\ Reported' = Reported
          /\ \A p, q \in Sent' : Ev(p)' = Ev(q)' => p = q
      BY <2>1, <2>2, <2>4, EventWritten
    <2>6. Buffered' = Buffered \ {Head(buffer)}
          /\ \A m, n \in 1 .. Len(buffer') : m < n => buffer'[m] < buffer'[n]
      <3>1. buffer' = Tail(buffer)
        BY <1>6 DEF Flushes
      <3>2. Buffered' = {buffer'[m] : m \in 1 .. Len(buffer')}
        BY DEF Buffered
      <3>3. Buffered' = {Tail(buffer)[m] : m \in 1 .. Len(Tail(buffer))}
        BY <3>1, <3>2
      <3>4. \A m, n \in 1 .. Len(buffer') : m < n => buffer'[m] < buffer'[n]
        BY <2>3, <3>1
      <3> QED
        BY <2>3, <3>3, <3>4
    <2>7. accepted' = accepted /\ dropped' = dropped /\ InHand' = InHand
      BY <1>6 DEF Flushes, InHand
    <2>8. Nowhere' = Nowhere
      BY <2>3, <2>5, <2>6, <2>7 DEF Nowhere
    <2>9. PlacedInv'
      BY <2>3, <2>4, <2>5, <2>6, <2>7 DEF PlacedInv
    <2> QED
      BY <2>5, <2>7, <2>8, <2>9 DEF CountInv
  <1>7. CASE Finishes
    <2>1. mu = Run /\ mu' = None /\ accepted' = accepted /\ buffer' = buffer
      BY <1>7 DEF Finishes, Launch, MutexInv
    <2>2. InHand' = InHand
      BY <2>1 DEF InHand, Senders, Goroutine
    <2>3. CASE dropped = 0 /\ UNCHANGED <<dropped, wire>>
      BY <2>1, <2>2, <2>3, NothingPlaced
    <2>4. CASE dropped > 0 /\ EndWrite(Run) /\ dropped' = 0
      <3>1. writing[Run].frame = Notice(dropped)
        BY <1>7, <2>4 DEF Finishes, EndWrite, WriteInv
      <3>2. writing[Run].frame.kind = "notice" /\ writing[Run].frame.n = dropped
        BY <3>1 DEF Notice, Frame
      <3> DEFINE new == {NextPlace(Run)} \X (1 .. dropped)
      <3>3. Sent' = Sent /\ Reported' = Reported \cup new /\ Reported \cap new = {}
        BY <2>4, <3>2, Written
      <3>4. \A p \in Sent : Ev(p)' = Ev(p)
        BY <2>4, Written DEF Ev
      <3>5. OnWire' = OnWire /\ Buffered' = Buffered
        BY <2>1, <3>3, <3>4 DEF OnWire, Buffered, Ev
      <3>6. Nowhere' = Nowhere
        BY <2>1, <2>2, <3>5 DEF Nowhere
      <3>7. PlacedInv'
        BY <2>1, <2>2, <3>3, <3>4, <3>5 DEF PlacedInv
      <3>8. IsFiniteSet(1 .. dropped) /\ Cardinality(1 .. dropped) = dropped
        BY <1>2, <2>4, FS_Interval
      <3>9. IsFiniteSet(new) /\ Cardinality(new) = dropped
        <4> DEFINE one == {NextPlace(Run)}
                   all == 1 .. dropped
        <4>1. IsFiniteSet(one) /\ Cardinality(one) = 1
          BY FS_Singleton
        <4>2. new = one \X all
          OBVIOUS
        <4> HIDE DEF one, new
        <4>3. IsFiniteSet(all) /\ Cardinality(all) = dropped
          BY <3>8
        <4> HIDE DEF all
        <4>4. IsFiniteSet(one \X all) /\ Cardinality(one \X all) = Cardinality(one) * Cardinality(all)
          BY <4>1, <4>3, FS_Product
        <4> QED
          BY <1>2, <4>1, <4>2, <4>3, <4>4
      <3> HIDE DEF new
      <3>10. IsFiniteSet(Reported') /\ Cardinality(Reported') = Cardinality(Reported) + dropped
        <4>1. /\ IsFiniteSet(Reported \cup new)
              /\ Cardinality(Reported \cup new) = Cardinality(Reported) + Cardinality(new) - Cardinality({})
          BY <3>3, <3>9, FS_Union DEF CountInv
        <4>2. Cardinality({}) = 0 /\ Cardinality(Reported) \in Nat
          BY FS_EmptySet, FS_CardinalityType DEF CountInv
        <4> QED
          BY <1>2, <3>3, <3>9, <4>1, <4>2
      <3>11. Cardinality(Reported) \in Nat
        BY FS_CardinalityType DEF CountInv
      <3> QED
        BY <1>2, <2>4, <3>6, <3>7, <3>10, <3>11 DEF CountInv
    <2> QED
      BY <1>7, <2>3, <2>4 DEF Finishes
  <1>8. ASSUME NEW x \in Senders, Accepts(x) PROVE PlacedInv' /\ CountInv'
    <2>1. UNCHANGED <<buffer, dropped, wire>> /\ accepted' = accepted + 1 /\ mu = None /\ mu' = x
      BY <1>8 DEF Accepts
    <2>2. InHand = {} /\ InHand' = {accepted + 1}
      BY <1>2, <2>1 DEF InHand, Goroutine
    <2>3. Sent' = Sent /\ Reported' = Reported
      BY <2>1 DEF Sent, Positions, Reported
    <2>4. \A p \in Sent : Ev(p)' = Ev(p)
      BY <2>1 DEF Ev
    <2>5. OnWire' = OnWire /\ Buffered' = Buffered
      BY <2>1, <2>3, <2>4 DEF OnWire, Buffered, Ev
    <2>6. 1 .. accepted' = 1 .. accepted \cup {accepted + 1} /\ accepted + 1 \notin 1 .. accepted
      BY <1>2, <2>1
    <2>7. Nowhere' = Nowhere
      BY <2>2, <2>5, <2>6 DEF Nowhere, PlacedInv
    <2>8. PlacedInv'
      BY <2>1, <2>2, <2>3, <2>4, <2>5, <2>6 DEF PlacedInv
    <2> QED
      BY <2>1, <2>3, <2>7, <2>8 DEF CountInv
  <1>9. ASSUME NEW x \in Senders, pc[x] \in Holding, mu' = None
        PROVE  /\ InHand = {accepted} /\ InHand' = {} /\ accepted \in 1 .. accepted
               /\ accepted \notin Buffered /\ accepted \notin OnWire
    <2>1. mu = x
      BY <1>9 DEF MutexInv
    <2>2. InHand = {accepted} /\ InHand' = {}
      BY <1>2, <1>9, <2>1 DEF InHand, Goroutine
    <2> QED
      BY <2>2 DEF PlacedInv
  <1>10. ASSUME NEW x \in Senders, Buffer(x) PROVE PlacedInv' /\ CountInv'
    <2>1. /\ pc[x] = "buffer" /\ mu = x /\ mu' = None /\ UNCHANGED <<accepted, wire>>
          /\ buffer' = Append(IF Full THEN Tail(buffer) ELSE buffer, accepted)
          /\ dropped' = IF Full THEN dropped + 1 ELSE dropped
      BY <1>10 DEF Buffer, Returns, Goes, ioVars, MutexInv, Holding
    <2>2. /\ InHand = {accepted} /\ InHand' = {} /\ accepted \in 1 .. accepted
          /\ accepted \notin Buffered /\ accepted \notin OnWire
      BY <1>9, <2>1 DEF Holding
    <2>3. Sent' = Sent /\ Reported' = Reported
      BY <2>1 DEF Sent, Positions, Reported
    <2>4. \A p \in Sent : Ev(p)' = Ev(p)
      BY <2>1 DEF Ev
    <2>5. OnWire' = OnWire
      BY <2>3, <2>4 DEF OnWire, Ev
    <2>6. /\ Buffered' = (IF Full THEN Buffered \ {Head(buffer)} ELSE Buffered) \cup {accepted}
          /\ Full => Head(buffer) \in Buffered
          /\ \A m, n \in 1 .. Len(buffer') : m < n => buffer'[m] < buffer'[n]
      BY <2>1, EventBuffered
    <2>7. PlacedInv'
      BY <2>1, <2>2, <2>3, <2>4, <2>5, <2>6 DEF PlacedInv
    <2>8. CASE ~Full
      <3>1. Nowhere' = Nowhere
        BY <2>1, <2>2, <2>5, <2>6, <2>8 DEF Nowhere
      <3> QED
        BY <2>1, <2>3, <2>7, <2>8, <3>1 DEF CountInv
    <2>9. CASE Full
      <3>1. Head(buffer) \in 1 .. accepted /\ Head(buffer) \notin OnWire /\ Head(buffer) # accepted
        BY <2>2, <2>6, <2>9 DEF PlacedInv
      <3>2. Nowhere' = Nowhere \cup {Head(buffer)} /\ Head(buffer) \notin Nowhere
        BY <2>1, <2>2, <2>5, <2>6, <2>9, <3>1 DEF Nowhere
      <3>3. IsFiniteSet(Nowhere)
        <4>1. IsFiniteSet(1 .. accepted) /\ Nowhere \in SUBSET (1 .. accepted)
          BY <1>2, FS_Interval DEF Nowhere
        <4> QED
          BY <4>1, FS_Subset
      <3>4. Cardinality(Nowhere') = Cardinality(Nowhere) + 1
        BY <3>2, <3>3, FS_AddElement
      <3>5. Cardinality(Reported) \in Nat /\ dropped' = dropped + 1
        BY <2>1, <2>9, FS_CardinalityType DEF CountInv
      <3> QED
        BY <1>2, <2>3, <2>7, <3>4, <3>5 DEF CountInv
    <2> QED
      BY <2>8, <2>9
  <1>11. ASSUME NEW x \in Senders, Sends(x) PROVE PlacedInv' /\ CountInv'
    <2>1. pc[x] = "send" /\ mu' = None /\ EndWrite(x) /\ UNCHANGED <<accepted, buffer, dropped>>
      BY <1>11 DEF Sends, Returns
    <2>2. /\ InHand = {accepted} /\ InHand' = {} /\ accepted \in 1 .. accepted
          /\ accepted \notin Buffered /\ accepted \notin OnWire
      BY <1>9, <2>1 DEF Holding
    <2>3. writing[x].frame = Direct(accepted)
      BY <2>1 DEF EndWrite, WriteInv
    <2>4. writing[x].frame.kind = "direct" /\ writing[x].frame.n = accepted
      BY <2>3 DEF Direct, Frame
    <2>5. /\ OnWire' = OnWire \cup {accepted} /\ Reported' = Reported
          /\ \A p, q \in Sent' : Ev(p)' = Ev(q)' => p = q
      BY <2>1, <2>2, <2>4, EventWritten, <1>2
    <2>6. Buffered' = Buffered
      BY <2>1 DEF Buffered
    <2>7. Nowhere' = Nowhere
      BY <2>1, <2>2, <2>5, <2>6 DEF Nowhere
    <2>8. PlacedInv'
      BY <2>1, <2>2, <2>5, <2>6 DEF PlacedInv
    <2> QED
      BY <2>1, <2>5, <2>7, <2>8 DEF CountInv
  <1>12. CASE Quiet \/ Dial \/ Leave \/ (\E x, f : Writes(x, f))
    BY <1>3, <1>12 DEF Quiet, Dial, Leave, Writes, Begins, queueVars
  <1> QED
    BY <1>1, <1>4, <1>5, <1>6, <1>7, <1>8, <1>10, <1>11, <1>12 DEF Effect

LEMMA InitPlaced == Init => PlacedInv /\ CountInv
  <1> SUFFICES ASSUME Init PROVE PlacedInv /\ CountInv
    OBVIOUS
  <1>1. \A kinds : Positions(kinds) = {}
    BY DEF Init, Positions
  <1>2. Sent = {} /\ Reported = {} /\ Buffered = {} /\ OnWire = {} /\ InHand = {}
    BY <1>1, Goroutines DEF Init, Sent, Reported, Buffered, OnWire, InHand, Senders, Goroutine
  <1>3. 1 .. accepted = {} /\ Nowhere = {} /\ Len(buffer) = 0 /\ dropped = 0
    BY <1>2 DEF Init, Nowhere
  <1> QED
    BY <1>2, <1>3, FS_EmptySet DEF PlacedInv, CountInv

WorldInv == TypeInv /\ MutexInv /\ ConnInv /\ WriteInv /\ FlushedInv /\ PlacedInv /\ CountInv

LEMMA InitWorld == Init => WorldInv
  <1>1. Init => MutexInv /\ ConnInv /\ WriteInv /\ FlushedInv
    BY ConstantsAssumption, Goroutines
       DEF Init, MutexInv, ConnInv, WriteInv, FlushedInv, Holding, Senders, Goroutine
  <1> QED
    BY <1>1, InitTyped, InitPlaced DEF WorldInv

LEMMA WorldInvariant == Spec => []WorldInv
  <1>1. WorldInv /\ [Next]_vars => WorldInv'
    BY TypeStep, MutexStep, ConnStep, WriteStep, FlushedStep, PlacedStep DEF WorldInv
  <1> QED
    BY <1>1, InitWorld, PTL DEF Spec

\* However goroutines run into each other and connections fail half-way through a flush:
\* an event is in one place, those that are nowhere are as many as notices have reported
\* or one will, and none is left in the buffer once that has been flushed.
THEOREM EventsAccounted == Spec => []Accounted
  <1>1. WorldInv => Accounted
    <2> SUFFICES ASSUME WorldInv PROVE Accounted
      OBVIOUS
    <2>1. DOMAIN buffer = 1 .. Len(buffer) /\ \A m \in 1 .. Len(buffer) : buffer[m] \in Nat
      BY LenProperties, ElementOfSeq DEF WorldInv, TypeInv
    <2>2. \A p \in Sent : p[1] \in Conn /\ p[1] # None
      BY SentTyped, ConstantsAssumption DEF WorldInv
    <2>3. \A p \in Sent : At(p) = Ev(p)
      BY <2>2 DEF At, Ev
    <2>4. \A m \in 1 .. Len(buffer) : At(<<None, m>>) = buffer[m]
      BY DEF At
    <2>5. ASSUME NEW p \in Place
          PROVE  \/ p \in Sent /\ At(p) = Ev(p)
                 \/ \E m \in 1 .. Len(buffer) : p = <<None, m>> /\ At(p) = buffer[m]
      BY <2>1, <2>3, <2>4 DEF Place
    <2>6. {At(p) : p \in Place} = Buffered \cup OnWire
      <3>1. \A p \in Place : At(p) \in Buffered \cup OnWire
        BY <2>5 DEF Buffered, OnWire
      <3>2. \A e \in OnWire : \E p \in Place : At(p) = e
        BY <2>3 DEF Place, OnWire
      <3>3. \A e \in Buffered : \E p \in Place : At(p) = e
        <4>1. \A m \in 1 .. Len(buffer) : <<None, m>> \in Place
          BY <2>1 DEF Place
        <4> QED
          BY <2>4, <4>1 DEF Buffered
      <3> QED
        BY <3>1, <3>2, <3>3
    <2>7. \A m, n \in 1 .. Len(buffer) : buffer[m] = buffer[n] => m = n
      <3>1. \A m, n \in 1 .. Len(buffer) : m < n \/ n < m \/ m = n
        OBVIOUS
      <3> QED
        BY <2>1, <3>1 DEF WorldInv, PlacedInv
    <2>8. ASSUME NEW p \in Place, NEW q \in Place, At(p) = At(q) PROVE p = q
      <3>1. \A m \in 1 .. Len(buffer) : \A r \in Sent : buffer[m] # Ev(r)
        BY DEF WorldInv, PlacedInv, Buffered, OnWire
      <3>2. CASE p \in Sent /\ At(p) = Ev(p)
        <4>1. q \in Sent /\ At(q) = Ev(q)
          BY <2>5, <2>8, <3>1, <3>2
        <4> QED
          BY <2>8, <3>2, <4>1 DEF WorldInv, PlacedInv
      <3>3. CASE \E m \in 1 .. Len(buffer) : p = <<None, m>> /\ At(p) = buffer[m]
        <4>1. \E m \in 1 .. Len(buffer) : q = <<None, m>> /\ At(q) = buffer[m]
          BY <2>5, <2>8, <3>1, <3>3
        <4> QED
          BY <2>8, <2>7, <3>3, <4>1
      <3> QED
        BY <2>5, <3>2, <3>3
    <2>9. (1 .. accepted) \ (Buffered \cup OnWire \cup InHand) = Nowhere
      BY DEF Nowhere
    <2>10. InHand \cap (Buffered \cup OnWire) = {}
      BY DEF WorldInv, PlacedInv
    <2> QED
      BY <2>8, <2>9, <2>10, <2>6 DEF Accounted, WorldInv, CountInv, FlushedInv
  <1> QED
    BY <1>1, WorldInvariant, PTL

-----------------------------------------------------------------------------
(* The order of events on a wire.                                          *)

IsEvent(f) == f.kind \in {"direct", "flushed"}

\* FlushInOrder, of the frames on one wire.
InOrder(w) ==
  \A m, n \in 1 .. Len(w) :
    m < n /\ IsEvent(w[m]) /\ IsEvent(w[n]) =>
      /\ w[m].kind = "flushed" /\ w[n].kind = "flushed"
           => \A i \in m .. n : w[i].kind # "direct"
      /\ w[m].n > w[n].n => w[m].kind = "direct" /\ w[n].kind = "flushed"

\* A frame keeps a wire in order if no event on it is later, but for those that were sent
\* before the flush when the frame is part of it.
Follows(f, w) ==
  /\ f.kind = "flushed" => \A m \in 1 .. Len(w) : w[m].kind = "flushed" =>
                              w[m].n <= f.n /\ \A i \in m .. Len(w) : w[i].kind # "direct"
  /\ f.kind = "direct" => \A m \in 1 .. Len(w) : IsEvent(w[m]) => w[m].n <= f.n

LEMMA OrderAppended ==
  ASSUME NEW w \in Seq(AnyFrame), NEW f \in AnyFrame, InOrder(w), Follows(f, w)
  PROVE  InOrder(Append(w, f))
  <1> PICK v : v = Append(w, f)
    OBVIOUS
  <1>1. /\ Len(w) \in Nat /\ Len(v) = Len(w) + 1 /\ v[Len(w) + 1] = f
        /\ \A m \in 1 .. Len(w) : v[m] = w[m] /\ w[m].n \in Nat
    <2>1. \A m \in 1 .. Len(w) : w[m] \in AnyFrame
      BY ElementOfSeq
    <2>2. \A m \in 1 .. Len(w) : w[m].n \in Nat
      BY <2>1 DEF AnyFrame
    <2> QED
      BY <2>2, AppendProperties, LenProperties
  <1>2. f.n \in Nat
    BY DEF AnyFrame
  <1> SUFFICES ASSUME NEW m \in 1 .. Len(v), NEW n \in 1 .. Len(v), m < n, IsEvent(v[m]), IsEvent(v[n])
               PROVE  /\ v[m].kind = "flushed" /\ v[n].kind = "flushed"
                           => \A i \in m .. n : v[i].kind # "direct"
                      /\ v[m].n > v[n].n => v[m].kind = "direct" /\ v[n].kind = "flushed"
    BY DEF InOrder
  <1>3. m \in 1 .. Len(w) /\ v[m] = w[m]
    BY <1>1
  <1>4. CASE n \in 1 .. Len(w)
    <2>1. \A i \in m .. n : v[i] = w[i]
      BY <1>1, <1>3, <1>4
    <2>2. v[n] = w[n]
      BY <1>1, <1>4
    <2> QED
      BY <1>3, <1>4, <2>1, <2>2 DEF InOrder
  <1>5. CASE n = Len(w) + 1
    <2>1. v[n] = f
      BY <1>1, <1>5
    <2>2. CASE f.kind = "flushed"
      <3>1. \A i \in m .. n : i \in m .. Len(w) \/ i = n
        BY <1>1, <1>3, <1>5
      <3>2. w[m].kind = "flushed" => \A i \in m .. Len(w) : v[i].kind # "direct"
        BY <1>1, <1>3, <2>2 DEF Follows
      <3>3. v[m].kind = "flushed" => ~(v[m].n > v[n].n)
        BY <1>1, <1>2, <1>3, <2>1, <2>2 DEF Follows
      <3> QED
        BY <1>3, <2>1, <2>2, <3>1, <3>2, <3>3 DEF IsEvent
    <2>3. CASE f.kind = "direct"
      <3>1. w[m].n <= f.n
        BY <1>3, <2>3 DEF Follows
      <3> QED
        BY <1>1, <1>2, <1>3, <2>1, <2>3, <3>1
    <2> QED
      BY <2>1, <2>2, <2>3 DEF IsEvent
  <1> QED
    BY <1>1, <1>4, <1>5

\* What is flushed next is later than what has been flushed to the same connection, and
\* nothing else is sent meanwhile.
OrderInv ==
  /\ \A k \in Conn : InOrder(wire[k])
  /\ pc[Run] \in {"auth", "await", "hello", "lock"} =>
       \A n \in 1 .. Len(wire[opened]) : wire[opened][n].kind # "flushed"
  /\ pc[Run] = "flush" =>
       \A n \in 1 .. Len(wire[opened]) : wire[opened][n].kind = "flushed" =>
         /\ \A e \in Buffered : wire[opened][n].n < e
         /\ \A i \in n .. Len(wire[opened]) : wire[opened][i].kind # "direct"
  /\ \A k \in Conn : k > opened => wire[k] = <<>>

LEMMA OrderWritten ==
  ASSUME TypeInv, WriteInv, OrderInv, NEW x \in Goroutine, EndWrite(x), opened' = opened,
         Follows(writing[x].frame, wire[writing[x].to])
  PROVE  /\ \A k \in Conn : InOrder(wire'[k])
         /\ \A k \in Conn : k > opened' => wire'[k] = <<>>
         /\ \A k \in Conn \ {writing[x].to} : wire'[k] = wire[k]
         /\ LET k == writing[x].to IN
              /\ k \in Conn /\ Len(wire[k]) \in Nat /\ Len(wire'[k]) = Len(wire[k]) + 1
              /\ \A n \in 1 .. Len(wire[k]) : wire'[k][n] = wire[k][n] /\ wire[k][n] \in AnyFrame
              /\ wire'[k][Len(wire[k]) + 1] = writing[x].frame
  <1> DEFINE k == writing[x].to
             f == writing[x].frame
  <1>1. k \in Conn /\ f \in AnyFrame
    BY EndTyped
  <1>2. wire \in [Conn -> Seq(AnyFrame)] /\ k <= opened /\ Conn \subseteq Nat /\ opened \in Nat
    BY DEF TypeInv, TypeOK, WriteInv, EndWrite, Conn
  <1>3. wire' = [wire EXCEPT ![k] = Append(wire[k], f)]
    BY DEF EndWrite
  <1>4. Follows(f, wire[k])
    OBVIOUS
  <1> HIDE DEF k, f
  <1>5. InOrder(Append(wire[k], f))
    BY <1>1, <1>2, <1>4, OrderAppended DEF OrderInv
  <1>6. wire'[k] = Append(wire[k], f) /\ \A l \in Conn \ {k} : wire'[l] = wire[l]
    BY <1>1, <1>2, <1>3
  <1>7. \A l \in Conn : InOrder(wire'[l])
    BY <1>5, <1>6 DEF OrderInv
  <1>8. \A l \in Conn : l > opened => wire'[l] = <<>>
    BY <1>1, <1>2, <1>6 DEF OrderInv
  <1>9. /\ Len(wire[k]) \in Nat /\ Len(wire'[k]) = Len(wire[k]) + 1
        /\ \A n \in 1 .. Len(wire[k]) : wire'[k][n] = wire[k][n] /\ wire[k][n] \in AnyFrame
        /\ wire'[k][Len(wire[k]) + 1] = f
    BY <1>1, <1>2, <1>6, AppendProperties, LenProperties, ElementOfSeq
  <1> QED
    BY <1>1, <1>6, <1>7, <1>8, <1>9 DEF k, f

LEMMA OrderStep ==
  ASSUME TypeInv, MutexInv, ConnInv, WriteInv, PlacedInv, OrderInv, [Next]_vars
  PROVE  OrderInv'
  <1> USE Goroutines, ConstantsAssumption
  <1>1. Effect
    BY Effects
  <1>2. /\ pc \in [Goroutine -> {"idle", "buffer", "send", "dial", "auth", "await", "hello", "lock",
                                 "flush", "watch", "returned", "next", "reading", "handle",
                                 "close", "done"}]
        /\ opened \in 0 .. MaxConns /\ Conn \subseteq Nat
    BY DEF TypeInv, TypeOK, Conn
  <1>3. ASSUME UNCHANGED <<opened, buffer, wire>>,
               \/ pc'[Run] = pc[Run]
               \/ pc[Run] \in {"auth", "await", "hello", "lock"}
               \/ pc'[Run] \notin {"auth", "await", "hello", "lock", "flush"}
        PROVE  pc'[Run] \in {pc[Run], "auth", "await", "hello", "lock", "dial", "watch", "returned", "flush"}
                 => OrderInv'
    BY <1>3 DEF OrderInv, Buffered
  <1>4. CASE Quiet \/ (\E x, f : Writes(x, f))
    BY <1>3, <1>4 DEF Quiet, Writes, Begins, queueVars
  <1>5. CASE Dial
    <2>1. /\ opened' = opened + 1 /\ opened' \in Conn /\ UNCHANGED <<buffer, wire>>
          /\ pc'[Run] = "auth"
      BY <1>2, <1>5 DEF Dial, Goes, queueVars, Conn
    <2>2. wire'[opened'] = <<>>
      BY <1>2, <2>1 DEF OrderInv
    <2>3. \A k \in Conn : k > opened' => wire'[k] = <<>>
      BY <1>2, <2>1 DEF OrderInv
    <2> QED
      BY <2>1, <2>2, <2>3 DEF OrderInv
  <1>6. CASE Leave \/ LockFlush
    <2>1. CASE Leave
      <3>1. UNCHANGED <<opened, buffer, wire>> /\ pc'[Run] = "dial"
        BY <1>2, <2>1 DEF Leave, Goes, queueVars, Senders
      <3> QED
        BY <1>3, <3>1
    <2>2. CASE LockFlush
      <3>1. UNCHANGED <<opened, buffer, wire>> /\ pc[Run] = "lock" /\ pc'[Run] = "flush"
        BY <1>2, <2>2 DEF LockFlush, Goes, connVars, ioVars
      <3> QED
        BY <1>3, <3>1
    <2> QED
      BY <1>6, <2>1, <2>2
  <1>7. CASE Greets
    <2>1. /\ EndWrite(Run) /\ UNCHANGED <<opened, buffer>> /\ pc[Run] \in {"auth", "hello"}
          /\ pc'[Run] \in {"await", "lock", "returned"}
      BY <1>2, <1>7 DEF Greets, Goes, queueVars
    <2>2. writing[Run].frame.kind \in {"auth", "hello"}
      BY <2>1 DEF EndWrite, WriteInv, Auth, Hello, Frame
    <2>3. Follows(writing[Run].frame, wire[writing[Run].to])
      BY <2>2 DEF Follows
    <2>4. opened \in Conn
      BY <2>1 DEF ConnInv
    <2>5. \A n \in 1 .. Len(wire'[opened]) : wire'[opened][n].kind # "flushed"
      <3> DEFINE k == writing[Run].to
      <3>1. \A n \in 1 .. Len(wire[opened]) : wire[opened][n].kind # "flushed"
        BY <2>1 DEF OrderInv
      <3>2. CASE opened = k
        <4>1. /\ Len(wire[k]) \in Nat /\ Len(wire'[k]) = Len(wire[k]) + 1
              /\ \A n \in 1 .. Len(wire[k]) : wire'[k][n] = wire[k][n]
              /\ wire'[k][Len(wire[k]) + 1] = writing[Run].frame
          BY <2>1, <2>3, OrderWritten
        <4> HIDE DEF k
        <4> QED
          BY <2>2, <3>1, <3>2, <4>1
      <3>3. CASE opened # k
        BY <2>1, <2>3, <2>4, <3>1, <3>3, OrderWritten
      <3> QED
        BY <3>2, <3>3
    <2> QED
      BY <2>1, <2>3, <2>5, OrderWritten DEF OrderInv
  <1>8. CASE Flushes
    <2>1. /\ EndWrite(Run) /\ UNCHANGED <<pc, opened>> /\ pc[Run] = "flush" /\ buffer # <<>>
          /\ buffer' = Tail(buffer)
      BY <1>8 DEF Flushes
    <2>2. writing[Run].frame = Flushed(Head(buffer)) /\ writing[Run].to = opened
      BY <2>1 DEF EndWrite, WriteInv
    <2>3. writing[Run].frame.kind = "flushed" /\ writing[Run].frame.n = Head(buffer)
      BY <2>2 DEF Flushed, Frame
    <2>4. Head(buffer) \in Buffered /\ Head(buffer) \in Nat /\ opened \in Conn
      BY <2>1, HeadLeaves, HeadTailProperties DEF TypeInv, ConnInv
    <2> DEFINE w == wire[opened]
               v == wire'[opened]
    <2>5. Len(w) \in Nat /\ \A n \in 1 .. Len(w) : w[n] \in AnyFrame
      BY <2>4, LenProperties, ElementOfSeq DEF TypeInv
    <2>6. \A n \in 1 .. Len(w) : w[n].n \in Nat
      BY <2>5 DEF AnyFrame
    <2>7. \A n \in 1 .. Len(w) : w[n].kind = "flushed" =>
             (\A e \in Buffered : w[n].n < e) /\ \A i \in n .. Len(w) : w[i].kind # "direct"
      BY <2>1 DEF OrderInv
    <2>8. Follows(writing[Run].frame, w)
      BY <2>3, <2>4, <2>6, <2>7 DEF Follows
    <2>9. /\ Len(v) = Len(w) + 1 /\ \A n \in 1 .. Len(w) : v[n] = w[n]
          /\ v[Len(w) + 1] = writing[Run].frame
          /\ \A k \in Conn : InOrder(wire'[k])
          /\ \A k \in Conn : k > opened' => wire'[k] = <<>>
      BY <2>1, <2>2, <2>8, OrderWritten
    <2>10. Buffered' \subseteq Buffered /\ \A e \in Buffered' : Head(buffer) < e
      <3>1. Buffered' = Buffered \ {Head(buffer)}
        <4>1. Buffered' = {buffer'[m] : m \in 1 .. Len(buffer')}
          BY DEF Buffered
        <4> QED
          BY <2>1, <4>1, HeadLeaves
      <3>2. Head(buffer) = buffer[1] /\ buffer \in Seq(Nat) /\ Len(buffer) \in Nat
        BY LenProperties DEF TypeInv
      <3>3. \A m \in 1 .. Len(buffer) : m = 1 \/ buffer[1] < buffer[m]
        BY <3>2 DEF PlacedInv
      <3>4. \A e \in Buffered : e = buffer[1] \/ buffer[1] < e
        BY <3>3 DEF Buffered
      <3> QED
        BY <3>1, <3>2, <3>4
    <2> HIDE DEF w, v
    <2>11. ASSUME NEW n \in 1 .. Len(v), v[n].kind = "flushed"
           PROVE  (\A e \in Buffered' : v[n].n < e) /\ \A i \in n .. Len(v) : v[i].kind # "direct"
      <3>1. CASE n \in 1 .. Len(w)
        <4>1. v[n] = w[n]
          BY <2>9, <3>1
        <4>2. \A i \in n .. Len(v) : i \in n .. Len(w) \/ i = Len(w) + 1
          BY <2>5, <2>9, <3>1
        <4>3. \A i \in n .. Len(w) : v[i] = w[i]
          BY <2>5, <2>9, <3>1
        <4> QED
          BY <2>3, <2>7, <2>9, <2>10, <2>11, <3>1, <4>1, <4>2, <4>3
      <3>2. CASE n = Len(w) + 1
        BY <2>3, <2>5, <2>9, <2>10, <3>2
      <3> QED
        BY <2>5, <2>9, <3>1, <3>2
    <2> QED
      BY <2>1, <2>9, <2>11 DEF OrderInv, v
  <1>9. CASE Finishes
    <2>1. /\ UNCHANGED <<opened, buffer>> /\ pc'[Run] = "watch" /\ pc[Run] = "flush" /\ buffer = <<>>
      BY <1>2, <1>9 DEF Finishes, Launch, Run, Reader
    <2>2. CASE UNCHANGED wire
      BY <1>3, <2>1, <2>2
    <2>3. CASE EndWrite(Run)
      <3>1. writing[Run].frame.kind = "notice"
        BY <2>1, <2>3 DEF EndWrite, WriteInv, Notice, Frame
      <3>2. Follows(writing[Run].frame, wire[writing[Run].to])
        BY <3>1 DEF Follows
      <3> QED
        BY <2>1, <2>3, <3>2, OrderWritten DEF OrderInv
    <2> QED
      BY <1>9, <2>2, <2>3 DEF Finishes
  <1>10. ASSUME NEW x \in Senders, Accepts(x) \/ Buffer(x) PROVE OrderInv'
    <2>1. /\ UNCHANGED <<opened, wire>> /\ pc'[Run] = pc[Run] /\ pc[Run] # "flush"
      BY <1>2, <1>10 DEF Accepts, Buffer, Returns, Goes, connVars, ioVars, MutexInv, Holding
    <2> QED
      BY <2>1 DEF OrderInv
  <1>11. ASSUME NEW x \in Senders, Sends(x) PROVE OrderInv'
    <2>1. pc[x] = "send" /\ EndWrite(x) /\ UNCHANGED <<opened, accepted, buffer>>
      BY <1>11 DEF Sends
    <2>2. pc'[Run] = pc[Run] /\ pc[Run] # "flush"
      BY <1>2, <1>11 DEF Sends, Returns, Goes, MutexInv, Holding
    <2>3. writing[x].frame = Direct(accepted) /\ accepted \in Nat
      BY <2>1 DEF EndWrite, WriteInv, TypeInv
    <2>4. writing[x].frame.kind = "direct" /\ writing[x].frame.n = accepted
      BY <2>3 DEF Direct, Frame
    <2> DEFINE k == writing[x].to
    <2>5. k \in Conn
      BY <2>1, EndTyped
    <2>6. \A m \in 1 .. Len(wire[k]) : IsEvent(wire[k][m]) => wire[k][m].n <= accepted
      <3> SUFFICES ASSUME NEW m \in 1 .. Len(wire[k]), IsEvent(wire[k][m])
                   PROVE  wire[k][m].n <= accepted
        OBVIOUS
      <3>1. <<k, m>> \in PositionsOn(wire, {"direct", "flushed"})
        BY <2>5, PositionsAre DEF IsEvent, TypeInv
      <3>2. <<k, m>> \in Sent
        BY <3>1 DEF Sent, Positions, PositionsOn
      <3>3. Ev(<<k, m>>) \in OnWire
        BY <3>2 DEF OnWire
      <3>4. wire[k][m].n \in 1 .. accepted
        BY <3>3 DEF PlacedInv, Ev
      <3> QED
        BY <2>3, <3>4
    <2>7. Follows(writing[x].frame, wire[k])
      BY <2>4, <2>6 DEF Follows
    <2>8. /\ \A l \in Conn : InOrder(wire'[l])
          /\ \A l \in Conn : l > opened' => wire'[l] = <<>>
          /\ \A l \in Conn \ {k} : wire'[l] = wire[l]
          /\ Len(wire[k]) \in Nat /\ Len(wire'[k]) = Len(wire[k]) + 1
          /\ \A n \in 1 .. Len(wire[k]) : wire'[k][n] = wire[k][n]
          /\ wire'[k][Len(wire[k]) + 1] = writing[x].frame
      BY <2>1, <2>7, OrderWritten
    <2> HIDE DEF k
    <2>9. ASSUME pc[Run] \in {"auth", "await", "hello", "lock"}
          PROVE  \A n \in 1 .. Len(wire'[opened]) : wire'[opened][n].kind # "flushed"
      <3>1. opened \in Conn /\ \A n \in 1 .. Len(wire[opened]) : wire[opened][n].kind # "flushed"
        BY <2>9 DEF OrderInv, ConnInv
      <3>2. CASE opened = k
        <4>1. \A n \in 1 .. Len(wire'[k]) : n \in 1 .. Len(wire[k]) \/ n = Len(wire[k]) + 1
          BY <2>8
        <4>2. wire'[k][Len(wire[k]) + 1].kind # "flushed"
          BY <2>4, <2>8
        <4> QED
          BY <2>8, <3>1, <3>2, <4>1, <4>2
      <3>3. CASE opened # k
        BY <2>8, <3>1, <3>3
      <3> QED
        BY <3>2, <3>3
    <2> QED
      BY <2>1, <2>2, <2>8, <2>9 DEF OrderInv
  <1> QED
    BY <1>1, <1>4, <1>5, <1>6, <1>7, <1>8, <1>9, <1>10, <1>11 DEF Effect

\* Whatever else goroutines write to it, and to whatever connection: the host gets what was
\* flushed to a connection without another event among it, and events out of order only
\* when they were sent before the flush.
THEOREM FlushOrdered == Spec => []FlushInOrder
  <1>1. Init => OrderInv
    <2> SUFFICES ASSUME Init PROVE OrderInv
      OBVIOUS
    <2>1. pc[Run] = "dial" /\ \A k \in Conn : wire[k] = <<>> /\ Len(wire[k]) = 0
      BY DEF Init, Goroutine
    <2> QED
      BY <2>1 DEF OrderInv, InOrder
  <1>2. WorldInv /\ OrderInv /\ [Next]_vars => OrderInv'
    BY OrderStep DEF WorldInv
  <1>3. WorldInv /\ OrderInv => FlushInOrder
    <2> SUFFICES ASSUME WorldInv, OrderInv, NEW p \in Sent, NEW q \in Sent, p[1] = q[1], p[2] < q[2]
                 PROVE  LET w == wire[p[1]] IN
                          /\ w[p[2]].kind = "flushed" /\ w[q[2]].kind = "flushed"
                               => \A n \in p[2] .. q[2] : w[n].kind # "direct"
                          /\ w[p[2]].n > w[q[2]].n => w[p[2]].kind = "direct" /\ w[q[2]].kind = "flushed"
      BY DEF FlushInOrder
    <2>1. /\ p[1] \in Conn /\ p[2] \in 1 .. Len(wire[p[1]]) /\ IsEvent(wire[p[1]][p[2]])
          /\ q[2] \in 1 .. Len(wire[p[1]]) /\ IsEvent(wire[p[1]][q[2]])
      BY SentTyped DEF WorldInv, IsEvent
    <2>2. InOrder(wire[p[1]])
      BY <2>1 DEF OrderInv
    <2> QED
      BY <2>1, <2>2 DEF InOrder
  <1> QED
    BY <1>1, <1>2, <1>3, WorldInvariant, PTL DEF Spec

=============================================================================
