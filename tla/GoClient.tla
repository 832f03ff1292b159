------------------------------ MODULE GoClient ------------------------------
(***************************************************************************)
(* The bridge client for Go (src/go/codebridge/client.go).                 *)
(*                                                                         *)
(* Goroutines: run(), callers of SendConsole, a caller of Close, and for   *)
(* every connection a reader and a heartbeat, which may outlive it.  bufMu *)
(* guards the buffer and the sends of enqueue and flushBuffer; c.conn is   *)
(* read without it.  A frame is written in two steps: gorilla/websocket    *)
(* supports one writer of a connection, and when there are two it panics,  *)
(* or both frames are garbled.  A use of a nil c.conn panics too, and ends *)
(* the program: crashed.                                                   *)
(*                                                                         *)
(* There is no clock: a ticker or a read deadline may fire at any time.  A *)
(* failed dial changes only the delay, which is left out, and so are frames*)
(* that the client ignores, a control request with no handler among them,  *)
(* and pings of the host, which it does not send.                          *)
(***************************************************************************)
EXTENDS Naturals, Sequences, FiniteSets

CONSTANTS
  Caller,       \* goroutines of the application that call SendConsole
  MaxConns,     \* bound: connections that Dial opens
  MaxEvents,    \* bound: events after which none is sent or asked for
  BufferLimit,
  None

Conn == 1 .. MaxConns

Run       == <<"run", 0>>
Closer    == <<"close", 0>>
Reader(g) == <<"reader", g>>
Apps      == {<<"app", a>> : a \in Caller}
Readers   == {Reader(g) : g \in Conn}
Goroutine == Apps \cup Readers \cup {Run, Closer}

ASSUME ConstantsAssumption ==
  /\ MaxConns \in Nat /\ MaxEvents \in Nat /\ BufferLimit \in Nat \ {0}
  /\ None \notin Conn /\ None \notin Goroutine

VARIABLES
  pc,         \* where each goroutine stands
  conn,       \* c.conn: the number of a connection, or None
  opened,     \* number of connections opened so far
  reads,      \* of each connection: the one that the reader started for it reads from
  cancelled,  \* connections whose hbCtx is cancelled
  stopping,   \* the application has cancelled ctx
  mu,         \* the goroutine that holds bufMu, or None
  accepted,   \* number of events enqueued; they are numbered in that order
  buffer, dropped,
  writing,    \* of each goroutine: the frame it is writing and where to, or None
  wire,       \* of each connection: frames handed to it, but for pings, written or not
  up,         \* of each connection: "none", "open", "broken", or "closed" by the client
  crashed

connVars  == <<conn, opened, reads>>
ctxVars   == <<cancelled, stopping>>
queueVars == <<mu, accepted, buffer, dropped>>
ioVars    == <<writing, wire, up, crashed>>
vars      == <<pc, connVars, ctxVars, queueVars, ioVars>>

Frame(kind, n) == [kind |-> kind, n |-> n]
Auth       == Frame("auth", 0)
Hello      == Frame("hello", 0)
Direct(i)  == Frame("direct", i)     \* event i, sent by enqueue
Flushed(i) == Frame("flushed", i)    \* event i, sent by flushBuffer
Notice(k)  == Frame("notice", k)

Init ==
  /\ pc = [x \in Goroutine |-> IF x = Run THEN "dial" ELSE "idle"]
  /\ conn = None /\ opened = 0 /\ reads = [g \in Conn |-> None]
  /\ cancelled = {} /\ stopping = FALSE
  /\ mu = None /\ accepted = 0 /\ buffer = <<>> /\ dropped = 0
  /\ writing = [x \in Goroutine |-> None] /\ wire = [k \in Conn |-> <<>>]
  /\ up = [k \in Conn |-> "none"] /\ crashed = FALSE

\* Goroutine x goes from one place to another; and does nothing else.
Goes(x, from, to)  == pc[x] = from /\ pc' = [pc EXCEPT ![x] = to]
Moves(x, from, to) == Goes(x, from, to) /\ UNCHANGED <<connVars, ctxVars, queueVars, ioVars>>

-----------------------------------------------------------------------------
(* send().                                                                 *)

Panic == crashed' = TRUE /\ UNCHANGED <<writing, wire, up>>

Busy(k) == \E x \in Goroutine : writing[x] # None /\ writing[x].to = k

\* c.conn.WriteMessage begins.
BeginWrite(x, frame) ==
  /\ writing[x] = None
  /\ \/ (conn = None \/ Busy(conn)) /\ Panic
     \/ /\ conn # None
        /\ writing' = [writing EXCEPT ![x] = [to |-> conn, frame |-> frame]]
        /\ up' = [up EXCEPT ![conn] = IF Busy(conn) /\ @ = "open" THEN "broken" ELSE @]
        /\ UNCHANGED <<wire, crashed>>
  /\ UNCHANGED pc

\* It returns, with an error or not.  What is handed to a connection that is not open is
\* lost.
EndWrite(x) ==
  /\ writing[x] # None
  /\ writing' = [writing EXCEPT ![x] = None]
  /\ wire' = [wire EXCEPT ![writing[x].to] = Append(@, writing[x].frame)]
  /\ UNCHANGED <<up, crashed>>

-----------------------------------------------------------------------------
(* enqueue(), called by SendConsole in an application goroutine and by     *)
(* handleControl in a reader, which reads on afterwards.                   *)

Lock(x) == mu = None /\ mu' = x

\* It locks bufMu and looks at c.conn.
Accept(x, from) ==
  /\ Goes(x, from, IF conn = None THEN "buffer" ELSE "send") /\ Lock(x)
  /\ accepted' = accepted + 1
  /\ UNCHANGED <<connVars, ctxVars, buffer, dropped, ioVars>>

SendConsole(x) == accepted < MaxEvents /\ Accept(x, "idle")

Returns(x, from) == Goes(x, from, IF x \in Readers THEN "next" ELSE "idle") /\ mu' = None

\* Faulty: one too many.
FullWhenOver == Len(buffer) > BufferLimit

Full == Len(buffer) >= BufferLimit

Buffer(x) ==
  /\ Returns(x, "buffer")
  /\ buffer' = Append(IF Full THEN Tail(buffer) ELSE buffer, accepted)
  /\ dropped' = IF Full THEN dropped + 1 ELSE dropped
  /\ UNCHANGED <<connVars, ctxVars, accepted, ioVars>>

\* An error goes to the caller, and handleControl ignores it.
SendNow(x) ==
  /\ pc[x] = "send"
  /\ \/ BeginWrite(x, Direct(accepted)) /\ UNCHANGED mu
     \/ EndWrite(x) /\ Returns(x, "send")
  /\ UNCHANGED <<connVars, ctxVars, accepted, buffer, dropped>>

Enqueue(x) == Buffer(x) \/ SendNow(x)

-----------------------------------------------------------------------------
(* run().                                                                  *)

Dial ==
  /\ ~stopping /\ opened < MaxConns
  /\ Goes(Run, "dial", "auth")
  /\ opened' = opened + 1 /\ conn' = opened'
  /\ up' = [up EXCEPT ![opened'] = "open"]
  /\ UNCHANGED <<reads, ctxVars, queueVars, writing, wire, crashed>>

\* It writes a frame and goes on, or returns with the error; a write to a broken
\* connection may do either.
Write(frame, from, to) ==
  /\ pc[Run] = from
  /\ \/ BeginWrite(Run, frame)
     \/ /\ EndWrite(Run)
        /\ \/ up[conn] # "closed" /\ Goes(Run, from, to)
           \/ up[conn] # "open" /\ Goes(Run, from, "returned")
  /\ UNCHANGED <<connVars, ctxVars, queueVars>>

\* waitForAuth: the host answers if auth came first.
AuthSucceeds ==
  /\ pc[Run] = "await" /\ up[conn] = "open" /\ Head(wire[conn]) = Auth
  /\ Moves(Run, "await", "hello")

\* The deadline passes, or the connection fails: run() returns the error.
AuthFails == Moves(Run, "await", "returned")

\* Faulty: bufMu is not locked.
FlushAnyway == Moves(Run, "lock", "flush")

\* flushBuffer; c.conn is not nil, as run() alone sets it.
LockFlush ==
  /\ Goes(Run, "lock", "flush") /\ Lock(Run)
  /\ UNCHANGED <<connVars, ctxVars, accepted, buffer, dropped, ioVars>>

\* Faulty: the count is not reset.
KeepCount == dropped

ResetCount == 0

\* flushBuffer has returned: the reader and the heartbeat start.
Launch ==
  /\ pc' = [pc EXCEPT ![Run] = "watch", ![Reader(opened)] = "next"]
  /\ mu' = None

\* Faulty: the latest event first.
FlushLatest ==
  /\ buffer # <<>>
  /\ \/ BeginWrite(Run, Flushed(buffer[Len(buffer)])) /\ UNCHANGED buffer
     \/ EndWrite(Run) /\ buffer' = SubSeq(buffer, 1, Len(buffer) - 1) /\ UNCHANGED pc
  /\ UNCHANGED <<mu, dropped>>

\* Events leave the buffer one by one, as nobody looks at it meanwhile.
FlushFirst ==
  /\ buffer # <<>>
  /\ \/ BeginWrite(Run, Flushed(Head(buffer))) /\ UNCHANGED buffer
     \/ EndWrite(Run) /\ buffer' = Tail(buffer) /\ UNCHANGED pc
  /\ UNCHANGED <<mu, dropped>>

Flush ==
  /\ pc[Run] = "flush"
  /\ \/ FlushFirst
     \/ /\ buffer = <<>> /\ dropped > 0
        /\ \/ BeginWrite(Run, Notice(dropped)) /\ UNCHANGED <<mu, dropped>>
           \/ EndWrite(Run) /\ dropped' = ResetCount /\ Launch
        /\ UNCHANGED buffer
     \/ /\ buffer = <<>> /\ dropped = 0
        /\ Launch
        /\ UNCHANGED <<buffer, dropped, ioVars>>
  /\ UNCHANGED <<connVars, ctxVars, accepted>>

\* Faulty: ctx is not looked at.
DoneIfCancelled(g) == g \in cancelled

\* hbCtx, which is derived from ctx, is done.
Done(g) == g \in cancelled \/ stopping

Leave ==
  /\ Done(opened) /\ Goes(Run, "watch", "dial")
  /\ up' = [up EXCEPT ![conn] = "closed"] /\ conn' = None
  /\ UNCHANGED <<opened, reads, ctxVars, queueVars, writing, wire, crashed>>

\* What run() does without waiting for the host or the mutex.
RunOwn ==
  \/ Write(Auth, "auth", "await") \/ AuthFails \/ Write(Hello, "hello", "lock")
  \/ Flush \/ Leave
  \/ stopping /\ Moves(Run, "dial", "returned")

-----------------------------------------------------------------------------
(* reader() and heartbeat(), of the connection g they were started for.    *)

\* c.conn.ReadMessage begins.
ReadNext(g) ==
  /\ \/ conn # None /\ Goes(Reader(g), "next", "reading") /\ UNCHANGED ioVars
     \/ conn = None /\ Goes(Reader(g), "next", "next") /\ Panic
  /\ reads' = [reads EXCEPT ![g] = conn]
  /\ UNCHANGED <<conn, opened, ctxVars, queueVars>>

\* Faulty: hbCtx is not cancelled.
Uncancelled(g) == cancelled

WithCancelled(g) == cancelled \cup {g}

ReadEnds(g) ==
  /\ Goes(Reader(g), "reading", "done")
  /\ cancelled' = WithCancelled(g)
  /\ UNCHANGED <<connVars, stopping, queueVars, ioVars>>

ReadsOpen(g) == reads[g] # None /\ up[reads[g]] = "open"

\* The connection fails, or the deadline passes.
ReadFails(g)    == ~ReadsOpen(g) /\ ReadEnds(g)
ReadTimesOut(g) == ReadsOpen(g) /\ ReadEnds(g)

\* A control request arrives.
ReadControl(g) ==
  /\ ReadsOpen(g) /\ accepted < MaxEvents
  /\ Moves(Reader(g), "reading", "handle")

\* handleControl: the handler returns, and its result is enqueued.
Respond(g) == Accept(Reader(g), "handle")

\* Faulty: a ping that cannot be written cancels hbCtx.
PingCancels(g) == IF up[conn] = "open" THEN cancelled ELSE cancelled \cup {g}

\* The error of a ping is ignored.
PingIgnores(g) == cancelled

\* The ticker fires: a ping, which may meet a frame that another goroutine writes, and
\* SetReadDeadline.  A pong has the second of them only.  The heartbeat started with
\* reader g keeps no state: that it returns once hbCtx is done is that it ticks no more.
Tick(g) ==
  /\ pc[Reader(g)] # "idle"
  /\ \/ (conn = None \/ Busy(conn)) /\ Panic /\ UNCHANGED cancelled
     \/ /\ conn # None
        /\ up' = [up EXCEPT ![conn] = IF Busy(conn) /\ @ = "open" THEN "broken" ELSE @]
        /\ cancelled' = PingIgnores(g)
        /\ UNCHANGED <<writing, wire, crashed>>
  /\ UNCHANGED <<pc, connVars, stopping, queueVars>>

ReaderOwn(g) == ReadNext(g) \/ ReadFails(g)

LoopNext(g) ==
  \/ ReaderOwn(g) \/ ReadControl(g) \/ ReadTimesOut(g) \/ Respond(g) \/ Tick(g)

-----------------------------------------------------------------------------
(* The application stops the client; the network fails.                    *)

CancelContext ==
  /\ ~stopping /\ stopping' = TRUE
  /\ UNCHANGED <<pc, connVars, cancelled, queueVars, ioVars>>

\* Close() calls c.cancel, of the connection launched last, and looks at c.conn; it
\* reads it again to close it.
Close ==
  \/ /\ Goes(Closer, "idle", IF conn = None THEN "done" ELSE "close")
     /\ cancelled' = cancelled \cup {g \in Conn : pc[Reader(g)] # "idle" /\
                                     \A h \in Conn : pc[Reader(h)] # "idle" => h <= g}
     /\ UNCHANGED <<connVars, stopping, queueVars, ioVars>>
  \/ /\ Goes(Closer, "close", "done")
     /\ \/ conn = None /\ Panic
        \/ /\ conn # None /\ up' = [up EXCEPT ![conn] = "closed"]
           /\ UNCHANGED <<writing, wire, crashed>>
     /\ UNCHANGED <<connVars, ctxVars, queueVars>>

\* The host closes a connection, as it does when auth does not come first, or the
\* network fails.
Break(k) ==
  /\ up[k] = "open" /\ up' = [up EXCEPT ![k] = "broken"]
  /\ UNCHANGED <<pc, connVars, ctxVars, queueVars, writing, wire, crashed>>

Next ==
  /\ ~crashed
  /\ \/ RunOwn \/ Dial \/ AuthSucceeds \/ LockFlush \/ CancelContext \/ Close
     \/ \E x \in Apps : SendConsole(x)
     \/ \E x \in Apps \cup Readers : Enqueue(x)
     \/ \E g \in Conn : LoopNext(g) \/ Break(g)

\* Goroutines run, writes end, deadlines pass, control handlers return, and sync.Mutex
\* does not starve one that waits.
Fairness ==
  /\ WF_vars(~crashed /\ RunOwn) /\ SF_vars(~crashed /\ LockFlush)
  /\ WF_vars(~crashed /\ \E x \in Apps \cup Readers : Enqueue(x))
  /\ \A g \in Conn : WF_vars(~crashed /\ ReaderOwn(g)) /\ SF_vars(~crashed /\ Respond(g))

Spec     == Init /\ [][Next]_vars
FairSpec == Spec /\ Fairness

-----------------------------------------------------------------------------
(* Properties.                                                             *)

\* Every variable has its type, and the buffer keeps to its limit.
TypeOK ==
  /\ pc \in [Goroutine -> {"idle", "buffer", "send", "dial", "auth", "await", "hello", "lock",
                           "flush", "watch", "returned", "next", "reading", "handle",
                           "close", "done"}]
  /\ conn \in Conn \cup {None} /\ opened \in 0 .. MaxConns /\ cancelled \subseteq Conn
  /\ reads \in [Conn -> Conn \cup {None}]
  /\ mu \in Goroutine \cup {None}
  /\ Len(buffer) <= BufferLimit
  /\ up \in [Conn -> {"none", "open", "broken", "closed"}]

\* The places on the wires of frames of some kinds.
Positions(kinds) == UNION {{k} \X {n \in DOMAIN wire[k] : wire[k][n].kind \in kinds} : k \in Conn}
Sent == Positions({"direct", "flushed"})

\* The places of events, in the buffer and on the wires, and the event at each.
Place == ({None} \X DOMAIN buffer) \cup Sent
At(p) == IF p[1] = None THEN buffer[p[2]] ELSE wire[p[1]][p[2]].n

\* The events that notices have reported: as many as each says.
Reported == UNION {{p} \X (1 .. wire[p[1]][p[2]].n) : p \in Positions({"notice"})}

\* The event a sender is about to place.
InHand == IF mu \in Apps \cup Readers THEN {accepted} ELSE {}

\* No event is in two places, also when goroutines run into each other and connections
\* fail half-way through a flush; and those evicted from the buffer, which are nowhere, are
\* exactly as many as notices have reported or one will.  An event or a notice that was
\* handed to a connection counts as placed also when its write failed, as flushBuffer
\* forgets it too.  No event that came without a
\* connection stays in the buffer once that has been flushed: enqueue found c.conn nil,
\* and run() then set it.
Accounted ==
  LET placed == {At(p) : p \in Place} IN
    /\ \A p, q \in Place : At(p) = At(q) => p = q
    /\ InHand \cap placed = {}
    /\ Cardinality((1 .. accepted) \ (placed \cup InHand)) = dropped + Cardinality(Reported)
    /\ pc[Run] = "watch" => buffer = <<>>

\* The host gets the flushed events of a connection without another event among them,
\* and only events that were sent before the flush may be out of order.
FlushInOrder ==
  \A p, q \in Sent :
    LET w == wire[p[1]] IN
      p[1] = q[1] /\ p[2] < q[2] =>
        /\ w[p[2]].kind = "flushed" /\ w[q[2]].kind = "flushed"
             => \A n \in p[2] .. q[2] : w[n].kind # "direct"
        /\ w[p[2]].n > w[q[2]].n => w[p[2]].kind = "direct" /\ w[q[2]].kind = "flushed"

\* Unless the application stops the client, a reader ends before run() leaves its
\* connection: two goroutines never read from one, nor one from a later connection.
OneReader ==
  pc[Closer] = "idle" /\ ~stopping
    => \A g \in Conn : pc[Reader(g)] \notin {"idle", "done"} => pc[Run] = "watch" /\ g = opened

\* run() never hangs: a connection that fails after the handshake, or a context that is
\* cancelled at any point, leads to another attempt, or once it is cancelled to the end
\* of run(), unless the application crashes.
RunGoesOn ==
  (\E k \in Conn : pc[Run] = "watch" /\ conn = k /\ up[k] # "open") \/ stopping
    ~> (pc[Run] = "dial" /\ ~stopping) \/ pc[Run] = "returned" \/ crashed

=============================================================================
