------------------------------- MODULE Client -------------------------------
(***************************************************************************)
(* The connection lifecycle and the confirmed-request path of the BACnet   *)
(* client (client.go) over its UDP transport (internal/transport/udp.go).  *)
(*                                                                         *)
(* Goroutines of the program, each with its own program counter:           *)
(*   - owners, application goroutines that call Connect and Close;         *)
(*   - calls, one per execution of sendRequest (every confirmed service    *)
(*     ends in one); the response channel a call makes is named after it;  *)
(*   - receivers, one per Connect that got as far as "go c.receiver()";    *)
(*   - handlers, the goroutines a receiver spawns for each datagram.       *)
(*                                                                         *)
(* Each action is one access to state that other goroutines share: an      *)
(* atomic operation, a critical section, a channel operation, a read or a  *)
(* write of an unsynchronised field, or a socket operation.                *)
(***************************************************************************)
EXTENDS Integers, FiniteSets

CONSTANTS
    Calls,        \* executions of sendRequest
    Owners,       \* goroutines that call Connect and Close
    Handlers,     \* packet-handler goroutines that can be in flight at once
    IDs,          \* number of invoke IDs (256 in the code)
    MaxConnects,  \* bound on the Connect attempts over the client's life
    MaxInFlight,  \* how many calls the application keeps in flight at once
    None          \* "no value": nil channel, absent map entry, no response

ASSUME NoneAssumption == None \notin Calls
ASSUME OwnersAssumption == Owners # {}
ASSUME IDsAssumption == IDs \in Nat \ {0}
ASSUME MaxConnectsAssumption == MaxConnects \in Nat

VARIABLES
    state,         \* c.state
    conn,          \* transport: conn = nil, conn usable, or closed = true
    gen,           \* Connect attempts so far
    receiverCtx,   \* generation c.receiverCtx and c.receiverCancel belong to
    receiverDone,  \* generation c.receiverDone belongs to (0 is nil)
    cancelled,     \* generations whose context is cancelled
    doneClosed,    \* generations whose receiverDone channel is closed
    opc, ogen,     \* owners: control point, local generation
    rpc, rdone,    \* receivers: control point, channel captured by the defer
    hpc, hpkt, hch,\* handlers: control point, packet, channel looked up
    invokeID,      \* c.invokeID
    pending,       \* c.pending, from invoke ID to the call owning the channel
    cpc, cid,      \* calls: control point, invoke ID drawn
    buf,           \* the one-place buffer of each response channel
    closed,        \* calls whose response channel has been closed
    sent,          \* calls whose request datagram left the socket
    result, resp,  \* what the call returns, and the response it took
    panicked,      \* PanicsRecovered > 0: a handler sent on a closed channel
    crashed        \* an unrecovered panic: a channel was closed twice

rxVars == <<gen, receiverCtx, receiverDone, cancelled, doneClosed>>
ownerVars == <<opc, ogen>>
receiverVars == <<rpc, rdone>>
handlerVars == <<hpc, hpkt, hch>>
callVars == <<cpc, cid, result, resp, sent>>
chanVars == <<pending, buf, closed>>
vars == <<state, conn, rxVars, ownerVars, receiverVars, handlerVars,
          invokeID, callVars, chanVars, panicked, crashed>>

Gens == 1..MaxConnects
InvokeIDs == 0..(IDs - 1)

\* The PDU types sendRequest tells apart: SimpleAck and ComplexAck succeed;
\* Error, Reject and Abort fail.
ResponseTypes == {"Ack", "Error"}
Responses == [call: Calls, type: ResponseTypes]

Results == {"none", "ErrNotConnected", "SendError", "ErrTimeout",
            "ErrConnectionClosed", "Succeeded", "Failed"}

\* Control points of Close after it has stored StateDisconnected.
Closing == {"cancel", "done", "wait", "wg", "pending", "transport"}
\* Control points of Connect after its compare-and-swap.
Opening == {"open", "ctx", "go", "store"}

\* sendRequest between its state check and its return.
InFlight == {"checked", "drawn", "registered", "waiting", "returning"}
Running == {"spawned", "loop", "recv"}

Init ==
    /\ state = "Disconnected"
    /\ conn = "nil"
    /\ gen = 0
    /\ receiverCtx = 0
    /\ receiverDone = 0
    /\ cancelled = {}
    /\ doneClosed = {}
    /\ opc = [o \in Owners |-> "idle"]
    /\ ogen = [o \in Owners |-> 0]
    /\ rpc = [g \in Gens |-> "none"]
    /\ rdone = [g \in Gens |-> 0]
    /\ hpc = [h \in Handlers |-> "idle"]
    /\ hpkt = [h \in Handlers |-> None]
    /\ hch = [h \in Handlers |-> None]
    /\ invokeID = 0
    /\ pending = [i \in InvokeIDs |-> None]
    /\ cpc = [r \in Calls |-> "idle"]
    /\ cid = [r \in Calls |-> 0]
    /\ buf = [r \in Calls |-> None]
    /\ closed = {}
    /\ sent = {}
    /\ result = [r \in Calls |-> "none"]
    /\ resp = [r \in Calls |-> None]
    /\ panicked = FALSE
    /\ crashed = FALSE

\* Where a goroutine stands. An unrecovered panic ends the process, and with
\* it every goroutine.
OwnerAt(o, from, to) ==
    /\ ~crashed
    /\ opc[o] = from
    /\ opc' = [opc EXCEPT ![o] = to]

ReceiverAt(g, point) == ~crashed /\ rpc[g] = point

HandlerAt(h, point) == ~crashed /\ hpc[h] = point

CallAt(r, point) == ~crashed /\ cpc[r] = point

-----------------------------------------------------------------------------
(***************************************************************************)
(* Connect.                                                                *)
(***************************************************************************)

\* The compare-and-swap succeeds. MaxConnects bounds how often; the number of
\* the attempt names the context and the channel it will make.
Connect(o) ==
    /\ state = "Disconnected"
    /\ gen < MaxConnects
    /\ OwnerAt(o, "idle", "open")
    /\ state' = "Connecting"
    /\ gen' = gen + 1
    /\ ogen' = [ogen EXCEPT ![o] = gen + 1]
    /\ UNCHANGED <<conn, receiverCtx, receiverDone, cancelled, doneClosed,
                   receiverVars, handlerVars, invokeID, callVars, chanVars,
                   panicked, crashed>>

\* transport.Open: returns at once when a conn exists, even a closed one.
ConnectOpen(o) ==
    /\ OwnerAt(o, "open", "ctx")
    /\ conn' = IF conn = "nil" THEN "open" ELSE conn
    /\ UNCHANGED <<state, rxVars, ogen, receiverVars, handlerVars, invokeID,
                   callVars, chanVars, panicked, crashed>>

\* transport.Open fails to bind.
ConnectOpenFails(o) ==
    /\ conn = "nil"
    /\ OwnerAt(o, "open", "idle")
    /\ state' = "Disconnected"
    /\ UNCHANGED <<conn, rxVars, ogen, receiverVars, handlerVars, invokeID,
                   callVars, chanVars, panicked, crashed>>

\* c.receiverCtx, c.receiverCancel = context.WithCancel(...)
ConnectCtx(o) ==
    /\ OwnerAt(o, "ctx", "go")
    /\ receiverCtx' = ogen[o]
    /\ UNCHANGED <<state, conn, gen, receiverDone, cancelled, doneClosed,
                   ogen, receiverVars, handlerVars, invokeID, callVars, chanVars,
                   panicked, crashed>>

\* c.receiverDone = make(chan struct{}); go c.receiver()
ConnectGo(o) ==
    /\ OwnerAt(o, "go", "store")
    /\ receiverDone' = ogen[o]
    /\ rpc' = [rpc EXCEPT ![ogen[o]] = "spawned"]
    /\ UNCHANGED <<state, conn, gen, receiverCtx, cancelled, doneClosed, ogen,
                   rdone, handlerVars, invokeID, callVars, chanVars,
                   panicked, crashed>>

\* c.state.Store(StateConnected). The foreign-device registration that
\* follows sends one datagram and only logs its error.
ConnectStore(o) ==
    /\ OwnerAt(o, "store", "idle")
    /\ state' = "Connected"
    /\ UNCHANGED <<conn, rxVars, ogen, receiverVars, handlerVars, invokeID,
                   callVars, chanVars, panicked, crashed>>

-----------------------------------------------------------------------------
(***************************************************************************)
(* Close.                                                                  *)
(***************************************************************************)

\* The state is loaded and is not Disconnected.
Close(o) ==
    /\ state # "Disconnected"
    /\ OwnerAt(o, "idle", "closing")
    /\ UNCHANGED <<state, conn, rxVars, ogen, receiverVars, handlerVars,
                   invokeID, callVars, chanVars, panicked, crashed>>

CloseStore(o) ==
    /\ OwnerAt(o, "closing", "cancel")
    /\ state' = "Disconnected"
    /\ UNCHANGED <<conn, rxVars, ogen, receiverVars, handlerVars, invokeID,
                   callVars, chanVars, panicked, crashed>>

\* Mutant: the receiver's context is not cancelled.
CloseCancelForgotten(o) ==
    /\ OwnerAt(o, "cancel", IF receiverCtx = 0 THEN "wg" ELSE "done")
    /\ UNCHANGED <<state, conn, rxVars, ogen, receiverVars, handlerVars,
                   invokeID, callVars, chanVars, panicked, crashed>>

\* if c.receiverCancel != nil { c.receiverCancel() ... }
CloseCancel(o) ==
    /\ OwnerAt(o, "cancel", IF receiverCtx = 0 THEN "wg" ELSE "done")
    /\ cancelled' = cancelled \cup ({receiverCtx} \ {0})
    /\ UNCHANGED <<state, conn, gen, receiverCtx, receiverDone, doneClosed,
                   ogen, receiverVars, handlerVars, invokeID, callVars,
                   chanVars, panicked, crashed>>

\* Mutant: Close does not wait for the receiver.
CloseReadDoneSkipsWait(o) ==
    /\ OwnerAt(o, "done", "wg")
    /\ UNCHANGED <<state, conn, rxVars, ogen, receiverVars, handlerVars,
                   invokeID, callVars, chanVars, panicked, crashed>>

\* <-c.receiverDone: the field is read, then the owner blocks on that channel.
CloseReadDone(o) ==
    /\ OwnerAt(o, "done", "wait")
    /\ ogen' = [ogen EXCEPT ![o] = receiverDone]
    /\ UNCHANGED <<state, conn, rxVars, receiverVars, handlerVars, invokeID,
                   callVars, chanVars, panicked, crashed>>

CloseWait(o) ==
    /\ ogen[o] \in doneClosed
    /\ OwnerAt(o, "wait", "wg")
    /\ UNCHANGED <<state, conn, rxVars, ogen, receiverVars, handlerVars,
                   invokeID, callVars, chanVars, panicked, crashed>>

\* Mutant: Close does not wait for the handlers.
CloseWaitHandlersSkipped(o) ==
    /\ OwnerAt(o, "wg", "pending")
    /\ UNCHANGED <<state, conn, rxVars, ogen, receiverVars, handlerVars,
                   invokeID, callVars, chanVars, panicked, crashed>>

\* c.handlePacketWG.Wait(): the counter is the number of busy handlers.
CloseWaitHandlers(o) ==
    /\ \A h \in Handlers : hpc[h] = "idle"
    /\ OwnerAt(o, "wg", "pending")
    /\ UNCHANGED <<state, conn, rxVars, ogen, receiverVars, handlerVars,
                   invokeID, callVars, chanVars, panicked, crashed>>

\* Mutant: the channels are closed and the map keeps them.
ClosePendingKeepsMap(o) ==
    LET open == {pending[i] : i \in InvokeIDs} \ {None} IN
    /\ OwnerAt(o, "pending", "transport")
    /\ closed' = closed \cup open
    /\ crashed' = (crashed \/ open \cap closed # {})
    /\ UNCHANGED <<state, conn, rxVars, ogen, receiverVars, handlerVars,
                   invokeID, callVars, pending, buf, panicked>>

\* Mutant: the map is replaced and its channels are forgotten, not closed.
ClosePendingForgets(o) ==
    /\ OwnerAt(o, "pending", "transport")
    /\ pending' = [i \in InvokeIDs |-> None]
    /\ UNCHANGED <<state, conn, rxVars, ogen, receiverVars, handlerVars,
                   invokeID, callVars, buf, closed, panicked, crashed>>

\* Under pendingMu every pending channel is closed and the map replaced.
ClosePending(o) ==
    LET open == {pending[i] : i \in InvokeIDs} \ {None} IN
    /\ OwnerAt(o, "pending", "transport")
    /\ closed' = closed \cup open
    /\ crashed' = (crashed \/ open \cap closed # {})
    /\ pending' = [i \in InvokeIDs |-> None]
    /\ UNCHANGED <<state, conn, rxVars, ogen, receiverVars, handlerVars,
                   invokeID, callVars, buf, panicked>>

\* transport.Close
CloseTransport(o) ==
    /\ OwnerAt(o, "transport", "idle")
    /\ conn' = IF conn = "open" THEN "closed" ELSE conn
    /\ UNCHANGED <<state, rxVars, ogen, receiverVars, handlerVars, invokeID,
                   callVars, chanVars, panicked, crashed>>

-----------------------------------------------------------------------------
(***************************************************************************)
(* The receiver goroutine.                                                 *)
(***************************************************************************)

\* defer close(c.receiverDone) evaluates the field when the goroutine starts.
ReceiverStart(g) ==
    /\ ReceiverAt(g, "spawned")
    /\ rpc' = [rpc EXCEPT ![g] = "loop"]
    /\ rdone' = [rdone EXCEPT ![g] = receiverDone]
    /\ UNCHANGED <<state, conn, rxVars, ownerVars, handlerVars, invokeID,
                   callVars, chanVars, panicked, crashed>>

\* The deferred close(c.receiverDone) as the goroutine returns.
ReceiverReturn(g) ==
    /\ rpc' = [rpc EXCEPT ![g] = "done"]
    /\ doneClosed' = doneClosed \cup {rdone[g]}
    /\ crashed' = (crashed \/ rdone[g] \in doneClosed)
    /\ UNCHANGED <<state, conn, gen, receiverCtx, receiverDone, cancelled,
                   ownerVars, rdone, handlerVars, invokeID, callVars,
                   chanVars, panicked>>

\* case <-c.receiverCtx.Done(): the field is read again on every iteration.
ReceiverStops(g) ==
    /\ ReceiverAt(g, "loop")
    /\ receiverCtx \in cancelled
    /\ ReceiverReturn(g)

ReceiverPolls(g) ==
    /\ ReceiverAt(g, "loop")
    /\ receiverCtx \notin cancelled
    /\ rpc' = [rpc EXCEPT ![g] = "recv"]
    /\ UNCHANGED <<state, conn, rxVars, ownerVars, rdone, handlerVars,
                   invokeID, callVars, chanVars, panicked, crashed>>

\* The 100 ms read deadline passes, or the read fails on an open socket.
ReceiverTimeout(g) ==
    /\ ReceiverAt(g, "recv")
    /\ conn # "closed"
    /\ rpc' = [rpc EXCEPT ![g] = "loop"]
    /\ UNCHANGED <<state, conn, rxVars, ownerVars, rdone, handlerVars,
                   invokeID, callVars, chanVars, panicked, crashed>>

\* The read fails and transport.IsClosed().
ReceiverSeesClosed(g) ==
    /\ ReceiverAt(g, "recv")
    /\ conn = "closed"
    /\ ReceiverReturn(g)

\* A datagram arrives: handlePacketWG.Add(1) and a handler goroutine. The
\* datagram answers some request that was sent, or is anything else (None).
\* The network may lose, delay, reorder and duplicate answers.
ReceiverPacket(g, h, p) ==
    /\ ReceiverAt(g, "recv")
    /\ conn = "open"
    /\ p # None => p.call \in sent
    /\ hpc[h] = "idle"
    /\ rpc' = [rpc EXCEPT ![g] = "loop"]
    /\ hpc' = [hpc EXCEPT ![h] = "decode"]
    /\ hpkt' = [hpkt EXCEPT ![h] = p]
    /\ UNCHANGED <<state, conn, rxVars, ownerVars, rdone, hch, invokeID,
                   callVars, chanVars, panicked, crashed>>

-----------------------------------------------------------------------------
(***************************************************************************)
(* handlePacket and handleResponse.                                        *)
(***************************************************************************)

\* handlePacketWG.Done(), with the goroutine's locals forgotten.
HandlerReturn(h) ==
    /\ hpc' = [hpc EXCEPT ![h] = "idle"]
    /\ hpkt' = [hpkt EXCEPT ![h] = None]
    /\ hch' = [hch EXCEPT ![h] = None]

\* Not an answer: undecodable, a network-layer message or a request.
HandleOther(h) ==
    /\ HandlerAt(h, "decode")
    /\ hpkt[h] = None
    /\ HandlerReturn(h)
    /\ UNCHANGED <<state, conn, rxVars, ownerVars, receiverVars, invokeID,
                   callVars, chanVars, panicked, crashed>>

\* The channel is looked up under pendingMu.RLock, then the lock is released.
HandleLookup(h) ==
    /\ HandlerAt(h, "decode")
    /\ hpkt[h] # None
    /\ LET ch == pending[cid[hpkt[h].call]] IN
       IF ch = None
       THEN HandlerReturn(h)
       ELSE /\ hpc' = [hpc EXCEPT ![h] = "send"]
            /\ hch' = [hch EXCEPT ![h] = ch]
            /\ UNCHANGED hpkt
    /\ UNCHANGED <<state, conn, rxVars, ownerVars, receiverVars, invokeID,
                   callVars, chanVars, panicked, crashed>>

\* The non-blocking send: dropped when the buffer is full, a panic (which the
\* handler's recover counts) when the channel is closed.
HandleSend(h) ==
    LET ch == hch[h] IN
    /\ HandlerAt(h, "send")
    /\ HandlerReturn(h)
    /\ panicked' = (panicked \/ ch \in closed)
    /\ buf' = IF ch \notin closed /\ buf[ch] = None
              THEN [buf EXCEPT ![ch] = hpkt[h]]
              ELSE buf
    /\ UNCHANGED <<state, conn, rxVars, ownerVars, receiverVars, invokeID,
                   callVars, pending, closed, crashed>>

-----------------------------------------------------------------------------
(***************************************************************************)
(* sendRequest.                                                            *)
(***************************************************************************)

CallsInFlight == {r \in Calls : cpc[r] \in InFlight}

\* The state check. MaxInFlight is the application's own limit.
SendRequest(r) ==
    /\ CallAt(r, "idle")
    /\ Cardinality(CallsInFlight) < MaxInFlight
    /\ IF state = "Connected"
       THEN /\ cpc' = [cpc EXCEPT ![r] = "checked"]
            /\ UNCHANGED result
       ELSE /\ cpc' = [cpc EXCEPT ![r] = "returned"]
            /\ result' = [result EXCEPT ![r] = "ErrNotConnected"]
    /\ UNCHANGED <<state, conn, rxVars, ownerVars, receiverVars, handlerVars,
                   invokeID, cid, resp, sent, chanVars, panicked, crashed>>

\* Mutant: the ID is not masked to the width of the field.
NextInvokeIDUnmasked(r) ==
    /\ CallAt(r, "checked")
    /\ cpc' = [cpc EXCEPT ![r] = "drawn"]
    /\ invokeID' = invokeID + 1
    /\ cid' = [cid EXCEPT ![r] = invokeID + 1]
    /\ UNCHANGED <<state, conn, rxVars, ownerVars, receiverVars, handlerVars,
                   result, resp, sent, chanVars, panicked, crashed>>

\* Mutant: the counter is read and not advanced.
NextInvokeIDStuck(r) ==
    /\ CallAt(r, "checked")
    /\ cpc' = [cpc EXCEPT ![r] = "drawn"]
    /\ cid' = [cid EXCEPT ![r] = (invokeID + 1) % IDs]
    /\ UNCHANGED <<state, conn, rxVars, ownerVars, receiverVars, handlerVars,
                   invokeID, result, resp, sent, chanVars, panicked, crashed>>

\* invokeID.Add(1) & 0xFF. The counter is a Uint32, whose own wraparound the
\* mask hides because 256 divides 2^32; each call draws at most once.
NextInvokeID(r) ==
    /\ CallAt(r, "checked")
    /\ cpc' = [cpc EXCEPT ![r] = "drawn"]
    /\ invokeID' = invokeID + 1
    /\ cid' = [cid EXCEPT ![r] = (invokeID + 1) % IDs]
    /\ UNCHANGED <<state, conn, rxVars, ownerVars, receiverVars, handlerVars,
                   result, resp, sent, chanVars, panicked, crashed>>

\* c.pending[invokeID] = respCh, whatever the entry held.
Register(r) ==
    /\ CallAt(r, "drawn")
    /\ cpc' = [cpc EXCEPT ![r] = "registered"]
    /\ pending' = [pending EXCEPT ![cid[r]] = r]
    /\ UNCHANGED <<state, conn, rxVars, ownerVars, receiverVars, handlerVars,
                   invokeID, cid, result, resp, sent, buf, closed,
                   panicked, crashed>>

CallReturns(r, res) ==
    /\ cpc' = [cpc EXCEPT ![r] = "returning"]
    /\ result' = [result EXCEPT ![r] = res]

\* transport.Send succeeds, which an open socket allows.
Send(r) ==
    /\ CallAt(r, "registered")
    /\ conn = "open"
    /\ cpc' = [cpc EXCEPT ![r] = "waiting"]
    /\ sent' = sent \cup {r}
    /\ UNCHANGED <<state, conn, rxVars, ownerVars, receiverVars, handlerVars,
                   invokeID, cid, result, resp, chanVars, panicked, crashed>>

\* transport.Send fails: always on a closed socket, and on an open one when
\* the write fails or its deadline has passed.
SendFails(r) ==
    /\ CallAt(r, "registered")
    /\ CallReturns(r, "SendError")
    /\ UNCHANGED <<state, conn, rxVars, ownerVars, receiverVars, handlerVars,
                   invokeID, cid, resp, sent, chanVars, panicked, crashed>>

\* case <-ctx.Done(), chosen even when a response is ready as well.
ContextDone(r) ==
    /\ CallAt(r, "waiting")
    /\ CallReturns(r, "ErrTimeout")
    /\ UNCHANGED <<state, conn, rxVars, ownerVars, receiverVars, handlerVars,
                   invokeID, cid, resp, sent, chanVars, panicked, crashed>>

\* case resp, ok := <-respCh with ok: a buffered value outlives close(ch).
TakeResponse(r) ==
    /\ CallAt(r, "waiting")
    /\ buf[r] # None
    /\ CallReturns(r, IF buf[r].type = "Ack" THEN "Succeeded" ELSE "Failed")
    /\ resp' = [resp EXCEPT ![r] = buf[r]]
    /\ buf' = [buf EXCEPT ![r] = None]
    /\ UNCHANGED <<state, conn, rxVars, ownerVars, receiverVars, handlerVars,
                   invokeID, cid, sent, pending, closed, panicked, crashed>>

\* case resp, ok := <-respCh with !ok.
ChannelClosed(r) ==
    /\ CallAt(r, "waiting")
    /\ buf[r] = None
    /\ r \in closed
    /\ CallReturns(r, "ErrConnectionClosed")
    /\ UNCHANGED <<state, conn, rxVars, ownerVars, receiverVars, handlerVars,
                   invokeID, cid, resp, sent, chanVars, panicked, crashed>>

\* Mutant: the entry is deleted only after a response was taken.
UnregisterIfAnswered(r) ==
    /\ CallAt(r, "returning")
    /\ cpc' = [cpc EXCEPT ![r] = "returned"]
    /\ pending' = IF resp[r] # None
                  THEN [pending EXCEPT ![cid[r]] = None]
                  ELSE pending
    /\ UNCHANGED <<state, conn, rxVars, ownerVars, receiverVars, handlerVars,
                   invokeID, cid, result, resp, sent, buf, closed,
                   panicked, crashed>>

\* The deferred delete(c.pending, invokeID): by ID, whoever owns the entry.
Unregister(r) ==
    /\ CallAt(r, "returning")
    /\ cpc' = [cpc EXCEPT ![r] = "returned"]
    /\ pending' = [pending EXCEPT ![cid[r]] = None]
    /\ UNCHANGED <<state, conn, rxVars, ownerVars, receiverVars, handlerVars,
                   invokeID, cid, result, resp, sent, buf, closed,
                   panicked, crashed>>

-----------------------------------------------------------------------------
\* Connect when its compare-and-swap fails (ErrAlreadyConnected), and Close on
\* a disconnected client (nil): one of the two is always possible.
EarlyReturn(o) ==
    /\ ~crashed
    /\ opc[o] = "idle"
    /\ UNCHANGED vars

ConnectSteps(o) ==
    \/ ConnectOpen(o) \/ ConnectOpenFails(o) \/ ConnectCtx(o)
    \/ ConnectGo(o) \/ ConnectStore(o)

CloseSteps(o) ==
    \/ CloseStore(o) \/ CloseCancel(o) \/ CloseReadDone(o) \/ CloseWait(o)
    \/ CloseWaitHandlers(o) \/ ClosePending(o) \/ CloseTransport(o)

Receiver(g) ==
    \/ ReceiverStart(g) \/ ReceiverStops(g) \/ ReceiverPolls(g)
    \/ ReceiverTimeout(g) \/ ReceiverSeesClosed(g)
    \/ \E h \in Handlers, p \in Responses \cup {None} :
          ReceiverPacket(g, h, p)

Handler(h) == HandleOther(h) \/ HandleLookup(h) \/ HandleSend(h)

\* Everything sendRequest does by itself once called; ContextDone is left to
\* the caller's context.
CallSteps(r) ==
    \/ NextInvokeID(r) \/ Register(r) \/ Send(r) \/ SendFails(r)
    \/ TakeResponse(r) \/ ChannelClosed(r) \/ Unregister(r)

Next ==
    \/ \E o \in Owners :
          \/ Connect(o) \/ ConnectSteps(o)
          \/ Close(o) \/ CloseSteps(o)
          \/ EarlyReturn(o)
    \/ \E g \in Gens : Receiver(g)
    \/ \E h \in Handlers : Handler(h)
    \/ \E r \in Calls : SendRequest(r) \/ CallSteps(r) \/ ContextDone(r)

Spec == Init /\ [][Next]_vars

\* The Go scheduler runs every runnable goroutine: a Connect or Close that
\* has begun, the receivers, the handlers and the calls. Nothing makes the
\* application call, nor a context expire.
Fairness ==
    /\ \A o \in Owners : WF_vars(ConnectSteps(o)) /\ WF_vars(CloseSteps(o))
    /\ \A g \in Gens : WF_vars(Receiver(g))
    /\ \A h \in Handlers : WF_vars(Handler(h))
    /\ \A r \in Calls : WF_vars(CallSteps(r))

FairSpec == Spec /\ Fairness
-----------------------------------------------------------------------------
(***************************************************************************)
(* Properties.                                                             *)
(***************************************************************************)

\* Every variable has its type; the one type invariant of this module.
TypeOK ==
    /\ state \in {"Disconnected", "Connecting", "Connected"}
    /\ conn \in {"nil", "open", "closed"}
    /\ gen \in 0..MaxConnects
    /\ receiverCtx \in 0..MaxConnects
    /\ receiverDone \in 0..MaxConnects
    /\ cancelled \subseteq Gens
    /\ doneClosed \subseteq 0..MaxConnects
    /\ opc \in [Owners -> {"idle", "closing"} \cup Opening \cup Closing]
    /\ ogen \in [Owners -> 0..MaxConnects]
    /\ \A o \in Owners : opc[o] \in Opening => ogen[o] \in Gens
    /\ rpc \in [Gens -> {"none", "done"} \cup Running]
    /\ rdone \in [Gens -> 0..MaxConnects]
    /\ hpc \in [Handlers -> {"idle", "decode", "send"}]
    /\ hpkt \in [Handlers -> Responses \cup {None}]
    /\ hch \in [Handlers -> Calls \cup {None}]
    /\ invokeID \in Nat
    /\ pending \in [InvokeIDs -> Calls \cup {None}]
    /\ cpc \in [Calls -> {"idle", "returned"} \cup InFlight]
    /\ cid \in [Calls -> InvokeIDs]
    /\ buf \in [Calls -> Responses \cup {None}]
    /\ closed \subseteq Calls
    /\ sent \subseteq Calls
    /\ result \in [Calls -> Results]
    /\ resp \in [Calls -> Responses \cup {None}]
    /\ panicked \in BOOLEAN
    /\ crashed \in BOOLEAN

\* Connect and Close are never called concurrently.
SingleOwner == \A o, p \in Owners : o = p

\* No goroutine panics: no handler sends on a response channel that Close has
\* closed (the order receiver, handlers, pending map in Close), and neither a
\* response channel nor a receiverDone channel is closed twice.
NoPanic == ~panicked /\ ~crashed

\* An entry of the pending map belongs to a call that is still in flight under
\* that ID and whose channel is open: the deferred delete leaks nothing, Close
\* leaves no closed channel behind, and no collision of IDs undoes either.
PendingSound ==
    \A i \in InvokeIDs : pending[i] # None =>
        /\ cid[pending[i]] = i
        /\ cpc[pending[i]] \in {"registered", "waiting", "returning"}
        /\ pending[i] \notin closed

\* Until the invoke IDs wrap, a response a call returns is an answer to the
\* request of that very call, however late, duplicated or reordered the
\* answers of others are; sendRequest compares nothing but the invoke ID.
OwnResponse ==
    invokeID <= IDs =>
        \A r \in Calls : resp[r] # None => resp[r].call = r

\* Once Close has returned, no receiver and no handler is left running: the
\* goroutines a Connect starts end before the Close that follows returns.
QuietAfterClose ==
    (state = "Disconnected" /\ \A o \in Owners : opc[o] = "idle") =>
        /\ \A g \in Gens : rpc[g] \notin Running
        /\ \A h \in Handlers : hpc[h] = "idle"

\* A Close that has begun returns: the receiver notices the cancellation, the
\* handlers drain, and nothing Close waits for waits for Close.
CloseReturns ==
    \A o \in Owners :
        opc[o] \in {"closing"} \cup Closing ~> opc[o] = "idle"

\* Another call in flight has drawn the invoke ID of r: its store replaces the
\* entry of r in the pending map, and its deferred delete removes it.
Collides(r) ==
    \E q \in Calls \ {r} :
        /\ cpc[q] \in InFlight \ {"checked"}
        /\ cid[q] = cid[r]

\* A call registered in the pending map when Close starts to shut down
\* returns, even if its context never expires, unless another call in flight
\* draws its invoke ID. After such a collision Close may find no entry to close
\* the channel of, and the call waits for its context alone.
CloseUnblocksRegistered ==
    \A o \in Owners, r \in Calls :
        (opc[o] = "cancel" /\ pending[cid[r]] = r)
        ~> (cpc[r] = "returned" \/ Collides(r))

\* client.go: "Connect opens the BACnet client connection". After a Connect has
\* returned nil and until Close, the socket is open. It is not after a Connect
\* that follows a Close.
ConnectedIsOpen ==
    (state = "Connected" /\ \A o \in Owners : opc[o] = "idle") =>
        conn = "open"

=============================================================================
