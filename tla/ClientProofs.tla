---------------------------- MODULE ClientProofs ----------------------------
(***************************************************************************)
(* Proofs about Client, for every number of calls, owners, handlers,       *)
(* invoke IDs and Connect attempts: its safety properties, and that it     *)
(* implements RequestContract.                                             *)
(***************************************************************************)
EXTENDS ClientContract, TLAPS

-----------------------------------------------------------------------------
(***************************************************************************)
(* The inductive invariant, in named parts.                                *)
(***************************************************************************)

\* Close only ever closes the channel of a call that has registered it.
ClosedWereRegistered ==
    \A r \in closed : cpc[r] \notin {"idle", "checked", "drawn"}

\* Calls that have drawn an invoke ID.
Drawn ==
    {r \in Calls : cpc[r] \notin {"idle", "checked"}
                      /\ result[r] # "ErrNotConnected"}

\* Whatever travels towards a call carries the invoke ID of that call: the
\* channel a handler has looked up, the buffer and the response taken.
CarriesID(r, p) == p.call \in Drawn /\ cid[p.call] = cid[r]

ErrorsReturned ==
    \A r \in Calls : result[r] = "ErrNotConnected" => cpc[r] = "returned"

PendingDrawn == \A i \in InvokeIDs : pending[i] # None => pending[i] \in Drawn

PacketsDrawn == \A h \in Handlers : hpkt[h] # None => hpkt[h].call \in Drawn

HandlersCarry ==
    \A h \in Handlers : hpc[h] = "send" =>
        hpkt[h] # None /\ hch[h] \in Drawn /\ CarriesID(hch[h], hpkt[h])

BuffersCarry ==
    \A r \in Calls : buf[r] # None => r \in Drawn /\ CarriesID(r, buf[r])

ResponsesCarry ==
    \A r \in Calls : resp[r] # None => r \in Drawn /\ CarriesID(r, resp[r])

IDsMatch ==
    /\ ErrorsReturned
    /\ sent \subseteq Drawn
    /\ PendingDrawn
    /\ PacketsDrawn
    /\ HandlersCarry
    /\ BuffersCarry
    /\ ResponsesCarry

\* Until the counter passes the number of IDs, no ID has been drawn twice.
NoReuse ==
    invokeID <= IDs =>
        /\ \A r \in Drawn : \E k \in 1..invokeID : cid[r] = k % IDs
        /\ \A r, s \in Drawn : cid[r] = cid[s] => r = s

NoReceiver == \A g \in Gens : rpc[g] \notin Running
NoHandler == \A h \in Handlers : hpc[h] = "idle"

\* With one owner, the connection state follows its control point.
StateFollowsOwner ==
    \A o \in Owners :
        /\ opc[o] \in Opening => state = "Connecting"
        /\ opc[o] \in Closing => state = "Disconnected"
        /\ opc[o] = "closing" => state = "Connected"
        /\ opc[o] = "idle" => state # "Connecting"

\* Where the owner knows that the receivers, or the handlers too, are gone.
ReceiversGone(o) ==
    \/ opc[o] \in {"open", "ctx", "go", "wg", "pending", "transport"}
    \/ opc[o] = "idle" /\ state = "Disconnected"

HandlersGone(o) == ReceiversGone(o) /\ opc[o] # "wg"

\* With one owner, at most one receiver runs, it is the one the fields of the
\* client name, and it will close the channel made for it, once.
ReceiverOwned ==
    /\ 0 \notin doneClosed
    /\ \A g \in Gens : g > gen => rpc[g] = "none"
    /\ \A g \in Gens :
          rpc[g] \in Running => g = receiverDone /\ g = receiverCtx
    /\ \A g \in Gens : rpc[g] \in {"loop", "recv"} => rdone[g] = g
    /\ \A g \in Gens : g \in doneClosed => rpc[g] = "done"
    /\ \A o \in Owners :
          /\ opc[o] \in {"open", "ctx", "go"} =>
                ogen[o] <= gen /\ rpc[ogen[o]] = "none"
          /\ opc[o] = "go" => receiverCtx = ogen[o]
          /\ opc[o] = "wait" => ogen[o] = receiverDone

Drained ==
    \A o \in Owners :
        /\ ReceiversGone(o) => NoReceiver
        /\ HandlersGone(o) => NoHandler

\* A handler about to send holds an open channel.
SendsOnOpen == \A h \in Handlers : hpc[h] = "send" => hch[h] \in Calls \ closed

PendingInv == TypeOK /\ PendingSound /\ ClosedWereRegistered

ResponseInv == PendingInv /\ IDsMatch /\ NoReuse

SerialInv ==
    /\ PendingInv
    /\ StateFollowsOwner
    /\ ReceiverOwned
    /\ Drained
    /\ SendsOnOpen
    /\ NoPanic

-----------------------------------------------------------------------------
(***************************************************************************)
(* What each kind of goroutine leaves alone.                               *)
(***************************************************************************)

USE NoneAssumption, IDsAssumption, MaxConnectsAssumption
USE DEF rxVars, ownerVars, receiverVars, handlerVars, callVars, chanVars

OwnerSteps(o) ==
    \/ Connect(o) \/ ConnectSteps(o)
    \/ Close(o) \/ CloseSteps(o)
    \/ EarlyReturn(o)

\* Connect and Close touch no handler and no call, and the response channels
\* only where Close empties the pending map.
LEMMA OwnerFrame ==
    ASSUME NEW o \in Owners, OwnerSteps(o)
    PROVE  /\ UNCHANGED <<rdone, handlerVars, invokeID, callVars, buf,
                          panicked>>
           /\ ClosePending(o) \/ UNCHANGED <<pending, closed, crashed>>
BY DEF OwnerSteps, ConnectSteps, Connect, ConnectOpen, ConnectOpenFails,
   ConnectCtx, ConnectGo, ConnectStore, CloseSteps, Close, CloseStore,
   CloseCancel, CloseReadDone, CloseWait, CloseWaitHandlers, ClosePending,
   CloseTransport, EarlyReturn, vars

\* A receiver touches no call and no response channel; it starts a handler
\* only for a packet, and closes its receiverDone only as it returns.
LEMMA ReceiverFrame ==
    ASSUME NEW g \in Gens, Receiver(g)
    PROVE  /\ UNCHANGED <<state, conn, gen, receiverCtx, receiverDone,
                          cancelled, ownerVars, hch, invokeID, callVars,
                          chanVars, panicked>>
           /\ \/ UNCHANGED handlerVars
              \/ \E h \in Handlers, p \in Responses \cup {None} :
                    ReceiverPacket(g, h, p)
           /\ \/ ReceiverReturn(g) /\ rpc[g] \in {"loop", "recv"}
              \/ UNCHANGED <<doneClosed, crashed>>
BY DEF Receiver, ReceiverStart, ReceiverStops, ReceiverPolls, ReceiverTimeout,
   ReceiverSeesClosed, ReceiverPacket, ReceiverReturn, ReceiverAt

\* A handler touches no lifecycle state, no call and not the pending map.
LEMMA HandlerFrame ==
    ASSUME NEW h \in Handlers, Handler(h)
    PROVE  UNCHANGED <<state, conn, rxVars, ownerVars, receiverVars, invokeID,
                       callVars, pending, closed, crashed>>
BY DEF Handler, HandleOther, HandleLookup, HandleSend

\* A call touches no lifecycle state and no handler, and closes no channel.
LEMMA CallFrame ==
    ASSUME NEW r \in Calls, SendRequest(r) \/ CallSteps(r) \/ ContextDone(r)
    PROVE  UNCHANGED <<state, conn, rxVars, ownerVars, receiverVars,
                       handlerVars, closed, panicked, crashed>>
BY DEF CallSteps, SendRequest, NextInvokeID, Register, Send, SendFails,
   ContextDone, TakeResponse, ChannelClosed, Unregister

-----------------------------------------------------------------------------
(***************************************************************************)
(* Type correctness.                                                       *)
(***************************************************************************)

\* Every step of the client keeps its variables in their types.
LEMMA TypeStep == TypeOK /\ [Next]_vars => TypeOK'
<1> SUFFICES ASSUME TypeOK, [Next]_vars PROVE TypeOK'
  OBVIOUS
<1> USE DEF TypeOK, Gens, InvokeIDs, Responses, ResponseTypes, Results,
            Closing, Opening, InFlight, Running
<1>1. ASSUME NEW o \in Owners, Connect(o) PROVE TypeOK'
  <2>1. gen + 1 \in Gens
    BY <1>1 DEF Connect
  <2>2. QED
    BY <1>1, <2>1, SMTT(60) DEF Connect, OwnerAt
<1>2. ASSUME NEW o \in Owners, ConnectOpen(o) PROVE TypeOK'
  BY <1>2 DEF ConnectOpen, OwnerAt
<1>3. ASSUME NEW o \in Owners, ConnectOpenFails(o) PROVE TypeOK'
  BY <1>3 DEF ConnectOpenFails, OwnerAt
<1>4. ASSUME NEW o \in Owners, ConnectCtx(o) PROVE TypeOK'
  BY <1>4 DEF ConnectCtx, OwnerAt
<1>5. ASSUME NEW o \in Owners, ConnectGo(o) PROVE TypeOK'
  BY <1>5 DEF ConnectGo, OwnerAt
<1>6. ASSUME NEW o \in Owners, ConnectStore(o) PROVE TypeOK'
  BY <1>6 DEF ConnectStore, OwnerAt
<1>7. ASSUME NEW o \in Owners, Close(o) PROVE TypeOK'
  BY <1>7 DEF Close, OwnerAt
<1>8. ASSUME NEW o \in Owners, CloseStore(o) PROVE TypeOK'
  BY <1>8 DEF CloseStore, OwnerAt
<1>9. ASSUME NEW o \in Owners, CloseCancel(o) PROVE TypeOK'
  BY <1>9 DEF CloseCancel, OwnerAt
<1>10. ASSUME NEW o \in Owners, CloseReadDone(o) PROVE TypeOK'
  BY <1>10 DEF CloseReadDone, OwnerAt
<1>11. ASSUME NEW o \in Owners, CloseWait(o) PROVE TypeOK'
  BY <1>11 DEF CloseWait, OwnerAt
<1>12. ASSUME NEW o \in Owners, CloseWaitHandlers(o) PROVE TypeOK'
  BY <1>12 DEF CloseWaitHandlers, OwnerAt
<1>13. ASSUME NEW o \in Owners, ClosePending(o) PROVE TypeOK'
  BY <1>13, SMTT(30) DEF ClosePending, OwnerAt
<1>14. ASSUME NEW o \in Owners, CloseTransport(o) PROVE TypeOK'
  BY <1>14 DEF CloseTransport, OwnerAt
<1>15. ASSUME NEW o \in Owners, EarlyReturn(o) PROVE TypeOK'
  BY <1>15 DEF EarlyReturn, vars
<1>16. ASSUME NEW g \in Gens, ReceiverStart(g) PROVE TypeOK'
  BY <1>16 DEF ReceiverStart, ReceiverAt
<1>17. ASSUME NEW g \in Gens, ReceiverStops(g) PROVE TypeOK'
  <2>1. rdone[g] \in 0..MaxConnects
    BY <1>17
  <2>2. QED
    BY <1>17, <2>1 DEF ReceiverStops, ReceiverAt, ReceiverReturn
<1>18. ASSUME NEW g \in Gens, ReceiverPolls(g) PROVE TypeOK'
  BY <1>18 DEF ReceiverPolls, ReceiverAt
<1>19. ASSUME NEW g \in Gens, ReceiverTimeout(g) PROVE TypeOK'
  BY <1>19 DEF ReceiverTimeout, ReceiverAt
<1>20. ASSUME NEW g \in Gens, ReceiverSeesClosed(g) PROVE TypeOK'
  <2>1. rdone[g] \in 0..MaxConnects
    BY <1>20
  <2>2. QED
    BY <1>20, <2>1 DEF ReceiverSeesClosed, ReceiverAt, ReceiverReturn
<1>21. ASSUME NEW g \in Gens, NEW h \in Handlers,
             NEW p \in Responses \cup {None}, ReceiverPacket(g, h, p)
      PROVE  TypeOK'
  BY <1>21 DEF ReceiverPacket, ReceiverAt
<1>22. ASSUME NEW h \in Handlers, HandleOther(h) PROVE TypeOK'
  BY <1>22 DEF HandleOther, HandlerAt, HandlerReturn
<1>23. ASSUME NEW h \in Handlers, HandleLookup(h) PROVE TypeOK'
  <2> DEFINE ch == pending[cid[hpkt[h].call]]
  <2>1. ch \in Calls \cup {None}
    <3>1. hpkt[h] \in Responses
      BY <1>23 DEF HandleLookup
    <3>2. QED
      BY <3>1
  <2>2. /\ hpc' \in [Handlers -> {"idle", "decode", "send"}]
        /\ hpkt' \in [Handlers -> Responses \cup {None}]
        /\ hch' \in [Handlers -> Calls \cup {None}]
    <3>1. CASE ch = None
      <4>1. HandlerReturn(h)
        BY <1>23, <3>1 DEF HandleLookup
      <4>2. QED
        BY <4>1 DEF HandlerReturn
    <3>2. CASE ch # None
      <4>1. /\ hpc' = [hpc EXCEPT ![h] = "send"]
            /\ hch' = [hch EXCEPT ![h] = ch]
            /\ hpkt' = hpkt
        BY <1>23, <3>2 DEF HandleLookup
      <4>2. QED
        BY <2>1, <4>1
    <3>3. QED
      BY <3>1, <3>2
  <2>3. UNCHANGED <<state, conn, rxVars, ownerVars, receiverVars, invokeID,
                    callVars, chanVars, panicked, crashed>>
    BY <1>23 DEF HandleLookup
  <2>4. QED
    BY <2>2, <2>3
<1>24. ASSUME NEW h \in Handlers, HandleSend(h) PROVE TypeOK'
  BY <1>24 DEF HandleSend, HandlerAt, HandlerReturn
<1>25. ASSUME NEW r \in Calls, SendRequest(r) PROVE TypeOK'
  <2>1. CASE state = "Connected"
    BY <1>25, <2>1 DEF SendRequest
  <2>2. CASE state # "Connected"
    BY <1>25, <2>2 DEF SendRequest
  <2>3. QED
    BY <2>1, <2>2
<1>26. ASSUME NEW r \in Calls, NextInvokeID(r) PROVE TypeOK'
  <2>1. invokeID + 1 \in Nat /\ (invokeID + 1) % IDs \in InvokeIDs
    OBVIOUS
  <2>2. QED
    BY <1>26, <2>1, SMTT(60) DEF NextInvokeID, CallAt
<1>27. ASSUME NEW r \in Calls, Register(r) PROVE TypeOK'
  BY <1>27 DEF Register, CallAt
<1>28. ASSUME NEW r \in Calls, Send(r) PROVE TypeOK'
  BY <1>28 DEF Send, CallAt
<1>29. ASSUME NEW r \in Calls, SendFails(r) PROVE TypeOK'
  BY <1>29 DEF SendFails, CallAt, CallReturns
<1>30. ASSUME NEW r \in Calls, ContextDone(r) PROVE TypeOK'
  BY <1>30 DEF ContextDone, CallAt, CallReturns
<1>31. ASSUME NEW r \in Calls, TakeResponse(r) PROVE TypeOK'
  BY <1>31 DEF TakeResponse, CallAt, CallReturns
<1>32. ASSUME NEW r \in Calls, ChannelClosed(r) PROVE TypeOK'
  BY <1>32 DEF ChannelClosed, CallAt, CallReturns
<1>33. ASSUME NEW r \in Calls, Unregister(r) PROVE TypeOK'
  BY <1>33 DEF Unregister, CallAt
<1>34. CASE UNCHANGED vars
  BY <1>34 DEF vars
<1>35. QED
  BY <1>1, <1>2, <1>3, <1>4, <1>5, <1>6, <1>7, <1>8, <1>9, <1>10,
     <1>11, <1>12, <1>13, <1>14, <1>15, <1>16, <1>17, <1>18, <1>19, <1>20,
     <1>21, <1>22, <1>23, <1>24, <1>25, <1>26, <1>27, <1>28, <1>29, <1>30,
     <1>31, <1>32, <1>33, <1>34
  DEF Next, ConnectSteps, CloseSteps, Receiver, Handler, CallSteps

\* A new client has its variables in their types.
LEMMA TypeInit == Init => TypeOK
<1> SUFFICES ASSUME Init PROVE TypeOK
  OBVIOUS
<1> USE DEF Init, Gens, InvokeIDs, Responses, Results, InFlight, Running,
            Opening
<1>1. /\ opc \in [Owners -> {"idle", "closing"} \cup Opening \cup Closing]
      /\ ogen \in [Owners -> 0..MaxConnects]
      /\ \A o \in Owners : opc[o] \in Opening => ogen[o] \in Gens
  OBVIOUS
<1>2. /\ rpc \in [Gens -> {"none", "done"} \cup Running]
      /\ rdone \in [Gens -> 0..MaxConnects]
      /\ hpc \in [Handlers -> {"idle", "decode", "send"}]
      /\ hpkt \in [Handlers -> Responses \cup {None}]
      /\ hch \in [Handlers -> Calls \cup {None}]
  OBVIOUS
<1>3. /\ pending \in [InvokeIDs -> Calls \cup {None}]
      /\ cpc \in [Calls -> {"idle", "returned"} \cup InFlight]
      /\ cid \in [Calls -> InvokeIDs]
      /\ buf \in [Calls -> Responses \cup {None}]
  OBVIOUS
<1>4. /\ result \in [Calls -> Results]
      /\ resp \in [Calls -> Responses \cup {None}]
  OBVIOUS
<1>5. /\ state \in {"Disconnected", "Connecting", "Connected"}
      /\ conn \in {"nil", "open", "closed"}
      /\ gen \in 0..MaxConnects
      /\ receiverCtx \in 0..MaxConnects
      /\ receiverDone \in 0..MaxConnects
      /\ cancelled \subseteq Gens
      /\ doneClosed \subseteq 0..MaxConnects
      /\ invokeID \in Nat
      /\ closed \subseteq Calls
      /\ sent \subseteq Calls
  OBVIOUS
<1>6. panicked \in BOOLEAN /\ crashed \in BOOLEAN
  OBVIOUS
<1>7. QED
  BY <1>1, <1>2, <1>3, <1>4, <1>5, <1>6 DEF TypeOK

\* The type invariant of Client holds for every value of the constants.
THEOREM TypeCorrect == Spec => []TypeOK
  BY TypeInit, TypeStep, PTL DEF Spec

-----------------------------------------------------------------------------
(***************************************************************************)
(* The pending map, for any number of owners and with reused invoke IDs.   *)
(***************************************************************************)

\* Every step keeps the pending map sound.
LEMMA PendingStep == PendingInv /\ [Next]_vars => PendingInv'
<1> DEFINE Goal == PendingSound' /\ ClosedWereRegistered'
<1> SUFFICES ASSUME PendingInv, [Next]_vars PROVE Goal
  BY TypeStep DEF PendingInv
<1> USE DEF PendingInv, TypeOK, PendingSound, ClosedWereRegistered, InvokeIDs,
            InFlight
<1>1. UNCHANGED <<cpc, cid, pending, closed>> => Goal
  OBVIOUS
<1>2. ASSUME NEW o \in Owners, ClosePending(o) PROVE Goal
  <2>1. PendingSound'
    BY <1>2 DEF ClosePending
  <2>2. ASSUME NEW r \in closed'
        PROVE  cpc'[r] \notin {"idle", "checked", "drawn"}
    <3>1. cpc' = cpc
      BY <1>2 DEF ClosePending
    <3>2. r \in closed \/ \E i \in InvokeIDs : pending[i] = r /\ r # None
      BY <1>2, <2>2 DEF ClosePending
    <3>3. QED
      BY <3>1, <3>2
  <2>3. QED
    BY <2>1, <2>2
<1>3. ASSUME NEW o \in Owners, OwnerSteps(o) PROVE Goal
  BY <1>1, <1>2, <1>3, OwnerFrame
<1>4. ASSUME NEW g \in Gens, Receiver(g) PROVE Goal
  BY <1>1, <1>4, ReceiverFrame
<1>5. ASSUME NEW h \in Handlers, Handler(h) PROVE Goal
  BY <1>1, <1>5, HandlerFrame
<1>6. ASSUME NEW r \in Calls, SendRequest(r) PROVE Goal
  <2>1. r \notin closed /\ \A i \in InvokeIDs : pending[i] # r
    <3>1. cpc[r] = "idle"
      BY <1>6 DEF SendRequest, CallAt
    <3>2. QED
      BY <3>1
  <2>2. \A s \in Calls : s # r => cpc'[s] = cpc[s]
    BY <1>6 DEF SendRequest, CallAt
  <2>3. UNCHANGED <<pending, cid, closed>>
    BY <1>6 DEF SendRequest
  <2>4. QED
    BY <2>1, <2>2, <2>3
<1>7. ASSUME NEW r \in Calls, NextInvokeID(r) PROVE Goal
  BY <1>7 DEF NextInvokeID, CallAt
<1>8. ASSUME NEW r \in Calls, Register(r) PROVE Goal
  BY <1>8 DEF Register, CallAt
<1>9. ASSUME NEW r \in Calls, Send(r) PROVE Goal
  BY <1>9 DEF Send, CallAt
<1>10. ASSUME NEW r \in Calls,
              \/ SendFails(r) \/ ContextDone(r)
              \/ TakeResponse(r) \/ ChannelClosed(r)
       PROVE  Goal
  BY <1>10 DEF SendFails, ContextDone, TakeResponse, ChannelClosed,
     CallReturns, CallAt
<1>11. ASSUME NEW r \in Calls, Unregister(r) PROVE Goal
  BY <1>11 DEF Unregister, CallAt
<1>12. CASE UNCHANGED vars
  BY <1>1, <1>12 DEF vars
<1>13. QED
  BY <1>3, <1>4, <1>5, <1>6, <1>7, <1>8, <1>9, <1>10, <1>11, <1>12
  DEF Next, OwnerSteps, CallSteps

\* Whatever the owners do and however often IDs collide, an entry of the
\* pending map is the open channel of a call in flight under its ID.
THEOREM PendingCorrect == Spec => []PendingSound
<1>1. Init => PendingInv
  BY TypeInit DEF Init, PendingInv, PendingSound, ClosedWereRegistered
<1>2. PendingInv => PendingSound
  BY DEF PendingInv
<1>3. QED
  BY <1>1, <1>2, PendingStep, PTL DEF Spec

-----------------------------------------------------------------------------
(***************************************************************************)
(* One owner: Connect and Close are not called concurrently.               *)
(***************************************************************************)

\* With one owner the connection state follows Connect and Close.
LEMMA StateStep ==
    ASSUME SingleOwner, TypeOK, StateFollowsOwner, [Next]_vars
    PROVE  StateFollowsOwner'
<1> DEFINE Goal == StateFollowsOwner'
<1> USE DEF SingleOwner, TypeOK, StateFollowsOwner, Opening, Closing
<1>1. ASSUME NEW o \in Owners, Connect(o) PROVE Goal
  BY <1>1 DEF Connect, OwnerAt
<1>2. ASSUME NEW o \in Owners, ConnectOpen(o) PROVE Goal
  BY <1>2 DEF ConnectOpen, OwnerAt
<1>3. ASSUME NEW o \in Owners, ConnectOpenFails(o) PROVE Goal
  BY <1>3 DEF ConnectOpenFails, OwnerAt
<1>4. ASSUME NEW o \in Owners, ConnectCtx(o) PROVE Goal
  BY <1>4 DEF ConnectCtx, OwnerAt
<1>5. ASSUME NEW o \in Owners, ConnectGo(o) PROVE Goal
  BY <1>5 DEF ConnectGo, OwnerAt
<1>6. ASSUME NEW o \in Owners, ConnectStore(o) PROVE Goal
  BY <1>6 DEF ConnectStore, OwnerAt
<1>7. ASSUME NEW o \in Owners, Close(o) PROVE Goal
  BY <1>7 DEF Close, OwnerAt
<1>8. ASSUME NEW o \in Owners, CloseStore(o) PROVE Goal
  BY <1>8 DEF CloseStore, OwnerAt
<1>9. ASSUME NEW o \in Owners, CloseCancel(o) PROVE Goal
  BY <1>9 DEF CloseCancel, OwnerAt
<1>10. ASSUME NEW o \in Owners, CloseReadDone(o) PROVE Goal
  BY <1>10 DEF CloseReadDone, OwnerAt
<1>11. ASSUME NEW o \in Owners, CloseWait(o) PROVE Goal
  BY <1>11 DEF CloseWait, OwnerAt
<1>12. ASSUME NEW o \in Owners, CloseWaitHandlers(o) PROVE Goal
  BY <1>12 DEF CloseWaitHandlers, OwnerAt
<1>13. ASSUME NEW o \in Owners, ClosePending(o) PROVE Goal
  BY <1>13 DEF ClosePending, OwnerAt
<1>14. ASSUME NEW o \in Owners, CloseTransport(o) PROVE Goal
  BY <1>14 DEF CloseTransport, OwnerAt
<1>15. UNCHANGED <<state, opc>> => Goal
  OBVIOUS
<1>16. ASSUME NEW g \in Gens, Receiver(g) PROVE Goal
  BY <1>15, <1>16, ReceiverFrame
<1>17. ASSUME NEW h \in Handlers, Handler(h) PROVE Goal
  BY <1>15, <1>17, HandlerFrame
<1>18. ASSUME NEW r \in Calls, SendRequest(r) \/ CallSteps(r) \/ ContextDone(r)
       PROVE  Goal
  BY <1>15, <1>18, CallFrame
<1>19. CASE UNCHANGED vars
  BY <1>15, <1>19 DEF vars
<1>20. QED
  BY <1>1, <1>2, <1>3, <1>4, <1>5, <1>6, <1>7, <1>8, <1>9, <1>10, <1>11,
     <1>12, <1>13, <1>14, <1>16, <1>17, <1>18, <1>19
  DEF Next, ConnectSteps, CloseSteps, EarlyReturn

\* With one owner a receiver runs only between the Connect that starts it and
\* the Close that waits for it.
LEMMA ReceiverStep ==
    ASSUME SingleOwner, SerialInv, [Next]_vars
    PROVE  ReceiverOwned' /\ Drained'
<1> DEFINE Goal == ReceiverOwned' /\ Drained'
<1>a. /\ gen \in 0..MaxConnects
      /\ receiverDone \in 0..MaxConnects
      /\ doneClosed \subseteq 0..MaxConnects
      /\ opc \in [Owners -> {"idle", "closing"} \cup Opening \cup Closing]
      /\ ogen \in [Owners -> 0..MaxConnects]
      /\ \A o \in Owners : opc[o] \in Opening => ogen[o] \in Gens
      /\ rpc \in [Gens -> {"none", "done"} \cup Running]
      /\ rdone \in [Gens -> 0..MaxConnects]
      /\ hpc \in [Handlers -> {"idle", "decode", "send"}]
  BY DEF SerialInv, PendingInv, TypeOK
<1>b. StateFollowsOwner /\ ReceiverOwned /\ Drained
  BY DEF SerialInv
<1> USE <1>a, <1>b DEF SingleOwner, StateFollowsOwner, ReceiverOwned, Drained,
        ReceiversGone, HandlersGone, NoReceiver, NoHandler, Running, Gens,
        Opening, Closing
<1>1. ASSUME NEW o \in Owners, Connect(o) PROVE Goal
  BY <1>1 DEF Connect, OwnerAt
<1>2. ASSUME NEW o \in Owners, ConnectOpen(o) PROVE Goal
  BY <1>2 DEF ConnectOpen, OwnerAt
<1>3. ASSUME NEW o \in Owners, ConnectOpenFails(o) PROVE Goal
  BY <1>3 DEF ConnectOpenFails, OwnerAt
<1>4. ASSUME NEW o \in Owners, ConnectCtx(o) PROVE Goal
  BY <1>4 DEF ConnectCtx, OwnerAt
<1>5. ASSUME NEW o \in Owners, ConnectGo(o) PROVE Goal
  <2>1. ogen[o] \in Gens /\ NoReceiver /\ NoHandler /\ receiverCtx = ogen[o]
    BY <1>5 DEF ConnectGo, OwnerAt
  <2>2. /\ rpc' = [rpc EXCEPT ![ogen[o]] = "spawned"]
        /\ receiverDone' = ogen[o]
        /\ opc' = [opc EXCEPT ![o] = "store"]
        /\ UNCHANGED <<gen, receiverCtx, doneClosed, ogen, rdone, hpc, state>>
    BY <1>5 DEF ConnectGo, OwnerAt
  <2>3. ogen[o] <= gen
    BY <1>5 DEF ConnectGo, OwnerAt
  <2>4. ReceiverOwned'
    BY <1>5, <2>1, <2>2, <2>3 DEF ConnectGo, OwnerAt
  <2>5. Drained'
    BY <1>5, <2>1, <2>2
  <2>6. QED
    BY <2>4, <2>5
<1>6. ASSUME NEW o \in Owners, ConnectStore(o) PROVE Goal
  BY <1>6 DEF ConnectStore, OwnerAt
<1>7. ASSUME NEW o \in Owners, Close(o) PROVE Goal
  BY <1>7 DEF Close, OwnerAt
<1>8. ASSUME NEW o \in Owners, CloseStore(o) PROVE Goal
  BY <1>8 DEF CloseStore, OwnerAt
<1>9. ASSUME NEW o \in Owners, CloseCancel(o) PROVE Goal
  BY <1>9 DEF CloseCancel, OwnerAt
<1>10. ASSUME NEW o \in Owners, CloseReadDone(o) PROVE Goal
  BY <1>10 DEF CloseReadDone, OwnerAt
<1>11. ASSUME NEW o \in Owners, CloseWait(o) PROVE Goal
  BY <1>11 DEF CloseWait, OwnerAt
<1>12. ASSUME NEW o \in Owners, CloseWaitHandlers(o) PROVE Goal
  BY <1>12 DEF CloseWaitHandlers, OwnerAt
<1>13. ASSUME NEW o \in Owners, ClosePending(o) PROVE Goal
  BY <1>13 DEF ClosePending, OwnerAt
<1>14. ASSUME NEW o \in Owners, CloseTransport(o) PROVE Goal
  BY <1>14 DEF CloseTransport, OwnerAt
<1>15. ASSUME NEW g \in Gens, ReceiverStart(g) PROVE Goal
  BY <1>15 DEF ReceiverStart, ReceiverAt
<1>16. ASSUME NEW g \in Gens, ReceiverStops(g) PROVE Goal
  BY <1>16 DEF ReceiverStops, ReceiverAt, ReceiverReturn
<1>17. ASSUME NEW g \in Gens, ReceiverPolls(g) PROVE Goal
  BY <1>17 DEF ReceiverPolls, ReceiverAt
<1>18. ASSUME NEW g \in Gens, ReceiverTimeout(g) PROVE Goal
  BY <1>18 DEF ReceiverTimeout, ReceiverAt
<1>19. ASSUME NEW g \in Gens, ReceiverSeesClosed(g) PROVE Goal
  BY <1>19 DEF ReceiverSeesClosed, ReceiverAt, ReceiverReturn
<1>20. ASSUME NEW g \in Gens, NEW h \in Handlers,
              NEW p \in Responses \cup {None}, ReceiverPacket(g, h, p)
       PROVE  Goal
  BY <1>20 DEF ReceiverPacket, ReceiverAt
<1>21. ASSUME NEW h \in Handlers, HandleOther(h) PROVE Goal
  BY <1>21 DEF HandleOther, HandlerAt, HandlerReturn
<1>22. ASSUME NEW h \in Handlers, HandleLookup(h) PROVE Goal
  BY <1>22 DEF HandleLookup, HandlerAt, HandlerReturn
<1>23. ASSUME NEW h \in Handlers, HandleSend(h) PROVE Goal
  BY <1>23 DEF HandleSend, HandlerAt, HandlerReturn
<1>24. ASSUME NEW r \in Calls, SendRequest(r) \/ CallSteps(r) \/ ContextDone(r)
       PROVE  Goal
  <2>1. UNCHANGED <<state, rxVars, ownerVars, receiverVars, hpc>>
    BY <1>24, CallFrame
  <2>2. QED
    BY <2>1
<1>25. CASE UNCHANGED vars
  BY <1>25 DEF vars
<1>26. QED
  BY <1>1, <1>2, <1>3, <1>4, <1>5, <1>6, <1>7, <1>8, <1>9, <1>10, <1>11,
     <1>12, <1>13, <1>14, <1>15, <1>16, <1>17, <1>18, <1>19, <1>20, <1>21,
     <1>22, <1>23, <1>24, <1>25
  DEF Next, ConnectSteps, CloseSteps, EarlyReturn, Receiver, Handler

\* With one owner no handler holds a channel that Close is closing.
LEMMA PanicStep ==
    ASSUME SingleOwner, SerialInv, [Next]_vars
    PROVE  SendsOnOpen' /\ NoPanic'
<1> DEFINE Goal == SendsOnOpen' /\ NoPanic'
<1>a. /\ opc \in [Owners -> {"idle", "closing"} \cup Opening \cup Closing]
      /\ hpc \in [Handlers -> {"idle", "decode", "send"}]
      /\ hpkt \in [Handlers -> Responses \cup {None}]
      /\ hch \in [Handlers -> Calls \cup {None}]
      /\ pending \in [InvokeIDs -> Calls \cup {None}]
      /\ cid \in [Calls -> InvokeIDs]
  BY DEF SerialInv, PendingInv, TypeOK
<1>b. panicked \in BOOLEAN /\ crashed \in BOOLEAN
  BY DEF SerialInv, PendingInv, TypeOK
<1>c. PendingSound /\ ReceiverOwned /\ Drained /\ SendsOnOpen /\ NoPanic
  BY DEF SerialInv, PendingInv
<1> USE <1>a, <1>b, <1>c DEF PendingSound, SendsOnOpen, NoPanic
<1>1. UNCHANGED <<hpc, hch, closed, panicked, crashed>> => Goal
  OBVIOUS
<1>2. ASSUME NEW o \in Owners, ClosePending(o) PROVE Goal
  BY <1>2 DEF ClosePending, OwnerAt, Drained, HandlersGone, ReceiversGone,
     NoHandler
<1>3. ASSUME NEW o \in Owners, OwnerSteps(o) PROVE Goal
  BY <1>1, <1>2, <1>3, OwnerFrame
<1>4. ASSUME NEW g \in Gens, NEW h \in Handlers,
             NEW p \in Responses \cup {None}, ReceiverPacket(g, h, p)
      PROVE  Goal
  BY <1>4 DEF ReceiverPacket, ReceiverAt
<1>5. ASSUME NEW g \in Gens, ReceiverReturn(g), rpc[g] \in {"loop", "recv"}
      PROVE  Goal
  BY <1>5 DEF ReceiverReturn, ReceiverOwned
<1>6. ASSUME NEW g \in Gens, Receiver(g) PROVE Goal
  BY <1>1, <1>4, <1>5, <1>6, ReceiverFrame
<1>7. ASSUME NEW h \in Handlers, HandleOther(h) PROVE Goal
  BY <1>7 DEF HandleOther, HandlerAt, HandlerReturn
<1>8. ASSUME NEW h \in Handlers, HandleLookup(h) PROVE Goal
  <2> DEFINE ch == pending[cid[hpkt[h].call]]
  <2>1. hpkt[h].call \in Calls /\ cid[hpkt[h].call] \in InvokeIDs
    BY <1>8 DEF HandleLookup, Responses
  <2>2. ch # None => ch \in Calls \ closed
    BY <2>1
  <2>3. ASSUME NEW k \in Handlers, hpc'[k] = "send"
        PROVE  hch'[k] \in Calls \ closed'
    <3>1. CASE k = h
      BY <1>8, <2>2, <2>3, <3>1 DEF HandleLookup, HandlerReturn
    <3>2. CASE k # h
      BY <1>8, <2>3, <3>2 DEF HandleLookup, HandlerReturn
    <3>3. QED
      BY <3>1, <3>2
  <2>4. QED
    BY <1>8, <2>3 DEF HandleLookup
<1>9. ASSUME NEW h \in Handlers, HandleSend(h) PROVE Goal
  BY <1>9 DEF HandleSend, HandlerAt, HandlerReturn
<1>10. ASSUME NEW r \in Calls, SendRequest(r) \/ CallSteps(r) \/ ContextDone(r)
       PROVE  Goal
  BY <1>1, <1>10, CallFrame
<1>11. CASE UNCHANGED vars
  BY <1>1, <1>11 DEF vars
<1>12. QED
  BY <1>3, <1>6, <1>7, <1>8, <1>9, <1>10, <1>11 DEF Next, OwnerSteps, Handler

\* The inductive step for one owner.
LEMMA SerialStep ==
    ASSUME SingleOwner PROVE SerialInv /\ [Next]_vars => SerialInv'
<1> SUFFICES ASSUME SerialInv, [Next]_vars PROVE SerialInv'
  OBVIOUS
<1>1. PendingInv'
  BY PendingStep DEF SerialInv
<1>2. StateFollowsOwner'
  BY StateStep DEF SerialInv, PendingInv
<1>3. QED
  BY <1>1, <1>2, ReceiverStep, PanicStep DEF SerialInv

\* A new client satisfies the invariant for one owner.
LEMMA SerialInit == Init => SerialInv
<1> SUFFICES ASSUME Init PROVE SerialInv
  OBVIOUS
<1>1. PendingInv
  BY TypeInit DEF Init, PendingInv, PendingSound, ClosedWereRegistered
<1>2. StateFollowsOwner /\ SendsOnOpen /\ NoPanic
  BY DEF Init, StateFollowsOwner, SendsOnOpen, NoPanic, Opening, Closing
<1>3. ReceiverOwned /\ Drained
  BY DEF Init, ReceiverOwned, Drained, NoReceiver, NoHandler, Running, Gens
<1>4. QED
  BY <1>1, <1>2, <1>3 DEF SerialInv

\* As long as Connect and Close are not called concurrently, no handler sends
\* on a channel Close has closed and no channel is closed twice.
THEOREM NoPanicCorrect == ASSUME SingleOwner PROVE Spec => []NoPanic
<1>1. SerialInv => NoPanic
  BY DEF SerialInv
<1>2. QED
  BY <1>1, SerialInit, SerialStep, PTL DEF Spec

\* As long as Connect and Close are not called concurrently, a Close that has
\* returned leaves no receiver and no handler behind.
THEOREM QuietAfterCloseCorrect ==
    ASSUME SingleOwner PROVE Spec => []QuietAfterClose
<1>1. SerialInv => QuietAfterClose
  BY OwnersAssumption
  DEF SerialInv, Drained, ReceiversGone, HandlersGone, NoReceiver, NoHandler,
      QuietAfterClose
<1>2. QED
  BY <1>1, SerialInit, SerialStep, PTL DEF Spec

-----------------------------------------------------------------------------
(***************************************************************************)
(* Responses reach the call they answer, for any number of owners.         *)
(***************************************************************************)

\* A call that has drawn its invoke ID keeps it.
LEMMA DrawnStep ==
    ASSUME TypeOK, IDsMatch, [Next]_vars
    PROVE  /\ Drawn \subseteq Drawn'
           /\ \A r \in Drawn : cid'[r] = cid[r]
<1> DEFINE Goal == Drawn \subseteq Drawn' /\ \A r \in Drawn : cid'[r] = cid[r]
<1>1. UNCHANGED <<cpc, cid, result>> => Goal
  BY DEF Drawn
<1>2. ASSUME NEW o \in Owners, OwnerSteps(o) PROVE Goal
  BY <1>1, <1>2, OwnerFrame
<1>3. ASSUME NEW g \in Gens, Receiver(g) PROVE Goal
  BY <1>1, <1>3, ReceiverFrame
<1>4. ASSUME NEW h \in Handlers, Handler(h) PROVE Goal
  BY <1>1, <1>4, HandlerFrame
<1>a. /\ cpc \in [Calls -> {"idle", "returned"} \cup InFlight]
      /\ cid \in [Calls -> InvokeIDs]
      /\ result \in [Calls -> Results]
      /\ \A r \in Calls : result[r] = "ErrNotConnected" => cpc[r] = "returned"
  BY DEF TypeOK, IDsMatch, ErrorsReturned
<1> USE <1>a DEF Drawn, CallAt
<1>5. ASSUME NEW r \in Calls, SendRequest(r) PROVE Goal
  BY <1>5 DEF SendRequest
<1>6. ASSUME NEW r \in Calls, NextInvokeID(r) PROVE Goal
  BY <1>6 DEF NextInvokeID
<1>7. ASSUME NEW r \in Calls, Register(r) \/ Send(r) \/ Unregister(r)
      PROVE  Goal
  BY <1>7 DEF Register, Send, Unregister
<1>8. ASSUME NEW r \in Calls,
             \/ SendFails(r) \/ ContextDone(r)
             \/ TakeResponse(r) \/ ChannelClosed(r)
      PROVE  Goal
  BY <1>8 DEF SendFails, ContextDone, TakeResponse, ChannelClosed, CallReturns
<1>9. CASE UNCHANGED vars
  BY <1>1, <1>9 DEF vars
<1>10. QED
  BY <1>2, <1>3, <1>4, <1>5, <1>6, <1>7, <1>8, <1>9
  DEF Next, OwnerSteps, CallSteps

\* Handlers and channels carry a response only under its own invoke ID.
LEMMA MatchStep ==
    ASSUME PendingInv, IDsMatch, [Next]_vars
    PROVE  IDsMatch'
<1>a. Drawn \subseteq Drawn' /\ \A r \in Drawn : cid'[r] = cid[r]
  BY DrawnStep DEF PendingInv
<1>b. \A r, p : r \in Drawn /\ CarriesID(r, p) =>
                   r \in Drawn' /\ p.call \in Drawn' /\ cid'[p.call] = cid'[r]
  BY <1>a DEF CarriesID
<1>c. /\ hpc \in [Handlers -> {"idle", "decode", "send"}]
      /\ hpkt \in [Handlers -> Responses \cup {None}]
      /\ hch \in [Handlers -> Calls \cup {None}]
      /\ pending \in [InvokeIDs -> Calls \cup {None}]
      /\ cid \in [Calls -> InvokeIDs]
      /\ cpc \in [Calls -> {"idle", "returned"} \cup InFlight]
      /\ result \in [Calls -> Results]
      /\ buf \in [Calls -> Responses \cup {None}]
      /\ resp \in [Calls -> Responses \cup {None}]
  BY DEF PendingInv, TypeOK
<1>d. Drawn \subseteq Calls
  BY DEF Drawn
\* What an action leaves alone stays matched.
<1>1. UNCHANGED <<cpc, result>> => ErrorsReturned'
  BY DEF IDsMatch, ErrorsReturned
<1>2. UNCHANGED sent => (sent \subseteq Drawn)'
  BY <1>a DEF IDsMatch
<1>3. UNCHANGED pending => PendingDrawn'
  BY <1>a DEF IDsMatch, PendingDrawn
<1>4. UNCHANGED hpkt => PacketsDrawn'
  BY <1>a DEF IDsMatch, PacketsDrawn
<1>5. UNCHANGED handlerVars => HandlersCarry'
  <2> SUFFICES ASSUME UNCHANGED handlerVars,
                      NEW h \in Handlers, hpc[h] = "send"
               PROVE  /\ hpkt[h] # None
                      /\ hch[h] \in Drawn' /\ hpkt[h].call \in Drawn'
                      /\ cid'[hpkt[h].call] = cid'[hch[h]]
    BY DEF HandlersCarry, CarriesID
  <2>1. hpkt[h] # None /\ hch[h] \in Drawn /\ CarriesID(hch[h], hpkt[h])
    BY DEF IDsMatch, HandlersCarry
  <2>2. QED
    BY <1>b, <2>1
<1>6. UNCHANGED buf => BuffersCarry'
  BY <1>b DEF IDsMatch, BuffersCarry, CarriesID
<1>7. UNCHANGED resp => ResponsesCarry'
  BY <1>b DEF IDsMatch, ResponsesCarry, CarriesID
<1>8. ASSUME NEW h \in Handlers, HandlerReturn(h)
      PROVE  PacketsDrawn' /\ HandlersCarry'
  <2>1. PacketsDrawn'
    BY <1>a, <1>c, <1>8 DEF HandlerReturn, IDsMatch, PacketsDrawn
  <2>2. ASSUME NEW k \in Handlers, hpc'[k] = "send"
        PROVE  hpc[k] = "send" /\ hpkt'[k] = hpkt[k] /\ hch'[k] = hch[k]
    BY <1>c, <1>8, <2>2 DEF HandlerReturn
  <2>3. HandlersCarry'
    BY <1>b, <2>2 DEF IDsMatch, HandlersCarry, CarriesID
  <2>4. QED
    BY <2>1, <2>3
\* The actions.
<1>9. ASSUME NEW o \in Owners, OwnerSteps(o) PROVE IDsMatch'
  <2>1. UNCHANGED <<handlerVars, callVars, buf>>
    BY <1>9, OwnerFrame
  <2>2. ClosePending(o) => PendingDrawn'
    BY DEF ClosePending, PendingDrawn
  <2>3. PendingDrawn'
    BY <1>3, <1>9, <2>2, OwnerFrame
  <2>4. QED
    BY <1>1, <1>2, <1>4, <1>5, <1>6, <1>7, <2>1, <2>3 DEF IDsMatch
<1>10. ASSUME NEW g \in Gens, NEW h \in Handlers,
              NEW p \in Responses \cup {None}, ReceiverPacket(g, h, p)
       PROVE  PacketsDrawn' /\ HandlersCarry'
  <2>1. /\ hpc' = [hpc EXCEPT ![h] = "decode"]
        /\ hpkt' = [hpkt EXCEPT ![h] = p]
        /\ hch' = hch
        /\ p # None => p.call \in Drawn'
    BY <1>a, <1>10 DEF ReceiverPacket, IDsMatch
  <2>2. PacketsDrawn'
    BY <1>a, <1>c, <2>1 DEF IDsMatch, PacketsDrawn
  <2>3. ASSUME NEW k \in Handlers, hpc'[k] = "send"
        PROVE  hpc[k] = "send" /\ hpkt'[k] = hpkt[k]
    BY <1>c, <2>1, <2>3
  <2>4. HandlersCarry'
    BY <1>b, <2>1, <2>3 DEF IDsMatch, HandlersCarry, CarriesID
  <2>5. QED
    BY <2>2, <2>4
<1>11. ASSUME NEW g \in Gens, Receiver(g) PROVE IDsMatch'
  <2>1. UNCHANGED <<callVars, chanVars>>
    BY <1>11, ReceiverFrame
  <2>2. PacketsDrawn' /\ HandlersCarry'
    BY <1>4, <1>5, <1>10, <1>11, ReceiverFrame
  <2>3. QED
    BY <1>1, <1>2, <1>3, <1>6, <1>7, <2>1, <2>2 DEF IDsMatch
<1>12. ASSUME NEW h \in Handlers, HandleOther(h) PROVE IDsMatch'
  BY <1>1, <1>2, <1>3, <1>6, <1>7, <1>8, <1>12 DEF HandleOther, IDsMatch
<1>13. ASSUME NEW h \in Handlers, HandleLookup(h)
       PROVE  PacketsDrawn' /\ HandlersCarry'
  <2> DEFINE p == hpkt[h]
             ch == pending[cid[p.call]]
  <2>1. p \in Responses /\ p.call \in Drawn
    BY <1>c, <1>13 DEF HandleLookup, IDsMatch, PacketsDrawn
  <2>2. cid[p.call] \in InvokeIDs
    BY <1>c, <1>d, <2>1
  <2>3. CASE ch = None
    BY <1>8, <1>13, <2>3 DEF HandleLookup
  <2>4. CASE ch # None
    <3>1. /\ hpc' = [hpc EXCEPT ![h] = "send"]
          /\ hch' = [hch EXCEPT ![h] = ch]
          /\ hpkt' = hpkt
      BY <1>13, <2>4 DEF HandleLookup
    <3>2. ch \in Drawn /\ CarriesID(ch, p)
      BY <2>1, <2>2, <2>4
      DEF IDsMatch, PendingDrawn, PendingInv, PendingSound, CarriesID
    <3>3. ASSUME NEW k \in Handlers, hpc'[k] = "send"
          PROVE  /\ hpkt[k] # None
                 /\ hch'[k] \in Drawn /\ CarriesID(hch'[k], hpkt[k])
      <4>1. CASE k = h
        <5>1. hch'[k] = ch /\ hpkt[k] = p /\ p # None
          BY <1>c, <1>13, <3>1, <4>1 DEF HandleLookup
        <5>2. QED
          BY <3>2, <5>1
      <4>2. CASE k # h
        <5>1. hch'[k] = hch[k] /\ hpc[k] = "send"
          BY <1>c, <3>1, <3>3, <4>2
        <5>2. QED
          BY <5>1 DEF IDsMatch, HandlersCarry
      <4>3. QED
        BY <4>1, <4>2
    <3>4. HandlersCarry'
      BY <1>b, <3>1, <3>3 DEF HandlersCarry, CarriesID
    <3>5. QED
      BY <1>4, <3>1, <3>4
  <2>5. QED
    BY <2>3, <2>4
<1>14. ASSUME NEW h \in Handlers, HandleLookup(h) PROVE IDsMatch'
  BY <1>1, <1>2, <1>3, <1>6, <1>7, <1>13, <1>14 DEF HandleLookup, IDsMatch
<1>15. ASSUME NEW h \in Handlers, HandleSend(h) PROVE IDsMatch'
  <2>1. HandlerReturn(h) /\ UNCHANGED <<cpc, result, sent, pending, resp>>
    BY <1>15 DEF HandleSend
  <2>2. hch[h] \in Drawn /\ CarriesID(hch[h], hpkt[h])
    BY <1>15 DEF HandleSend, HandlerAt, IDsMatch, HandlersCarry
  <2>3. buf' = buf \/ buf' = [buf EXCEPT ![hch[h]] = hpkt[h]]
    BY <1>15 DEF HandleSend
  <2>4. ASSUME NEW r \in Calls, buf'[r] # None
        PROVE  r \in Drawn /\ CarriesID(r, buf'[r])
    <3>1. CASE r = hch[h] /\ buf' # buf
      <4>1. buf'[r] = hpkt[h]
        BY <1>c, <2>3, <3>1
      <4>2. QED
        BY <2>2, <3>1, <4>1
    <3>2. CASE r # hch[h] \/ buf' = buf
      <4>1. buf'[r] = buf[r]
        BY <1>c, <2>3, <3>2
      <4>2. QED
        BY <2>4, <4>1 DEF IDsMatch, BuffersCarry
    <3>3. QED
      BY <3>1, <3>2
  <2>5. BuffersCarry'
    BY <1>b, <2>4 DEF BuffersCarry, CarriesID
  <2>6. QED
    BY <1>1, <1>2, <1>3, <1>7, <1>8, <2>1, <2>5 DEF IDsMatch
<1>16. ASSUME NEW r \in Calls, SendRequest(r) PROVE IDsMatch'
  <2>1. UNCHANGED <<handlerVars, sent, pending, buf, resp>>
    BY <1>16 DEF SendRequest
  <2>2. ErrorsReturned'
    BY <1>c, <1>16 DEF SendRequest, CallAt, IDsMatch, ErrorsReturned
  <2>3. QED
    BY <1>2, <1>3, <1>4, <1>5, <1>6, <1>7, <2>1, <2>2 DEF IDsMatch
<1>17. ASSUME NEW r \in Calls, NextInvokeID(r) PROVE IDsMatch'
  <2>1. UNCHANGED <<handlerVars, sent, pending, buf, resp>>
    BY <1>17 DEF NextInvokeID
  <2>2. ErrorsReturned'
    BY <1>c, <1>17 DEF NextInvokeID, CallAt, IDsMatch, ErrorsReturned
  <2>3. QED
    BY <1>2, <1>3, <1>4, <1>5, <1>6, <1>7, <2>1, <2>2 DEF IDsMatch
<1>18. ASSUME NEW r \in Calls, Register(r) PROVE IDsMatch'
  <2>1. UNCHANGED <<handlerVars, sent, buf, resp>>
    BY <1>18 DEF Register
  <2>2. r \in Drawn /\ ErrorsReturned'
    BY <1>c, <1>18 DEF Register, CallAt, IDsMatch, ErrorsReturned, Drawn
  <2>3. PendingDrawn'
    BY <1>a, <1>c, <1>18, <2>2 DEF Register, IDsMatch, PendingDrawn
  <2>4. QED
    BY <1>2, <1>4, <1>5, <1>6, <1>7, <2>1, <2>2, <2>3 DEF IDsMatch
<1>19. ASSUME NEW r \in Calls, Send(r) PROVE IDsMatch'
  <2>1. UNCHANGED <<handlerVars, pending, buf, resp>> /\ sent' = sent \cup {r}
    BY <1>19 DEF Send
  <2>2. r \in Drawn /\ ErrorsReturned'
    BY <1>c, <1>19 DEF Send, CallAt, IDsMatch, ErrorsReturned, Drawn
  <2>3. QED
    BY <1>a, <1>3, <1>4, <1>5, <1>6, <1>7, <2>1, <2>2 DEF IDsMatch
<1>20. ASSUME NEW r \in Calls,
              SendFails(r) \/ ContextDone(r) \/ ChannelClosed(r)
       PROVE  IDsMatch'
  <2>1. UNCHANGED <<handlerVars, sent, pending, buf, resp>>
    BY <1>20 DEF SendFails, ContextDone, ChannelClosed
  <2>2. ErrorsReturned'
    BY <1>c, <1>20 DEF SendFails, ContextDone, ChannelClosed, CallReturns,
       CallAt, IDsMatch, ErrorsReturned
  <2>3. QED
    BY <1>2, <1>3, <1>4, <1>5, <1>6, <1>7, <2>1, <2>2 DEF IDsMatch
<1>21. ASSUME NEW r \in Calls, TakeResponse(r) PROVE IDsMatch'
  <2>1. UNCHANGED <<handlerVars, sent, pending>>
    BY <1>21 DEF TakeResponse
  <2>2. ErrorsReturned'
    BY <1>c, <1>21
    DEF TakeResponse, CallReturns, CallAt, IDsMatch, ErrorsReturned
  <2>3. buf[r] # None /\ r \in Drawn /\ CarriesID(r, buf[r])
    BY <1>21 DEF TakeResponse, IDsMatch, BuffersCarry
  <2>4. BuffersCarry'
    BY <1>b, <1>c, <1>21 DEF TakeResponse, IDsMatch, BuffersCarry, CarriesID
  <2>5. ResponsesCarry'
    BY <1>b, <1>c, <1>21, <2>3
    DEF TakeResponse, IDsMatch, ResponsesCarry, CarriesID
  <2>6. QED
    BY <1>2, <1>3, <1>4, <1>5, <2>1, <2>2, <2>4, <2>5 DEF IDsMatch
<1>22. ASSUME NEW r \in Calls, Unregister(r) PROVE IDsMatch'
  <2>1. UNCHANGED <<handlerVars, sent, buf, resp>>
    BY <1>22 DEF Unregister
  <2>2. ErrorsReturned'
    BY <1>c, <1>22 DEF Unregister, CallAt, IDsMatch, ErrorsReturned
  <2>3. PendingDrawn'
    BY <1>a, <1>c, <1>22 DEF Unregister, IDsMatch, PendingDrawn
  <2>4. QED
    BY <1>2, <1>4, <1>5, <1>6, <1>7, <2>1, <2>2, <2>3 DEF IDsMatch
<1>23. CASE UNCHANGED vars
  BY <1>1, <1>2, <1>3, <1>4, <1>5, <1>6, <1>7, <1>23 DEF vars, IDsMatch
<1>24. QED
  BY <1>9, <1>11, <1>12, <1>14, <1>15, <1>16, <1>17, <1>18, <1>19, <1>20,
     <1>21, <1>22, <1>23
  DEF Next, OwnerSteps, Handler, CallSteps

\* The first IDs draws yield different IDs.
LEMMA ModDistinct ==
    ASSUME NEW j \in 1..IDs, NEW k \in 1..IDs, j % IDs = k % IDs
    PROVE  j = k
<1>1. \A n \in 1..IDs : n % IDs = IF n = IDs THEN 0 ELSE n
  OBVIOUS
<1>2. QED
  BY <1>1

\* Until they wrap, no two calls draw the same invoke ID.
LEMMA ReuseStep ==
    ASSUME TypeOK, IDsMatch, NoReuse, [Next]_vars
    PROVE  NoReuse'
<1> DEFINE Same == Drawn' = Drawn /\ UNCHANGED <<invokeID, cid>>
<1>1. Same => NoReuse'
  BY DEF NoReuse
<1>a. /\ invokeID \in Nat
      /\ cpc \in [Calls -> {"idle", "returned"} \cup InFlight]
      /\ cid \in [Calls -> InvokeIDs]
      /\ result \in [Calls -> Results]
      /\ \A r \in Calls : result[r] = "ErrNotConnected" => cpc[r] = "returned"
  BY DEF TypeOK, IDsMatch, ErrorsReturned
<1>2. UNCHANGED <<invokeID, cid, cpc, result>> => Same
  BY DEF Drawn
<1>3. ASSUME NEW o \in Owners, OwnerSteps(o) PROVE Same
  BY <1>2, <1>3, OwnerFrame
<1>4. ASSUME NEW g \in Gens, Receiver(g) PROVE Same
  BY <1>2, <1>4, ReceiverFrame
<1>5. ASSUME NEW h \in Handlers, Handler(h) PROVE Same
  BY <1>2, <1>5, HandlerFrame
<1>6. ASSUME NEW r \in Calls, SendRequest(r) PROVE Same
  BY <1>a, <1>6 DEF SendRequest, CallAt, Drawn
<1>7. ASSUME NEW r \in Calls, Register(r) \/ Send(r) \/ Unregister(r)
      PROVE  Same
  BY <1>a, <1>7 DEF Register, Send, Unregister, CallAt, Drawn
<1>8. ASSUME NEW r \in Calls,
             \/ SendFails(r) \/ ContextDone(r)
             \/ TakeResponse(r) \/ ChannelClosed(r)
      PROVE  Same
  BY <1>a, <1>8 DEF SendFails, ContextDone, TakeResponse, ChannelClosed,
     CallReturns, CallAt, Drawn
<1>9. ASSUME NEW r \in Calls, NextInvokeID(r) PROVE NoReuse'
  <2>1. /\ Drawn' = Drawn \cup {r}
        /\ r \notin Drawn
        /\ invokeID' = invokeID + 1
        /\ cid' = [cid EXCEPT ![r] = (invokeID + 1) % IDs]
    BY <1>a, <1>9 DEF Drawn, NextInvokeID, CallAt
  <2> SUFFICES ASSUME invokeID + 1 <= IDs
               PROVE  NoReuse'
    BY <2>1 DEF NoReuse
  <2>2. invokeID \in Nat /\ invokeID <= IDs
    BY <1>a
  <2>3. \A s \in Drawn : s # r /\ cid'[s] = cid[s]
    BY <1>a, <2>1 DEF Drawn
  <2>4. cid'[r] = (invokeID + 1) % IDs
    BY <1>a, <2>1
  <2>5. ASSUME NEW s \in Drawn
        PROVE  \E k \in 1..invokeID : cid[s] = k % IDs
    BY <2>2 DEF NoReuse
  <2>6. ASSUME NEW s \in Drawn'
        PROVE  \E k \in 1..(invokeID + 1) : cid'[s] = k % IDs
    <3>1. CASE s = r
      <4>1. invokeID + 1 \in 1..(invokeID + 1)
        BY <2>2
      <4>2. QED
        BY <3>1, <4>1, <2>4
    <3>2. CASE s \in Drawn
      <4>1. PICK k \in 1..invokeID : cid[s] = k % IDs
        BY <3>2, <2>5
      <4>2. k \in 1..(invokeID + 1)
        BY <2>2
      <4>3. QED
        BY <4>1, <4>2, <3>2, <2>3
    <3>3. QED
      BY <2>1, <3>1, <3>2
  <2>7. ASSUME NEW s \in Drawn
        PROVE  cid[s] # (invokeID + 1) % IDs
    <3>1. PICK k \in 1..invokeID : cid[s] = k % IDs
      BY <2>5
    <3>2. k \in 1..IDs /\ invokeID + 1 \in 1..IDs /\ k # invokeID + 1
      BY <2>2
    <3>3. QED
      BY <3>1, <3>2, ModDistinct
  <2>8. \A s, t \in Drawn' : cid'[s] = cid'[t] => s = t
    BY <2>1, <2>2, <2>3, <2>4, <2>7 DEF NoReuse
  <2>9. QED
    BY <2>1, <2>6, <2>8 DEF NoReuse
<1>10. CASE UNCHANGED vars
  BY <1>2, <1>1, <1>10 DEF vars, callVars
<1>11. QED
  BY <1>1, <1>3, <1>4, <1>5, <1>6, <1>7, <1>8, <1>9, <1>10
  DEF Next, OwnerSteps, CallSteps

\* The initial state satisfies the invariant about responses.
LEMMA ResponseInit == Init => IDsMatch /\ NoReuse
<1> SUFFICES ASSUME Init PROVE IDsMatch /\ NoReuse
  OBVIOUS
<1>1. Drawn = {}
  BY DEF Init, Drawn
<1>2. ErrorsReturned /\ sent = {} /\ PendingDrawn
  BY DEF Init, ErrorsReturned, PendingDrawn
<1>3. PacketsDrawn /\ HandlersCarry
  BY DEF Init, PacketsDrawn, HandlersCarry
<1>4. BuffersCarry /\ ResponsesCarry
  BY DEF Init, BuffersCarry, ResponsesCarry
<1>5. QED
  BY <1>1, <1>2, <1>3, <1>4 DEF IDsMatch, NoReuse

\* Until the invoke IDs wrap, a response that sendRequest returns answers the
\* request of that very call: the counter hands out an ID once, and the pending
\* map, the handlers and the channels keep a response with its ID. The owners
\* may call Connect and Close as they like.
THEOREM OwnResponseCorrect == Spec => []OwnResponse
<1>1. Init => ResponseInv
  BY TypeInit, ResponseInit
  DEF ResponseInv, PendingInv, Init, PendingSound, ClosedWereRegistered
<1>2. ResponseInv /\ [Next]_vars => ResponseInv'
  BY PendingStep, MatchStep, ReuseStep DEF ResponseInv, PendingInv
<1>3. ResponseInv => OwnResponse
  <2> SUFFICES ASSUME ResponseInv, invokeID <= IDs,
                      NEW r \in Calls, resp[r] # None
               PROVE  resp[r].call = r
    BY DEF OwnResponse
  <2>1. r \in Drawn /\ CarriesID(r, resp[r])
    BY DEF ResponseInv, IDsMatch, ResponsesCarry
  <2>2. QED
    BY <2>1 DEF ResponseInv, NoReuse, CarriesID
<1>4. QED
  BY <1>1, <1>2, <1>3, PTL DEF Spec

-----------------------------------------------------------------------------
(***************************************************************************)
(* What the refinement needs beyond ResponseInv.                           *)
(***************************************************************************)

\* A request is sent when its call begins to wait, and not again.
SentWhenWaiting ==
    \A r \in Calls :
        /\ cpc[r] = "waiting" => r \in sent
        /\ r \in sent => cpc[r] \in {"waiting", "returning", "returned"}

\* Whatever a handler or a channel holds answers a request that was sent.
AnswersSent ==
    /\ \A h \in Handlers : hpkt[h] # None => hpkt[h].call \in sent
    /\ \A r \in Calls : buf[r] # None => buf[r].call \in sent

ContractInv == ResponseInv /\ SentWhenWaiting /\ AnswersSent

USE NoneAssumption, IDsAssumption, MaxConnectsAssumption
USE DEF rxVars, ownerVars, receiverVars, handlerVars, callVars, chanVars

\* Every step sends a request at most once, as its call begins to wait.
LEMMA SentStep ==
    ASSUME TypeOK, SentWhenWaiting, [Next]_vars
    PROVE  SentWhenWaiting' /\ sent \subseteq sent'
<1> DEFINE Goal == SentWhenWaiting' /\ sent \subseteq sent'
<1>1. UNCHANGED <<cpc, sent>> => Goal
  BY DEF SentWhenWaiting
<1>2. ASSUME NEW o \in Owners, OwnerSteps(o) PROVE Goal
  BY <1>1, <1>2, OwnerFrame
<1>3. ASSUME NEW g \in Gens, Receiver(g) PROVE Goal
  BY <1>1, <1>3, ReceiverFrame
<1>4. ASSUME NEW h \in Handlers, Handler(h) PROVE Goal
  BY <1>1, <1>4, HandlerFrame
<1>a. cpc \in [Calls -> {"idle", "returned"} \cup InFlight] /\ sent \subseteq Calls
  BY DEF TypeOK
<1> USE <1>a DEF SentWhenWaiting, CallAt, InFlight
<1>5. ASSUME NEW r \in Calls, SendRequest(r) \/ NextInvokeID(r) \/ Register(r)
      PROVE  Goal
  BY <1>5 DEF SendRequest, NextInvokeID, Register
<1>6. ASSUME NEW r \in Calls, Send(r) PROVE Goal
  BY <1>6 DEF Send
<1>7. ASSUME NEW r \in Calls,
             \/ SendFails(r) \/ ContextDone(r)
             \/ TakeResponse(r) \/ ChannelClosed(r)
      PROVE  Goal
  BY <1>7 DEF SendFails, ContextDone, TakeResponse, ChannelClosed, CallReturns
<1>8. ASSUME NEW r \in Calls, Unregister(r) PROVE Goal
  BY <1>8 DEF Unregister
<1>9. CASE UNCHANGED vars
  BY <1>1, <1>9 DEF vars
<1>10. QED
  BY <1>2, <1>3, <1>4, <1>5, <1>6, <1>7, <1>8, <1>9
  DEF Next, OwnerSteps, CallSteps

\* Every step leaves only answers to requests that were sent.
LEMMA AnswersStep ==
    ASSUME TypeOK, SentWhenWaiting, AnswersSent, [Next]_vars
    PROVE  AnswersSent'
<1>1. sent \subseteq sent'
  BY SentStep
<1>2. UNCHANGED <<hpkt, buf>> => AnswersSent'
  BY <1>1 DEF AnswersSent
<1>3. ASSUME NEW o \in Owners, OwnerSteps(o) PROVE AnswersSent'
  BY <1>2, <1>3, OwnerFrame
<1>a. /\ hpkt \in [Handlers -> Responses \cup {None}]
      /\ hch \in [Handlers -> Calls \cup {None}]
      /\ buf \in [Calls -> Responses \cup {None}]
  BY DEF TypeOK
<1>4. ASSUME NEW g \in Gens, Receiver(g) PROVE AnswersSent'
  <2>1. ASSUME NEW h \in Handlers, NEW p \in Responses \cup {None},
               ReceiverPacket(g, h, p)
        PROVE  AnswersSent'
    BY <1>a, <2>1 DEF ReceiverPacket, AnswersSent
  <2>2. QED
    BY <1>2, <1>4, <2>1, ReceiverFrame
<1>5. ASSUME NEW h \in Handlers, HandleOther(h) \/ HandleLookup(h)
      PROVE  AnswersSent'
  BY <1>a, <1>5 DEF HandleOther, HandleLookup, HandlerReturn, AnswersSent
<1>6. ASSUME NEW h \in Handlers, HandleSend(h) PROVE AnswersSent'
  BY <1>a, <1>6 DEF HandleSend, HandlerReturn, AnswersSent
<1>7. ASSUME NEW r \in Calls, TakeResponse(r) PROVE AnswersSent'
  BY <1>a, <1>7 DEF TakeResponse, CallReturns, AnswersSent
<1>8. ASSUME NEW r \in Calls,
             \/ SendRequest(r) \/ NextInvokeID(r) \/ Register(r) \/ Send(r)
             \/ SendFails(r) \/ ContextDone(r) \/ ChannelClosed(r)
             \/ Unregister(r)
      PROVE  AnswersSent'
  BY <1>2, <1>8 DEF SendRequest, NextInvokeID, Register, Send, SendFails,
     ContextDone, ChannelClosed, Unregister
<1>9. CASE UNCHANGED vars
  BY <1>2, <1>9 DEF vars
<1>10. QED
  BY <1>3, <1>4, <1>5, <1>6, <1>7, <1>8, <1>9
  DEF Next, OwnerSteps, CallSteps, Handler

-----------------------------------------------------------------------------
(***************************************************************************)
(* The refinement.                                                         *)
(***************************************************************************)

\* A step that moves no call, sends nothing and closes no channel is a
\* stuttering step of the contract.
LEMMA ContractStutter ==
    ASSUME UNCHANGED <<cpc, sent, closed, invokeID, result, resp>>
    PROVE  UNCHANGED Contract!vars
BY DEF Contract!vars, Phase

\* Every step of the client is a step of the contract, or none.
LEMMA ContractStep ==
    ASSUME ContractInv, [Next]_vars
    PROVE  [Contract!Next]_(Contract!vars)
<1> DEFINE Goal == [Contract!Next]_(Contract!vars)
<1>a. /\ cpc \in [Calls -> {"idle", "returned"} \cup InFlight]
      /\ sent \subseteq Calls /\ closed \subseteq Calls
      /\ result \in [Calls -> Results]
      /\ resp \in [Calls -> Responses \cup {None}]
      /\ buf \in [Calls -> Responses \cup {None}]
      /\ pending \in [InvokeIDs -> Calls \cup {None}]
      /\ invokeID \in Nat
  BY DEF ContractInv, ResponseInv, PendingInv, TypeOK
<1>b. SentWhenWaiting /\ PendingSound
  BY DEF ContractInv, ResponseInv, PendingInv
<1>1. ASSUME NEW o \in Owners, ClosePending(o) PROVE Goal
  <2> DEFINE S == {pending[i] : i \in InvokeIDs} \ {None}
  <2>1. S \in SUBSET Calls
    BY <1>a
  <2>2. ASSUME NEW c \in S PROVE Phase[c] # "idle" /\ c \notin closed
    BY <1>a, <1>b, <2>2 DEF PendingSound, Phase
  <2>3. UNCHANGED <<Phase, sent, invokeID, result, resp>>
    BY <1>1 DEF ClosePending, Phase
  <2>4. closed' = closed \cup S
    BY <1>1 DEF ClosePending
  <2>5. Contract!HangUp(S)
    BY <2>2, <2>3, <2>4 DEF Contract!HangUp
  <2>6. QED
    BY <2>1, <2>5 DEF Contract!Next
<1>2. ASSUME NEW o \in Owners, OwnerSteps(o) PROVE Goal
  <2>1. ClosePending(o) \/ UNCHANGED <<cpc, sent, closed, invokeID, result, resp>>
    BY <1>2, OwnerFrame
  <2>2. QED
    BY <1>1, <2>1, ContractStutter
<1>3. ASSUME NEW g \in Gens, Receiver(g) PROVE Goal
  BY <1>3, ReceiverFrame, ContractStutter
<1>4. ASSUME NEW h \in Handlers, Handler(h) PROVE Goal
  BY <1>4, HandlerFrame, ContractStutter
<1>5. ASSUME NEW r \in Calls, SendRequest(r) PROVE Goal
  <2>1. /\ cpc[r] = "idle"
        /\ UNCHANGED <<sent, closed, invokeID, resp>>
    BY <1>5 DEF SendRequest, CallAt
  <2>2. CASE state = "Connected"
    <3>1. Phase' = [Phase EXCEPT ![r] = "open"] /\ result' = result
      BY <1>5, <1>a, <2>2 DEF SendRequest, Phase
    <3>2. Contract!Open(r)
      BY <2>1, <3>1 DEF Contract!Open, Phase
    <3>3. QED
      BY <3>2 DEF Contract!Next
  <2>3. CASE state # "Connected"
    <3>1. /\ Phase' = [Phase EXCEPT ![r] = "returned"]
          /\ result' = [result EXCEPT ![r] = "ErrNotConnected"]
      BY <1>5, <1>a, <2>3 DEF SendRequest, Phase
    <3>2. Contract!Refuse(r)
      BY <2>1, <3>1 DEF Contract!Refuse, Contract!Return, Phase
    <3>3. QED
      BY <3>2 DEF Contract!Next
  <2>4. QED
    BY <2>2, <2>3
<1>6. ASSUME NEW r \in Calls, NextInvokeID(r) PROVE Goal
  <2>1. UNCHANGED <<Phase, sent, closed, result, resp>> /\ invokeID' = invokeID + 1
    BY <1>6, <1>a DEF NextInvokeID, CallAt, Phase
  <2>2. CASE invokeID + 1 <= IDs
    <3>1. (invokeID <= IDs)' = (invokeID <= IDs)
      BY <1>a, <2>1, <2>2
    <3>2. QED
      BY <2>1, <3>1 DEF Contract!vars
  <2>3. CASE ~(invokeID + 1 <= IDs)
    <3>1. (invokeID <= IDs)' = FALSE
      BY <1>a, <2>1, <2>3
    <3>2. QED
      BY <2>1, <3>1 DEF Contract!Next, Contract!Age
  <2>4. QED
    BY <2>2, <2>3
<1>7. ASSUME NEW r \in Calls, Register(r) \/ Unregister(r) PROVE Goal
  <2>1. UNCHANGED <<Phase, sent, closed, invokeID, result, resp>>
    BY <1>7, <1>a DEF Register, Unregister, CallAt, Phase
  <2>2. QED
    BY <2>1 DEF Contract!vars
<1>8. ASSUME NEW r \in Calls, Send(r) PROVE Goal
  <2>1. /\ cpc[r] = "registered" /\ r \notin sent /\ sent' = sent \cup {r}
        /\ UNCHANGED <<Phase, closed, invokeID, result, resp>>
    BY <1>8, <1>a, <1>b DEF Send, CallAt, Phase, SentWhenWaiting
  <2>2. Contract!Ask(r)
    BY <2>1 DEF Contract!Ask, Phase
  <2>3. QED
    BY <2>2 DEF Contract!Next
<1>9. ASSUME NEW r \in Calls, NEW res, CallReturns(r, res),
             cpc[r] \in {"registered", "waiting"},
             UNCHANGED <<sent, closed, invokeID>>
      PROVE  Contract!Return(r, "open", res)
  <2>1. Phase' = [Phase EXCEPT ![r] = "returned"] /\ Phase[r] = "open"
    BY <1>9, <1>a DEF CallReturns, Phase
  <2>2. QED
    BY <1>9, <2>1 DEF CallReturns, Contract!Return
<1>10. ASSUME NEW r \in Calls, SendFails(r) PROVE Goal
  <2>1. r \notin sent /\ resp' = resp /\ Contract!Return(r, "open", "SendError")
    BY <1>9, <1>10, <1>b DEF SendFails, CallAt, SentWhenWaiting
  <2>2. QED
    BY <2>1 DEF Contract!Next, Contract!SendFails
<1>11. ASSUME NEW r \in Calls, ContextDone(r) PROVE Goal
  <2>1. r \in sent /\ resp' = resp /\ Contract!Return(r, "open", "ErrTimeout")
    BY <1>9, <1>11, <1>b DEF ContextDone, CallAt, SentWhenWaiting
  <2>2. QED
    BY <2>1 DEF Contract!Next, Contract!GiveUp
<1>12. ASSUME NEW r \in Calls, ChannelClosed(r) PROVE Goal
  <2>1. /\ r \in sent /\ r \in closed /\ resp' = resp
        /\ Contract!Return(r, "open", "ErrConnectionClosed")
    BY <1>9, <1>12, <1>b DEF ChannelClosed, CallAt, SentWhenWaiting
  <2>2. QED
    BY <2>1 DEF Contract!Next, Contract!Closed
<1>13. ASSUME NEW r \in Calls, TakeResponse(r) PROVE Goal
  <2> DEFINE res == IF buf[r].type = "Ack" THEN "Succeeded" ELSE "Failed"
  <2>1. /\ cpc[r] = "waiting" /\ buf[r] # None /\ CallReturns(r, res)
        /\ resp' = [resp EXCEPT ![r] = buf[r]]
        /\ UNCHANGED <<sent, closed, invokeID>>
    BY <1>13 DEF TakeResponse, CallAt
  <2>2. Contract!Return(r, "open", res)
    BY <1>9, <2>1
  <2>3. r \in sent /\ buf[r].call \in sent
    BY <1>b, <2>1 DEF SentWhenWaiting, ContractInv, AnswersSent
  <2>4. invokeID <= IDs => buf[r].call = r
    <3>1. r \in Drawn /\ CarriesID(r, buf[r])
      BY <2>1 DEF ContractInv, ResponseInv, IDsMatch, BuffersCarry
    <3>2. QED
      BY <3>1 DEF ContractInv, ResponseInv, NoReuse, CarriesID
  <2>5. buf[r] \in Contract!Answers
    BY <1>a, <2>1 DEF Responses, ResponseTypes, Contract!Answers
  <2>6. Contract!Answer(r, buf[r])
    BY <2>1, <2>2, <2>3, <2>4 DEF Contract!Answer
  <2>7. QED
    BY <2>5, <2>6 DEF Contract!Next
<1>14. CASE UNCHANGED vars
  BY <1>14, ContractStutter DEF vars
<1>15. QED
  BY <1>2, <1>3, <1>4, <1>5, <1>6, <1>7, <1>8, <1>10, <1>11, <1>12, <1>13,
     <1>14
  DEF Next, OwnerSteps, CallSteps

\* Client implements RequestContract: whatever the owners, the receivers, the
\* handlers and the other calls do, sendRequest gives each call one outcome,
\* an answer only to a request that was sent and, until the invoke IDs repeat,
\* only to the call's own, and ErrConnectionClosed only after Close closed the
\* call's channel, which it does at most once.
THEOREM ContractKept == Spec => KeepsContract
<1>1. Init => ContractInv
  <2>1. Init => TypeOK
    BY TypeInit
  <2>2. Init => IDsMatch /\ NoReuse
    BY ResponseInit DEF ResponseInv
  <2>3. Init => PendingSound /\ ClosedWereRegistered
    BY SMTT(30) DEF Init, PendingSound, ClosedWereRegistered
  <2>4. Init => SentWhenWaiting /\ AnswersSent
    BY SMTT(30) DEF Init, SentWhenWaiting, AnswersSent
  <2>5. QED
    BY <2>1, <2>2, <2>3, <2>4 DEF ContractInv, ResponseInv, PendingInv
<1>2. ContractInv /\ [Next]_vars => ContractInv'
  BY PendingStep, MatchStep, ReuseStep, SentStep, AnswersStep
  DEF ContractInv, ResponseInv, PendingInv
<1>3. Init => Contract!Init
  BY DEF Init, Contract!Init, Phase
<1>4. ContractInv /\ [Next]_vars => [Contract!Next]_(Contract!vars)
  BY ContractStep
<1>5. QED
  BY <1>1, <1>2, <1>3, <1>4, PTL DEF Spec, KeepsContract, Contract!Spec

=============================================================================
