# bacnet-go in TLA+

A verification project for the BACnet/IP client in this repository. TLA+ modules
model the client's goroutines and shared state, TLC checks them on small
instances, and TLAPS proves the main safety properties for every instance.

## The system

A `Client` (`client.go`) talks to BACnet devices over one UDP socket
(`internal/transport/udp.go`). Applications share one client between
goroutines.

| Part | State | Operations |
| --- | --- | --- |
| Lifecycle | `state`, `receiverCtx`, `receiverCancel`, `receiverDone`, `handlePacketWG` | `NewClient`, `Connect`, `Close`, `State` |
| Receiver and handlers | one receive loop per connection, one goroutine per datagram | `receiver`, `handlePacket`, `handleUnconfirmedRequest` |
| Confirmed requests | `invokeID`, `pending`, one response channel per call | `sendRequest`, `nextInvokeID`, `handleResponse`, `decodeError` |
| Unconfirmed requests | none of its own | `sendUnconfirmedRequest`, `registerForeignDevice` |
| Transport | `conn`, `closed`, deadlines | `Open`, `Close`, `Send`, `Broadcast`, `Receive` |
| Discovery | `devices` | `WhoIs`, `handleIAm`, `RegisterDevice`, `GetDevice`, `resolveDevice` |
| Property services | none of their own | `ReadProperty`, `WriteProperty`, `ReadPropertyMultiple`, `GetObjectList`, decoders |
| COV | `covSubs` | `SubscribeCOV`, `UnsubscribeCOV`, `handleCOVNotification` |
| Metrics | counters, gauges, histogram | `Inc`, `Dec`, `Record`, `Reset`, `Snapshot` |
| Wire encoding | none | `protocol.go`, `bitstring.go`, `datetime.go` |

How they interact: every confirmed service resolves its device through the
device cache, then runs one `sendRequest`. `sendRequest` draws an 8-bit invoke
ID, puts its channel in `pending`, sends, and waits for the channel or its
context. The receiver spawns a handler for each datagram; the handler either
looks up `pending` and sends the response on the channel found, or writes the
device cache. `Close` stops the receiver, waits for the handlers, closes every
pending channel and then the socket, while calls go on.

What is hard here:

- a handler releases `pendingMu` between finding a channel and sending on it,
  while `Close` closes channels;
- invoke IDs wrap, so calls can share an entry of `pending`, and the deferred
  delete removes the entry whoever owns it;
- datagrams are lost, delayed, duplicated and reordered, so answers arrive
  for calls that have returned;
- a call passes its state check long before it registers;
- `Connect` and `Close` write plain fields without a lock;
- `resolveDevice` looks up the cache, sleeps, and looks it up again while
  handlers and the application write it;
- decoders follow length fields through bytes that may end anywhere;
- subscription identifiers share the counter of the invoke IDs, and a request
  given up may still reach the device;
- `Reset` and `Snapshot` go through the metrics one field at a time.

## Modules

| Module | Models |
| --- | --- |
| `Client` | lifecycle, receiver, handlers, confirmed requests, and the transport as far as they use it |
| `RequestContract` | what `sendRequest` promises its callers, without IDs, channels or goroutines |
| `ClientContract` | the refinement mapping from `Client` to `RequestContract` |
| `Discovery` | the device cache and everything that reads or writes it |
| `Wire` | tags, integers and object identifiers on the wire, and the steps the response decoders share |
| `Frames` | BVLC, NPDU and APDU headers, `handlePacket`'s choice of a handler, the decoding of I-Am |
| `Scalars` | property values: texts, bit strings, dates, times, `encodePropertyValue`, `decodePropertyValue` |
| `Codec` | a peer that encodes tags, values and texts, a network that may cut them, and the decoders |
| `Delivery` | a datagram on its way through routers and a BBMD to the handlers |
| `PropertyService` | `ReadProperty` and `WriteProperty` against a device, and the error predicates |
| `ReadMultiple` | `ReadPropertyMultiple` and its decoder, one loop iteration at a time |
| `ObjectList` | `GetObjectList` against a list that changes while it is read |
| `Cov` | `SubscribeCOV`, `UnsubscribeCOV`, the device and the network |
| `Metrics` | the counters, gauge and histogram of a request, `Reset` and `Snapshot` |
| `MC...` | symmetry sets and sample values for the TLC runs of a module; `MCWire` puts `Codec` beside `Delivery`, and `MCReads` puts `ReadMultiple` beside `ObjectList`, for one run each |
| `...Proofs` | theorems with their proofs: `ClientProofs`, `DiscoveryProofs`, `CovProofs`, `WireProofs`, `CodecProofs`, `DeliveryProofs`, `PropertyProofs`, `MetricsProofs` |

`Wire`, `Frames` and `Scalars` are pure operators. A `[]byte` is a sequence over
0..255, and a decoder returns a record whose `ok` is FALSE where the code returns
an error. `Codec`, `Delivery`, `PropertyService` and `ReadMultiple` are built on
them, so the bytes that one operation writes are the bytes that another reads.

### Client

Each goroutine has a program counter, and each action is one access to shared
state: an atomic operation, a critical section, a channel operation, a read or
write of an unsynchronised field, or a socket operation.

| Code | Variables | Actions |
| --- | --- | --- |
| `Connect` | `state`, `gen`, `receiverCtx`, `receiverDone`, `opc`, `ogen` | `Connect`, `ConnectOpen`, `ConnectOpenFails`, `ConnectCtx`, `ConnectGo`, `ConnectStore` |
| `Close` | `cancelled`, `closed`, `pending`, `conn` | `Close`, `CloseStore`, `CloseCancel`, `CloseReadDone`, `CloseWait`, `CloseWaitHandlers`, `ClosePending`, `CloseTransport` |
| `receiver` | `rpc`, `rdone`, `doneClosed` | `ReceiverStart`, `ReceiverStops`, `ReceiverPolls`, `ReceiverTimeout`, `ReceiverSeesClosed`, `ReceiverPacket` |
| `handlePacket`, `handleResponse` | `hpc`, `hpkt`, `hch` | `HandleOther`, `HandleLookup`, `HandleSend` |
| `sendRequest`, `nextInvokeID` | `cpc`, `cid`, `buf`, `sent`, `result`, `resp` | `SendRequest`, `NextInvokeID`, `Register`, `Send`, `SendFails`, `ContextDone`, `TakeResponse`, `ChannelClosed`, `Unregister` |

`EarlyReturn` stands for a `Connect` or `Close` that returns without doing
anything. A Connect attempt is numbered by `gen`, and the context and the
`receiverDone` channel it makes are named by that number. The response channel
of a call is named after the call. `panicked` records a send on a closed
channel, which the handler's `recover` catches; `crashed` records a second
`close` of a channel, which ends the process.

Abstractions. A datagram is the answer to a call that was sent, of type Ack or
Error, or something that is not an answer at all. Peers answer only requests
that were sent: what an unsolicited answer with a guessed ID would do is not
modelled. Time is not modelled: a read deadline, a write failure and the end of
a context may happen whenever the code waits for them. Metrics and logging are
left out. `SubscribeCOV` draws one more ID from the same counter as its
subscription ID; that draw is in `Cov`.

### Discovery

`devices` maps an instance number to the address in its entry. An address is
four bytes, six bytes, or of a length no UDP address has, and `ToUDP`
converts it as `resolveDevice` does. `NewRemoteDevice` keeps two bytes of the
port. A handler decodes an I-Am (`ReceiveIAm`), writes the entry under the lock
(`StoreIAm`) and advances the counter after it (`CountIAm`). A call of
`resolveDevice` is `ResolveDevice`, `SendWhoIs`, `Collect`, `ResolveAgain`; a
call of `WhoIs` is `WhoIs`, `SendWhoIs`, `Collect`. The connection state
changes freely (`StateStore`): `Client` shows how, and the cache does not
depend on it. `registered`, `known` and `held` are history variables.

### RequestContract and ClientContract

The contract knows a call as idle, open or returned. An open call is asked at
most once and returns one outcome: the request could not be sent, the context
ended, the client hung up on this very call, or an answer. The answer is to a
request that was sent and, as long as no invoke ID has been used twice, to the
call's own. The mapping takes `sent` for `asked`, `closed` for `hungUp` and
`invokeID <= IDs` for `fresh`; a call whose outcome is decided and that has only
its deferred delete left counts as returned. Everything that owners, receivers
and handlers do besides is a stutter of the contract.

### Codec and Delivery

Both have a peer that writes bytes, a network that may lose the end of them, and
the client's decoder. The cut stands for the receive buffer in `udp.go`: the code
never compares the BVLC length with what it received, so a decoder that runs out
of bytes is the only thing that notices.

`Codec` sends tags, opening and closing tags, values and texts. The peer's
encoders are the library's own; a text may also come in the character sets that
only other implementations write. `Delivery` sends a PDU as unicast, broadcast or
to a station, lets routers add a source address (`Route`) or turn it into a
message of the network layer (`NetworkMessage`), lets a BBMD wrap it (`Forward`),
loses its end (`CutDatagram`),
and hands it to `HandlePacket` (`ReceiveDatagram`). Devices, routers and the BBMD
are external. `Route` builds the header that the standard prescribes: in one with a
destination and a source, the hop count is the last field. `DecodeNPDU` reads it
before the source. `BothSpecifiers` names these headers: the properties that hold
leave them out, and the run `routed` shows what becomes of them.

### PropertyService, ReadMultiple and ObjectList

`PropertyService` has one caller at a time, because `Client` has the concurrency.
`ReadProperty` and `WriteProperty` put a request on the wire, the device parses
it, reads or writes its `memory` of encoded values or refuses, and `Return` is
the decoding of the answer. A type that `encodePropertyValue` has no case for is
`WriteUnsupported`, which sends nothing.

`ReadMultiple` encodes the request with its objects in every order in which Go
may walk the map, lets the device answer and the network cut the answer, and then
takes one step for each iteration of a loop in
`decodeReadPropertyMultipleResponse` (`ObjectStep`, `PropertyStep`) and in
`skipToContextClosingTag` (`SkipStep`).

`ObjectList` takes `ReadProperty` by what it returns. `Change` creates and
deletes objects between the reads. `Width` is the number of values of the loop
variable; the module assumes that the list is shorter than `Width - 1`.

### Cov

A subscriber draws an identifier from the counter of the invoke IDs, and its
request draws another one. `draws` is that counter, and `OtherRequest` is any
other user of it. The device takes a request with neither option for a
cancellation, as `UnsubscribeCOV` does. `Lose`, `LoseAck` and `RequestFails` are
the network's losses and the caller's time-out; a request given up stays in the
network and may arrive later. `abandoned` and `reused` are history variables.
`handleCOVNotification` only counts, so no notification is modelled.

### Metrics

Every counter is an atomic and the histogram has a lock, so each `Inc`, `Dec` and
`Record` of `sendRequest` is a step, and `Reset` and `Snapshot` take a step for
each field, in the code's order. `forgotten` records how many requests were under
way when `Reset` set the gauge. The counters kept are those a request passes
through.

## Runs

| Run | Instance | Checks | States |
| --- | --- | --- | --- |
| `serial` | 1 owner, 2 connects, 2 calls, 1 handler, 1 ID | `TypeOK`, `NoPanic`, `PendingSound`, `QuietAfterClose`, `KeepsContract` | 506 252 |
| `fair` | 1 owner, 1 connect, 2 calls, 1 handler, 2 IDs, fairness | `OwnResponse`, `CloseReturns`, `CloseUnblocksRegistered` | 161 814 |
| `discovery` | 2 devices, 1 caller, 2 handlers, port 65537 | `TypeOK`, `NotFoundMeansAbsent`, `ResolvedWasHeld`, `NoWhoIsForRegistered`, `CountedOnce`, `NeverEvicts` | 616 316 |
| `wire` | one exchange of `Codec` (7 tag numbers, lengths at 5, 254 and 65536, integers at the ends of each width, texts of at most 2 of 10 characters) or of `Delivery` (9 PDUs, 24 devices, 2 MACs) | `TypeOK`, `TagRoundTrip`, `ValueRoundTrip`, `BitsRoundTrip`, `TextIndependentOfSet`, `CutRejected`, `HandlerReached`, `DataIsPrefix`, `IAmExact` | 79 133 |
| `property` | 3 properties, 10 values, 4 priorities, 5 error codes | `ReadBack`, `DeviceHolds`, `ErrorReported` | 333 313 |
| `reads` | one call of `ReadPropertyMultiple` (2 objects, 3 properties, with and without an index; every list of 1 or 2 requests and some of 3 and 4) or of `GetObjectList` (3 objects, 2 changes, loop variable of 5 values), fairness | `TypeOK`, `EveryRequestAnswered`, `ResultsTrue`, `DecodingEnds`, `ListedInOrder`, `Terminates` | 87 200 |
| `cov` | 2 subscribers, 1 object, all options, 4 identifiers, 6 draws | `HandlerKept`, `ReuseNeedsWrap`, `DeviceSubscriptionsKnown`, `KeptIfConfirmed` | 449 377 |
| `metrics` | 2 confirmed and 1 unconfirmed request, 4 latencies, one Reset or Snapshot | `GaugeOffByReset`, `HistogramConsistent`, `OutcomeCountedOnce`, `LatencyCoversSuccesses` | 537 023 |
| `reopen` | 1 owner, 2 connects, 1 call | `ConnectedIsOpen` is violated | |
| `boolean_list` | `ReadMultiple` as in `reads`, with TRUE in place of FALSE | `ResultsTrue` is violated | |
| `routed` | `Delivery` as in `wire` | `AnnouncementHandled` is violated | |
| `cov_default` | 1 subscriber, no options | `SubscriptionMade` is violated | |

What they show:

- `serial` and `fair`: `Close` is a barrier for receiver and handlers, the
  pending map never holds a dead channel even when every ID collides, and a call
  gets one outcome. `fair` shows that `Close` cannot wait for ever and that a call
  registered when it starts cannot outlive it, as long as no other call draws the
  same ID. With a collision it can: the other call's store or deferred delete removes
  the entry before `Close` looks for it. The disjunct `Collides` of
  `CloseUnblocksRegistered` says so. In this run two calls have two IDs, so the
  disjunct never holds.
- `discovery`: the second look of `resolveDevice` misses nothing that arrived
  while it slept.
- `wire`, for `Codec`: every encoder has an inverse at every boundary, and no decoder
  takes a beginning for the whole. A year after 2154 comes back as an earlier one, which
  `ReadAs` states. For `Delivery`: a destination, a source, a message type or a
  forwarded address does not shift what follows it, as long as the header does not
  have both a destination and a source.
- `property`: a read returns the last write of the same object, property and
  index, whatever was written to its neighbours.
- `reads`: the decoder of `ReadPropertyMultiple` stays in bounds and ends on any
  prefix of an answer. Each result is under its own object. What a value is, is what
  `decodePropertyValue` makes of it: a constructed value comes back as nil, from a
  whole answer too, with no error. The loop of `GetObjectList` ends and keeps the
  order when elements fail, if the list has fewer than 2^32 - 1 elements.
- `cov`: a handler is lost only to a reused identifier, which takes a full round
  of the counter. The same holds for a confirmed subscription at the device, unless
  a request was given up.
- `metrics`: no request is counted twice, and the error of the gauge after a
  `Reset` is exactly the requests it found.

Why the bounds are enough. Two calls, a handler and two connects give every
pair of goroutines that meet on a channel, an entry or a field, and a second
life of the client after Close. With `IDs` = 1 the second draw collides with the
first; with `IDs` = 2 none does. Port 65537 does not fit in two bytes. Two
handlers can hold the same device or different ones. The samples of the wire
modules are the two sides of every comparison in the encoders and decoders. Three
requests put TRUE, or a refusal, in front of the next object and leave it two more
results. With 4 identifiers and 6 draws the counter goes round during a
subscription. Two requests give `Record` a smallest and a largest latency, and two
calls for `Reset` to find. The theorems depend on none of these bounds.
`MaxConnects`, `MaxInFlight`, `Handlers`, `MaxDraws`, `MaxLen`, `MaxChanges` and
`MaxReaders` bound the models; the code has no bounds of this kind.

Deadlock is checked for `Client`, `Discovery` and `PropertyService`, whose
processes always have a next step. The others model one exchange, or a bounded
number of requests, and stop when it is over.

Fairness. `FairSpec` of `Client` assumes weak fairness of each goroutine that has
work to do: a Connect or Close that has begun, the receivers, the handlers and
the calls. The Go scheduler gives this, and the 100 ms read deadline bounds each
wait of the receiver. Nothing is assumed of the application, of the network, or
of contexts: a context may never end. `ReadMultiple` assumes weak fairness of the
decoder (`Decode`), which is sequential code without a wait. `ObjectList` assumes
that each `ReadProperty` returns, which the caller's context must provide.

### Disagreements with the documentation

For four of them a run has the counterexample. The first three are bugs.

- `reopen` (`ConnectedIsOpen`): `Open` returns at once when a `conn` exists, and
  `Close` keeps the closed `conn`. Connect after Close reports success over a
  closed socket.
- `boolean_list` (`ResultsTrue`): the length field of an application Boolean is
  its value, and `skipToContextClosingTag` takes it for a payload length. After
  TRUE it steps over the closing tag. If TRUE was the last value of an object,
  `ReadPropertyMultiple` returns properties of the next object under this one,
  with no error.
- `routed` (`AnnouncementHandled`): in a header with a destination and a source the
  hop count comes last. `DecodeNPDU` reads it right after the destination, takes the
  first byte of SNET for it, and reads the source and the APDU one byte off. The I-Am
  that a router passes on to all networks has such a header, and its device is not
  discovered.
- `cov_default` (`SubscriptionMade`): `SubscribeCOV` without options sends the request
  that cancels (`client.go:1184`: "No confirmed or lifetime = unsubscribe"). The device
  acknowledges it and has no subscription; `AUDIT.md:39` calls the request a valid
  subscription request. `KeptIfConfirmed` is about the confirmed ones.

The others are part of the models, which follow the code. No run is kept for them.

- `client_test.go:111-114` says that in-flight calls return when `Close` closes
  the pending channels. A call that checked the state before `Close` and registers
  after it has replaced the map is not released. Nor is one whose entry another call
  with the same ID has replaced or deleted. `CloseUnblocksRegistered` is about the
  calls registered before, without a collision.
- `AUDIT.md:115-117` says that IDs collide with 256 requests in flight. They
  follow a counter, so a slow call can share its ID with a later one although few
  are in flight. `OwnResponse` therefore ends where the counter wraps.
- `client.go:83-84` says that the WaitGroup keeps handlers from closed channels.
  If `Connect` overlaps `Close` it does not. The theorem on `NoPanic` assumes
  `SingleOwner`.
- `device.go:19-22` says that a registered device resolves to the address given.
  An I-Am replaces it by one without its port.
- `EncodeTag` drops the length of a value whose tag number is 15 or more;
  `TagRoundTrip` is checked and proved below 15.
- `datetime.go:83-84` speaks of clamping a late year. The cast wraps it.
- An I-Am that a BBMD forwards is recorded under the address of the BBMD
  (`IAmExact`), because `handlePacket` skips the origin.
- `decodeError` keeps eight bits of an error code (`ErrorReported`), so a vendor's
  code of 288 satisfies `IsPropertyNotFound`.
- `bitstring.go:130-132` speaks of bit strings in `WriteProperty` calls, which
  refuse them.
- `GetObjectList` leaves out elements whose read failed, and returns no error
  (`ListedInOrder`).
- `metrics.go:224` calls the gauge current state, and `metrics.go:328` a snapshot
  a point in time. `Reset` during a request leaves the gauge off
  (`GaugeOffByReset`), and a snapshot can show more requests ended than sent.

## Proofs

`ClientProofs` proves, for all calls, owners, handlers, IDs and connects (from
the assumptions that `None` is no call, that there is an owner, `IDs` > 0 and
`MaxConnects` is a natural number):

- `TypeCorrect`: `Spec => []TypeOK`. The step that matters is `NextInvokeID`:
  the masked ID is an index of `pending`.
- `PendingCorrect`: `Spec => []PendingSound`, with any number of owners and
  any collisions. The inductive invariant `PendingInv` adds
  `ClosedWereRegistered`: a channel about to be registered was never closed.
- `NoPanicCorrect` and `QuietAfterCloseCorrect`: `NoPanic` and
  `QuietAfterClose`, under `SingleOwner` (Connect and Close are not called
  concurrently; `NoPanic` does not hold without the assumption).
  `SerialInv` says where the owner stands when the receivers and the handlers
  are gone (`Drained`), that the fields of the client name the receiver that
  runs (`ReceiverOwned`), and that a handler about to send holds an open channel
  (`SendsOnOpen`). None of these is inductive alone. `SendsOnOpen` survives
  `ClosePending` only because the handlers are gone there, they are gone
  because no receiver can spawn one after the wait, and that needs the fields
  to name the right receiver.
- `OwnResponseCorrect`: `Spec => []OwnResponse`, with any number of owners.
  `ResponseInv` has two halves. `IDsMatch`: whatever is on its way to a call (a
  channel looked up, a buffer, a response taken) carries the ID of that call.
  `NoReuse`: until the counter passes `IDs`, no two calls have drawn the same.
- `ContractKept`: `Spec => KeepsContract`, that is, `Client` implements
  `RequestContract`. `ContractInv` adds two facts to `ResponseInv`. A call is in
  `sent` from the moment it waits (`SentWhenWaiting`), so outcomes follow the
  request. Whatever a handler or a channel holds answers a request that was sent
  (`AnswersSent`). Each action is then a step of the contract or a stutter.

`DiscoveryProofs`, from the assumptions that `None` is neither a device nor an
address, that devices and handlers are finite sets and that ports are numbers:

- `DiscoveryTypes`, and from `ResolveInv` the theorems `NotFoundCorrect`,
  `ResolvedCorrect` and `NoWhoIsCorrect`. The strengthening is `HeldFollows` (while
  a call is under way, its history of addresses holds the current entry of its
  target) and `RegisteredCached` (what is registered stays in the cache).
- `NeverEvictsCorrect`, the action property, step by step.
- `CountedOnceCorrect`. The argument counts: a step that stores a new device adds
  one to the cache and one to the handlers with an increment due.
- `ListedInOrderCorrect` and `ObjectListTypes`, about `ObjectList`, for any objects
  and any width of the loop variable. `ListInv` adds that the list begins as it was
  measured until an object is deleted (`BeginsAsMeasured`), and that in the loop the
  elements before `i` are listed or skipped (`ListedSoFar`).

`CovProofs`, for any number of subscribers, objects and identifiers:

- `HandlerKeptCorrect` and `ReuseNeedsWrapCorrect`. `CovInv` adds that no two live
  subscriptions have the same draw (`DrawsDistinct`) and that those with the same
  identifier are in `reused` (`SharedAreReused`).
- `DeviceSubscriptionsKnownCorrect`, `KeptIfConfirmedCorrect` and `CovTypes`.
  `NetInv` adds what is under way: a request has a number of its own that is not
  yet acknowledged (`RequestsDistinct`), somebody waits for it or it was given up
  (`RequestsKnown`), and an acknowledged `SubscribeCOV` left the device as it asked
  (`SettledAsAsked`). Without the first, an acknowledgement could be taken for that
  of another request.

`WireProofs` has the facts about `Wire` that everything else rests on:
`UnsignedRoundTrip` and `SignedRoundTrip` for every uint32 and int32,
`ObjectIdentifierRoundTrip`, that a tag with its payload decodes as a whole and that
no beginning of it does, and the same for the values of `Scalars`. TLC's integers end at 2^31 - 1, so the upper
half of the unsigned values is only proved.

`CodecProofs`, for every value and text that `CodecAssumption` admits: what the Go
types of the encoders' arguments hold, and strings and bit strings shorter than
2^31. An `int` outside -2^31..2^32 - 1, which the code cuts to 32 bits, is not
among them.

- `CodecTypes`, `ValueRoundTripCorrect`, `BitsRoundTripCorrect` and
  `TextIndependentOfSetCorrect`, without further assumptions.
- `TagRoundTripCorrect` and `CutRejectedCorrect`, for tag numbers below 15 and
  lengths of 32 bits. With a number of 15 or more the length is lost, and neither
  holds.

The invariant is `WireInv`: the bytes on the wire carry the item that was sent
(`Carries`), or they are a beginning of such bytes. `Carries` rests on `Transmits`,
which each type has a lemma for: the bytes decode to the value and no beginning of
them decodes. `Concat` and `UTF16Decode` are recursive functions. What they
compute is proved by induction, from the least number for which a claim fails
(`LeastNatural`, `Induction`). For UCS-2 the decoder is followed from the last
character to the first, and each step consumes one character, of one unit or of a
surrogate pair.

`DeliveryProofs`, for all PDUs, devices and addresses that `DeliveryAssumption`
admits: fields that fit their bytes, unsegmented PDUs, IP addresses of four bytes,
network addresses of 1 to 255 bytes.

- `HandlerReachedCorrect`, `DataIsPrefixCorrect` and `IAmExactCorrect`, wherever a
  datagram is cut, for headers with a destination, with a source or with neither.
  With both they do not hold.

The invariant is `DeliveryInv`: a network header without both specifiers is one that
carries the address in `mac`, if any, and is marked as a network message when it is
one (`Legible`, `Carries`), and what was received is what `handlePacket` makes of the
datagram. A header carries an
address when its parts have the lengths that its own bytes announce (`IsHeader`).
That is what the router's actions preserve: a source address is put into a header
that had no address, and a message type behind one that stays readable. From there the argument follows the
decoders: a datagram cut inside a header is dropped (`LinkRead`, `HeaderRead`,
`APDURead`), one cut later hands over a beginning of the data (`NPDUHandled`), and
each tag of an I-Am is read whole or not at all (`UnsignedTagRead`, `IAmRead`).

`PropertyProofs`, from the assumptions that properties, values and error codes are
what the Go types of the arguments hold (`SlotAssumption`, `WrittenAssumption`,
`ErrorCodesAssumption`); priorities are arbitrary:

- `ReadBackCorrect`, `DeviceHoldsCorrect` and `ErrorReportedCorrect`.

The invariant is `PropertyInv`: each cell of the device is the encoding of the last
value written to it (`Held`), and the request or the answer on the wire is that of
the call in progress (`Requested`, `Answered`). The lemmas say what a reader makes of
those bytes. `ReferenceRead`: object, property and index come back, whatever
follows, unless it looks like an index. `WriteRead`, `AnswerRead` and `ErrorRead`:
the value, the priority and the error behind them come back too. They rest on
`WritableTransmits` in `WireProofs`, the round trip of each type that
`encodePropertyValue` has a case for.

`MetricsProofs`, for any finite number of requests, any latencies and any
resolution of the clock:

- `GaugeOffByResetCorrect`, `OutcomeCountedOnceCorrect` and
  `LatencyCoversSuccessesCorrect`. `Ledger` has each counter as the number of
  requests past the step that counts, and `SnapInv` has what a Snapshot under way
  has read so far against the counters as they are now.
- `HistogramConsistentCorrect`. `Extremes` adds that the smallest and the largest
  latency lie in the lowest and the highest bucket used, and that they bound the
  sum.

Only model-checked: the liveness properties (the prover handles neither
fairness nor ENABLED); `ReadMultiple`; the counterexamples.

## Not modelled

- `registerForeignDevice`: it sends one datagram at the end of Connect. Nothing
  reads the answer, renews the registration or keeps any state of it, so there is
  no behaviour of the client to check.
- The handling of COV notifications: the code counts them and calls no handler.
  The COV increment is never sent and `ActiveSubscriptions` never changes.
- Counters other than those of a request, timestamps, log messages, `String`
  methods and names.
- Time: how long a sleep or a deadline lasts, and the write deadline that
  concurrent Sends share. Whatever waits may be cut short or fail.
- Sizes and limits of goroutines and of the cache: the code has no bound for them
  that a property could state.
- `version.go`, most of `types.go` and the plain option setters: no state.
- `examples/read`: a sequential command-line program.
