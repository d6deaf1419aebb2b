-------------------------------- MODULE Cov ---------------------------------
(***************************************************************************)
(* COV subscriptions (client.go): SubscribeCOV and UnsubscribeCOV, with    *)
(* the device that keeps the subscriptions and a network that loses and    *)
(* delays requests and acknowledgements.                                   *)
(*                                                                         *)
(* Subscription identifiers come from the counter of the invoke IDs, so    *)
(* one is used again once the counter has gone round. sendRequest appears  *)
(* here by what its caller sees of it (Client has its steps): it draws     *)
(* another number, sends, and returns with an acknowledgement or with an   *)
(* error.                                                                  *)
(***************************************************************************)
EXTENDS Integers

CONSTANTS Callers,   \* goroutines with one subscription each at a time
          Objects,   \* monitored objects of the device
          Options,   \* what callers ask for: subset of OptionKinds
          IDs,       \* number of invoke IDs (256 in the code)
          MaxDraws,  \* bound on the numbers drawn
          None       \* no handler

\* Neither option, WithConfirmedNotifications, or WithSubscriptionLifetime.
OptionKinds == {"default", "confirmed", "lifetime"}

ASSUME NoneAssumption == None \notin Callers
ASSUME ObjectsAssumption == Objects # {}
ASSUME IDsAssumption == IDs \in Nat \ {0}
ASSUME MaxDrawsAssumption == MaxDraws \in Nat
ASSUME OptionsAssumption == Options \subseteq OptionKinds

VARIABLES draws,      \* numbers drawn from c.invokeID so far
          pc,         \* caller: "idle", "drawn", "subscribing", "acked",
                      \* "subscribed", "cancelling", "cancelled"
          sub,        \* caller: [n, obj, opt], n the draw of its identifier
          invoke,     \* caller: the draw of its request's invoke ID
          covSubs,    \* c.covSubs, identifier to the caller of its handler
          net,        \* requests under way
          acks,       \* draws of requests acknowledged and not yet received
          device,     \* keys the device keeps a subscription under
          fading,     \* those of them that have a lifetime
          abandoned,  \* history: keys of requests given up unanswered
          reused      \* history: callers whose identifier another one had
                      \* at the same time

vars == <<draws, pc, sub, invoke, covSubs, net, acks, device, fading,
          abandoned, reused>>

client == <<covSubs, draws, invoke, reused, sub>>
network == <<acks, net>>
atDevice == <<device, fading>>

SubIDs == 0..(IDs - 1)

ID(n) == n % IDs

Key(c) == <<ID(sub[c].n), sub[c].obj>>

Init ==
    /\ draws = 0
    /\ pc = [c \in Callers |-> "idle"]
    /\ sub = [c \in Callers |-> [n |-> 0, obj |-> CHOOSE o \in Objects : TRUE,
                                 opt |-> "default"]]
    /\ invoke = [c \in Callers |-> 0]
    /\ covSubs = [i \in SubIDs |-> None]
    /\ net = {}
    /\ acks = {}
    /\ device = {}
    /\ fading = {}
    /\ abandoned = {}
    /\ reused = {}

-----------------------------------------------------------------------------
At(c, from, to) == pc[c] = from /\ pc' = [pc EXCEPT ![c] = to]

\* Those between the draw of their identifier and the end of UnsubscribeCOV.
Live == {c \in Callers : pc[c] # "idle"}

\* Mutant: the counter is read and written in two steps.
DrawRacy == draws < MaxDraws /\ draws' \in {draws, draws + 1}

\* nextInvokeID
Draw == draws < MaxDraws /\ draws' = draws + 1

\* The others that have the identifier of draw n.
SameID(c, n) == {d \in Live \ {c} : ID(sub[d].n) = ID(n)}

SubscribeCOV(c) ==
    /\ At(c, "idle", "drawn")
    /\ Draw
    /\ \E o \in Objects, opt \in Options :
        sub' = [sub EXCEPT ![c] = [n |-> draws', obj |-> o, opt |-> opt]]
    /\ reused' = IF SameID(c, draws') = {} THEN reused \ {c}
                 ELSE reused \cup SameID(c, draws') \cup {c}
    /\ UNCHANGED <<invoke, covSubs, network, atDevice, abandoned>>

\* sendRequest, with an invoke ID of its own. Confirmed and Lifetime go into
\* the request when they are set.
Send(c, opt) ==
    /\ Draw
    /\ invoke' = [invoke EXCEPT ![c] = draws']
    /\ net' = net \cup {[n |-> draws', key |-> Key(c), opt |-> opt]}
    /\ UNCHANGED <<sub, covSubs, reused, acks, atDevice, abandoned>>

\* Mutant: the Confirmed option is forgotten.
SendSubscribePlain(c) == At(c, "drawn", "subscribing") /\ Send(c, "default")

SendSubscribe(c) == At(c, "drawn", "subscribing") /\ Send(c, sub[c].opt)

\* Mutant: the cancellation carries the options of the subscription.
UnsubscribeWithOptions(c) ==
    At(c, "subscribed", "cancelling") /\ Send(c, sub[c].opt)

\* "No confirmed or lifetime = unsubscribe"
UnsubscribeCOV(c) == At(c, "subscribed", "cancelling") /\ Send(c, "default")

Acknowledged(c) ==
    /\ At(c, "subscribing", "acked") \/ At(c, "cancelling", "cancelled")
    /\ invoke[c] \in acks
    /\ acks' = acks \ {invoke[c]}
    /\ UNCHANGED <<client, net, atDevice, abandoned>>

\* sendRequest returns an error: from SubscribeCOV the caller gets no
\* identifier, after UnsubscribeCOV it still has its handler.
RequestFails(c) ==
    /\ At(c, "subscribing", "idle") \/ At(c, "cancelling", "subscribed")
    /\ abandoned' = abandoned \cup {Key(c)}
    /\ UNCHANGED <<client, network, atDevice>>

SetHandler(id, handler) ==
    /\ covSubs' = [covSubs EXCEPT ![id] = handler]
    /\ UNCHANGED <<draws, sub, invoke, reused, network, atDevice, abandoned>>

\* The COVSubscriptions counter, which only Snapshot reads, is left out.
RegisterHandler(c) ==
    At(c, "acked", "subscribed") /\ SetHandler(ID(sub[c].n), c)

\* Mutant: the entry of the request's invoke ID is deleted.
RemoveInvoked(c) ==
    At(c, "cancelled", "idle") /\ SetHandler(ID(invoke[c]), None)

RemoveHandler(c) ==
    At(c, "cancelled", "idle") /\ SetHandler(ID(sub[c].n), None)

\* Any other request of the client uses up an invoke ID.
OtherRequest ==
    /\ Draw
    /\ UNCHANGED <<pc, sub, invoke, covSubs, reused, network, atDevice,
                   abandoned>>

-----------------------------------------------------------------------------
\* The device takes a request with neither option for a cancellation, any
\* other for a subscription or the renewal of one, and acknowledges.
DeviceHandles(m) ==
    /\ device' = IF m.opt = "default" THEN device \ {m.key}
                 ELSE device \cup {m.key}
    /\ fading' = IF m.opt = "lifetime" THEN fading \cup {m.key}
                 ELSE fading \ {m.key}
    /\ net' = net \ {m}
    /\ acks' = acks \cup {m.n}
    /\ UNCHANGED <<client, pc, abandoned>>

\* A lifetime ends; the client never renews one.
Expire(k) ==
    /\ device' = device \ {k}
    /\ fading' = fading \ {k}
    /\ UNCHANGED <<client, pc, network, abandoned>>

Lose(m) ==
    /\ net' = net \ {m}
    /\ UNCHANGED <<client, pc, acks, atDevice, abandoned>>

LoseAck(n) ==
    /\ acks' = acks \ {n}
    /\ UNCHANGED <<client, pc, net, atDevice, abandoned>>

Call(c) ==
    \/ SubscribeCOV(c)
    \/ SendSubscribe(c)
    \/ UnsubscribeCOV(c)
    \/ Acknowledged(c)
    \/ RequestFails(c)
    \/ RegisterHandler(c)
    \/ RemoveHandler(c)

Next ==
    \/ \E c \in Callers : Call(c)
    \/ OtherRequest
    \/ \E m \in net : DeviceHandles(m)
    \/ \E m \in net : Lose(m)
    \/ \E n \in acks : LoseAck(n)
    \/ \E k \in fading : Expire(k)

Spec == Init /\ [][Next]_vars

-----------------------------------------------------------------------------
\* Type invariant. Identifiers in requests and at the device have the width
\* of an invoke ID.
TypeOK ==
    /\ draws \in 0..MaxDraws
    /\ pc \in [Callers -> {"idle", "drawn", "subscribing", "acked",
                           "subscribed", "cancelling", "cancelled"}]
    /\ sub \in [Callers -> [n: 0..MaxDraws, obj: Objects, opt: OptionKinds]]
    /\ invoke \in [Callers -> 0..MaxDraws]
    /\ covSubs \in [SubIDs -> Callers \cup {None}]
    /\ net \subseteq [n: 0..MaxDraws, key: SubIDs \X Objects, opt: OptionKinds]
    /\ acks \subseteq 0..MaxDraws
    /\ device \subseteq SubIDs \X Objects
    /\ fading \subseteq device
    /\ abandoned \subseteq SubIDs \X Objects
    /\ reused \subseteq Callers

\* After SubscribeCOV has returned, and until UnsubscribeCOV deletes it, the
\* subscriber's handler is the one in covSubs under its identifier, whatever
\* the other subscribers do, as long as none of them had the same identifier.
HandlerKept ==
    \A c \in Callers \ reused :
        pc[c] \in {"subscribed", "cancelling", "cancelled"}
        => covSubs[ID(sub[c].n)] = c

\* Two live subscriptions have the same identifier only when nextInvokeID has
\* gone round all of them in between.
ReuseNeedsWrap ==
    \A c, d \in Live :
        c # d /\ ID(sub[c].n) = ID(sub[d].n)
        => sub[c].n - sub[d].n >= IDs \/ sub[d].n - sub[c].n >= IDs

\* The device keeps no subscription the client does not know of, except after
\* a request was given up: SubscribeCOV then has no identifier to return.
DeviceSubscriptionsKnown ==
    \A k \in device \ abandoned :
        \E c \in Callers : Key(c) = k /\ pc[c] \notin {"idle", "drawn"}

\* A confirmed subscription that SubscribeCOV was acknowledged for is kept by the
\* device until UnsubscribeCOV, whatever is lost, delayed or given up in between,
\* unless another had the identifier or an earlier request for it was given up
\* and arrives late.
KeptIfConfirmed ==
    \A c \in Callers \ reused :
        /\ pc[c] \in {"acked", "subscribed"}
        /\ sub[c].opt = "confirmed"
        /\ Key(c) \notin abandoned
        => Key(c) \in device

\* AUDIT.md: "`SubscribeCOV` *does* send a valid subscription request". The
\* device has the subscription that it acknowledged and that has no lifetime to
\* end, under the conditions of KeptIfConfirmed. It has none when SubscribeCOV
\* was called without options: the request is then the one that cancels.
SubscriptionMade ==
    \A c \in Callers \ reused :
        /\ pc[c] \in {"acked", "subscribed"}
        /\ sub[c].opt # "lifetime"
        /\ Key(c) \notin abandoned
        => Key(c) \in device

=============================================================================
