----------------------------- MODULE CovProofs ------------------------------
(***************************************************************************)
(* Proofs about Cov, for any number of callers, objects and identifiers.   *)
(***************************************************************************)
EXTENDS Cov, TLAPS

\* No number has been drawn that the counter has not reached, and none twice.
DrawsDistinct ==
    /\ \A c \in Callers : sub[c].n <= draws
    /\ \A c, d \in Live : c # d => sub[c].n # sub[d].n

\* Callers that have the same identifier at the same time are in reused.
SharedAreReused ==
    \A c, d \in Live : c # d /\ ID(sub[c].n) = ID(sub[d].n) => c \in reused

CovInv == TypeOK /\ DrawsDistinct /\ SharedAreReused /\ HandlerKept

USE NoneAssumption, IDsAssumption, MaxDrawsAssumption, OptionsAssumption
USE DEF client, network, atDevice

-----------------------------------------------------------------------------
\* An identifier has the width of an invoke ID.
LEMMA IDType == \A n \in Nat : ID(n) \in SubIDs
BY DEF ID, SubIDs

\* Every step keeps the variables in their types.
LEMMA TypeStep == TypeOK /\ [Next]_vars => TypeOK'
<1> SUFFICES ASSUME TypeOK, [Next]_vars PROVE TypeOK'
  OBVIOUS
<1> USE DEF TypeOK
<1>1. Draw => draws' \in 0..MaxDraws
  BY DEF Draw
<1>2. \A c \in Callers : Key(c) \in SubIDs \X Objects
  <2>1. \A c \in Callers : sub[c].n \in Nat /\ sub[c].obj \in Objects
    OBVIOUS
  <2>2. QED
    BY <2>1, IDType DEF Key
<1>3. ASSUME NEW c \in Callers, SubscribeCOV(c) PROVE TypeOK'
  <2>1. PICK o \in Objects, opt \in Options :
          sub' = [sub EXCEPT ![c] = [n |-> draws', obj |-> o, opt |-> opt]]
    BY <1>3 DEF SubscribeCOV
  <2>2. sub' \in [Callers -> [n: 0..MaxDraws, obj: Objects, opt: OptionKinds]]
    BY <1>1, <1>3, <2>1 DEF SubscribeCOV
  <2>3. reused' \subseteq Callers
    BY <1>3 DEF SubscribeCOV, SameID, Live
  <2>4. pc' \in [Callers -> {"idle", "drawn", "subscribing", "acked",
                             "subscribed", "cancelling", "cancelled"}]
    BY <1>3 DEF SubscribeCOV, At
  <2>5. QED
    BY <1>1, <1>3, <2>2, <2>3, <2>4 DEF SubscribeCOV
<1>4. ASSUME NEW c \in Callers, NEW opt \in OptionKinds,
             NEW from, NEW to \in {"subscribing", "cancelling"},
             At(c, from, to), Send(c, opt)
      PROVE  TypeOK'
  <2>1. [n |-> draws', key |-> Key(c), opt |-> opt]
          \in [n: 0..MaxDraws, key: SubIDs \X Objects, opt: OptionKinds]
    BY <1>1, <1>2, <1>4 DEF Send
  <2>2. QED
    BY <1>1, <1>4, <2>1 DEF Send, At
<1>5. ASSUME NEW c \in Callers, SendSubscribe(c) \/ UnsubscribeCOV(c)
      PROVE  TypeOK'
  <2>1. sub[c].opt \in OptionKinds /\ "default" \in OptionKinds
    BY DEF OptionKinds
  <2>2. QED
    BY <1>4, <1>5, <2>1 DEF SendSubscribe, UnsubscribeCOV
<1>6. ASSUME NEW c \in Callers, Acknowledged(c) PROVE TypeOK'
  BY <1>6 DEF Acknowledged, At
<1>7. ASSUME NEW c \in Callers, RequestFails(c) PROVE TypeOK'
  BY <1>2, <1>7 DEF RequestFails, At
<1>8. ASSUME NEW c \in Callers, RegisterHandler(c) \/ RemoveHandler(c)
      PROVE  TypeOK'
  <2>1. CASE RegisterHandler(c)
    BY <2>1 DEF RegisterHandler, SetHandler, At
  <2>2. CASE RemoveHandler(c)
    BY <2>2 DEF RemoveHandler, SetHandler, At
  <2>3. QED
    BY <1>8, <2>1, <2>2
<1>9. CASE OtherRequest
  BY <1>1, <1>9 DEF OtherRequest
<1>10. ASSUME NEW m \in net, DeviceHandles(m) PROVE TypeOK'
  BY <1>10 DEF DeviceHandles
<1>11. ASSUME NEW m \in net, Lose(m) PROVE TypeOK'
  BY <1>11 DEF Lose
<1>12. ASSUME NEW n \in acks, LoseAck(n) PROVE TypeOK'
  BY <1>12 DEF LoseAck
<1>13. ASSUME NEW k \in fading, Expire(k) PROVE TypeOK'
  BY <1>13 DEF Expire
<1>14. CASE UNCHANGED vars
  BY <1>14 DEF vars
<1>15. QED
  BY <1>3, <1>5, <1>6, <1>7, <1>8, <1>9, <1>10, <1>11, <1>12, <1>13, <1>14
  DEF Next, Call

\* Steps that move no caller and touch neither identifiers nor handlers.
LEMMA CovFrame ==
    ASSUME CovInv, UNCHANGED <<pc, sub, covSubs, reused>>,
           draws' \in {draws, draws + 1}
    PROVE  DrawsDistinct' /\ SharedAreReused' /\ HandlerKept'
<1>1. draws \in Nat /\ \A c \in Callers : sub[c].n \in Nat
  BY DEF CovInv, TypeOK
<1>2. DrawsDistinct'
  BY <1>1 DEF CovInv, DrawsDistinct, Live
<1>3. SharedAreReused' /\ HandlerKept'
  BY DEF CovInv, SharedAreReused, HandlerKept, Live
<1>4. QED
  BY <1>2, <1>3

\* Every step keeps the invariant.
LEMMA CovStep == CovInv /\ [Next]_vars => CovInv'
<1> DEFINE Goal == DrawsDistinct' /\ SharedAreReused' /\ HandlerKept'
<1> SUFFICES ASSUME CovInv, [Next]_vars PROVE Goal
  BY TypeStep DEF CovInv
<1>a. /\ draws \in Nat
      /\ pc \in [Callers -> {"idle", "drawn", "subscribing", "acked",
                             "subscribed", "cancelling", "cancelled"}]
      /\ sub \in [Callers -> [n: 0..MaxDraws, obj: Objects, opt: OptionKinds]]
      /\ covSubs \in [SubIDs -> Callers \cup {None}]
      /\ \A c \in Callers : sub[c].n \in Nat /\ ID(sub[c].n) \in SubIDs
      /\ DrawsDistinct /\ SharedAreReused /\ HandlerKept
  BY IDType DEF CovInv, TypeOK
<1>1. ASSUME NEW c \in Callers, SubscribeCOV(c) PROVE Goal
  <2>1. /\ pc[c] = "idle" /\ pc' = [pc EXCEPT ![c] = "drawn"]
        /\ draws' = draws + 1 /\ covSubs' = covSubs
        /\ \A d \in Callers : d # c => sub'[d] = sub[d]
        /\ sub'[c].n = draws + 1
    BY <1>1, <1>a DEF SubscribeCOV, At, Draw
  <2>2. Live' = Live \cup {c} /\ c \notin Live
    BY <1>a, <2>1 DEF Live
  <2>3. DrawsDistinct'
    BY <1>a, <2>1, <2>2 DEF DrawsDistinct, Live
  <2>4. reused \ {c} \subseteq reused'
    BY <1>1 DEF SubscribeCOV
  <2>5. SharedAreReused'
    <3> SUFFICES ASSUME NEW d \in Live', NEW e \in Live', d # e,
                        ID(sub'[d].n) = ID(sub'[e].n)
                 PROVE  d \in reused'
      BY DEF SharedAreReused
    <3>1. CASE d # c /\ e # c
      BY <1>a, <2>1, <2>2, <2>4, <3>1 DEF SharedAreReused, Live
    <3>2. CASE d = c
      <4>1. e \in SameID(c, draws')
        BY <2>1, <2>2, <3>2 DEF SameID, Live
      <4>2. QED
        BY <1>1, <3>2, <4>1 DEF SubscribeCOV
    <3>3. CASE e = c
      <4>1. d \in SameID(c, draws')
        BY <2>1, <2>2, <3>3 DEF SameID, Live
      <4>2. QED
        BY <1>1, <4>1 DEF SubscribeCOV
    <3>4. QED
      BY <3>1, <3>2, <3>3
  <2>6. HandlerKept'
    BY <1>a, <2>1, <2>4 DEF HandlerKept
  <2>7. QED
    BY <2>3, <2>5, <2>6
<1>2. ASSUME NEW c \in Callers, NEW from, NEW to,
             At(c, from, to), from # "idle",
             UNCHANGED <<sub, covSubs, reused>>,
             draws' \in {draws, draws + 1},
             to \in {"subscribed", "cancelling", "cancelled"} =>
                 from \in {"subscribed", "cancelling"}
      PROVE  Goal
  <2>1. Live' \subseteq Live
    BY <1>2, <1>a DEF Live, At
  <2>2. DrawsDistinct' /\ SharedAreReused'
    BY <1>2, <1>a, <2>1 DEF DrawsDistinct, SharedAreReused, Live
  <2>3. HandlerKept'
    BY <1>2, <1>a DEF HandlerKept, At
  <2>4. QED
    BY <2>2, <2>3
<1>3. ASSUME NEW c \in Callers,
             \/ SendSubscribe(c) \/ UnsubscribeCOV(c)
             \/ Acknowledged(c) \/ RequestFails(c)
      PROVE  Goal
  BY <1>2, <1>3 DEF SendSubscribe, UnsubscribeCOV, Acknowledged, RequestFails,
     Send, Draw
<1>4. ASSUME NEW c \in Callers, RegisterHandler(c) \/ RemoveHandler(c)
      PROVE  Goal
  <2>1. /\ UNCHANGED <<sub, reused, draws>> /\ c \in Live
        /\ \A d \in Callers : d # c => pc'[d] = pc[d]
        /\ \A i \in SubIDs : i # ID(sub[c].n) => covSubs'[i] = covSubs[i]
        /\ \/ pc'[c] = "subscribed" /\ covSubs'[ID(sub[c].n)] = c
           \/ pc'[c] = "idle"
    BY <1>4, <1>a DEF RegisterHandler, RemoveHandler, SetHandler, At, Live
  <2>2. Live' \subseteq Live
    BY <2>1 DEF Live
  <2>3. DrawsDistinct' /\ SharedAreReused'
    BY <1>a, <2>1, <2>2 DEF DrawsDistinct, SharedAreReused, Live
  <2>4. HandlerKept'
    <3> SUFFICES ASSUME NEW d \in Callers \ reused,
                        pc'[d] \in {"subscribed", "cancelling", "cancelled"}
                 PROVE  covSubs'[ID(sub[d].n)] = d
      BY <2>1 DEF HandlerKept
    <3>1. CASE d = c
      BY <2>1, <3>1
    <3>2. CASE d # c
      <4>1. d \in Live /\ ID(sub[d].n) # ID(sub[c].n)
        BY <1>a, <2>1, <3>2 DEF SharedAreReused, Live
      <4>2. QED
        BY <1>a, <2>1, <3>2, <4>1 DEF HandlerKept
    <3>3. QED
      BY <3>1, <3>2
  <2>5. QED
    BY <2>3, <2>4
<1>5. CASE \/ OtherRequest
           \/ \E m \in net : DeviceHandles(m) \/ Lose(m)
           \/ \E n \in acks : LoseAck(n)
           \/ \E k \in fading : Expire(k)
           \/ UNCHANGED vars
  BY <1>5, CovFrame
  DEF OtherRequest, Draw, DeviceHandles, Lose, LoseAck, Expire, vars
<1>6. QED
  BY <1>1, <1>3, <1>4, <1>5 DEF Next, Call

\* The initial state satisfies the invariant.
LEMMA CovInit == ASSUME Init PROVE CovInv
<1>1. TypeOK
  <2>1. (CHOOSE o \in Objects : TRUE) \in Objects
    BY ObjectsAssumption
  <2>2. QED
    BY <2>1 DEF Init, TypeOK, OptionKinds
<1>2. Live = {} /\ \A c \in Callers : sub[c].n = 0
  BY DEF Init, Live
<1>3. DrawsDistinct /\ SharedAreReused
  BY <1>2 DEF DrawsDistinct, SharedAreReused, Init
<1>4. HandlerKept
  BY DEF HandlerKept, Init
<1>5. QED
  BY <1>1, <1>3, <1>4 DEF CovInv

\* Numbers with the same remainder are equal or at least the modulus apart.
LEMMA SameRemainder ==
    ASSUME NEW m \in Nat, NEW n \in Nat, m < n, ID(m) = ID(n)
    PROVE  n - m >= IDs
<1>1. /\ m = IDs * (m \div IDs) + (m % IDs) /\ m \div IDs \in Int
      /\ n = IDs * (n \div IDs) + (n % IDs) /\ n \div IDs \in Int
  BY SMT
<1>2. n - m = IDs * ((n \div IDs) - (m \div IDs))
  BY <1>1 DEF ID
<1>3. (n \div IDs) - (m \div IDs) >= 1
  BY <1>1, <1>2
<1>4. QED
  BY <1>1, <1>2, <1>3

\* A subscriber's handler stays in covSubs under its identifier until its
\* UnsubscribeCOV deletes it, whatever the others do and the network loses, if
\* no other subscriber had the same identifier meanwhile.
THEOREM HandlerKeptCorrect == Spec => []HandlerKept
<1>1. Init => CovInv
  BY CovInit
<1>2. CovInv => HandlerKept
  BY DEF CovInv
<1>3. QED
  BY <1>1, <1>2, CovStep, PTL DEF Spec

\* Two live subscriptions share an identifier only when at least IDs numbers
\* were drawn between theirs.
THEOREM ReuseNeedsWrapCorrect == Spec => []ReuseNeedsWrap
<1>1. Init => CovInv
  BY CovInit
<1>2. CovInv => ReuseNeedsWrap
  <2> SUFFICES ASSUME CovInv, NEW c \in Live, NEW d \in Live, c # d,
                      ID(sub[c].n) = ID(sub[d].n)
               PROVE  sub[c].n - sub[d].n >= IDs \/ sub[d].n - sub[c].n >= IDs
    BY DEF ReuseNeedsWrap
  <2>1. sub[c].n \in Nat /\ sub[d].n \in Nat /\ sub[c].n # sub[d].n
    BY DEF CovInv, TypeOK, DrawsDistinct, Live
  <2>2. CASE sub[c].n < sub[d].n
    BY <2>1, <2>2, SameRemainder
  <2>3. CASE sub[d].n < sub[c].n
    BY <2>1, <2>3, SameRemainder
  <2>4. QED
    BY <2>1, <2>2, <2>3
<1>3. QED
  BY <1>1, <1>2, CovStep, PTL DEF Spec

-----------------------------------------------------------------------------
(***************************************************************************)
(* Requests on their way and the device's subscriptions.                   *)
(***************************************************************************)

Waiting == {c \in Callers : pc[c] \in {"subscribing", "cancelling"}}

\* m is the request whose answer c waits for.
RequestOf(m, c) ==
    /\ c \in Waiting
    /\ invoke[c] = m.n
    /\ Key(c) = m.key
    /\ m.opt = IF pc[c] = "subscribing" THEN sub[c].opt ELSE "default"

\* The counter has reached every invoke ID in use.
NumbersDrawn ==
    /\ \A c \in Callers : invoke[c] <= draws
    /\ \A n \in acks : n <= draws
    /\ \A m \in net : m.n <= draws

\* A request under way is not yet acknowledged and shares its number with no
\* other.
RequestsDistinct ==
    /\ \A m \in net : m.n \notin acks
    /\ \A m1, m2 \in net : m1.n = m2.n => m1 = m2

\* A request under way is one that somebody waits for, or one given up.
RequestsKnown ==
    \A m \in net :
        /\ \A c \in Waiting : invoke[c] = m.n => RequestOf(m, c)
        /\ m.key \in abandoned \/ \E c \in Callers : RequestOf(m, c)

\* c accounts for the device's subscription k. In UnsubscribeCOV it does until
\* the cancellation is acknowledged.
Holds(c, k) ==
    /\ Key(c) = k
    /\ \/ pc[c] \in {"subscribing", "acked", "subscribed"}
       \/ pc[c] = "cancelling" /\ invoke[c] \notin acks

DeviceHeld == \A k \in device \ abandoned : \E c \in Callers : Holds(c, k)

\* The device has handled the request of c's SubscribeCOV.
Settled(c) ==
    \/ pc[c] \in {"acked", "subscribed"}
    \/ pc[c] = "subscribing" /\ invoke[c] \in acks

SettledAsAsked ==
    \A c \in Callers \ reused :
        Settled(c) /\ sub[c].opt # "lifetime" /\ Key(c) \notin abandoned =>
            /\ Key(c) \in device <=> sub[c].opt = "confirmed"
            /\ Key(c) \notin fading

NetInv ==
    /\ NumbersDrawn
    /\ RequestsDistinct
    /\ RequestsKnown
    /\ DeviceHeld
    /\ SettledAsAsked

\* Numbers, as the steps below compare them.
LEMMA NetTypes ==
    ASSUME TypeOK
    PROVE  /\ draws \in Nat
           /\ \A c \in Callers : invoke[c] \in Nat
           /\ \A n \in acks : n \in Nat
           /\ \A m \in net : m.n \in Nat /\ m.opt \in OptionKinds
           /\ pc \in [Callers -> {"idle", "drawn", "subscribing", "acked",
                                  "subscribed", "cancelling", "cancelled"}]
           /\ DOMAIN sub = Callers /\ DOMAIN invoke = Callers
           /\ fading \subseteq device
BY DEF TypeOK

\* A caller that only moves on between two states in which it waits for
\* nothing.
LEMMA NetMove ==
    ASSUME TypeOK, NetInv, NEW c \in Callers, NEW from, NEW to,
           At(c, from, to),
           <<from, to>> \in {<<"acked", "subscribed">>, <<"cancelled", "idle">>},
           UNCHANGED <<draws, sub, invoke, net, acks, device, fading,
                       abandoned, reused>>
    PROVE  NetInv'
<1>1. /\ \A d \in Callers : Key(d)' = Key(d)
      /\ \A d \in Callers : d # c => pc'[d] = pc[d]
      /\ pc[c] = from /\ pc'[c] = to
  BY NetTypes DEF Key, At
<1>2. Waiting' = Waiting /\ c \notin Waiting
  BY <1>1 DEF Waiting
<1>3. NumbersDrawn' /\ RequestsDistinct'
  BY DEF NetInv, NumbersDrawn, RequestsDistinct
<1>4. \A m \in net, d \in Callers : RequestOf(m, d)' <=> RequestOf(m, d)
  BY <1>1, <1>2 DEF RequestOf
<1>5. RequestsKnown'
  BY <1>2, <1>4 DEF NetInv, RequestsKnown, Waiting
<1>6. DeviceHeld'
  BY <1>1 DEF NetInv, DeviceHeld, Holds
<1>7. SettledAsAsked'
  BY <1>1 DEF NetInv, SettledAsAsked, Settled
<1>8. QED
  BY <1>3, <1>5, <1>6, <1>7 DEF NetInv

\* sendRequest puts the caller's request on the way under a fresh number.
LEMMA NetSend ==
    ASSUME TypeOK, NetInv, NEW c \in Callers, NEW from, NEW to, NEW opt,
           At(c, from, to), Send(c, opt),
           \/ from = "drawn" /\ to = "subscribing" /\ opt = sub[c].opt
           \/ from = "subscribed" /\ to = "cancelling" /\ opt = "default"
    PROVE  NetInv'
<1>0. PICK new : new = [n |-> draws + 1, key |-> Key(c), opt |-> opt]
  OBVIOUS
<1>1. /\ draws' = draws + 1
      /\ \A d \in Callers : Key(d)' = Key(d)
      /\ \A d \in Callers : d # c => pc'[d] = pc[d] /\ invoke'[d] = invoke[d]
      /\ pc[c] = from /\ pc'[c] = to /\ invoke'[c] = draws + 1
      /\ net' = net \cup {new}
      /\ UNCHANGED <<sub, acks, device, fading, abandoned, reused>>
  BY <1>0, NetTypes DEF Send, Draw, Key, At
<1>2. new.n = draws + 1 /\ new.key = Key(c) /\ new.opt = opt
  BY <1>0
<1>3. /\ draws + 1 \notin acks
      /\ \A m \in net : m.n # draws + 1
      /\ \A d \in Callers : invoke[d] # draws + 1
  BY NetTypes DEF NetInv, NumbersDrawn
<1>4. NumbersDrawn'
  BY <1>1, <1>2, NetTypes DEF NetInv, NumbersDrawn
<1>5. RequestsDistinct'
  BY <1>1, <1>2, <1>3 DEF NetInv, RequestsDistinct
<1>6. Waiting' = Waiting \cup {c} /\ c \notin Waiting
  BY <1>1 DEF Waiting
<1>7. RequestOf(new, c)'
  BY <1>1, <1>2, <1>6 DEF RequestOf
<1>8. \A m \in net, d \in Callers : RequestOf(m, d) => RequestOf(m, d)'
  BY <1>1, <1>6 DEF RequestOf
<1>9. RequestsKnown'
  <2> SUFFICES ASSUME NEW m \in net'
               PROVE  /\ \A d \in Waiting' : invoke'[d] = m.n
                                                 => RequestOf(m, d)'
                      /\ m.key \in abandoned'
                           \/ \E d \in Callers : RequestOf(m, d)'
    BY DEF RequestsKnown
  <2>1. CASE m = new
    BY <1>1, <1>2, <1>3, <1>6, <1>7, <2>1 DEF Waiting
  <2>2. CASE m \in net
    BY <1>1, <1>3, <1>6, <1>8, <2>2 DEF NetInv, RequestsKnown, Waiting
  <2>3. QED
    BY <1>1, <2>1, <2>2
<1>10. DeviceHeld'
  BY <1>1, <1>3 DEF NetInv, DeviceHeld, Holds
<1>11. SettledAsAsked'
  BY <1>1, <1>3 DEF NetInv, SettledAsAsked, Settled
<1>12. QED
  BY <1>4, <1>5, <1>9, <1>10, <1>11 DEF NetInv

\* The device handles a request that its caller still waits for, or one given
\* up: in the first case it does what that caller asked for.
LEMMA NetDevice ==
    ASSUME CovInv, NetInv, NEW m \in net, DeviceHandles(m)
    PROVE  NetInv'
<1> USE DEF DeviceHandles
<1>1. TypeOK /\ SharedAreReused
  BY DEF CovInv
<1>2. /\ \A d \in Callers : Key(d)' = Key(d)
      /\ Waiting' = Waiting
      /\ \A x \in net, d \in Callers : RequestOf(x, d)' <=> RequestOf(x, d)
  BY DEF Key, Waiting, RequestOf
<1>3. NumbersDrawn'
  BY DEF NetInv, NumbersDrawn
<1>4. RequestsDistinct'
  BY DEF NetInv, RequestsDistinct
<1>5. RequestsKnown'
  BY <1>2 DEF NetInv, RequestsKnown, Waiting
<1>6. DeviceHeld'
  <2> SUFFICES ASSUME NEW k \in device' \ abandoned
               PROVE  \E c \in Callers : Holds(c, k)'
    BY DEF DeviceHeld
  <2>1. CASE k = m.key
    <3>1. m.opt # "default"
      BY <2>1
    <3>2. PICK c \in Callers : RequestOf(m, c)
      BY <2>1 DEF NetInv, RequestsKnown
    <3>3. pc[c] = "subscribing" /\ Key(c) = k
      BY <2>1, <3>1, <3>2 DEF RequestOf, Waiting
    <3>4. QED
      BY <1>2, <3>3 DEF Holds
  <2>2. CASE k # m.key
    <3>1. PICK c \in Callers : Holds(c, k)
      BY <2>2 DEF NetInv, DeviceHeld
    <3>2. pc[c] = "cancelling" => invoke[c] # m.n
      BY <2>2, <3>1 DEF NetInv, RequestsKnown, RequestOf, Waiting, Holds
    <3>3. QED
      BY <1>2, <3>1, <3>2 DEF Holds
  <2>3. QED
    BY <2>1, <2>2
<1>7. SettledAsAsked'
  <2> SUFFICES ASSUME NEW c \in Callers \ reused, Settled(c)',
                      sub[c].opt # "lifetime", Key(c) \notin abandoned
               PROVE  /\ Key(c) \in device' <=> sub[c].opt = "confirmed"
                      /\ Key(c) \notin fading'
    BY <1>2 DEF SettledAsAsked
  <2>1. CASE Key(c) = m.key
    <3>1. PICK d \in Callers : RequestOf(m, d)
      BY <2>1 DEF NetInv, RequestsKnown
    <3>2. c \in Live /\ d \in Live /\ ID(sub[c].n) = ID(sub[d].n)
      BY <2>1, <3>1 DEF Settled, RequestOf, Waiting, Live, Key
    <3>3. d = c
      BY <1>1, <3>2 DEF SharedAreReused
    <3>4. pc[c] = "subscribing" /\ m.opt = sub[c].opt
      BY <3>1, <3>3 DEF Settled, RequestOf, Waiting
    <3>5. m.opt \in OptionKinds
      BY <1>1, NetTypes
    <3>6. QED
      BY <2>1, <3>4, <3>5 DEF OptionKinds
  <2>2. CASE Key(c) # m.key
    <3>1. Settled(c)
      BY <2>2 DEF Settled, NetInv, RequestsKnown, RequestOf, Waiting
    <3>2. QED
      BY <2>2, <3>1 DEF NetInv, SettledAsAsked
  <2>3. QED
    BY <2>1, <2>2
<1>8. QED
  BY <1>3, <1>4, <1>5, <1>6, <1>7 DEF NetInv

\* Steps that take requests, acknowledgements and subscriptions away, or use
\* up a number.
LEMMA NetLoss ==
    ASSUME TypeOK, NetInv, UNCHANGED <<pc, sub, invoke, reused, abandoned>>,
           draws' \in {draws, draws + 1},
           net' \subseteq net, acks' \subseteq acks,
           \/ UNCHANGED <<device, fading>>
           \/ \E k \in fading : /\ device' = device \ {k}
                                /\ fading' = fading \ {k}
    PROVE  NetInv'
<1>1. /\ \A d \in Callers : Key(d)' = Key(d)
      /\ Waiting' = Waiting
      /\ \A x \in net, d \in Callers : RequestOf(x, d)' <=> RequestOf(x, d)
  BY DEF Key, Waiting, RequestOf
<1>2. NumbersDrawn'
  BY NetTypes DEF NetInv, NumbersDrawn
<1>3. RequestsDistinct'
  BY DEF NetInv, RequestsDistinct
<1>4. RequestsKnown'
  BY <1>1 DEF NetInv, RequestsKnown, Waiting
<1>5. DeviceHeld'
  BY <1>1 DEF NetInv, DeviceHeld, Holds
<1>6. SettledAsAsked'
  BY <1>1 DEF NetInv, SettledAsAsked, Settled
<1>7. QED
  BY <1>2, <1>3, <1>4, <1>5, <1>6 DEF NetInv

\* Every step keeps NetInv.
LEMMA NetStep == CovInv /\ NetInv /\ [Next]_vars => NetInv'
<1> SUFFICES ASSUME CovInv, NetInv, [Next]_vars PROVE NetInv'
  OBVIOUS
<1>1. TypeOK
  BY DEF CovInv
<1>2. ASSUME NEW c \in Callers, SubscribeCOV(c) PROVE NetInv'
  <2>1. /\ draws' = draws + 1
        /\ \A d \in Callers : d # c => /\ pc'[d] = pc[d] /\ sub'[d] = sub[d]
                                       /\ Key(d)' = Key(d)
        /\ pc[c] = "idle" /\ pc'[c] = "drawn"
        /\ reused \ {c} \subseteq reused'
        /\ UNCHANGED <<invoke, net, acks, device, fading, abandoned>>
    BY <1>1, <1>2, NetTypes DEF SubscribeCOV, At, Draw, Key
  <2>2. Waiting' = Waiting /\ c \notin Waiting
    BY <2>1 DEF Waiting
  <2>3. NumbersDrawn' /\ RequestsDistinct'
    BY <1>1, <2>1, NetTypes DEF NetInv, NumbersDrawn, RequestsDistinct
  <2>4. \A m \in net, d \in Callers : RequestOf(m, d)' <=> RequestOf(m, d)
    BY <2>1, <2>2 DEF RequestOf
  <2>5. RequestsKnown'
    BY <2>1, <2>2, <2>4 DEF NetInv, RequestsKnown, Waiting
  <2>6. DeviceHeld'
    BY <2>1 DEF NetInv, DeviceHeld, Holds
  <2>7. SettledAsAsked'
    BY <2>1 DEF NetInv, SettledAsAsked, Settled
  <2>8. QED
    BY <2>3, <2>5, <2>6, <2>7 DEF NetInv
<1>3. ASSUME NEW c \in Callers, SendSubscribe(c) \/ UnsubscribeCOV(c)
      PROVE  NetInv'
  BY <1>1, <1>3, NetSend DEF SendSubscribe, UnsubscribeCOV
<1>4. ASSUME NEW c \in Callers, Acknowledged(c) PROVE NetInv'
  <2>1. /\ \A d \in Callers : Key(d)' = Key(d)
        /\ \A d \in Callers : d # c => pc'[d] = pc[d]
        /\ \/ pc[c] = "subscribing" /\ pc'[c] = "acked"
           \/ pc[c] = "cancelling" /\ pc'[c] = "cancelled"
        /\ invoke[c] \in acks /\ acks' = acks \ {invoke[c]}
        /\ UNCHANGED <<draws, sub, invoke, reused, net, device, fading,
                       abandoned>>
    BY <1>1, <1>4, NetTypes DEF Acknowledged, At, Key
  <2>2. Waiting' = Waiting \ {c}
    BY <2>1 DEF Waiting
  <2>3. NumbersDrawn' /\ RequestsDistinct'
    BY <2>1 DEF NetInv, NumbersDrawn, RequestsDistinct
  <2>4. \A m \in net, d \in Callers : RequestOf(m, d) => RequestOf(m, d)'
    BY <2>1, <2>2 DEF RequestOf, NetInv, RequestsDistinct
  <2>5. RequestsKnown'
    BY <2>1, <2>2, <2>4 DEF NetInv, RequestsKnown, Waiting
  <2>6. DeviceHeld'
    BY <2>1 DEF NetInv, DeviceHeld, Holds
  <2>7. SettledAsAsked'
    BY <2>1 DEF NetInv, SettledAsAsked, Settled
  <2>8. QED
    BY <2>3, <2>5, <2>6, <2>7 DEF NetInv
<1>5. ASSUME NEW c \in Callers, RequestFails(c) PROVE NetInv'
  <2>1. /\ \A d \in Callers : Key(d)' = Key(d)
        /\ \A d \in Callers : d # c => pc'[d] = pc[d]
        /\ \/ pc[c] = "subscribing" /\ pc'[c] = "idle"
           \/ pc[c] = "cancelling" /\ pc'[c] = "subscribed"
        /\ abandoned' = abandoned \cup {Key(c)}
        /\ UNCHANGED <<draws, sub, invoke, reused, net, acks, device, fading>>
    BY <1>1, <1>5, NetTypes DEF RequestFails, At, Key
  <2>2. Waiting' = Waiting \ {c}
    BY <2>1 DEF Waiting
  <2>3. NumbersDrawn' /\ RequestsDistinct'
    BY <2>1 DEF NetInv, NumbersDrawn, RequestsDistinct
  <2>4. \A m \in net, d \in Callers :
            RequestOf(m, d) => RequestOf(m, d)' \/ (d = c /\ m.key = Key(c))
    BY <2>1, <2>2 DEF RequestOf
  <2>5. RequestsKnown'
    BY <2>1, <2>2, <2>4 DEF NetInv, RequestsKnown, Waiting
  <2>6. DeviceHeld'
    BY <2>1 DEF NetInv, DeviceHeld, Holds
  <2>7. SettledAsAsked'
    BY <2>1 DEF NetInv, SettledAsAsked, Settled
  <2>8. QED
    BY <2>3, <2>5, <2>6, <2>7 DEF NetInv
<1>6. ASSUME NEW c \in Callers, RegisterHandler(c) \/ RemoveHandler(c)
      PROVE  NetInv'
  BY <1>1, <1>6, NetMove DEF RegisterHandler, RemoveHandler, SetHandler
<1>7. ASSUME NEW m \in net, DeviceHandles(m) PROVE NetInv'
  BY <1>7, NetDevice
<1>8. CASE \/ OtherRequest
           \/ \E m \in net : Lose(m)
           \/ \E n \in acks : LoseAck(n)
           \/ \E k \in fading : Expire(k)
           \/ UNCHANGED vars
  BY <1>1, <1>8, NetLoss DEF OtherRequest, Draw, Lose, LoseAck, Expire, vars
<1>9. QED
  BY <1>2, <1>3, <1>4, <1>5, <1>6, <1>7, <1>8 DEF Next, Call

\* Both invariants hold in every behaviour.
LEMMA CovNetCorrect == Spec => [](CovInv /\ NetInv)
<1>1. Init => CovInv /\ NetInv
  <2> SUFFICES ASSUME Init PROVE NetInv
    BY CovInit
  <2>1. NumbersDrawn /\ RequestsDistinct /\ RequestsKnown /\ DeviceHeld
    BY DEF Init, NumbersDrawn, RequestsDistinct, RequestsKnown, DeviceHeld
  <2>2. SettledAsAsked
    BY DEF Init, SettledAsAsked, Settled
  <2>3. QED
    BY <2>1, <2>2 DEF NetInv
<1>2. CovInv /\ NetInv /\ [Next]_vars => (CovInv /\ NetInv)'
  BY CovStep, NetStep
<1>3. QED
  BY <1>1, <1>2, PTL DEF Spec

\* The device keeps a subscription only for a caller of SubscribeCOV that has
\* sent its request and not yet seen its cancellation acknowledged, except
\* after a request was given up, whatever the network loses or delays.
THEOREM DeviceSubscriptionsKnownCorrect == Spec => []DeviceSubscriptionsKnown
<1>1. CovInv /\ NetInv => DeviceSubscriptionsKnown
  BY DEF NetInv, DeviceHeld, Holds, DeviceSubscriptionsKnown
<1>2. QED
  BY <1>1, CovNetCorrect, PTL

\* A confirmed subscription that SubscribeCOV was acknowledged for is at the device
\* until UnsubscribeCOV, unless the identifier was shared or a request given up.
THEOREM KeptIfConfirmedCorrect == Spec => []KeptIfConfirmed
<1>1. CovInv /\ NetInv => KeptIfConfirmed
  BY DEF NetInv, SettledAsAsked, Settled, KeptIfConfirmed
<1>2. QED
  BY <1>1, CovNetCorrect, PTL

\* The type invariant: identifiers keep the width of an invoke ID in requests
\* and at the device.
THEOREM CovTypes == Spec => []TypeOK
<1>1. Init => TypeOK
  BY CovInit DEF CovInv
<1>2. QED
  BY <1>1, TypeStep, PTL DEF Spec

=============================================================================
