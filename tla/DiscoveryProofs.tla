--------------------------- MODULE DiscoveryProofs --------------------------
(***************************************************************************)
(* Proofs about Discovery, for any devices, addresses, callers and packet  *)
(* handlers, and about GetObjectList, which lists the objects of a device, *)
(* for any objects and any list that the loop variable can count.          *)
(***************************************************************************)
EXTENDS Discovery, ObjectList, FiniteSetTheorems, TLAPS

-----------------------------------------------------------------------------
(***************************************************************************)
(* The inductive invariant, in named parts.                                *)
(***************************************************************************)

Midway == {"whois", "sleep", "again"}

\* A caller that has not begun has no target; one that has not ended has no
\* result.
CallersClean ==
    \A c \in Callers :
        /\ cpc[c] = "idle" => target[c] = None
        /\ cpc[c] # "done" => result[c] = NoResult

\* While a call is under way, held follows the entry of its target.
HeldFollows ==
    \A c \in Callers :
        cpc[c] \in Midway /\ target[c] # None =>
            IF devices[target[c]] = None THEN held[c] = {}
            ELSE devices[target[c]] \in held[c]

\* What is registered stays in the cache.
RegisteredCached ==
    \A d \in DeviceIDs : registered[d] # None => devices[d] # None

ResolveInv ==
    /\ TypeOK
    /\ CallersClean
    /\ HeldFollows
    /\ RegisteredCached
    /\ NotFoundMeansAbsent
    /\ ResolvedWasHeld
    /\ NoWhoIsForRegistered

USE NoneAssumption, NoAddressAssumption
USE DEF cacheVars, handlerVars, callerVars

-----------------------------------------------------------------------------
\* The addresses the application and the I-Am handlers store are addresses of
\* the cache.
LEMMA StoredAddresses ==
    /\ \A h \in Hosts \cup {None}, p \in Ports :
          NewRemoteDevice(h, p) \in Addresses
    /\ \A h \in Hosts, src \in Sources : IAmAddress(h, src) \in Addresses
BY DEF NewRemoteDevice, IAmAddress, Addresses, Sources

\* Converting an address never gives ErrDeviceNotFound.
LEMMA ConvertedIsNoError ==
    ASSUME NEW a \in Addresses
    PROVE  ToUDP(a) # ErrDeviceNotFound
<1>1. CASE a.form = "ip" \/ a.form = "ipPort"
  <2>1. \E h, p : ToUDP(a) = UDPAddr(h, p)
    BY <1>1 DEF ToUDP
  <2>2. \A h, p : "err" \notin DOMAIN UDPAddr(h, p)
    BY DEF UDPAddr
  <2>3. "err" \in DOMAIN ErrDeviceNotFound
    BY DEF ErrDeviceNotFound
  <2>4. QED
    BY <2>1, <2>2, <2>3
<1>2. CASE ~(a.form = "ip" \/ a.form = "ipPort")
  <2>1. ToUDP(a) = InvalidAddress
    BY <1>2 DEF ToUDP
  <2>2. InvalidAddress.err # ErrDeviceNotFound.err
    BY DEF InvalidAddress, ErrDeviceNotFound
  <2>3. QED
    BY <2>1, <2>2
<1>3. QED
  BY <1>1, <1>2

\* No other result of a call is ErrDeviceNotFound either.
LEMMA OtherResults ==
    /\ NoResult # ErrDeviceNotFound
    /\ ErrNotConnected # ErrDeviceNotFound
    /\ SendError # ErrDeviceNotFound
    /\ \A ds : Found(ds) # ErrDeviceNotFound
<1>1. NoResult.err # ErrDeviceNotFound.err
  BY DEF NoResult, ErrDeviceNotFound
<1>2. ErrNotConnected.err # ErrDeviceNotFound.err
  BY DEF ErrNotConnected, ErrDeviceNotFound
<1>3. SendError.err # ErrDeviceNotFound.err
  BY DEF SendError, ErrDeviceNotFound
<1>4. \A ds : "err" \notin DOMAIN Found(ds)
  BY DEF Found
<1>5. "err" \in DOMAIN ErrDeviceNotFound
  BY DEF ErrDeviceNotFound
<1>6. QED
  BY <1>1, <1>2, <1>3, <1>4, <1>5

\* Every step keeps the variables in their types.
LEMMA TypeStep == TypeOK /\ [Next]_vars => TypeOK'
<1> SUFFICES ASSUME TypeOK, [Next]_vars PROVE TypeOK'
  OBVIOUS
<1> USE DEF TypeOK
<1>1. ASSUME NEW d \in DeviceIDs, NEW a \in Addresses, Put(d, a)
      PROVE  /\ devices' \in [DeviceIDs -> Addresses \cup {None}]
             /\ held' \in [Callers -> SUBSET Addresses]
  BY <1>1 DEF Put
<1>2. CASE StateStore
  BY <1>2 DEF StateStore
<1>3. ASSUME NEW d \in DeviceIDs, NEW a \in Addresses, RegisterDevice(d, a)
      PROVE  TypeOK'
  BY <1>1, <1>3 DEF RegisterDevice
<1>4. ASSUME NEW h \in Handlers, NEW d \in DeviceIDs, NEW a \in Addresses,
             ReceiveIAm(h, d, a)
      PROVE  TypeOK'
  BY <1>4 DEF ReceiveIAm, Messages
<1>5. ASSUME NEW h \in Handlers, StoreIAm(h) PROVE TypeOK'
  <2>1. hmsg[h] \in Messages
    BY <1>5 DEF StoreIAm, Stored
  <2>2. hmsg[h].id \in DeviceIDs /\ hmsg[h].addr \in Addresses
    BY <2>1 DEF Messages
  <2>3. QED
    BY <1>1, <1>5, <2>2 DEF StoreIAm, Stored
<1>6. ASSUME NEW h \in Handlers, CountIAm(h) PROVE TypeOK'
  BY <1>6 DEF CountIAm
<1>7. ASSUME NEW c \in Callers, NEW d \in DeviceIDs, ResolveDevice(c, d)
      PROVE  TypeOK'
  <2>1. \A a \in Addresses : ToUDP(a) \in Results
    BY DEF Results
  <2>2. QED
    BY <1>7, <2>1 DEF ResolveDevice, Begin, Return, Continue
<1>8. ASSUME NEW c \in Callers, WhoIs(c) PROVE TypeOK'
  BY <1>8 DEF WhoIs, Begin, Continue
<1>9. ASSUME NEW c \in Callers, CallerSteps(c) PROVE TypeOK'
  <2>1. \A a \in Addresses : ToUDP(a) \in Results
    BY DEF Results
  <2>2. /\ ErrNotConnected \in Results /\ ErrDeviceNotFound \in Results
        /\ SendError \in Results
        /\ Found({d \in DeviceIDs : devices[d] # None}) \in Results
    BY DEF Results
  <2>3. CASE SendWhoIs(c)
    BY <2>2, <2>3 DEF SendWhoIs, Return, Continue
  <2>4. CASE Collect(c)
    BY <2>2, <2>4 DEF Collect, Return, Continue
  <2>5. CASE ResolveAgain(c)
    BY <2>1, <2>2, <2>5 DEF ResolveAgain, Return
  <2>6. QED
    BY <1>9, <2>3, <2>4, <2>5 DEF CallerSteps
<1>10. CASE UNCHANGED vars
  BY <1>10 DEF vars
<1>11. QED
  BY <1>2, <1>3, <1>4, <1>5, <1>6, <1>7, <1>8, <1>9, <1>10, StoredAddresses
  DEF Next, IAm

\* The initial state has the types.
LEMMA TypeInit == Init => TypeOK
<1> SUFFICES ASSUME Init PROVE TypeOK
  OBVIOUS
<1>1. result \in [Callers -> Results] /\ connected \in BOOLEAN
  BY DEF Init, Results
<1>2. known \in [Callers -> BOOLEAN]
  BY DEF Init
<1>3. QED
  BY <1>1, <1>2 DEF Init, TypeOK

\* Every variable of the device cache, of the I-Am handlers and of the calls
\* keeps its type; ports in the cache are those of two bytes.
THEOREM DiscoveryTypes == Spec => []TypeOK
BY TypeInit, TypeStep, PTL DEF Spec

-----------------------------------------------------------------------------
(***************************************************************************)
(* Resolution.                                                             *)
(***************************************************************************)

\* Storing an entry, by RegisterDevice or by an I-Am, disturbs no call.
LEMMA PutKeeps ==
    ASSUME ResolveInv, NEW d \in DeviceIDs, NEW a \in Addresses, Put(d, a),
           UNCHANGED callerVars,
           registered' \in {registered, [registered EXCEPT ![d] = a]}
    PROVE  /\ CallersClean' /\ HeldFollows' /\ RegisteredCached'
           /\ NotFoundMeansAbsent' /\ ResolvedWasHeld'
           /\ NoWhoIsForRegistered'
<1>a. /\ devices \in [DeviceIDs -> Addresses \cup {None}]
      /\ registered \in [DeviceIDs -> Addresses \cup {None}]
      /\ held \in [Callers -> SUBSET Addresses]
      /\ target \in [Callers -> DeviceIDs \cup {None}]
      /\ cpc \in [Callers -> {"idle", "whois", "sleep", "again", "done"}]
  BY DEF ResolveInv, TypeOK
<1>1. CallersClean' /\ NoWhoIsForRegistered'
  BY DEF ResolveInv, CallersClean, NoWhoIsForRegistered
<1>2. RegisteredCached'
  BY <1>a DEF ResolveInv, RegisteredCached, Put
<1>3. HeldFollows'
  <2> SUFFICES ASSUME NEW c \in Callers, cpc[c] \in Midway, target[c] # None
               PROVE  IF devices'[target[c]] = None THEN held'[c] = {}
                      ELSE devices'[target[c]] \in held'[c]
    BY DEF HeldFollows
  <2>1. CASE target[c] = d
    BY <1>a, <2>1 DEF Put, Midway
  <2>2. CASE target[c] # d
    BY <1>a, <2>2 DEF Put, ResolveInv, HeldFollows
  <2>3. QED
    BY <2>1, <2>2
<1>4. \A c \in Callers : cpc[c] = "done" => held'[c] = held[c]
  BY DEF Put
<1>5. NotFoundMeansAbsent' /\ ResolvedWasHeld'
  BY <1>4, OtherResults DEF ResolveInv, CallersClean, NotFoundMeansAbsent,
     ResolvedWasHeld
<1>6. QED
  BY <1>1, <1>2, <1>3, <1>5

\* Every step keeps the invariant.
LEMMA ResolveStep == ResolveInv /\ [Next]_vars => ResolveInv'
<1> DEFINE Goal == /\ CallersClean' /\ HeldFollows' /\ RegisteredCached'
                   /\ NotFoundMeansAbsent' /\ ResolvedWasHeld'
                   /\ NoWhoIsForRegistered'
<1> SUFFICES ASSUME ResolveInv, [Next]_vars PROVE Goal
  BY TypeStep DEF ResolveInv
<1>a. /\ devices \in [DeviceIDs -> Addresses \cup {None}]
      /\ held \in [Callers -> SUBSET Addresses]
      /\ target \in [Callers -> DeviceIDs \cup {None}]
      /\ cpc \in [Callers -> {"idle", "whois", "sleep", "again", "done"}]
      /\ known \in [Callers -> BOOLEAN]
      /\ \A h \in Handlers : hpc[h] = "decoded" => hmsg[h] \in Messages
      /\ CallersClean /\ HeldFollows /\ RegisteredCached
      /\ NotFoundMeansAbsent /\ ResolvedWasHeld /\ NoWhoIsForRegistered
      /\ result \in [Callers -> Results]
  BY DEF ResolveInv, TypeOK
<1>1. UNCHANGED <<cacheVars, callerVars>> => Goal
  BY <1>a DEF CallersClean, HeldFollows, RegisteredCached,
     NotFoundMeansAbsent, ResolvedWasHeld, NoWhoIsForRegistered
<1>2. CASE StateStore
  BY <1>1, <1>2 DEF StateStore
<1>3. ASSUME NEW d \in DeviceIDs, NEW a \in Addresses, RegisterDevice(d, a)
      PROVE  Goal
  BY <1>3, PutKeeps DEF RegisterDevice
<1>4. ASSUME NEW h \in Handlers, StoreIAm(h) PROVE Goal
  <2>1. hmsg[h].id \in DeviceIDs /\ hmsg[h].addr \in Addresses
    BY <1>a, <1>4 DEF StoreIAm, Stored, Messages
  <2>2. QED
    BY <1>4, <2>1, PutKeeps DEF StoreIAm, Stored
<1>5. ASSUME NEW h \in Handlers, NEW d \in DeviceIDs, NEW a \in Addresses,
             ReceiveIAm(h, d, a)
      PROVE  Goal
  BY <1>1, <1>5 DEF ReceiveIAm
<1>6. ASSUME NEW h \in Handlers, CountIAm(h) PROVE Goal
  BY <1>1, <1>6 DEF CountIAm
<1>7. CASE UNCHANGED vars
  BY <1>1, <1>7 DEF vars
<1>8. ASSUME NEW c \in Callers, NEW d \in DeviceIDs, ResolveDevice(c, d)
      PROVE  Goal
  <2>1. /\ cpc[c] = "idle" /\ UNCHANGED <<devices, registered>>
        /\ target' = [target EXCEPT ![c] = d]
        /\ held' = [held EXCEPT ![c] = {devices[d]} \ {None}]
        /\ known' = [known EXCEPT ![c] = registered[d] # None]
    BY <1>8 DEF ResolveDevice, Begin
  <2>2. RegisteredCached'
    BY <1>a, <2>1 DEF RegisteredCached
  <2>3. CASE devices[d] # None
    <3>1. /\ cpc' = [cpc EXCEPT ![c] = "done"]
          /\ result' = [result EXCEPT ![c] = ToUDP(devices[d])]
      BY <1>8, <2>3 DEF ResolveDevice, Return
    <3>2. devices[d] \in Addresses /\ devices[d] \in held'[c]
      BY <1>a, <2>1, <2>3
    <3>3. CallersClean' /\ HeldFollows' /\ NoWhoIsForRegistered'
      BY <1>a, <2>1, <3>1 DEF CallersClean, HeldFollows, Midway,
         NoWhoIsForRegistered
    <3>4. NotFoundMeansAbsent'
      BY <1>a, <2>1, <3>1, <3>2, ConvertedIsNoError DEF NotFoundMeansAbsent
    <3>5. ResolvedWasHeld'
      BY <1>a, <2>1, <3>1, <3>2 DEF ResolvedWasHeld
    <3>6. QED
      BY <2>2, <3>3, <3>4, <3>5
  <2>4. CASE devices[d] = None
    <3>1. cpc' = [cpc EXCEPT ![c] = "whois"] /\ result' = result
      BY <1>8, <2>4 DEF ResolveDevice, Continue
    <3>2. CallersClean'
      BY <1>a, <2>1, <3>1 DEF CallersClean
    <3>3. HeldFollows'
      BY <1>a, <2>1, <2>4, <3>1 DEF HeldFollows, Midway
    <3>4. NoWhoIsForRegistered'
      <4>1. ~known'[c]
        BY <1>a, <2>1, <2>4 DEF RegisteredCached
      <4>2. QED
        BY <1>a, <2>1, <3>1, <4>1 DEF NoWhoIsForRegistered
    <3>5. NotFoundMeansAbsent' /\ ResolvedWasHeld'
      BY <1>a, <2>1, <3>1, OtherResults DEF NotFoundMeansAbsent,
         ResolvedWasHeld, CallersClean
    <3>6. QED
      BY <2>2, <3>2, <3>3, <3>4, <3>5
  <2>5. QED
    BY <2>3, <2>4
<1>9. ASSUME NEW c \in Callers, WhoIs(c) PROVE Goal
  <2>1. /\ cpc[c] = "idle" /\ UNCHANGED <<devices, registered, held, result>>
        /\ target' = [target EXCEPT ![c] = None]
        /\ known' = [known EXCEPT ![c] = FALSE]
        /\ cpc' = [cpc EXCEPT ![c] = "whois"]
    BY <1>9 DEF WhoIs, Begin, Continue
  <2>2. CallersClean' /\ RegisteredCached' /\ NoWhoIsForRegistered'
    BY <1>a, <2>1 DEF CallersClean, RegisteredCached, NoWhoIsForRegistered
  <2>3. HeldFollows' /\ NotFoundMeansAbsent' /\ ResolvedWasHeld'
    BY <1>a, <2>1 DEF HeldFollows, Midway, NotFoundMeansAbsent, ResolvedWasHeld
  <2>4. QED
    BY <2>2, <2>3
<1>10. ASSUME NEW c \in Callers, NEW point \in Midway,
              cpc[c] \in Midway, Continue(c, point),
              UNCHANGED <<cacheVars, target, known>>
       PROVE  Goal
  <2>1. CallersClean' /\ RegisteredCached' /\ NoWhoIsForRegistered'
    BY <1>a, <1>10 DEF Continue, CallersClean, RegisteredCached,
       NoWhoIsForRegistered, Midway
  <2>2. HeldFollows' /\ NotFoundMeansAbsent' /\ ResolvedWasHeld'
    BY <1>a, <1>10 DEF Continue, HeldFollows, Midway, NotFoundMeansAbsent,
       ResolvedWasHeld
  <2>3. QED
    BY <2>1, <2>2
<1>11. ASSUME NEW c \in Callers, NEW res, Return(c, res), cpc[c] \in Midway,
              res = ErrDeviceNotFound => held[c] = {},
              \/ target[c] = None
              \/ res \in {ErrNotConnected, SendError, ErrDeviceNotFound}
              \/ \E a \in held[c] : res = ToUDP(a),
              UNCHANGED <<cacheVars, target, known>>
       PROVE  Goal
  <2>1. CallersClean' /\ RegisteredCached' /\ NoWhoIsForRegistered'
    BY <1>a, <1>11 DEF Return, CallersClean, RegisteredCached,
       NoWhoIsForRegistered, Midway
  <2>2. HeldFollows' /\ NotFoundMeansAbsent'
    BY <1>a, <1>11 DEF Return, HeldFollows, Midway, NotFoundMeansAbsent
  <2>3. ResolvedWasHeld'
    BY <1>a, <1>11 DEF Return, ResolvedWasHeld
  <2>4. QED
    BY <2>1, <2>2, <2>3
<1>12. ASSUME NEW c \in Callers, SendWhoIs(c) PROVE Goal
  BY <1>10, <1>11, <1>12, OtherResults DEF SendWhoIs, Midway
<1>13. ASSUME NEW c \in Callers, Collect(c) PROVE Goal
  BY <1>10, <1>11, <1>13, OtherResults DEF Collect, Midway
<1>14. ASSUME NEW c \in Callers, ResolveAgain(c) PROVE Goal
  <2> DEFINE a == devices[target[c]]
             res == IF a = None THEN ErrDeviceNotFound ELSE ToUDP(a)
  <2>1. /\ cpc[c] \in Midway /\ Return(c, res)
        /\ UNCHANGED <<cacheVars, target, known>>
    BY <1>14 DEF ResolveAgain, Midway
  <2>2. target[c] \in DeviceIDs
    BY <1>14, <1>a DEF ResolveAgain, ResolveInv, TypeOK
  <2>3. a = None => held[c] = {}
    BY <1>a, <2>1, <2>2 DEF HeldFollows
  <2>4. a # None => a \in held[c] /\ res # ErrDeviceNotFound
    BY <1>a, <2>1, <2>2, ConvertedIsNoError DEF HeldFollows
  <2>5. QED
    BY <1>11, <2>1, <2>3, <2>4
<1>15. QED
  BY <1>2, <1>3, <1>4, <1>5, <1>6, <1>7, <1>8, <1>9, <1>12, <1>13, <1>14,
     StoredAddresses
  DEF Next, IAm, CallerSteps

\* The initial state satisfies the invariant.
LEMMA ResolveInit == Init => ResolveInv
<1> SUFFICES ASSUME Init PROVE ResolveInv
  OBVIOUS
<1>1. TypeOK
  BY TypeInit
<1>2. CallersClean /\ HeldFollows /\ RegisteredCached
  BY DEF Init, CallersClean, HeldFollows, Midway, RegisteredCached
<1>3. NotFoundMeansAbsent /\ ResolvedWasHeld /\ NoWhoIsForRegistered
  BY DEF Init, NotFoundMeansAbsent, ResolvedWasHeld, NoWhoIsForRegistered
<1>4. QED
  BY <1>1, <1>2, <1>3 DEF ResolveInv

\* A resolveDevice that fails with ErrDeviceNotFound missed nothing: the cache
\* had no entry for its device from the first lookup to the last.
THEOREM NotFoundCorrect == Spec => []NotFoundMeansAbsent
<1>1. ResolveInv => NotFoundMeansAbsent
  BY DEF ResolveInv
<1>2. QED
  BY <1>1, ResolveInit, ResolveStep, PTL DEF Spec

\* What resolveDevice returns is an address the cache held for that very
\* device during the call.
THEOREM ResolvedCorrect == Spec => []ResolvedWasHeld
<1>1. ResolveInv => ResolvedWasHeld
  BY DEF ResolveInv
<1>2. QED
  BY <1>1, ResolveInit, ResolveStep, PTL DEF Spec

\* resolveDevice sends no Who-Is for a device registered before the call.
THEOREM NoWhoIsCorrect == Spec => []NoWhoIsForRegistered
<1>1. ResolveInv => NoWhoIsForRegistered
  BY DEF ResolveInv
<1>2. QED
  BY <1>1, ResolveInit, ResolveStep, PTL DEF Spec

\* No step removes a device from the cache.
THEOREM NeverEvictsCorrect == Spec => NeverEvicts
<1>1. TypeOK /\ [Next]_vars => [Cached \subseteq Cached']_vars
  <2> SUFFICES ASSUME TypeOK, Next PROVE Cached \subseteq Cached'
    OBVIOUS
  <2>a. devices \in [DeviceIDs -> Addresses \cup {None}]
    BY DEF TypeOK
  <2>1. ASSUME NEW d \in DeviceIDs, NEW a \in Addresses, Put(d, a)
        PROVE  Cached \subseteq Cached'
    BY <2>a, <2>1 DEF Put, Cached
  <2>2. UNCHANGED devices => Cached \subseteq Cached'
    BY DEF Cached
  <2>3. ASSUME NEW h \in Handlers, StoreIAm(h) PROVE Cached \subseteq Cached'
    <3>1. hmsg[h] \in Messages
      BY <2>3 DEF StoreIAm, Stored, TypeOK
    <3>2. QED
      BY <2>1, <2>3, <3>1 DEF StoreIAm, Messages
  <2>4. QED
    BY <2>1, <2>2, <2>3, StoredAddresses
    DEF Next, StateStore, RegisterDevice, ReceiveIAm, IAm, CountIAm,
        ResolveDevice, WhoIs, CallerSteps, SendWhoIs, Collect, ResolveAgain
<1>2. QED
  BY <1>1, DiscoveryTypes, PTL DEF Spec, NeverEvicts

-----------------------------------------------------------------------------
(***************************************************************************)
(* The counter of discovered devices.                                      *)
(***************************************************************************)

Uncounted == {h \in Handlers : hpc[h] = "new"}

\* Storing an entry makes the cache grow by one device if it was not there,
\* and not at all if it was.
LEMMA CachedGrows ==
    ASSUME TypeOK, NEW d \in DeviceIDs, NEW a \in Addresses, Put(d, a)
    PROVE  /\ Cardinality(Cached) \in Nat
           /\ devices[d] # None => Cardinality(Cached') = Cardinality(Cached)
           /\ devices[d] = None => Cardinality(Cached') = Cardinality(Cached) + 1
<1>1. IsFiniteSet(Cached)
  BY FiniteAssumption, FS_Subset DEF Cached
<1>2. Cached' = Cached \cup {d}
  BY DEF TypeOK, Put, Cached
<1>3. d \in Cached <=> devices[d] # None
  BY DEF Cached
<1>4. QED
  BY <1>1, <1>2, <1>3, FS_CardinalityType, FS_AddElement

\* Every step keeps the counter within the devices in the cache.
LEMMA CountStep == TypeOK /\ CountedOnce /\ [Next]_vars => CountedOnce'
<1> SUFFICES ASSUME TypeOK, CountedOnce, [Next]_vars PROVE CountedOnce'
  OBVIOUS
<1>1. /\ IsFiniteSet(Uncounted) /\ IsFiniteSet(Cached)
      /\ Cardinality(Uncounted) \in Nat /\ Cardinality(Cached) \in Nat
      /\ discovered \in Nat
  BY FiniteAssumption, FS_Subset, FS_CardinalityType
  DEF Uncounted, Cached, TypeOK
<1>2. discovered + Cardinality(Uncounted) <= Cardinality(Cached)
  BY DEF CountedOnce, Uncounted
<1>3. SUFFICES discovered' + Cardinality(Uncounted') <= Cardinality(Cached')
  BY DEF CountedOnce, Uncounted
<1>4. UNCHANGED <<devices, hpc, discovered>> =>
          discovered' + Cardinality(Uncounted') <= Cardinality(Cached')
  BY <1>2 DEF Uncounted, Cached
<1>5. ASSUME NEW d \in DeviceIDs, NEW a \in Addresses, RegisterDevice(d, a)
      PROVE  CountedOnce'
  <2>1. Uncounted' = Uncounted /\ discovered' = discovered
    BY <1>5 DEF RegisterDevice, Uncounted
  <2>2. \/ Cardinality(Cached') = Cardinality(Cached)
        \/ Cardinality(Cached') = Cardinality(Cached) + 1
    BY <1>5, CachedGrows DEF RegisterDevice
  <2>3. PICK m, n, k : /\ m = Cardinality(Uncounted) /\ n = Cardinality(Cached)
                       /\ k = Cardinality(Cached')
    OBVIOUS
  <2>4. m \in Nat /\ n \in Nat /\ discovered \in Nat /\ discovered + m <= n
        /\ (k = n \/ k = n + 1)
    BY <1>1, <1>2, <2>2, <2>3, Zenon
  <2>5. discovered + m <= k
    BY <2>4, SMT
  <2>6. QED
    BY <2>1, <2>3, <2>5, Zenon DEF CountedOnce, Uncounted
<1>6. ASSUME NEW h \in Handlers, StoreIAm(h) PROVE CountedOnce'
  <2>1. hmsg[h].id \in DeviceIDs /\ hmsg[h].addr \in Addresses
    BY <1>6 DEF StoreIAm, Stored, TypeOK, Messages
  <2>2. Put(hmsg[h].id, hmsg[h].addr) /\ discovered' = discovered
    BY <1>6 DEF StoreIAm, Stored
  <2>3. CASE devices[hmsg[h].id] # None
    <3>1. Uncounted' = Uncounted
      BY <1>6, <2>3 DEF StoreIAm, Stored, Uncounted, TypeOK
    <3>2. Cardinality(Cached') = Cardinality(Cached)
      BY <2>1, <2>2, <2>3, CachedGrows
    <3>3. QED
      BY <1>1, <1>2, <2>2, <3>1, <3>2 DEF CountedOnce, Uncounted
  <2>4. CASE devices[hmsg[h].id] = None
    <3>1. h \notin Uncounted /\ Uncounted' = Uncounted \cup {h}
      BY <1>6, <2>4 DEF StoreIAm, Stored, Uncounted, TypeOK
    <3>2. Cardinality(Cached') = Cardinality(Cached) + 1
      BY <2>1, <2>2, <2>4, CachedGrows
    <3>3. Cardinality(Uncounted') = Cardinality(Uncounted) + 1
      BY <1>1, <3>1, FS_AddElement
    <3>4. QED
      BY <1>1, <1>2, <2>2, <3>2, <3>3 DEF CountedOnce, Uncounted
  <2>5. QED
    BY <2>3, <2>4
<1>7. ASSUME NEW h \in Handlers, CountIAm(h) PROVE CountedOnce'
  <2>1. h \in Uncounted /\ Uncounted' = Uncounted \ {h}
    BY <1>7 DEF CountIAm, Uncounted, TypeOK
  <2>2. discovered' = discovered + 1 /\ Cached' = Cached
    BY <1>7 DEF CountIAm, Cached
  <2>3. Cardinality(Uncounted') = Cardinality(Uncounted) - 1
    BY <1>1, <2>1, FS_RemoveElement
  <2>4. QED
    BY <1>1, <1>2, <2>2, <2>3 DEF CountedOnce, Uncounted
<1>8. ASSUME NEW h \in Handlers, NEW d \in DeviceIDs, NEW a \in Addresses,
             ReceiveIAm(h, d, a)
      PROVE  CountedOnce'
  <2>1. Uncounted' = Uncounted /\ discovered' = discovered /\ Cached' = Cached
    BY <1>8 DEF ReceiveIAm, Uncounted, Cached, TypeOK
  <2>2. QED
    BY <1>2, <2>1 DEF CountedOnce, Uncounted
<1>9. CASE \/ StateStore
           \/ \E c \in Callers : \/ \E d \in DeviceIDs : ResolveDevice(c, d)
                                 \/ WhoIs(c) \/ CallerSteps(c)
           \/ UNCHANGED vars
  BY <1>4, <1>9
  DEF StateStore, ResolveDevice, WhoIs, CallerSteps, SendWhoIs, Collect,
      ResolveAgain, vars
<1>10. QED
  BY <1>5, <1>6, <1>7, <1>8, <1>9, StoredAddresses DEF Next, IAm, CountedOnce,
     Uncounted

\* DevicesDiscovered, with the increments still due, never exceeds the number
\* of devices in the cache, for any number of devices and of handlers.
THEOREM CountedOnceCorrect == Spec => []CountedOnce
<1>1. Init => CountedOnce
  <2> SUFFICES ASSUME Init PROVE CountedOnce
    OBVIOUS
  <2>1. Uncounted = {} /\ Cached = {} /\ discovered = 0
    BY DEF Init, Uncounted, Cached
  <2>2. QED
    BY <2>1, FS_EmptySet DEF CountedOnce, Uncounted
<1>2. QED
  BY <1>1, CountStep, DiscoveryTypes, PTL DEF Spec

-----------------------------------------------------------------------------
(***************************************************************************)
(* GetObjectList: the inductive invariant, in named parts.                 *)
(***************************************************************************)
\* Type invariant. The loop variable never wraps: it ends one past length.
ListTypes ==
    /\ list \in Seq(Objects) /\ Len(list) <= MaxLen
    /\ measured \in Seq(Objects) /\ Len(measured) <= MaxLen
    /\ objects \in Seq(Objects)
    /\ length = Len(measured)
    /\ pc \in {"idle", "length", "element", "returned"}
    /\ pc = "element" => i \in 1..length + 1

\* Until the device deletes an object, its list begins as it was measured.
BeginsAsMeasured ==
    deleted = {} =>
        /\ Len(measured) <= Len(list)
        /\ \A k \in 1..Len(measured) : list[k] = measured[k]

\* In the loop, the elements before i are listed or skipped.
ListedSoFar ==
    /\ pc \in {"idle", "length"} => objects = <<>> /\ skipped = {}
    /\ pc = "element" => skipped \subseteq 1..i - 1
    /\ pc = "element" /\ deleted = {} => ListedUpTo(i - 1)

ListInv == ListTypes /\ BeginsAsMeasured /\ ListedSoFar /\ ListedInOrder

USE MaxLenAssumption
USE DEF device

-----------------------------------------------------------------------------
\* Within the loop the increment of a uint32 does not wrap.
LEMMA NoWrap ==
    ASSUME ListTypes, pc = "element", More
    PROVE  /\ i \in Nat /\ 1 <= i /\ i <= length /\ length \in Nat
           /\ (i + 1) % Width = i + 1
           /\ i + 1 \in 1..length + 1
<1>1. i \in Nat /\ 1 <= i /\ i <= length /\ length \in Nat /\ length <= MaxLen
  BY DEF ListTypes, More
<1>2. i + 1 < Width
  BY <1>1
<1>3. QED
  BY <1>1, <1>2

\* Every step keeps the types.
LEMMA TypesStep ==
    ASSUME ListTypes, [ListNext]_listVars
    PROVE  ListTypes'
<1> USE DEF ListTypes
<1>1. CASE Change
  <2>1. ASSUME NEW o \in Objects, Len(list) < MaxLen, list' = Append(list, o)
        PROVE  list' \in Seq(Objects) /\ Len(list') <= MaxLen
    BY <2>1
  <2>2. ASSUME NEW k \in DOMAIN list, list' = RemoveAt(list, k)
        PROVE  list' \in Seq(Objects) /\ Len(list') <= MaxLen
    <3>1. k \in 1..Len(list)
      OBVIOUS
    <3>2. /\ SubSeq(list, 1, k - 1) \in Seq(Objects)
          /\ Len(SubSeq(list, 1, k - 1)) = k - 1
      BY <3>1
    <3>3. /\ SubSeq(list, k + 1, Len(list)) \in Seq(Objects)
          /\ Len(SubSeq(list, k + 1, Len(list))) = Len(list) - k
      BY <3>1
    <3>4. list' = SubSeq(list, 1, k - 1) \o SubSeq(list, k + 1, Len(list))
      BY <2>2 DEF RemoveAt
    <3>5. ASSUME NEW s \in Seq(Objects), NEW t \in Seq(Objects)
          PROVE  s \o t \in Seq(Objects) /\ Len(s \o t) = Len(s) + Len(t)
      OBVIOUS
    <3>6. list' \in Seq(Objects) /\ Len(list') = (k - 1) + (Len(list) - k)
      BY <3>2, <3>3, <3>4, <3>5
    <3>7. Len(list) \in Nat /\ k \in Nat
      BY <3>1
    <3>8. QED
      BY <3>6, <3>7
  <2>3. list' \in Seq(Objects) /\ Len(list') <= MaxLen
    BY <1>1, <2>1, <2>2 DEF Change
  <2>4. QED
    BY <1>1, <2>3 DEF Change
<1>2. CASE GetObjectList
  BY <1>2 DEF GetObjectList
<1>3. CASE ReadLength
  <2>a. list' = list /\ objects' = objects
    BY <1>3 DEF ReadLength
  <2>1. /\ list' \in Seq(Objects) /\ Len(list') <= MaxLen
        /\ objects' \in Seq(Objects) /\ Len(list) \in Nat
    BY <2>a
  <2>2. CASE pc' = "element"
    <3>1. length' = Len(list) /\ i' = 1 /\ measured' = list
      BY <1>3, <2>2 DEF ReadLength
    <3>2. i' \in 1..length' + 1
      BY <2>1, <3>1
    <3>3. QED
      BY <2>1, <2>2, <3>1, <3>2
  <2>3. CASE pc' # "element"
    BY <1>3, <2>1, <2>3 DEF ReadLength
  <2>4. QED
    BY <2>2, <2>3
<1>4. CASE ReadElement
  <2>1. i' \in 1..length + 1
    BY <1>4, NoWrap DEF ReadElement, Advance
  <2>2. objects' \in Seq(Objects)
    <3>1. i # 0 /\ i \in 1..Len(list)
      BY <1>4, NoWrap DEF ReadElement
    <3>2. list[i] \in Objects
      BY <3>1
    <3>3. QED
      BY <1>4, <3>1, <3>2 DEF ReadElement
  <2>3. QED
    BY <1>4, <2>1, <2>2 DEF ReadElement
<1>5. CASE ElementFails
  <2>1. i' \in 1..length + 1
    BY <1>5, NoWrap DEF ElementFails, Advance
  <2>2. QED
    BY <1>5, <2>1 DEF ElementFails
<1>6. CASE ReturnList
  BY <1>6 DEF ReturnList
<1>7. CASE UNCHANGED listVars
  BY <1>7 DEF listVars
<1>8. QED
  BY <1>1, <1>2, <1>3, <1>4, <1>5, <1>6, <1>7 DEF ListNext, Loop

\* An element that was read is listed after the ones before it.
LEMMA ListOneMore ==
    ASSUME ListTypes, NEW n \in Nat, n < length, ListedUpTo(n),
           skipped \subseteq 1..n,
           objects' = Append(objects, measured[n + 1]),
           UNCHANGED <<measured, skipped>>
    PROVE  ListedUpTo(n + 1)'
<1>1. PICK read \in [1..Len(objects) -> 1..n] :
        /\ \A j, k \in DOMAIN read : j < k => read[j] < read[k]
        /\ Range(read) = (1..n) \ skipped
        /\ objects = [k \in DOMAIN read |-> measured[read[k]]]
  BY DEF ListedUpTo
<1> DEFINE len == Len(objects)
           more == [k \in 1..len + 1 |-> IF k = len + 1 THEN n + 1 ELSE read[k]]
<1>2. /\ len \in Nat /\ objects \in Seq(Objects)
      /\ Len(objects') = len + 1
      /\ \A k \in 1..len : objects'[k] = objects[k]
      /\ objects'[len + 1] = measured[n + 1]
      /\ objects' = [k \in 1..len + 1 |-> objects'[k]]
  BY DEF ListTypes
<1> HIDE DEF len
<1>3. DOMAIN read = 1..len /\ \A k \in 1..len : read[k] \in 1..n
  BY DEF len
<1>4. more \in [1..Len(objects') -> 1..n + 1]
  BY <1>2, <1>3
<1>5. ASSUME NEW j \in DOMAIN more, NEW k \in DOMAIN more, j < k
      PROVE  more[j] < more[k]
  BY <1>1, <1>2, <1>3, <1>5
<1>6. Range(more) = (1..n + 1) \ skipped
  <2>1. Range(more) = Range(read) \cup {n + 1}
    <3>1. ASSUME NEW x \in Range(more) PROVE x \in Range(read) \cup {n + 1}
      BY <1>2, <1>3, <3>1 DEF Range
    <3>2. ASSUME NEW x \in Range(read) PROVE x \in Range(more)
      <4>1. PICK k \in 1..len : x = read[k]
        BY <1>3, <3>2 DEF Range
      <4>2. k \in DOMAIN more /\ more[k] = x
        BY <1>2, <4>1
      <4>3. QED
        BY <4>2 DEF Range
    <3>3. n + 1 \in Range(more)
      <4>1. len + 1 \in DOMAIN more /\ more[len + 1] = n + 1
        BY <1>2
      <4>2. QED
        BY <4>1 DEF Range
    <3>4. QED
      BY <3>1, <3>2, <3>3
  <2>2. QED
    BY <1>1, <2>1
<1>7. objects' = [k \in DOMAIN more |-> measured[more[k]]]
  <2>1. \A k \in 1..len + 1 : objects'[k] = measured[more[k]]
    BY <1>1, <1>2, <1>3
  <2>2. QED
    BY <1>2, <2>1
<1> HIDE DEF more
<1>8. QED
  BY <1>4, <1>5, <1>6, <1>7 DEF ListedUpTo

\* An element that was skipped leaves the list as it is.
LEMMA ListNoMore ==
    ASSUME ListTypes, NEW n \in Nat, ListedUpTo(n), skipped \subseteq 1..n,
           skipped' = skipped \cup {n + 1},
           UNCHANGED <<measured, objects>>
    PROVE  ListedUpTo(n + 1)'
<1>1. PICK read \in [1..Len(objects) -> 1..n] :
        /\ \A j, k \in DOMAIN read : j < k => read[j] < read[k]
        /\ Range(read) = (1..n) \ skipped
        /\ objects = [k \in DOMAIN read |-> measured[read[k]]]
  BY DEF ListedUpTo
<1>2. read \in [1..Len(objects) -> 1..n + 1]
  BY <1>1
<1>3. (1..n) \ skipped = (1..n + 1) \ skipped'
  OBVIOUS
<1>4. Len(objects') = Len(objects)
        /\ objects' = [k \in DOMAIN read |-> measured'[read[k]]]
  BY <1>1
<1>5. read \in [1..Len(objects') -> 1..n + 1]
        /\ Range(read) = (1..n + 1) \ skipped'
  BY <1>1, <1>2, <1>3, <1>4
<1>6. QED
  BY <1>1, <1>4, <1>5 DEF ListedUpTo

\* Every step keeps the invariant.
LEMMA ListStep == ListInv /\ [ListNext]_listVars => ListInv'
<1> SUFFICES ASSUME ListInv, [ListNext]_listVars
             PROVE  BeginsAsMeasured' /\ ListedSoFar' /\ ListedInOrder'
  BY TypesStep DEF ListInv
<1>a. ListTypes /\ BeginsAsMeasured /\ ListedSoFar /\ ListedInOrder
  BY DEF ListInv
<1>b. ASSUME UNCHANGED <<objects, measured, skipped>>
      PROVE  \A n : ListedUpTo(n)' <=> ListedUpTo(n)
  BY <1>b DEF ListedUpTo
<1>1. CASE Change
  <2>1. deleted' = {} => deleted = {}
    BY <1>1 DEF Change
  <2>2. BeginsAsMeasured'
    <3>1. ASSUME NEW o \in Objects, list' = Append(list, o)
          PROVE  BeginsAsMeasured'
      BY <1>1, <1>a, <2>1, <3>1 DEF Change, BeginsAsMeasured, ListTypes
    <3>2. ASSUME NEW k \in DOMAIN list, deleted' = deleted \cup {list[k]}
          PROVE  BeginsAsMeasured'
      BY <3>2 DEF BeginsAsMeasured
    <3>3. QED
      BY <1>1, <3>1, <3>2 DEF Change
  <2>3. QED
    BY <1>1, <1>a, <1>b, <2>1, <2>2 DEF Change, ListedSoFar, ListedInOrder
<1>2. CASE GetObjectList
  BY <1>2, <1>a, <1>b
  DEF GetObjectList, BeginsAsMeasured, ListedSoFar, ListedInOrder
<1>3. CASE ReadLength
  <2>1. CASE pc' = "element"
    <3>1. /\ i' = 1 /\ measured' = list /\ objects' = <<>> /\ skipped' = {}
          /\ UNCHANGED <<list, deleted>>
      BY <1>3, <1>a, <2>1 DEF ReadLength, ListedSoFar
    <3>2. ListedUpTo(0)'
      <4> DEFINE read == [k \in 1..0 |-> 0]
      <4>1. /\ read \in [1..0 -> 1..0] /\ DOMAIN read = {}
            /\ Range(read) = {} /\ 1..0 = {}
        BY DEF Range
      <4>2. Len(objects') = 0 /\ objects' = [k \in DOMAIN read |-> measured'[read[k]]]
        BY <3>1, <4>1
      <4> HIDE DEF read
      <4>3. QED
        BY <3>1, <4>1, <4>2 DEF ListedUpTo
    <3>3. QED
      BY <1>a, <2>1, <3>1, <3>2
      DEF BeginsAsMeasured, ListedSoFar, ListedInOrder, ListTypes
  <2>2. CASE pc' # "element"
    <3>1. err' # "nil" /\ UNCHANGED <<list, measured, deleted>>
            /\ pc' = "returned"
      BY <1>3, <2>2 DEF ReadLength
    <3>2. QED
      BY <1>a, <3>1 DEF BeginsAsMeasured, ListedSoFar, ListedInOrder
  <2>3. QED
    BY <2>1, <2>2
<1>4. CASE ReadElement
  <2>1. /\ i \in Nat /\ 1 <= i /\ i <= length /\ length \in Nat
        /\ i' = i + 1 /\ pc = "element" /\ pc' = "element"
        /\ objects' = Append(objects, list[i])
        /\ UNCHANGED <<list, deleted, length, measured, skipped>>
    BY <1>4, <1>a, NoWrap DEF ReadElement, Advance
  <2>2. skipped' \subseteq 1..i' - 1
    BY <1>a, <2>1 DEF ListedSoFar
  <2>3. ASSUME deleted = {} PROVE ListedUpTo(i - 1)'
    <3>1. PICK n \in Nat : n = i - 1
      BY <2>1
    <3>2. n < length /\ n + 1 = i /\ n + 1 = i' - 1
      BY <2>1, <3>1
    <3>3. list[i] = measured[i]
      BY <1>a, <2>1, <2>3 DEF BeginsAsMeasured, ListTypes
    <3>4. ListedUpTo(n) /\ skipped \subseteq 1..n
      BY <1>a, <2>1, <2>3, <3>1 DEF ListedSoFar
    <3>5. ListedUpTo(n + 1)'
      BY <1>a, <2>1, <3>2, <3>3, <3>4, ListOneMore
    <3>6. QED
      BY <3>2, <3>5
  <2>4. QED
    BY <1>a, <2>1, <2>2, <2>3
    DEF BeginsAsMeasured, ListedSoFar, ListedInOrder
<1>5. CASE ElementFails
  <2>1. /\ i \in Nat /\ 1 <= i /\ i <= length /\ length \in Nat
        /\ i' = i + 1 /\ pc = "element" /\ pc' = "element"
        /\ skipped' = skipped \cup {i}
        /\ UNCHANGED <<list, deleted, length, measured, objects>>
    BY <1>5, <1>a, NoWrap DEF ElementFails, Advance
  <2>2. skipped' \subseteq 1..i' - 1
    BY <1>a, <2>1 DEF ListedSoFar
  <2>3. ASSUME deleted = {} PROVE ListedUpTo(i - 1)'
    <3>1. PICK n \in Nat : n = i - 1
      BY <2>1
    <3>2. n + 1 = i /\ n + 1 = i' - 1
      BY <2>1, <3>1
    <3>3. ListedUpTo(n) /\ skipped \subseteq 1..n
      BY <1>a, <2>1, <2>3, <3>1 DEF ListedSoFar
    <3>4. ListedUpTo(n + 1)'
      BY <1>a, <2>1, <3>2, <3>3, ListNoMore
    <3>5. QED
      BY <3>2, <3>4
  <2>4. QED
    BY <1>a, <2>1, <2>2, <2>3
    DEF BeginsAsMeasured, ListedSoFar, ListedInOrder
<1>6. CASE ReturnList
  <2>1. i - 1 = length
    BY <1>6, <1>a DEF ReturnList, More, ListTypes
  <2>2. QED
    BY <1>6, <1>a, <1>b, <2>1
    DEF ReturnList, BeginsAsMeasured, ListedSoFar, ListedInOrder
<1>7. CASE UNCHANGED listVars
  BY <1>7, <1>a, <1>b DEF listVars, BeginsAsMeasured, ListedSoFar, ListedInOrder
<1>8. QED
  BY <1>1, <1>2, <1>3, <1>4, <1>5, <1>6, <1>7 DEF ListNext, Loop

\* A call that has not begun has listed nothing.
LEMMA ListStarts == ListInit => ListInv
<1> SUFFICES ASSUME ListInit PROVE ListInv
  OBVIOUS
<1>1. list \in Seq(Objects) /\ Len(list) <= MaxLen
  <2>1. PICK m \in 0..MaxLen : list \in [1..m -> Objects]
    BY DEF ListInit, Lists, BoundedSeq, SeqOf
  <2>2. QED
    BY <2>1
<1>2. ListTypes
  BY <1>1 DEF ListInit, ListTypes
<1>3. QED
  BY <1>1, <1>2
  DEF ListInit, ListInv, BeginsAsMeasured, ListedSoFar, ListedInOrder

\* What GetObjectList returns with no error is, as long as the device deletes
\* nothing, the list as its length was read without the elements whose read
\* failed, in order: for any number of objects below the largest uint32, and
\* any objects created at the device meanwhile.
THEOREM ListedInOrderCorrect == ListSpec => []ListedInOrder
<1>1. ListInv => ListedInOrder
  BY DEF ListInv
<1>2. QED
  BY ListStarts, ListStep, <1>1, PTL DEF ListSpec

\* The types, and that the loop variable of GetObjectList never wraps: it goes
\* from 1 to one past the length.
THEOREM ObjectListTypes == ListSpec => []ListTypes
<1>1. ListInv => ListTypes
  BY DEF ListInv
<1>2. QED
  BY ListStarts, ListStep, <1>1, PTL DEF ListSpec

=============================================================================
