------------------------------ MODULE Discovery ------------------------------
(***************************************************************************)
(* The device cache of the client (client.go, device.go): RegisterDevice,  *)
(* the I-Am handlers that write it, and WhoIs and resolveDevice, which     *)
(* read it before and after they wait for answers.                         *)
(*                                                                         *)
(* A DeviceInfo is reduced to its address, the only part the client itself *)
(* reads; entries are never modified once they are in the map.             *)
(***************************************************************************)
EXTENDS Integers, FiniteSets

CONSTANTS
    DeviceIDs,    \* device instance numbers
    Hosts,        \* IPv4 addresses
    Ports,        \* UDP ports
    DefaultPort,  \* 47808
    Callers,      \* executions of resolveDevice or WhoIs
    Handlers,     \* packet handlers that can hold an I-Am at once
    None          \* no entry, no source specifier, no device

ASSUME PortsAssumption == DefaultPort \in 0..65535 /\ Ports \subseteq Nat
ASSUME NoneAssumption == None \notin DeviceIDs \cup Hosts
ASSUME FiniteAssumption == IsFiniteSet(DeviceIDs) /\ IsFiniteSet(Handlers)

\* Address.Addr by its length: four bytes, six bytes (IP and port), or a
\* length that no UDP address has (empty, or the MAC of a routed network).
IPAddress(host) == [form |-> "ip", host |-> host, port |-> DefaultPort]
IPPortAddress(host, port) == [form |-> "ipPort", host |-> host, port |-> port]
OtherAddress == [form |-> "other", host |-> None, port |-> DefaultPort]

Addresses ==
    {IPAddress(h) : h \in Hosts} \cup {OtherAddress}
        \cup {IPPortAddress(h, p % 65536) : h \in Hosts, p \in Ports}

\* A nil entry is no address.
ASSUME NoAddressAssumption == None \notin Addresses

\* Mutant: an IP that To4 refuses is stored with its port.
NewRemoteDeviceUnchecked(host, port) ==
    IF port = DefaultPort THEN IPAddress(host)
    ELSE IPPortAddress(host, port % 65536)

\* The address NewRemoteDevice builds; host = None is an IP that To4 refuses.
\* The port is kept in two bytes.
NewRemoteDevice(host, port) ==
    IF host = None THEN OtherAddress
    ELSE IF port = DefaultPort THEN IPAddress(host)
    ELSE IPPortAddress(host, port % 65536)

\* The address of an I-Am: its NPDU source, when it has one, else the IP it
\* came from, without the port.
IAmAddress(host, src) == IF src # None THEN src ELSE IPAddress(host)

\* resolveDevice's conversion to a UDP address.
InvalidAddress == [err |-> "invalid device address format"]
UDPAddr(host, port) == [host |-> host, port |-> port]

ToUDP(a) ==
    CASE a.form = "ip" -> UDPAddr(a.host, DefaultPort)
      [] a.form = "ipPort" -> UDPAddr(a.host, a.port)
      [] OTHER -> InvalidAddress

NoResult == [err |-> "none"]
ErrNotConnected == [err |-> "ErrNotConnected"]
ErrDeviceNotFound == [err |-> "ErrDeviceNotFound"]
SendError == [err |-> "send unconfirmed request"]
Found(ds) == [devices |-> ds]

VARIABLES
    connected,   \* c.State() = StateConnected
    devices,     \* c.devices
    discovered,  \* metrics.DevicesDiscovered
    hpc,         \* handlers: "idle", "decoded", "new" (stored, not counted)
    hmsg,        \* handlers: the device and address announced
    cpc,         \* callers: control point
    target,      \* callers: the device to resolve; None in WhoIs
    result,      \* callers: what the call returned
    \* History:
    registered,  \* the address RegisterDevice last stored for a device
    known,       \* callers: the target was registered when the call began
    held         \* callers: addresses the target had in the cache meanwhile

cacheVars == <<devices, held, registered>>
handlerVars == <<hpc, hmsg, discovered>>
callerVars == <<cpc, target, result, known>>
vars == <<connected, cacheVars, handlerVars, callerVars>>

Init ==
    /\ connected = FALSE
    /\ devices = [d \in DeviceIDs |-> None]
    /\ discovered = 0
    /\ hpc = [h \in Handlers |-> "idle"]
    /\ hmsg = [h \in Handlers |-> None]
    /\ cpc = [c \in Callers |-> "idle"]
    /\ target = [c \in Callers |-> None]
    /\ result = [c \in Callers |-> NoResult]
    /\ registered = [d \in DeviceIDs |-> None]
    /\ known = [c \in Callers |-> FALSE]
    /\ held = [c \in Callers |-> {}]

\* c.devices[d] = a, with what every call under way has seen of its target.
Put(d, a) ==
    /\ devices' = [devices EXCEPT ![d] = a]
    /\ held' = [c \in Callers |->
                   IF target[c] = d /\ cpc[c] # "done"
                   THEN held[c] \cup {a} ELSE held[c]]

-----------------------------------------------------------------------------
\* Connect and Close, as far as WhoIs sees them; neither touches the cache.
StateStore ==
    /\ connected' = ~connected
    /\ UNCHANGED <<cacheVars, handlerVars, callerVars>>

RegisterDevice(d, a) ==
    /\ Put(d, a)
    /\ registered' = [registered EXCEPT ![d] = a]
    /\ UNCHANGED <<connected, handlerVars, callerVars>>

\* An I-Am reaches a handler. Anything handleIAm does not accept leaves no
\* trace but a counter.
ReceiveIAm(h, d, a) ==
    /\ hpc[h] = "idle"
    /\ hpc' = [hpc EXCEPT ![h] = "decoded"]
    /\ hmsg' = [hmsg EXCEPT ![h] = [id |-> d, addr |-> a]]
    /\ UNCHANGED <<connected, cacheVars, discovered, callerVars>>

\* A handler is past devicesMu: it still has to count the device if !exists.
Stored(h, exists) ==
    /\ hpc[h] = "decoded"
    /\ hpc' = [hpc EXCEPT ![h] = IF exists THEN "idle" ELSE "new"]
    /\ hmsg' = [hmsg EXCEPT ![h] = None]
    /\ UNCHANGED <<connected, registered, discovered, callerVars>>

\* Mutant: whether the device exists is not looked up under the lock.
StoreIAmAlwaysNew(h) ==
    /\ Stored(h, FALSE)
    /\ Put(hmsg[h].id, hmsg[h].addr)

\* Mutant: an address that is no UDP address evicts the device.
StoreIAmEvicts(h) ==
    /\ Stored(h, devices[hmsg[h].id] # None)
    /\ \/ hmsg[h].addr # OtherAddress /\ Put(hmsg[h].id, hmsg[h].addr)
       \/ /\ hmsg[h].addr = OtherAddress
          /\ devices' = [devices EXCEPT ![hmsg[h].id] = None]
          /\ UNCHANGED held

\* Under devicesMu: whether the device is new, and its entry.
StoreIAm(h) ==
    /\ Stored(h, devices[hmsg[h].id] # None)
    /\ Put(hmsg[h].id, hmsg[h].addr)

\* After the unlock: if !exists, DevicesDiscovered.Inc().
CountIAm(h) ==
    /\ hpc[h] = "new"
    /\ hpc' = [hpc EXCEPT ![h] = "idle"]
    /\ discovered' = discovered + 1
    /\ UNCHANGED <<connected, cacheVars, hmsg, callerVars>>

-----------------------------------------------------------------------------
Begin(c, d) ==
    /\ cpc[c] = "idle"
    /\ target' = [target EXCEPT ![c] = d]
    /\ known' = [known EXCEPT ![c] = d # None /\ registered[d] # None]

Return(c, res) ==
    /\ cpc' = [cpc EXCEPT ![c] = "done"]
    /\ result' = [result EXCEPT ![c] = res]

Continue(c, point) ==
    /\ cpc' = [cpc EXCEPT ![c] = point]
    /\ UNCHANGED result

\* Mutant: discovery is tried first, the cache afterwards.
ResolveDeviceAsksFirst(c, d) ==
    /\ Begin(c, d)
    /\ held' = [held EXCEPT ![c] = {devices[d]} \ {None}]
    /\ Continue(c, "whois")
    /\ UNCHANGED <<connected, devices, registered, handlerVars>>

\* The first lookup: a hit is converted, a miss goes to WhoIs.
ResolveDevice(c, d) ==
    /\ Begin(c, d)
    /\ held' = [held EXCEPT ![c] = {devices[d]} \ {None}]
    /\ IF devices[d] # None
       THEN Return(c, ToUDP(devices[d]))
       ELSE Continue(c, "whois")
    /\ UNCHANGED <<connected, devices, registered, handlerVars>>

\* WhoIs called by the application.
WhoIs(c) ==
    /\ Begin(c, None)
    /\ Continue(c, "whois")
    /\ UNCHANGED <<connected, cacheVars, handlerVars>>

\* sendUnconfirmedRequest: the state check, then one broadcast, which may fail.
SendWhoIs(c) ==
    /\ cpc[c] = "whois"
    /\ \/ ~connected /\ Return(c, ErrNotConnected)
       \/ connected /\ Return(c, SendError)
       \/ connected /\ Continue(c, "sleep")
    /\ UNCHANGED <<connected, cacheVars, handlerVars, target, known>>

\* time.Sleep has passed and the whole cache is copied. resolveDevice drops
\* the copy.
Collect(c) ==
    /\ cpc[c] = "sleep"
    /\ IF target[c] = None
       THEN Return(c, Found({d \in DeviceIDs : devices[d] # None}))
       ELSE Continue(c, "again")
    /\ UNCHANGED <<connected, cacheVars, handlerVars, target, known>>

\* Mutant: the outcome of the first lookup is used again.
ResolveAgainStale(c) ==
    /\ cpc[c] = "again"
    /\ Return(c, ErrDeviceNotFound)
    /\ UNCHANGED <<connected, cacheVars, handlerVars, target, known>>

\* Mutant: any device that answered will do.
ResolveAgainAny(c) ==
    /\ cpc[c] = "again"
    /\ \/ \E d \in DeviceIDs :
             devices[d] # None /\ Return(c, ToUDP(devices[d]))
       \/ /\ \A d \in DeviceIDs : devices[d] = None
          /\ Return(c, ErrDeviceNotFound)
    /\ UNCHANGED <<connected, cacheVars, handlerVars, target, known>>

\* The second lookup.
ResolveAgain(c) ==
    /\ cpc[c] = "again"
    /\ LET a == devices[target[c]] IN
       Return(c, IF a = None THEN ErrDeviceNotFound ELSE ToUDP(a))
    /\ UNCHANGED <<connected, cacheVars, handlerVars, target, known>>

-----------------------------------------------------------------------------
IAm(h) == StoreIAm(h) \/ CountIAm(h)

CallerSteps(c) == SendWhoIs(c) \/ Collect(c) \/ ResolveAgain(c)

\* A routed device announces itself under the MAC of its own network, which
\* may have any length.
Sources ==
    {None, OtherAddress}
        \cup {IPPortAddress(h, p % 65536) : h \in Hosts, p \in Ports}

Next ==
    \/ StateStore
    \/ \E d \in DeviceIDs, h \in Hosts \cup {None}, p \in Ports :
          RegisterDevice(d, NewRemoteDevice(h, p))
    \/ \E h \in Handlers :
          \/ \E d \in DeviceIDs, host \in Hosts, src \in Sources :
                ReceiveIAm(h, d, IAmAddress(host, src))
          \/ IAm(h)
    \/ \E c \in Callers :
          \/ \E d \in DeviceIDs : ResolveDevice(c, d)
          \/ WhoIs(c)
          \/ CallerSteps(c)

Spec == Init /\ [][Next]_vars

-----------------------------------------------------------------------------
Cached == {d \in DeviceIDs : devices[d] # None}

Messages == [id: DeviceIDs, addr: Addresses]

Results ==
    {NoResult, ErrNotConnected, ErrDeviceNotFound, SendError}
        \cup {ToUDP(a) : a \in Addresses}
        \cup {Found(ds) : ds \in SUBSET DeviceIDs}

\* Every variable has its type; the one type invariant of this module.
TypeOK ==
    /\ connected \in BOOLEAN
    /\ devices \in [DeviceIDs -> Addresses \cup {None}]
    /\ discovered \in Nat
    /\ hpc \in [Handlers -> {"idle", "decoded", "new"}]
    /\ hmsg \in [Handlers -> Messages \cup {None}]
    /\ \A h \in Handlers : hpc[h] = "decoded" => hmsg[h] \in Messages
    /\ cpc \in [Callers -> {"idle", "whois", "sleep", "again", "done"}]
    /\ target \in [Callers -> DeviceIDs \cup {None}]
    /\ result \in [Callers -> Results]
    /\ \A c \in Callers : cpc[c] = "again" => target[c] # None
    /\ registered \in [DeviceIDs -> Addresses \cup {None}]
    /\ known \in [Callers -> BOOLEAN]
    /\ held \in [Callers -> SUBSET Addresses]

\* A resolveDevice that fails with ErrDeviceNotFound ran entirely while the
\* cache had no entry for the device: no I-Am or RegisterDevice that completed
\* before or during the call is missed, the wait included.
NotFoundMeansAbsent ==
    \A c \in Callers : result[c] = ErrDeviceNotFound => held[c] = {}

\* What resolveDevice returns for a device it found is the address the cache
\* held for that very device at some moment of the call.
ResolvedWasHeld ==
    \A c \in Callers :
        (cpc[c] = "done" /\ target[c] # None
           /\ result[c] \notin {ErrNotConnected, SendError, ErrDeviceNotFound})
        => \E a \in held[c] : result[c] = ToUDP(a)

\* A device that was registered before the call is resolved without a Who-Is,
\* whatever I-Ams have done to its entry since.
NoWhoIsForRegistered ==
    \A c \in Callers :
        cpc[c] \in {"whois", "sleep", "again"} => ~known[c]

\* The counter of discovered devices, with the increments still due, never
\* exceeds the devices in the cache: two handlers that store the same device
\* concurrently count it once.
CountedOnce ==
    discovered + Cardinality({h \in Handlers : hpc[h] = "new"})
        <= Cardinality(Cached)

\* No step removes a device from the cache: not Close, and not an I-Am with an
\* address that cannot be used.
NeverEvicts == [][Cached \subseteq Cached']_vars

=============================================================================
