------------------------------ MODULE Provisioning ------------------------------
(***************************************************************************)
(* pkg/router.go, pkg/app.go and pkg/dbWriter.go: the networks, devices    *)
(* and points of the module, as rows of a database behind gRPC.  Each API  *)
(* request runs in a goroutine of its own, uplinks create the points they  *)
(* miss, and a UART is pinged until it has reported its points.            *)
(*                                                                         *)
(* A step is one gRPC call and the code up to the next one.  Any call may  *)
(* fail and change nothing.  There are no transactions: what a goroutine   *)
(* has read may be stale when it writes.  The database keeps references:   *)
(* a device needs its network and a point its device, and both go with it. *)
(***************************************************************************)
EXTENDS Naturals, Sequences, FiniteSets

CONSTANTS
    Networks,    \* calls of addNetwork, and UUIDs of the networks they create
    Devices,     \* calls of addDevice, and UUIDs of the devices they create
    Edits,       \* clients that call UpdateDevice, again and again
    Rows,        \* UUIDs of points: the bound on the points ever created
    Names,       \* point names of the model, and io numbers of points
    Writeable,   \* names that getUARTPointConfig makes writeable
    Uarts,       \* devices whose model is UART
    NetworkOf,   \* network_uuid in the request of each device
    EditOf,      \* the device each of these clients updates
    Asked,       \* address_uuid in the request of each device
    Bodies,      \* address_uuid in the requests for points, or Absent
    Upper,       \* strings.ToUpper of each address
    Uplinks,     \* the point names a frame can hold, in order
    MaxPings,    \* uartPingMaxRetries
    MinPoints,   \* uartPingMinPointsRequired
    MaxBusy,     \* the bound on the goroutines at work at once
    Own,         \* io number of a point that a user has created
    Absent,      \* no row: no device, no address, no point
    Deleted      \* the row of a point that was deleted

Addresses == DOMAIN Upper

\* The calls that start a ping goroutine, and the device it pings.
PingedBy(g) == IF g \in Devices THEN g ELSE EditOf[g]
Pingers     == {g \in Devices \union Edits : PingedBy(g) \in Uarts}

ASSUME RowsAssumption     == IsFiniteSet(Rows)
ASSUME NamesAssumption    == Writeable \subseteq Names /\ Own \notin Names
ASSUME DevicesAssumption  == /\ Uarts \subseteq Devices
                             /\ NetworkOf \in [Devices -> Networks]
                             /\ Asked \in [Devices -> Addresses]
                             /\ EditOf \in [Edits -> Devices]
ASSUME UpperAssumption    == /\ Upper \in [Addresses -> Addresses]
                             /\ \A a \in Addresses : Upper[Upper[a]] = Upper[a]
ASSUME BodiesAssumption   == Bodies \subseteq Addresses \union {Absent}
ASSUME UplinksAssumption  == Uplinks \subseteq Seq(Names)
ASSUME PingsAssumption    == MaxPings \in Nat \ {0} /\ MinPoints \in Nat
ASSUME BusyAssumption     == MaxBusy \in Nat
ASSUME CallsAssumption    == Devices \intersect (Edits \union Networks) = {}
ASSUME NullsAssumption    == /\ Absent \notin Devices \union Addresses \union Rows
                             /\ Deleted \notin Devices /\ Deleted # Absent

VARIABLES
    networks,    \* networks in the database
    address,     \* address of each device in the database, or Absent
    owner,       \* device of each point, Absent or Deleted
    ioNumber,    \* io number of each point
    pointAddr,   \* address_uuid of each point
    adding,      \* where the addNetwork of each network is
    creating,    \* where the addDevice of each device is
    unsaved,     \* names savePoints has not yet tried to save
    editing,     \* where each UpdateDevice is
    newAddr,     \* the address it gives to the device
    snapshot,    \* the points updateDevicePointsAddress has still to update
    rx,          \* where the goroutine that handles uplinks is
    rxDevice,    \* the device of the frame
    rxAddr,      \* its address, as addPoint knows it
    rxKnown,     \* names of its points when the frame came
    rxNames,     \* names in the frame that are still to be handled
    user,        \* where the request that creates or updates a point is
    userDevice, userAddr, userRow,
    ping,        \* where the ping goroutine of each call is
    pings,       \* pings it has enqueued
    unchecked,   \* history: rows whose uniqueness nothing has checked
    twice,       \* history: devices with two writers of points at once
    muddled,     \* history: devices whose address changed under a writer
    given        \* history: points with the address_uuid of a request body

database == <<networks, address, owner, ioNumber, pointAddr>>
create   == <<creating, unsaved>>
edit     == <<editing, newAddr, snapshot>>
uplink   == <<rx, rxDevice, rxAddr, rxKnown, rxNames>>
request  == <<user, userDevice, userAddr, userRow>>
pinging  == <<ping, pings>>
history  == <<unchecked, twice, muddled, given>>
vars     == <<database, adding, create, edit, uplink, request, pinging, history>>

Init ==
    /\ networks = {}
    /\ address = [d \in Devices |-> Absent]
    /\ owner = [k \in Rows |-> Absent]
    /\ ioNumber = [k \in Rows |-> Own]
    /\ pointAddr = [k \in Rows |-> Absent]
    /\ adding = [n \in Networks |-> "idle"]
    /\ creating = [d \in Devices |-> "idle"]
    /\ unsaved = [d \in Devices |-> {}]
    /\ editing = [e \in Edits |-> "idle"]
    /\ newAddr = [e \in Edits |-> Absent]
    /\ snapshot = [e \in Edits |-> {}]
    /\ rx = "listen" /\ rxDevice = Absent /\ rxAddr = Absent
    /\ rxKnown = {} /\ rxNames = <<>>
    /\ user = "idle" /\ userDevice = Absent /\ userAddr = Absent
    /\ userRow = Absent
    /\ ping = [g \in Pingers |-> "none"]
    /\ pings = [g \in Pingers |-> 0]
    /\ unchecked = {} /\ twice = {} /\ muddled = {} /\ given = {}

\* What limits an instance: another request or uplink may begin.
Busy == {n \in Networks : adding[n] = "create"}
        \union {d \in Devices : creating[d] \notin {"idle", "returned"}}
        \union {e \in Edits : editing[e] \in {"read", "update"}}
        \union {g \in Pingers : ping[g] \in {"enqueue", "sleep"}}
MayBegin == Cardinality(Busy) + (IF rx = "listen" THEN 0 ELSE 1)
                              + (IF user = "idle" THEN 0 ELSE 1) < MaxBusy

-------------------------------------------------------------------------------
(* The database.                                                             *)

Stored(d)   == d \in Devices /\ address[d] # Absent
PointsOf(d) == {k \in Rows : owner[k] = d}

\* CreatePoint, for a device that is there.
NewPoint(d, io, a) ==
    /\ Stored(d)
    /\ \E k \in Rows : owner[k] = Absent
    /\ LET k == CHOOSE r \in Rows : owner[r] = Absent
       IN  /\ owner' = [owner EXCEPT ![k] = d]
           /\ ioNumber' = [ioNumber EXCEPT ![k] = io]
           /\ pointAddr' = [pointAddr EXCEPT ![k] = a]
    /\ UNCHANGED <<networks, address>>

\* The points in ks, and the devices in ds with all their points, go; a UUID is
\* never given again, so that the history of a device can be forgotten.
Erase(ks) ==
    /\ owner' = [k \in Rows |-> IF k \in ks THEN Deleted ELSE owner[k]]
    /\ ioNumber' = [k \in Rows |-> IF k \in ks THEN Own ELSE ioNumber[k]]
    /\ pointAddr' = [k \in Rows |-> IF k \in ks THEN Absent ELSE pointAddr[k]]
    /\ given' = given \ ks
Drop(ds) ==
    /\ address' = [d \in Devices |-> IF d \in ds THEN Absent ELSE address[d]]
    /\ Erase({k \in Rows : owner[k] \in ds})
    /\ unchecked' = unchecked \ ds /\ twice' = twice \ ds
    /\ muddled' = muddled \ ds

-------------------------------------------------------------------------------
(* addNetwork and DeleteNetwork.                                             *)

NoneYet == networks = {}

\* GetNetworksByPluginName.
CheckNetworks(n) ==
    /\ MayBegin
    /\ adding[n] = "idle"
    /\ \/ /\ NoneYet
          /\ adding' = [adding EXCEPT ![n] = "create"]
          /\ unchecked' = IF \E o \in Networks : adding[o] = "create"
                      THEN unchecked \union {n} ELSE unchecked
       \/ adding' = [adding EXCEPT ![n] = "returned"] /\ UNCHANGED unchecked
    /\ UNCHANGED <<database, create, edit, uplink, request, pinging,
                   twice, muddled, given>>

CreateNetwork(n) ==
    /\ adding[n] = "create"
    /\ adding' = [adding EXCEPT ![n] = "returned"]
    /\ networks' \in {networks, networks \union {n}}
    /\ UNCHANGED <<address, owner, ioNumber, pointAddr, create, edit, uplink,
                   request, pinging, history>>

DeleteNetwork(n) ==
    /\ n \in networks
    /\ networks' = networks \ {n}
    /\ Drop({d \in Devices : Stored(d) /\ NetworkOf[d] = n})
    /\ UNCHANGED <<adding, create, edit, uplink, request, pinging>>

-------------------------------------------------------------------------------
(* addDevice and DeleteDevice.                                               *)

Step(d, s) == creating' = [creating EXCEPT ![d] = s]

\* enqueueUartPing, by the call g.
StartPing(g) ==
    ping' = IF g \in Pingers THEN [ping EXCEPT ![g] = "enqueue"] ELSE ping

AskedAddress(d) == Upper[Asked[d]]

FoundNever(a) == FALSE    \* Defect: the answer of the look-up is not used.
Found(a) == \E o \in Devices : address[o] = a

\* GetOneDeviceByArgs; when it fails, the address is taken to be free.
LookUpAddress(d) ==
    /\ MayBegin
    /\ creating[d] = "idle"
    /\ \/ /\ Found(AskedAddress(d))
          /\ Step(d, "returned")
          /\ UNCHANGED unchecked
       \/ /\ ~Found(AskedAddress(d))
          /\ Step(d, "create")
          /\ unchecked' = IF \E o \in Devices : creating[o] = "create"
                      THEN unchecked \union {d} ELSE unchecked
       \/ Step(d, "create") /\ unchecked' = unchecked \union {d}
    /\ UNCHANGED <<database, adding, unsaved, edit, uplink, request, pinging,
                   twice, muddled, given>>

\* CreateDevice; the request may ask for points or not.
CreateDevice(d) ==
    /\ creating[d] = "create"
    /\ \/ /\ NetworkOf[d] \in networks
          /\ address' = [address EXCEPT ![d] = AskedAddress(d)]
          /\ \/ Step(d, "points") /\ UNCHANGED ping
             \/ Step(d, "returned") /\ StartPing(d)
       \/ Step(d, "returned") /\ UNCHANGED <<address, ping>>
    /\ UNCHANGED <<networks, owner, ioNumber, pointAddr, adding, unsaved, edit,
                   uplink, request, pings, history>>

\* addDevicePoints: the network is read, and the names are those of the model.
AddDevicePoints(d) ==
    /\ creating[d] = "points"
    /\ \/ /\ NetworkOf[d] \in networks
          /\ Step(d, "save")
          /\ unsaved' = [unsaved EXCEPT ![d] = Names]
       \/ Step(d, "undo") /\ UNCHANGED unsaved
    /\ UNCHANGED <<database, adding, edit, uplink, request, pinging, history>>

\* One of the goroutines of savePoints; an error is only logged.
SavePoint(d, name) ==
    /\ creating[d] = "save"
    /\ name \in unsaved[d]
    /\ unsaved' = [unsaved EXCEPT ![d] = @ \ {name}]
    /\ NewPoint(d, name, AskedAddress(d)) \/ UNCHANGED database
    /\ UNCHANGED <<adding, creating, edit, uplink, request, pinging, history>>

SavePointsWaited(d) ==
    /\ creating[d] = "save"
    /\ unsaved[d] = {}
    /\ Step(d, "returned")
    /\ StartPing(d)
    /\ UNCHANGED <<database, adding, unsaved, edit, uplink, request, pings,
                   history>>

\* The device is deleted again; whether that fails is not looked at.
UndoCreate(d) ==
    /\ creating[d] = "undo"
    /\ Step(d, "returned")
    /\ Drop({d}) \/ UNCHANGED <<database, history>>
    /\ UNCHANGED <<networks, adding, unsaved, edit, uplink, request, pinging>>

DeleteDevice(d) ==
    /\ Stored(d)
    /\ Drop({d})
    /\ UNCHANGED <<networks, adding, create, edit, uplink, request, pinging>>

-------------------------------------------------------------------------------
(* UpdateDevice and updateDevicePointsAddress.                               *)

\* Somebody holds an address of device d that was read before.
InEdit(d)    == \E e \in Edits : EditOf[e] = d /\ editing[e] \in {"read", "update"}
HeldBy(d)    == \/ InEdit(d)
                \/ creating[d] \in {"points", "save"}
                \/ rx # "listen" /\ rxDevice = d
                \/ user # "idle" /\ userDevice = d

\* The request is stored as it comes: no upper case, no look-up of the address.
UpdateDevice(e, a) ==
    /\ MayBegin
    /\ editing[e] = "idle" /\ (e \in Pingers => ping[e] = "none")
    /\ Stored(EditOf[e])
    /\ address' = [address EXCEPT ![EditOf[e]] = a]
    /\ editing' = [editing EXCEPT ![e] = "read"]
    /\ newAddr' = [newAddr EXCEPT ![e] = a]
    /\ unchecked' = unchecked \union {EditOf[e]}
    /\ muddled' = IF HeldBy(EditOf[e]) THEN muddled \union {EditOf[e]}
                                        ELSE muddled \ {EditOf[e]}
    /\ UNCHANGED <<networks, owner, ioNumber, pointAddr, adding, create,
                   snapshot, uplink, request, pinging, twice, given>>

\* The request returns.  A ping goroutine may be left, with the device.
EndEdit(e) ==
    /\ editing' = [editing EXCEPT ![e] = "idle"]
    /\ newAddr' = [newAddr EXCEPT ![e] = Absent]
    /\ snapshot' = [snapshot EXCEPT ![e] = {}]
    /\ StartPing(e)

\* An error of updateDevicePointsAddress, which is not reported.
StopHalfWay(e) ==
    /\ EndEdit(e)
    /\ muddled' = muddled \union {EditOf[e]}
    /\ UNCHANGED <<pointAddr, given>>

\* GetDevice with its points.
ReadPoints(e) ==
    /\ editing[e] = "read"
    /\ \/ /\ Stored(EditOf[e])
          /\ editing' = [editing EXCEPT ![e] = "update"]
          /\ snapshot' = [snapshot EXCEPT ![e] = PointsOf(EditOf[e])]
          /\ UNCHANGED <<pointAddr, newAddr, ping, muddled, given>>
       \/ StopHalfWay(e)
    /\ UNCHANGED <<networks, address, owner, ioNumber, adding, create, uplink,
                   request, pings, unchecked, twice>>

KeepsAddress(e, k) == pointAddr[k]  \* Defect: the point is saved as it was read.
GivesAddress(e, k) == newAddr[e]

\* UpdatePoint, or the first error, which ends the loop.
UpdatePointAddress(e, k) ==
    /\ editing[e] = "update"
    /\ k \in snapshot[e]
    /\ \/ /\ owner[k] = EditOf[e]
          /\ pointAddr' = [pointAddr EXCEPT ![k] = GivesAddress(e, k)]
          /\ given' = given \ {k}
          /\ snapshot' = [snapshot EXCEPT ![e] = @ \ {k}]
          /\ UNCHANGED <<editing, newAddr, ping, muddled>>
       \/ StopHalfWay(e)
    /\ UNCHANGED <<networks, address, owner, ioNumber, adding, create, uplink,
                   request, pings, unchecked, twice>>

UpdatedAll(e) ==
    /\ editing[e] = "update"
    /\ snapshot[e] = {}
    /\ EndEdit(e)
    /\ UNCHANGED <<database, adding, create, uplink, request, pings, history>>

-------------------------------------------------------------------------------
(* Uplinks: getDeviceByLoRaAddress, then updateDevicePoint for each name.    *)

Repeats(f) == \E i, j \in DOMAIN f : i < j /\ f[i] = f[j]

\* The address on the radio is in upper case; the device comes with its points.
ReceiveUplink(d, f) ==
    /\ MayBegin
    /\ rx = "listen"
    /\ Stored(d)
    /\ address[d] = Upper[address[d]]
    /\ rx' = "next"
    /\ rxDevice' = d
    /\ rxAddr' = address[d]
    /\ rxKnown' = {ioNumber[k] : k \in PointsOf(d)}
    /\ rxNames' = f
    /\ twice' = IF Repeats(f) \/ creating[d] \in {"points", "save"}
                THEN twice \union {d} ELSE twice
    /\ UNCHANGED <<database, adding, create, edit, request, pinging,
                   unchecked, muddled, given>>

SelectsNothing(name) == FALSE  \* Defect: never finds the point of a name.
SelectPoint(name) == name \in rxKnown

\* The point is known and its value is written, or addPoint creates it: it reads
\* the device again for a point that is writeable.
SelectPointByIoNumber ==
    /\ rx = "next"
    /\ rxNames # <<>>
    /\ IF SelectPoint(Head(rxNames))
       THEN rxNames' = Tail(rxNames) /\ UNCHANGED rx
       ELSE /\ rx' = IF rxDevice \in Uarts /\ Head(rxNames) \in Writeable
                     THEN "read" ELSE "add"
            /\ UNCHANGED rxNames
    /\ UNCHANGED <<database, adding, create, edit, rxDevice, rxAddr, rxKnown,
                   request, pinging, history>>

ReadDevice ==
    /\ rx = "read"
    /\ \/ /\ Stored(rxDevice)
          /\ rx' = "add"
          /\ rxAddr' = address[rxDevice]
          /\ UNCHANGED rxNames
       \/ rx' = "next" /\ rxNames' = Tail(rxNames) /\ UNCHANGED rxAddr
    /\ UNCHANGED <<database, adding, create, edit, rxDevice, rxKnown, request,
                   pinging, history>>

\* savePoint and the write of the value, or an error, which ends this name only.
AddPointFromName ==
    /\ rx = "add"
    /\ NewPoint(rxDevice, Head(rxNames), rxAddr) \/ UNCHANGED database
    /\ rx' = "next"
    /\ rxNames' = Tail(rxNames)
    /\ UNCHANGED <<adding, create, edit, rxDevice, rxAddr, rxKnown, request,
                   pinging, history>>

UplinkHandled ==
    /\ rx = "next"
    /\ rxNames = <<>>
    /\ rx' = "listen"
    /\ rxDevice' = Absent /\ rxAddr' = Absent /\ rxKnown' = {} /\ UNCHANGED rxNames
    /\ UNCHANGED <<database, adding, create, edit, request, pinging, history>>

-------------------------------------------------------------------------------
(* CreatePoint, UpdatePoint and DeletePoint of the API.                      *)

\* addPoint and updatePoint of a point that is writeable read its device.
BeginUserPoint(d, k) ==
    /\ MayBegin
    /\ user = "idle"
    /\ Stored(d)
    /\ k \in PointsOf(d) \union {Absent}
    /\ user' = "save"
    /\ userDevice' = d /\ userAddr' = address[d] /\ userRow' = k
    /\ UNCHANGED <<database, adding, create, edit, uplink, pinging, history>>

\* CreatePoint, UpdatePoint, or an error.
SaveUserPoint ==
    /\ user = "save"
    /\ \/ /\ userRow = Absent
          /\ NewPoint(userDevice, Own, userAddr)
          /\ UNCHANGED given
       \/ /\ userRow \in PointsOf(userDevice)
          /\ pointAddr' = [pointAddr EXCEPT ![userRow] = userAddr]
          /\ given' = given \ {userRow}
          /\ UNCHANGED <<networks, address, owner, ioNumber>>
       \/ UNCHANGED <<database, given>>
    /\ user' = "idle"
    /\ userDevice' = Absent /\ userAddr' = Absent /\ userRow' = Absent
    /\ UNCHANGED <<adding, create, edit, uplink, pinging, unchecked, twice,
                   muddled>>

\* addPoint and updatePoint of a point that is not writeable: nothing is read,
\* and the point gets the address_uuid of the body, any or none.
SaveReadOnlyPoint(d, k, a) ==
    /\ \/ /\ k = Absent
          /\ NewPoint(d, Own, a)
          /\ given' = given \union {r \in Rows : owner'[r] # owner[r]}
       \/ /\ k \in PointsOf(d)
          /\ pointAddr' = [pointAddr EXCEPT ![k] = a]
          /\ given' = given \union {k}
          /\ UNCHANGED <<networks, address, owner, ioNumber>>
    /\ UNCHANGED <<adding, create, edit, uplink, request, pinging, unchecked,
                   twice, muddled>>

DeletePoint(k) ==
    /\ owner[k] \in Devices
    /\ Erase({k})
    /\ UNCHANGED <<networks, address, adding, create, edit, uplink,
                   request, pinging, unchecked, twice, muddled>>

-------------------------------------------------------------------------------
(* enqueueUartPingWithRetry.                                                 *)

\* EnqueuePoint of a point without a UUID, and a sleep of ten seconds.
EnqueuePing(g) ==
    /\ ping[g] = "enqueue"
    /\ ping' = [ping EXCEPT ![g] = "sleep"]
    /\ pings' = [pings EXCEPT ![g] = @ + 1]
    /\ UNCHANGED <<database, adding, create, edit, uplink, request, history>>

\* Defect: one ping too many.
RetryOnceMore(n) == IF n <= MaxPings THEN "enqueue" ELSE "none"
Retry(n) == IF n < MaxPings THEN "enqueue" ELSE "none"

RetryUncounted(n) == "sleep"  \* Defect: an error is no attempt.
RetryUnread(n) == Retry(n)

\* GetDevice with its points; a device that was deleted is an error like others.
CheckPoints(g) ==
    /\ ping[g] = "sleep"
    /\ \/ /\ Stored(PingedBy(g))
          /\ ping' = [ping EXCEPT ![g] =
                IF Cardinality(PointsOf(PingedBy(g))) >= MinPoints
                THEN "none" ELSE Retry(pings[g])]
       \/ ping' = [ping EXCEPT ![g] = RetryUnread(pings[g])]
    /\ pings' = [pings EXCEPT ![g] = IF ping'[g] = "none" THEN 0 ELSE @]
    /\ UNCHANGED <<database, adding, create, edit, uplink, request, history>>

-------------------------------------------------------------------------------
AddNetwork(n) == CheckNetworks(n) \/ CreateNetwork(n)

AddDevice(d) == \/ LookUpAddress(d) \/ CreateDevice(d) \/ AddDevicePoints(d)
                \/ \E name \in Names : SavePoint(d, name)
                \/ SavePointsWaited(d) \/ UndoCreate(d)

EditDevice(e) == \/ \E a \in Addresses : UpdateDevice(e, a)
                 \/ ReadPoints(e)
                 \/ \E k \in Rows : UpdatePointAddress(e, k)
                 \/ UpdatedAll(e)

HandleUplink == \/ \E d \in Devices, f \in Uplinks : ReceiveUplink(d, f)
                \/ SelectPointByIoNumber \/ ReadDevice \/ AddPointFromName
                \/ UplinkHandled

UserPoint == \/ \E d \in Devices, k \in Rows \union {Absent} : BeginUserPoint(d, k)
             \/ SaveUserPoint
             \/ \E d \in Devices, k \in Rows \union {Absent},
                   a \in Bodies : SaveReadOnlyPoint(d, k, a)
             \/ \E k \in Rows : DeletePoint(k)

Ping(g) == EnqueuePing(g) \/ CheckPoints(g)

Next == \/ \E n \in Networks : AddNetwork(n) \/ DeleteNetwork(n)
        \/ \E d \in Devices : AddDevice(d) \/ DeleteDevice(d)
        \/ \E e \in Edits : EditDevice(e)
        \/ HandleUplink
        \/ UserPoint
        \/ \E g \in Pingers : Ping(g)

\* time.Sleep returns, EnqueuePoint does not block for ever, and a gRPC call
\* returns: a ping goroutine always goes on.  Nothing is assumed of users, of
\* the radio or of the answers of the database.
Spec == Init /\ [][Next]_vars /\ \A g \in Pingers : WF_vars(Ping(g))

-------------------------------------------------------------------------------
(* Properties.                                                               *)

\* Every variable has its type; a goroutine that goes on has a device to go on
\* with, and no ping goroutine enqueues more than uartPingMaxRetries pings.
TypeOK ==
    /\ networks \subseteq Networks
    /\ address \in [Devices -> Addresses \union {Absent}]
    /\ owner \in [Rows -> Devices \union {Absent, Deleted}]
    /\ ioNumber \in [Rows -> Names \union {Own}]
    /\ pointAddr \in [Rows -> Addresses \union {Absent}]
    /\ adding \in [Networks -> {"idle", "create", "returned"}]
    /\ creating \in [Devices ->
          {"idle", "create", "points", "save", "undo", "returned"}]
    /\ unsaved \in [Devices -> SUBSET Names]
    /\ editing \in [Edits -> {"idle", "read", "update"}]
    /\ newAddr \in [Edits -> Addresses \union {Absent}]
    /\ snapshot \in [Edits -> SUBSET Rows]
    /\ \A e \in Edits : editing[e] # "idle" => newAddr[e] \in Addresses
    /\ rx \in {"listen", "next", "read", "add"}
    /\ rxDevice \in Devices \union {Absent}
    /\ rxAddr \in Addresses \union {Absent}
    /\ rx # "listen" => rxDevice \in Devices /\ rxAddr \in Addresses
    /\ rxKnown \subseteq Names \union {Own}
    /\ rxNames \in Seq(Names)
    /\ rx \in {"read", "add"} => rxNames # <<>>
    /\ user \in {"idle", "save"}
    /\ userDevice \in Devices \union {Absent}
    /\ userAddr \in Addresses \union {Absent}
    /\ user = "save" => userDevice \in Devices /\ userAddr \in Addresses
    /\ userRow \in Rows \union {Absent}
    /\ ping \in [Pingers -> {"none", "enqueue", "sleep"}]
    /\ pings \in [Pingers -> 0..MaxPings]
    /\ unchecked \subseteq Networks \union Devices
    /\ twice \subseteq Devices
    /\ muddled \subseteq Devices
    /\ given \subseteq Rows

\* "only max one network is allowed" (app.go:36) is checked before the row is
\* created and not with it: it holds unless two requests look at once.
OneNetwork ==
    \A n, o \in networks : n # o => {n, o} \intersect unchecked # {}

\* "the lora ID (address_uuid) must be unique" (app.go:60), in any spelling: it
\* is unless two requests look for it at once, a look-up fails and is taken for a
\* free address, or UpdateDevice, which looks for nothing, gives it away again.
OneAddress ==
    \A d, o \in Devices :
        Stored(d) /\ Stored(o) /\ d # o /\ Upper[address[d]] = Upper[address[o]]
            => {d, o} \intersect unchecked # {}

\* Every point has the address of its device (updateDevicePointsAddress), except
\* during an edit, after an edit that stopped half-way or changed the address
\* under another writer of points (until the next edit that nothing disturbs),
\* and a point whose last write was a request that does not make it writeable:
\* addPoint and updatePoint then store the address_uuid of the body.
PointsFollowDevice ==
    \A k \in Rows :
        owner[k] \in Devices =>
            \/ pointAddr[k] = address[owner[k]]
            \/ owner[k] \in muddled
            \/ InEdit(owner[k])
            \/ k \in given

\* The module creates one point for each name of a device (updateDevicePoint),
\* unless a frame holds a name twice or comes while addDevice saves its points.
NoTwinPoints ==
    \A k, l \in Rows :
        k # l /\ owner[k] \in Devices \ twice /\ ioNumber[k] # Own =>
            <<owner[l], ioNumber[l]>> # <<owner[k], ioNumber[k]>>

\* A ping goroutine ends, also when the device never answers, was deleted or
\* cannot be read: nothing else ever stops it.
PingEnds == \A g \in Pingers : ping[g] = "enqueue" ~> ping[g] = "none"
===============================================================================
