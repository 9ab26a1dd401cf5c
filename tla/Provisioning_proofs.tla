-------------------------- MODULE Provisioning_proofs --------------------------
(***************************************************************************)
(* Theorems of Provisioning, for every number of networks, devices, points *)
(* and clients, every spelling of their addresses and every uplink.        *)
(***************************************************************************)
EXTENDS Provisioning, TLAPS

\* addDevice has created the row of this device, or has given up.
Created(d) == creating[d] \notin {"idle", "create"}

\* Whoever goes on with a device goes on with one that was created.
CreatedInv ==
    /\ \A d \in Devices : Stored(d) => Created(d)
    /\ rx # "listen" => Created(rxDevice)
    /\ user = "save" => Created(userDevice)
    /\ \A e \in Edits : editing[e] # "idle" => Created(EditOf[e])
    /\ \A k \in Rows : owner[k] \in Devices => Stored(owner[k])

\* The pings that enqueueUartPingWithRetry has counted; it starts once a call.
PingInv ==
    /\ \A g \in Pingers : ping[g] = "enqueue" => pings[g] < MaxPings
    /\ \A g \in Pingers : ping[g] = "none" => pings[g] = 0
    /\ \A d \in Devices : d \in Pingers /\ creating[d] # "returned" => ping[d] = "none"
    /\ \A e \in Edits : e \in Pingers /\ editing[e] # "idle" => ping[e] = "none"

\* TypeOK by its parts: the database, the calls, and uplinks and requests.
DatabaseType ==
    /\ networks \subseteq Networks
    /\ address \in [Devices -> Addresses \union {Absent}]
    /\ owner \in [Rows -> Devices \union {Absent, Deleted}]
    /\ ioNumber \in [Rows -> Names \union {Own}]
    /\ pointAddr \in [Rows -> Addresses \union {Absent}]
    /\ unchecked \subseteq Networks \union Devices
    /\ twice \subseteq Devices
    /\ muddled \subseteq Devices
    /\ given \subseteq Rows
CallType ==
    /\ adding \in [Networks -> {"idle", "create", "returned"}]
    /\ creating \in [Devices ->
          {"idle", "create", "points", "save", "undo", "returned"}]
    /\ unsaved \in [Devices -> SUBSET Names]
    /\ editing \in [Edits -> {"idle", "read", "update"}]
    /\ newAddr \in [Edits -> Addresses \union {Absent}]
    /\ snapshot \in [Edits -> SUBSET Rows]
    /\ \A e \in Edits : editing[e] # "idle" => newAddr[e] \in Addresses
PingType ==
    /\ ping \in [Pingers -> {"none", "enqueue", "sleep"}]
    /\ pings \in [Pingers -> 0..MaxPings]
RequestType ==
    /\ rx \in {"listen", "next", "read", "add"}
    /\ rxDevice \in Devices \union {Absent}
    /\ rxAddr \in Addresses \union {Absent}
    /\ rx # "listen" => rxDevice \in Devices /\ rxAddr \in Addresses
    /\ rxKnown \subseteq Names \union {Own}
    /\ rxNames \in Seq(Names)
    /\ rx \in {"read", "add"} => rxNames # <<>>
    /\ user \in {"idle", "save"}
    /\ userDevice \in Devices \union {Absent}
    /\ userAddr \in Addresses \union {Absent}
    /\ user = "save" => userDevice \in Devices /\ userAddr \in Addresses
    /\ userRow \in Rows \union {Absent}

BaseInv == DatabaseType /\ CallType /\ PingType /\ RequestType /\ CreatedInv /\ PingInv

-------------------------------------------------------------------------------
(* The database.                                                             *)

\* CreatePoint gives one free row to the device (NewPoint).
LEMMA NewPointRow ==
    ASSUME DatabaseType, NEW d \in Devices, NEW io, NEW a, NewPoint(d, io, a)
    PROVE  /\ Stored(d) /\ UNCHANGED <<networks, address>>
           /\ \E k \in Rows :
                 /\ owner[k] = Absent
                 /\ owner' = [owner EXCEPT ![k] = d]
                 /\ ioNumber' = [ioNumber EXCEPT ![k] = io]
                 /\ pointAddr' = [pointAddr EXCEPT ![k] = a]
<1> DEFINE k == CHOOSE r \in Rows : owner[r] = Absent
<1>1. k \in Rows /\ owner[k] = Absent
    BY DEF NewPoint
<1> QED
    BY <1>1 DEF NewPoint

\* CreatePoint leaves networks and devices alone (NewPoint).
LEMMA NewPointUnread ==
    ASSUME NEW d, NEW io, NEW a, NewPoint(d, io, a)
    PROVE  UNCHANGED <<networks, address>>
    BY DEF NewPoint

\* What is left of the points when some go (Erase).
LEMMA EraseRows ==
    ASSUME DatabaseType, NEW ks \in SUBSET Rows, Erase(ks)
    PROVE  /\ owner' \in [Rows -> Devices \union {Absent, Deleted}]
           /\ ioNumber' \in [Rows -> Names \union {Own}]
           /\ pointAddr' \in [Rows -> Addresses \union {Absent}]
           /\ \A k \in Rows : owner'[k] \in Devices =>
                 /\ k \notin ks
                 /\ owner'[k] = owner[k] /\ ioNumber'[k] = ioNumber[k]
                 /\ pointAddr'[k] = pointAddr[k]
                 /\ k \in given' <=> k \in given
           /\ given' \subseteq Rows
    BY NullsAssumption DEF DatabaseType, Erase

\* What is left when some devices go (Drop).
LEMMA DropRows ==
    ASSUME DatabaseType, NEW ds \in SUBSET Devices, Drop(ds)
    PROVE  /\ address' \in [Devices -> Addresses \union {Absent}]
           /\ owner' \in [Rows -> Devices \union {Absent, Deleted}]
           /\ ioNumber' \in [Rows -> Names \union {Own}]
           /\ pointAddr' \in [Rows -> Addresses \union {Absent}]
           /\ \A d \in Devices : Stored(d)' =>
                 d \notin ds /\ Stored(d) /\ address'[d] = address[d]
           /\ \A d \in Devices \ ds : address'[d] = address[d]
           /\ \A k \in Rows : owner'[k] \in Devices =>
                 /\ owner'[k] \notin ds
                 /\ owner'[k] = owner[k] /\ ioNumber'[k] = ioNumber[k]
                 /\ pointAddr'[k] = pointAddr[k]
                 /\ k \in given' <=> k \in given
           /\ given' \subseteq Rows
<1> DEFINE ks == {k \in Rows : owner[k] \in ds}
<1>1. Erase(ks) /\ ks \in SUBSET Rows
    BY DEF Drop
<1>2. /\ owner' \in [Rows -> Devices \union {Absent, Deleted}]
      /\ ioNumber' \in [Rows -> Names \union {Own}]
      /\ pointAddr' \in [Rows -> Addresses \union {Absent}]
      /\ \A k \in Rows : owner'[k] \in Devices =>
            /\ k \notin ks
            /\ owner'[k] = owner[k] /\ ioNumber'[k] = ioNumber[k]
            /\ pointAddr'[k] = pointAddr[k]
            /\ k \in given' <=> k \in given
      /\ given' \subseteq Rows
  <2> HIDE DEF ks
  <2> QED
    BY <1>1, EraseRows
<1>3. address' = [d \in Devices |-> IF d \in ds THEN Absent ELSE address[d]]
    BY DEF Drop
<1> QED
    BY <1>2, <1>3 DEF DatabaseType, Stored

-------------------------------------------------------------------------------
(* Types.                                                                    *)

\* Addresses are stored in upper case (strings.ToUpper).
LEMMA AskedAddressType ==
    ASSUME NEW d \in Devices
    PROVE  AskedAddress(d) \in Addresses
    BY DevicesAssumption, UpperAssumption DEF AskedAddress

LEMMA InitBase == Init => BaseInv
    BY PingsAssumption, NullsAssumption
    DEF Init, BaseInv, DatabaseType, CallType, PingType, RequestType, CreatedInv,
        PingInv, Stored, Created

\* CreatePoint keeps the types of the rows.
LEMMA NewPointType ==
    ASSUME DatabaseType, NEW d \in Devices, NEW io \in Names \union {Own},
           NEW a \in Addresses \union {Absent}, NewPoint(d, io, a)
    PROVE  /\ owner' \in [Rows -> Devices \union {Absent, Deleted}]
           /\ ioNumber' \in [Rows -> Names \union {Own}]
           /\ pointAddr' \in [Rows -> Addresses \union {Absent}]
           /\ UNCHANGED <<networks, address>>
    BY NewPointRow DEF DatabaseType

\* One step per operation that writes to the database, or to the history of it.
LEMMA NextDatabase == BaseInv /\ [Next]_vars => DatabaseType'
<1> SUFFICES ASSUME BaseInv, [Next]_vars
             PROVE  DatabaseType'
    OBVIOUS
<1>0. DatabaseType /\ CallType /\ RequestType
    BY DEF BaseInv
<1> USE DEF database, create, edit, uplink, request, pinging, history
<1>1. ASSUME NEW n \in Networks, CheckNetworks(n) \/ CreateNetwork(n)
      PROVE  DatabaseType'
    BY <1>0, <1>1 DEF CheckNetworks, CreateNetwork, DatabaseType
<1>2. ASSUME NEW n \in Networks, DeleteNetwork(n)
      PROVE  DatabaseType'
  <2>1. Drop({d \in Devices : Stored(d) /\ NetworkOf[d] = n})
        /\ networks' = networks \ {n}
    BY <1>2 DEF DeleteNetwork
  <2> QED
    BY <1>0, <2>1, DropRows DEF DatabaseType, Drop
<1>3. ASSUME NEW d \in Devices, LookUpAddress(d)
      PROVE  DatabaseType'
    BY <1>0, <1>3 DEF LookUpAddress, DatabaseType
<1>4. ASSUME NEW d \in Devices, CreateDevice(d)
      PROVE  DatabaseType'
    BY <1>0, <1>4, AskedAddressType DEF CreateDevice, DatabaseType
<1>5. ASSUME NEW d \in Devices, NEW name \in Names, SavePoint(d, name)
      PROVE  DatabaseType'
    BY <1>0, <1>5, AskedAddressType, NewPointType DEF SavePoint, DatabaseType
<1>6. ASSUME NEW d \in Devices, UndoCreate(d) \/ DeleteDevice(d)
      PROVE  DatabaseType'
  <2>1. CASE Drop({d}) /\ UNCHANGED networks
    BY <1>0, <2>1, DropRows DEF DatabaseType, Drop
  <2>2. CASE UNCHANGED <<networks, database, history>>
    BY <1>0, <2>2 DEF DatabaseType
  <2> QED
    BY <1>6, <2>1, <2>2 DEF UndoCreate, DeleteDevice
<1>7. ASSUME NEW e \in Edits, NEW a \in Addresses, UpdateDevice(e, a)
      PROVE  DatabaseType'
    BY <1>0, <1>7, DevicesAssumption DEF UpdateDevice, DatabaseType
<1>8. ASSUME NEW e \in Edits, ReadPoints(e)
      PROVE  DatabaseType'
    BY <1>0, <1>8, DevicesAssumption DEF ReadPoints, StopHalfWay, DatabaseType
<1>9. ASSUME NEW e \in Edits, NEW k \in Rows, UpdatePointAddress(e, k)
      PROVE  DatabaseType'
  <2>1. newAddr[e] \in Addresses
    BY <1>0, <1>9 DEF UpdatePointAddress, CallType
  <2> QED
    BY <1>0, <1>9, <2>1, DevicesAssumption
    DEF UpdatePointAddress, GivesAddress, StopHalfWay, DatabaseType
<1>10. ASSUME NEW d \in Devices, NEW f \in Uplinks, ReceiveUplink(d, f)
      PROVE  DatabaseType'
    BY <1>0, <1>10 DEF ReceiveUplink, DatabaseType
<1>11. CASE AddPointFromName
  <2>1. rxDevice \in Devices /\ rxAddr \in Addresses /\ Head(rxNames) \in Names
    BY <1>0, <1>11 DEF AddPointFromName, RequestType
  <2> QED
    BY <1>0, <1>11, <2>1, NewPointType DEF AddPointFromName, DatabaseType
<1>12. CASE SaveUserPoint
  <2>1. userDevice \in Devices /\ userAddr \in Addresses
    BY <1>0, <1>12 DEF SaveUserPoint, RequestType
  <2>2. CASE NewPoint(userDevice, Own, userAddr)
    BY <1>0, <1>12, <2>1, <2>2, NewPointType DEF SaveUserPoint, DatabaseType
  <2>3. CASE /\ pointAddr' = [pointAddr EXCEPT ![userRow] = userAddr]
             /\ UNCHANGED <<networks, address, owner, ioNumber>>
    BY <1>0, <1>12, <2>1, <2>3 DEF SaveUserPoint, DatabaseType
  <2>4. CASE UNCHANGED database
    BY <1>0, <1>12, <2>4 DEF SaveUserPoint, DatabaseType
  <2> QED
    BY <1>12, <2>2, <2>3, <2>4 DEF SaveUserPoint
<1>13. ASSUME NEW k \in Rows, DeletePoint(k)
      PROVE  DatabaseType'
    BY <1>0, <1>13, EraseRows DEF DeletePoint, DatabaseType
<1>14. ASSUME NEW d \in Devices, NEW k \in Rows \union {Absent}, NEW a \in Bodies,
              SaveReadOnlyPoint(d, k, a)
      PROVE  DatabaseType'
  <2>1. a \in Addresses \union {Absent}
    BY BodiesAssumption
  <2>2. CASE NewPoint(d, Own, a)
    BY <1>0, <1>14, <2>1, <2>2, NewPointType DEF SaveReadOnlyPoint, PointsOf, DatabaseType
  <2>3. CASE /\ pointAddr' = [pointAddr EXCEPT ![k] = a]
             /\ UNCHANGED <<networks, address, owner, ioNumber>>
    BY <1>0, <1>14, <2>1, <2>3 DEF SaveReadOnlyPoint, PointsOf, DatabaseType
  <2> QED
    BY <1>14, <2>2, <2>3 DEF SaveReadOnlyPoint
<1>15. ASSUME \/ \E d \in Devices : AddDevicePoints(d) \/ SavePointsWaited(d)
              \/ \E e \in Edits : UpdatedAll(e)
              \/ SelectPointByIoNumber \/ ReadDevice \/ UplinkHandled
              \/ \E d \in Devices, k \in Rows \union {Absent} : BeginUserPoint(d, k)
              \/ \E g \in Pingers : Ping(g)
              \/ UNCHANGED vars
      PROVE  DatabaseType'
  <2>1. UNCHANGED <<database, history>>
    BY <1>15 DEF AddDevicePoints, SavePointsWaited, UpdatedAll, SelectPointByIoNumber,
       ReadDevice, UplinkHandled, BeginUserPoint, Ping, EnqueuePing, CheckPoints, vars
  <2> QED
    BY <1>0, <2>1 DEF DatabaseType
<1> QED
    BY <1>1, <1>2, <1>3, <1>4, <1>5, <1>6, <1>7, <1>8, <1>9, <1>10, <1>11, <1>12,
       <1>13, <1>14, <1>15
    DEF Next, AddNetwork, AddDevice, EditDevice, HandleUplink, UserPoint

\* One step per operation of a goroutine of the API.
LEMMA NextCall == BaseInv /\ [Next]_vars => CallType'
<1> SUFFICES ASSUME BaseInv, [Next]_vars
             PROVE  CallType'
    OBVIOUS
<1>0. CallType
    BY DEF BaseInv
<1> USE DEF create, edit
<1>1. ASSUME NEW n \in Networks, AddNetwork(n)
      PROVE  CallType'
    BY <1>0, <1>1 DEF AddNetwork, CheckNetworks, CreateNetwork, CallType
<1>2. ASSUME NEW d \in Devices,
             \/ LookUpAddress(d) \/ CreateDevice(d) \/ AddDevicePoints(d)
             \/ SavePointsWaited(d) \/ UndoCreate(d)
      PROVE  CallType'
    BY <1>0, <1>2 DEF LookUpAddress, CreateDevice, AddDevicePoints, SavePointsWaited,
       UndoCreate, Step, CallType
<1>3. ASSUME NEW d \in Devices, NEW name \in Names, SavePoint(d, name)
      PROVE  CallType'
    BY <1>0, <1>3 DEF SavePoint, CallType
<1>4. ASSUME NEW e \in Edits, NEW a \in Addresses, UpdateDevice(e, a)
      PROVE  CallType'
    BY <1>0, <1>4 DEF UpdateDevice, CallType
<1>5. ASSUME NEW e \in Edits, ReadPoints(e) \/ UpdatedAll(e)
      PROVE  CallType'
    BY <1>0, <1>5 DEF ReadPoints, UpdatedAll, StopHalfWay, EndEdit, PointsOf, CallType
<1>6. ASSUME NEW e \in Edits, NEW k \in Rows, UpdatePointAddress(e, k)
      PROVE  CallType'
    BY <1>0, <1>6 DEF UpdatePointAddress, StopHalfWay, EndEdit, CallType
<1>7. ASSUME \/ \E n \in Networks : DeleteNetwork(n)
             \/ \E d \in Devices : DeleteDevice(d)
             \/ HandleUplink \/ UserPoint
             \/ \E g \in Pingers : Ping(g)
             \/ UNCHANGED vars
      PROVE  CallType'
  <2>1. UNCHANGED <<adding, creating, unsaved, editing, newAddr, snapshot>>
    BY <1>7 DEF DeleteNetwork, DeleteDevice, HandleUplink, UserPoint, Ping, ReceiveUplink,
       SelectPointByIoNumber, ReadDevice, AddPointFromName, UplinkHandled, BeginUserPoint,
       SaveUserPoint, SaveReadOnlyPoint, DeletePoint, EnqueuePing, CheckPoints, vars
  <2> QED
    BY <1>0, <2>1 DEF CallType
<1> QED
    BY <1>1, <1>2, <1>3, <1>4, <1>5, <1>6, <1>7 DEF Next, AddDevice, EditDevice

\* One step per operation of the receiver and of the request for a point.
LEMMA NextRequest == BaseInv /\ [Next]_vars => RequestType'
<1> SUFFICES ASSUME BaseInv, [Next]_vars
             PROVE  RequestType'
    OBVIOUS
<1>0. DatabaseType /\ RequestType
    BY DEF BaseInv
<1> USE DEF uplink, request
<1>1. ASSUME NEW d \in Devices, NEW f \in Uplinks, ReceiveUplink(d, f)
      PROVE  RequestType'
  <2>1. address[d] \in Addresses /\ f \in Seq(Names)
    BY <1>0, <1>1, UplinksAssumption DEF ReceiveUplink, Stored, DatabaseType
  <2>2. {ioNumber[k] : k \in PointsOf(d)} \subseteq Names \union {Own}
    BY <1>0 DEF PointsOf, DatabaseType
  <2> QED
    BY <1>0, <1>1, <2>1, <2>2 DEF ReceiveUplink, RequestType
<1>2. CASE SelectPointByIoNumber
    BY <1>0, <1>2 DEF SelectPointByIoNumber, RequestType
<1>3. CASE ReadDevice
  <2>1. /\ rx = "read" /\ rxDevice \in Devices /\ rxNames # <<>> /\ rxNames \in Seq(Names)
        /\ UNCHANGED <<rxDevice, rxKnown, request>>
    BY <1>0, <1>3 DEF ReadDevice, RequestType
  <2>2. CASE Stored(rxDevice) /\ rx' = "add" /\ rxAddr' = address[rxDevice]
             /\ UNCHANGED rxNames
    <3>1. address[rxDevice] \in Addresses
      BY <1>0, <2>1, <2>2 DEF Stored, DatabaseType
    <3> QED
      BY <1>0, <2>1, <2>2, <3>1 DEF RequestType
  <2>3. CASE rx' = "next" /\ rxNames' = Tail(rxNames) /\ UNCHANGED rxAddr
    BY <1>0, <2>1, <2>3 DEF RequestType
  <2> QED
    BY <1>3, <2>2, <2>3 DEF ReadDevice
<1>4. CASE AddPointFromName
    BY <1>0, <1>4 DEF AddPointFromName, RequestType
<1>5. CASE UplinkHandled
    BY <1>0, <1>5 DEF UplinkHandled, RequestType
<1>6. ASSUME NEW d \in Devices, NEW k \in Rows \union {Absent}, BeginUserPoint(d, k)
      PROVE  RequestType'
    BY <1>0, <1>6 DEF BeginUserPoint, RequestType, Stored, DatabaseType
<1>7. CASE SaveUserPoint
    BY <1>0, <1>7 DEF SaveUserPoint, RequestType
<1>8. ASSUME \/ \E n \in Networks : AddNetwork(n) \/ DeleteNetwork(n)
             \/ \E d \in Devices : AddDevice(d) \/ DeleteDevice(d)
             \/ \E e \in Edits : EditDevice(e)
             \/ \E k \in Rows : DeletePoint(k)
             \/ \E d \in Devices, k \in Rows \union {Absent}, a \in Bodies :
                   SaveReadOnlyPoint(d, k, a)
             \/ \E g \in Pingers : Ping(g)
             \/ UNCHANGED vars
      PROVE  RequestType'
  <2>1. UNCHANGED <<uplink, request>>
    BY <1>8 DEF AddNetwork, CheckNetworks, CreateNetwork, DeleteNetwork, AddDevice,
       LookUpAddress, CreateDevice, AddDevicePoints, SavePoint, SavePointsWaited,
       UndoCreate, DeleteDevice, EditDevice, UpdateDevice, ReadPoints, UpdatePointAddress,
       UpdatedAll, DeletePoint, SaveReadOnlyPoint, Ping, EnqueuePing, CheckPoints, vars
  <2> QED
    BY <1>0, <2>1 DEF RequestType
<1> QED
    BY <1>1, <1>2, <1>3, <1>4, <1>5, <1>6, <1>7, <1>8 DEF Next, HandleUplink, UserPoint

\* One step per operation that creates or deletes a device or a point, or holds one.
LEMMA NextCreated == BaseInv /\ [Next]_vars => CreatedInv'
<1> SUFFICES ASSUME BaseInv, [Next]_vars
             PROVE  CreatedInv'
    OBVIOUS
<1>0. DatabaseType /\ CallType /\ RequestType /\ CreatedInv
    BY DEF BaseInv
<1>d. ASSUME NEW ds \in SUBSET Devices, Drop(ds),
             UNCHANGED <<rx, rxDevice, user, userDevice, editing>>,
             \A d \in Devices : Created(d) => Created(d)'
      PROVE  CreatedInv'
  <2>1. \A k \in Rows : owner'[k] \in Devices => address'[owner'[k]] # Absent
    <3> SUFFICES ASSUME NEW k \in Rows, owner'[k] \in Devices
                 PROVE  address'[owner'[k]] # Absent
      OBVIOUS
    <3>1. owner'[k] \notin ds /\ owner'[k] = owner[k]
      BY <1>0, <1>d, DropRows
    <3>2. address[owner[k]] # Absent /\ address'[owner[k]] = address[owner[k]]
      BY <1>0, <1>d, <3>1, DropRows DEF CreatedInv, Stored
    <3> QED
      BY <3>1, <3>2 DEF Stored
  <2>2. \A d \in Devices : Stored(d)' => Created(d)'
    BY <1>0, <1>d, DropRows DEF CreatedInv
  <2>3. /\ rx # "listen" => rxDevice \in Devices
        /\ user = "save" => userDevice \in Devices
    BY <1>0 DEF RequestType
  <2> QED
    BY <1>0, <1>d, <2>1, <2>2, <2>3, DevicesAssumption DEF CreatedInv, Created, Stored
<1>p. ASSUME NEW d \in Devices, NEW io, NEW a, NewPoint(d, io, a)
      PROVE  /\ UNCHANGED address
             /\ \A k \in Rows : owner'[k] \in Devices => address'[owner'[k]] # Absent
  <2>1. Stored(d) /\ UNCHANGED address
    BY <1>0, <1>p, NewPointRow
  <2>2. PICK r \in Rows : owner' = [owner EXCEPT ![r] = d]
    BY <1>0, <1>p, NewPointRow
  <2> QED
    BY <1>0, <2>1, <2>2 DEF CreatedInv, Stored, DatabaseType
<1> USE DEF database, create, edit, uplink, request
<1>1. ASSUME NEW n \in Networks, DeleteNetwork(n)
      PROVE  CreatedInv'
  <2>1. Drop({d \in Devices : Stored(d) /\ NetworkOf[d] = n})
        /\ UNCHANGED <<rx, rxDevice, user, userDevice, editing, creating>>
    BY <1>1 DEF DeleteNetwork
  <2> QED
    BY <2>1, <1>d DEF Created
<1>2. ASSUME NEW d \in Devices, LookUpAddress(d) \/ AddDevicePoints(d) \/ SavePointsWaited(d)
      PROVE  CreatedInv'
  <2>1. /\ UNCHANGED <<address, owner, rx, rxDevice, user, userDevice, editing>>
        /\ creating' \in [Devices -> {"idle", "create", "points", "save", "undo", "returned"}]
        /\ \A o \in Devices : Created(o) => Created(o)'
    BY <1>0, <1>2 DEF LookUpAddress, AddDevicePoints, SavePointsWaited, Step, Created, CallType
  <2> QED
    BY <1>0, <2>1, DevicesAssumption DEF CreatedInv, Created, Stored, RequestType
<1>3. ASSUME NEW d \in Devices, CreateDevice(d)
      PROVE  CreatedInv'
  <2>1. /\ UNCHANGED <<owner, rx, rxDevice, user, userDevice, editing>>
        /\ \A o \in Devices : Created(o) => Created(o)'
        /\ Created(d)'
        /\ \A o \in Devices \ {d} : address'[o] = address[o]
        /\ Stored(d) => Stored(d)'
    BY <1>0, <1>3, AskedAddressType, NullsAssumption
    DEF CreateDevice, Step, Created, CallType, DatabaseType, Stored
  <2> QED
    BY <1>0, <2>1, DevicesAssumption DEF CreatedInv, Created, Stored, RequestType
<1>4. ASSUME NEW d \in Devices, NEW name \in Names, SavePoint(d, name)
      PROVE  CreatedInv'
  <2>1. UNCHANGED <<creating, rx, rxDevice, user, userDevice, editing>>
    BY <1>4 DEF SavePoint
  <2>2. UNCHANGED address /\ \A k \in Rows : owner'[k] \in Devices => address'[owner'[k]] # Absent
    BY <1>0, <1>4, <1>p DEF SavePoint, CreatedInv, Stored
  <2> QED
    BY <1>0, <2>1, <2>2 DEF CreatedInv, Created, Stored
<1>5. ASSUME NEW d \in Devices, UndoCreate(d) \/ DeleteDevice(d)
      PROVE  CreatedInv'
  <2>1. /\ UNCHANGED <<rx, rxDevice, user, userDevice, editing>>
        /\ \A o \in Devices : Created(o) => Created(o)'
        /\ creating' \in [Devices -> {"idle", "create", "points", "save", "undo", "returned"}]
    BY <1>0, <1>5 DEF UndoCreate, DeleteDevice, Step, Created, CallType
  <2>2. CASE Drop({d})
    BY <2>1, <2>2, <1>d
  <2>3. CASE UNCHANGED <<address, owner>>
    BY <1>0, <2>1, <2>3, DevicesAssumption DEF CreatedInv, Created, Stored, RequestType
  <2> QED
    BY <1>5, <2>2, <2>3 DEF UndoCreate, DeleteDevice
<1>6. ASSUME NEW e \in Edits, NEW a \in Addresses, UpdateDevice(e, a)
      PROVE  CreatedInv'
    BY <1>0, <1>6, DevicesAssumption, NullsAssumption
    DEF UpdateDevice, CreatedInv, Created, Stored, CallType, DatabaseType
<1>7. ASSUME NEW e \in Edits,
             \/ ReadPoints(e) \/ UpdatedAll(e)
             \/ \E k \in Rows : UpdatePointAddress(e, k)
      PROVE  CreatedInv'
  <2>1. /\ UNCHANGED <<address, owner, creating, rx, rxDevice, user, userDevice>>
        /\ \A o \in Edits : editing'[o] # "idle" => editing[o] # "idle"
    BY <1>0, <1>7 DEF ReadPoints, UpdatedAll, UpdatePointAddress, StopHalfWay, EndEdit, CallType
  <2> QED
    BY <1>0, <2>1 DEF CreatedInv, Created, Stored
<1>8. ASSUME NEW d \in Devices, NEW f \in Uplinks, ReceiveUplink(d, f)
      PROVE  CreatedInv'
    BY <1>0, <1>8 DEF ReceiveUplink, CreatedInv, Created, Stored
<1>9. CASE SelectPointByIoNumber \/ ReadDevice \/ UplinkHandled
    BY <1>0, <1>9 DEF SelectPointByIoNumber, ReadDevice, UplinkHandled, CreatedInv, Created,
       Stored
<1>10. CASE AddPointFromName
  <2>1. UNCHANGED <<creating, rxDevice, user, userDevice, editing>> /\ rx # "listen"
    BY <1>10 DEF AddPointFromName
  <2>2. UNCHANGED address /\ \A k \in Rows : owner'[k] \in Devices => address'[owner'[k]] # Absent
    BY <1>0, <1>10, <1>p DEF AddPointFromName, CreatedInv, Stored, RequestType
  <2> QED
    BY <1>0, <2>1, <2>2 DEF CreatedInv, Created, Stored
<1>11. ASSUME NEW d \in Devices, NEW k \in Rows \union {Absent}, BeginUserPoint(d, k)
      PROVE  CreatedInv'
    BY <1>0, <1>11 DEF BeginUserPoint, CreatedInv, Created, Stored
<1>12. CASE SaveUserPoint
  <2>1. UNCHANGED <<creating, rx, rxDevice, editing>> /\ user' = "idle"
    BY <1>12 DEF SaveUserPoint
  <2>2. UNCHANGED address /\ \A k \in Rows : owner'[k] \in Devices => address'[owner'[k]] # Absent
    BY <1>0, <1>12, <1>p DEF SaveUserPoint, CreatedInv, Stored, RequestType
  <2> QED
    BY <1>0, <2>1, <2>2 DEF CreatedInv, Created, Stored
<1>13. ASSUME NEW k \in Rows, DeletePoint(k)
      PROVE  CreatedInv'
  <2>1. UNCHANGED <<address, creating, rx, rxDevice, user, userDevice, editing>>
    BY <1>13 DEF DeletePoint
  <2>2. \A l \in Rows : owner'[l] \in Devices => owner'[l] = owner[l]
    BY <1>0, <1>13, EraseRows DEF DeletePoint
  <2> QED
    BY <1>0, <2>1, <2>2 DEF CreatedInv, Created, Stored
<1>14. ASSUME NEW d \in Devices, NEW k \in Rows \union {Absent}, NEW a \in Bodies,
              SaveReadOnlyPoint(d, k, a)
      PROVE  CreatedInv'
  <2>1. UNCHANGED <<creating, rx, rxDevice, user, userDevice, editing>>
    BY <1>14 DEF SaveReadOnlyPoint
  <2>2. UNCHANGED address /\ \A l \in Rows : owner'[l] \in Devices => address'[owner'[l]] # Absent
    BY <1>0, <1>14, <1>p DEF SaveReadOnlyPoint, CreatedInv, Stored
  <2> QED
    BY <1>0, <2>1, <2>2 DEF CreatedInv, Created, Stored
<1>15. ASSUME \/ \E n \in Networks : AddNetwork(n)
              \/ \E g \in Pingers : Ping(g)
              \/ UNCHANGED vars
       PROVE  CreatedInv'
  <2>1. UNCHANGED <<address, owner, creating, rx, rxDevice, user, userDevice, editing>>
    BY <1>15 DEF AddNetwork, CheckNetworks, CreateNetwork, Ping, EnqueuePing, CheckPoints, vars
  <2> QED
    BY <1>0, <2>1 DEF CreatedInv, Created, Stored
<1> QED
    BY <1>1, <1>2, <1>3, <1>4, <1>5, <1>6, <1>7, <1>8, <1>9, <1>10, <1>11, <1>12,
       <1>13, <1>14, <1>15
    DEF Next, AddDevice, EditDevice, HandleUplink, UserPoint

\* One step per operation of a ping goroutine, or of the call that starts it.
LEMMA NextPing == BaseInv /\ [Next]_vars => PingType' /\ PingInv'
<1> SUFFICES ASSUME BaseInv, [Next]_vars
             PROVE  PingType' /\ PingInv'
    OBVIOUS
<1>0. CallType /\ PingType /\ PingInv
    BY DEF BaseInv
<1>c. /\ MaxPings \in Nat \ {0}
      /\ \A d \in Devices : d \notin Edits
    BY PingsAssumption, CallsAssumption
<1>s. ASSUME UNCHANGED <<ping, pings>>,
             \A d \in Devices : creating'[d] # "returned" => creating[d] # "returned",
             \A e \in Edits \intersect Pingers :
                 editing'[e] # "idle" => editing[e] # "idle" \/ ping[e] = "none"
      PROVE  PingType' /\ PingInv'
    BY <1>0, <1>s DEF PingType, PingInv
<1>t. ASSUME NEW g \in Pingers, ping[g] = "none",
             ping' = [ping EXCEPT ![g] = "enqueue"], UNCHANGED pings,
             \A d \in Devices : creating'[d] # "returned" => creating[d] # "returned" /\ d # g,
             \A e \in Edits : editing'[e] # "idle" => editing[e] # "idle" /\ e # g
      PROVE  PingType' /\ PingInv'
  <2>1. PingType'
    BY <1>0, <1>t DEF PingType
  <2>2. pings[g] = 0 /\ pings[g] < MaxPings
    BY <1>0, <1>c, <1>t, SMT DEF PingInv
  <2> QED
    BY <1>0, <1>t, <2>1, <2>2 DEF PingType, PingInv
<1> USE DEF create, edit, pinging
<1>1. ASSUME NEW d \in Devices,
             \/ LookUpAddress(d) \/ AddDevicePoints(d) \/ UndoCreate(d)
             \/ \E name \in Names : SavePoint(d, name)
      PROVE  PingType' /\ PingInv'
    BY <1>0, <1>1, <1>s DEF LookUpAddress, AddDevicePoints, UndoCreate, SavePoint, Step,
       CallType
<1>2. ASSUME NEW d \in Devices, CreateDevice(d) \/ SavePointsWaited(d)
      PROVE  PingType' /\ PingInv'
  <2>1. creating[d] # "returned" /\ UNCHANGED <<editing, pings>>
    BY <1>2 DEF CreateDevice, SavePointsWaited
  <2>2. \A o \in Devices : creating'[o] # "returned" => creating[o] # "returned"
    BY <1>0, <1>2 DEF CreateDevice, SavePointsWaited, Step, CallType
  <2>3. CASE UNCHANGED ping
    BY <2>1, <2>2, <2>3, <1>s
  <2>4. CASE d \in Pingers /\ ping' = [ping EXCEPT ![d] = "enqueue"]
             /\ creating' = [creating EXCEPT ![d] = "returned"]
    <3>1. creating'[d] = "returned"
      BY <1>0, <2>4 DEF CallType
    <3>2. ping[d] = "none"
      BY <1>0, <2>1, <2>4 DEF PingInv
    <3> QED
      BY <1>c, <1>t, <2>1, <2>2, <2>4, <3>1, <3>2
  <2> QED
    BY <1>2, <2>3, <2>4 DEF CreateDevice, SavePointsWaited, Step, StartPing
<1>3. ASSUME NEW e \in Edits, NEW a \in Addresses, UpdateDevice(e, a)
      PROVE  PingType' /\ PingInv'
    BY <1>0, <1>3, <1>s DEF UpdateDevice, CallType
<1>4. ASSUME NEW e \in Edits,
             \/ ReadPoints(e) \/ UpdatedAll(e)
             \/ \E k \in Rows : UpdatePointAddress(e, k)
      PROVE  PingType' /\ PingInv'
  <2>1. editing[e] # "idle" /\ UNCHANGED <<creating, pings>>
    BY <1>4 DEF ReadPoints, UpdatedAll, UpdatePointAddress
  <2>2. \A o \in Edits : editing'[o] # "idle" => editing[o] # "idle"
    BY <1>0, <1>4 DEF ReadPoints, UpdatedAll, UpdatePointAddress, StopHalfWay, EndEdit, CallType
  <2>3. CASE UNCHANGED ping
    BY <2>1, <2>2, <2>3, <1>s
  <2>4. CASE EndEdit(e) /\ e \in Pingers
    <3>1. editing'[e] = "idle" /\ ping' = [ping EXCEPT ![e] = "enqueue"]
      BY <1>0, <2>4 DEF EndEdit, StartPing, CallType
    <3>2. ping[e] = "none"
      BY <1>0, <2>1, <2>4 DEF PingInv
    <3> QED
      BY <1>c, <1>t, <2>1, <2>2, <2>4, <3>1, <3>2
  <2> QED
    BY <1>4, <2>3, <2>4
    DEF ReadPoints, UpdatedAll, UpdatePointAddress, StopHalfWay, EndEdit, StartPing
<1>5. ASSUME NEW g \in Pingers, EnqueuePing(g)
      PROVE  PingType' /\ PingInv'
  <2>1. pings[g] \in 0..MaxPings /\ pings[g] < MaxPings /\ ping[g] = "enqueue"
    BY <1>0, <1>5 DEF EnqueuePing, PingType, PingInv
  <2>2. pings[g] + 1 \in 0..MaxPings
    BY <1>c, <2>1, SMT
  <2>3. PingType'
    BY <1>0, <1>5, <2>2 DEF EnqueuePing, PingType
  <2>4. PingInv'
    BY <1>0, <1>5, <2>1 DEF EnqueuePing, PingType, PingInv
  <2> QED
    BY <2>3, <2>4
<1>6. ASSUME NEW g \in Pingers, CheckPoints(g)
      PROVE  PingType' /\ PingInv'
  <2>1. PICK s \in {"none", "enqueue"} :
            ping' = [ping EXCEPT ![g] = s] /\ (s = "enqueue" => pings[g] < MaxPings)
    BY <1>6 DEF CheckPoints, Retry, RetryUnread
  <2>2. ping'[g] = s
    BY <1>0, <2>1 DEF PingType
  <2>3. pings' = [pings EXCEPT ![g] = IF s = "none" THEN 0 ELSE pings[g]]
    BY <1>6, <2>2 DEF CheckPoints
  <2>4. 0 \in 0..MaxPings
    BY <1>c, SMT
  <2>5. PingType'
    BY <1>0, <2>1, <2>3, <2>4 DEF PingType
  <2>6. ping[g] # "none" /\ UNCHANGED <<creating, editing>>
    BY <1>6 DEF CheckPoints
  <2>7. PingInv'
    BY <1>0, <2>1, <2>3, <2>6 DEF PingType, PingInv
  <2> QED
    BY <2>5, <2>7
<1>7. ASSUME \/ \E n \in Networks : AddNetwork(n) \/ DeleteNetwork(n)
             \/ \E d \in Devices : DeleteDevice(d)
             \/ HandleUplink \/ UserPoint
             \/ UNCHANGED vars
      PROVE  PingType' /\ PingInv'
  <2>1. UNCHANGED <<creating, editing, ping, pings>>
    BY <1>7 DEF AddNetwork, CheckNetworks, CreateNetwork, DeleteNetwork, DeleteDevice,
       HandleUplink, ReceiveUplink, SelectPointByIoNumber, ReadDevice, AddPointFromName,
       UplinkHandled, UserPoint, BeginUserPoint, SaveUserPoint, SaveReadOnlyPoint,
       DeletePoint, vars
  <2> QED
    BY <2>1, <1>s
<1> QED
    BY <1>1, <1>2, <1>3, <1>4, <1>5, <1>6, <1>7 DEF Next, AddDevice, EditDevice, Ping

\* The invariant of types holds in every state.
LEMMA BaseInvariant == Spec => []BaseInv
<1>1. BaseInv /\ [Next]_vars => BaseInv'
    BY NextDatabase, NextCall, NextRequest, NextCreated, NextPing DEF BaseInv
<1> QED
    BY <1>1, InitBase, PTL DEF Spec

\* Every variable keeps its type, and a ping goroutine its count (TypeOK).
THEOREM TypeCorrectness == Spec => []TypeOK
<1>1. BaseInv => TypeOK
    BY DEF BaseInv, DatabaseType, CallType, PingType, RequestType, TypeOK
<1> QED
    BY <1>1, BaseInvariant, PTL

-------------------------------------------------------------------------------
(* One network.                                                              *)

\* Of two calls of addNetwork that are about to create a row, one has seen the
\* other; a row that was checked has no checked row next to it.
NetworkInv ==
    /\ \A n \in networks : adding[n] = "returned"
    /\ \A n \in Networks, o \in Networks :
          n # o /\ n \notin unchecked /\ o \notin unchecked =>
             ~ /\ adding[n] = "create"
               /\ adding[o] = "create" \/ o \in networks
    /\ OneNetwork

LEMMA NextNetwork == BaseInv /\ NetworkInv /\ [Next]_vars => NetworkInv'
<1> SUFFICES ASSUME BaseInv, NetworkInv, [Next]_vars
             PROVE  NetworkInv'
    OBVIOUS
<1>0. /\ networks \subseteq Networks
      /\ adding \in [Networks -> {"idle", "create", "returned"}]
      /\ \A n \in Networks : n \notin Devices
    BY CallsAssumption DEF BaseInv, DatabaseType, CallType
<1> USE DEF database, history
<1>1. ASSUME NEW n \in Networks, CheckNetworks(n)
      PROVE  NetworkInv'
    BY <1>0, <1>1 DEF CheckNetworks, NoneYet, NetworkInv, OneNetwork
<1>2. ASSUME NEW n \in Networks, CreateNetwork(n)
      PROVE  NetworkInv'
  <2>1. CASE networks' = networks
    BY <1>0, <1>2, <2>1 DEF CreateNetwork, NetworkInv, OneNetwork
  <2>2. CASE networks' = networks \union {n}
    <3>1. \A o \in networks : o # n => {n, o} \intersect unchecked # {}
      BY <1>0, <1>2 DEF CreateNetwork, NetworkInv
    <3>2. OneNetwork'
      BY <1>0, <1>2, <2>2, <3>1 DEF CreateNetwork, NetworkInv, OneNetwork
    <3> QED
      BY <1>0, <1>2, <2>2, <3>2 DEF CreateNetwork, NetworkInv
  <2> QED
    BY <1>2, <2>1, <2>2 DEF CreateNetwork
<1>3. ASSUME networks' \subseteq networks, UNCHANGED adding,
             \A n \in Networks : n \in unchecked => n \in unchecked'
      PROVE  NetworkInv'
    BY <1>0, <1>3 DEF NetworkInv, OneNetwork
<1>4. ASSUME \/ \E n \in Networks : DeleteNetwork(n)
             \/ \E d \in Devices : AddDevice(d) \/ DeleteDevice(d)
             \/ \E e \in Edits : EditDevice(e)
             \/ HandleUplink \/ UserPoint
             \/ \E g \in Pingers : Ping(g)
             \/ UNCHANGED vars
      PROVE  NetworkInv'
  <2>1. networks' \subseteq networks /\ UNCHANGED adding
    BY <1>4, NewPointUnread
    DEF DeleteNetwork, AddDevice, LookUpAddress, CreateDevice, AddDevicePoints, SavePoint,
       SavePointsWaited, UndoCreate, DeleteDevice, EditDevice, UpdateDevice, ReadPoints,
       UpdatePointAddress, UpdatedAll, HandleUplink, ReceiveUplink, SelectPointByIoNumber,
       ReadDevice, AddPointFromName, UplinkHandled, UserPoint, BeginUserPoint,
       SaveUserPoint, SaveReadOnlyPoint, DeletePoint, Ping, EnqueuePing, CheckPoints, vars
  <2>2. \A n \in Networks : n \in unchecked => n \in unchecked'
    <3>1. ASSUME NEW n \in Networks, DeleteNetwork(n)
          PROVE  \A o \in Networks : o \in unchecked => o \in unchecked'
      BY <1>0, <3>1 DEF DeleteNetwork, Drop
    <3>2. ASSUME NEW d \in Devices, UndoCreate(d) \/ DeleteDevice(d)
          PROVE  \A o \in Networks : o \in unchecked => o \in unchecked'
      BY <1>0, <3>2 DEF UndoCreate, DeleteDevice, Drop
    <3> QED
      BY <1>4, <3>1, <3>2
      DEF AddDevice, LookUpAddress, CreateDevice, AddDevicePoints, SavePoint,
       SavePointsWaited, EditDevice, UpdateDevice, ReadPoints,
       UpdatePointAddress, UpdatedAll, HandleUplink, ReceiveUplink, SelectPointByIoNumber,
       ReadDevice, AddPointFromName, UplinkHandled, UserPoint, BeginUserPoint,
       SaveUserPoint, SaveReadOnlyPoint, DeletePoint, Ping, EnqueuePing, CheckPoints, vars
  <2> QED
    BY <2>1, <2>2, <1>3
<1> QED
    BY <1>1, <1>2, <1>4 DEF Next, AddNetwork

\* There is one network, unless two calls have looked for others at once
\* (addNetwork).
THEOREM OneNetworkHolds == Spec => []OneNetwork
<1>1. Init => NetworkInv
    BY DEF Init, NetworkInv, OneNetwork
<1>2. NetworkInv => OneNetwork
    BY DEF NetworkInv
<1> QED
    BY <1>1, <1>2, BaseInvariant, NextNetwork, PTL DEF Spec

-------------------------------------------------------------------------------
(* One device of each address.                                               *)

\* Of two calls of addDevice that look at once one is marked; the address of a
\* call that has looked is free until it creates its row, and no other row has it.
AddressInv ==
    /\ \A d \in Devices \ unchecked : Stored(d) => address[d] = AskedAddress(d)
    /\ \A d \in Devices \ unchecked, o \in Devices \ unchecked :
          d # o /\ creating[d] = "create" =>
             /\ creating[o] # "create"
             /\ Stored(o) => AskedAddress(o) # AskedAddress(d)
    /\ \A d \in Devices \ unchecked, o \in Devices \ unchecked :
          d # o /\ Stored(d) /\ Stored(o) => AskedAddress(o) # AskedAddress(d)

LEMMA NextAddress == BaseInv /\ AddressInv /\ [Next]_vars => AddressInv'
<1> SUFFICES ASSUME BaseInv, AddressInv, [Next]_vars
             PROVE  AddressInv'
    OBVIOUS
<1>0. DatabaseType /\ CallType /\ CreatedInv
    BY DEF BaseInv
<1>1. ASSUME UNCHANGED address,
             unchecked \subseteq unchecked',
             \A d \in Devices : creating'[d] = "create" => creating[d] = "create"
      PROVE  AddressInv'
    BY <1>0, <1>1 DEF AddressInv, Stored
<1>2. ASSUME NEW ds \in SUBSET Devices, Drop(ds),
             \A d \in Devices : creating'[d] = "create" => creating[d] = "create" /\ d \notin ds
      PROVE  AddressInv'
  <2>1. \A d \in Devices : Stored(d)' =>
            d \notin ds /\ Stored(d) /\ address'[d] = address[d]
    BY <1>0, <1>2, DropRows
  <2>2. unchecked' = unchecked \ ds
    BY <1>2 DEF Drop
  <2> QED
    BY <1>2, <2>1, <2>2 DEF AddressInv
<1> USE DEF database, create, edit, history
<1>3. ASSUME NEW n \in Networks, DeleteNetwork(n)
      PROVE  AddressInv'
  <2>1. Drop({d \in Devices : Stored(d) /\ NetworkOf[d] = n}) /\ UNCHANGED creating
    BY <1>3 DEF DeleteNetwork
  <2>2. \A d \in Devices : Stored(d) => creating[d] # "create"
    BY <1>0 DEF CreatedInv, Created
  <2> QED
    BY <2>1, <2>2, <1>2
<1>4. ASSUME NEW d \in Devices, UndoCreate(d) \/ DeleteDevice(d)
      PROVE  AddressInv'
  <2>1. /\ \A o \in Devices : creating'[o] = "create" => creating[o] = "create"
        /\ creating[d] # "create"
    BY <1>0, <1>4 DEF UndoCreate, DeleteDevice, Step, CallType, CreatedInv, Created
  <2>2. CASE Drop({d})
    BY <2>1, <2>2, <1>2
  <2>3. CASE UNCHANGED <<address, unchecked>>
    BY <2>1, <2>3, <1>1
  <2> QED
    BY <1>4, <2>2, <2>3 DEF UndoCreate, DeleteDevice
<1>5. ASSUME NEW d \in Devices, LookUpAddress(d)
      PROVE  AddressInv'
  <2>1. UNCHANGED address /\ unchecked \subseteq unchecked'
    BY <1>5 DEF LookUpAddress
  <2>2. CASE creating' = [creating EXCEPT ![d] = "returned"]
    BY <1>0, <2>1, <2>2, <1>1 DEF CallType
  <2>3. CASE creating' = [creating EXCEPT ![d] = "create"] /\ d \in unchecked'
    BY <1>0, <2>1, <2>3 DEF AddressInv, Stored, CallType
  <2>4. CASE /\ creating' = [creating EXCEPT ![d] = "create"]
             /\ ~Found(AskedAddress(d))
             /\ \A o \in Devices : creating[o] # "create"
             /\ UNCHANGED unchecked
    <3>1. \A o \in Devices \ unchecked : Stored(o) => AskedAddress(o) # AskedAddress(d)
      BY <2>4 DEF AddressInv, Found
    <3> QED
      BY <1>0, <2>1, <2>4, <3>1 DEF AddressInv, Stored, CallType
  <2> QED
    BY <1>5, <2>2, <2>3, <2>4 DEF LookUpAddress, Step
<1>6. ASSUME NEW d \in Devices, CreateDevice(d)
      PROVE  AddressInv'
  <2>1. /\ creating[d] = "create" /\ UNCHANGED unchecked
        /\ \A o \in Devices : creating'[o] = "create" => creating[o] = "create" /\ o # d
    BY <1>0, <1>6 DEF CreateDevice, Step, CallType
  <2>2. CASE UNCHANGED address
    BY <2>1, <2>2, <1>1
  <2>3. CASE address' = [address EXCEPT ![d] = AskedAddress(d)]
    BY <1>0, <2>1, <2>3 DEF AddressInv, Stored, DatabaseType
  <2> QED
    BY <1>6, <2>2, <2>3 DEF CreateDevice
<1>7. ASSUME NEW e \in Edits, NEW a \in Addresses, UpdateDevice(e, a)
      PROVE  AddressInv'
  <2>1. /\ EditOf[e] \in Devices /\ EditOf[e] \in unchecked'
        /\ unchecked \subseteq unchecked' /\ UNCHANGED creating
        /\ \A d \in Devices \ unchecked' : address'[d] = address[d]
    BY <1>0, <1>7, DevicesAssumption DEF UpdateDevice, DatabaseType
  <2> QED
    BY <2>1 DEF AddressInv, Stored
<1>8. ASSUME \/ \E n \in Networks : AddNetwork(n)
             \/ \E d \in Devices : \/ AddDevicePoints(d) \/ SavePointsWaited(d)
                                   \/ \E name \in Names : SavePoint(d, name)
             \/ \E e \in Edits : \/ ReadPoints(e) \/ UpdatedAll(e)
                                 \/ \E k \in Rows : UpdatePointAddress(e, k)
             \/ HandleUplink \/ UserPoint
             \/ \E g \in Pingers : Ping(g)
             \/ UNCHANGED vars
      PROVE  AddressInv'
  <2>1. UNCHANGED address /\ unchecked \subseteq unchecked'
    BY <1>8, NewPointUnread
    DEF AddNetwork, CheckNetworks, CreateNetwork, AddDevicePoints, SavePoint,
       SavePointsWaited, ReadPoints, UpdatePointAddress, UpdatedAll, HandleUplink,
       ReceiveUplink, SelectPointByIoNumber, ReadDevice, AddPointFromName, UplinkHandled,
       UserPoint, BeginUserPoint, SaveUserPoint, SaveReadOnlyPoint, DeletePoint, Ping,
       EnqueuePing, CheckPoints, vars
  <2>2. \A d \in Devices : creating'[d] = "create" => creating[d] = "create"
    BY <1>0, <1>8
    DEF AddNetwork, CheckNetworks, CreateNetwork, AddDevicePoints, SavePoint, Step,
       SavePointsWaited, ReadPoints, UpdatePointAddress, UpdatedAll, HandleUplink,
       ReceiveUplink, SelectPointByIoNumber, ReadDevice, AddPointFromName, UplinkHandled,
       UserPoint, BeginUserPoint, SaveUserPoint, SaveReadOnlyPoint, DeletePoint, Ping,
       EnqueuePing, CheckPoints, vars, CallType
  <2> QED
    BY <2>1, <2>2, <1>1
<1> QED
    BY <1>3, <1>4, <1>5, <1>6, <1>7, <1>8 DEF Next, AddDevice, EditDevice

\* No two devices have one address, in any spelling, but those that OneAddress
\* names (addDevice).
THEOREM OneAddressHolds == Spec => []OneAddress
<1>1. Init => AddressInv
    BY DEF Init, AddressInv, Stored
<1>2. AddressInv => OneAddress
  <2> SUFFICES ASSUME AddressInv, NEW d \in Devices \ unchecked, NEW o \in Devices \ unchecked,
                      Stored(d), Stored(o), d # o
               PROVE  Upper[address[d]] # Upper[address[o]]
    BY DEF OneAddress
  <2>1. address[d] = AskedAddress(d) /\ address[o] = AskedAddress(o)
        /\ AskedAddress(o) # AskedAddress(d)
    BY DEF AddressInv
  <2>2. Upper[AskedAddress(d)] = AskedAddress(d) /\ Upper[AskedAddress(o)] = AskedAddress(o)
    BY DevicesAssumption, UpperAssumption DEF AskedAddress
  <2> QED
    BY <2>1, <2>2
<1> QED
    BY <1>1, <1>2, BaseInvariant, NextAddress, PTL DEF Spec

-------------------------------------------------------------------------------
(* Points and the address of their device.                                   *)

\* A device whose address no edit has changed under anybody who has read it.
Clear(d) == Stored(d) /\ d \notin muddled

\* Whoever has read such a device has the address that it has; an edit has updated
\* the points that are not in its snapshot, but for those that a request has given
\* another address since.
FollowInv ==
    \A d \in Devices : Clear(d) =>
        /\ creating[d] \in {"points", "save"} => address[d] = AskedAddress(d)
        /\ rx # "listen" /\ rxDevice = d => rxAddr = address[d]
        /\ user # "idle" /\ userDevice = d => userAddr = address[d]
        /\ \A e \in Edits : EditOf[e] = d /\ editing[e] # "idle" => newAddr[e] = address[d]
        /\ \A e \in Edits, k \in Rows :
              EditOf[e] = d /\ editing[e] = "update" /\ owner[k] = d /\ k \notin snapshot[e]
                  => pointAddr[k] = address[d] \/ k \in given
        /\ \A k \in Rows : owner[k] = d =>
              pointAddr[k] = address[d] \/ InEdit(d) \/ k \in given

LEMMA NextFollow == BaseInv /\ FollowInv /\ [Next]_vars => FollowInv'
<1> SUFFICES ASSUME BaseInv, FollowInv, [Next]_vars
             PROVE  FollowInv'
    OBVIOUS
<1>0. DatabaseType /\ CallType /\ RequestType /\ CreatedInv
    BY DEF BaseInv
<1>n. Absent \notin Devices /\ Absent \notin Addresses /\ Deleted \notin Devices
    BY NullsAssumption
<1>d. ASSUME NEW ds \in SUBSET Devices, Drop(ds),
             UNCHANGED <<rx, rxDevice, rxAddr, user, userDevice, userAddr, edit>>,
             \A d \in Devices : creating'[d] \in {"points", "save"} => creating'[d] = creating[d]
      PROVE  FollowInv'
  <2>1. \A d \in Devices : Stored(d)' =>
            d \notin ds /\ Stored(d) /\ address'[d] = address[d]
    BY <1>0, <1>d, DropRows
  <2>2. \A k \in Rows : owner'[k] \in Devices =>
            /\ owner'[k] = owner[k] /\ pointAddr'[k] = pointAddr[k]
            /\ k \in given' <=> k \in given
    BY <1>0, <1>d, DropRows
  <2>3. muddled' = muddled \ ds
    BY <1>d DEF Drop
  <2>4. \A d \in Devices : Clear(d)' => Clear(d) /\ address'[d] = address[d]
    BY <2>1, <2>3 DEF Clear
  <2>5. \A d \in Devices : InEdit(d)' <=> InEdit(d)
    BY <1>d DEF InEdit, edit
  <2> QED
    BY <1>d, <2>2, <2>4, <2>5 DEF FollowInv, edit
<1>p. ASSUME NEW d \in Devices, NEW io, NEW a, NewPoint(d, io, a),
             Clear(d) => a = address[d],
             UNCHANGED <<rx, rxDevice, user, userDevice, edit, creating, muddled, given>>,
             rx # "listen" => UNCHANGED rxAddr, user # "idle" => UNCHANGED userAddr
      PROVE  FollowInv'
  <2>1. UNCHANGED address
    BY <1>p, NewPointUnread
  <2>2. PICK r \in Rows : /\ owner' = [owner EXCEPT ![r] = d]
                          /\ pointAddr' = [pointAddr EXCEPT ![r] = a]
    BY <1>0, <1>p, NewPointRow
  <2>3. \A o \in Devices : (Clear(o)' <=> Clear(o)) /\ (InEdit(o)' <=> InEdit(o))
    BY <1>p, <2>1 DEF Clear, Stored, InEdit, edit
  <2> QED
    BY <1>0, <1>p, <2>1, <2>2, <2>3 DEF FollowInv, DatabaseType, edit
<1>s. ASSUME UNCHANGED <<address, creating, edit, muddled>>,
             \A k \in Rows : owner'[k] \in Devices =>
                 /\ owner'[k] = owner[k] /\ pointAddr'[k] = pointAddr[k]
                 /\ k \in given' <=> k \in given,
             \A d \in Devices : Clear(d) /\ rx' # "listen" /\ rxDevice' = d => rxAddr' = address[d],
             \A d \in Devices : Clear(d) /\ user' # "idle" /\ userDevice' = d => userAddr' = address[d]
      PROVE  FollowInv'
  <2>1. \A d \in Devices : (Clear(d)' <=> Clear(d)) /\ (InEdit(d)' <=> InEdit(d))
    BY <1>s DEF Clear, Stored, InEdit, edit
  <2> QED
    BY <1>s, <2>1 DEF FollowInv, edit
<1> USE DEF database, create, edit, uplink, request, history
<1>1. ASSUME NEW n \in Networks, DeleteNetwork(n)
      PROVE  FollowInv'
  <2>1. Drop({d \in Devices : Stored(d) /\ NetworkOf[d] = n})
        /\ UNCHANGED <<creating, edit, uplink, request>>
    BY <1>1 DEF DeleteNetwork
  <2> QED
    BY <2>1, <1>d
<1>2. ASSUME NEW d \in Devices, UndoCreate(d) \/ DeleteDevice(d)
      PROVE  FollowInv'
  <2>1. /\ UNCHANGED <<edit, uplink, request>>
        /\ \A o \in Devices : creating'[o] \in {"points", "save"} => creating'[o] = creating[o]
    BY <1>0, <1>2 DEF UndoCreate, DeleteDevice, Step, CallType
  <2>2. CASE Drop({d})
    BY <2>1, <2>2, <1>d
  <2>3. CASE UNCHANGED <<database, history>>
    BY <2>1, <2>3 DEF FollowInv, Clear, Stored, InEdit
  <2> QED
    BY <1>2, <2>2, <2>3 DEF UndoCreate, DeleteDevice
<1>3. ASSUME NEW d \in Devices, LookUpAddress(d) \/ AddDevicePoints(d) \/ SavePointsWaited(d)
      PROVE  FollowInv'
  <2>1. /\ UNCHANGED <<database, edit, uplink, request, muddled, given>>
        /\ \A o \in Devices : creating'[o] \in {"points", "save"} =>
              creating[o] \in {"points", "save"}
    BY <1>0, <1>3 DEF LookUpAddress, AddDevicePoints, SavePointsWaited, Step, CallType
  <2> QED
    BY <2>1 DEF FollowInv, Clear, Stored, InEdit
<1>4. ASSUME NEW d \in Devices, CreateDevice(d)
      PROVE  FollowInv'
  <2>1. /\ creating[d] = "create"
        /\ UNCHANGED <<owner, pointAddr, edit, uplink, request, muddled, given>>
        /\ \A o \in Devices \ {d} : creating'[o] = creating[o] /\ address'[o] = address[o]
        /\ creating'[d] \in {"points", "save"} => address'[d] = AskedAddress(d)
    BY <1>0, <1>4 DEF CreateDevice, Step, CallType, DatabaseType
  <2>2. ~Created(d) /\ ~Stored(d) /\ \A k \in Rows : owner[k] # d
    BY <1>0, <2>1 DEF CreatedInv, Created
  <2>3. /\ rx # "listen" => rxDevice # d
        /\ user # "idle" => userDevice # d
        /\ \A e \in Edits : editing[e] # "idle" => EditOf[e] # d
    BY <1>0, <2>2 DEF CreatedInv, RequestType
  <2> QED
    BY <2>1, <2>2, <2>3 DEF FollowInv, Clear, Stored, InEdit
<1>5. ASSUME NEW d \in Devices, NEW name \in Names, SavePoint(d, name)
      PROVE  FollowInv'
  <2>1. creating[d] = "save" /\ UNCHANGED <<creating, edit, uplink, request, muddled, given>>
    BY <1>5 DEF SavePoint
  <2>2. CASE NewPoint(d, name, AskedAddress(d))
    BY <2>1, <2>2, <1>p DEF FollowInv
  <2>3. CASE UNCHANGED database
    BY <2>1, <2>3 DEF FollowInv, Clear, Stored, InEdit
  <2> QED
    BY <1>5, <2>2, <2>3 DEF SavePoint
<1>6. ASSUME NEW e \in Edits, NEW a \in Addresses, UpdateDevice(e, a)
      PROVE  FollowInv'
  <2> DEFINE u == EditOf[e]
  <2>1. /\ u \in Devices /\ editing[e] = "idle"
        /\ address' = [address EXCEPT ![u] = a]
        /\ editing' = [editing EXCEPT ![e] = "read"]
        /\ newAddr' = [newAddr EXCEPT ![e] = a]
        /\ muddled' = IF HeldBy(u) THEN muddled \union {u} ELSE muddled \ {u}
        /\ UNCHANGED <<owner, pointAddr, creating, snapshot, uplink, request, given>>
    BY <1>6, DevicesAssumption DEF UpdateDevice
  <2>2. ASSUME NEW d \in Devices, d # u, Clear(d)'
        PROVE  Clear(d) /\ address'[d] = address[d] /\ (InEdit(d)' <=> InEdit(d))
    BY <1>0, <2>1, <2>2 DEF Clear, Stored, InEdit, DatabaseType, CallType
  <2>3. ASSUME Clear(u)'
        PROVE  ~HeldBy(u) /\ address'[u] = a /\ InEdit(u)'
    BY <1>0, <2>1, <2>3 DEF Clear, InEdit, DatabaseType, CallType
  <2>4. ASSUME Clear(u)', NEW o \in Edits, EditOf[o] = u, editing'[o] # "idle"
        PROVE  o = e /\ newAddr'[o] = a /\ editing'[o] = "read"
    BY <1>0, <2>1, <2>3, <2>4 DEF HeldBy, InEdit, CallType
  <2>5. ASSUME NEW o \in Edits, EditOf[o] # u
        PROVE  editing'[o] = editing[o] /\ newAddr'[o] = newAddr[o]
    BY <1>0, <2>1, <2>5 DEF CallType
  <2> HIDE DEF u
  <2>6. ASSUME Clear(u)'
        PROVE  /\ creating[u] \notin {"points", "save"}
               /\ rx = "listen" \/ rxDevice # u
               /\ user = "idle" \/ userDevice # u
    BY <2>3, <2>6 DEF HeldBy
  <2> QED
    BY <2>1, <2>2, <2>3, <2>4, <2>5, <2>6 DEF FollowInv
<1>e. ASSUME NEW e \in Edits, EndEdit(e), CallType,
             UNCHANGED <<address, owner, pointAddr, creating, uplink, request, given>>,
             \/ muddled' = muddled \union {EditOf[e]}
             \/ /\ UNCHANGED muddled
                /\ editing[e] = "update" /\ snapshot[e] = {}
      PROVE  FollowInv'
  <2>1. /\ editing' = [editing EXCEPT ![e] = "idle"]
        /\ newAddr' = [newAddr EXCEPT ![e] = Absent]
        /\ snapshot' = [snapshot EXCEPT ![e] = {}]
    BY <1>e DEF EndEdit
  <2>2. ASSUME NEW d \in Devices, Clear(d)'
        PROVE  Clear(d) /\ (EditOf[e] = d => editing[e] = "update" /\ snapshot[e] = {})
    BY <1>e, <2>2 DEF Clear, Stored
  <2>3. \A o \in Edits : o # e => /\ editing'[o] = editing[o] /\ newAddr'[o] = newAddr[o]
                                  /\ snapshot'[o] = snapshot[o]
    BY <1>e, <2>1 DEF CallType
  <2>4. editing'[e] = "idle"
    BY <1>e, <2>1 DEF CallType
  <2>5. ASSUME NEW d \in Devices, Clear(d)', NEW k \in Rows, owner[k] = d
        PROVE  pointAddr[k] = address[d] \/ InEdit(d)' \/ k \in given
    <3>1. CASE EditOf[e] = d
      BY <2>2, <2>5, <3>1 DEF FollowInv
    <3>2. CASE EditOf[e] # d
      BY <2>2, <2>3, <2>5, <3>2 DEF FollowInv, InEdit
    <3> QED
      BY <3>1, <3>2
  <2> QED
    BY <1>e, <2>2, <2>3, <2>4, <2>5 DEF FollowInv
<1>7. ASSUME NEW e \in Edits, ReadPoints(e)
      PROVE  FollowInv'
  <2>1. CASE StopHalfWay(e)
    BY <1>0, <1>7, <2>1, <1>e DEF ReadPoints, StopHalfWay
  <2>2. CASE /\ editing' = [editing EXCEPT ![e] = "update"]
             /\ snapshot' = [snapshot EXCEPT ![e] = PointsOf(EditOf[e])]
             /\ UNCHANGED <<pointAddr, newAddr, muddled, given>>
    <3>1. editing[e] = "read" /\ UNCHANGED <<address, owner, creating, uplink, request>>
      BY <1>7 DEF ReadPoints
    <3>2. \A d \in Devices : (Clear(d)' <=> Clear(d)) /\ (InEdit(d)' <=> InEdit(d))
      BY <1>0, <2>2, <3>1 DEF Clear, Stored, InEdit, CallType
    <3>3. \A o \in Edits : o # e => editing'[o] = editing[o] /\ snapshot'[o] = snapshot[o]
      BY <1>0, <2>2 DEF CallType
    <3>4. snapshot'[e] = {k \in Rows : owner[k] = EditOf[e]}
      BY <1>0, <2>2 DEF CallType, PointsOf
    <3>5. \A o \in Edits : editing'[o] # "idle" => editing[o] # "idle"
      BY <1>0, <2>2, <3>1 DEF CallType
    <3> QED
      BY <2>2, <3>1, <3>2, <3>3, <3>4, <3>5 DEF FollowInv
  <2> QED
    BY <1>7, <2>1, <2>2 DEF ReadPoints
<1>8. ASSUME NEW e \in Edits, NEW k \in Rows, UpdatePointAddress(e, k)
      PROVE  FollowInv'
  <2>1. CASE StopHalfWay(e)
    BY <1>0, <1>8, <2>1, <1>e DEF UpdatePointAddress, StopHalfWay
  <2>2. CASE /\ owner[k] = EditOf[e]
             /\ pointAddr' = [pointAddr EXCEPT ![k] = newAddr[e]]
             /\ given' = given \ {k}
             /\ snapshot' = [snapshot EXCEPT ![e] = @ \ {k}]
             /\ UNCHANGED <<editing, newAddr, muddled>>
    <3>1. editing[e] = "update" /\ UNCHANGED <<address, owner, creating, uplink, request>>
      BY <1>8 DEF UpdatePointAddress
    <3>2. \A d \in Devices : (Clear(d)' <=> Clear(d)) /\ (InEdit(d)' <=> InEdit(d))
      BY <2>2, <3>1 DEF Clear, Stored, InEdit
    <3>3. pointAddr'[k] = newAddr[e] /\ \A l \in Rows : l # k => pointAddr'[l] = pointAddr[l]
      BY <1>0, <2>2 DEF DatabaseType
    <3>4. \A o \in Edits, l \in Rows : l \notin snapshot'[o] => l \notin snapshot[o] \/ l = k
      BY <1>0, <2>2 DEF CallType
    <3>5. Clear(EditOf[e]) => newAddr[e] = address[EditOf[e]]
      BY <3>1, DevicesAssumption DEF FollowInv
    <3> QED
      BY <2>2, <3>1, <3>2, <3>3, <3>4, <3>5 DEF FollowInv
  <2> QED
    BY <1>8, <2>1, <2>2 DEF UpdatePointAddress, GivesAddress
<1>9. ASSUME NEW e \in Edits, UpdatedAll(e)
      PROVE  FollowInv'
    BY <1>0, <1>9, <1>e DEF UpdatedAll
<1>10. ASSUME NEW d \in Devices, NEW f \in Uplinks, ReceiveUplink(d, f)
      PROVE  FollowInv'
    BY <1>10, <1>s DEF ReceiveUplink, FollowInv
<1>11. CASE SelectPointByIoNumber \/ UplinkHandled
    BY <1>11, <1>s DEF SelectPointByIoNumber, UplinkHandled, FollowInv
<1>12. CASE ReadDevice
    BY <1>12, <1>s DEF ReadDevice, FollowInv
<1>13. CASE AddPointFromName
  <2>1. /\ rx = "add" /\ rx' = "next" /\ rxDevice \in Devices
        /\ UNCHANGED <<creating, edit, rxDevice, rxAddr, request, muddled, given>>
    BY <1>0, <1>13 DEF AddPointFromName, RequestType
  <2>2. Clear(rxDevice) => rxAddr = address[rxDevice]
    BY <2>1 DEF FollowInv
  <2>3. CASE NewPoint(rxDevice, Head(rxNames), rxAddr)
    <3>1. UNCHANGED address
      BY <2>3, NewPointUnread
    <3>2. PICK r \in Rows : /\ owner' = [owner EXCEPT ![r] = rxDevice]
                            /\ pointAddr' = [pointAddr EXCEPT ![r] = rxAddr]
      BY <1>0, <2>1, <2>3, NewPointRow
    <3>3. \A o \in Devices : (Clear(o)' <=> Clear(o)) /\ (InEdit(o)' <=> InEdit(o))
      BY <2>1, <3>1 DEF Clear, Stored, InEdit
    <3> QED
      BY <1>0, <2>1, <2>2, <3>1, <3>2, <3>3 DEF FollowInv, DatabaseType
  <2>4. CASE UNCHANGED database
    BY <2>1, <2>4, <1>s DEF FollowInv
  <2> QED
    BY <1>13, <2>3, <2>4 DEF AddPointFromName
<1>14. ASSUME NEW d \in Devices, NEW k \in Rows \union {Absent}, BeginUserPoint(d, k)
      PROVE  FollowInv'
    BY <1>14, <1>s DEF BeginUserPoint, FollowInv
<1>15. CASE SaveUserPoint
  <2>1. /\ user = "save" /\ user' = "idle" /\ userDevice \in Devices
        /\ UNCHANGED <<creating, edit, uplink, muddled>>
    BY <1>0, <1>15 DEF SaveUserPoint, RequestType
  <2>2. Clear(userDevice) => userAddr = address[userDevice]
    BY <2>1 DEF FollowInv
  <2>3. CASE NewPoint(userDevice, Own, userAddr) /\ UNCHANGED given
    <3>1. UNCHANGED address
      BY <2>3, NewPointUnread
    <3>2. PICK r \in Rows : /\ owner' = [owner EXCEPT ![r] = userDevice]
                            /\ pointAddr' = [pointAddr EXCEPT ![r] = userAddr]
      BY <1>0, <2>1, <2>3, NewPointRow
    <3>3. \A o \in Devices : (Clear(o)' <=> Clear(o)) /\ (InEdit(o)' <=> InEdit(o))
      BY <2>1, <3>1 DEF Clear, Stored, InEdit
    <3> QED
      BY <1>0, <2>1, <2>2, <2>3, <3>1, <3>2, <3>3 DEF FollowInv, DatabaseType
  <2>4. CASE /\ userRow \in PointsOf(userDevice)
             /\ pointAddr' = [pointAddr EXCEPT ![userRow] = userAddr]
             /\ given' = given \ {userRow}
             /\ UNCHANGED <<address, owner>>
    <3>1. owner[userRow] = userDevice /\ userRow \in Rows
      BY <2>4 DEF PointsOf
    <3>2. \A o \in Devices : (Clear(o)' <=> Clear(o)) /\ (InEdit(o)' <=> InEdit(o))
      BY <2>1, <2>4 DEF Clear, Stored, InEdit
    <3> QED
      BY <1>0, <2>1, <2>2, <2>4, <3>1, <3>2 DEF FollowInv, DatabaseType
  <2>5. CASE UNCHANGED <<database, given>>
    BY <2>1, <2>5, <1>s DEF FollowInv
  <2> QED
    BY <1>15, <2>3, <2>4, <2>5 DEF SaveUserPoint
<1>16. ASSUME NEW k \in Rows, DeletePoint(k)
      PROVE  FollowInv'
  <2>1. \A l \in Rows : owner'[l] \in Devices =>
            /\ owner'[l] = owner[l] /\ pointAddr'[l] = pointAddr[l]
            /\ l \in given' <=> l \in given
    BY <1>0, <1>16, EraseRows DEF DeletePoint
  <2> QED
    BY <1>16, <2>1, <1>s DEF DeletePoint, FollowInv
<1>17. ASSUME NEW d \in Devices, NEW k \in Rows \union {Absent}, NEW a \in Bodies,
              SaveReadOnlyPoint(d, k, a)
      PROVE  FollowInv'
  <2>1. UNCHANGED <<address, creating, edit, uplink, request, muddled>>
    BY <1>17, NewPointUnread DEF SaveReadOnlyPoint
  <2>2. \A o \in Devices : (Clear(o)' <=> Clear(o)) /\ (InEdit(o)' <=> InEdit(o))
    BY <2>1 DEF Clear, Stored, InEdit
  <2>3. \A l \in Rows : owner'[l] \in Devices =>
            \/ l \in given'
            \/ /\ owner'[l] = owner[l] /\ pointAddr'[l] = pointAddr[l]
               /\ l \in given' <=> l \in given
    <3>1. CASE k = Absent /\ NewPoint(d, Own, a)
               /\ given' = given \union {r \in Rows : owner'[r] # owner[r]}
      <4>1. PICK r \in Rows : /\ owner[r] = Absent
                              /\ owner' = [owner EXCEPT ![r] = d]
                              /\ pointAddr' = [pointAddr EXCEPT ![r] = a]
        BY <1>0, <3>1, NewPointRow
      <4> QED
        BY <1>0, <1>n, <3>1, <4>1 DEF DatabaseType
    <3>2. CASE /\ k \in PointsOf(d)
               /\ pointAddr' = [pointAddr EXCEPT ![k] = a]
               /\ given' = given \union {k}
               /\ UNCHANGED owner
      BY <1>0, <3>2 DEF DatabaseType
    <3> QED
      BY <1>17, <3>1, <3>2 DEF SaveReadOnlyPoint
  <2> QED
    BY <2>1, <2>2, <2>3 DEF FollowInv
<1>18. ASSUME \/ \E n \in Networks : AddNetwork(n)
              \/ \E g \in Pingers : Ping(g)
              \/ UNCHANGED vars
       PROVE  FollowInv'
  <2>1. UNCHANGED <<address, owner, pointAddr, creating, edit, uplink, request, muddled,
                    given>>
    BY <1>18 DEF AddNetwork, CheckNetworks, CreateNetwork, Ping, EnqueuePing, CheckPoints, vars
  <2> QED
    BY <2>1, <1>s DEF FollowInv
<1> QED
    BY <1>1, <1>2, <1>3, <1>4, <1>5, <1>6, <1>7, <1>8, <1>9, <1>10, <1>11, <1>12,
       <1>13, <1>14, <1>15, <1>16, <1>17, <1>18
    DEF Next, AddDevice, EditDevice, HandleUplink, UserPoint

\* Every point has the address of its device, but for those PointsFollowDevice
\* names (updateDevicePointsAddress).
THEOREM PointsFollowDeviceHolds == Spec => []PointsFollowDevice
<1>1. Init => FollowInv
    BY DEF Init, FollowInv, Clear, Stored
<1>2. BaseInv /\ FollowInv => PointsFollowDevice
    BY DEF BaseInv, CreatedInv, FollowInv, Clear, PointsFollowDevice
<1> QED
    BY <1>1, <1>2, BaseInvariant, NextFollow, PTL DEF Spec

-------------------------------------------------------------------------------
(* One point of each name.                                                   *)

\* A device whose points the module has created one at a time.
Single(d) == Stored(d) /\ d \notin twice

\* No point of such a device has a name that is still to be created; while a
\* frame is handled, the points that have come since were created by nobody else.
TwinInv ==
    \A d \in Devices : Single(d) =>
        /\ creating[d] = "points" => \A k \in Rows : owner[k] = d => ioNumber[k] = Own
        /\ creating[d] = "save" =>
              \A k \in Rows : owner[k] = d => ioNumber[k] \notin unsaved[d]
        /\ rx # "listen" /\ rxDevice = d =>
              /\ creating[d] \notin {"points", "save"}
              /\ ~Repeats(rxNames)
              /\ \A k \in Rows, i \in DOMAIN rxNames :
                    owner[k] = d /\ ioNumber[k] = rxNames[i] => rxNames[i] \in rxKnown
              /\ rx \in {"read", "add"} => Head(rxNames) \notin rxKnown
        /\ \A k \in Rows, l \in Rows :
              k # l /\ owner[k] = d /\ owner[l] = d /\ ioNumber[k] # Own =>
                 ioNumber[k] # ioNumber[l]

\* The names that are left are fewer, and at other places (SelectPointByIoNumber).
LEMMA TailNames ==
    ASSUME NEW s \in Seq(Names), s # <<>>, ~Repeats(s)
    PROVE  /\ ~Repeats(Tail(s))
           /\ \A i \in DOMAIN Tail(s) : /\ i + 1 \in DOMAIN s /\ Tail(s)[i] = s[i + 1]
                                        /\ Tail(s)[i] # Head(s)
<1>1. \A i \in DOMAIN Tail(s) : i \in Nat /\ 1 < i + 1 /\ i + 1 \in DOMAIN s
                                /\ Tail(s)[i] = s[i + 1]
    OBVIOUS
<1>2. 1 \in DOMAIN s /\ Head(s) = s[1]
    OBVIOUS
<1>3. \A i \in DOMAIN Tail(s) : Tail(s)[i] # Head(s)
    BY <1>1, <1>2 DEF Repeats
<1>4. ASSUME Repeats(Tail(s))
      PROVE  FALSE
  <2>1. PICK i \in DOMAIN Tail(s), j \in DOMAIN Tail(s) : i < j /\ Tail(s)[i] = Tail(s)[j]
    BY <1>4 DEF Repeats
  <2>2. i \in Nat /\ j \in Nat /\ i + 1 < j + 1
    BY <1>1, <2>1, SMT
  <2>3. i + 1 \in DOMAIN s /\ j + 1 \in DOMAIN s /\ s[i + 1] = s[j + 1]
    BY <1>1, <2>1
  <2> QED
    BY <2>2, <2>3 DEF Repeats
<1> QED
    BY <1>1, <1>3, <1>4

LEMMA NextTwin == BaseInv /\ TwinInv /\ [Next]_vars => TwinInv'
<1> SUFFICES ASSUME BaseInv, TwinInv, [Next]_vars
             PROVE  TwinInv'
    OBVIOUS
<1>0. DatabaseType /\ CallType /\ RequestType /\ CreatedInv
    BY DEF BaseInv
<1>n. /\ Own \notin Names
      /\ Absent \notin Devices /\ Deleted \notin Devices
    BY NullsAssumption, NamesAssumption
<1>d. ASSUME NEW ds \in SUBSET Devices, Drop(ds), UNCHANGED <<uplink, unsaved>>,
             \A d \in Devices : creating'[d] \in {"points", "save"} => creating'[d] = creating[d]
      PROVE  TwinInv'
  <2>1. \A d \in Devices : Stored(d)' =>
            d \notin ds /\ Stored(d) /\ address'[d] = address[d]
    BY <1>0, <1>d, DropRows
  <2>2. \A k \in Rows : owner'[k] \in Devices =>
            owner'[k] = owner[k] /\ ioNumber'[k] = ioNumber[k]
    BY <1>0, <1>d, DropRows
  <2>3. twice' = twice \ ds
    BY <1>d DEF Drop
  <2>4. \A d \in Devices : Single(d)' => Single(d)
    BY <2>1, <2>3 DEF Single
  <2> QED
    BY <1>d, <2>2, <2>4 DEF TwinInv, uplink
<1>s. ASSUME UNCHANGED <<uplink, creating, unsaved>>,
             \A d \in Devices : Single(d)' => Single(d),
             \A k \in Rows : owner'[k] \in Devices =>
                 owner'[k] = owner[k] /\ ioNumber'[k] = ioNumber[k]
      PROVE  TwinInv'
    BY <1>s DEF TwinInv, uplink
<1> USE DEF database, create, edit, uplink, request, history
<1>1. ASSUME NEW n \in Networks, DeleteNetwork(n)
      PROVE  TwinInv'
  <2>1. Drop({d \in Devices : Stored(d) /\ NetworkOf[d] = n})
        /\ UNCHANGED <<create, uplink>>
    BY <1>1 DEF DeleteNetwork
  <2> QED
    BY <2>1, <1>d
<1>2. ASSUME NEW d \in Devices, UndoCreate(d) \/ DeleteDevice(d)
      PROVE  TwinInv'
  <2>1. /\ UNCHANGED <<uplink, unsaved>>
        /\ \A o \in Devices : creating'[o] \in {"points", "save"} => creating'[o] = creating[o]
    BY <1>0, <1>2 DEF UndoCreate, DeleteDevice, Step, CallType
  <2>2. CASE Drop({d})
    BY <2>1, <2>2, <1>d
  <2>3. CASE UNCHANGED <<database, history>>
    BY <2>1, <2>3 DEF TwinInv, Single, Stored
  <2> QED
    BY <1>2, <2>2, <2>3 DEF UndoCreate, DeleteDevice
<1>3. ASSUME NEW d \in Devices, LookUpAddress(d) \/ SavePointsWaited(d)
      PROVE  TwinInv'
  <2>1. /\ UNCHANGED <<database, uplink, unsaved, twice>>
        /\ \A o \in Devices : creating'[o] \in {"points", "save"} => creating'[o] = creating[o]
    BY <1>0, <1>3 DEF LookUpAddress, SavePointsWaited, Step, CallType
  <2> QED
    BY <2>1 DEF TwinInv, Single, Stored
<1>4. ASSUME NEW d \in Devices, CreateDevice(d)
      PROVE  TwinInv'
  <2>1. /\ creating[d] = "create" /\ creating'[d] # "save"
        /\ UNCHANGED <<owner, ioNumber, uplink, unsaved, twice>>
        /\ \A o \in Devices \ {d} : creating'[o] = creating[o] /\ address'[o] = address[o]
    BY <1>0, <1>4 DEF CreateDevice, Step, CallType, DatabaseType
  <2>2. ~Created(d) /\ ~Stored(d) /\ \A k \in Rows : owner[k] # d
    BY <1>0, <2>1 DEF CreatedInv, Created
  <2>3. rx # "listen" => rxDevice # d
    BY <1>0, <2>2 DEF CreatedInv
  <2> QED
    BY <2>1, <2>2, <2>3 DEF TwinInv, Single, Stored
<1>5. ASSUME NEW d \in Devices, AddDevicePoints(d)
      PROVE  TwinInv'
  <2>1. creating[d] = "points" /\ UNCHANGED <<database, uplink, twice>>
    BY <1>5 DEF AddDevicePoints
  <2>2. \A o \in Devices \ {d} : creating'[o] = creating[o] /\ unsaved'[o] = unsaved[o]
    BY <1>0, <1>5 DEF AddDevicePoints, Step, CallType
  <2>3. CASE creating'[d] = "save" /\ unsaved'[d] = Names
    BY <1>n, <2>1, <2>2, <2>3 DEF TwinInv, Single, Stored
  <2>4. CASE creating'[d] = "undo"
    BY <2>1, <2>2, <2>4 DEF TwinInv, Single, Stored
  <2> QED
    BY <1>0, <1>5, <2>3, <2>4 DEF AddDevicePoints, Step, CallType
<1>6. ASSUME NEW d \in Devices, NEW name \in Names, SavePoint(d, name)
      PROVE  TwinInv'
  <2>1. /\ creating[d] = "save" /\ name \in unsaved[d]
        /\ UNCHANGED <<creating, uplink, twice>>
        /\ unsaved'[d] = unsaved[d] \ {name}
        /\ \A o \in Devices \ {d} : unsaved'[o] = unsaved[o]
    BY <1>0, <1>6 DEF SavePoint, CallType
  <2>2. CASE NewPoint(d, name, AskedAddress(d))
    <3>1. UNCHANGED address
      BY <2>2, NewPointUnread
    <3>2. PICK r \in Rows : /\ owner' = [owner EXCEPT ![r] = d]
                            /\ ioNumber' = [ioNumber EXCEPT ![r] = name]
      BY <1>0, <2>2, NewPointRow
    <3>3. \A o \in Devices : Single(o)' => Single(o)
      BY <2>1, <3>1 DEF Single, Stored
    <3>4. /\ owner'[r] = d /\ ioNumber'[r] = name /\ name # Own
          /\ \A k \in Rows \ {r} : owner'[k] = owner[k] /\ ioNumber'[k] = ioNumber[k]
      BY <1>0, <1>n, <3>2 DEF DatabaseType
    <3>5. Single(d) => /\ rx # "listen" => rxDevice # d
                       /\ \A k \in Rows : owner[k] = d => ioNumber[k] \notin unsaved[d]
      BY <2>1 DEF TwinInv
    <3> QED
      BY <2>1, <3>3, <3>4, <3>5 DEF TwinInv
  <2>3. CASE UNCHANGED database
    BY <2>1, <2>3 DEF TwinInv, Single, Stored
  <2> QED
    BY <1>6, <2>2, <2>3 DEF SavePoint
<1>7. ASSUME NEW e \in Edits, NEW a \in Addresses, UpdateDevice(e, a)
      PROVE  TwinInv'
  <2>1. /\ UNCHANGED <<owner, ioNumber, create, uplink, twice>>
        /\ Stored(EditOf[e]) /\ EditOf[e] \in Devices
        /\ address' = [address EXCEPT ![EditOf[e]] = a]
    BY <1>7, DevicesAssumption DEF UpdateDevice
  <2>2. \A d \in Devices : Single(d)' => Single(d)
    BY <1>0, <2>1 DEF Single, Stored, DatabaseType
  <2> QED
    BY <2>1, <2>2, <1>s
<1>8. ASSUME NEW d \in Devices, NEW f \in Uplinks, ReceiveUplink(d, f)
      PROVE  TwinInv'
  <2>1. /\ rx' = "next" /\ rxDevice' = d /\ rxNames' = f
        /\ rxKnown' = {ioNumber[k] : k \in PointsOf(d)}
        /\ twice' = IF Repeats(f) \/ creating[d] \in {"points", "save"}
                    THEN twice \union {d} ELSE twice
        /\ UNCHANGED <<database, create>>
    BY <1>8 DEF ReceiveUplink
  <2>2. \A o \in Devices : Single(o)' => Single(o)
    BY <2>1 DEF Single, Stored
  <2>3. Single(d)' => ~Repeats(f) /\ creating[d] \notin {"points", "save"}
    BY <2>1 DEF Single
  <2>4. \A k \in Rows : owner[k] = d => ioNumber[k] \in rxKnown'
    BY <2>1 DEF PointsOf
  <2> QED
    BY <2>1, <2>2, <2>3, <2>4 DEF TwinInv
<1>9. CASE SelectPointByIoNumber
  <2>1. /\ rx = "next" /\ rxNames # <<>> /\ rxNames \in Seq(Names)
        /\ UNCHANGED <<database, create, rxDevice, rxKnown, twice>>
        /\ \/ rxNames' = Tail(rxNames) /\ rx' = "next"
           \/ Head(rxNames) \notin rxKnown /\ UNCHANGED rxNames /\ rx' \in {"read", "add"}
    BY <1>0, <1>9 DEF SelectPointByIoNumber, SelectPoint, RequestType
  <2>2. \A o \in Devices : Single(o)' => Single(o)
    BY <2>1 DEF Single, Stored
  <2>3. CASE rxNames' = Tail(rxNames) /\ rx' = "next"
    <3>1. ~Repeats(rxNames) =>
            /\ ~Repeats(rxNames')
            /\ \A i \in DOMAIN rxNames' :
                  i + 1 \in DOMAIN rxNames /\ rxNames'[i] = rxNames[i + 1]
      BY <2>1, <2>3, TailNames
    <3> QED
      BY <2>1, <2>2, <2>3, <3>1 DEF TwinInv
  <2>4. CASE Head(rxNames) \notin rxKnown /\ UNCHANGED rxNames /\ rx' \in {"read", "add"}
    BY <2>1, <2>2, <2>4 DEF TwinInv
  <2> QED
    BY <2>1, <2>3, <2>4
<1>10. CASE ReadDevice
  <2>1. /\ rx = "read" /\ rxNames # <<>> /\ rxNames \in Seq(Names)
        /\ UNCHANGED <<database, create, rxDevice, rxKnown, twice>>
        /\ \/ rxNames' = Tail(rxNames) /\ rx' = "next"
           \/ UNCHANGED rxNames /\ rx' = "add"
    BY <1>0, <1>10 DEF ReadDevice, RequestType
  <2>2. \A o \in Devices : Single(o)' => Single(o)
    BY <2>1 DEF Single, Stored
  <2>3. CASE rxNames' = Tail(rxNames) /\ rx' = "next"
    <3>1. ~Repeats(rxNames) =>
            /\ ~Repeats(rxNames')
            /\ \A i \in DOMAIN rxNames' :
                  i + 1 \in DOMAIN rxNames /\ rxNames'[i] = rxNames[i + 1]
      BY <2>1, <2>3, TailNames
    <3> QED
      BY <2>1, <2>2, <2>3, <3>1 DEF TwinInv
  <2>4. CASE UNCHANGED rxNames /\ rx' = "add"
    BY <2>1, <2>2, <2>4 DEF TwinInv
  <2> QED
    BY <2>1, <2>3, <2>4
<1>11. CASE AddPointFromName
  <2>1. /\ rx = "add" /\ rx' = "next" /\ rxDevice \in Devices
        /\ rxNames # <<>> /\ rxNames \in Seq(Names) /\ rxNames' = Tail(rxNames)
        /\ UNCHANGED <<create, rxDevice, rxKnown, twice>>
    BY <1>0, <1>11 DEF AddPointFromName, RequestType
  <2>2. ~Repeats(rxNames) =>
            /\ ~Repeats(rxNames')
            /\ \A i \in DOMAIN rxNames' :
                  /\ i + 1 \in DOMAIN rxNames /\ rxNames'[i] = rxNames[i + 1]
                  /\ rxNames'[i] # Head(rxNames)
    BY <2>1, TailNames
  <2>3. Head(rxNames) \in Names /\ 1 \in DOMAIN rxNames /\ Head(rxNames) = rxNames[1]
    BY <2>1
  <2>4. CASE NewPoint(rxDevice, Head(rxNames), rxAddr)
    <3>1. UNCHANGED address
      BY <2>4, NewPointUnread
    <3>2. PICK r \in Rows : /\ owner' = [owner EXCEPT ![r] = rxDevice]
                            /\ ioNumber' = [ioNumber EXCEPT ![r] = Head(rxNames)]
      BY <1>0, <2>1, <2>4, NewPointRow
    <3>3. \A o \in Devices : Single(o)' => Single(o)
      BY <2>1, <3>1 DEF Single, Stored
    <3>4. /\ owner'[r] = rxDevice /\ ioNumber'[r] = Head(rxNames)
          /\ \A k \in Rows \ {r} : owner'[k] = owner[k] /\ ioNumber'[k] = ioNumber[k]
      BY <1>0, <3>2 DEF DatabaseType
    <3>5. Single(rxDevice) =>
              /\ creating[rxDevice] \notin {"points", "save"}
              /\ ~Repeats(rxNames)
              /\ \A k \in Rows : owner[k] = rxDevice => ioNumber[k] # Head(rxNames)
      BY <2>1, <2>3 DEF TwinInv
    <3> QED
      BY <2>1, <2>2, <3>3, <3>4, <3>5 DEF TwinInv
  <2>5. CASE UNCHANGED database
    <3>1. \A o \in Devices : Single(o)' => Single(o)
      BY <2>1, <2>5 DEF Single, Stored
    <3> QED
      BY <2>1, <2>2, <2>5, <3>1 DEF TwinInv
  <2> QED
    BY <1>11, <2>4, <2>5 DEF AddPointFromName
<1>12. CASE UplinkHandled
    BY <1>12 DEF UplinkHandled, TwinInv, Single, Stored
<1>13. CASE SaveUserPoint
  <2>1. UNCHANGED <<create, uplink, twice>>
    BY <1>13 DEF SaveUserPoint
  <2>2. CASE NewPoint(userDevice, Own, userAddr)
    <3>1. UNCHANGED address /\ userDevice \in Devices
      BY <1>0, <1>13, <2>2, NewPointUnread DEF SaveUserPoint, RequestType
    <3>2. PICK r \in Rows : /\ owner' = [owner EXCEPT ![r] = userDevice]
                            /\ ioNumber' = [ioNumber EXCEPT ![r] = Own]
      BY <1>0, <2>2, <3>1, NewPointRow
    <3>3. \A o \in Devices : Single(o)' => Single(o)
      BY <2>1, <3>1 DEF Single, Stored
    <3>4. /\ ioNumber'[r] = Own
          /\ \A k \in Rows \ {r} : owner'[k] = owner[k] /\ ioNumber'[k] = ioNumber[k]
          /\ \A d \in Devices : Own \notin unsaved[d]
          /\ \A i \in DOMAIN rxNames : rxNames[i] # Own
      BY <1>0, <1>n, <3>2 DEF DatabaseType, CallType, RequestType
    <3> QED
      BY <2>1, <3>3, <3>4 DEF TwinInv
  <2>3. CASE UNCHANGED <<address, owner, ioNumber>>
    BY <2>1, <2>3, <1>s DEF Single, Stored
  <2> QED
    BY <1>13, <2>2, <2>3 DEF SaveUserPoint
<1>14. ASSUME NEW k \in Rows, DeletePoint(k)
      PROVE  TwinInv'
  <2>1. \A l \in Rows : owner'[l] \in Devices =>
            owner'[l] = owner[l] /\ ioNumber'[l] = ioNumber[l]
    BY <1>0, <1>14, EraseRows DEF DeletePoint
  <2> QED
    BY <1>14, <2>1, <1>s DEF DeletePoint, Single, Stored
<1>15. ASSUME NEW d \in Devices, NEW k \in Rows \union {Absent}, NEW a \in Bodies,
              SaveReadOnlyPoint(d, k, a)
      PROVE  TwinInv'
  <2>1. UNCHANGED <<create, uplink, twice>>
    BY <1>15 DEF SaveReadOnlyPoint
  <2>2. CASE NewPoint(d, Own, a)
    <3>1. UNCHANGED address
      BY <2>2, NewPointUnread
    <3>2. PICK r \in Rows : /\ owner' = [owner EXCEPT ![r] = d]
                            /\ ioNumber' = [ioNumber EXCEPT ![r] = Own]
      BY <1>0, <2>2, <3>1, NewPointRow
    <3>3. \A o \in Devices : Single(o)' => Single(o)
      BY <2>1, <3>1 DEF Single, Stored
    <3>4. /\ ioNumber'[r] = Own
          /\ \A l \in Rows \ {r} : owner'[l] = owner[l] /\ ioNumber'[l] = ioNumber[l]
          /\ \A o \in Devices : Own \notin unsaved[o]
          /\ \A i \in DOMAIN rxNames : rxNames[i] # Own
      BY <1>0, <1>n, <3>2 DEF DatabaseType, CallType, RequestType
    <3> QED
      BY <2>1, <3>3, <3>4 DEF TwinInv
  <2>3. CASE UNCHANGED <<address, owner, ioNumber>>
    BY <2>1, <2>3, <1>s DEF Single, Stored
  <2> QED
    BY <1>15, <2>2, <2>3 DEF SaveReadOnlyPoint
<1>16. ASSUME \/ \E n \in Networks : AddNetwork(n)
              \/ \E e \in Edits : \/ ReadPoints(e) \/ UpdatedAll(e)
                                  \/ \E k \in Rows : UpdatePointAddress(e, k)
              \/ \E d \in Devices, k \in Rows \union {Absent} : BeginUserPoint(d, k)
              \/ \E g \in Pingers : Ping(g)
              \/ UNCHANGED vars
       PROVE  TwinInv'
  <2>1. UNCHANGED <<address, owner, ioNumber, create, uplink, twice>>
    BY <1>16 DEF AddNetwork, CheckNetworks, CreateNetwork, ReadPoints, StopHalfWay,
       UpdatePointAddress, UpdatedAll, BeginUserPoint, Ping, EnqueuePing, CheckPoints, vars
  <2> QED
    BY <2>1, <1>s DEF Single, Stored
<1> QED
    BY <1>1, <1>2, <1>3, <1>4, <1>5, <1>6, <1>7, <1>8, <1>9, <1>10, <1>11, <1>12,
       <1>13, <1>14, <1>15, <1>16
    DEF Next, AddDevice, EditDevice, HandleUplink, UserPoint

\* The module creates no second point of a name, but for the frames NoTwinPoints
\* names (updateDevicePoint, savePoints).
THEOREM NoTwinPointsHolds == Spec => []NoTwinPoints
<1>1. Init => TwinInv
    BY DEF Init, TwinInv, Single, Stored
<1>2. BaseInv /\ TwinInv => NoTwinPoints
  <2> SUFFICES ASSUME BaseInv, TwinInv, NEW k \in Rows, NEW l \in Rows, k # l,
                      owner[k] \in Devices \ twice, ioNumber[k] # Own,
                      owner[l] = owner[k], ioNumber[l] = ioNumber[k]
               PROVE  FALSE
    BY DEF NoTwinPoints
  <2>1. Single(owner[k])
    BY DEF BaseInv, CreatedInv, Single
  <2> QED
    BY <2>1 DEF TwinInv
<1> QED
    BY <1>1, <1>2, BaseInvariant, NextTwin, PTL DEF Spec
===============================================================================
