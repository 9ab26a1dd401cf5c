# TLA+ models of module-core-loraraw

`module-core-loraraw` is a plugin of a building-automation host. It drives a
LoRa gateway on a serial port: it receives frames from sensors and controllers,
decrypts and decodes them into point values, and sends write requests for points
to devices that answer over the same half-duplex radio. This directory holds
TLA+ models of it, TLC configurations that check them on small instances, and
proofs checked by TLAPS.

## 1. Inventory

### 1.1 Components

| component | source | state | operations |
|---|---|---|---|
| Point write queues | `pkg/writeQueue.go` | a list of pending writes per device; per write: message id and frame, retry count, a `done` channel | `EnqueueWriteQueue`, `Peek`, `SetMessage`, `IncRetry`, `RemoveItem`, `dequeue` |
| Write queue manager | `pkg/writeQueueManager.go` | map and order of the queues, `rrIndex`, `notify` and `stop` channels | `EnqueuePoint`, `DequeueUsingMessageId`, `schedule`/`nextPending`/`transmit`/`finishAttempt`, `Stop` |
| Serial link | `pkg/serial.go`, `pkg/run.go`, drainer in `pkg/app.go` | global `Port`, reader goroutine and its channels, the drainer's queue and `done` channel | `SerialOpen`, `SerialClose`, `WriteToLoRaRaw`, `Loop`, `run`, `processWriteQueue` |
| Life cycle | `pkg/enable.go`, `addNetwork` in `pkg/app.go` | `interruptChan`, the manager pointer, the MQTT client | `Enable`, `Disable`, `addNetwork` |
| API writes | `pkg/router.go`, `pkg/dbWriter.go` | rows of points in the host's database (write value, state) | `PointWrite`, `updateDeviceWrittenPointSuccess/Error`, `onWriteExhausted` |
| Frame dispatch | `pkg/app.go`, `aesutils`, `utils` | none; looks devices up in the database | `dispatchFrame`, `handleLoRaRAWDevice`, `handleConfirmedOpt`, `tryLegacyDecrypt` |
| Rubix codec | `codecs/rubixDataEncoding` | none | `EncodeRequestMessage`, `DecodeRubix`, `DecodeResponse` |
| Legacy codecs | `codecs/legacyDecoders` | none | length checks and decoders of Droplet, MicroEdge, ZipHydroTap |
| Provisioning | `pkg/app.go`, `pkg/router.go`, `pkg/dbWriter.go` | rows of networks, devices and points in the host's database | create, update and delete handlers, points made by uplinks (`updateDevicePoint`), UART ping |
| MQTT | `pkg/mqtt.go` | a paho client | `PublishRaw`, `PublishValues` |

### 1.2 Interaction

A `PointWrite` request stores the value through the host's gRPC interface with
the state "API write pending" and calls `EnqueuePoint`. The manager's one
scheduler goroutine picks writes round robin over the devices, encodes and
encrypts a write on its first attempt, and passes the frame to
`WriteToLoRaRaw`, which puts it in the queue of the drainer goroutine; the
drainer writes to the serial port. A reader goroutine scans lines from the port
and passes them to the run loop, which decodes them one at a time
(`handleSerialPayload`). A RESPONSE reaches
`DequeueUsingMessageId(device, messageId)` once for each value it holds; the
write it removes is marked written or failed in the database. Without a
RESPONSE the write is retried and, after `maxRetry` attempts, reported through
`onWriteExhausted`. Any other uplink updates the points of its device, and
creates those that are missing. `Enable` makes a new manager, queues the writes the database
still calls pending or failed, and starts the run loop; `Disable` interrupts
the run loop and stops manager and drainer.

### 1.3 What is hard

* four kinds of goroutines (callers, scheduler, receiver, drainer) meet in the
  queues, and nothing but channel operations and short critical sections orders
  them;
* the radio loses, delays and repeats RESPONSEs, and a RESPONSE names its
  request only by 8 random bits;
* the response timer races the RESPONSE it waits for;
* `Enable`, `Disable` and `addNetwork` start and stop goroutines that keep
  references to channels which have been replaced meanwhile;
* the write queues are lost in a crash and rebuilt from the database;
* networks, devices and points are created, edited and deleted by requests that
  run at once, with several gRPC calls each and no transaction around them;
* the codec packs values into bit fields whose width is computed with logarithms.

`PROJECT.json` lists the hazards, each at its line.

### 1.4 What makes each component correct

* queues and manager: every accepted write is settled, once, with one verdict;
  at most `maxRetry` attempts; order per device; fairness between devices; no
  lost wake-up; a stopped manager is silent;
* serial link: at most one run loop owns the port, a lost port is reported and
  opened again, a frame that was not sent is not called sent, `Disable` returns;
* API writes: the last value written through the API is the last one the device
  is asked to take, and a row says "written" only when that is the value the
  device has acknowledged;
* frame dispatch: a frame is handed to the decoder of the device it comes from,
  at most once;
* legacy decoders: a payload of any length is decoded whole or not at all, and
  never brings the receiver down;
* provisioning: an address belongs to one device, the points of a device have its
  address and exist once, and a ping ends;
* codec: decoding what was encoded gives the value back within the resolution of
  its type, and no values besides.

## 2. The modules

| module | models |
|---|---|
| `PendingWrites` | what the write queues promise, without radio, retries or threads |
| `PointWriteQueueManager` | `writeQueue.go` and `writeQueueManager.go`, one action per critical section or channel operation; implements `PendingWrites` |
| `SerialWriter` | the way of a frame to the port: `WriteToLoRaRaw`, the drainer and its queue, and `Enable` and `Disable` as far as they touch them |
| `RunLoop` | who reads the port: run loops, readers, `SerialOpen`, `SerialClose`, `Enable`, `Disable`, `addNetwork` |
| `PointWrites` | a write from the API request over a small manager to the row of its point, with crashes and `Enable` |
| `RubixCodec` | bits of a message: `EncodeData` and `DecodeRubix` for every key |
| `LegacyDecoders` | what the decoders of MicroEdge, Droplet and ZipHydroTap read of a payload |
| `FrameDispatch` | `dispatchFrame` and the rest of `handleSerialPayload`, for one frame; extends `LegacyDecoders` |
| `Provisioning` | networks, devices and points as rows; requests, uplinks and pings that change them call by call |
| `MC...` | instances of these for TLC |
| `..._proofs` | inductive invariants and theorems |

Operators whose comment starts with "Defect" are not part of a model. Each is a
plausible mistake in the definition that follows it; `PROJECT.json` pairs it
with a property, which TLC finds violated when the mistake takes the
definition's place. Variables called history are read by properties only.

### 2.1 PointWriteQueueManager

| variable | code |
|---|---|
| `queues`, `order`, `rrIndex` | `PointWriteQueueManager.queues` (with each queue's `writeQueue`), `.order`, `.rrIndex` |
| `messageId`, `retryCount`, `done` | `MessageId` (with `NoMsg` for `Message == nil`), `RetryCount`, the `done` channel and `acked` of a `PendingPointWrite` |
| `notify`, `stop` | a token in the one-slot channel; the closed `stop` channel |
| `pc`, `scan`, `cur` | position and locals of the scheduler goroutine |
| `call` | position of each `EnqueuePoint` call |
| `rx`, `rxFrame` | position of the receiver in `DequeueUsingMessageId` and the RESPONSE it handles |
| `air` | RESPONSE frames on their way (the environment) |
| `attempts`, `heard`, `verdicts`, `passed` | history |

`m.mutex` needs no variable of its own: only `nextPending` holds it over
several steps, exactly while `pc = "next"` and `scan > 0` (`ManagerLocked`).
The other critical sections are one step each.

Calls that may fail (`getDevice`, `getEncryptionKey`, the encoder, `Encrypt`)
are one choice, `PrepareFails`. `Encoders` is the set of devices whose model has
an `EncodeRequestMessage`; for the others the call through the nil function
panics (`PreparePanics`). An unknown model has an encoder that always fails and
belongs to `Encoders`. `MsgIds` stands for the 256 values of `GenerateRandomId`:
with one or two of them collisions are as easy to reach as any other step.
`Leftovers` are RESPONSEs to requests of an earlier run of the process.

### 2.2 SerialWriter

| variable | code |
|---|---|
| `Port` | the global handle: `"nil"` before the first open, then whether it works |
| `writeQueue` | `Module.writeQueue`, named by the drainer it was made with |
| `queue`, `done`, `drainer`, `holding` | the channel, the `done` channel, the position and the frame in hand of each `processWriteQueue` goroutine |
| `call`, `target` | position of each `WriteToLoRaRaw` call and the queue it got |
| `host`, `manager`, `stopped`, `inHand` | progress of `Enable`/`Disable`, the managers made, those stopped, and what the scheduler of each transmits |
| `accepted`, `air` | history: frames in the order queues took them, and on air |

A critical section of `writeQueueMutex`, a channel operation and an access to
`Port` are one step each. What frames say is left out. A queue is alive as long as
nothing has told its drainer to end. A caller that has got a queue from
`getWriteQueue` before `Disable` replaced it may still send to it: that frame stays in
a channel nobody reads, and neither code nor comments promise it anything.
`FrameLeavesQueue` speaks of the other frames, `OneDrainer` says that an `Enable`
after a `Disable` never goes on with a queue whose drainer was told to end.

### 2.3 RunLoop

| variable | code |
|---|---|
| `network`, `fault` | the row of the network and its fault |
| `host`, `interruptChan`, `interrupt` | progress of `Enable`/`Disable`, the current channel, and the channels that hold an interrupt |
| `Port`, `handle` | the global, and what became of each handle `serial.Open` returned |
| `loop`, `listening` | position of each `run` goroutine and the channel its `select` waits on |
| `reader`, `readerPort`, `payload`, `closed` | position of the `Loop` goroutine of each loop, the handle it scans, and its two channels |
| `added` | history: `addNetwork` has started a loop |
| `unreported` | history: loops whose one report of a lost port has failed |

`UpdateNetworkFault` is a gRPC call. Each place that makes it discards its error and
none repeats it, so that in every one of them it may fail, and then leaves `fault` as
it was. For the report of a lost port (`run.go:49`) this matters for ever, since the
loop never opens the port again: `unreported` names these loops in the properties.

`Patient` says whether the sleep at the end of `Disable` outlasts what the
loops are doing; `Sleeps` is what that means.

### 2.4 PointWrites

| variable | code |
|---|---|
| `row` | write value and state of a point in the database |
| `held` | the value the device has |
| `call`, `target` | position of each `PointWrite` request and the manager it found |
| `made`, `current`, `stopped` | the managers `Enable` has made, `Module.pointWriteQueueManager`, and those stopped |
| `queue`, `phase`, `hand`, `answer` | the device's queue and the scheduler of each manager, and the device's answers to the head |
| `rx` | the item the receiver has dequeued and not yet stored |
| `enable`, `snapshot` | position of `Enable` and the rows it has still to queue |
| `abandoned`, `muddled` | history: writes given up with a log line only; points whose writes met one of the orders the code does not control |

All attempts of a write are one turn here and ids are unique: what retries and
ids do is the subject of `PointWriteQueueManager`. One device is modelled; the
order of values matters within a device only. `Crash` loses everything but the
rows and the device. `PointWrite` before the first `Enable` stores its value and
panics on the nil manager (`PointWritePanics`).

### 2.5 RubixCodec

A buffer is a sequence of bits. Values of fixed-point keys are integers in units
of their last decimal, the others are bit sequences; the rounding of floats and
the passage of 64-bit values through `float64` in `EncodeRequestMessage` are left
out. `positional`, `buffer`, `writeBitPos` and `readBitPos` are the fields of
`SerialData`. `BitCountFor` is `getBitCount`, including what it does for a range
that is a power of two; `CanDecode` is `canDecode`, which needs more than six
bits although a header may have fourteen. `Expected` is what should arrive; that it does
not, for these two reasons, is what the run `codec_arrives` finds, and `RoundTrip` is
the promise that is left, which a decoder without the two defects keeps as well.
`EncodeData` refuses a point whose
type is not in `serialMap`; `EncodeRequestMessage` goes on with the next point, so
that such points are among the samples. `sent` is what `EncodeData` has put in the
message. `SamplesAssumption` says that a point has a name `getPosition` accepts
(`Names`; it returns an error for any other) and a value of the kind of its key.

### 2.6 FrameDispatch

A behaviour is the handling of one frame: `dispatchFrame` keeps nothing from one
to the next. A frame is its length, the form and options its device gave it,
and what the radio did to it (`noise`, `lost`). `fits` says whether the byte
where a plaintext frame has its length happens to match the length of the frame:
it is free for ciphertext, where it is one chance in 256; `type` and `version` are
the first bytes of a ZipHydroTap's packet, free if they are garbled. AES and CMAC
are their outcomes; a garbled or wrongly decrypted address is not the
address of a device. `FirmwareAssumption` says what devices send: MicroEdges and
Droplets have no LoRaRAW frames, and a ZipHydroTap, of which nothing is ever
requested, sends no RESPONSE. `phase` is the position in `dispatchFrame`,
`device`, `legacy` and `raw` are its locals, `out`, `acked` and `reported` are
the callbacks, the acknowledgement and the rest of `handleSerialPayload`. Nothing
recovers a panic in this goroutine: the phase `"crashed"` is the end of the process.

`DecodeRubix` is whether it panics: it does for a payload of no bytes, which a length
byte of 0 gives it, and for no other, since what it reads past the end is zero. What it
makes of the bits is in `RubixCodec`.

`LegacyDecoders` adds what the decoders do with a payload of n bytes: `MinLength` is
what they ask for, `Fields` what they read, in the order of the code, and
`V2Length` and `V2Fields` the same for the fields of version 2. The outcome
`"some"` stands for a frame of which some points are published and the rest is
an error.

### 2.7 Provisioning

| variable | code |
|---|---|
| `networks`, `address`, `owner`, `ioNumber`, `pointAddr` | rows of networks, devices (`AddressUUID`) and points (`DeviceUUID`, `IoNumber`, `AddressUUID`) |
| `adding`, `creating`, `unsaved` | position of each `addNetwork` and `addDevice`, and the goroutines of `savePoints` still to run |
| `editing`, `newAddr`, `snapshot` | position of each `UpdateDevice`, its address, and the points `updateDevicePointsAddress` has read and not yet updated |
| `rx`, `rxDevice`, `rxAddr`, `rxKnown`, `rxNames` | the run loop in `handleSerialPayload`, the device it has read, and the names of the frame still to handle |
| `user`, `userDevice`, `userAddr`, `userRow` | a request that creates or updates one writeable point, after it has read the device |
| `ping`, `pings` | the goroutine of `enqueueUartPingWithRetry` that a request has started, and its attempts |
| `unchecked`, `twice`, `muddled` | history: rows whose uniqueness nothing has checked; devices with two creators of points at once; devices whose points another step may have left behind |
| `given` | history: points whose address came with the body of a request |

A step is one gRPC call with the code up to the next one. Each call may fail, and
changes nothing then. The database is external: it refuses a device without its
network and a point without its device, deletes them together, and gives no UUID
twice. `addPoint` and `updatePoint` read the device and take its address only for a
point that the request makes writeable (`BeginUserPoint`, `SaveUserPoint`); for any
other they store the `address_uuid` of the body, or none, in one call
(`SaveReadOnlyPoint`). The histories name the races the code does not exclude, so that the
properties say "except in these cases": a property that forbade them would be
false, and one that did not name them would say nothing.

## 3. Runs

| run | instance | shows |
|---|---|---|
| `manager_retries` | 2 devices, 2 writes for one and 1 that cannot be encoded, 2 ids, 3 attempts, one leftover RESPONSE | accounting of every write through retries, late, lost, repeated and foreign RESPONSEs and a panic; a settled write is transmitted at most once more; refinement of `PendingWrites!Safety` |
| `manager_liveness` | 2 devices, 2 writes, 2 attempts | no lost wake-up, round robin while queues are being created, every write settles, Stop ends the scheduler, refinement of `PendingWrites!Promise` |
| `manager_unencodable` | 1 device without encoder | finding: the scheduler panics instead of dropping the write |
| `writer` | 1 request, 2 acks, queue of 2 slots, 2 `Enable`s with a `Disable` after each, 3 drainers | order on air; no call stuck; the second `Enable` has a queue of its own with a drainer that is alive; no frame stays in a queue whose drainer nothing has stopped |
| `writer_false_sent` | 1 request, queue of 1 slot, 1 `Enable` | finding: a frame for a lost port is accepted, and lost |
| `loop` | 2 run loops, 2 calls of `Enable`, `addNetwork`, 2 handles | one loop and one reader own the port, `Disable` ends and leaves silence, losses are reported unless that one call fails |
| `loop_reconnect` | 1 loop | finding: the port is never opened again |
| `points` | 1 point, 2 requests, 2 managers | no pending value is forgotten or stays pending; "ok" rows agree with the device |
| `codec` | all messages of up to 2 points out of a sample of every key, with points that the encoder refuses between them | decoding gives back what was encoded, but for the two findings |
| `codec_arrives` | the same | finding: the highest counter arrives as 0; and, in samples without such values, seven bits of padding arrive as a point |
| `dispatch` | 7 devices and a stranger, frames of every length that matters, 5 ways to be cut short | no ciphertext is taken for plaintext, no unverified verdict, whole frames are decoded to their last field, no panic but for a Rubix frame without payload, no half-published frame but a garbled one |
| `provisioning` | 1 network, 2 devices with one address in two spellings, one of them a UART, 1 client that edits, 2 rows of points, bodies without an address, 2 pings | addresses are unique, points follow their device and exist once, but for the named races and the addresses of requests; every ping goroutine ends |

### 3.1 Bounds

* Manager: each write is enqueued once, so attempts are bounded by `MaxRetry`
  and RESPONSEs by attempts. Two writes of one device are enough for a write to
  wait, be taken for its predecessor or inherit its id; two devices for the
  scheduler to be away, or to overtake one another. A write that cannot be encoded ends the
  process: the constraint `AloneOrNot` of `manager_retries` looks at it only
  when nothing else is written, since all it can do to other writes is to stop
  them, as `Stop` does.
* Serial writer: `Capacity` is 2 instead of 100, so that three frames fill the queue;
  `MaxEnables` 2 and `MaxDrainers` 3 are two of `Enable` and one that a late call makes
  after a `Disable`. Acks are alike: `AcksInTurn` lets `a1` come first.
* Run loops: `MaxEnables`, `MaxLoops` and `MaxOpens` 2 give two loops, both of
  `Enable` or one of `addNetwork`, and a port that is opened twice.
* Point writes: `MaxManagers` 2 gives one crash, or `Disable`, with its
  `Enable`. `CanEnable` lets the host disable or the process die only if an
  `Enable` can follow.
* Codec: values at both ends of each range and beyond it, and patterns of bits;
  the second point of a message starts at any bit of a byte.
* Dispatch: lengths around the ones that make whole blocks, and both sides of the
  lengths the decoders ask for; `Lost` has the trailer (1, 2), the CMAC (4), the
  gap between the versions of a packet (6) and more than a block (19). A payload of no
  bytes is among the lengths.
* Provisioning: `MaxBusy` 2 lets two requests, or a request and an uplink, be at
  work at once, which every race named by a history needs, and no more.
  `MaxPings` is 2 instead of 10, `MinPoints` as many as there are rows, and two rows are enough for
  twins. `Bodies` is what the requests for points carry: no address, which differs
  from that of every device. `PointsOfOne` leaves the second device without points: it is
  there for its address, and no property relates the points of two devices. A client waits for the ping of its last edit before the next one, so
  that the goroutines are as many as the clients. An uplink is one name, or one
  name twice.

The constraints (`AloneOrNot`, `AcksInTurn`, `PointsOfOne`) only keep the environment from
beginning something, which no fairness demands of it, so that they hide no stuck goroutine.

`CHECK_DEADLOCK FALSE` stands in every configuration, because each system may
really stop: all writes settled, the module disabled, a message decoded.

### 3.2 Fairness

Go runs every runnable goroutine, and timers fire, so that each goroutine is
weakly fair: the scheduler, a caller after it has got its queue, drainers,
`WriteToLoRaRaw`, `Disable` once it has begun, run loops, readers when the port
is closed or lost, the receiver once it has dequeued, `Enable` once it has
begun, and the goroutine of a ping. In `RunLoop` the branches of `select` for the interrupt and for the end of
the reader are strongly fair: Go chooses among ready branches at random, so that
lines from the port cannot keep the others out for ever. Nothing is assumed of
the radio, of RESPONSEs, of ports, of requests, of the host's decision to enable
or disable, or of a caller that waits for `m.mutex`.

### 3.3 What the checks found

Seven findings are listed in `PROJECT.json` with the line they contradict. Four runs
show five of them. The other two are exceptions that properties of the passing run
`dispatch` name: the panic on a Rubix payload without bytes (`NoPanic`) and the
plaintext static frame of a ZipHydroTap, which has the size of a ciphertext and is
always dropped (`IntactIsDecoded`). `BeyondBufferIsHandled` and `ZipHydroTapDecodes`
are the claims without these exceptions; as an `INVARIANT` of `MCDispatch.cfg` TLC
finds either violated.
Further behaviour that the models show and the properties are worded around:

* an item picked for a retry is transmitted once more if its RESPONSE arrives
  between the pick and the write to the port; `writeQueue_test.go:186` rules that
  out, for the sequence it tests (`SettledStaysSilent` says that it is once only);
* a late RESPONSE acks another write of the same device if both drew the same id
  (`AckedWasHeard` says that there is no other way);
* `addNetwork` starts a run loop beside the one `Enable` started, which retries,
  or still reads, the port. `Disable` ends only one of them;
* two overlapping requests for one point, or a request that meets `Enable`, can
  leave the older value in the device with the row "ok" (`muddled`);
* the one call that reports a lost port may fail, and nothing repeats it
  (`unreported`);
* a point that a request does not make writeable gets the address of the body, or none
  (`given`), until the device is edited or the point made writeable;
* a frame for a queue that `Disable` has just stopped stays there;
* a plaintext frame is an uplink whatever its options say: a plaintext RESPONSE
  acks nothing, and a plaintext confirmed uplink is not acknowledged;
* `ziphydrotap.go:313` counts 89 and 94 bytes for static data; the fields are 96
  and 101, which is what the code asks for. `NoPanic` fails with the numbers of
  the comment;
* the write packet of a ZipHydroTap publishes its timers before it tests the length of
  the fields of version 2 (`AllOrNothing`);
* `addNetwork` and `addDevice` test uniqueness in a call of its own, `addDevice`
  takes a failed look-up for a free address, and `UpdateDevice` tests nothing
  (`unchecked`); an error of `updateDevicePointsAddress` is not reported, and
  leaves points under the old address (`muddled`); a frame that names a new point
  twice makes two of it (`twice`).

## 4. Proofs

All theorems hold for every value of the constants that satisfies the named
assumptions of the modules.

### 4.1 PointWriteQueueManager_proofs

`DeviceOf` maps writes to devices, `MaxRetry` is a positive number, which
`config.go` enforces, and the null values are not values. None of the
invariants of `manager_retries` is inductive by itself. `IInv` has these parts,
each with its own preservation lemma:

* `QueuesInv`: a queue holds accepted, open writes of its own device, each once;
* `NewInv`: a write that is not accepted is open;
* `CurInv`: the item in the scheduler's hands is the head of its queue or was
  acked. This is what makes the head test of `RemoveItem` sufficient;
* `EncodedInv`: only the head is encoded, only encoded writes are acked or sent;
* `VerdictInv`: verdicts follow the way in which a write has left;
* `AttemptsInv`: the retry count trails the attempts by the attempt under way,
  except for an attempt that a stop has cut short.

From it follow the safety invariants, the action properties and `Refinement`
(every behaviour satisfies `PendingWrites!Safety`). `AckedWasHeard` needs
`AirInv` besides: every RESPONSE under way answers a frame the device has heard,
or one of an earlier run. `NoLostWakeup` needs `WakeInv`: every queue the
running scan has passed over is empty, or a token is there or coming; and a full
round from any start visits every position of `order` (`FullRound`). `RoundRobinHolds` needs
`TurnsInv`: whoever was served while a device waits stands later than that device in
the circular order that begins at `rrIndex`, and the scan so far has met nobody who
waits.

### 4.2 SerialWriter_proofs

`IInv` is `TypeOK /\ DrainerInv /\ OrderInv`. `DrainerInv`: a drainer ends only
when told, and the current one was not. `OrderInv`: the accepted frames of a
drainer are on air, in its hand or in its queue, in this order. They give
`TypeOK`, `OneDrainer` and `InOrderOnce` for any number of frames, calls of
`Enable` and slots; what `OneDrainer` leaves to liveness is `FrameLeavesQueue`.

### 4.3 RunLoop_proofs

`TypeOK` holds in any case. Under `Patient`, and until `added`, `InterruptInv`
follows the interrupt of `Disable`: it is in the current channel, or the loop
that took it is closing, so that none runs once the sleep is over. `PortInv` says
that an open handle is the one in `Port` and the running loop has opened it, and
`ReaderInv` that a reader left behind by an earlier loop has no open handle. They
give `OneRunLoop`, `DisabledIsQuiet`, `OneOwner` and `DeadLinkIsFaulty`, the last but
for the loops in `unreported`: the only step after which a loop stands beside an ended
reader is the one that reports it. `OneRunLoop` has no run: under `Patient` it is a step on the way
to the other three.

`Patient` is a real restriction: `Disable` sleeps for a fixed time, and a
loop that waits for the database for longer outlives it. Without it the
invariants do not hold.

### 4.4 FrameDispatch_proofs

`Inv` is `TypeOK` with what is known of the device found, of a frame that is not
yet decoded, of the way it was read and of what is reported. The lemmas about
lengths do the rest: padding gives a ciphertext that is whole a multiple of 16
between address and CMAC (`CiphertextIsShaped`), so that it never reaches the
plaintext branch, and room for its payload (`CiphertextIsRebuilt`).
`NoPanicHolds` is arithmetic over the tables of `LegacyDecoders`: what a decoder
has asked for is at least what it reads; and it says that a crash in `DecodeRubix` means
a plaintext of nine bytes, or a ciphertext of nothing. `AllOrNothingHolds` needs besides that
a frame that was decrypted has lost nothing. `IntactIsDecodedHolds` rests on
`DecodedInv`: a frame nothing has happened to is dropped by no guard on its way, and
no branch that comes first takes it from its decoder; the lengths its firmware sends
(`FirmwareAssumption`) are what the guards and the decoders ask for.

### 4.5 Provisioning_proofs

`BaseInv` is `TypeOK` with what each position of a goroutine says of its locals, in
groups, one lemma for each. On it rest four invariants:

* `NetworkInv`: besides the networks that `unchecked` excuses there is at most one
  that is stored or about to be, which gives `OneNetwork`;
* `AddressInv`: the same for addresses in upper case, with the devices that are
  about to be created: a look-up that found nothing stays true until the create,
  unless it is excused. It gives `OneAddress`;
* `FollowInv`: whoever holds an address to write into a point of an undisturbed
  device (`Clear`) holds the one its row has, and an edit has in `snapshot` all the
  points that still differ, but for those `given` another address. It gives
  `PointsFollowDevice`;
* `TwinInv`: for a device with one creator of points (`Single`), the names still
  unsaved, or not known to the uplink, have no point yet. It gives `NoTwinPoints`.

### 4.6 PointWrites_proofs and PointOrder_proofs

For any points, requests and number of managers. `IInv` of `PointWrites_proofs` is
`TypeOK` with

* `RowInv` and `OriginInv`: a row holds a value meant for its point, and whatever is
  queued, in hand or answered is about a row that was written;
* `AnswerInv`: answers that wait are answers to the head of a queue, and a scheduler
  that goes on to another item finds none left over;
* `ManagerInv`: a request that has found a manager, and `Enable`, have one to use;
* `CoveredInv`: where the value of a pending row is, whatever `Enable` has done so
  far. `NoWriteForgotten` speaks of the times when `Enable` is idle and counts every
  request; `CoveredInv` counts a request only if it has found the manager in use, and
  `Enable` from the switch of managers on. This is the argument: the rows are read
  after the switch, so a write queued in the old manager is read again.

It gives `TypeOK` and `NoWriteForgotten`. `OrderInv` of `PointOrder_proofs` adds, for
a point that is not `muddled`, that its values go one way: the request under way has
the value of the row (`CallOrder`), else the last item of the queue has it
(`QueueOrder`), only the current scheduler has an item of the point in hand
(`HandOrder`), an answer that waits says what the device holds (`AnswerOrder`), and
when the last value has left the queue, the verdict under way is about it (`RxOrder`)
or the row agrees with the device (`OkOrder`). It gives `OkIsHeld`. `LosesOrder` and
the two other conditions that make a point `muddled` are what the steps of this proof
cannot do without.

### 4.7 RubixCodec_proofs

`RoundTripHolds` is for any samples, and messages of any length. `IInv` says that there
is a list `off` of the bits where the points of the message end, with

* `Written`: every point lies between two neighbours of `off`, its header first, and
  `Packed`: beyond the last one there are zeros, less than a byte of them, and
  `writeBitPos` names the bit where the last one ends;
* `Reading`: a decoder that has passed on m points stands at `off[m]` and has passed on
  what the code makes of the first m points (`Decoded`); or it has passed on one point
  more, `Extra`, and stops. `DecodedFacts` shows that `Decoded` is `Expected` for all
  values but the highest one of a range that is a power of two.

`RoundTrip` alone says nothing before the end and is not inductive. `EncodeStep` rests on
`AddVectorAppends`, which follows a vector through `reshapeVector` and the byte that is
merged; `DecodeStep` on `ReadPoint` and `ReadPadding`, which read back what was laid. A
header and a value have at least seven bits, so that `CanDecode` holds until the last
point is read, and seven bits of padding are the only ones that it takes for more.

`Number` and `Used` are folds. What a fold computes is a claim about data of any size,
and the induction theorems of the library take an operator, which the provers cannot
instantiate. The least element of a set of numbers does as well: `LeastNatural` comes
from `WFMin`, `Induction` from that, for a set in the place of the predicate; `FoldExists`
shows that the recursive function inside a fold exists, and `NumberSteps` and `UsedFacts`
that it steps from one element to the next. The provers compute a power of two only when
its exponent is a numeral, hence the cases in `PowerStep`: up to 20, the widest
fixed-point value there is.

### 4.8 Only model-checked

Liveness, in all modules: `WritesSettle`, `StopEndsScheduler`, `RefinesPromise` (what it
adds to `RefinesSafety` is liveness), `FrameLeavesQueue`, `CallReturns`, `DisableEnds`,
`LossIsReported`, `PendingIsSettled` and `PingEnds`. Each follows from fairness of
actions, and with it from `ENABLED`, which the prover does not reason about.

## 5. Not modelled

* The values of points, their write modes and writeable properties
  (`ResetWriteableProperties`), and meta tags beyond the fact that they are
  published. `staticPayloadDecoder` appends a tag that is there already
  (`ziphydrotap.go:388`), a version 1 packet publishes the fields of version 2 as
  0, and `ai3` of a MicroEdge frame of 32 digits overlaps the RSSI.
* Provisioning: `addDevice` without an address, `UpdateNetwork`, and the
  ping beyond its goroutine: an `EnqueuePoint` through a nil manager, and an answered
  ping, whose point has no UUID.
* The MQTT publisher (the paho library keeps the connection state),
  configuration, start-up, logging and the schemas: no behaviour over time of
  their own.
* In the manager: the two-second pause after a refused frame, which only delays,
  and the contents of frames.
* In dispatch: text that is not hexadecimal. `CheckLength` of a ZipHydroTap is
  only called for a whole legacy frame, where its first byte is an address; the
  model takes it to fail.

## 6. Plan

1. An uplink and a request that meet on one point's row: `PointWrites` composed
   with the point updates of `Provisioning`.
2. What the proofs leave to fairness, as step properties: for each liveness property
   the measure that every step of its goroutine makes smaller.
