# QCRemote: models, model checking and proofs

QCRemote is a Zephyr firmware that acts as the USB host of a Neural DSP Quad
Cortex. It performs the device's handshake, asks for its preset listing,
collects the listing while it streams in, and hands it to its transports (a log
and, over Wi-Fi, HTTP and a WebSocket). A web page (`web/poc`) shows the
listing and switches presets. This directory holds TLA+ models of that program,
the TLC configurations that check them on small instances, and theorems about
them checked by TLAPS.

Paths below are relative to `src/`; `app/` stands for `firmware/app/src/`.

## 1. Inventory

### Threads

| thread | priority | code it runs |
|---|---|---|
| USB host | cooperative | `usbh_shim.c`, `QcHidBridge`, `QcSession::deviceConnected()` / `handleMessage()`, `submit()` of both workers |
| heartbeat | 5 | `QcSession::runHeartbeat()`: KeepAlive every beat, end of a File stream, publication, change events |
| dispatcher, inflater | 6 | `QcDispatcher::run()`, `QcGzipInflater::run()`, which call `QcSession::onMessage()` / `onInflateFailed()` |
| handshake ("session") | 7 | `QcSession::runHandshake()` |
| printer | 9 | `QcPresetPrinter::run()` |
| Wi-Fi transport | 10 (and the HTTP server's own thread) | `QcWifiWebTransport` |
| web client | browser | `store.js` |

The firmware runs on one core; a lower number is more urgent.

### Components

| component | state | operations | who it talks to | what is hard | what makes it correct |
|---|---|---|---|---|---|
| USB shim (`usbh_shim.c`, `UsbHostClass.hpp`) | `claimed_udev`, IN transfers | probe, removed, send report, IN transfer done | calls the bridge's callbacks on the USB thread | removal during a send, probe callbacks before the claim, lost IN transfers | no send on a cleared device, every transfer re-armed |
| HID framing (`HidChunker`, `HidReassembler`, `QcHidBridge`) | chunk offset, joined pieces of a report, reassembly buffer, counters | `next()`, `onReportIn()`, `feed()`, `onProbe()`, `onRemoved()` | bytes to and from the shim, messages to `QcSession` | lost packets, reports split in two, oversized messages, disconnects in the middle | an undamaged message arrives whole; damage stays where it happened |
| Worker mailboxes (`QcDispatcher`, `QcGzipInflater`) | `busy_`, semaphore, `mailbox_` and its stamp, `droppedCount_` | `submit()`, `run()` | USB thread to worker, worker to `QcSession`'s sink | shared memory without a lock | exclusion, whole messages in order, drops counted, no lost wake-up |
| Session (`QcSession`) | `deviceReadySem_`, `fileStreamMutex_`, counters at the start of a stream, snapshot, Version wait, `sendMutex_`, message log | `deviceConnected()`, `handleMessage()`, handshake, heartbeat, publication | everything else | five threads, reconnects at any moment, failing sends, unlocked reads | a listing is of one stream, complete or flagged; every connection whose handshake is sent is listed |
| File stream (`QcFileStream`) | active, counts, two timestamps | `start()`, `onMessage()`, `onInflateFailed()`, `checkTimeout()` | owned by the session, under its mutex | two deadlines, stragglers | every stream ends once, with a true verdict |
| Preset catalog and snapshot | generation, folders and presets, overflow | `reset()`, `addPreset()`, copy | session, printer, transports | capacity, reset under a reader | what is refused is flagged; no mix of generations |
| Preset printer (`QcPresetPrinter`) | one pending request, semaphore | `requestPrint()`, `run()` | reads the catalog, folder by folder, under the mutex | the catalog changes between folders; requests overwrite each other | the log agrees with what was published |
| Post-stream tally, change events (`QcMessageTally`) | counts by command, what was logged | `record()`, the heartbeat's report | session | bumps between intervals | nothing new goes unlogged |
| Wi-Fi transport (`QcWifiWebTransport`, `QcCatalogJson`) | published snapshot, dirty flag, JSON buffer, client sockets, last change | publish, encode, GET, upgrade, broadcast, poll | called by the heartbeat and by the HTTP thread | two threads encode; sockets reused; sends fail | no stale listing served, every client gets the latest |
| Web client store (`store.js`) | link, view, pending switch, socket, sequence number, four timers | connect, close, switchPreset, socket handlers | the board over a WebSocket | reconnects, lost patches, timers racing answers | one connection, a truthful link, no unnoticed loss, switches end |
| Mock board (`mock-server.mjs`) | state and number of each session | snapshot, patch, tick, client messages | the store | lost patches, delayed switches | it is the environment of the store |
| Decoders and encoders (`QcMessage`, `QcProtobuf`, `QcFileMessage`, `QcGzip`, `QcHandshakeMessages`, ...) | none | pure functions | session | malformed input | outcomes only: decoded, decoded in part, not inflated, never handed over |
| UI, build tools, vendored code | - | - | - | - | not modelled |

`PROJECT.json` lists every hazard at the line where it bites and the properties
that cover it, or why none does yet.

## 2. Modules

| module | models |
|---|---|
| `MessageSlot` | abstract: what `submit()` promises its caller |
| `Mailbox` | `QcDispatcher` and `QcGzipInflater`, one shared access per step; implements `MessageSlot` |
| `HidFraming` | chunker, wire, joining of split reports, reassembler |
| `QcSession` | the session's five threads from a device's arrival to the listing in transports and log; uses the mailboxes as `MessageSlot` describes them |
| `UsbLink` | `usbh_shim.c` and the part of `QcSession` that sends: probe, claim and removal, the Version exchange, `sendMutex_`, the settle loop |
| `PresetCatalog` | `QcPresetCatalog`: folders and presets in storage of fixed size |
| `CatalogJson` | `encodeCatalogJson()` and `appendLastChange()`: sizes, stopping rule, flag |
| `PresetListing` | composes the two with the session's stream and snapshot: from the device's slots to the document a client gets |
| `WebTransport` | `QcWifiWebTransport`: publisher, HTTP thread and worker over one listing and the WebSocket clients |
| `QcStore` | `store.js` and the board's session for each socket |
| `MailboxProofs`, `HidFramingProofs`, `UsbLinkProofs`, `QcStoreProofs`, `WebTransportProofs` | theorems about the module of that name |
| `QcSessionProofs` | theorems about `QcSession`: types, snapshot, folders of one stream |
| `QcListingProofs` | `QcSessionProofs` continued: what is listed, what is printed, and that each stream is published once |
| `PresetListingProofs` | theorems about the catalog, the encoder and their composition: what is kept, what is written, what the flag says |
| `MCMailbox`, `MCHidFraming`, `MCQcSession`, `MCUsbLink`, `MCPresetListing`, `MCWebTransport`, `MCQcStore` | the instances TLC runs |

`QcSession` takes a listing as a number of folders and a send as one step;
`PresetListing` and `UsbLink` open these up. `WebTransport` starts where
`QcSession`'s `Publish` ends and takes the document of `CatalogJson` as a number.

Operators whose comment says "Seeded bug" or "As if" are wrong variants of the
operator beside them; no specification uses them. Each property is known to
fail when one of them takes the place of the definition it imitates.

### Mailbox

`busy`, `sem`, `bytes`, `stamp`, `dropped` are `busy_`, `itemReadySem_`,
`mailbox_`, the length/command/size fields and `droppedCount_`; `uPc` and `wPc`
say where the USB thread is in `submit()` and the worker in `run()`. A message
is written in two steps and read in two, so a torn hand-over would show. The
dispatcher reads the stamp when it calls the sink and the bytes until the sink
returns (`CallSink`, `SinkReturns`); the inflater reads the bytes first and the
stamp afterwards (`Inflate`, `ReportInflated`). Which loop it is is chosen once,
in `Init`, and `Submittable` follows `handleMessage()`: a message without the
gzip magic never reaches the inflater. Memory order is sequential, which is what
Zephyr's atomics and semaphores give on one core.

### HidFraming

A byte is a cell `<<message, position>>`, so a message that is mixed, shifted or
cut is visible. Limits are smaller than the code's (126 bytes of payload,
reassembly capacity), conditions on them the same. `split` says whether the
controller delivers a 129-byte report in one transfer or in two (128 + 1 bytes;
ESP32-S3). The wire holds one report at a time: an endpoint delivers in order,
so a deeper wire adds no behaviour. `AsReport` reads two joined pieces as the
code does, also when the pieces belong to different reports. `PartsSize` counts
the joined pieces by kind: its 129, 128 and 1 bytes are the real sizes, on which
the restart in `onReportIn()` depends.

### QcSession

Each action is a critical section of `fileStreamMutex_`, or one step between
two of them:

- USB thread: `DeviceConnected`, `DeviceRemoved`, `FileArrives` (a File message
  with its fate: plain, compressed, compressed and corrupt, torn, vanished, too
  large, malformed), `OtherArrives`;
- workers: `Handle`; `Decoded` is what `decodeFile()` leaves of the catalog and
  `AddFolder` the catalog's insertion at its capacity;
- handshake: `TakeReady`, `SendReset`, `SendLogin`, `Settle`, `StartStream`,
  `SendFileRead`; a failed send ends the handshake, and `abandoned` keeps the
  connection it was the last handshake of;
- heartbeat: `Beat`, `BeatSent`, `CheckTimeout`, `Assess`, `RequestPrint`,
  `CopySnapshot`, `Publish`: the lock is dropped between each;
- printer: `TakeRequest`, `PrintHeader`, `PrintFolder`, `PrintEnd`;
- `Tick`: the stream's two clocks.

Threads have fixed priorities on one core: `MayRun` lets a thread step only when
no thread of a more urgent priority is ready. This is essential, and both a
mutant and the proofs use it: with the handshake above the workers a straggler
of the old stream is listed in the new catalog (`NoForeignFolders` fails), with
the heartbeat below the handshake a reconnect resets the catalog under a
publication (`SnapshotIsOfItsStream` fails).

Abstractions and assumptions:
- a File message carries one folder, so counts are in folders;
- `Tick` does not let the quiet window pass while the device still has to send
  or a File message waits in a mailbox: the 5000 ms window is chosen for that. If a
  reply did pause longer the code would cut the listing; this is a listed
  hazard, not a modelled behaviour;
- `ReportLoss`: a message that lost its LAST report is never handed over
  ("vanished"). One that lost its FIRST or a MIDDLE report is ("torn"):
  `decodeMessage()` asks for eight bytes and no more, so it takes a mailbox or is
  dropped there, restarts the quiet window, and is counted. With the gzip magic
  in front it fails to inflate, since the CRC, the size and the end of the member
  are checked; otherwise `decodeFile()` lists nothing, or a part of a folder
  (folder 0), or overflows the catalog; or it is taken for another command.
  Nothing in the protocol can tell, so `CompleteMeansAll` is claimed without
  `ReportLoss` and the other listing properties with it. A torn message is taken
  to be of the stream it is sent in: the reassembler could continue a message of
  the stream before only if not one whole message came between the two, although
  twelve state READs are sent there;
- a `ResetCommsBuffers` that is sent empties what the device still had to send:
  nothing in the code checks it, and the handshake begins with it for this;
- a failed send of the handshake is not repeated (`QcSession.hpp:306`, 319, 340,
  347, 414), so a connection whose last handshake ended so has no listing until
  the device is plugged in again. `ConnectionIsListed` leaves it out by name;
- Zephyr's mutex hand-over and priority inheritance are not modelled: a
  handshake waiting for the mutex while the printer holds it counts as not
  having taken it. The Version reply, `sendMutex_` and the settle loop's
  polls are single steps or left out; they are `UsbLink`'s.

### UsbLink

`claimed`, `receiving` and `armed` are the shim's `claimed_udev`, `receiving` and
whether a transfer is enqueued. Each device attached has a number of its own, and
a version is the number of the device that reported it, so a version of another
device is visible. `shim_probe()` is two steps, `Probe` (up to `on_probe()`) and
`Claim` or `ProbeWithoutEndpoint`, because the handshake is woken in between.
`qc_usbh_send_report()` is two steps, `SendReport`, which reads `claimed_udev`, and
the end of the blocking transfer, during which the device may be removed and
another one attached. `Lock` and `Return` are `sendMutex_`, with the mutex's
priority inheritance. Threads step by their priorities, as in `QcSession`, with
the cooperative USB thread above all. The settle loop counts its polls; `busy`
is whether a poll saw more than `kSettledMaxTransfersPerPoll` transfers. A
message is `Reports` reports; `-EPIPE` counts as success, as in the code. The
heartbeat appears as far as it sends.

### PresetCatalog, CatalogJson, PresetListing

Texts are model values. Of a folder's key the model keeps the full one, which
identifies the folder (the 64-bit hash is taken to be the key), and the one
stored for display, which may be shared by two long keys. `AddPreset` is one
call of `addPreset()`; `Indices` is `decodeFile()`'s numbering, which starts
again with each message. `given` keeps the slots given since `reset()`; what a
complete listing of them is, is defined by positions alone: `OwnIn(key, given)`
are the positions of a folder's named presets, `Nth` the j-th of them, so
`PresetsOf` and `Listing` need no recursion over the slots and can be reasoned
about. The document is its length, whether an append was cut
at the capacity, and the folders and presets written: each append of a unit is
counted to the byte, with the escaped lengths of the names and the decimal digits
of the numbers, so `kReserve` and the 55 bytes of `appendLastChange()` meet the
real sizes. One step is one unit (opening, a folder's opening, a preset, closing).

### WebTransport

A listing and a preset change are their numbers. Critical sections of
`dataMutex_` are single steps; giving the semaphore, sending, receiving and
`websocket_unregister()` are steps of their own, made without it. The worker's
`todo` is its copy of `wsSockets_`, `leaving` a client that is removed from the
list and not yet unregistered. Zephyr gives a free context to the next upgrade
at once. `wifi` and `server` decide whether a page can reach the board: a server
that does not start and Wi-Fi that is never requested leave the transport
publishing to nobody, and a lost link comes back when the driver associates
again. The page asks with a GET and connects again after its socket closes.

### QcStore

JavaScript handlers run to completion and are one action each: `Connect`,
`Close`, `SwitchPreset`, `RetryNow` (the `online` and `visibilitychange`
events), `ReconnectFires`, `LivenessFires`, `PendingTimerFires`, `Upgrade`
(`onopen`, with the snapshot that `startSession()` sends), `OnMessage`,
`OnClose`. Several sockets may exist at once, each with its own `readyState`,
its two channels and a session of the board. `SendPatch` may lose a patch but
uses up its number, as the mock's `--drop-every` does; `GoSilent` is a TCP
connection that dies without a FIN. A message carries a preset and a catalog
generation; `pendingTimer` keeps the preset that the timer's closure was made
for. Indices count from 1 because 0 stands for `null`. Timers have no durations,
so that one switch's timer never ends the next one early (`store.js:115` clears
it) is not a property here; `PendingEnds` is that each is ended. The liveness
timer fires when nothing can come any more or, as a fault, after the page was
asleep. Left out: error texts, back-off delays, messages of another protocol
version, a malformed URL.

## 3. Runs

| run | instance | what it shows |
|---|---|---|
| `worker_slot` | both loops; three messages, one too big, one that does not inflate; 4 calls | exclusion, intact and in order, drops counted, refinement of `MessageSlot` (which includes that everything accepted is handled) |
| `framing` | sizes 0, 2, 3, 7 in reports of 2 with a buffer of 4; 3 messages, 2 losses, 1 disconnect; both controllers | `UndamagedArrive`, `BeginsWithItsFirst`, `OnePacketCostsOneReport` |
| `framing_head_lost` (violation) | the first packet of a split report may be lost | finding 1 |
| `listing` | 2 folders, 2 connections, 1 damaged message, 1 of another command, sends may fail; the device stays until its listing ends | `CompleteMeansAll`, `PrintedIsPublished` |
| `listing_unplugged` | 2 folders for a catalog of 1, the device goes and comes at any moment, 1 message damaged or missing a report | `ReceivedIsListed`, `NoForeignFolders`, `SnapshotIsOfItsStream` |
| `listing_liveness` | 1 folder, 2 connections, unplugging at any moment, sends may fail, 1 message damaged or missing a report | `ListingFinishes`, `ListingIsPrinted`, `ConnectionIsListed` |
| `listing_cut` (violation) | 1 connection, unplugged during the listing | finding 2 |
| `link` | 3 devices one after the other, 2 reports a message, 1 state READ, 2 polls; any send, reply or re-arm may fail | `WholeMessages`, `MirrorsOwnDevice`, `ServesAClaimedDevice`, `HandshakesEnd` |
| `codec` | 3 folders (two keys shown alike) for a catalog of 2 by 2, names of the longest and a short length, 4 slots in 2 streams, a buffer of 320 bytes | `KeptOrCounted`, `CompleteDocument`, `FlagTellsTruth` |
| `transport` | 2 contexts, 2 connections, 1 listing, 1 preset change, 1 GET, 1 outage | `ServedIsCurrent`, `EveryUpgradeIsServed`, `PushesGoForward`, `ClientsCatchUp` |
| `store` | 2 presets of a folder, 3 sockets, 1 fault, 1 change, 1 lost patch, 1 tick, 2 switches | `OneLiveSocket`, `LinkTellsTruth`, `NoUnnoticedLoss`, `ClosedForGood`, `PendingEnds`, `Recovers`, `ComesInStep` |
| `store_impatient` (violation) | the page is shown again while it connects | finding 3 |

Why the bounds suffice. Mailbox: four calls fill the slot, find it busy, free it
and fill it again in every interleaving; the state that matters is one slot, and
the safety properties are proved for any number. Framing: sizes below, at and
above one report and above the buffer; two losses hit two messages, or two
reports of one. Session: two connections leave everything of the first to the
second; two folders let a listing be cut in the middle; a quiet window of two
ticks under an overall timeout of three ends a stream by either deadline. Link:
a second device is what a late reply, a blocked send or a stale claim of the
first can reach; with a third, a late reply of the second can be mirrored
to the device that replaced it, which no instance with two devices shows;
two reports are the shortest message another can get into, and
two polls pass both exits of the settle loop. Codec: a third folder overflows
the catalog, a third preset its folder, and 320 bytes end the document in a
folder's opening, between two folders or within one; the longest names and the
largest event leave the least room that there can be. Transport: one listing after the empty
one makes "old" and "new", and every thread can be anywhere when it is
published; two connections meet in the list, take each other's context, and
fill the capacity. Store:
one fault gives a second socket while a third would still be free, so a socket
too many could appear; two switches let one's timer meet the other; a tick
remains after a lost patch, as the board ticks for ever.

Deadlock checking is off where the system may stop: the device sends no more,
the page is closed, or a bound is used up.

### Fairness

- `Mailbox`: `submit()` runs to its end and the worker is scheduled (WF). No
  fairness on calling `submit()`.
- `QcSession`: time passes and the device sends what it was asked for (WF). The
  heartbeat has the highest thread priority, so WF. The others run only between two beats, when
  nothing more urgent is ready; this recurs because a beat is short against its
  period, which is strong fairness. Connecting, unplugging and messages nobody
  asked for have none.
- `UsbLink`: the probe runs to its end, `kVersionReplyTimeout` and
  `usbh_req_setup()`'s timeout expire, and the heartbeat's thread runs (WF). The
  dispatcher's worker and the handshake run only while nothing above them is
  ready, which recurs because a KeepAlive is short against its 200 ms: strong
  fairness. None on attaching, removing, replies or the traffic, and none on a
  send succeeding.
- `WebTransport`: the publisher gives the semaphore it is about to give, the
  HTTP thread ends the request it is in, the worker runs (WF); priority 10 is
  the lowest, and the threads above it sleep between their beats. A send ends
  within 2 seconds, with success or not. None on publishing, connecting, asking
  or the link.
- `QcStore`: timers fire, closing and connecting sockets settle, messages and
  ticks arrive (WF on each socket). No fairness on the user, on `RetryNow`, on
  faults, or on the board carrying out a switch: `PendingEnds` must
  hold although the Quad Cortex never moves. Faults are bounded, so `Recovers` says
  that recovery follows once they stop.

## 4. Findings

Each is a run that TLC ends with a counterexample against a statement in the code.

1. `framing_head_lost`. `QcHidBridge.hpp:102` restarts only when pieces exceed a
   report. After a lost 128-byte packet its 1-byte tail and the next 128
   bytes make exactly a report, so every later report is joined one packet
   out of step. The comment promises that one missing packet costs one report.
2. `listing_cut`. `onRemoved()` does not tell the session. A stream cut by
   unplugging goes quiet and is published as complete.
3. `store_impatient`. `#retryNow()` checks for `online` only; while the link is
   `connecting` it opens a second socket beside the first.

The passing runs exclude what causes these, by name: `framing` has
`Droppable = {"whole", "tail"}`, `listing` has `AnyUnplug = FALSE`, `store` has
`Impatient = FALSE`.

Known divergences without a run of their own:

- `HidReassembler::feed()` keeps the completed message in its buffer, so a MIDDLE
  or LAST report whose FIRST was lost continues that message instead of being
  malformed, as the comment at `HidReassembler.hpp:60` has it. `HidFraming` has
  this behaviour: what is handed over is the two joined, under the
  later one's trailer. `BeginsWithItsFirst` is what holds: a message whose own
  FIRST report was not lost has nothing of another one in it. What the session
  makes of the joined message is the torn message of `QcSession`.
- `store.js:206` confirms a pending switch by the index only, which is a
  position within a folder (`QcFileMessage.hpp:43`); `store` has one folder.
- `QcSession.hpp:562`: when a command appears for the first time in the
  post-stream tally, the counts of all the others are stored as logged, also of
  those that had moved and were waiting for the interval; these are then
  neither logged nor published until they move again. The tally is not
  modelled yet.
- `QcSession.hpp:311`: a Version reply counts from the moment the wait is
  announced, before the READ is sent, and whichever READ it answers. When a late
  reply of the device that woke the handshake comes in between, and that device
  is replaced before the READ, the version mirrored is not of the device
  asked. `MirrorsOwnDevice` is what holds: it is not of a device before
  the one that woke the handshake.

## 5. Theorems

Each holds for every value of the constants allowed by the module's named
assumptions, and under the hypothesis in the last column.

| module | theorem | states | hypothesis |
|---|---|---|---|
| `MailboxProofs` | `TypeCorrect`, `Exclusion`, `HandledIntactInOrder`, `DropsAreCounted` | `TypeOK`, `SlotExclusive`, `IntactInOrder`, `NothingLostUncounted` | |
| | `Refinement` | `Spec => Slot!SafeSpec` | |
| `HidFramingProofs` | `TypeCorrect` | `TypeOK` | |
| | `UndamagedArrives`, `BeginningFirst`, `PacketCostsOneReport` | `UndamagedArrive`, `BeginsWithItsFirst`, `OnePacketCostsOneReport` | `"head" \notin Droppable` |
| `UsbLinkProofs` | `TypeCorrect`, `MessagesWhole`, `NoVersionOfBefore`, `FindsItsDevice` | `TypeOK`, `WholeMessages`, `MirrorsOwnDevice`, `ServesAClaimedDevice` | |
| `QcSessionProofs` | `TypeCorrect`, `SnapshotOfItsStream`, `OwnFoldersOnly` | `TypeOK`, `SnapshotIsOfItsStream`, `NoForeignFolders` | |
| `QcListingProofs` | `ReceivedListed`, `PrintedPublished` | `ReceivedIsListed`, `PrintedIsPublished` | |
| | `EachStreamOnce` | `PublishedInOrder` (defined beside it) | |
| | `CompleteListed` | `CompleteMeansAll` | `~AnyUnplug`, `~ReportLoss` |
| `PresetListingProofs` | `TypeCorrect`, `DocumentIsWhole` | `TypeOK`, `CompleteDocument` | |
| | `NoPresetIsLost`, `FlagIsTrue` | `KeptOrCounted`, `FlagTellsTruth` | |
| `WebTransportProofs` | `TypeCorrect`, `ServesTheLatest`, `ServesEveryUpgrade` | `TypeOK`, `ServedIsCurrent`, `EveryUpgradeIsServed` | |
| | `NeverGoesBack` | `PushesGoForward` | |
| `QcStoreProofs` | `TypeCorrect`, `PendingHasTimer` | `TypeOK`, `PendingIsTimed` | |
| | `OneConnection`, `LinkIsTrue`, `NoLossUnnoticed`, `StaysClosed` | `OneLiveSocket`, `LinkTellsTruth`, `NoUnnoticedLoss`, `ClosedForGood` | `~Impatient` |

A hypothesis is in each case what a finding shows to be needed: a lost head
(finding 1), a device that goes during its listing (2), the retry while
connecting (3). `ReportLoss` is a message that lost a report, which the
protocol gives no means to notice (`QcSession.hpp:425`). Each theorem is `Spec => []P` or, where fairness is
only in the way, `SafeSpec => []P` with `SafeSpec == Init /\ [][Next]_vars`.

What the assumptions on constants say of the code: texts have at most 64 bytes
once escaped (32 bytes of storage), the JSON buffer holds at least the reserve
and the closing, every text of the catalog has a length, the catalog has room
for at least one folder and a folder for at least one preset (8 and 64 in the
code), and there is room in the client list for every context of the HTTP server.

Arguments:

- **Mailbox.** None of the properties is inductive: exclusion needs to know that
  `busy` is set exactly while someone holds the slot. `IInv` ties the two program
  counters, the semaphore and `busy` together, says what each part of the
  mailbox holds at each point, and relates the lengths of the two histories. The refinement
  uses the same invariant: a step of `submit()` that decides is the abstract
  `Accept` or `Refuse`, all others stutter.
- **Framing.** `WireInv`: what is on the wire is of the report emitted last, and
  a tail there has its head before it or in `partialReport_`, since no head is
  lost. A head that waits may have lost its tail; the next head makes the two more
  than a report, and the bridge starts over. So no report is made of two.
  Then `PrefixInv`: of an undamaged message the reassembler holds exactly the
  bytes of the reports it was fed, or their number past the capacity, which at
  the last report gives `AllArrive` and `OncePerMessage`. `BufferInv`: of a
  message whose FIRST report came it holds bytes of that message only, in order
  and up to the report fed last (`FeedKeepsOrder`), which at the last report is
  `BeginsWithItsFirst`. `CostInv` counts reports against losses. The size of the joined pieces is a sum of counts, so
  the arithmetic is on cardinalities and needs no induction.
- **USB link.** `ClaimInv` and `ServeInv` follow a device from its probe to its
  claim. `RunsBelow` (the cooperative USB thread leaves nothing to the others
  before it is idle) closes the gap between `on_probe()` and the claim. `LockInv`:
  whoever is within a message holds `sendMutex_`, and only its holder transfers.
  `ReplyInv`: the reply in the dispatcher's mailbox and the one in
  `pendingVersionReply_` are not of a device before the one served. It needs
  that the mailbox is empty when a handshake begins (`HandshakeRunsLast`),
  and `AwaitInv`, which says when a handshake waits. The stronger statement,
  that the version is of the device asked, is false (section 4).
- **Session.** `SessionRunsLast` states what the priorities give: when the
  handshake thread may step, both mailboxes are empty and the heartbeat is not
  between `CheckTimeout` and `Publish`. From it `SnapshotIsOfItsStream` is
  inductive, and `NoForeignFolders` becomes so when it is strengthened to `OwnInv`: what
  the device still sends and what waits in a mailbox is of the stream under way
  (`ReplyOwn`, `SlotsOwn`), and before the File READ the device sends nothing
  of it (`SilentUntilRead`). `TypeOK` is proved first because both need it.
- **Listing.** A folder is `Covered` when it is in the catalog, waits in a
  mailbox, or something is `Flagged` that `isListingIncomplete()` looks at; a
  torn message covers none, and whatever it does to a slot, a counter or the
  catalog uncovers none (`DecodedCases`).
  Every folder received is covered while its stream is active (`ReceivedCovered`),
  and `Stages` carries this through the heartbeat's critical sections from
  `CheckTimeout` to `Publish`. `Counted` says that no counter falls below its
  value at the start of the stream, `InTime` that the quiet window does not end
  before what is under way. For `CompleteMeansAll` every folder of the device is
  covered or still to be sent (`AllCovered`), since the device stays
  (`StaysConnected`). For the printer: the listing that a request stands for has
  been published (`RequestKnown`, `JobKnown`), and while a published generation is
  the catalog's, so are its folders (`PublishedIsCatalog`); so what is read
  folder by folder is a beginning of it (`Printing`). `EachStreamOnce` needs
  that nothing is published yet of a stream that is active or being summarised
  (`Unpublished`): `checkTimeout()` ends a stream in the critical section in
  which it finds it over, and only `startStream()` begins one, with a
  generation of its own. It is what lets `WebTransport` take the listings it is
  given as growing numbers.
- **Catalog.** `KeptOrCounted` is not inductive: that a folder holds a beginning
  of what was given for its key does not say whether the next preset belongs at
  its end, since a preset may have been refused before. `CatalogInv` says which
  folders and presets the catalog holds: the folders are the first keys given
  (`FoldersFirst`), all of them unless the catalog is full and a folder was
  counted, and each has all its presets unless it is full and a preset was
  counted (`PresetsFirst`). A new slot is the largest position, so `Nth` of the
  positions there were is unchanged (`NthMore`): the lists of names given only
  grow at their end, and what `addPreset()` does is one of four outcomes
  (nothing, counted, kept in a folder, kept in a new one). `Counted` adds up
  the cardinalities.
- **Flag.** One list of folders is `Within` another when its folders are the first
  of it, each with the first of its presets. The snapshot is within
  `Listing(copied)` and incomplete exactly when it is not all of that or the
  stream lost a part (`SnapshotTells`, from `CatalogInv` when the stream ends).
  The document is within the snapshot at each program counter, its finished
  folders are the snapshot's, and when it is closed `truncated` says whether it
  is all of it (`EncoderTells`). Of three lists, each within the next, the outer
  two are equal only if all are (`Squeezed`), so the flag says "incomplete"
  exactly when the document is not `Listing(copied)` or the stream lost a part
  (`FlagFollows`).
- **Document.** `Reserve` says how much room is left at each program counter: 76
  bytes before a folder or the closing, 78 within a folder, 55 when the document
  is complete. `RoomFor` sees `kReserve` before each unit, and the lemmas bound
  the length of a unit: decimal digits of its numbers, escaped texts. What is left
  at the end is the most that `appendLastChange()` writes, which checks nothing.
- **Store.** `SocketInv`: the sockets are used one after the other (all before
  the latest are closed, none after it exists), the link follows the latest, and
  a reconnect is scheduled only while offline and not closed. Without
  the second part an opening step could meet a live socket. `PendingIsTimed` is
  inductive by itself. For `NoUnnoticedLoss`, `InOrder` says of each socket that
  the messages on their way carry growing numbers, and that each extends the one
  before it when its number is the next. `HeardInv` joins this to the page: what is
  shown is the board's state when it sent the latest message, and
  whatever still comes continues it.
- **WebTransport.** A response is not older than its request's listing only
  because the JSON is the published snapshot's whenever it is not marked dirty:
  `ListingInv` says so, and that no request's listing is ahead of what is published.
  `ClientsInv` relates the list, the worker's copy, the client being removed and
  the socket being set up to the contexts in use; that a new client finds room is
  then a pigeonhole argument (`ShorterThan`: a list without repetitions that
  misses a context is shorter than their number). For `PushesGoForward`,
  `PushInv` orders what a client has, the frame taken last, the JSON and the
  snapshot; a frame without a change says nothing of the changes, one with a
  change is overtaken by none.

Only model-checked: the liveness properties (`ImplementsSlot`'s fairness part,
`ListingFinishes`, `ListingIsPrinted`, `ConnectionIsListed`, `HandshakesEnd`,
`ClientsCatchUp`, `PendingEnds`, `Recovers`, `ComesInStep`), since fairness and
ENABLED are out of the prover's reach. Every invariant and every action
property of the passing runs is a theorem. Only proved, and in no run:
`PublishedInOrder`, and `PendingIsTimed`, on which `PendingEnds` rests.

## 6. Not modelled

Byte formats (protobuf, gzip, WebSocket frames) appear by their outcomes, the
JSON text by its length. Boot, LED, Wi-Fi credentials and addresses, serving of
static files, the pages' rendering and vendored code have no state that the
properties concern. C++ object lifetimes, and who frees a USB transfer within
Zephyr, are not expressible or not this repository's. The post-stream tally
(`QcMessageTally` and the comparison with what was logged in `runHeartbeat()`)
is the one part with state that no module has yet.

## 7. Plan

What the project does not cover yet, the most important first:

1. `ChangeWatch`: the post-stream tally and what it publishes, in front of
   `WebTransport`.
2. The mutex hand-over between printer and handshake in `QcSession`.
3. `QcSession`'s mailboxes and `UsbLink`'s sends as refinements of the detailed
   modules, rather than by what those are shown to promise.

## 8. Running

    tlc -config MCListing.cfg MCQcSession     # any run: its module and .cfg
    tlapm QcSessionProofs.tla
