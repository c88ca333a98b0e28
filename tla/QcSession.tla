----------------------------- MODULE QcSession -----------------------------
(***************************************************************************)
(* QcSession: from the device's arrival to the preset listing at the       *)
(* transports and in the log.  Five threads share it: the USB host thread  *)
(* (deviceConnected(), handleMessage(), the reassembly counters), the two  *)
(* workers (onMessage(), onInflateFailed()), the handshake thread, the     *)
(* heartbeat, which ends a File stream and publishes its listing, and the  *)
(* printer.  A critical section of fileStreamMutex_ is one step; reads the *)
(* code makes outside it are steps of their own.                           *)
(*                                                                         *)
(* The workers' mailboxes are taken as MessageSlot describes them (Mailbox *)
(* implements it).  A File message carries one folder of presets.  Time is *)
(* what QcFileStream measures: the ticks since the stream started and      *)
(* since its latest message.                                               *)
(*                                                                         *)
(* The threads are Zephyr threads of fixed priorities on one core: a step  *)
(* of one is possible only while no thread above it is ready to run.       *)
(***************************************************************************)
EXTENDS Naturals, Sequences, FiniteSets, SequencesExt

CONSTANTS Folders,       \* number of File messages in the device's listing
          Capacity,      \* folders presetCatalog_ has room for
          Quiet,         \* QcFileStream::kQuietWindowMs, in ticks
          Overall,       \* QcFileStream::kOverallTimeoutMs, in ticks
          AnyUnplug,     \* the device may go while a listing is under way
          SendMayFail,   \* a send may fail although the device is there
          ReportLoss,    \* a report may be lost, which nothing need tell
          MaxConnects,   \* bound on the connections
          MaxDamage,     \* bound on the messages damaged on the way
          MaxOther       \* bound on the messages of other commands

ASSUME SessionAssumption ==
  /\ Folders \in Nat /\ Capacity \in Nat
  /\ Quiet \in Nat \ {0} /\ Overall \in Nat \ {0}
  /\ AnyUnplug \in BOOLEAN /\ SendMayFail \in BOOLEAN /\ ReportLoss \in BOOLEAN
  /\ MaxConnects \in Nat /\ MaxDamage \in Nat /\ MaxOther \in Nat

Workers == {"dispatcher", "inflater"}
Counters == Workers \cup {"overflow", "malformed"}

VARIABLES
  connected,   \* claimed_udev # NULL
  readySem,    \* deviceReadySem_
  reply,       \* the File messages the device has still to send
  slot,        \* the two mailboxes
  lost,        \* droppedCount() of the workers and the reassembly counters
  spc,         \* where the handshake thread is in runHandshake()
  atStart,     \* the *AtStart_ snapshots of the counters
  fs,          \* fileStream_: active, messages, failed, sinceStart, sinceLast
  catalog,     \* presetCatalog_: generation, folders, overflowed
  hpc,         \* where the heartbeat is in runHeartbeat()
  summary,     \* its local summary
  incomplete,  \* its local verdict
  snapshot,    \* catalogSnapshot_
  request,     \* QcPresetPrinter::pendingRequest_
  printSem,    \* printRequestSem_
  ppc,         \* where the printer is in run()
  job,         \* its local request, the folder count and the next folder
  \* history, not in the code:
  connects,    \* connections so far
  damage, others,
  abandoned,   \* the latest connection whose handshake a failed send ended, or 0
  stream,      \* the stream under way: its connection, the folders received for it
  published,   \* the listings handed to the transports
  printed      \* the listings logged, as far as they were

usbVars == <<connected, readySem, reply, lost, connects, damage, others>>
sessionVars == <<spc, atStart, abandoned>>
heartbeatVars == <<hpc, summary, incomplete, snapshot, request, published>>
printerVars == <<ppc, job, printed>>
vars == <<usbVars, slot, sessionVars, fs, catalog, heartbeatVars, printSem, printerVars, stream>>

Zero == [c \in Counters |-> 0]

Init ==
  /\ connected = FALSE /\ readySem = 0 /\ reply = << >>
  /\ slot = [w \in Workers |-> << >>]
  /\ lost = Zero /\ atStart = Zero
  /\ spc = "wait"
  /\ fs = [active |-> FALSE, messages |-> 0, failed |-> 0, sinceStart |-> 0, sinceLast |-> 0]
  /\ catalog = [generation |-> 0, folders |-> << >>, overflowed |-> FALSE]
  /\ hpc = "off"
  /\ summary = [timedOut |-> FALSE, failed |-> 0, lost |-> Zero]
  /\ incomplete = FALSE
  /\ snapshot = [generation |-> 0, folders |-> << >>, incomplete |-> FALSE]
  /\ request = [generation |-> 0, incomplete |-> FALSE]
  /\ printSem = 0
  /\ ppc = "wait"
  /\ job = [generation |-> 0, incomplete |-> FALSE, count |-> 0, next |-> 1]
  /\ connects = 0 /\ damage = 0 /\ others = 0 /\ abandoned = 0
  /\ stream = [connection |-> 0, received |-> {}]
  /\ published = << >> /\ printed = << >>

---------------------------------------------------------------------------
(* Scheduling                                                              *)

(* As if the heartbeat ran below the handshake thread.                     *)
PriorityHeartbeatLow ==
  [heartbeat |-> 8, dispatcher |-> 6, inflater |-> 6, session |-> 7, printer |-> 9]

(* As if the handshake thread ran above the workers.                       *)
PriorityWorkersLow ==
  [heartbeat |-> 5, dispatcher |-> 8, inflater |-> 8, session |-> 7, printer |-> 9]

(* kThreadPriority of each, the lower the more urgent.                     *)
Priority == [heartbeat |-> 5, dispatcher |-> 6, inflater |-> 6, session |-> 7, printer |-> 9]

(* Runnable, not waiting for a semaphore, a timer or a USB transfer.       *)
Ready(t) ==
  CASE t = "heartbeat" -> hpc \notin {"off", "wait", "sending"}
    [] t \in Workers   -> slot[t] # << >>
    [] t = "session"   -> spc = "start" \/ (spc = "wait" /\ readySem = 1)
    [] t = "printer"   -> ppc # "wait" \/ printSem = 1

MayRun(t) == \A u \in DOMAIN Priority : Ready(u) => Priority[t] <= Priority[u]

---------------------------------------------------------------------------
(* The USB host thread, which no other thread preempts                     *)

(* As if a handshake under way were thought to serve the new device.       *)
DeviceConnectedWakesIdleOnly ==
  /\ ~connected
  /\ connects < MaxConnects
  /\ connected' = TRUE
  /\ readySem' = (IF spc = "wait" THEN 1 ELSE readySem)
  /\ connects' = connects + 1
  /\ UNCHANGED <<reply, lost, damage, others, slot, sessionVars, fs, catalog, heartbeatVars,
                 printSem, printerVars, stream>>

(* onProbe() and deviceConnected(): a give at the limit of 1 is lost.      *)
DeviceConnected ==
  /\ ~connected
  /\ connects < MaxConnects
  /\ connected' = TRUE
  /\ readySem' = 1
  /\ connects' = connects + 1
  /\ UNCHANGED <<reply, lost, damage, others, slot, sessionVars, fs, catalog, heartbeatVars,
                 printSem, printerVars, stream>>

Resting == spc = "wait" /\ readySem = 0 /\ ~fs.active /\ hpc \in {"off", "wait", "sending"}

(* shim_removed() and onRemoved(): nothing of the session is told.         *)
DeviceRemoved ==
  /\ connected
  /\ AnyUnplug \/ Resting
  /\ connected' = FALSE
  /\ reply' = << >>
  /\ UNCHANGED <<readySem, lost, connects, damage, others, slot, sessionVars, fs, catalog,
                 heartbeatVars, printSem, printerVars, stream>>

(* submit(): into the worker's slot, or dropped and counted.               *)
Submit(w, m) ==
  IF slot[w] = << >>
  THEN /\ slot' = [slot EXCEPT ![w] = <<m>>]
       /\ lost' = lost
  ELSE /\ lost' = [lost EXCEPT ![w] = @ + 1]
       /\ slot' = slot

OtherMessage == [command |-> "other", stream |-> 0, folder |-> 0, ok |-> TRUE]

(* What is handed over of m without one of its first or middle reports:    *)
(* part of a folder, here 0, which gunzip's CRC rejects, or, where the     *)
(* trailer suffered, a message of another command.                         *)
Torn(w, m) == {OtherMessage, [m EXCEPT !.folder = 0, !.ok = (w = "dispatcher")]}

(* The next File message of the device's reply: uncompressed for the       *)
(* dispatcher, or compressed for the inflater - which it may defeat -;     *)
(* counted by recordReassemblyOverflow() or recordReassemblyMalformed();   *)
(* torn, or without its last report, and so never handed over: decode-     *)
(* Message() asks for eight bytes and no more.                             *)
FileArrives(fate) ==
  /\ connected
  /\ reply # << >>
  /\ reply' = Tail(reply)
  /\ fate \in {"torn", "vanished"} => ReportLoss
  /\ LET m == [Head(reply) EXCEPT !.ok = (fate # "corrupt")]
     IN CASE fate = "plain" -> Submit("dispatcher", m)
          [] fate \in {"gzip", "corrupt"} -> Submit("inflater", m)
          [] fate = "torn" -> \E w \in Workers : \E t \in Torn(w, m) : Submit(w, t)
          [] fate = "vanished" -> UNCHANGED <<lost, slot>>
          [] OTHER -> /\ lost' = [lost EXCEPT ![fate] = @ + 1]
                      /\ slot' = slot
  /\ damage' = damage + (IF fate \in {"plain", "gzip"} THEN 0 ELSE 1)
  /\ damage' <= MaxDamage
  /\ stream' = IF /\ fs.active /\ fate \notin {"torn", "vanished"}
                  /\ Head(reply).stream = catalog.generation
               THEN [stream EXCEPT !.received = @ \cup {Head(reply).folder}]
               ELSE stream
  /\ UNCHANGED <<connected, readySem, connects, others, sessionVars, fs, catalog, heartbeatVars,
                 printSem, printerVars>>

(* A message of another command.                                           *)
OtherArrives(w) ==
  /\ connected
  /\ others < MaxOther
  /\ others' = others + 1
  /\ Submit(w, OtherMessage)
  /\ UNCHANGED <<connected, readySem, reply, connects, damage, sessionVars, fs, catalog,
                 heartbeatVars, printSem, printerVars, stream>>

---------------------------------------------------------------------------
(* The workers: onMessage() and onInflateFailed()                          *)

(* As if the capacity were tested one too late.                            *)
AddFolderOneTooMany(c, f) ==
  IF Len(c.folders) <= Capacity THEN [c EXCEPT !.folders = Append(@, f)]
                                ELSE [c EXCEPT !.overflowed = TRUE]

(* QcPresetCatalog::addPreset(): one folder, or an overflow.               *)
AddFolder(c, f) ==
  IF Len(c.folders) < Capacity THEN [c EXCEPT !.folders = Append(@, f)]
                               ELSE [c EXCEPT !.overflowed = TRUE]

(* decodeFile() and addPreset() on each preset: the folder of m, or, of a  *)
(* torn message, nothing, part of a folder or presets beyond the capacity. *)
Decoded(c, m) ==
  LET added == AddFolder(c, <<m.stream, m.folder>>)
  IN IF m.folder # 0 THEN {added} ELSE {c, added, [c EXCEPT !.overflowed = TRUE]}

Handle(w) ==
  /\ MayRun(w)
  /\ slot[w] # << >>
  /\ LET m == Head(slot[w])
     IN IF m.command = "File" /\ fs.active
        THEN /\ fs' = [fs EXCEPT !.messages = @ + 1, !.sinceLast = 0,
                                 !.failed = @ + (IF m.ok THEN 0 ELSE 1)]
             /\ catalog' \in (IF m.ok THEN Decoded(catalog, m) ELSE {catalog})
        ELSE UNCHANGED <<fs, catalog>>
  /\ slot' = [slot EXCEPT ![w] = << >>]
  /\ UNCHANGED <<usbVars, sessionVars, heartbeatVars, printSem, printerVars, stream>>

---------------------------------------------------------------------------
(* The handshake thread: run() and runHandshake()                          *)

sessionUnchanged == <<connected, lost, connects, damage, others, slot, printSem, printerVars>>

(* A failed send is not repeated: the handshake is over, and it was the    *)
(* last unless a device has come since.                                    *)
Sends(ok) ==
  /\ IF ok THEN connected ELSE SendMayFail \/ ~connected
  /\ abandoned' = IF ok \/ readySem = 1 THEN abandoned ELSE connects

(* k_sem_take(&deviceReadySem_), then startHeartbeat().                    *)
TakeReady ==
  /\ MayRun("session")
  /\ spc = "wait"
  /\ readySem = 1
  /\ readySem' = 0
  /\ spc' = "reset"
  /\ hpc' = IF hpc = "off" THEN "wait" ELSE hpc
  /\ UNCHANGED <<sessionUnchanged, reply, atStart, abandoned, fs, catalog, summary, incomplete,
                 snapshot, request, published, stream>>

(* ResetCommsBuffers: the device forgets what it was sending.              *)
SendReset(ok) ==
  /\ MayRun("session")
  /\ spc = "reset"
  /\ Sends(ok)
  /\ spc' = IF ok THEN "login" ELSE "wait"
  /\ reply' = IF ok THEN << >> ELSE reply
  /\ UNCHANGED <<sessionUnchanged, readySem, atStart, fs, catalog, heartbeatVars, stream>>

(* Version READ, Version UPDATE, Connection: any failure ends it.          *)
SendLogin(ok) ==
  /\ MayRun("session")
  /\ spc = "login"
  /\ Sends(ok)
  /\ spc' = IF ok THEN "settle" ELSE "wait"
  /\ UNCHANGED <<sessionUnchanged, readySem, reply, atStart, fs, catalog, heartbeatVars, stream>>

(* The state READs, whose failure is ignored, and waitForInTrafficToSettle *)
Settle ==
  /\ MayRun("session")
  /\ spc = "settle"
  /\ spc' = "start"
  /\ UNCHANGED <<sessionUnchanged, readySem, reply, atStart, abandoned, fs, catalog, heartbeatVars,
                 stream>>

(* Under fileStreamMutex_: the stream, the catalog and the counters.       *)
StartStream ==
  /\ MayRun("session")
  /\ spc = "start"
  /\ spc' = "read"
  /\ fs' = [active |-> TRUE, messages |-> 0, failed |-> 0, sinceStart |-> 0, sinceLast |-> 0]
  /\ catalog' = [generation |-> catalog.generation + 1, folders |-> << >>, overflowed |-> FALSE]
  /\ atStart' = lost
  /\ stream' = [connection |-> connects, received |-> {}]
  /\ UNCHANGED <<sessionUnchanged, readySem, reply, abandoned, heartbeatVars>>

(* File READ: the device answers with its listing.                         *)
SendFileRead(ok) ==
  /\ MayRun("session")
  /\ spc = "read"
  /\ Sends(ok)
  /\ spc' = "wait"
  /\ reply' = IF ok THEN [f \in 1 .. Folders |-> [command |-> "File", stream |-> catalog.generation,
                                                 folder |-> f, ok |-> TRUE]]
                    ELSE reply
  /\ UNCHANGED <<sessionUnchanged, readySem, atStart, fs, catalog, heartbeatVars, stream>>

---------------------------------------------------------------------------
(* The heartbeat: runHeartbeat() and logFileStreamSummary()                *)

heartbeatUnchanged == <<usbVars, slot, sessionVars, stream, printerVars>>

(* The timer gives heartbeatSem_; the KeepAlive is sent.                   *)
Beat ==
  /\ hpc = "wait"
  /\ hpc' = "sending"
  /\ UNCHANGED <<heartbeatUnchanged, fs, catalog, summary, incomplete, snapshot, request, published,
                 printSem>>

(* The KeepAlive is out, or has failed, which is only logged.              *)
BeatSent ==
  /\ hpc = "sending"
  /\ hpc' = "check"
  /\ UNCHANGED <<heartbeatUnchanged, fs, catalog, summary, incomplete, snapshot, request, published,
                 printSem>>

(* As if only silence ended a stream.                                      *)
TimedOutNever == FALSE

(* QcFileStream::checkTimeout()'s two deadlines.                           *)
QuietNow == fs.messages > 0 /\ fs.sinceLast >= Quiet
TimedOut == fs.sinceStart >= Overall

(* Under fileStreamMutex_: checkTimeout() and the counters since the start *)
CheckTimeout ==
  /\ hpc = "check"
  /\ IF fs.active /\ (QuietNow \/ TimedOut)
     THEN /\ hpc' = "assess"
          /\ fs' = [fs EXCEPT !.active = FALSE]
          /\ summary' = [timedOut |-> TimedOut, failed |-> fs.failed,
                         lost |-> [c \in Counters |-> lost[c] - atStart[c]]]
     ELSE /\ hpc' = "wait"
          /\ UNCHANGED <<fs, summary>>
  /\ UNCHANGED <<heartbeatUnchanged, catalog, incomplete, snapshot, request, published, printSem>>

(* As it was before issue #10's review, and as if one counter were missed. *)
IsListingIncompleteButTimeout(s, catalogOverflowed) ==
  s.failed > 0 \/ catalogOverflowed \/ \E c \in Counters : s.lost[c] > 0
IsListingIncompleteButInflater(s, catalogOverflowed) ==
  s.timedOut \/ s.failed > 0 \/ catalogOverflowed \/ \E c \in Counters \ {"inflater"} : s.lost[c] > 0

(* QcFileStream::isListingIncomplete()                                     *)
IsListingIncomplete(s, catalogOverflowed) ==
  s.timedOut \/ s.failed > 0 \/ catalogOverflowed \/ \E c \in Counters : s.lost[c] > 0

(* The catalog's overflow is read without the lock, ...                    *)
Assess ==
  /\ hpc = "assess"
  /\ incomplete' = IsListingIncomplete(summary, catalog.overflowed)
  /\ hpc' = "request"
  /\ UNCHANGED <<heartbeatUnchanged, fs, catalog, summary, snapshot, request, published, printSem>>

(* As if the printer were not woken.                                       *)
RequestPrintUnheard ==
  /\ hpc = "request"
  /\ request' = [generation |-> catalog.generation, incomplete |-> incomplete]
  /\ printSem' = printSem
  /\ hpc' = "copy"
  /\ UNCHANGED <<heartbeatUnchanged, fs, catalog, summary, incomplete, snapshot, published>>

(* ... and so is its generation by requestPrint(), which wakes the printer *)
RequestPrint ==
  /\ hpc = "request"
  /\ request' = [generation |-> catalog.generation, incomplete |-> incomplete]
  /\ printSem' = 1
  /\ hpc' = "copy"
  /\ UNCHANGED <<heartbeatUnchanged, fs, catalog, summary, incomplete, snapshot, published>>

(* copyCatalogSnapshot(), under fileStreamMutex_.                          *)
CopySnapshot ==
  /\ hpc = "copy"
  /\ snapshot' = [generation |-> catalog.generation, folders |-> catalog.folders,
                  incomplete |-> incomplete]
  /\ hpc' = "publish"
  /\ UNCHANGED <<heartbeatUnchanged, fs, catalog, summary, incomplete, request, published, printSem>>

(* publishCatalog() of every transport.                                    *)
Publish ==
  /\ hpc = "publish"
  /\ published' = Append(published, [listing |-> snapshot, received |-> stream.received,
                                     connection |-> stream.connection])
  /\ hpc' = "wait"
  /\ UNCHANGED <<heartbeatUnchanged, fs, catalog, summary, incomplete, snapshot, request, printSem>>

---------------------------------------------------------------------------
(* The printer: run() and printCatalog()                                   *)

printerUnchanged == <<usbVars, slot, sessionVars, fs, catalog, heartbeatVars, stream>>

(* k_sem_take(&printRequestSem_), and the request copied under its mutex.  *)
TakeRequest ==
  /\ MayRun("printer")
  /\ ppc = "wait"
  /\ printSem = 1
  /\ printSem' = 0
  /\ job' = [generation |-> request.generation, incomplete |-> request.incomplete, count |-> 0,
             next |-> 1]
  /\ ppc' = "header"
  /\ UNCHANGED <<printerUnchanged, printed>>

(* As if the printer trusted its request.                                  *)
SameGenerationAssumed == TRUE

SameGeneration == catalog.generation = job.generation

(* The counts are read under fileStreamMutex_ and the header is logged.    *)
PrintHeader ==
  /\ MayRun("printer")
  /\ ppc = "header"
  /\ IF SameGeneration
     THEN /\ job' = [job EXCEPT !.count = Len(catalog.folders)]
          /\ printed' = Append(printed, [generation |-> job.generation, folders |-> << >>,
                                         incomplete |-> job.incomplete, whole |-> FALSE])
          /\ ppc' = "folders"
     ELSE /\ ppc' = "wait"
          /\ UNCHANGED <<job, printed>>
  /\ UNCHANGED <<printerUnchanged, printSem>>

Latest == Len(printed)

(* One folder is copied under fileStreamMutex_ and logged.                 *)
PrintFolder ==
  /\ MayRun("printer")
  /\ ppc = "folders"
  /\ job.next <= job.count
  /\ IF SameGeneration /\ job.next <= Len(catalog.folders)
     THEN /\ printed' = [printed EXCEPT ![Latest].folders = Append(@, catalog.folders[job.next])]
          /\ job' = [job EXCEPT !.next = @ + 1]
          /\ ppc' = ppc
     ELSE /\ ppc' = "wait"
          /\ UNCHANGED <<job, printed>>
  /\ UNCHANGED <<printerUnchanged, printSem>>

PrintEnd ==
  /\ MayRun("printer")
  /\ ppc = "folders"
  /\ job.next > job.count
  /\ printed' = [printed EXCEPT ![Latest].whole = TRUE]
  /\ ppc' = "wait"
  /\ UNCHANGED <<printerUnchanged, printSem, job>>

---------------------------------------------------------------------------
(* Time.  The device does not pause as long as the quiet window within its *)
(* reply, nor does a File message wait in a mailbox that long - what the   *)
(* hardware runs behind kQuietWindowMs showed.                             *)
Underway == \/ connected /\ reply # << >>
            \/ \E w \in Workers : slot[w] # << >> /\ Head(slot[w]).command = "File"

Tick ==
  /\ fs.active
  /\ fs.sinceStart < Overall
  /\ (fs.messages > 0 /\ Underway) => fs.sinceLast + 1 < Quiet
  /\ fs' = [fs EXCEPT !.sinceStart = @ + 1, !.sinceLast = IF @ < Quiet THEN @ + 1 ELSE @]
  /\ UNCHANGED <<usbVars, slot, sessionVars, catalog, heartbeatVars, printSem, printerVars, stream>>

---------------------------------------------------------------------------
Fates == {"plain", "gzip", "corrupt", "torn", "vanished", "overflow", "malformed"}

Usb == \/ DeviceConnected
       \/ DeviceRemoved
       \/ \E w \in Workers : OtherArrives(w)
Device == \E fate \in Fates : FileArrives(fate)
Session == \/ TakeReady \/ Settle \/ StartStream
           \/ \E ok \in BOOLEAN : SendReset(ok) \/ SendLogin(ok) \/ SendFileRead(ok)
Heartbeat == Beat \/ BeatSent \/ CheckTimeout \/ Assess \/ RequestPrint \/ CopySnapshot \/ Publish
Printer == TakeRequest \/ PrintHeader \/ PrintFolder \/ PrintEnd

Next == Usb \/ Device \/ Session \/ (\E w \in Workers : Handle(w)) \/ Heartbeat \/ Printer \/ Tick

SafeSpec == Init /\ [][Next]_vars

(* The device sends what it was asked for, time passes and the heartbeat,  *)
(* the highest of the threads, runs.  The others get the processor between *)
(* two beats again and again: strong fairness.                             *)
Spec ==
  /\ SafeSpec
  /\ WF_vars(Device) /\ WF_vars(Tick) /\ WF_vars(Heartbeat)
  /\ SF_vars(Session) /\ SF_vars(Printer)
  /\ \A w \in Workers : SF_vars(Handle(w))
---------------------------------------------------------------------------
Publishing == {"assess", "request", "copy", "publish"}
Message == [command : {"File", "other"}, stream : Nat, folder : Nat, ok : BOOLEAN]
FolderSeq == Seq(Nat \X Nat)
Stream == [active : BOOLEAN, messages : Nat, failed : Nat, sinceStart : Nat, sinceLast : 0 .. Quiet]
Catalog == [generation : Nat, folders : FolderSeq, overflowed : BOOLEAN]
Listing == [generation : Nat, folders : FolderSeq, incomplete : BOOLEAN]
Job == [generation : Nat, incomplete : BOOLEAN, count : Nat, next : Nat \ {0}]
Printout == [generation : Nat, folders : FolderSeq, incomplete : BOOLEAN, whole : BOOLEAN]

UsbTypeOK ==
  /\ connected \in BOOLEAN /\ readySem \in 0 .. 1 /\ connects \in Nat
  /\ reply \in Seq(Message)
  /\ slot \in [Workers -> Seq(Message)] /\ \A w \in Workers : Len(slot[w]) <= 1
  /\ lost \in [Counters -> Nat]
SessionTypeOK ==
  /\ spc \in {"wait", "reset", "login", "settle", "start", "read"}
  /\ atStart \in [Counters -> Nat] /\ abandoned \in Nat
  /\ fs \in Stream /\ fs.failed <= fs.messages
  /\ catalog \in Catalog /\ Len(catalog.folders) <= Capacity
  /\ stream \in [connection : Nat, received : SUBSET Nat]
HeartbeatTypeOK ==
  /\ hpc \in {"off", "wait", "sending", "check"} \cup Publishing
  /\ incomplete \in BOOLEAN /\ snapshot \in Listing
  /\ request \in [generation : Nat, incomplete : BOOLEAN]
  /\ published \in Seq([listing : Listing, received : SUBSET Nat, connection : Nat])
PrinterTypeOK ==
  /\ printSem \in 0 .. 1
  /\ ppc \in {"wait", "header", "folders"}
  /\ job \in Job /\ job.next <= job.count + 1 /\ (ppc = "header" => job.next = 1)
  /\ printed \in Seq(Printout) /\ (ppc = "folders" => printed # << >>)

(* Types, the semaphores' limits, the catalog's capacity, and the printer  *)
(* never past the folders it counted.                                      *)
TypeOK == UsbTypeOK /\ SessionTypeOK /\ HeartbeatTypeOK /\ PrinterTypeOK

(* What isListingIncomplete() is for: a listing handed to the transports   *)
(* without the flag has all of the device's folders.                       *)
CompleteMeansAll ==
  \A i \in DOMAIN published :
    LET l == published[i].listing
    IN ~l.incomplete => {l.folders[k][2] : k \in DOMAIN l.folders} = 1 .. Folders

(* The weaker promise the counters can keep although the device goes: what *)
(* reached the bridge whole while the stream was active is in it, or       *)
(* the listing is flagged - through any drop, overflow or failed inflate.  *)
ReceivedIsListed ==
  \A i \in DOMAIN published :
    LET l == published[i].listing
    IN l.incomplete \/ published[i].received \subseteq {l.folders[k][2] : k \in DOMAIN l.folders}

(* No folder of an earlier stream is in the catalog, in a snapshot or in a *)
(* published listing: a straggler that waits in a mailbox is handled       *)
(* before startStream() can reset the catalog.                             *)
OwnFolders(generation, folders) == \A k \in DOMAIN folders : folders[k][1] = generation
NoForeignFolders ==
  /\ OwnFolders(catalog.generation, catalog.folders)
  /\ OwnFolders(snapshot.generation, snapshot.folders)
  /\ \A i \in DOMAIN published :
        OwnFolders(published[i].listing.generation, published[i].listing.folders)

(* From checkTimeout() to publishCatalog() the heartbeat drops the lock    *)
(* four times; no reconnect's stream may start in between, so the print    *)
(* request and the snapshot are of the stream that was summarised.         *)
SnapshotIsOfItsStream ==
  /\ hpc \in Publishing => ~fs.active
  /\ hpc \in {"copy", "publish"} =>
       request = [generation |-> catalog.generation, incomplete |-> incomplete]
  /\ hpc = "publish" =>
       snapshot = [generation |-> catalog.generation, folders |-> catalog.folders,
                   incomplete |-> incomplete]

(* The log agrees with the transports: what the printer logs of a          *)
(* generation is the beginning of the listing published of it, with the    *)
(* same flag, and all of it when it comes to its end - although the        *)
(* catalog is unlocked between two folders and a reconnect may reset it.   *)
PrintedIsPublished ==
  \A i \in DOMAIN printed : \E j \in DOMAIN published :
    LET p == printed[i]
        l == published[j].listing
    IN /\ p.generation = l.generation /\ p.incomplete = l.incomplete
       /\ IF p.whole THEN p.folders = l.folders ELSE IsPrefix(p.folders, l.folders)

(* Every stream ends, although the device may go or never answer.          *)
ListingFinishes == fs.active ~> ~fs.active

(* Every published listing is logged to its end, unless a reconnect        *)
(* starts another.                                                         *)
LoggedWhole(g) == \E i \in DOMAIN printed : printed[i].generation = g /\ printed[i].whole
ListingIsPrinted ==
  \A k \in 1 .. MaxConnects :
    (Len(published) >= k) ~>
      /\ Len(published) >= k
      /\ LET g == published[k].listing.generation
         IN LoggedWhole(g) \/ catalog.generation > g

(* A connection that lasts has a listing published that was begun in it -  *)
(* also one that comes while the handshake thread is still at work on the  *)
(* connection before -, unless a send of its handshake failed: nothing     *)
(* repeats it (QcSession.hpp:306, 319, 340, 347, 414).                     *)
Listed(k) == \E i \in DOMAIN published : published[i].connection = k
ConnectionIsListed ==
  \A k \in 1 .. MaxConnects :
    (connected /\ connects = k) ~>
      (Listed(k) \/ connects > k \/ ~connected \/ abandoned = k)
=============================================================================
