------------------------------ MODULE UsbLink ------------------------------
(***************************************************************************)
(* usbh_shim.c and the part of QcSession that talks through it: a device   *)
(* is probed and removed on the USB host thread, the handshake and the     *)
(* heartbeat send messages of several reports over one control endpoint,   *)
(* and the device's Version reply comes back by the dispatcher's worker.   *)
(*                                                                         *)
(* Devices are numbered in the order they are attached; a version is the   *)
(* number of its device.  The threads share one core: a step of one is     *)
(* possible only while no thread above it is ready.                        *)
(***************************************************************************)
EXTENDS Naturals, FiniteSets

CONSTANTS MaxDevices,   \* bound on the devices attached, one after the other
          Reports,      \* reports of a message
          StateReads,   \* kPostConnectStateReadCommands.size()
          NoBurstPolls, \* kSettleNoBurstMs, in polls of kSettlePollMs
          MaxPolls      \* kSettleMaxMs, likewise

ASSUME LinkAssumption ==
  /\ MaxDevices \in Nat /\ Reports \in Nat \ {0} /\ StateReads \in Nat
  /\ NoBurstPolls \in Nat /\ MaxPolls \in Nat

VARIABLES
  attached,   \* the device on the bus, or 0
  upc,        \* the USB host thread: "idle", or "probe" after on_probe()
  claimed,    \* claimed_udev, 0 for NULL
  receiving,  \* receiving
  armed,      \* the device whose IN transfer is enqueued, or 0
  readySem,   \* deviceReadySem_
  hpc,        \* the heartbeat: "off", "wait" or "send"
  hbSem,      \* heartbeatSem_
  slot,       \* the Version reply in the dispatcher's mailbox, or 0
  spc,        \* the handshake thread
  step,       \* the message it is at
  polls, sawBurst, \* waitForInTrafficToSettle()
  waiting,    \* waitingForVersionReply_
  versionSem, \* versionReplySem_
  pending,    \* pendingVersionReply_, 0 for nothing usable
  mirrored,   \* mirroredVersion, 0 for the fallback
  mutex,      \* the owner of sendMutex_, or "none"
  call,       \* sendMessage() of each thread
  \* outside, and history:
  owes,       \* the device has a Version reply to send
  wire,       \* the last report on the bus
  asked,      \* the device that got the handshake's Version READ
  devices, probed, endpointless, serving \* devices attached so far, and the latest
              \* that was probed, that had no IN endpoint, that woke the handshake

Threads == {"session", "heartbeat"}

usbVars == <<attached, upc, claimed, receiving, armed, owes, devices, probed, endpointless>>
versionVars == <<waiting, versionSem, pending, mirrored, asked>>
sessionVars == <<spc, step, polls, sawBurst, serving>>
sendVars == <<mutex, call, wire>>
vars == <<usbVars, readySem, hpc, hbSem, slot, sessionVars, versionVars, sendVars>>

NoCall == [state |-> "none", report |-> 1, udev |-> 0]

Init ==
  /\ attached = 0 /\ upc = "idle" /\ claimed = 0 /\ receiving = FALSE /\ armed = 0
  /\ readySem = 0 /\ hpc = "off" /\ hbSem = 0 /\ slot = 0
  /\ spc = "wait" /\ step = 1 /\ polls = 0 /\ sawBurst = FALSE
  /\ waiting = FALSE /\ versionSem = 0 /\ pending = 0 /\ mirrored = 0
  /\ mutex = "none" /\ call = [t \in Threads |-> NoCall]
  /\ owes = FALSE /\ wire = [from |-> "none", report |-> 0] /\ asked = 0
  /\ devices = 0 /\ probed = 0 /\ endpointless = 0 /\ serving = 0

---------------------------------------------------------------------------
(* Scheduling                                                              *)

(* As if the USB host thread were not cooperative.                         *)
PriorityHostLow == [usb |-> 8, heartbeat |-> 5, dispatcher |-> 6, session |-> 7]

(* kThreadPriority of each; Zephyr's USB host thread is cooperative.       *)
Priority == [usb |-> 0, heartbeat |-> 5, dispatcher |-> 6, session |-> 7]

(* Not waiting for a semaphore, a mutex, a transfer or a timer.            *)
Ready(t) ==
  CASE t = "usb"        -> upc # "idle"
    [] t = "heartbeat"  -> hpc # "off" /\ IF hpc = "wait" THEN hbSem = 1
                                          ELSE call[t].state \in {"none", "report"}
    [] t = "dispatcher" -> slot # 0
    [] t = "session"    -> IF spc = "wait" THEN readySem = 1
                           ELSE IF spc = "send" THEN call[t].state \in {"none", "report"}
                           ELSE spc \in {"answered", "timedout"}

(* k_mutex lends its owner the priority of a thread that waits for it.     *)
Urgency(t) ==
  IF t = "session" /\ mutex = "session" /\ call["heartbeat"].state = "blocked"
  THEN Priority["heartbeat"] ELSE Priority[t]

MayRun(t) == \A u \in DOMAIN Priority \ {t} : Ready(u) => Urgency(t) <= Urgency(u)

---------------------------------------------------------------------------
(* The USB host thread                                                     *)

usbUnchanged == <<hpc, hbSem, sessionVars, versionVars, sendVars>>

Attach ==
  /\ attached = 0 /\ upc = "idle"
  /\ devices < MaxDevices
  /\ devices' = devices + 1
  /\ attached' = devices + 1
  /\ owes' = FALSE
  /\ UNCHANGED <<usbUnchanged, upc, claimed, receiving, armed, probed, endpointless, readySem, slot>>

(* shim_probe() up to on_probe(): the interface is HID, so onProbe() wakes *)
(* the handshake.  A give at the limit of 1 is lost.                       *)
Probe ==
  /\ MayRun("usb")
  /\ upc = "idle"
  /\ attached # 0 /\ probed # attached
  /\ upc' = "probe"
  /\ probed' = attached
  /\ readySem' = 1
  /\ UNCHANGED <<usbUnchanged, attached, claimed, receiving, armed, owes, devices, endpointless, slot>>

(* The rest of shim_probe(): discover_endpoints() finds no IN endpoint ... *)
ProbeWithoutEndpoint ==
  /\ MayRun("usb")
  /\ upc = "probe"
  /\ upc' = "idle"
  /\ claimed' = 0
  /\ endpointless' = attached
  /\ UNCHANGED <<usbUnchanged, attached, receiving, armed, owes, devices, probed, readySem, slot>>

(* ... or start_receiving(): without a transfer or a buffer nothing comes  *)
(* in, but the device stays claimed.                                       *)
Claim(ok) ==
  /\ MayRun("usb")
  /\ upc = "probe"
  /\ upc' = "idle"
  /\ claimed' = attached
  /\ receiving' = ok
  /\ armed' = IF ok THEN attached ELSE 0
  /\ UNCHANGED <<usbUnchanged, attached, owes, devices, probed, endpointless, readySem, slot>>

(* As if the receive loop were left on.                                    *)
RemovedStillReceiving ==
  /\ attached # 0 /\ upc = "idle"
  /\ attached' = 0
  /\ claimed' = 0 /\ armed' = 0
  /\ owes' = FALSE
  /\ UNCHANGED <<usbUnchanged, upc, receiving, devices, probed, endpointless, readySem, slot>>

(* shim_removed()                                                          *)
Removed ==
  /\ attached # 0 /\ upc = "idle"
  /\ attached' = 0
  /\ claimed' = 0 /\ receiving' = FALSE /\ armed' = 0
  /\ owes' = FALSE
  /\ UNCHANGED <<usbUnchanged, upc, devices, probed, endpointless, readySem, slot>>

(* in_xfer_cb(): handleMessage() puts the Version reply in the mailbox, or *)
(* drops it when that is full, and the transfer is re-armed - or, without  *)
(* a buffer, the receive loop has stopped.                                 *)
ReplyIn(rearmed) ==
  /\ armed # 0 /\ owes
  /\ owes' = FALSE
  /\ slot' = IF slot = 0 THEN armed ELSE slot
  /\ receiving' = rearmed
  /\ armed' = IF rearmed THEN armed ELSE 0
  /\ UNCHANGED <<usbUnchanged, attached, upc, claimed, devices, probed, endpointless, readySem>>

(* A transfer of other traffic, or one that ended with an error.           *)
OtherIn(rearmed) ==
  /\ armed # 0
  /\ receiving' = rearmed
  /\ armed' = IF rearmed THEN armed ELSE 0
  /\ UNCHANGED <<usbUnchanged, attached, upc, claimed, owes, devices, probed, endpointless,
                 readySem, slot>>

Usb ==
  \/ Attach \/ Probe \/ ProbeWithoutEndpoint \/ Removed
  \/ \E ok \in BOOLEAN : Claim(ok) \/ ReplyIn(ok) \/ OtherIn(ok)

---------------------------------------------------------------------------
(* The dispatcher's worker: onMessage() of a Version reply, which decodes  *)
(* to a usable version or not.                                             *)
Reply(usable) ==
  /\ MayRun("dispatcher")
  /\ slot # 0
  /\ slot' = 0
  /\ IF waiting
     THEN /\ pending' = IF usable THEN slot ELSE 0
          /\ spc' = IF spc = "await" THEN "answered" ELSE spc
          /\ versionSem' = IF spc = "await" THEN versionSem ELSE 1
     ELSE UNCHANGED <<pending, spc, versionSem>>
  /\ UNCHANGED <<usbVars, readySem, hpc, hbSem, step, polls, sawBurst, serving, waiting, mirrored,
                 asked, sendVars>>

---------------------------------------------------------------------------
(* sendMessage(), and what the handshake does when it returns              *)

(* Messages: ResetCommsBuffers, Version READ, Version UPDATE, Connection,  *)
(* the state READs, File READ.                                             *)
FirstStateRead == 5
FileRead == FirstStateRead + StateReads

GoTo(pc, s) == spc' = pc /\ step' = s
EndHandshake == GoTo("wait", 1)

Sent(ok) ==
  IF step = 2
  THEN IF ok
       THEN /\ step' = 2
            /\ spc' = IF versionSem = 1 THEN "answered" ELSE "await"
            /\ versionSem' = 0
            /\ UNCHANGED waiting
       ELSE waiting' = FALSE /\ EndHandshake /\ UNCHANGED versionSem
  ELSE /\ IF step = FileRead \/ (~ok /\ step < FirstStateRead) THEN EndHandshake
          ELSE IF step = FileRead - 1 THEN GoTo("settle", FileRead)
          ELSE GoTo("send", step + 1)
       /\ UNCHANGED <<waiting, versionSem>>

Other(t) == IF t = "session" THEN "heartbeat" ELSE "session"

(* The lock is handed to the thread that waits for it.                     *)
Return(t, ok) ==
  /\ IF call[Other(t)].state = "blocked"
     THEN /\ mutex' = Other(t)
          /\ call' = [call EXCEPT ![t] = NoCall, ![Other(t)].state = "report"]
     ELSE /\ mutex' = "none"
          /\ call' = [call EXCEPT ![t] = NoCall]
  /\ IF t = "heartbeat"
     THEN hpc' = "wait" /\ UNCHANGED <<spc, step, versionSem, waiting>>
     ELSE Sent(ok) /\ UNCHANGED hpc

sendUnchanged == <<attached, upc, claimed, receiving, armed, devices, probed, endpointless, readySem,
                   hbSem, slot, polls, sawBurst, serving, pending, mirrored>>

Sending(t) == IF t = "session" THEN spc = "send" ELSE hpc = "send"

(* As if sendMutex_ were not there.                                        *)
LockNothing(t) ==
  /\ MayRun(t)
  /\ Sending(t) /\ call[t].state = "none"
  /\ call' = [call EXCEPT ![t].state = "report"]
  /\ UNCHANGED <<sendUnchanged, owes, asked, hpc, spc, step, versionSem, waiting, wire, mutex>>

Lock(t) ==
  /\ MayRun(t)
  /\ Sending(t) /\ call[t].state = "none"
  /\ IF mutex = "none"
     THEN mutex' = t /\ call' = [call EXCEPT ![t].state = "report"]
     ELSE UNCHANGED mutex /\ call' = [call EXCEPT ![t].state = "blocked"]
  /\ UNCHANGED <<sendUnchanged, owes, asked, hpc, spc, step, versionSem, waiting, wire>>

(* qc_usbh_send_report() up to usbh_req_setup(), which blocks ...          *)
SendReport(t) ==
  /\ MayRun(t)
  /\ call[t].state = "report"
  /\ claimed # 0
  /\ call' = [call EXCEPT ![t].state = "transfer", ![t].udev = claimed]
  /\ UNCHANGED <<sendUnchanged, owes, asked, hpc, spc, step, versionSem, waiting, mutex, wire>>

(* ... with no device, or no buffer: sendMessage() returns false.          *)
SendReportFails(t) ==
  /\ MayRun(t)
  /\ call[t].state = "report"
  /\ Return(t, FALSE)
  /\ UNCHANGED <<sendUnchanged, owes, asked, wire>>

(* The transfer is done; -EPIPE is taken for success.                      *)
TransferDone(t) ==
  /\ MayRun(t)
  /\ call[t].state = "transfer"
  /\ call[t].udev = attached
  /\ wire' = [from |-> t, report |-> call[t].report]
  /\ IF call[t].report < Reports
     THEN /\ call' = [call EXCEPT ![t] = [state |-> "report", report |-> @.report + 1, udev |-> 0]]
          /\ UNCHANGED <<mutex, hpc, spc, step, versionSem, waiting, owes, asked>>
     ELSE /\ Return(t, TRUE)
          /\ IF t = "session" /\ step = 2
             THEN owes' = TRUE /\ asked' = attached
             ELSE UNCHANGED <<owes, asked>>
  /\ UNCHANGED sendUnchanged

(* It failed: the device is gone, or did not answer in time.               *)
TransferFails(t) ==
  /\ MayRun(t)
  /\ call[t].state = "transfer"
  /\ Return(t, FALSE)
  /\ UNCHANGED <<sendUnchanged, owes, asked, wire>>

Send(t) == Lock(t) \/ SendReport(t) \/ SendReportFails(t) \/ TransferDone(t) \/ TransferFails(t)

---------------------------------------------------------------------------
(* The handshake thread                                                    *)

sessionUnchanged == <<usbVars, slot, sendVars>>

(* run() and startHeartbeat(), whose timer expires at once.                *)
Wake ==
  /\ MayRun("session")
  /\ spc = "wait" /\ readySem = 1
  /\ readySem' = 0
  /\ GoTo("send", 1)
  /\ serving' = probed
  /\ hpc' = IF hpc = "off" THEN "wait" ELSE hpc
  /\ hbSem' = 1
  /\ asked' = 0
  /\ UNCHANGED <<sessionUnchanged, polls, sawBurst, waiting, versionSem, pending, mirrored>>

(* As if the reply of the handshake before were kept.                      *)
ForgetNothing ==
  /\ MayRun("session")
  /\ spc = "send" /\ step = 2 /\ ~waiting
  /\ waiting' = TRUE
  /\ UNCHANGED <<sessionUnchanged, readySem, hpc, hbSem, sessionVars, versionSem, mirrored, asked,
                 pending>>

(* Before the Version READ is sent: pendingVersionReply_.reset().          *)
ForgetReply ==
  /\ MayRun("session")
  /\ spc = "send" /\ step = 2 /\ ~waiting
  /\ waiting' = TRUE
  /\ pending' = 0
  /\ UNCHANGED <<sessionUnchanged, readySem, hpc, hbSem, sessionVars, versionSem, mirrored, asked>>

(* kVersionReplyTimeout; the thread itself may run only later.             *)
ReplyTimeout ==
  /\ spc = "await"
  /\ spc' = "timedout"
  /\ UNCHANGED <<sessionUnchanged, readySem, hpc, hbSem, step, polls, sawBurst, serving, versionVars>>

(* k_sem_take() has returned: the version to mirror is chosen.             *)
Mirror ==
  /\ MayRun("session")
  /\ spc \in {"answered", "timedout"}
  /\ waiting' = FALSE
  /\ mirrored' = IF spc = "answered" THEN pending ELSE 0
  /\ GoTo("send", 3)
  /\ UNCHANGED <<sessionUnchanged, readySem, hpc, hbSem, polls, sawBurst, serving, versionSem,
                 pending, asked>>

settleUnchanged == <<sessionUnchanged, readySem, hpc, hbSem, serving, versionVars>>

(* As if nothing capped the wait.                                          *)
SettlePollUncapped(busy) ==
  /\ MayRun("session")
  /\ spc = "settle"
  /\ IF ~busy /\ (sawBurst \/ polls + 1 >= NoBurstPolls)
     THEN /\ spc' = "send" /\ polls' = 0 /\ sawBurst' = FALSE
     ELSE /\ UNCHANGED spc
          /\ polls' = IF polls < MaxPolls THEN polls + 1 ELSE 0
          /\ sawBurst' = (sawBurst \/ busy)
  /\ UNCHANGED <<settleUnchanged, step>>

(* waitForInTrafficToSettle(), after each k_sleep(): busy if more than     *)
(* kSettledMaxTransfersPerPoll transfers came in since the poll before.    *)
SettlePoll(busy) ==
  /\ MayRun("session")
  /\ spc = "settle"
  /\ IF \/ ~busy /\ (sawBurst \/ polls + 1 >= NoBurstPolls)
        \/ polls + 1 >= MaxPolls
     THEN /\ spc' = "send" /\ polls' = 0 /\ sawBurst' = FALSE
     ELSE /\ UNCHANGED spc
          /\ polls' = polls + 1
          /\ sawBurst' = (sawBurst \/ busy)
  /\ UNCHANGED <<settleUnchanged, step>>

(* A message of the handshake other than a Version READ not yet prepared.  *)
SendHandshake == (step = 2 => waiting) /\ Send("session")

Session ==
  Wake \/ ForgetReply \/ SendHandshake \/ Mirror \/ \E busy \in BOOLEAN : SettlePoll(busy)

---------------------------------------------------------------------------
(* The heartbeat thread, as far as it sends.  heartbeatTimer_ never stops; *)
(* its 200 ms are longer than the heartbeat needs while it is not blocked. *)

TimerExpires ==
  /\ hpc # "off" /\ ~Ready("heartbeat")
  /\ hbSem = 0
  /\ hbSem' = 1
  /\ UNCHANGED <<usbVars, readySem, hpc, slot, sessionVars, versionVars, sendVars>>

Beat ==
  /\ MayRun("heartbeat")
  /\ hpc = "wait" /\ hbSem = 1
  /\ hbSem' = 0
  /\ hpc' = "send"
  /\ UNCHANGED <<usbVars, readySem, slot, sessionVars, versionVars, sendVars>>

Heartbeat == Beat \/ Send("heartbeat")

Worker == \E usable \in BOOLEAN : Reply(usable)

Next == Usb \/ Worker \/ Session \/ ReplyTimeout \/ TimerExpires \/ Heartbeat

(* usbh_req_setup() and the waits have timeouts, and the threads run: the  *)
(* lowest of them while those above it wait, which they do over and over.  *)
Fairness ==
  /\ WF_vars(Probe \/ ProbeWithoutEndpoint \/ \E ok \in BOOLEAN : Claim(ok))
  /\ WF_vars(ReplyTimeout) /\ WF_vars(Heartbeat)
  /\ SF_vars(Worker) /\ SF_vars(Session)

Spec == Init /\ [][Next]_vars /\ Fairness
---------------------------------------------------------------------------
(* Properties                                                              *)

Device == 0 .. MaxDevices

Call == [state : {"none", "blocked", "report", "transfer"}, report : 1 .. Reports, udev : Device]

UsbTypeOK ==
  /\ attached \in Device /\ upc \in {"idle", "probe"} /\ claimed \in Device
  /\ receiving \in BOOLEAN /\ armed \in Device /\ owes \in BOOLEAN
  /\ devices \in Device /\ probed \in Device /\ endpointless \in Device
  /\ (receiving <=> armed # 0) /\ (armed # 0 => armed = claimed)
SessionTypeOK ==
  /\ spc \in {"wait", "send", "await", "answered", "timedout", "settle"}
  /\ step \in 1 .. FileRead /\ polls \in 0 .. MaxPolls /\ sawBurst \in BOOLEAN
  /\ serving \in Device /\ readySem \in 0 .. 1
VersionTypeOK ==
  /\ waiting \in BOOLEAN /\ versionSem \in 0 .. 1 /\ pending \in Device
  /\ mirrored \in Device /\ asked \in Device /\ slot \in Device
SendTypeOK ==
  /\ hpc \in {"off", "wait", "send"} /\ hbSem \in 0 .. 1
  /\ mutex \in Threads \cup {"none"} /\ call \in [Threads -> Call]
  /\ wire \in [from : Threads \cup {"none"}, report : 0 .. Reports]

(* Every variable has its type, and a transfer is armed only for the       *)
(* claimed device while the loop receives.                                 *)
TypeOK == UsbTypeOK /\ SessionTypeOK /\ VersionTypeOK /\ SendTypeOK

(* "sendMutex_ keeps their reports from interleaving on the wire": a later *)
(* report of a message follows its own message's report before it.         *)
WholeMessages ==
  \A t \in Threads :
    call[t].report > 1 => wire = [from |-> t, report |-> call[t].report - 1]

(* The version that a handshake mirrors is not that of a device before the *)
(* one whose probe woke it, although versionReplySem_ keeps the count of a *)
(* reply that came too late; nor of one after the device it asked.  It may *)
(* be of another than the one asked: when a device is replaced between the *)
(* late reply to the handshake before and this one's own Version READ.     *)
MirrorsOwnDevice == step > 2 => mirrored = 0 \/ (serving <= mirrored /\ mirrored <= asked)

(* on_probe() wakes the handshake before claimed_udev is set; still no     *)
(* handshake finds its device unclaimed, unless that had no IN endpoint.   *)
ServesAClaimedDevice ==
  spc # "wait" /\ serving = attached => claimed = attached \/ endpointless = attached

(* Every handshake ends, whatever is lost or fails and however busy the    *)
(* IN traffic stays; so a device probed while one is under way gets its    *)
(* own afterwards.                                                         *)
HandshakesEnd == []<>(spc = "wait") /\ []<>(serving = probed)
=============================================================================
