---------------------------- MODULE UsbLinkProofs ----------------------------
(* Safety of UsbLink for any number of devices, reports, state READs and   *)
(* polls: types, the messages on the wire, the version a handshake mirrors *)
(* and the device it finds.                                                *)
EXTENDS UsbLink, TLAPS

(* Only the device on the bus is claimed, a probe under way is of it, and  *)
(* devices are probed, and wake the handshake, in the order they come.     *)
ClaimInv ==
  /\ attached # 0 => attached = devices
  /\ claimed # 0 => claimed = attached /\ probed = attached
  /\ upc = "probe" => attached # 0 /\ probed = attached /\ claimed = 0
  /\ probed <= devices /\ serving <= probed

(* A device whose probe is over is claimed or was without an endpoint, and *)
(* no handshake is for a device whose probe is not over.                   *)
ServeInv ==
  /\ upc = "idle" /\ probed = attached => claimed = attached \/ endpointless = attached
  /\ upc = "probe" => serving < attached

(* sendMutex_ is held by the thread that is at a report, and only by it; a *)
(* message that is past its first report has its last report on the wire.  *)
LockInv ==
  /\ \A t \in Threads : call[t].state \in {"report", "transfer"} <=> mutex = t
  /\ \A t \in Threads : call[t].state \in {"none", "blocked"} => call[t].report = 1
  /\ WholeMessages

(* The handshake is where its Version READ has got it.                     *)
AwaitInv ==
  /\ call["session"].state # "none" => spc = "send"
  /\ spc \in {"await", "answered", "timedout"} => waiting /\ step = 2
  /\ waiting => step = 2 /\ spc \in {"send", "await", "answered", "timedout"}
  /\ \A t \in Threads : call[t].state = "transfer" => call[t].udev # 0

(* A reply in the mailbox or kept for the handshake is of a device between *)
(* the one that woke it and the latest - the one asked, once it is asked.  *)
ReplyInv ==
  /\ slot <= devices /\ pending <= devices
  /\ slot # 0 => serving <= slot
  /\ waiting /\ pending # 0 => serving <= pending
  /\ spc \in {"await", "answered", "timedout"} =>
       slot <= asked /\ pending <= asked /\ (owes => attached <= asked)
  /\ MirrorsOwnDevice

IInv == TypeOK /\ ClaimInv /\ ServeInv /\ LockInv /\ AwaitInv /\ ReplyInv
---------------------------------------------------------------------------
(* Who runs below whom: with the USB host thread at work no other steps,   *)
(* and with a reply in the mailbox the handshake steps only while it has   *)
(* borrowed the heartbeat's priority.                                      *)
LEMMA RunsBelow ==
  ASSUME NEW t \in {"heartbeat", "dispatcher", "session"}, MayRun(t)
  PROVE  upc = "idle"
<1>1. "usb" \in DOMAIN Priority \ {t} /\ Urgency("usb") = 0 /\ Urgency(t) \in {5, 6, 7}
  BY DEF Priority, Urgency
<1>2. ~Ready("usb")
  BY <1>1 DEF MayRun
<1> QED
  BY <1>2 DEF Ready

(* Nor does the handshake while a Version reply waits in the mailbox,      *)
(* unless it has the mutex and perhaps, with it, the heartbeat's urgency.  *)
LEMMA HandshakeRunsLast ==
  ASSUME MayRun("session"), mutex # "session"
  PROVE  slot = 0
<1>1. /\ "dispatcher" \in DOMAIN Priority \ {"session"}
      /\ Urgency("dispatcher") = 6 /\ Urgency("session") = 7
  BY DEF Priority, Urgency
<1>2. ~Ready("dispatcher")
  BY <1>1 DEF MayRun
<1> QED
  BY <1>2 DEF Ready

---------------------------------------------------------------------------
(* At boot there is no device, no thread sends and nothing is awaited.     *)
LEMMA InitHolds == Init => IInv
<1> SUFFICES ASSUME Init PROVE IInv
  OBVIOUS
<1> USE LinkAssumption DEF Init
<1>1. 0 \in Device /\ 1 \in 1 .. FileRead /\ 0 \in 0 .. MaxPolls /\ 1 \in 1 .. Reports
  BY DEF Device, FileRead, FirstStateRead
<1>2. receiving \in BOOLEAN /\ owes \in BOOLEAN /\ sawBurst \in BOOLEAN /\ waiting \in BOOLEAN
  BY Zenon
<1>3. UsbTypeOK /\ SessionTypeOK /\ VersionTypeOK
  BY <1>1, <1>2 DEF UsbTypeOK, SessionTypeOK, VersionTypeOK
<1>4. SendTypeOK
  BY <1>1 DEF SendTypeOK, Call, NoCall
<1>5. ClaimInv /\ ServeInv
  BY DEF ClaimInv, ServeInv
<1>6. LockInv
  BY DEF LockInv, WholeMessages, Threads, NoCall
<1>7. AwaitInv /\ ReplyInv
  BY DEF AwaitInv, ReplyInv, MirrorsOwnDevice, Threads, NoCall
<1> QED
  BY <1>3, <1>4, <1>5, <1>6, <1>7 DEF IInv, TypeOK

---------------------------------------------------------------------------
(* Every sendMessage() ends with Return, and the handshake's with Sent.    *)
LEMMA SentTypes ==
  ASSUME SessionTypeOK, VersionTypeOK, NEW ok \in BOOLEAN, Sent(ok)
  PROVE  /\ spc' \in {"wait", "send", "await", "answered", "timedout", "settle"}
         /\ step' \in 1 .. FileRead /\ waiting' \in BOOLEAN /\ versionSem' \in 0 .. 1
<1>1. FileRead \in Nat /\ FileRead >= 5
  BY LinkAssumption DEF FileRead, FirstStateRead
<1>2. waiting' \in BOOLEAN
  BY Zenon DEF Sent, VersionTypeOK
<1>3. CASE step = 2
  <2>1. step' \in {1, 2} /\ spc' \in {"answered", "await", "wait"} /\ versionSem' \in {0, versionSem}
    BY <1>3 DEF Sent, EndHandshake, GoTo
  <2> QED
    BY <1>1, <1>2, <2>1 DEF VersionTypeOK
<1>4. CASE step # 2
  <2>1. step' \in {1, FileRead, step + 1} /\ (step' = step + 1 => step # FileRead)
    BY <1>1, <1>4 DEF Sent, EndHandshake, GoTo, SessionTypeOK
  <2>2. spc' \in {"wait", "send", "settle"} /\ versionSem' = versionSem
    BY <1>4 DEF Sent, EndHandshake, GoTo
  <2> QED
    BY <1>1, <1>2, <2>1, <2>2 DEF SessionTypeOK, VersionTypeOK
<1> QED
  BY <1>3, <1>4

(* A send that returns to its thread keeps the types.                      *)
LEMMA ReturnTypes ==
  ASSUME TypeOK, NEW t \in Threads, NEW ok \in BOOLEAN, Return(t, ok)
  PROVE  /\ mutex' \in Threads \cup {"none"} /\ call' \in [Threads -> Call]
         /\ hpc' \in {"off", "wait", "send"}
         /\ spc' \in {"wait", "send", "await", "answered", "timedout", "settle"}
         /\ step' \in 1 .. FileRead /\ waiting' \in BOOLEAN /\ versionSem' \in 0 .. 1
<1> USE DEF TypeOK
<1>1. NoCall \in Call
  BY LinkAssumption DEF NoCall, Call, Device
<1>2. Other(t) \in Threads
  BY DEF Other, Threads
<1>3. mutex' \in Threads \cup {"none"} /\ call' \in [Threads -> Call]
  BY <1>1, <1>2 DEF Return, SendTypeOK, Call
<1>4. CASE t = "heartbeat"
  BY <1>3, <1>4 DEF Return, SessionTypeOK, VersionTypeOK
<1>5. CASE t # "heartbeat"
  BY <1>3, <1>5, SentTypes DEF Return, SendTypeOK
<1> QED
  BY <1>4, <1>5

---------------------------------------------------------------------------
(* A step that leaves the sending, or the handshake, alone keeps what is   *)
(* said of it.                                                             *)
LEMMA LockUnchanged == LockInv /\ UNCHANGED sendVars => LockInv'
  BY DEF LockInv, WholeMessages, sendVars

(* So does one that leaves the wait for the Version reply alone.           *)
LEMMA AwaitUnchanged == AwaitInv /\ UNCHANGED <<spc, step, waiting, call>> => AwaitInv'
  BY DEF AwaitInv

(* The USB host thread: a device comes, is probed, sends and goes.         *)
LEMMA UsbStep == IInv /\ Usb => IInv'
<1> SUFFICES ASSUME IInv, Usb PROVE IInv'
  OBVIOUS
<1> USE DEF IInv
<1>1. UNCHANGED usbUnchanged
  BY DEF Usb, Attach, Probe, ProbeWithoutEndpoint, Claim, Removed, ReplyIn, OtherIn
<1>2. LockInv' /\ AwaitInv' /\ SendTypeOK'
  <2>1. UNCHANGED <<sendVars, hpc, hbSem, spc, step, waiting>>
    BY <1>1 DEF usbUnchanged, sessionVars, versionVars
  <2> QED
    BY <2>1, LockUnchanged, AwaitUnchanged DEF TypeOK, SendTypeOK, sendVars
<1>3. receiving' \in BOOLEAN /\ owes' \in BOOLEAN
  <2>1. CASE Attach \/ Probe \/ ProbeWithoutEndpoint \/ Removed
    BY <2>1, Zenon DEF Attach, Probe, ProbeWithoutEndpoint, Removed, TypeOK, UsbTypeOK
  <2>2. CASE \E ok \in BOOLEAN : Claim(ok) \/ ReplyIn(ok) \/ OtherIn(ok)
    BY <2>2, Zenon DEF Claim, ReplyIn, OtherIn, TypeOK, UsbTypeOK
  <2> QED
    BY <2>1, <2>2 DEF Usb
<1> HIDE DEF IInv
<1>4. UNCHANGED <<spc, step, polls, sawBurst, serving, waiting, versionSem, pending, mirrored, asked>>
  BY <1>1 DEF usbUnchanged, sessionVars, versionVars
<1>5. CASE Attach
  <2> USE <1>4, <1>5, LinkAssumption DEF Attach, IInv
  <2>1. TypeOK'
    BY <1>2, <1>3 DEF TypeOK, UsbTypeOK, SessionTypeOK, VersionTypeOK, ClaimInv, Device
  <2>2. ClaimInv' /\ ServeInv'
    BY DEF ClaimInv, ServeInv, TypeOK, UsbTypeOK, SessionTypeOK, Device
  <2>3. ReplyInv'
    BY DEF ReplyInv, MirrorsOwnDevice, ClaimInv, TypeOK, UsbTypeOK, VersionTypeOK, Device
  <2> QED
    BY <1>2, <2>1, <2>2, <2>3
<1>6. CASE Probe
  <2> USE <1>4, <1>6 DEF Probe, IInv
  <2>1. TypeOK'
    BY <1>2, <1>3 DEF TypeOK, UsbTypeOK, SessionTypeOK, VersionTypeOK, ClaimInv, Device
  <2>2. ClaimInv' /\ ServeInv'
    BY DEF ClaimInv, ServeInv, TypeOK, UsbTypeOK, SessionTypeOK, Device
  <2>3. ReplyInv'
    BY DEF ReplyInv, MirrorsOwnDevice, ClaimInv, TypeOK, UsbTypeOK, VersionTypeOK, Device
  <2> QED
    BY <1>2, <2>1, <2>2, <2>3
<1>7. CASE ProbeWithoutEndpoint \/ \E ok \in BOOLEAN : Claim(ok)
  <2> USE <1>4, <1>7 DEF ProbeWithoutEndpoint, Claim, IInv
  <2>1. TypeOK'
    BY <1>2, <1>3 DEF TypeOK, UsbTypeOK, SessionTypeOK, VersionTypeOK, ClaimInv, Device
  <2>2. ClaimInv' /\ ServeInv'
    BY DEF ClaimInv, ServeInv, TypeOK, UsbTypeOK, SessionTypeOK, Device
  <2>3. ReplyInv'
    BY DEF ReplyInv, MirrorsOwnDevice, ClaimInv, TypeOK, UsbTypeOK, VersionTypeOK, Device
  <2> QED
    BY <1>2, <2>1, <2>2, <2>3
<1>8. CASE Removed
  <2> USE <1>4, <1>8 DEF Removed, IInv
  <2>1. TypeOK'
    BY <1>2, <1>3, LinkAssumption DEF TypeOK, UsbTypeOK, SessionTypeOK, VersionTypeOK, ClaimInv, Device
  <2>2. ClaimInv' /\ ServeInv'
    BY DEF ClaimInv, ServeInv, TypeOK, UsbTypeOK, SessionTypeOK, Device
  <2>3. ReplyInv'
    BY DEF ReplyInv, MirrorsOwnDevice, ClaimInv, TypeOK, UsbTypeOK, VersionTypeOK, Device
  <2> QED
    BY <1>2, <2>1, <2>2, <2>3
<1>9. CASE \E ok \in BOOLEAN : ReplyIn(ok) \/ OtherIn(ok)
  <2> USE <1>4, <1>9, LinkAssumption DEF ReplyIn, OtherIn, IInv
  <2>1. TypeOK'
    BY <1>2, <1>3 DEF TypeOK, UsbTypeOK, SessionTypeOK, VersionTypeOK, ClaimInv, Device
  <2>2. ClaimInv' /\ ServeInv'
    BY DEF ClaimInv, ServeInv, TypeOK, UsbTypeOK, SessionTypeOK, Device
  <2>3. ReplyInv'
    BY DEF ReplyInv, MirrorsOwnDevice, ClaimInv, TypeOK, UsbTypeOK, SessionTypeOK, VersionTypeOK, Device
  <2> QED
    BY <1>2, <2>1, <2>2, <2>3
<1> QED
  BY <1>5, <1>6, <1>7, <1>8, <1>9 DEF Usb

(* The dispatcher's worker takes a Version reply from its mailbox.         *)
LEMMA ReplyStep == IInv /\ Worker => IInv'
<1> SUFFICES ASSUME IInv, NEW usable \in BOOLEAN, Reply(usable) PROVE IInv'
  BY DEF Worker
<1> USE DEF Reply, IInv
<1>1. LockInv' /\ SendTypeOK' /\ ClaimInv' /\ ServeInv' /\ UsbTypeOK'
  <2>1. UNCHANGED <<usbVars, sendVars, hpc, hbSem, serving>>
    OBVIOUS
  <2> QED
    BY <2>1, LockUnchanged
       DEF usbVars, sendVars, TypeOK, SendTypeOK, UsbTypeOK, ClaimInv, ServeInv
<1>2. SessionTypeOK' /\ VersionTypeOK'
  <2>1. waiting' = waiting /\ sawBurst' = sawBurst /\ pending' \in {pending, slot, 0}
    OBVIOUS
  <2>2. 0 \in Device
    BY LinkAssumption DEF Device
  <2> QED
    BY <2>1, <2>2, LinkAssumption DEF TypeOK, SessionTypeOK, VersionTypeOK
<1>3. AwaitInv'
  BY DEF AwaitInv, sendVars
<1>4. ReplyInv'
  <2>1. pending' \in {pending, slot, 0} /\ (waiting => pending' \in {slot, 0}) /\ slot' = 0
    OBVIOUS
  <2>2. UNCHANGED <<serving, waiting, step, mirrored, asked, devices, owes, attached>>
    BY DEF usbVars
  <2>3. spc' \in {"await", "answered", "timedout"} => spc \in {"await", "answered", "timedout"}
    OBVIOUS
  <2> HIDE DEF Reply
  <2> QED
    BY <2>1, <2>2, <2>3, LinkAssumption
       DEF ReplyInv, MirrorsOwnDevice, TypeOK, UsbTypeOK, VersionTypeOK, Device, AwaitInv
<1> QED
  BY <1>1, <1>2, <1>3, <1>4 DEF TypeOK

(* sendMessage() of either thread, the handshake's with its Version READ   *)
(* prepared.                                                               *)
LEMMA ReturnLock ==
  ASSUME TypeOK, LockInv, NEW t \in Threads, NEW ok \in BOOLEAN, Return(t, ok),
         call[t].state \in {"report", "transfer"}
  PROVE  /\ LockInv'
         /\ \A u \in Threads : call'[u].state = "none" \/ (u # t /\ call[u].state # "none")
         /\ \A u \in Threads : call'[u].state = "transfer" => u # t /\ call'[u] = call[u]
<1> USE DEF TypeOK, SendTypeOK
<1>1. \/ t = "session" /\ Other(t) = "heartbeat"
      \/ t = "heartbeat" /\ Other(t) = "session"
  BY DEF Threads, Other
<1>2. mutex = t /\ call[Other(t)].state \in {"none", "blocked"} /\ call[Other(t)].report = 1
  BY <1>1 DEF LockInv, Threads, Call
<1>3. CASE call[Other(t)].state = "blocked"
  <2>1. mutex' = Other(t) /\ call' = [call EXCEPT ![t] = NoCall, ![Other(t)].state = "report"]
    BY <1>3 DEF Return
  <2>2. /\ call'[t] = NoCall
        /\ call'[Other(t)].state = "report" /\ call'[Other(t)].report = 1
    BY <1>1, <1>2, <2>1 DEF Threads, Call
  <2> QED
    BY <1>1, <1>3, <2>1, <2>2 DEF LockInv, WholeMessages, NoCall, Threads
<1>4. CASE call[Other(t)].state = "none"
  <2>1. mutex' = "none" /\ call' = [call EXCEPT ![t] = NoCall]
    BY <1>4 DEF Return
  <2>2. call'[t] = NoCall /\ call'[Other(t)] = call[Other(t)]
    BY <1>1, <2>1 DEF Threads
  <2> QED
    BY <1>1, <1>2, <1>4, <2>1, <2>2 DEF LockInv, WholeMessages, NoCall, Threads
<1> QED
  BY <1>2, <1>3, <1>4

(* A send that returns keeps the invariant, when only its last report has  *)
(* told the device anything.                                               *)
LEMMA ReturnKeeps ==
  ASSUME IInv, NEW t \in Threads, NEW ok \in BOOLEAN, Return(t, ok),
         call[t].state \in {"report", "transfer"}, UNCHANGED sendUnchanged,
         wire' \in [from : Threads \cup {"none"}, report : 0 .. Reports],
         IF t = "session" /\ step = 2 /\ ok
         THEN owes' = TRUE /\ asked' = attached /\ attached # 0
         ELSE UNCHANGED <<owes, asked>>,
         t = "session" => (step = 2 => waiting)
  PROVE  IInv'
<1> USE DEF IInv
<1>1. LockInv'
  BY ReturnLock
<1>2. ClaimInv' /\ ServeInv'
  BY DEF ClaimInv, ServeInv, sendUnchanged
<1>3. TypeOK'
  <2>1. owes' \in BOOLEAN /\ asked' \in Device
    BY DEF TypeOK, UsbTypeOK, VersionTypeOK
  <2> QED
    BY <2>1, ReturnTypes DEF sendUnchanged, TypeOK, UsbTypeOK, SessionTypeOK, VersionTypeOK, SendTypeOK
<1>4. CASE t = "heartbeat"
  <2>1. UNCHANGED <<spc, step, waiting, owes, asked>>
    BY <1>4 DEF Return
  <2>2. AwaitInv'
    BY <1>4, <2>1, ReturnLock DEF AwaitInv, Threads
  <2>3. ReplyInv'
    BY <2>1 DEF ReplyInv, MirrorsOwnDevice, sendUnchanged
  <2> QED
    BY <1>1, <1>2, <1>3, <2>2, <2>3
<1>5. CASE t = "session"
  <2>1. Sent(ok) /\ call'["session"].state = "none"
    BY <1>5, ReturnLock DEF Return, Threads
  <2>2. spc = "send"
    BY <1>5 DEF AwaitInv, Threads
  <2>3. CASE step = 2 /\ ok
    <3>1. spc' \in {"answered", "await"} /\ step' = 2 /\ waiting' = waiting /\ waiting
      BY <1>5, <2>1, <2>3 DEF Sent
    <3>2. AwaitInv'
      BY <1>5, <2>1, <2>3, <3>1, ReturnLock DEF AwaitInv, Threads
    <3>3. asked' = attached /\ attached = devices
      BY <1>5, <2>3 DEF ClaimInv
    <3>4. ReplyInv'
      BY <3>1, <3>3, LinkAssumption
         DEF ReplyInv, MirrorsOwnDevice, sendUnchanged, TypeOK, UsbTypeOK, VersionTypeOK, Device
    <3> QED
      BY <1>1, <1>2, <1>3, <3>2, <3>4
  <2>4. CASE step = 2 /\ ~ok
    <3>1. spc' = "wait" /\ step' = 1 /\ waiting' = FALSE /\ UNCHANGED <<owes, asked>>
      BY <2>1, <2>4 DEF Sent, EndHandshake, GoTo
    <3>2. AwaitInv'
      BY <1>5, <2>1, <2>4, <3>1, ReturnLock DEF AwaitInv, Threads
    <3>3. ReplyInv'
      BY <3>1 DEF ReplyInv, MirrorsOwnDevice, sendUnchanged
    <3> QED
      BY <1>1, <1>2, <1>3, <3>2, <3>3
  <2>5. CASE step # 2
    <3>1. /\ spc' \in {"wait", "settle", "send"} /\ UNCHANGED <<waiting, owes, asked>>
      BY <2>1, <2>5 DEF Sent, EndHandshake, GoTo
    <3>2. ~waiting
      BY <2>5 DEF AwaitInv
    <3>3. step' > 2 => step > 2
      <4>1. FileRead \in Nat /\ FileRead >= 5
        BY LinkAssumption DEF FileRead, FirstStateRead
      <4> QED
        BY <2>1, <2>5, <4>1 DEF Sent, EndHandshake, GoTo, TypeOK, SessionTypeOK
    <3>4. AwaitInv'
      BY <1>5, <2>1, <3>1, <3>2, ReturnLock DEF AwaitInv, Threads
    <3>5. ReplyInv'
      BY <3>1, <3>2, <3>3 DEF ReplyInv, MirrorsOwnDevice, sendUnchanged
    <3> QED
      BY <1>1, <1>2, <1>3, <3>4, <3>5
  <2> QED
    BY <2>3, <2>4, <2>5
<1> QED
  BY <1>4, <1>5 DEF Threads

(* What SendReport makes of a call.                                        *)
LEMMA TransferIsCall ==
  \A r \in Call, d \in Device : [r EXCEPT !.state = "transfer", !.udev = d] \in Call
BY DEF Call

(* A step of sending, by either thread.                                    *)
LEMMA SendStep ==
  ASSUME IInv, NEW t \in Threads, Send(t), t = "session" => (step = 2 => waiting)
  PROVE  IInv'
<1> USE DEF IInv
<1>1. UNCHANGED sendUnchanged
  BY DEF Send, Lock, SendReport, SendReportFails, TransferDone, TransferFails
<1>2. CASE Lock(t)
  <2>1. UNCHANGED <<usbVars, sessionVars, versionVars, slot, readySem, hpc, hbSem, wire>>
    BY <1>1, <1>2 DEF Lock, sendUnchanged, usbVars, sessionVars, versionVars
  <2>2. call[t].state = "none" /\ Sending(t)
    BY <1>2 DEF Lock
  <2>3. \/ mutex = "none" /\ mutex' = t /\ call' = [call EXCEPT ![t].state = "report"]
        \/ mutex # "none" /\ mutex' = mutex /\ call' = [call EXCEPT ![t].state = "blocked"]
    BY <1>2 DEF Lock
  <2>4. TypeOK'
    <3>1. mutex' \in Threads \cup {"none"}
      BY <2>3 DEF TypeOK, SendTypeOK
    <3>2. call' \in [Threads -> Call]
      BY <2>3 DEF TypeOK, SendTypeOK, Call
    <3> QED
      BY <2>1, <3>1, <3>2 DEF usbVars, sessionVars, versionVars, TypeOK, UsbTypeOK, SessionTypeOK,
                              VersionTypeOK, SendTypeOK
  <2>5. ClaimInv' /\ ServeInv'
    BY <2>1 DEF usbVars, sessionVars, ClaimInv, ServeInv
  <2>6. LockInv'
    BY <2>1, <2>2, <2>3 DEF LockInv, WholeMessages, TypeOK, SendTypeOK, Call, Threads
  <2>7. AwaitInv'
    BY <2>1, <2>2, <2>3 DEF AwaitInv, TypeOK, SendTypeOK, Call, Sending, sessionVars, versionVars, Threads
  <2>8. ReplyInv'
    BY <2>1 DEF usbVars, sessionVars, versionVars, ReplyInv, MirrorsOwnDevice
  <2> QED
    BY <2>4, <2>5, <2>6, <2>7, <2>8
<1>3. CASE SendReport(t)
  <2>1. UNCHANGED <<usbVars, sessionVars, versionVars, slot, readySem, hpc, hbSem, wire, mutex>>
    BY <1>1, <1>3 DEF SendReport, sendUnchanged, usbVars, sessionVars, versionVars
  <2>2. /\ call[t].state = "report" /\ claimed # 0
        /\ call' = [call EXCEPT ![t].state = "transfer", ![t].udev = claimed]
    BY <1>3 DEF SendReport
  <2>3. TypeOK'
    <3>1. call' \in [Threads -> Call]
      <4>1. call \in [Threads -> Call] /\ claimed \in Device
        BY DEF TypeOK, SendTypeOK, UsbTypeOK
      <4>2. PICK c : c = [call[t] EXCEPT !.state = "transfer", !.udev = claimed]
        OBVIOUS
      <4>3. c \in Call
        BY <4>1, <4>2, TransferIsCall
      <4>4. call' = [call EXCEPT ![t] = c]
        BY <2>2, <4>2
      <4> QED
        BY <4>1, <4>3, <4>4
    <3> QED
      BY <2>1, <3>1 DEF usbVars, sessionVars, versionVars, TypeOK, UsbTypeOK, SessionTypeOK,
                        VersionTypeOK, SendTypeOK
  <2>4. ClaimInv' /\ ServeInv'
    BY <2>1 DEF usbVars, sessionVars, ClaimInv, ServeInv
  <2>5. LockInv'
    BY <2>1, <2>2 DEF LockInv, WholeMessages, TypeOK, SendTypeOK, Call, Threads
  <2>6. AwaitInv'
    BY <2>1, <2>2 DEF AwaitInv, TypeOK, SendTypeOK, Call, sessionVars, versionVars, Threads
  <2>7. ReplyInv'
    BY <2>1 DEF usbVars, sessionVars, versionVars, ReplyInv, MirrorsOwnDevice
  <2> QED
    BY <2>3, <2>4, <2>5, <2>6, <2>7
<1>4. CASE SendReportFails(t)
  <2>1. Return(t, FALSE) /\ call[t].state = "report" /\ UNCHANGED <<owes, asked, wire>>
    BY <1>4 DEF SendReportFails
  <2> QED
    BY <1>1, <2>1, ReturnKeeps DEF TypeOK, SendTypeOK
<1>5. CASE TransferFails(t)
  <2>1. Return(t, FALSE) /\ call[t].state = "transfer" /\ UNCHANGED <<owes, asked, wire>>
    BY <1>5 DEF TransferFails
  <2> QED
    BY <1>1, <2>1, ReturnKeeps DEF TypeOK, SendTypeOK
<1>6. CASE TransferDone(t)
  <2>1. /\ call[t].state = "transfer" /\ call[t].udev = attached
        /\ wire' = [from |-> t, report |-> call[t].report]
    BY <1>6 DEF TransferDone
  <2>2. wire' \in [from : Threads \cup {"none"}, report : 0 .. Reports]
    BY <2>1, LinkAssumption DEF TypeOK, SendTypeOK, Call
  <2>3. CASE call[t].report < Reports
    <3>1. /\ call' = [call EXCEPT ![t] = [state |-> "report", report |-> @.report + 1, udev |-> 0]]
          /\ UNCHANGED <<mutex, hpc, spc, step, versionSem, waiting, owes, asked>>
      BY <1>6, <2>3 DEF TransferDone
    <3>2. TypeOK'
      BY <1>1, <2>2, <2>3, <3>1, LinkAssumption
         DEF sendUnchanged, TypeOK, UsbTypeOK, SessionTypeOK, VersionTypeOK, SendTypeOK, Call, Device
    <3>3. ClaimInv' /\ ServeInv'
      BY <1>1 DEF ClaimInv, ServeInv, sendUnchanged
    <3>4. LockInv'
      BY <2>1, <2>3, <3>1, LinkAssumption DEF LockInv, WholeMessages, TypeOK, SendTypeOK, Call, Threads
    <3>5. AwaitInv'
      BY <2>1, <3>1 DEF AwaitInv, TypeOK, SendTypeOK, Threads
    <3>6. ReplyInv'
      BY <1>1, <3>1 DEF ReplyInv, MirrorsOwnDevice, sendUnchanged
    <3> QED
      BY <3>2, <3>3, <3>4, <3>5, <3>6
  <2>4. CASE ~(call[t].report < Reports)
    <3>1. /\ Return(t, TRUE)
          /\ IF t = "session" /\ step = 2 THEN owes' = TRUE /\ asked' = attached
             ELSE UNCHANGED <<owes, asked>>
      BY <1>6, <2>4 DEF TransferDone
    <3>2. attached # 0
      BY <2>1 DEF AwaitInv
    <3> QED
      BY <1>1, <2>1, <2>2, <3>1, <3>2, ReturnKeeps
  <2> QED
    BY <2>3, <2>4
<1> QED
  BY <1>2, <1>3, <1>4, <1>5, <1>6 DEF Send

---------------------------------------------------------------------------
(* The handshake thread, its timeout, and the heartbeat's timer.           *)
LEMMA SessionStep == IInv /\ Session => IInv'
<1> SUFFICES ASSUME IInv, Session PROVE IInv'
  OBVIOUS
<1> USE DEF IInv
<1>1. CASE Wake
  <2>1. upc = "idle" /\ slot = 0
    <3>1. mutex # "session"
      BY <1>1 DEF Wake, LockInv, AwaitInv, Threads
    <3> QED
      BY <1>1, <3>1, RunsBelow, HandshakeRunsLast DEF Wake
  <2>2. UNCHANGED <<usbVars, slot, sendVars, polls, sawBurst, waiting, versionSem, pending, mirrored>>
    BY <1>1 DEF Wake, sessionUnchanged
  <2>3. /\ spc = "wait" /\ readySem' = 0 /\ spc' = "send" /\ step' = 1 /\ serving' = probed
        /\ hpc' \in {"wait", hpc} /\ hbSem' = 1 /\ asked' = 0
    BY <1>1 DEF Wake, GoTo
  <2>4. TypeOK'
    <3>1. 0 \in Device /\ 1 \in 1 .. FileRead
      BY LinkAssumption DEF Device, FileRead, FirstStateRead
    <3> QED
      BY <2>2, <2>3, <3>1 DEF TypeOK, UsbTypeOK, SessionTypeOK, VersionTypeOK, SendTypeOK, usbVars, sendVars
  <2>5. ClaimInv' /\ ServeInv'
    BY <2>1, <2>2, <2>3 DEF ClaimInv, ServeInv, usbVars, TypeOK, UsbTypeOK, Device
  <2>6. LockInv'
    BY <2>2, LockUnchanged
  <2>7. AwaitInv' /\ ReplyInv'
    BY <2>1, <2>2, <2>3 DEF AwaitInv, ReplyInv, MirrorsOwnDevice, usbVars, sendVars
  <2> QED
    BY <2>4, <2>5, <2>6, <2>7
<1>2. CASE ForgetReply
  <2>1. UNCHANGED <<usbVars, slot, sendVars, readySem, hpc, hbSem, sessionVars, versionSem, mirrored, asked>>
    BY <1>2 DEF ForgetReply, sessionUnchanged
  <2>2. spc = "send" /\ step = 2 /\ waiting' = TRUE /\ pending' = 0
    BY <1>2 DEF ForgetReply
  <2>3. TypeOK'
    <3>1. 0 \in Device
      BY LinkAssumption DEF Device
    <3> QED
      BY <2>1, <2>2, <3>1 DEF TypeOK, UsbTypeOK, SessionTypeOK, VersionTypeOK, SendTypeOK, usbVars,
                              sendVars, sessionVars
  <2>4. ClaimInv' /\ ServeInv'
    BY <2>1 DEF ClaimInv, ServeInv, usbVars, sessionVars
  <2>5. AwaitInv' /\ ReplyInv'
    BY <2>1, <2>2 DEF AwaitInv, ReplyInv, MirrorsOwnDevice, usbVars, sendVars, sessionVars, TypeOK,
                      UsbTypeOK, Device
  <2> QED
    BY <2>1, <2>3, <2>4, <2>5, LockUnchanged
<1>3. CASE SendHandshake
  BY <1>3, SendStep DEF SendHandshake, Threads
<1>4. CASE Mirror
  <2>1. UNCHANGED <<usbVars, slot, sendVars, readySem, hpc, hbSem, polls, sawBurst, serving, versionSem,
                    pending, asked>>
    BY <1>4 DEF Mirror, sessionUnchanged
  <2>2. /\ spc \in {"answered", "timedout"} /\ waiting' = FALSE /\ mirrored' \in {pending, 0}
        /\ spc' = "send" /\ step' = 3
    BY <1>4 DEF Mirror, GoTo
  <2>3. TypeOK'
    <3>1. 0 \in Device /\ 3 \in 1 .. FileRead
      BY LinkAssumption DEF Device, FileRead, FirstStateRead
    <3> QED
      BY <2>1, <2>2, <3>1 DEF TypeOK, UsbTypeOK, SessionTypeOK, VersionTypeOK, SendTypeOK, usbVars, sendVars
  <2>4. ClaimInv' /\ ServeInv'
    BY <2>1 DEF ClaimInv, ServeInv, usbVars
  <2>5. AwaitInv' /\ ReplyInv'
    BY <2>1, <2>2 DEF AwaitInv, ReplyInv, MirrorsOwnDevice, usbVars, sendVars
  <2> QED
    BY <2>1, <2>3, <2>4, <2>5, LockUnchanged
<1>5. ASSUME NEW busy \in BOOLEAN, SettlePoll(busy) PROVE IInv'
  <2>1. UNCHANGED <<usbVars, slot, sendVars, readySem, hpc, hbSem, step, serving, versionVars>>
    BY <1>5 DEF SettlePoll, settleUnchanged, sessionUnchanged
  <2>2. /\ spc = "settle" /\ spc' \in {"settle", "send"}
        /\ polls' = 0 \/ (polls' = polls + 1 /\ polls + 1 < MaxPolls)
    BY <1>5, LinkAssumption DEF SettlePoll, TypeOK, SessionTypeOK
  <2>3. sawBurst' \in BOOLEAN
    BY <1>5, Zenon DEF SettlePoll, TypeOK, SessionTypeOK
  <2>4. TypeOK'
    BY <2>1, <2>2, <2>3, LinkAssumption
       DEF TypeOK, UsbTypeOK, SessionTypeOK, VersionTypeOK, SendTypeOK, usbVars, sendVars, versionVars
  <2>5. ClaimInv' /\ ServeInv'
    BY <2>1 DEF ClaimInv, ServeInv, usbVars
  <2>6. AwaitInv' /\ ReplyInv'
    BY <2>1, <2>2 DEF AwaitInv, ReplyInv, MirrorsOwnDevice, usbVars, sendVars, versionVars
  <2> QED
    BY <2>1, <2>4, <2>5, <2>6, LockUnchanged
<1> QED
  BY <1>1, <1>2, <1>3, <1>4, <1>5 DEF Session

(* Timeouts and the heartbeat's timer.                                     *)
LEMMA TimerStep == IInv /\ (ReplyTimeout \/ TimerExpires \/ Beat \/ UNCHANGED vars) => IInv'
<1> SUFFICES ASSUME IInv, ReplyTimeout \/ TimerExpires \/ Beat \/ UNCHANGED vars PROVE IInv'
  OBVIOUS
<1> USE DEF IInv
<1>1. UNCHANGED <<usbVars, slot, sendVars, readySem, step, polls, sawBurst, serving, versionVars>>
  BY DEF ReplyTimeout, TimerExpires, Beat, vars, sessionUnchanged, sessionVars
<1>2. /\ spc' = spc \/ (spc = "await" /\ spc' = "timedout")
      /\ hpc' \in {hpc, "send"} /\ hbSem' \in {hbSem, 0, 1}
  BY DEF ReplyTimeout, TimerExpires, Beat, vars, sessionVars
<1>3. TypeOK'
  BY <1>1, <1>2 DEF TypeOK, UsbTypeOK, SessionTypeOK, VersionTypeOK, SendTypeOK, usbVars, sendVars, versionVars
<1>4. ClaimInv' /\ ServeInv'
  BY <1>1 DEF ClaimInv, ServeInv, usbVars
<1>5. AwaitInv' /\ ReplyInv'
  BY <1>1, <1>2 DEF AwaitInv, ReplyInv, MirrorsOwnDevice, usbVars, sendVars, versionVars
<1> QED
  BY <1>1, <1>3, <1>4, <1>5, LockUnchanged

(* IInv is inductive.                                                      *)
LEMMA LinkInvariant == Spec => []IInv
<1>1. IInv /\ [Next]_vars => IInv'
  <2> SUFFICES ASSUME IInv, [Next]_vars PROVE IInv'
    OBVIOUS
  <2>1. CASE Heartbeat
    BY <2>1, SendStep, TimerStep DEF Heartbeat, Threads
  <2> QED
    BY <2>1, UsbStep, ReplyStep, SessionStep, TimerStep DEF Next
<1> QED
  BY <1>1, InitHolds, PTL DEF Spec

---------------------------------------------------------------------------
(* Every variable keeps its type, and a transfer is armed only for the     *)
(* claimed device.                                                         *)
THEOREM TypeCorrect == Spec => []TypeOK
<1>1. IInv => TypeOK
  BY DEF IInv
<1> QED
  BY <1>1, LinkInvariant, PTL

(* sendMutex_: the reports of two messages never interleave on the wire,   *)
(* for any number of reports.                                              *)
THEOREM MessagesWhole == Spec => []WholeMessages
<1>1. IInv => WholeMessages
  BY DEF IInv, LockInv
<1> QED
  BY <1>1, LinkInvariant, PTL

(* runHandshake() mirrors no version of a device before the one that woke  *)
(* it, for any number of devices replaced at any moment.                   *)
THEOREM NoVersionOfBefore == Spec => []MirrorsOwnDevice
<1>1. IInv => MirrorsOwnDevice
  BY DEF IInv, ReplyInv
<1> QED
  BY <1>1, LinkInvariant, PTL

(* A handshake finds the device that woke it claimed, although on_probe()  *)
(* wakes it before claimed_udev is set: it runs below the USB host thread. *)
THEOREM FindsItsDevice == Spec => []ServesAClaimedDevice
<1>1. IInv => ServesAClaimedDevice
  BY LinkAssumption DEF IInv, ServesAClaimedDevice, ServeInv, ClaimInv, TypeOK, UsbTypeOK, SessionTypeOK, Device
<1> QED
  BY <1>1, LinkInvariant, PTL
=============================================================================
