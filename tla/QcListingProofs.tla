--------------------------- MODULE QcListingProofs --------------------------
(* What a published listing and a printed one say of the device, for any   *)
(* number of folders, connections, damaged messages and mailboxes missed:  *)
(* a folder is in the listing or the listing is flagged, the log is of a   *)
(* listing that was published, and each stream is published at most once.  *)
EXTENDS QcSessionProofs

(* The folders of a catalog or a listing, 0 for the part of a torn one.    *)
In(l) == {l.folders[k][2] : k \in DOMAIN l.folders}

FileWaits == \E w \in Workers : slot[w] # << >> /\ Head(slot[w]).command = "File"
Waiting(f) ==
  /\ f # 0
  /\ \E w \in Workers : slot[w] # << >> /\ Head(slot[w]).command = "File" /\ Head(slot[w]).folder = f

(* Something was lost of the stream under way, and it shows.               *)
Flagged == fs.failed > 0 \/ catalog.overflowed \/ \E c \in Counters : lost[c] > atStart[c]

Covered(f) == f \in In(catalog) \/ Waiting(f) \/ Flagged

(* The counters only grow.                                                 *)
Counted == \A c \in Counters : atStart[c] <= lost[c]

(* No File message is on its way when the quiet window ends: the device is *)
(* still sending, or the worker comes to it, before that.                  *)
InTime ==
  /\ fs.active /\ fs.messages > 0 /\ Underway => fs.sinceLast < Quiet
  /\ ~connected => reply = << >>
  /\ spc \in {"login", "settle", "start", "read"} => reply = << >>
  /\ spc = "read" => ~FileWaits /\ (fs.active => fs.messages = 0)
  /\ \A i \in DOMAIN reply : reply[i].command = "File" /\ reply[i].folder # 0

(* From the end of the stream to its publication, the folders of T are in  *)
(* the listing or it is flagged.                                           *)
Stages(T) ==
  /\ hpc = "assess" => IsListingIncomplete(summary, catalog.overflowed) \/ T \subseteq In(catalog)
  /\ hpc \in {"request", "copy"} => incomplete \/ T \subseteq In(catalog)
  /\ hpc = "publish" => snapshot.incomplete \/ T \subseteq In(snapshot)

coverVars == <<slot, lost, atStart, catalog, fs.failed>>

(* submit() puts the message into the slot or counts it, and takes nothing *)
(* out of a slot.                                                          *)
LEMMA SubmitSlots ==
  ASSUME UsbTypeOK, NEW w \in Workers, NEW m \in Message, Submit(w, m)
  PROVE  /\ \A v \in Workers : slot[v] # << >> => slot'[v] = slot[v]
         /\ \A v \in Workers : slot'[v] = slot[v] \/ (slot'[v] # << >> /\ Head(slot'[v]) = m)
         /\ \/ slot'[w] # << >> /\ Head(slot'[w]) = m
            \/ lost'[w] = lost[w] + 1
         /\ \A c \in Counters : lost[c] <= lost'[c]
<1>1. slot \in [Workers -> Seq(Message)] /\ lost \in [Counters -> Nat] /\ w \in Counters
  BY DEF UsbTypeOK, Counters
<1>2. CASE slot[w] = << >>
  <2>1. slot' = [slot EXCEPT ![w] = <<m>>] /\ lost' = lost
    BY <1>2 DEF Submit
  <2>2. <<m>> # << >> /\ Head(<<m>>) = m
    OBVIOUS
  <2> QED
    BY <1>1, <1>2, <2>1, <2>2
<1>3. CASE slot[w] # << >>
  <2>1. slot' = slot /\ lost' = [lost EXCEPT ![w] = @ + 1]
    BY <1>3 DEF Submit
  <2> QED
    BY <1>1, <2>1
<1> QED
  BY <1>2, <1>3

(* What waits or shows after a submission, waited or showed before or is   *)
(* the message submitted, and the other way round.                         *)
LEMMA SubmitCovers ==
  ASSUME TypeOK, Counted, NEW w \in Workers, NEW m \in Message, Submit(w, m),
         UNCHANGED <<atStart, catalog, fs>>
  PROVE  /\ \A f : Covered(f) => Covered(f)'
         /\ m.command = "File" /\ m.folder # 0 => Covered(m.folder)'
         /\ Counted'
         /\ FileWaits' => FileWaits \/ m.command = "File"
<1>1. UsbTypeOK /\ atStart \in [Counters -> Nat] /\ lost \in [Counters -> Nat] /\ w \in Counters
  BY DEF TypeOK, SessionTypeOK, UsbTypeOK, Counters
<1>2. /\ \A v \in Workers : slot[v] # << >> => slot'[v] = slot[v]
      /\ \A v \in Workers : slot'[v] = slot[v] \/ (slot'[v] # << >> /\ Head(slot'[v]) = m)
      /\ \/ slot'[w] # << >> /\ Head(slot'[w]) = m
         \/ lost'[w] = lost[w] + 1
      /\ \A c \in Counters : lost[c] <= lost'[c]
  BY <1>1, SubmitSlots
<1>3. lost' \in [Counters -> Nat]
  BY <1>1, SubmitTyped
<1>4. Counted'
  BY <1>1, <1>2, <1>3 DEF Counted
<1>5. Flagged => Flagged'
  BY <1>1, <1>2, <1>3 DEF Flagged
<1>6. \A f : Waiting(f) => Waiting(f)'
  BY <1>2 DEF Waiting
<1>7. m.command = "File" /\ m.folder # 0 => Waiting(m.folder)' \/ Flagged'
  <2>1. CASE slot'[w] # << >> /\ Head(slot'[w]) = m
    BY <2>1 DEF Waiting
  <2>2. CASE lost'[w] = lost[w] + 1
    <3>1. lost'[w] > atStart'[w]
      BY <1>1, <2>2 DEF Counted
    <3> QED
      BY <1>1, <3>1 DEF Flagged
  <2> QED
    BY <1>2, <2>1, <2>2
<1>8. \A f : f \in In(catalog) => f \in In(catalog')
  OBVIOUS
<1>9. FileWaits' => FileWaits \/ m.command = "File"
  BY <1>2 DEF FileWaits
<1> QED
  BY <1>4, <1>5, <1>6, <1>7, <1>8, <1>9 DEF Covered

(* A File message that arrives is waiting, or is counted.                  *)
LEMMA ArrivalCovers ==
  ASSUME TypeOK, Counted, NEW fate \in Fates, FileArrives(fate)
  PROVE  /\ \A f : Covered(f) => Covered(f)'
         /\ \A f : /\ fate \notin {"torn", "vanished"}
                   /\ f # 0
                   /\ f = Head(reply).folder
                   /\ Head(reply).command = "File"
                  => Covered(f)'
         /\ Counted'
<1>1. Head(reply) \in Message
  BY HeadTailProperties DEF FileArrives, TypeOK, UsbTypeOK
<1>2. PICK m \in Message : m = [Head(reply) EXCEPT !.ok = (fate # "corrupt")]
  BY <1>1 DEF Message
<1>7. m.folder = Head(reply).folder /\ m.command = Head(reply).command
  BY <1>1, <1>2 DEF Message
<1>3. UNCHANGED <<atStart, catalog, fs>>
  BY DEF FileArrives, sessionVars
<1>4. CASE fate \in {"plain", "gzip", "corrupt"}
  <2>1. PICK w \in Workers : Submit(w, m)
    <3>1. CASE fate = "plain"
      BY <1>2, <3>1 DEF FileArrives, Workers
    <3>2. CASE fate \in {"gzip", "corrupt"}
      BY <1>2, <3>2 DEF FileArrives, Workers
    <3> QED
      BY <1>4, <3>1, <3>2
  <2>2. /\ \A f : Covered(f) => Covered(f)'
        /\ m.command = "File" /\ m.folder # 0 => Covered(m.folder)'
        /\ Counted'
    BY <1>2, <1>3, <2>1, SubmitCovers
  <2> QED
    BY <1>4, <1>7, <2>2
<1>8. CASE fate = "torn"
  <2>1. PICK w \in Workers : \E t \in Torn(w, m) : Submit(w, t)
    BY <1>2, <1>8 DEF FileArrives
  <2>2. PICK t \in Torn(w, m) : Submit(w, t)
    BY <2>1
  <2>3. t \in Message
    BY <2>2, TornTyped
  <2>4. (\A f : Covered(f) => Covered(f)') /\ Counted'
    BY <1>3, <2>2, <2>3, SubmitCovers
  <2> QED
    BY <1>8, <2>4
<1>5. CASE fate = "vanished"
  <2>1. UNCHANGED <<lost, slot>>
    BY <1>5 DEF FileArrives
  <2> QED
    BY <1>3, <1>5, <2>1 DEF Covered, Counted, In, Waiting, Flagged
<1>6. CASE fate \in {"overflow", "malformed"}
  <2>1. lost' = [lost EXCEPT ![fate] = @ + 1] /\ slot' = slot /\ fate \in Counters
    BY <1>6 DEF FileArrives, Counters
  <2>2. lost \in [Counters -> Nat] /\ atStart \in [Counters -> Nat]
    BY DEF TypeOK, UsbTypeOK, SessionTypeOK
  <2>3. lost'[fate] > atStart'[fate]
    BY <1>3, <2>1, <2>2 DEF Counted
  <2>4. Flagged'
    BY <2>1, <2>3 DEF Flagged
  <2>5. Counted'
    BY <1>3, <2>1, <2>2 DEF Counted
  <2> QED
    BY <2>4, <2>5 DEF Covered
<1> QED
  BY <1>4, <1>5, <1>6, <1>8 DEF Fates

(* What a message holds is decoded into the same generation.               *)
LEMMA SameStream ==
  ASSUME NEW k \in Catalog, NEW m, NEW c \in Decoded(k, m)
  PROVE  c.generation = k.generation
  BY DecodedCases DEF AddFolder, Catalog

(* What a worker takes out of its slot is added to the catalog, overflows  *)
(* it or counts as failed, as long as the stream is active.                *)
LEMMA HandleCovers ==
  ASSUME TypeOK, NEW w \in Workers, Handle(w), fs.active
  PROVE  \A f : Covered(f) => Covered(f)'
<1> DEFINE m == Head(slot[w])
<1>1. slot \in [Workers -> Seq(Message)] /\ slot[w] # << >> /\ m \in Message
  BY HeadTailProperties DEF Handle, TypeOK, UsbTypeOK
<1>2. slot' = [slot EXCEPT ![w] = << >>] /\ UNCHANGED <<lost, atStart>>
  BY DEF Handle, usbVars, sessionVars
<1>3. catalog \in Catalog /\ fs \in Stream
  BY DEF TypeOK, SessionTypeOK
<1>4. ASSUME NEW f, Waiting(f), ~(m.command = "File" /\ m.folder = f) PROVE Waiting(f)'
  <2>1. f # 0 /\ \E v \in Workers :
                  slot[v] # << >> /\ Head(slot[v]).command = "File" /\ Head(slot[v]).folder = f
    BY <1>4 DEF Waiting
  <2>4. PICK v \in Workers : slot[v] # << >> /\ Head(slot[v]).command = "File" /\ Head(slot[v]).folder = f
    BY <2>1
  <2>2. v # w
    BY <1>4, <2>4
  <2>3. slot'[v] = slot[v]
    BY <1>1, <1>2, <2>2
  <2> QED
    BY <2>1, <2>3, <2>4 DEF Waiting
<1>5. CASE m.command # "File"
  <2>1. UNCHANGED <<fs, catalog>>
    BY <1>5 DEF Handle
  <2>2. Flagged => Flagged'
    BY <1>2, <2>1 DEF Flagged
  <2> QED
    BY <1>4, <1>5, <2>1, <2>2 DEF Covered
<1>6. CASE m.command = "File" /\ ~m.ok
  <2>1. fs' = [fs EXCEPT !.messages = @ + 1, !.sinceLast = 0, !.failed = @ + 1]
    BY <1>6 DEF Handle
  <2>2. fs'.failed > 0
    BY <1>3, <2>1 DEF Stream
  <2> QED
    BY <2>2 DEF Covered, Flagged
<1>7. CASE m.command = "File" /\ m.ok
  <2> DEFINE item == <<m.stream, m.folder>>
  <2>1. catalog' \in Decoded(catalog, m) /\ fs' = [fs EXCEPT !.messages = @ + 1, !.sinceLast = 0, !.failed = @ + 0]
    BY <1>7 DEF Handle
  <2>2. fs'.failed = fs.failed
    BY <1>3, <2>1 DEF Stream
  <2>5. CASE catalog' = catalog /\ m.folder = 0
    <3>1. \A f : Waiting(f) => Waiting(f)'
      BY <1>4, <2>5 DEF Waiting
    <3>2. Flagged => Flagged'
      BY <1>2, <2>2, <2>5 DEF Flagged
    <3> QED
      BY <2>5, <3>1, <3>2 DEF Covered
  <2>6. CASE catalog' = [catalog EXCEPT !.overflowed = TRUE]
    <3>1. catalog'.overflowed
      BY <1>3, <2>6 DEF Catalog
    <3> QED
      BY <3>1 DEF Covered, Flagged
  <2>7. \/ catalog' = catalog /\ m.folder = 0
        \/ catalog' = AddFolder(catalog, item)
        \/ catalog' = [catalog EXCEPT !.overflowed = TRUE]
    BY <2>1 DEF Decoded
  <2>3. CASE catalog' = AddFolder(catalog, item) /\ Len(catalog.folders) < Capacity
    <3>1. catalog' = [catalog EXCEPT !.folders = Append(catalog.folders, item)]
      BY <2>3 DEF AddFolder
    <3>2. catalog'.folders = Append(catalog.folders, item) /\ catalog'.overflowed = catalog.overflowed
      BY <1>3, <3>1 DEF Catalog
    <3>3. catalog.folders \in Seq(Nat \X Nat) /\ item \in Nat \X Nat /\ item[2] = m.folder
      BY <1>1, <1>3 DEF Catalog, FolderSeq, Message
    <3> HIDE DEF item, m
    <3>4. In(catalog) \subseteq In(catalog') /\ m.folder \in In(catalog')
      <4> DEFINE old == catalog.folders
                 new == catalog'.folders
      <4>1. Len(old) \in Nat /\ DOMAIN old = 1 .. Len(old)
        BY <3>3, LenProperties
      <4>2. /\ DOMAIN new = 1 .. Len(old) + 1
            /\ \A k \in 1 .. Len(old) : new[k] = old[k]
            /\ new[Len(old) + 1] = item
        BY <3>2, <3>3, AppendProperties
      <4> HIDE DEF old, new
      <4>3. In(catalog) = {old[k][2] : k \in DOMAIN old}
        BY DEF In, old
      <4>4. In(catalog') = {new[k][2] : k \in DOMAIN new}
        BY DEF In, new
      <4>5. In(catalog) \subseteq In(catalog')
        <5>1. ASSUME NEW k \in DOMAIN old PROVE k \in DOMAIN new /\ new[k] = old[k]
          BY <4>1, <4>2
        <5> QED
          BY <4>3, <4>4, <5>1
      <4>6. m.folder \in In(catalog')
        <5>1. PICK n : n = Len(old) + 1
          OBVIOUS
        <5>2. n \in DOMAIN new /\ new[n] = item
          BY <4>1, <4>2, <5>1
        <5> QED
          BY <3>3, <4>4, <5>2
      <4> QED
        BY <4>5, <4>6
    <3>5. Flagged => Flagged'
      BY <1>2, <2>2, <3>2 DEF Flagged
    <3> QED
      BY <1>4, <3>4, <3>5 DEF Covered
  <2>4. CASE catalog' = AddFolder(catalog, item) /\ ~(Len(catalog.folders) < Capacity)
    <3>1. catalog'.overflowed
      BY <1>3, <2>4 DEF AddFolder, Catalog
    <3> QED
      BY <3>1 DEF Covered, Flagged
  <2> QED
    BY <2>3, <2>4, <2>5, <2>6, <2>7
<1> QED
  BY <1>5, <1>6, <1>7

(* A step that touches neither slots, counters nor the catalog.            *)
LEMMA CoverUnchanged ==
  ASSUME UNCHANGED coverVars
  PROVE  /\ \A f : Covered(f) => Covered(f)'
         /\ Counted => Counted'
BY DEF Covered, Counted, In, Waiting, Flagged, coverVars

(* Until the next stream starts, what was received of this one stays in    *)
(* the catalog, in a mailbox or shows.                                     *)
LEMMA CoveredStays ==
  ASSUME TypeOK, Counted, [Next]_vars, ~StartStream
  PROVE  /\ fs.active => \A f : Covered(f) => Covered(f)'
         /\ Counted'
<1> USE DEF usbVars, sessionVars, heartbeatVars, printerVars
<1>1. CASE DeviceConnected \/ DeviceRemoved
  <2>1. UNCHANGED coverVars
    BY <1>1 DEF DeviceConnected, DeviceRemoved, coverVars
  <2> QED
    BY <2>1, CoverUnchanged
<1>2. CASE \E w \in Workers : OtherArrives(w)
  <2>1. PICK w \in Workers : OtherArrives(w)
    BY <1>2
  <2>2. PICK m : m = OtherMessage
    OBVIOUS
  <2>3. m \in Message
    BY <2>2 DEF OtherMessage, Message
  <2>4. Submit(w, m) /\ UNCHANGED <<atStart, catalog, fs>>
    BY <2>1, <2>2 DEF OtherArrives
  <2> QED
    BY <2>3, <2>4, SubmitCovers
<1>3. CASE Device
  <2>1. PICK fate \in Fates : FileArrives(fate)
    BY <1>3 DEF Device
  <2> QED
    BY <2>1, ArrivalCovers
<1>4. CASE \E w \in Workers : Handle(w)
  <2>1. PICK w \in Workers : Handle(w)
    BY <1>4
  <2>2. Counted'
    BY <2>1 DEF Handle, Counted
  <2> QED
    BY <2>1, <2>2, HandleCovers
<1>5. CASE TakeReady \/ Settle \/ \E ok \in BOOLEAN : SendReset(ok) \/ SendLogin(ok) \/ SendFileRead(ok)
  <2>1. UNCHANGED coverVars
    BY <1>5 DEF TakeReady, Settle, SendReset, SendLogin, SendFileRead, sessionUnchanged, coverVars
  <2> QED
    BY <2>1, CoverUnchanged
<1>6. CASE CheckTimeout
  <2>1. fs'.failed = fs.failed
    BY <1>6 DEF CheckTimeout, TypeOK, SessionTypeOK, Stream
  <2>2. UNCHANGED coverVars
    BY <1>6, <2>1 DEF CheckTimeout, heartbeatUnchanged, coverVars
  <2> QED
    BY <2>2, CoverUnchanged
<1>7. CASE Beat \/ BeatSent \/ Assess \/ RequestPrint \/ CopySnapshot \/ Publish
  <2>1. UNCHANGED coverVars
    BY <1>7 DEF Beat, BeatSent, Assess, RequestPrint, CopySnapshot, Publish, heartbeatUnchanged, coverVars
  <2> QED
    BY <2>1, CoverUnchanged
<1>8. CASE Printer
  <2>1. UNCHANGED coverVars
    BY <1>8 DEF Printer, TakeRequest, PrintHeader, PrintFolder, PrintEnd, printerUnchanged, coverVars
  <2> QED
    BY <2>1, CoverUnchanged
<1>9. CASE Tick
  <2>1. fs'.failed = fs.failed
    BY <1>9 DEF Tick, TypeOK, SessionTypeOK, Stream
  <2>2. UNCHANGED coverVars
    BY <1>9, <2>1 DEF Tick, coverVars
  <2> QED
    BY <2>2, CoverUnchanged
<1>10. CASE UNCHANGED vars
  <2>1. UNCHANGED coverVars
    BY <1>10 DEF vars, coverVars
  <2> QED
    BY <2>1, CoverUnchanged
<1> QED
  BY <1>1, <1>2, <1>3, <1>4, <1>5, <1>6, <1>7, <1>8, <1>9, <1>10 DEF Next, Usb, Session, Heartbeat

(* The counters only grow, a new stream's start included.                  *)
LEMMA CountedStays ==
  ASSUME TypeOK, Counted, [Next]_vars
  PROVE  Counted'
<1>1. CASE StartStream
  BY <1>1 DEF StartStream, sessionUnchanged, Counted, TypeOK, UsbTypeOK
<1> QED
  BY <1>1, CoveredStays

(* A File message that waits after a worker was given one of another       *)
(* command, or took one, waited before.                                    *)
LEMMA TakenFromSlot ==
  ASSUME TypeOK, NEW w \in Workers, Handle(w)
  PROVE  /\ FileWaits' => FileWaits
         /\ \/ UNCHANGED <<fs, catalog>>
            \/ FileWaits /\ fs.active /\ fs'.active /\ fs'.messages = fs.messages + 1 /\ fs'.sinceLast = 0
<1>1. slot \in [Workers -> Seq(Message)] /\ slot[w] # << >> /\ fs \in Stream
  BY DEF Handle, TypeOK, UsbTypeOK, SessionTypeOK
<1>2. slot' = [slot EXCEPT ![w] = << >>]
  BY DEF Handle
<1>3. FileWaits' => FileWaits
  BY <1>1, <1>2 DEF FileWaits
<1>4. CASE Head(slot[w]).command = "File" /\ fs.active
  <2>1. FileWaits
    BY <1>1, <1>4 DEF FileWaits
  <2>2. fs' = [fs EXCEPT !.messages = @ + 1, !.sinceLast = 0,
                         !.failed = @ + (IF Head(slot[w]).ok THEN 0 ELSE 1)]
    BY <1>4 DEF Handle
  <2>3. fs'.active = fs.active /\ fs'.messages = fs.messages + 1 /\ fs'.sinceLast = 0
    BY <1>1, <2>2 DEF Stream
  <2> QED
    BY <1>3, <1>4, <2>1, <2>3
<1>5. CASE ~(Head(slot[w]).command = "File" /\ fs.active)
  BY <1>3, <1>5 DEF Handle
<1> QED
  BY <1>4, <1>5

(* The quiet window cannot end with a File message on its way: every step  *)
(* keeps that, the arrival and the removal of a device included.           *)
LEMMA InTimeStays ==
  ASSUME TypeOK, Counted, InTime, [Next]_vars
  PROVE  InTime'
<1> USE DEF usbVars, sessionVars, heartbeatVars, printerVars
<1>0. reply \in Seq(Message) /\ fs \in Stream /\ Quiet \in Nat /\ Quiet > 0
  BY SessionAssumption DEF TypeOK, UsbTypeOK, SessionTypeOK
<1>1. CASE DeviceConnected \/ DeviceRemoved
  <2>1. UNCHANGED <<slot, fs, spc>>
    BY <1>1 DEF DeviceConnected, DeviceRemoved
  <2>2. reply' = << >>
    BY <1>1 DEF DeviceConnected, DeviceRemoved, InTime
  <2>3. FileWaits' = FileWaits
    BY <2>1 DEF FileWaits
  <2> QED
    BY <2>1, <2>2, <2>3 DEF InTime, Underway, FileWaits
<1>2. CASE \E w \in Workers : OtherArrives(w)
  <2>1. PICK w \in Workers : OtherArrives(w)
    BY <1>2
  <2>2. PICK m : m = OtherMessage
    OBVIOUS
  <2>3. m \in Message /\ m.command # "File"
    BY <2>2 DEF OtherMessage, Message
  <2>4. Submit(w, m) /\ UNCHANGED <<atStart, catalog, fs, connected, reply, spc>>
    BY <2>1, <2>2 DEF OtherArrives
  <2>5. FileWaits' => FileWaits
    BY <2>3, <2>4, SubmitCovers
  <2> QED
    BY <2>4, <2>5 DEF InTime, Underway, FileWaits
<1>3. CASE Device
  <2>1. PICK fate \in Fates : FileArrives(fate)
    BY <1>3 DEF Device
  <2>2. connected /\ reply # << >> /\ reply' = Tail(reply) /\ UNCHANGED <<connected, spc, fs>>
    BY <2>1 DEF FileArrives
  <2>3. spc \notin {"login", "settle", "start", "read"}
    BY <2>2 DEF InTime
  <2>4. fs.active /\ fs.messages > 0 => fs.sinceLast < Quiet
    BY <2>2 DEF InTime, Underway
  <2>5. \A i \in DOMAIN reply' : reply'[i].command = "File" /\ reply'[i].folder # 0
    <3>1. \A i \in DOMAIN Tail(reply) : i + 1 \in DOMAIN reply /\ Tail(reply)[i] = reply[i + 1]
      BY <1>0, <2>2
    <3> QED
      BY <2>2, <3>1 DEF InTime
  <2> QED
    BY <2>2, <2>3, <2>4, <2>5 DEF InTime
<1>4. CASE \E w \in Workers : Handle(w)
  <2>1. PICK w \in Workers : Handle(w)
    BY <1>4
  <2>2. UNCHANGED <<connected, reply, spc>>
    BY <2>1 DEF Handle
  <2>3. FileWaits' => FileWaits
    BY <2>1, TakenFromSlot
  <2>4. CASE UNCHANGED fs
    BY <2>2, <2>3, <2>4 DEF InTime, Underway, FileWaits
  <2>5. CASE FileWaits /\ fs'.sinceLast = 0
    BY <1>0, <2>2, <2>3, <2>5 DEF InTime
  <2> QED
    BY <2>1, <2>4, <2>5, TakenFromSlot
<1>5. CASE \E ok \in BOOLEAN : SendReset(ok) \/ SendLogin(ok)
  <2>1. UNCHANGED <<slot, fs, connected>> /\ (reply' = reply \/ reply' = << >>)
    BY <1>5 DEF SendReset, SendLogin, sessionUnchanged
  <2>2. FileWaits' = FileWaits
    BY <2>1 DEF FileWaits
  <2>3. spc' \in {"login", "settle", "wait"} /\ (spc' \in {"login", "settle"} => reply' = << >>)
    BY <1>5 DEF SendReset, SendLogin, InTime
  <2> QED
    BY <2>1, <2>2, <2>3 DEF InTime, Underway, FileWaits
<1>6. CASE TakeReady \/ Settle
  <2>1. UNCHANGED <<slot, fs, connected, reply>>
    BY <1>6 DEF TakeReady, Settle, sessionUnchanged
  <2>2. spc' \in {"reset", "start"} /\ (spc' = "start" => reply = << >>)
    BY <1>6 DEF TakeReady, Settle, InTime
  <2>3. FileWaits' = FileWaits
    BY <2>1 DEF FileWaits
  <2> QED
    BY <2>1, <2>2, <2>3 DEF InTime, Underway, FileWaits
<1>7. CASE StartStream
  <2>1. \A w \in Workers : slot'[w] = << >>
    BY <1>7, SessionRunsLast DEF StartStream, sessionUnchanged
  <2>2. reply' = << >> /\ fs'.messages = 0 /\ spc' = "read"
    BY <1>7 DEF StartStream, InTime
  <2> QED
    BY <2>1, <2>2 DEF InTime, FileWaits
<1>8. CASE \E ok \in BOOLEAN : SendFileRead(ok)
  <2>1. PICK ok \in BOOLEAN : SendFileRead(ok)
    BY <1>8
  <2>2. UNCHANGED <<slot, fs, connected>> /\ spc = "read" /\ spc' = "wait"
    BY <2>1 DEF SendFileRead, sessionUnchanged
  <2>3. fs.active => fs.messages = 0
    BY <2>2 DEF InTime
  <2>4. CASE ok
    <3>1. connected
      BY <2>1, <2>4 DEF SendFileRead, Sends
    <3>2. \A i \in DOMAIN reply' : reply'[i].command = "File" /\ reply'[i].folder # 0
      BY <2>1, <2>4 DEF SendFileRead
    <3> QED
      BY <2>2, <2>3, <3>1, <3>2 DEF InTime
  <2>5. CASE ~ok
    <3>1. reply' = reply
      BY <2>1, <2>5 DEF SendFileRead
    <3> QED
      BY <2>2, <2>3, <3>1 DEF InTime
  <2> QED
    BY <2>4, <2>5
<1>9. CASE CheckTimeout
  <2>1. UNCHANGED <<slot, connected, reply, spc>>
    BY <1>9 DEF CheckTimeout, heartbeatUnchanged
  <2>2. fs' = fs \/ ~fs'.active
    BY <1>0, <1>9 DEF CheckTimeout, Stream
  <2>3. FileWaits' = FileWaits
    BY <2>1 DEF FileWaits
  <2> QED
    BY <2>1, <2>2, <2>3 DEF InTime, Underway, FileWaits
<1>10. CASE Beat \/ BeatSent \/ Assess \/ RequestPrint \/ CopySnapshot \/ Publish \/ Printer \/ UNCHANGED vars
  <2>1. UNCHANGED <<slot, connected, reply, spc, fs>>
    <3>1. CASE Beat \/ BeatSent \/ Assess \/ RequestPrint \/ CopySnapshot \/ Publish
      BY <3>1 DEF Beat, BeatSent, Assess, RequestPrint, CopySnapshot, Publish, heartbeatUnchanged
    <3>2. CASE Printer
      BY <3>2 DEF Printer, TakeRequest, PrintHeader, PrintFolder, PrintEnd, printerUnchanged
    <3>3. CASE UNCHANGED vars
      BY <3>3 DEF vars
    <3> QED
      BY <1>10, <3>1, <3>2, <3>3
  <2>2. FileWaits' = FileWaits
    BY <2>1 DEF FileWaits
  <2> QED
    BY <2>1, <2>2 DEF InTime, Underway, FileWaits
<1>11. CASE Tick
  <2>1. UNCHANGED <<slot, connected, reply, spc>>
    BY <1>11 DEF Tick
  <2>2. /\ fs'.active = fs.active /\ fs'.messages = fs.messages
        /\ fs'.sinceLast = IF fs.sinceLast < Quiet THEN fs.sinceLast + 1 ELSE fs.sinceLast
    BY <1>0, <1>11 DEF Tick, Stream
  <2>3. fs.messages > 0 /\ Underway => fs.sinceLast + 1 < Quiet
    BY <1>11 DEF Tick
  <2>4. FileWaits' = FileWaits /\ Underway' = Underway
    BY <2>1 DEF FileWaits, Underway
  <2>5. fs.messages \in Nat /\ fs.sinceLast \in Nat
    BY <1>0 DEF Stream
  <2>6. fs'.active /\ fs'.messages > 0 /\ Underway' => fs'.sinceLast < Quiet
    BY <1>0, <2>2, <2>3, <2>4, <2>5
  <2> QED
    BY <2>1, <2>2, <2>4, <2>6 DEF InTime
<1> QED
  BY <1>1, <1>2, <1>3, <1>4, <1>5, <1>6, <1>7, <1>8, <1>9, <1>10, <1>11 DEF Next, Usb, Session, Heartbeat

(* Between the end of the stream and its publication nothing changes the   *)
(* catalog: only an active stream's messages do, and none is active.       *)
LEMMA StagesStay ==
  ASSUME TypeOK, SnapshotIsOfItsStream, NEW T, Stages(T), [Next]_vars, ~CheckTimeout
  PROVE  Stages(T)'
<1> USE DEF usbVars, sessionVars, heartbeatVars, printerVars
<1>1. ASSUME UNCHANGED <<hpc, summary, incomplete, snapshot, catalog>>
      PROVE  Stages(T)'
  BY <1>1 DEF Stages, IsListingIncomplete, In
<1>2. CASE Usb \/ Device
  <2>1. UNCHANGED <<hpc, summary, incomplete, snapshot, catalog>>
    BY <1>2 DEF Usb, Device, DeviceConnected, DeviceRemoved, OtherArrives, FileArrives
  <2> QED
    BY <1>1, <2>1
<1>3. CASE Printer
  <2>1. UNCHANGED <<hpc, summary, incomplete, snapshot, catalog>>
    BY <1>3 DEF Printer, TakeRequest, PrintHeader, PrintFolder, PrintEnd, printerUnchanged
  <2> QED
    BY <1>1, <2>1
<1>4. CASE Tick \/ UNCHANGED vars
  <2>1. UNCHANGED <<hpc, summary, incomplete, snapshot, catalog>>
    BY <1>4 DEF Tick, vars
  <2> QED
    BY <1>1, <2>1
<1>5. CASE \E w \in Workers : Handle(w)
  <2>1. PICK w \in Workers : Handle(w)
    BY <1>5
  <2>2. UNCHANGED <<hpc, summary, incomplete, snapshot>>
    BY <2>1 DEF Handle
  <2>3. CASE fs.active
    <3>1. hpc \notin Publishing
      BY <2>3 DEF SnapshotIsOfItsStream
    <3> QED
      BY <2>2, <3>1 DEF Stages, Publishing
  <2>4. CASE ~fs.active
    <3>1. UNCHANGED catalog
      BY <2>1, <2>4 DEF Handle
    <3> QED
      BY <1>1, <2>2, <3>1
  <2> QED
    BY <2>3, <2>4
<1>6. CASE Session
  <2>1. hpc \in {"off", "wait", "sending"}
    BY <1>6, SessionRunsLast DEF Session, TakeReady, Settle, StartStream, SendReset, SendLogin, SendFileRead
  <2>2. hpc' \in {"off", "wait", "sending"}
    BY <1>6, <2>1 DEF Session, TakeReady, Settle, StartStream, SendReset, SendLogin, SendFileRead
  <2> QED
    BY <2>2 DEF Stages
<1>7. CASE Beat \/ BeatSent \/ Publish
  <2>1. hpc' \in {"wait", "sending", "check"}
    BY <1>7 DEF Beat, BeatSent, Publish
  <2> QED
    BY <2>1 DEF Stages
<1>8. CASE Assess
  <2>1. hpc = "assess" /\ hpc' = "request" /\ incomplete' = IsListingIncomplete(summary, catalog.overflowed)
        /\ catalog' = catalog
    BY <1>8 DEF Assess
  <2>2. incomplete' \/ T \subseteq In(catalog')
    BY <2>1 DEF Stages
  <2> QED
    BY <2>1, <2>2 DEF Stages, In
<1>9. CASE RequestPrint
  <2>1. hpc = "request" /\ hpc' = "copy" /\ UNCHANGED <<incomplete, catalog>>
    BY <1>9 DEF RequestPrint
  <2> QED
    BY <2>1 DEF Stages, In
<1>10. CASE CopySnapshot
  <2>1. hpc = "copy" /\ hpc' = "publish" /\ (incomplete \/ T \subseteq In(catalog))
    BY <1>10 DEF CopySnapshot, Stages
  <2>2. snapshot' = [generation |-> catalog.generation, folders |-> catalog.folders, incomplete |-> incomplete]
    BY <1>10 DEF CopySnapshot
  <2>3. In(snapshot') = In(catalog)
    BY <2>2 DEF In
  <2>4. snapshot'.incomplete \/ T \subseteq In(snapshot')
    BY <1>10, <2>2, <2>3 DEF CopySnapshot, Stages
  <2> QED
    BY <1>10, <2>4 DEF CopySnapshot, Stages, In
<1> QED
  BY <1>2, <1>3, <1>4, <1>5, <1>6, <1>7, <1>8, <1>9, <1>10 DEF Next, Heartbeat

(* A stream ends by its overall timeout, which flags it, or in silence:    *)
(* nothing is in a mailbox, so what was received is in the catalog or      *)
(* shows in the summary.                                                   *)
LEMMA EndOfStream ==
  ASSUME TypeOK, Counted, InTime, CheckTimeout, NEW T,
         fs.active /\ QuietNow => \A f \in T : Covered(f)
  PROVE  Stages(T)'
<1>1. CASE ~(fs.active /\ (QuietNow \/ TimedOut))
  <2>1. hpc' = "wait"
    BY <1>1 DEF CheckTimeout
  <2> QED
    BY <2>1 DEF Stages
<1>2. CASE fs.active /\ (QuietNow \/ TimedOut)
  <2>1. hpc' = "assess" /\ catalog' = catalog
    BY <1>2 DEF CheckTimeout
  <2>2. summary' = [timedOut |-> TimedOut, failed |-> fs.failed,
                    lost |-> [c \in Counters |-> lost[c] - atStart[c]]]
    BY <1>2 DEF CheckTimeout
  <2>3. summary'.timedOut = TimedOut
    BY <2>2
  <2>4. summary'.failed = fs.failed /\ \A c \in Counters : summary'.lost[c] = lost[c] - atStart[c]
    BY <2>2
  <2>5. CASE TimedOut
    BY <2>1, <2>3, <2>5 DEF Stages, IsListingIncomplete
  <2>6. CASE ~TimedOut
    <3>1. fs.active /\ fs.messages > 0 /\ ~(fs.sinceLast < Quiet)
      BY <1>2, <2>6, SessionAssumption DEF QuietNow, TypeOK, SessionTypeOK, Stream
    <3>2. ~FileWaits
      BY <3>1 DEF InTime, Underway, FileWaits
    <3>3. \A f \in T : f \in In(catalog) \/ Flagged
      BY <1>2, <2>6, <3>2 DEF Covered, Waiting, FileWaits
    <3>4. CASE Flagged
      <4>1. lost \in [Counters -> Nat] /\ atStart \in [Counters -> Nat]
        BY DEF TypeOK, UsbTypeOK, SessionTypeOK
      <4>2. (\E c \in Counters : lost[c] > atStart[c]) => \E c \in Counters : summary'.lost[c] > 0
        BY <2>4, <4>1
      <4>3. IsListingIncomplete(summary', catalog'.overflowed)
        BY <2>1, <2>4, <3>4, <4>2 DEF Flagged, IsListingIncomplete
      <4> QED
        BY <2>1, <4>3 DEF Stages
    <3>5. CASE ~Flagged
      <4>1. T \subseteq In(catalog')
        BY <2>1, <3>3, <3>5
      <4> QED
        BY <2>1, <4>1 DEF Stages
    <3> QED
      BY <3>4, <3>5
  <2> QED
    BY <2>5, <2>6
<1> QED
  BY <1>1, <1>2

(* Only publishCatalog() hands a listing to the transports.                *)
LEMMA PublishedStays ==
  ASSUME [Next]_vars, ~Publish
  PROVE  published' = published
<1> USE DEF usbVars, sessionVars, heartbeatVars, printerVars
<1>1. CASE Usb \/ Device \/ Tick \/ UNCHANGED vars \/ \E w \in Workers : Handle(w)
  BY <1>1 DEF Usb, Device, DeviceConnected, DeviceRemoved, OtherArrives, FileArrives, Handle, Tick, vars
<1>2. CASE Session
  BY <1>2 DEF Session, TakeReady, Settle, StartStream, SendReset, SendLogin, SendFileRead
<1>3. CASE Heartbeat
  BY <1>3 DEF Heartbeat, Beat, BeatSent, CheckTimeout, Assess, RequestPrint, CopySnapshot
<1>4. CASE Printer
  BY <1>4 DEF Printer, TakeRequest, PrintHeader, PrintFolder, PrintEnd, printerUnchanged
<1> QED
  BY <1>1, <1>2, <1>3, <1>4 DEF Next

(* Only startStream() makes a stream active, and only it and an arrival    *)
(* change what is known of the stream.                                     *)
LEMMA StreamStays ==
  ASSUME TypeOK, [Next]_vars, ~Device, ~StartStream
  PROVE  stream' = stream /\ (fs'.active => fs.active)
<1> USE DEF usbVars, sessionVars, heartbeatVars, printerVars
<1>1. CASE Usb \/ Tick \/ UNCHANGED vars
  BY <1>1 DEF Usb, DeviceConnected, DeviceRemoved, OtherArrives, Tick, vars, TypeOK, SessionTypeOK, Stream
<1>2. CASE Session
  BY <1>2 DEF Session, TakeReady, Settle, SendReset, SendLogin, SendFileRead
<1>3. CASE Heartbeat
  BY <1>3 DEF Heartbeat, Beat, BeatSent, CheckTimeout, Assess, RequestPrint, CopySnapshot, Publish,
              heartbeatUnchanged, TypeOK, SessionTypeOK, Stream
<1>4. CASE Printer
  BY <1>4 DEF Printer, TakeRequest, PrintHeader, PrintFolder, PrintEnd, printerUnchanged
<1>5. CASE \E w \in Workers : Handle(w)
  <2>1. PICK w \in Workers : Handle(w)
    BY <1>5
  <2>2. fs' = fs \/ fs.active
    BY <2>1, TakenFromSlot
  <2> QED
    BY <2>1, <2>2 DEF Handle
<1> QED
  BY <1>1, <1>2, <1>3, <1>4, <1>5 DEF Next

(* A listing that is published without the flag has every folder of T.     *)
LEMMA PublishedHas ==
  ASSUME TypeOK, Publish, NEW T, Stages(T)
  PROVE  LET p == [listing |-> snapshot, received |-> stream.received, connection |-> stream.connection]
         IN /\ published' = Append(published, p)
            /\ DOMAIN published' = 1 .. Len(published) + 1
            /\ Len(published) \in Nat /\ DOMAIN published = 1 .. Len(published)
            /\ published'[Len(published) + 1] = p
            /\ \A i \in 1 .. Len(published) : published'[i] = published[i]
            /\ p.listing.incomplete \/ T \subseteq In(p.listing)
<1> DEFINE p == [listing |-> snapshot, received |-> stream.received, connection |-> stream.connection]
<1>1. published \in Seq([listing : Listing, received : SUBSET Nat, connection : Nat])
      /\ snapshot \in Listing /\ stream \in [connection : Nat, received : SUBSET Nat]
  BY DEF TypeOK, HeartbeatTypeOK, SessionTypeOK
<1>2. p \in [listing : Listing, received : SUBSET Nat, connection : Nat]
  BY <1>1
<1>3. published' = Append(published, p)
  BY DEF Publish
<1>4. p.listing.incomplete \/ T \subseteq In(p.listing)
  BY DEF Publish, Stages
<1>5. Len(published) \in Nat /\ DOMAIN published = 1 .. Len(published)
  BY <1>1, LenProperties
<1> HIDE DEF p
<1>6. /\ DOMAIN published' = 1 .. Len(published) + 1
      /\ published'[Len(published) + 1] = p
      /\ \A i \in 1 .. Len(published) : published'[i] = published[i]
  BY <1>1, <1>2, <1>3, AppendProperties
<1> QED
  BY <1>3, <1>4, <1>5, <1>6 DEF p

---------------------------------------------------------------------------
ReceivedCovered == fs.active => \A f \in stream.received : Covered(f)

ReceivedInv == Counted /\ InTime /\ ReceivedCovered /\ Stages(stream.received) /\ ReceivedIsListed

(* What reached the bridge whole is in the published listing, or the       *)
(* listing is flagged: no drop, overflow, failed inflate, straggler or     *)
(* unplugged device loses a folder without a word.                         *)
THEOREM ReceivedListed == SafeSpec => []ReceivedIsListed
<1>1. Init => ReceivedInv
  <2> SUFFICES ASSUME Init PROVE ReceivedInv
    OBVIOUS
  <2>1. Counted
    BY DEF Init, Counted, Zero
  <2>2. InTime
    BY DEF Init, InTime
  <2>3. ReceivedCovered /\ Stages(stream.received) /\ ReceivedIsListed
    BY DEF Init, ReceivedCovered, Stages, ReceivedIsListed
  <2> QED
    BY <2>1, <2>2, <2>3 DEF ReceivedInv
<1>2. TypeOK /\ SnapshotIsOfItsStream /\ ReceivedInv /\ [Next]_vars => ReceivedInv'
  <2> SUFFICES ASSUME TypeOK, SnapshotIsOfItsStream, ReceivedInv, [Next]_vars
               PROVE  ReceivedInv'
    OBVIOUS
  <2> USE DEF usbVars, sessionVars, heartbeatVars, printerVars
  <2>0. Counted /\ InTime /\ ReceivedCovered /\ Stages(stream.received) /\ ReceivedIsListed
    BY DEF ReceivedInv
  <2>1. Counted'
    BY <2>0, CountedStays
  <2>2. InTime'
    BY <2>0, InTimeStays
  <2>3. PICK T : T = stream.received
    OBVIOUS
  <2>4. ~Device /\ ~StartStream => stream' = stream /\ (fs'.active => fs.active)
    BY StreamStays
  <2>5. ReceivedCovered'
    <3>1. CASE StartStream
      BY <3>1 DEF StartStream, ReceivedCovered
    <3>2. CASE Device /\ fs.active
      <4>1. PICK fate \in Fates : FileArrives(fate)
        BY <3>2 DEF Device
      <4>2. Head(reply).command = "File" /\ Head(reply).folder # 0
        <5>1. reply \in Seq(Message) /\ reply # << >>
          BY <4>1 DEF FileArrives, TypeOK, UsbTypeOK
        <5>2. 1 \in DOMAIN reply /\ Head(reply) = reply[1]
          BY <5>1
        <5> QED
          BY <2>0, <5>2 DEF InTime
      <4>3. /\ \A f : Covered(f) => Covered(f)'
            /\ \A f : fate \notin {"torn", "vanished"} /\ f = Head(reply).folder => Covered(f)'
        BY <2>0, <4>1, <4>2, ArrivalCovers
      <4>4. \A f \in stream'.received :
              f \in stream.received \/ (fate \notin {"torn", "vanished"} /\ f = Head(reply).folder)
        BY <4>1 DEF FileArrives, TypeOK, SessionTypeOK
      <4>5. \A f \in stream'.received : Covered(f)'
        BY <2>0, <3>2, <4>3, <4>4 DEF ReceivedCovered
      <4> QED
        BY <4>5 DEF ReceivedCovered
    <3>3. CASE Device /\ ~fs.active
      BY <3>3 DEF Device, FileArrives, ReceivedCovered
    <3>4. CASE ~Device /\ ~StartStream
      <4>1. fs.active => \A f : Covered(f) => Covered(f)'
        BY <2>0, <3>4, CoveredStays
      <4>2. fs'.active => \A f \in stream'.received : Covered(f)'
        BY <2>0, <2>4, <3>4, <4>1 DEF ReceivedCovered
      <4> QED
        BY <4>2 DEF ReceivedCovered
    <3> QED
      BY <3>1, <3>2, <3>3, <3>4
  <2>6. Stages(stream.received)'
    <3>1. Stages(T)
      BY <2>0, <2>3
    <3>2. Stages(T)'
      <4>1. CASE CheckTimeout
        BY <2>0, <2>3, <4>1, EndOfStream DEF ReceivedCovered
      <4>2. CASE ~CheckTimeout
        BY <3>1, <4>2, StagesStay
      <4> QED
        BY <4>1, <4>2
    <3>3. CASE stream' = stream
      BY <2>3, <3>2, <3>3
    <3>4. CASE stream' # stream
      <4>1. CASE Device
        <5>1. fs.active /\ hpc' = hpc
          BY <3>4, <4>1 DEF Device, FileArrives
        <5>2. hpc' \notin Publishing
          BY <5>1 DEF SnapshotIsOfItsStream
        <5> QED
          BY <5>2 DEF Stages, Publishing
      <4>2. CASE StartStream
        BY <4>2, SessionRunsLast DEF StartStream, Stages
      <4> QED
        BY <2>4, <3>4, <4>1, <4>2
    <3> QED
      BY <3>3, <3>4
  <2>7. ReceivedIsListed'
    <3>1. CASE Publish
      <4> DEFINE p == [listing |-> snapshot, received |-> stream.received, connection |-> stream.connection]
      <4>1. /\ DOMAIN published' = 1 .. Len(published) + 1
            /\ Len(published) \in Nat /\ DOMAIN published = 1 .. Len(published)
            /\ published'[Len(published) + 1] = p
            /\ \A i \in 1 .. Len(published) : published'[i] = published[i]
            /\ p.listing.incomplete \/ stream.received \subseteq In(p.listing)
        BY <2>0, <3>1, PublishedHas
      <4>2. p.listing.incomplete \/ p.received \subseteq In(p.listing)
        BY <4>1
      <4> HIDE DEF p
      <4>3. \A i \in DOMAIN published' :
              published'[i].listing.incomplete \/ published'[i].received \subseteq In(published'[i].listing)
        BY <2>0, <4>1, <4>2 DEF ReceivedIsListed, In
      <4> QED
        BY <4>3 DEF ReceivedIsListed, In
    <3>2. CASE ~Publish
      <4>1. published' = published
        BY <3>2, PublishedStays
      <4> QED
        BY <2>0, <4>1 DEF ReceivedIsListed
    <3> QED
      BY <3>1, <3>2
  <2> QED
    BY <2>1, <2>2, <2>5, <2>6, <2>7 DEF ReceivedInv
<1>3. ReceivedInv => ReceivedIsListed
  BY DEF ReceivedInv
<1> QED
  BY <1>1, <1>2, <1>3, TypeCorrect, SnapshotOfItsStream, PTL DEF SafeSpec

---------------------------------------------------------------------------
(* A device that stays and loses no report: each folder of its reply is    *)
(* still to be sent or is covered, once the reply was asked for; a stream  *)
(* whose request failed can only end by its overall timeout.               *)
InReply(f) == \E i \in DOMAIN reply : reply[i].folder = f
Unanswered == fs.messages = 0 /\ reply = << >> /\ ~FileWaits

AllCovered == fs.active => Unanswered \/ \A f \in 1 .. Folders : Covered(f) \/ InReply(f)

(* The device is there for the whole of a handshake and its stream, so a   *)
(* handshake begins only when no stream is active.                         *)
StaysConnected ==
  /\ spc # "wait" \/ readySem = 1 \/ fs.active => connected
  /\ readySem = 1 => spc = "wait" /\ ~fs.active
  /\ fs.active => spc \in {"read", "wait"}

(* The folders are those of the device.                                    *)
FoldersReal ==
  /\ \A i \in DOMAIN reply : reply[i].folder \in 1 .. Folders
  /\ \A w \in Workers :
        slot[w] # << >> /\ Head(slot[w]).command = "File" => Head(slot[w]).folder \in 1 .. Folders
  /\ In(catalog) \subseteq 1 .. Folders
  /\ In(snapshot) \subseteq 1 .. Folders
  /\ \A i \in DOMAIN published : In(published[i].listing) \subseteq 1 .. Folders

AllListed == \A i \in DOMAIN published :
               published[i].listing.incomplete \/ 1 .. Folders \subseteq In(published[i].listing)

(* A handshake begins, and the device goes, only between two streams.      *)
LEMMA ConnectedStays ==
  ASSUME ~AnyUnplug, TypeOK, StaysConnected, [Next]_vars
  PROVE  StaysConnected'
<1> USE DEF usbVars, sessionVars, heartbeatVars, printerVars
<1>1. CASE DeviceConnected
  BY <1>1 DEF DeviceConnected, StaysConnected
<1>2. CASE DeviceRemoved
  BY <1>2 DEF DeviceRemoved, Resting, StaysConnected
<1>3. CASE Device \/ (\E w \in Workers : OtherArrives(w)) \/ Printer \/ UNCHANGED vars
  <2>1. UNCHANGED <<connected, readySem, spc, fs>>
    BY <1>3 DEF Device, FileArrives, OtherArrives, Printer, TakeRequest, PrintHeader, PrintFolder, PrintEnd,
                printerUnchanged, vars
  <2> QED
    BY <2>1 DEF StaysConnected
<1>4. CASE (\E w \in Workers : Handle(w)) \/ Heartbeat \/ Tick
  <2>1. UNCHANGED <<connected, readySem, spc>>
    BY <1>4 DEF Handle, Heartbeat, Beat, BeatSent, CheckTimeout, Assess, RequestPrint, CopySnapshot, Publish,
                heartbeatUnchanged, Tick
  <2>2. ~Device /\ ~StartStream => (fs'.active => fs.active)
    BY StreamStays
  <2>3. CASE Device \/ StartStream
    BY <1>4, <2>1, <2>3 DEF Device, FileArrives, StartStream, StaysConnected
  <2> QED
    BY <2>1, <2>2, <2>3 DEF StaysConnected
<1>5. CASE TakeReady \/ Settle
  BY <1>5 DEF TakeReady, Settle, sessionUnchanged, StaysConnected
<1>6. CASE StartStream
  BY <1>6 DEF StartStream, sessionUnchanged, StaysConnected
<1>7. CASE \E ok \in BOOLEAN : SendReset(ok) \/ SendLogin(ok) \/ SendFileRead(ok)
  <2>1. UNCHANGED <<connected, readySem, fs>> /\ spc # "wait"
    BY <1>7 DEF SendReset, SendLogin, SendFileRead, sessionUnchanged
  <2>2. spc' \in {"wait", "login", "settle"} /\ (spc' # "wait" => spc \notin {"read", "wait"})
    BY <1>7 DEF SendReset, SendLogin, SendFileRead
  <2> QED
    BY <2>1, <2>2 DEF StaysConnected
<1> QED
  BY <1>1, <1>2, <1>3, <1>4, <1>5, <1>6, <1>7 DEF Next, Usb, Session

(* The same for the mailboxes alone.                                       *)
SlotsReal == \A w \in Workers :
  slot[w] # << >> /\ Head(slot[w]).command = "File" => Head(slot[w]).folder \in 1 .. Folders

(* submit() puts the folder of its message into a mailbox and no other.    *)
LEMMA SubmitReal ==
  ASSUME TypeOK, SlotsReal, NEW w \in Workers, NEW m \in Message, Submit(w, m),
         m.command = "File" => m.folder \in 1 .. Folders
  PROVE  SlotsReal'
<1>1. \A v \in Workers : slot'[v] = slot[v] \/ (slot'[v] # << >> /\ Head(slot'[v]) = m)
  BY SubmitSlots DEF TypeOK
<1> QED
  BY <1>1 DEF SlotsReal

(* No handler makes up a folder: those in the listings are the device's.   *)
LEMMA RealStays ==
  ASSUME ~ReportLoss, TypeOK, FoldersReal, [Next]_vars
  PROVE  FoldersReal'
<1> USE DEF usbVars, sessionVars, heartbeatVars, printerVars
<1>0. /\ reply \in Seq(Message) /\ slot \in [Workers -> Seq(Message)] /\ catalog \in Catalog
      /\ published \in Seq([listing : Listing, received : SUBSET Nat, connection : Nat])
      /\ SlotsReal
  BY DEF TypeOK, UsbTypeOK, SessionTypeOK, HeartbeatTypeOK, FoldersReal, SlotsReal
<1>1. ASSUME UNCHANGED <<catalog, snapshot, published>>, SlotsReal',
             \A i \in DOMAIN reply' : reply'[i].folder \in 1 .. Folders
      PROVE  FoldersReal'
  <2>1. In(catalog') = In(catalog) /\ In(snapshot') = In(snapshot)
    BY <1>1 DEF In
  <2> QED
    BY <1>1, <2>1 DEF FoldersReal, SlotsReal
<1>2. ASSUME UNCHANGED <<catalog, snapshot, published, slot>>, reply' \in {reply, << >>}
      PROVE  FoldersReal'
  <2>1. SlotsReal'
    BY <1>0, <1>2 DEF SlotsReal
  <2>2. \A i \in DOMAIN reply' : reply'[i].folder \in 1 .. Folders
    BY <1>2 DEF FoldersReal
  <2> QED
    BY <1>1, <1>2, <2>1, <2>2
<1>3. CASE DeviceConnected \/ DeviceRemoved \/ Tick \/ UNCHANGED vars
  BY <1>2, <1>3 DEF DeviceConnected, DeviceRemoved, Tick, vars
<1>4. CASE Printer
  BY <1>2, <1>4 DEF Printer, TakeRequest, PrintHeader, PrintFolder, PrintEnd, printerUnchanged
<1>5. CASE TakeReady \/ Settle \/ \E ok \in BOOLEAN : SendReset(ok) \/ SendLogin(ok)
  BY <1>2, <1>5 DEF TakeReady, Settle, SendReset, SendLogin, sessionUnchanged
<1>6. CASE Beat \/ BeatSent \/ CheckTimeout \/ Assess \/ RequestPrint
  BY <1>2, <1>6 DEF Beat, BeatSent, CheckTimeout, Assess, RequestPrint, heartbeatUnchanged
<1>7. CASE \E w \in Workers : OtherArrives(w)
  <2>1. PICK w \in Workers : OtherArrives(w)
    BY <1>7
  <2>2. PICK m : m = OtherMessage
    OBVIOUS
  <2>3. m \in Message /\ m.command # "File"
    BY <2>2 DEF OtherMessage, Message
  <2>4. Submit(w, m) /\ UNCHANGED <<catalog, snapshot, published, reply>>
    BY <2>1, <2>2 DEF OtherArrives
  <2>5. SlotsReal'
    BY <1>0, <2>3, <2>4, SubmitReal
  <2> QED
    BY <1>1, <2>4, <2>5 DEF FoldersReal
<1>8. CASE Device
  <2>1. PICK fate \in Fates : FileArrives(fate)
    BY <1>8 DEF Device
  <2>2. reply # << >> /\ reply' = Tail(reply) /\ UNCHANGED <<catalog, snapshot, published>>
    BY <2>1 DEF FileArrives
  <2>3. \A i \in DOMAIN reply' : reply'[i].folder \in 1 .. Folders
    <3>1. \A i \in DOMAIN Tail(reply) : i + 1 \in DOMAIN reply /\ Tail(reply)[i] = reply[i + 1]
      BY <1>0, <2>2
    <3> QED
      BY <2>2, <3>1 DEF FoldersReal
  <2>4. Head(reply) \in Message /\ Head(reply).folder \in 1 .. Folders
    <3>1. 1 \in DOMAIN reply /\ Head(reply) = reply[1] /\ Head(reply) \in Message
      BY <1>0, <2>2
    <3> QED
      BY <3>1 DEF FoldersReal
  <2>5. PICK m \in Message : m = [Head(reply) EXCEPT !.ok = (fate # "corrupt")]
    BY <2>4 DEF Message
  <2>6. m.folder \in 1 .. Folders
    BY <2>4, <2>5 DEF Message
  <2>7. SlotsReal'
    <3>1. CASE fate = "plain"
      BY <1>0, <2>1, <2>5, <2>6, <3>1, SubmitReal DEF FileArrives, Workers
    <3>2. CASE fate \in {"gzip", "corrupt"}
      BY <1>0, <2>1, <2>5, <2>6, <3>2, SubmitReal DEF FileArrives, Workers
    <3>3. CASE fate \in {"overflow", "malformed"}
      BY <1>0, <2>1, <3>3 DEF FileArrives, SlotsReal
    <3>4. fate \notin {"torn", "vanished"}
      BY <2>1 DEF FileArrives
    <3> QED
      BY <3>1, <3>2, <3>3, <3>4 DEF Fates
  <2> QED
    BY <1>1, <2>2, <2>3, <2>7
<1>9. CASE \E w \in Workers : Handle(w)
  <2>1. PICK w \in Workers : Handle(w)
    BY <1>9
  <2> DEFINE m == Head(slot[w])
             item == <<m.stream, m.folder>>
  <2>2. slot[w] # << >> /\ m \in Message /\ slot' = [slot EXCEPT ![w] = << >>]
        /\ UNCHANGED <<reply, snapshot, published>>
    BY <1>0, <2>1, HeadTailProperties DEF Handle
  <2>3. SlotsReal'
    BY <1>0, <2>2 DEF SlotsReal
  <2>4. In(catalog') \subseteq 1 .. Folders
    <3>1. CASE catalog' = catalog
      BY <3>1 DEF FoldersReal, In
    <3>2. CASE catalog' # catalog
      <4>5. m.command = "File" /\ m.ok /\ catalog' \in Decoded(catalog, m)
        BY <2>1, <3>2 DEF Handle
      <4>6. m.folder \in 1 .. Folders
        BY <2>2, <4>5 DEF FoldersReal, SlotsReal
      <4>1. catalog' = AddFolder(catalog, item)
        BY <4>5, <4>6 DEF Decoded
      <4>2. item \in Nat \X Nat /\ item[2] \in 1 .. Folders
        BY <2>2, <4>6 DEF Message
      <4> HIDE DEF item
      <4>3. catalog'.folders = catalog.folders \/ catalog'.folders = Append(catalog.folders, item)
        BY <1>0, <4>1 DEF AddFolder, Catalog
      <4>4. \A k \in DOMAIN Append(catalog.folders, item) :
              \/ Append(catalog.folders, item)[k] = item
              \/ k \in DOMAIN catalog.folders /\ Append(catalog.folders, item)[k] = catalog.folders[k]
        <5>1. catalog.folders \in Seq(Nat \X Nat)
          BY <1>0 DEF Catalog, FolderSeq
        <5> QED
          BY <4>2, <5>1, AppendProperties
      <4> QED
        BY <4>2, <4>3, <4>4 DEF FoldersReal, In
    <3> QED
      BY <3>1, <3>2
  <2>5. In(snapshot') = In(snapshot)
    BY <2>2 DEF In
  <2> QED
    BY <2>2, <2>3, <2>4, <2>5 DEF FoldersReal, SlotsReal
<1>10. CASE StartStream
  <2>1. UNCHANGED <<reply, slot, snapshot, published>> /\ catalog'.folders = << >>
    BY <1>10 DEF StartStream, sessionUnchanged
  <2>2. In(catalog') = {} /\ In(snapshot') = In(snapshot)
    BY <2>1 DEF In
  <2> QED
    BY <2>1, <2>2 DEF FoldersReal
<1>11. CASE \E ok \in BOOLEAN : SendFileRead(ok)
  <2>1. PICK ok \in BOOLEAN : SendFileRead(ok)
    BY <1>11
  <2>2. UNCHANGED <<catalog, snapshot, published, slot>>
    BY <2>1 DEF SendFileRead, sessionUnchanged
  <2>3. \A i \in DOMAIN reply' : reply'[i].folder \in 1 .. Folders
    <3>1. CASE ok
      BY <2>1, <3>1 DEF SendFileRead
    <3>2. CASE ~ok
      BY <2>1, <3>2 DEF SendFileRead, FoldersReal
    <3> QED
      BY <3>1, <3>2
  <2>4. SlotsReal'
    BY <1>0, <2>2 DEF SlotsReal
  <2> QED
    BY <1>1, <2>2, <2>3, <2>4
<1>12. CASE CopySnapshot
  <2>1. UNCHANGED <<reply, slot, catalog, published>> /\ snapshot'.folders = catalog.folders
    BY <1>12 DEF CopySnapshot, heartbeatUnchanged
  <2>2. In(catalog') = In(catalog) /\ In(snapshot') = In(catalog)
    BY <2>1 DEF In
  <2> QED
    BY <2>1, <2>2 DEF FoldersReal
<1>13. CASE Publish
  <2>1. UNCHANGED <<reply, slot, catalog, snapshot>>
    BY <1>13 DEF Publish, heartbeatUnchanged
  <2>2. In(catalog') = In(catalog) /\ In(snapshot') = In(snapshot)
    BY <2>1 DEF In
  <2> DEFINE p == [listing |-> snapshot, received |-> stream.received, connection |-> stream.connection]
  <2>3. Stages({})
    BY DEF Stages
  <2>4. /\ DOMAIN published' = 1 .. Len(published) + 1
        /\ Len(published) \in Nat /\ DOMAIN published = 1 .. Len(published)
        /\ published'[Len(published) + 1] = p
        /\ \A i \in 1 .. Len(published) : published'[i] = published[i]
    BY <1>13, <2>3, PublishedHas
  <2>5. In(p.listing) \subseteq 1 .. Folders
    BY DEF FoldersReal
  <2> HIDE DEF p
  <2>6. \A i \in DOMAIN published' : In(published'[i].listing) \subseteq 1 .. Folders
    BY <2>4, <2>5 DEF FoldersReal
  <2> QED
    BY <2>1, <2>2, <2>6 DEF FoldersReal
<1> QED
  BY <1>3, <1>4, <1>5, <1>6, <1>7, <1>8, <1>9, <1>10, <1>11, <1>12, <1>13
  DEF Next, Usb, Session, Heartbeat

(* As long as the stream is active each folder of the reply is still to be *)
(* sent, waits, is in the catalog or shows - or there is no reply yet.     *)
LEMMA AllCoveredStays ==
  ASSUME ~AnyUnplug, ~ReportLoss, TypeOK, Counted, InTime, StaysConnected, AllCovered, [Next]_vars
  PROVE  AllCovered'
<1> USE DEF usbVars, sessionVars, heartbeatVars, printerVars
<1>0. reply \in Seq(Message) /\ fs \in Stream
  BY DEF TypeOK, UsbTypeOK, SessionTypeOK
<1>1. ASSUME ~StartStream, fs'.active => fs.active, reply' = reply,
             fs.active /\ Unanswered => Unanswered'
      PROVE  AllCovered'
  <2>1. fs.active => \A f : Covered(f) => Covered(f)'
    BY <1>1, CoveredStays
  <2>2. \A f : InReply(f) => InReply(f)'
    BY <1>1 DEF InReply
  <2>3. ASSUME fs'.active, ~Unanswered', NEW f \in 1 .. Folders
        PROVE  Covered(f)' \/ InReply(f)'
    BY <1>1, <2>1, <2>2, <2>3 DEF AllCovered
  <2> QED
    BY <2>3 DEF AllCovered
<1>2. ASSUME UNCHANGED <<fs, reply, slot>>, ~StartStream
      PROVE  AllCovered'
  <2>1. Unanswered => Unanswered'
    BY <1>2 DEF Unanswered, FileWaits
  <2> QED
    BY <1>1, <1>2, <2>1
<1>3. CASE StartStream
  <2>1. \A w \in Workers : slot'[w] = << >>
    BY <1>3, SessionRunsLast DEF StartStream, sessionUnchanged
  <2>2. reply' = << >> /\ fs'.messages = 0
    BY <1>3 DEF StartStream, InTime
  <2> QED
    BY <2>1, <2>2 DEF AllCovered, Unanswered, FileWaits
<1>4. CASE ~StartStream
  <2>1. CASE DeviceConnected \/ UNCHANGED vars
    BY <1>2, <1>4, <2>1 DEF DeviceConnected, vars
  <2>2. CASE DeviceRemoved
    BY <2>2 DEF DeviceRemoved, Resting, AllCovered
  <2>3. CASE Printer
    BY <1>2, <1>4, <2>3 DEF Printer, TakeRequest, PrintHeader, PrintFolder, PrintEnd, printerUnchanged
  <2>4. CASE TakeReady \/ Settle
    BY <1>2, <1>4, <2>4 DEF TakeReady, Settle, sessionUnchanged
  <2>5. CASE \E ok \in BOOLEAN : SendReset(ok) \/ SendLogin(ok)
    BY <2>5 DEF SendReset, SendLogin, StaysConnected, AllCovered
  <2>6. CASE Beat \/ BeatSent \/ Assess \/ RequestPrint \/ CopySnapshot \/ Publish
    BY <1>2, <1>4, <2>6 DEF Beat, BeatSent, Assess, RequestPrint, CopySnapshot, Publish, heartbeatUnchanged
  <2>7. CASE CheckTimeout
    <3>1. fs' = fs \/ ~fs'.active
      BY <1>0, <2>7 DEF CheckTimeout, Stream
    <3>2. CASE fs' = fs
      BY <1>2, <1>4, <2>7, <3>2 DEF CheckTimeout, heartbeatUnchanged
    <3> QED
      BY <3>1, <3>2 DEF AllCovered
  <2>8. CASE Tick
    <3>1. fs'.active = fs.active /\ fs'.messages = fs.messages /\ UNCHANGED <<reply, slot>>
      BY <1>0, <2>8 DEF Tick, Stream
    <3>2. Unanswered => Unanswered'
      BY <3>1 DEF Unanswered, FileWaits
    <3> QED
      BY <1>1, <1>4, <3>1, <3>2
  <2>9. CASE \E w \in Workers : OtherArrives(w)
    <3>1. PICK w \in Workers : OtherArrives(w)
      BY <2>9
    <3>2. PICK m : m = OtherMessage
      OBVIOUS
    <3>3. m \in Message /\ m.command # "File"
      BY <3>2 DEF OtherMessage, Message
    <3>4. Submit(w, m) /\ UNCHANGED <<atStart, catalog, fs, reply>>
      BY <3>1, <3>2 DEF OtherArrives
    <3>5. FileWaits' => FileWaits
      BY <3>3, <3>4, SubmitCovers
    <3>6. Unanswered => Unanswered'
      BY <3>4, <3>5 DEF Unanswered
    <3> QED
      BY <1>1, <1>4, <3>4, <3>6
  <2>10. CASE \E w \in Workers : Handle(w)
    <3>1. PICK w \in Workers : Handle(w)
      BY <2>10
    <3>2. reply' = reply /\ (FileWaits' => FileWaits) /\ (FileWaits \/ fs' = fs)
          /\ (fs'.active => fs.active)
      BY <3>1, TakenFromSlot DEF Handle
    <3>3. Unanswered => Unanswered'
      BY <3>2 DEF Unanswered
    <3> QED
      BY <1>1, <1>4, <3>2, <3>3
  <2>11. CASE Device
    <3>1. PICK fate \in Fates : FileArrives(fate)
      BY <2>11 DEF Device
    <3>2. reply # << >> /\ reply' = Tail(reply) /\ fs' = fs /\ fate \notin {"torn", "vanished"}
      BY <3>1 DEF FileArrives
    <3>3. 1 \in DOMAIN reply /\ Head(reply) = reply[1]
          /\ \A i \in DOMAIN reply : i # 1 => i - 1 \in DOMAIN Tail(reply) /\ Tail(reply)[i - 1] = reply[i]
      BY <1>0, <3>2
    <3>4. Head(reply).command = "File" /\ Head(reply).folder # 0
      BY <3>3 DEF InTime
    <3>5. \A f : InReply(f) => f = Head(reply).folder \/ InReply(f)'
      BY <3>2, <3>3 DEF InReply
    <3>6. /\ \A f : Covered(f) => Covered(f)'
          /\ \A f : f = Head(reply).folder => Covered(f)'
      BY <3>1, <3>2, <3>4, ArrivalCovers
    <3>7. ASSUME fs'.active, NEW f \in 1 .. Folders
          PROVE  Covered(f)' \/ InReply(f)'
      BY <3>2, <3>5, <3>6, <3>7 DEF AllCovered, Unanswered
    <3> QED
      BY <3>7 DEF AllCovered
  <2>12. CASE \E ok \in BOOLEAN : SendFileRead(ok)
    <3>1. PICK ok \in BOOLEAN : SendFileRead(ok)
      BY <2>12
    <3>2. CASE ok
      <4>1. reply' = [f \in 1 .. Folders |-> [command |-> "File", stream |-> catalog.generation,
                                              folder |-> f, ok |-> TRUE]]
        BY <3>1, <3>2 DEF SendFileRead
      <4>2. \A f \in 1 .. Folders : f \in DOMAIN reply' /\ reply'[f].folder = f
        BY <4>1
      <4>3. \A f \in 1 .. Folders : InReply(f)'
        BY <4>2 DEF InReply
      <4> QED
        BY <4>3 DEF AllCovered
    <3>3. CASE ~ok
      BY <1>2, <1>4, <3>1, <3>3 DEF SendFileRead, sessionUnchanged
    <3> QED
      BY <3>2, <3>3
  <2> QED
    BY <1>4, <2>1, <2>2, <2>3, <2>4, <2>5, <2>6, <2>7, <2>8, <2>9, <2>10, <2>11, <2>12
    DEF Next, Usb, Session, Heartbeat
<1> QED
  BY <1>3, <1>4

CompleteInv == /\ Counted /\ InTime /\ StaysConnected /\ FoldersReal
               /\ AllCovered /\ Stages(1 .. Folders) /\ AllListed

(* A listing without the flag has exactly the device's folders, as long as *)
(* the device stays for its stream and no report of it is lost: drops,     *)
(* overflows, failed inflates, failed sends and timeouts all show.         *)
THEOREM CompleteListed ==
  ASSUME ~AnyUnplug, ~ReportLoss
  PROVE  SafeSpec => []CompleteMeansAll
<1>1. Init => CompleteInv
  <2> SUFFICES ASSUME Init PROVE CompleteInv
    OBVIOUS
  <2>1. Counted
    BY DEF Init, Counted, Zero
  <2>2. InTime
    BY DEF Init, InTime
  <2>3. StaysConnected
    BY DEF Init, StaysConnected
  <2>4. FoldersReal
    BY DEF Init, FoldersReal, In
  <2>5. AllCovered /\ Stages(1 .. Folders) /\ AllListed
    BY DEF Init, AllCovered, Stages, AllListed
  <2> QED
    BY <2>1, <2>2, <2>3, <2>4, <2>5 DEF CompleteInv
<1>2. TypeOK /\ SnapshotIsOfItsStream /\ CompleteInv /\ [Next]_vars => CompleteInv'
  <2> SUFFICES ASSUME TypeOK, SnapshotIsOfItsStream, CompleteInv, [Next]_vars
               PROVE  CompleteInv'
    OBVIOUS
  <2>0. /\ Counted /\ InTime /\ StaysConnected /\ FoldersReal
        /\ AllCovered /\ Stages(1 .. Folders) /\ AllListed
    BY DEF CompleteInv
  <2>1. Counted' /\ InTime'
    BY <2>0, CountedStays, InTimeStays
  <2>2. StaysConnected' /\ FoldersReal'
    BY <2>0, ConnectedStays, RealStays
  <2>3. AllCovered'
    BY <2>0, AllCoveredStays
  <2>4. Stages(1 .. Folders)'
    <3>1. CASE CheckTimeout
      <4>1. ASSUME fs.active, QuietNow PROVE \A f \in 1 .. Folders : Covered(f)
        <5>1. fs.messages > 0 /\ ~(fs.sinceLast < Quiet)
          BY <4>1, SessionAssumption DEF QuietNow, TypeOK, SessionTypeOK, Stream
        <5>2. reply = << >>
          BY <2>0, <4>1, <5>1 DEF InTime, Underway
        <5>3. ~Unanswered
          BY <5>1, SessionAssumption DEF Unanswered, TypeOK, SessionTypeOK, Stream
        <5>4. \A f : ~InReply(f)
          BY <5>2 DEF InReply
        <5> QED
          BY <2>0, <4>1, <5>3, <5>4 DEF AllCovered
      <4> QED
        BY <2>0, <3>1, <4>1, EndOfStream
    <3>2. CASE ~CheckTimeout
      BY <2>0, <3>2, StagesStay
    <3> QED
      BY <3>1, <3>2
  <2>5. AllListed'
    <3>1. CASE Publish
      <4> DEFINE p == [listing |-> snapshot, received |-> stream.received, connection |-> stream.connection]
      <4>1. /\ DOMAIN published' = 1 .. Len(published) + 1
            /\ Len(published) \in Nat /\ DOMAIN published = 1 .. Len(published)
            /\ published'[Len(published) + 1] = p
            /\ \A i \in 1 .. Len(published) : published'[i] = published[i]
            /\ p.listing.incomplete \/ 1 .. Folders \subseteq In(p.listing)
        BY <2>0, <3>1, PublishedHas
      <4> HIDE DEF p
      <4>2. \A i \in DOMAIN published' :
              published'[i].listing.incomplete \/ 1 .. Folders \subseteq In(published'[i].listing)
        BY <2>0, <4>1 DEF AllListed
      <4> QED
        BY <4>2 DEF AllListed, In
    <3>2. CASE ~Publish
      <4>1. published' = published
        BY <3>2, PublishedStays
      <4> QED
        BY <2>0, <4>1 DEF AllListed, In
    <3> QED
      BY <3>1, <3>2
  <2> QED
    BY <2>1, <2>2, <2>3, <2>4, <2>5 DEF CompleteInv
<1>3. CompleteInv => CompleteMeansAll
  <2> SUFFICES ASSUME CompleteInv, NEW i \in DOMAIN published, ~published[i].listing.incomplete
               PROVE  In(published[i].listing) = 1 .. Folders
    BY DEF CompleteMeansAll, In
  <2> QED
    BY DEF CompleteInv, AllListed, FoldersReal
<1> QED
  BY <1>1, <1>2, <1>3, TypeCorrect, SnapshotOfItsStream, PTL DEF SafeSpec

---------------------------------------------------------------------------
(* The log.  A generation that was published is the catalog's, or older:   *)
(* until the next stream starts the catalog is what was published of it.   *)
PublishedIsCatalog ==
  \A j \in DOMAIN published :
    LET l == published[j].listing
    IN /\ l.generation <= catalog.generation
       /\ l.generation = catalog.generation => ~fs.active /\ l.folders = catalog.folders

Same(l, r) == l.generation = r.generation /\ l.incomplete = r.incomplete
Known(r) == \E j \in DOMAIN published : Same(published[j].listing, r)

(* A request that the printer can take, and the one it took, are of a      *)
(* published listing.                                                      *)
RequestKnown == printSem = 1 /\ hpc \notin {"copy", "publish"} => Known(request)
JobKnown == ppc # "wait" => Known(job)

(* The printout is of l, and its folders are l's first n.                  *)
Logs(p, l, n) ==
  /\ Same(l, p) /\ Len(p.folders) = n /\ n <= Len(l.folders)
  /\ \A k \in 1 .. n : p.folders[k] = l.folders[k]

Printing ==
  ppc = "folders" =>
    /\ Same(printed[Latest], job) /\ ~printed[Latest].whole
    /\ \E j \in DOMAIN published :
         /\ Len(published[j].listing.folders) = job.count
         /\ Logs(printed[Latest], published[j].listing, job.next - 1)

Agrees(p) ==
  \E j \in DOMAIN published :
    LET l == published[j].listing
    IN Same(p, l) /\ IF p.whole THEN p.folders = l.folders ELSE IsPrefix(p.folders, l.folders)

PrintInv == PublishedIsCatalog /\ RequestKnown /\ JobKnown /\ Printing /\ PrintedIsPublished

(* Element by element, a beginning of a list of folders.                   *)
LEMMA PrefixPointwise ==
  ASSUME NEW S, NEW s \in Seq(S), NEW t \in Seq(S), Len(s) <= Len(t),
         \A k \in 1 .. Len(s) : s[k] = t[k]
  PROVE  IsPrefix(s, t)
<1>1. SubSeq(s, 1, Len(s)) = SubSeq(t, 1, Len(s))
  OBVIOUS
<1> QED
  BY <1>1 DEF IsPrefix

(* Listings are handed over once and for all.                              *)
LEMMA PublishedGrows ==
  ASSUME TypeOK, [Next]_vars
  PROVE  \A j \in DOMAIN published : j \in DOMAIN published' /\ published'[j] = published[j]
<1>1. CASE Publish
  <2>1. Stages({})
    BY <1>1 DEF Publish, Stages
  <2>2. /\ DOMAIN published' = 1 .. Len(published) + 1
        /\ Len(published) \in Nat /\ DOMAIN published = 1 .. Len(published)
        /\ \A i \in 1 .. Len(published) : published'[i] = published[i]
    BY <1>1, <2>1, PublishedHas
  <2> QED
    BY <2>2
<1> QED
  BY <1>1, PublishedStays

(* What is said of the log stays true while the printer rests.             *)
LEMMA LogStays ==
  ASSUME TypeOK, JobKnown, Printing, PrintedIsPublished, [Next]_vars,
         UNCHANGED <<ppc, job, printed>>
  PROVE  JobKnown' /\ Printing' /\ PrintedIsPublished'
<1>1. \A j \in DOMAIN published : j \in DOMAIN published' /\ published'[j] = published[j]
  BY PublishedGrows
<1>2. JobKnown'
  BY <1>1 DEF JobKnown, Known, Same
<1>3. Printing'
  BY <1>1 DEF Printing, Logs, Same, Latest
<1>4. PrintedIsPublished'
  BY <1>1 DEF PrintedIsPublished
<1> QED
  BY <1>2, <1>3, <1>4

(* No published listing is touched by the catalog's next folder, nor by    *)
(* its next generation.                                                    *)
LEMMA CatalogStaysPublished ==
  ASSUME TypeOK, SnapshotIsOfItsStream, PublishedIsCatalog, [Next]_vars
  PROVE  PublishedIsCatalog'
<1> USE DEF usbVars, sessionVars, heartbeatVars, printerVars
<1>0. fs \in Stream /\ catalog \in Catalog
      /\ published \in Seq([listing : Listing, received : SUBSET Nat, connection : Nat])
  BY DEF TypeOK, SessionTypeOK, HeartbeatTypeOK
<1>1. ASSUME UNCHANGED <<catalog, published>>, fs'.active => fs.active
      PROVE  PublishedIsCatalog'
  BY <1>1 DEF PublishedIsCatalog
<1>2. CASE StartStream
  <2>1. published' = published /\ catalog'.generation = catalog.generation + 1
    BY <1>2 DEF StartStream
  <2>2. \A j \in DOMAIN published : published[j].listing.generation \in Nat
    <3> SUFFICES ASSUME NEW j \in DOMAIN published PROVE published[j].listing.generation \in Nat
      OBVIOUS
    <3>1. j \in 1 .. Len(published)
      BY <1>0, LenProperties
    <3>2. published[j] \in [listing : Listing, received : SUBSET Nat, connection : Nat]
      BY <1>0, <3>1, ElementOfSeq
    <3> QED
      BY <3>2 DEF Listing
  <2>3. catalog.generation \in Nat
    BY <1>0 DEF Catalog
  <2>4. \A j \in DOMAIN published' : /\ published'[j].listing.generation <= catalog'.generation
                                     /\ published'[j].listing.generation # catalog'.generation
    BY <2>1, <2>2, <2>3 DEF PublishedIsCatalog
  <2> QED
    BY <2>4 DEF PublishedIsCatalog
<1>3. CASE \E w \in Workers : Handle(w)
  <2>1. PICK w \in Workers : Handle(w)
    BY <1>3
  <2>2. published' = published
    BY <2>1 DEF Handle
  <2>3. CASE UNCHANGED <<fs, catalog>>
    BY <1>1, <2>2, <2>3
  <2>4. CASE fs.active
    <3>1. catalog'.generation = catalog.generation
      BY <1>0, <2>1, SameStream DEF Handle
    <3> QED
      BY <2>2, <2>4, <3>1 DEF PublishedIsCatalog
  <2> QED
    BY <2>1, <2>3, <2>4, TakenFromSlot
<1>4. CASE Publish
  <2>1. Stages({})
    BY <1>4 DEF Publish, Stages
  <2> DEFINE p == [listing |-> snapshot, received |-> stream.received, connection |-> stream.connection]
  <2>2. /\ DOMAIN published' = 1 .. Len(published) + 1
        /\ Len(published) \in Nat /\ DOMAIN published = 1 .. Len(published)
        /\ published'[Len(published) + 1] = p
        /\ \A i \in 1 .. Len(published) : published'[i] = published[i]
    BY <1>4, <2>1, PublishedHas
  <2>3. UNCHANGED <<fs, catalog>>
    BY <1>4 DEF Publish, heartbeatUnchanged
  <2>4. p.listing.generation = catalog.generation /\ p.listing.folders = catalog.folders /\ ~fs.active
    BY <1>4 DEF Publish, SnapshotIsOfItsStream, Publishing
  <2>5. p.listing.generation <= catalog.generation
    BY <1>0, <2>4 DEF Catalog
  <2> HIDE DEF p
  <2> QED
    BY <2>2, <2>3, <2>4, <2>5 DEF PublishedIsCatalog
<1>5. CASE Usb \/ Device \/ Tick \/ UNCHANGED vars
  <2>1. UNCHANGED <<catalog, published>> /\ (fs'.active => fs.active)
    BY <1>0, <1>5 DEF Usb, Device, DeviceConnected, DeviceRemoved, OtherArrives, FileArrives, Tick, vars,
                      Stream
  <2> QED
    BY <1>1, <2>1
<1>6. CASE TakeReady \/ Settle \/ \E ok \in BOOLEAN : SendReset(ok) \/ SendLogin(ok) \/ SendFileRead(ok)
  BY <1>1, <1>6 DEF TakeReady, Settle, SendReset, SendLogin, SendFileRead
<1>7. CASE Beat \/ BeatSent \/ CheckTimeout \/ Assess \/ RequestPrint \/ CopySnapshot
  <2>1. UNCHANGED <<catalog, published>> /\ (fs'.active => fs.active)
    BY <1>0, <1>7 DEF Beat, BeatSent, CheckTimeout, Assess, RequestPrint, CopySnapshot, Stream
  <2> QED
    BY <1>1, <2>1
<1>8. CASE Printer
  BY <1>1, <1>8 DEF Printer, TakeRequest, PrintHeader, PrintFolder, PrintEnd, printerUnchanged
<1> QED
  BY <1>2, <1>3, <1>4, <1>5, <1>6, <1>7, <1>8 DEF Next, Session, Heartbeat

(* The printer runs only while the heartbeat waits.                        *)
LEMMA PrinterRunsLast ==
  ASSUME MayRun("printer")
  PROVE  hpc \in {"off", "wait", "sending"}
<1>1. \A u \in DOMAIN Priority : Ready(u) => Priority["printer"] <= Priority[u]
  BY DEF MayRun
<1>2. ~Ready("heartbeat")
  BY <1>1 DEF Priority
<1> QED
  BY <1>2 DEF Ready, Workers

(* The header of a printout: the catalog is still the published listing.   *)
LEMMA HeaderKeeps ==
  ASSUME TypeOK, PrintInv, PrintHeader
  PROVE  JobKnown' /\ Printing' /\ PrintedIsPublished'
<1>0. /\ published' = published /\ JobKnown /\ PrintedIsPublished /\ PublishedIsCatalog /\ ppc = "header"
      /\ job \in Job /\ job.next = 1 /\ printed \in Seq(Printout) /\ catalog \in Catalog
  BY DEF PrintHeader, printerUnchanged, heartbeatVars, PrintInv, TypeOK, PrinterTypeOK, SessionTypeOK
<1>1. CASE ~SameGeneration
  <2>1. ppc' = "wait" /\ printed' = printed
    BY <1>1 DEF PrintHeader
  <2> QED
    BY <1>0, <2>1 DEF JobKnown, Printing, PrintedIsPublished
<1>2. CASE SameGeneration
  <2>1. PICK j \in DOMAIN published : Same(published[j].listing, job)
    BY <1>0 DEF JobKnown, Known
  <2>2. published[j].listing.folders = catalog.folders
    BY <1>0, <1>2, <2>1 DEF Same, SameGeneration, PublishedIsCatalog
  <2>3. PICK p : p = [generation |-> job.generation, folders |-> << >>, incomplete |-> job.incomplete,
                      whole |-> FALSE]
    OBVIOUS
  <2>4. p \in Printout
    BY <1>0, <2>3, EmptySeq DEF Printout, Job, FolderSeq
  <2>5. job' = [job EXCEPT !.count = Len(catalog.folders)] /\ printed' = Append(printed, p)
    BY <1>2, <2>3 DEF PrintHeader
  <2>6. job'.generation = job.generation /\ job'.incomplete = job.incomplete
        /\ job'.count = Len(catalog.folders) /\ job'.next = 1
    BY <1>0, <2>5 DEF Job
  <2>7. Len(printed') = Len(printed) + 1 /\ printed'[Len(printed) + 1] = p
        /\ \A i \in 1 .. Len(printed) : printed'[i] = printed[i]
    BY <1>0, <2>4, <2>5, AppendProperties
  <2>8. printed'[Latest'] = p /\ DOMAIN printed' = 1 .. Len(printed) + 1
        /\ Len(printed) \in Nat /\ DOMAIN printed = 1 .. Len(printed)
    BY <1>0, <2>4, <2>5, <2>7, AppendProperties, LenProperties DEF Latest
  <2>9. JobKnown'
    BY <1>0, <2>1, <2>6 DEF JobKnown, Known, Same
  <2>10. catalog.folders \in Seq(Nat \X Nat) /\ Len(catalog.folders) \in Nat
    BY <1>0 DEF Catalog, FolderSeq
  <2>11. Printing'
    <3>1. Logs(p, published[j].listing, 0)
      BY <2>1, <2>2, <2>3, <2>10 DEF Logs, Same
    <3>2. Same(p, job') /\ ~p.whole
      BY <2>3, <2>6 DEF Same
    <3> QED
      BY <1>0, <2>1, <2>2, <2>6, <2>8, <3>1, <3>2 DEF Printing
  <2>12. Agrees(p)
    <3>1. p.folders = << >> /\ << >> \in Seq(Nat \X Nat) /\ Len(<< >>) = 0
      BY <2>3, EmptySeq
    <3>2. Len(<< >>) <= Len(catalog.folders)
      BY <2>10, <3>1
    <3>3. \A k \in 1 .. Len(<< >>) : << >>[k] = catalog.folders[k]
      BY <3>1
    <3>4. IsPrefix(<< >>, catalog.folders)
      BY <2>10, <3>1, <3>2, <3>3, PrefixPointwise
    <3> QED
      BY <2>1, <2>2, <2>3, <3>1, <3>4 DEF Agrees, Same
  <2>13. \A i \in DOMAIN printed' : printed'[i] = p \/ (i \in DOMAIN printed /\ printed'[i] = printed[i])
    BY <2>7, <2>8
  <2>14. \A i \in DOMAIN printed : Agrees(printed[i])
    BY <1>0 DEF PrintedIsPublished, Agrees, Same
  <2>15. \A i \in DOMAIN printed' : Agrees(printed'[i])
    BY <2>12, <2>13, <2>14
  <2>16. PrintedIsPublished'
    BY <1>0, <2>15 DEF PrintedIsPublished, Agrees, Same
  <2> QED
    BY <2>9, <2>11, <2>16
<1> QED
  BY <1>1, <1>2

(* The latest printout may change, if it goes on agreeing.                 *)
LEMMA LatestAgrees ==
  ASSUME TypeOK, PrintedIsPublished, ppc = "folders", published' = published,
         NEW p \in Printout, printed' = [printed EXCEPT ![Latest] = p], Agrees(p)
  PROVE  /\ PrintedIsPublished'
         /\ printed'[Latest'] = p
<1>1. printed \in Seq(Printout) /\ printed # << >>
  BY DEF TypeOK, PrinterTypeOK
<1>2. Latest \in 1 .. Len(printed)
  BY <1>1 DEF Latest
<1>3. /\ printed' \in Seq(Printout) /\ Len(printed') = Len(printed)
      /\ \A i \in 1 .. Len(printed) : printed'[i] = IF i = Latest THEN p ELSE printed[i]
  BY <1>1, <1>2, ExceptSeq
<1>4. DOMAIN printed' = 1 .. Len(printed) /\ DOMAIN printed = 1 .. Len(printed)
  BY <1>1, <1>3, LenProperties
<1>5. \A i \in DOMAIN printed : Agrees(printed[i])
  BY DEF PrintedIsPublished, Agrees, Same
<1>6. \A i \in DOMAIN printed' : Agrees(printed'[i])
  BY <1>3, <1>4, <1>5
<1>7. PrintedIsPublished'
  BY <1>6 DEF PrintedIsPublished, Agrees, Same
<1> QED
  BY <1>2, <1>3, <1>7 DEF Latest

(* One more folder of the printout: it is read from the catalog, which is  *)
(* still the published listing, or the generation tells.                   *)
LEMMA FolderKeeps ==
  ASSUME TypeOK, PrintInv, PrintFolder
  PROVE  JobKnown' /\ Printing' /\ PrintedIsPublished'
<1>0. /\ published' = published /\ JobKnown /\ Printing /\ PrintedIsPublished /\ PublishedIsCatalog
      /\ ppc = "folders" /\ job.next <= job.count
      /\ job \in Job /\ printed \in Seq(Printout) /\ printed # << >> /\ catalog \in Catalog
      /\ published \in Seq([listing : Listing, received : SUBSET Nat, connection : Nat])
  BY DEF PrintFolder, printerUnchanged, heartbeatVars, PrintInv, TypeOK, PrinterTypeOK, SessionTypeOK,
         HeartbeatTypeOK
<1>1. CASE ~(SameGeneration /\ job.next <= Len(catalog.folders))
  <2>1. ppc' = "wait" /\ printed' = printed
    BY <1>1 DEF PrintFolder
  <2> QED
    BY <1>0, <2>1 DEF JobKnown, Printing, PrintedIsPublished
<1>2. CASE SameGeneration /\ job.next <= Len(catalog.folders)
  <2>1. PICK j \in DOMAIN published :
          /\ Len(published[j].listing.folders) = job.count
          /\ Logs(printed[Latest], published[j].listing, job.next - 1)
    BY <1>0 DEF Printing
  <2>2. Same(printed[Latest], job) /\ ~printed[Latest].whole
    BY <1>0 DEF Printing
  <2>3. Latest \in 1 .. Len(printed) /\ printed[Latest] \in Printout
    BY <1>0 DEF Latest
  <2>4. published[j].listing.folders = catalog.folders
    BY <1>0, <1>2, <2>1, <2>2 DEF Logs, Same, SameGeneration, PublishedIsCatalog
  <2>5. catalog.folders \in Seq(Nat \X Nat) /\ job.next \in Nat \ {0} /\ job.count \in Nat
    BY <1>0 DEF Catalog, FolderSeq, Job
  <2>6. PICK f : f = catalog.folders[job.next]
    OBVIOUS
  <2>7. f \in Nat \X Nat
    BY <1>2, <2>5, <2>6
  <2>8. PICK old \in Printout : old = printed[Latest]
    BY <2>3
  <2>9. PICK p : p = [old EXCEPT !.folders = Append(old.folders, f)]
    OBVIOUS
  <2>10. old.folders \in Seq(Nat \X Nat) /\ Append(old.folders, f) \in Seq(Nat \X Nat)
    BY <2>7, <2>8, AppendProperties DEF Printout, FolderSeq
  <2>11. /\ p \in Printout /\ p.folders = Append(old.folders, f)
         /\ p.generation = old.generation /\ p.incomplete = old.incomplete /\ p.whole = old.whole
    BY <2>8, <2>9, <2>10 DEF Printout, FolderSeq
  <2>12. printed' = [printed EXCEPT ![Latest] = p]
    <3>1. printed' = [printed EXCEPT ![Latest].folders = Append(@, catalog.folders[job.next])]
      BY <1>2 DEF PrintFolder
    <3> QED
      BY <1>0, <2>3, <2>6, <2>8, <2>9, <3>1
  <2>13. job' = [job EXCEPT !.next = job.next + 1]
    BY <1>2 DEF PrintFolder
  <2>14. job'.generation = job.generation /\ job'.incomplete = job.incomplete
         /\ job'.count = job.count /\ job'.next = job.next + 1
    BY <1>0, <2>13 DEF Job
  <2>15. /\ Len(p.folders) = job.next
         /\ \A k \in 1 .. job.next - 1 : p.folders[k] = old.folders[k]
         /\ p.folders[job.next] = f
    <3>1. Len(old.folders) = job.next - 1
      BY <2>1, <2>8 DEF Logs
    <3>2. /\ Len(Append(old.folders, f)) = Len(old.folders) + 1
          /\ \A k \in 1 .. Len(old.folders) : Append(old.folders, f)[k] = old.folders[k]
          /\ Append(old.folders, f)[Len(old.folders) + 1] = f
      BY <2>7, <2>10, AppendProperties
    <3> QED
      BY <2>5, <2>11, <3>1, <3>2
  <2>16. Logs(p, published[j].listing, job.next)
    <3>1. \A k \in 1 .. job.next : p.folders[k] = published[j].listing.folders[k]
      <4>1. \A k \in 1 .. job.next - 1 : old.folders[k] = published[j].listing.folders[k]
        BY <2>1, <2>8 DEF Logs
      <4>2. \A k \in 1 .. job.next : k = job.next \/ k \in 1 .. job.next - 1
        BY <2>5
      <4> QED
        BY <2>4, <2>6, <2>15, <4>1, <4>2
    <3>2. Same(published[j].listing, p)
      BY <2>1, <2>8, <2>11 DEF Logs, Same
    <3> QED
      BY <1>2, <2>4, <2>15, <3>1, <3>2 DEF Logs
  <2>17. Agrees(p)
    <3>1. ~p.whole
      BY <2>2, <2>8, <2>11
    <3>2. PICK s : s = p.folders
      OBVIOUS
    <3>3. s \in Seq(Nat \X Nat) /\ Len(s) = job.next /\ Len(s) <= Len(catalog.folders)
      BY <1>2, <2>10, <2>11, <2>15, <3>2
    <3>4. \A k \in 1 .. Len(s) : s[k] = catalog.folders[k]
      BY <2>4, <2>16, <3>2, <3>3 DEF Logs
    <3>5. IsPrefix(s, catalog.folders)
      BY <2>5, <3>3, <3>4, PrefixPointwise
    <3> QED
      BY <2>4, <2>16, <3>1, <3>2, <3>5 DEF Agrees, Logs, Same
  <2>18. PrintedIsPublished' /\ printed'[Latest'] = p
    BY <1>0, <2>11, <2>12, <2>17, LatestAgrees
  <2>19. JobKnown'
    BY <1>0, <2>14 DEF JobKnown, Known, Same
  <2>20. Printing'
    <3>1. Same(p, job') /\ ~p.whole
      BY <2>2, <2>8, <2>11, <2>14 DEF Same
    <3>2. job'.next - 1 = job.next
      BY <2>5, <2>14
    <3> QED
      BY <1>0, <2>1, <2>14, <2>16, <2>18, <3>1, <3>2 DEF Printing
  <2> QED
    BY <2>18, <2>19, <2>20
<1> QED
  BY <1>1, <1>2

(* The end of a printout: as many folders as were counted are logged.      *)
LEMMA EndKeeps ==
  ASSUME TypeOK, PrintInv, PrintEnd
  PROVE  JobKnown' /\ Printing' /\ PrintedIsPublished'
<1>0. /\ published' = published /\ JobKnown /\ Printing /\ PrintedIsPublished
      /\ ppc = "folders" /\ ppc' = "wait" /\ job.next > job.count /\ job.next <= job.count + 1
      /\ job \in Job /\ printed \in Seq(Printout) /\ printed # << >>
      /\ published \in Seq([listing : Listing, received : SUBSET Nat, connection : Nat])
  BY DEF PrintEnd, printerUnchanged, heartbeatVars, PrintInv, TypeOK, PrinterTypeOK, HeartbeatTypeOK
<1>1. PICK j \in DOMAIN published :
        /\ Len(published[j].listing.folders) = job.count
        /\ Logs(printed[Latest], published[j].listing, job.next - 1)
  BY <1>0 DEF Printing
<1>2. Latest \in 1 .. Len(printed) /\ printed[Latest] \in Printout
  BY <1>0 DEF Latest
<1>3. PICK old \in Printout : old = printed[Latest]
  BY <1>2
<1>4. PICK p : p = [old EXCEPT !.whole = TRUE]
  OBVIOUS
<1>5. p \in Printout /\ p.folders = old.folders /\ p.generation = old.generation
      /\ p.incomplete = old.incomplete /\ p.whole = TRUE
  BY <1>3, <1>4 DEF Printout
<1>6. printed' = [printed EXCEPT ![Latest] = p]
  <2>1. printed' = [printed EXCEPT ![Latest].whole = TRUE]
    BY DEF PrintEnd
  <2> QED
    BY <1>0, <1>2, <1>3, <1>4, <2>1
<1>7. p.folders = published[j].listing.folders
  <2>1. published[j].listing.folders \in Seq(Nat \X Nat)
    <3>1. j \in 1 .. Len(published)
      BY <1>0, LenProperties
    <3>2. published[j] \in [listing : Listing, received : SUBSET Nat, connection : Nat]
      BY <1>0, <3>1, ElementOfSeq
    <3> QED
      BY <3>2 DEF Listing, FolderSeq
  <2>2. old.folders \in Seq(Nat \X Nat) /\ job.next \in Nat /\ job.count \in Nat
    BY <1>0, <1>3 DEF Printout, FolderSeq, Job
  <2>3. job.next - 1 = job.count
    <3>1. PICK n \in Nat, c \in Nat : n = job.next /\ c = job.count
      BY <2>2
    <3>2. n > c /\ n <= c + 1
      BY <1>0, <3>1
    <3>3. n - 1 = c
      BY <3>2
    <3> QED
      BY <3>1, <3>3
  <2>4. Len(old.folders) = job.count
        /\ \A k \in 1 .. job.count : old.folders[k] = published[j].listing.folders[k]
    BY <1>1, <1>3, <2>3 DEF Logs
  <2> QED
    BY <1>1, <1>5, <2>1, <2>2, <2>4, SeqEqual
<1>8. Agrees(p)
  BY <1>1, <1>3, <1>5, <1>7 DEF Agrees, Logs, Same
<1>9. PrintedIsPublished'
  BY <1>0, <1>5, <1>6, <1>8, LatestAgrees
<1> QED
  BY <1>0, <1>9 DEF JobKnown, Printing

(* What the printer logs is the beginning of a listing that was published, *)
(* and all of it at its end, whatever a reconnect does to the catalog      *)
(* between two folders.                                                    *)
THEOREM PrintedPublished == SafeSpec => []PrintedIsPublished
<1>1. Init => PrintInv
  <2> SUFFICES ASSUME Init PROVE PrintInv
    OBVIOUS
  <2>1. PublishedIsCatalog /\ PrintedIsPublished
    BY DEF Init, PublishedIsCatalog, PrintedIsPublished
  <2>2. RequestKnown /\ JobKnown /\ Printing
    BY DEF Init, RequestKnown, JobKnown, Printing
  <2> QED
    BY <2>1, <2>2 DEF PrintInv
<1>2. TypeOK /\ SnapshotIsOfItsStream /\ PrintInv /\ [Next]_vars => PrintInv'
  <2> SUFFICES ASSUME TypeOK, SnapshotIsOfItsStream, PrintInv, [Next]_vars
               PROVE  PrintInv'
    OBVIOUS
  <2> USE DEF usbVars, sessionVars, heartbeatVars, printerVars
  <2>0. PublishedIsCatalog /\ RequestKnown /\ JobKnown /\ Printing /\ PrintedIsPublished
    BY DEF PrintInv
  <2>1. PublishedIsCatalog'
    BY <2>0, CatalogStaysPublished
  <2>2. \A j \in DOMAIN published : j \in DOMAIN published' /\ published'[j] = published[j]
    BY PublishedGrows
  <2>3. CASE Printer
    <3>1. hpc' = hpc /\ request' = request /\ published' = published /\ hpc \in {"off", "wait", "sending"}
      BY <2>3, PrinterRunsLast DEF Printer, TakeRequest, PrintHeader, PrintFolder, PrintEnd, printerUnchanged
    <3>2. printSem' = printSem \/ printSem' = 0
      BY <2>3 DEF Printer, TakeRequest, PrintHeader, PrintFolder, PrintEnd
    <3>3. RequestKnown'
      BY <2>0, <3>1, <3>2 DEF RequestKnown, Known, Same
    <3>4. JobKnown' /\ Printing' /\ PrintedIsPublished'
      <4>1. CASE TakeRequest
        <5>1. Known(request)
          BY <2>0, <3>1, <4>1 DEF TakeRequest, RequestKnown
        <5>2. job'.generation = request.generation /\ job'.incomplete = request.incomplete
              /\ ppc' = "header" /\ printed' = printed
          BY <4>1 DEF TakeRequest
        <5>3. JobKnown'
          BY <3>1, <5>1, <5>2 DEF JobKnown, Known, Same
        <5>4. PrintedIsPublished'
          BY <2>0, <3>1, <5>2 DEF PrintedIsPublished
        <5> QED
          BY <5>2, <5>3, <5>4 DEF Printing
      <4> QED
        BY <2>3, <4>1, HeaderKeeps, FolderKeeps, EndKeeps DEF Printer
    <3> QED
      BY <2>1, <3>3, <3>4 DEF PrintInv
  <2>4. CASE ~Printer
    <3>1. UNCHANGED <<ppc, job, printed>>
      <4>1. CASE Usb \/ Device \/ Tick \/ UNCHANGED vars
        BY <4>1 DEF Usb, Device, DeviceConnected, DeviceRemoved, OtherArrives, FileArrives, Tick, vars
      <4>2. CASE Session \/ \E w \in Workers : Handle(w)
        BY <4>2 DEF Session, TakeReady, Settle, StartStream, SendReset, SendLogin, SendFileRead,
                    sessionUnchanged, Handle
      <4>3. CASE Heartbeat
        BY <4>3 DEF Heartbeat, Beat, BeatSent, CheckTimeout, Assess, RequestPrint, CopySnapshot, Publish,
                    heartbeatUnchanged
      <4> QED
        BY <2>4, <4>1, <4>2, <4>3 DEF Next
    <3>2. JobKnown' /\ Printing' /\ PrintedIsPublished'
      BY <2>0, <3>1, LogStays
    <3>3. RequestKnown'
      <4>1. CASE RequestPrint
        BY <4>1 DEF RequestPrint, RequestKnown
      <4>2. CASE CopySnapshot
        BY <4>2 DEF CopySnapshot, RequestKnown
      <4>3. CASE Publish
        <5> DEFINE p == [listing |-> snapshot, received |-> stream.received,
                         connection |-> stream.connection]
        <5>1. Stages({})
          BY <4>3 DEF Publish, Stages
        <5>2. /\ DOMAIN published' = 1 .. Len(published) + 1
              /\ Len(published) \in Nat
              /\ published'[Len(published) + 1] = p
          BY <4>3, <5>1, PublishedHas
        <5>3. Same(p.listing, request) /\ request' = request
          BY <4>3 DEF Publish, SnapshotIsOfItsStream, Publishing, Same
        <5> HIDE DEF p
        <5>4. Len(published) + 1 \in DOMAIN published'
          BY <5>2
        <5> QED
          BY <5>2, <5>3, <5>4 DEF RequestKnown, Known, Same
      <4>4. CASE ~RequestPrint /\ ~CopySnapshot /\ ~Publish
        <5>1. UNCHANGED <<printSem, request>> /\ (hpc' \notin {"copy", "publish"} => hpc \notin {"copy", "publish"})
          <6>1. CASE Usb \/ Device \/ Tick \/ UNCHANGED vars
            BY <6>1 DEF Usb, Device, DeviceConnected, DeviceRemoved, OtherArrives, FileArrives, Tick, vars
          <6>2. CASE Session \/ \E w \in Workers : Handle(w)
            BY <6>2 DEF Session, TakeReady, Settle, StartStream, SendReset, SendLogin, SendFileRead,
                        sessionUnchanged, Handle
          <6>3. CASE Heartbeat
            BY <4>4, <6>3 DEF Heartbeat, Beat, BeatSent, CheckTimeout, Assess
          <6> QED
            BY <2>4, <6>1, <6>2, <6>3 DEF Next
        <5> QED
          BY <2>0, <2>2, <5>1 DEF RequestKnown, Known, Same
      <4> QED
        BY <4>1, <4>2, <4>3, <4>4
    <3> QED
      BY <2>1, <3>2, <3>3 DEF PrintInv
  <2> QED
    BY <2>3, <2>4
<1>3. PrintInv => PrintedIsPublished
  BY DEF PrintInv
<1> QED
  BY <1>1, <1>2, <1>3, TypeCorrect, SnapshotOfItsStream, PTL DEF SafeSpec

---------------------------------------------------------------------------
(* Every stream ends once.                                                 *)

(* The transports get each stream's listing at most once, and in order:    *)
(* a later one is of a later stream.                                       *)
PublishedInOrder ==
  \A i, j \in DOMAIN published :
    i < j => published[i].listing.generation < published[j].listing.generation

(* Nothing is published yet of a stream that is active or being summarised *)
Unpublished ==
  fs.active \/ hpc \in Publishing =>
    \A j \in DOMAIN published : published[j].listing.generation < catalog.generation

(* A generation is a number.                                               *)
LEMMA GenerationsAre ==
  ASSUME TypeOK
  PROVE  catalog.generation \in Nat /\ \A j \in DOMAIN published : published[j].listing.generation \in Nat
<1>1. catalog \in Catalog
      /\ published \in Seq([listing : Listing, received : SUBSET Nat, connection : Nat])
  BY DEF TypeOK, SessionTypeOK, HeartbeatTypeOK
<1>2. ASSUME NEW j \in DOMAIN published PROVE published[j].listing.generation \in Nat
  <2>1. j \in 1 .. Len(published)
    BY <1>1, LenProperties
  <2>2. published[j] \in [listing : Listing, received : SUBSET Nat, connection : Nat]
    BY <1>1, <2>1, ElementOfSeq
  <2> QED
    BY <2>2 DEF Listing
<1> QED
  BY <1>1, <1>2 DEF Catalog

(* A stream becomes active with a generation of its own, and only an       *)
(* active one is summarised.                                               *)
LEMMA UnpublishedStays ==
  ASSUME TypeOK, SnapshotIsOfItsStream, PublishedIsCatalog, Unpublished, [Next]_vars
  PROVE  Unpublished'
<1> USE DEF usbVars, sessionVars, heartbeatVars, printerVars
<1>0. fs \in Stream /\ catalog \in Catalog
  BY DEF TypeOK, SessionTypeOK
<1>1. ASSUME catalog'.generation = catalog.generation, published' = published,
             fs'.active \/ hpc' \in Publishing => fs.active \/ hpc \in Publishing
      PROVE  Unpublished'
  BY <1>1 DEF Unpublished
<1>2. CASE StartStream
  <2>1. published' = published /\ catalog'.generation = catalog.generation + 1
    BY <1>2 DEF StartStream
  <2>2. \A j \in DOMAIN published : published[j].listing.generation <= catalog.generation
    BY DEF PublishedIsCatalog
  <2>3. \A j \in DOMAIN published' : published'[j].listing.generation < catalog'.generation
    BY <2>1, <2>2, GenerationsAre
  <2> QED
    BY <2>3 DEF Unpublished
<1>3. CASE \E w \in Workers : Handle(w)
  <2>1. PICK w \in Workers : Handle(w)
    BY <1>3
  <2>2. /\ published' = published /\ hpc' = hpc
        /\ fs'.active = fs.active /\ catalog'.generation = catalog.generation
    BY <1>0, <2>1, SameStream DEF Handle, Stream
  <2> QED
    BY <1>1, <2>2
<1>4. CASE Publish
  <2>1. ~fs'.active /\ hpc' \notin Publishing
    BY <1>4 DEF Publish, heartbeatUnchanged, SnapshotIsOfItsStream, Publishing
  <2> QED
    BY <2>1 DEF Unpublished
<1>5. CASE Usb \/ Device \/ Tick \/ UNCHANGED vars
  <2>1. UNCHANGED <<catalog, published, hpc>> /\ (fs'.active => fs.active)
    BY <1>0, <1>5 DEF Usb, Device, DeviceConnected, DeviceRemoved, OtherArrives, FileArrives, Tick, vars,
                      Stream
  <2> QED
    BY <1>1, <2>1
<1>6. CASE TakeReady \/ Settle \/ \E ok \in BOOLEAN : SendReset(ok) \/ SendLogin(ok) \/ SendFileRead(ok)
  <2>1. UNCHANGED <<catalog, published, fs>> /\ hpc' \in {hpc, "wait"}
    BY <1>6 DEF TakeReady, Settle, SendReset, SendLogin, SendFileRead
  <2> QED
    BY <1>1, <2>1 DEF Publishing
<1>7. CASE Beat \/ BeatSent \/ CheckTimeout \/ Assess \/ RequestPrint \/ CopySnapshot
  <2>1. UNCHANGED <<catalog, published>>
        /\ (fs'.active \/ hpc' \in Publishing => fs.active \/ hpc \in Publishing)
    BY <1>0, <1>7 DEF Beat, BeatSent, CheckTimeout, Assess, RequestPrint, CopySnapshot, Stream, Publishing
  <2> QED
    BY <1>1, <2>1
<1>8. CASE Printer
  BY <1>1, <1>8 DEF Printer, TakeRequest, PrintHeader, PrintFolder, PrintEnd, printerUnchanged
<1> QED
  BY <1>2, <1>3, <1>4, <1>5, <1>6, <1>7, <1>8 DEF Next, Session, Heartbeat

(* Only Publish adds a listing, of the catalog's generation.               *)
LEMMA OrderStays ==
  ASSUME TypeOK, SnapshotIsOfItsStream, Unpublished, PublishedInOrder, [Next]_vars
  PROVE  PublishedInOrder'
<1>1. CASE Publish
  <2>1. Stages({})
    BY <1>1 DEF Publish, Stages
  <2>2. PICK n \in Nat : n = Len(published)
    BY <1>1, <2>1, PublishedHas
  <2>3. /\ DOMAIN published' = 1 .. n + 1 /\ DOMAIN published = 1 .. n
        /\ published'[n + 1].listing = snapshot
        /\ \A i \in 1 .. n : published'[i] = published[i]
    BY <1>1, <2>1, <2>2, PublishedHas
  <2>4. hpc \in Publishing /\ snapshot.generation = catalog.generation
    BY <1>1 DEF Publish, SnapshotIsOfItsStream, Publishing
  <2>5. \A i \in 1 .. n : published[i].listing.generation < published'[n + 1].listing.generation
    BY <2>3, <2>4 DEF Unpublished
  <2>6. ASSUME NEW i \in 1 .. n + 1, NEW j \in 1 .. n + 1, i < j
        PROVE  published'[i].listing.generation < published'[j].listing.generation
    <3>1. i \in 1 .. n /\ (j \in 1 .. n \/ j = n + 1)
      BY <2>6
    <3>2. CASE j = n + 1
      BY <2>3, <2>5, <3>1, <3>2
    <3>3. CASE j \in 1 .. n
      BY <2>3, <2>6, <3>1, <3>3 DEF PublishedInOrder
    <3> QED
      BY <3>1, <3>2, <3>3
  <2> QED
    BY <2>3, <2>6 DEF PublishedInOrder
<1>2. CASE ~Publish
  <2>1. published' = published
    BY <1>2 DEF Next, Usb, DeviceConnected, DeviceRemoved, OtherArrives, Device, FileArrives, Tick,
                Session, TakeReady, Settle, StartStream, SendReset, SendLogin, SendFileRead, Handle,
                Heartbeat, Beat, BeatSent, CheckTimeout, Assess, RequestPrint, CopySnapshot,
                Printer, TakeRequest, PrintHeader, PrintFolder, PrintEnd, printerUnchanged,
                heartbeatVars, vars
  <2> QED
    BY <2>1 DEF PublishedInOrder
<1> QED
  BY <1>1, <1>2

(* Each stream is published at most once, however connections and the two  *)
(* deadlines fall: the transports never get an older listing after a newer *)
(* one, nor one again.                                                     *)
THEOREM EachStreamOnce == SafeSpec => []PublishedInOrder
<1> DEFINE I == PublishedIsCatalog /\ Unpublished /\ PublishedInOrder
<1>1. Init => I
  BY DEF Init, PublishedIsCatalog, Unpublished, PublishedInOrder
<1>2. TypeOK /\ SnapshotIsOfItsStream /\ I /\ [Next]_vars => I'
  BY CatalogStaysPublished, UnpublishedStays, OrderStays
<1>3. I => PublishedInOrder
  OBVIOUS
<1> HIDE DEF I
<1> QED
  BY <1>1, <1>2, <1>3, TypeCorrect, SnapshotOfItsStream, PTL DEF SafeSpec
=============================================================================
