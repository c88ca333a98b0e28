-------------------------- MODULE QcSessionProofs --------------------------
(* What the threads' priorities buy QcSession, for any number of folders,  *)
(* connections and messages: the state that the heartbeat and the workers  *)
(* read outside fileStreamMutex_ is never of another stream.               *)
EXTENDS QcSession, SequenceTheorems, TLAPS

(* Facts on short sequences, over a set the provers need not look into.    *)
LEMMA OneSeq == \A S : \A m \in S : <<m>> \in Seq(S) /\ Len(<<m>>) = 1
  OBVIOUS

(* A slot that is given a message, or emptied.                             *)
LEMMA SlotSet ==
  ASSUME NEW S, NEW f \in [Workers -> Seq(S)], NEW w \in Workers, NEW s \in Seq(S), Len(s) <= 1,
         \A v \in Workers : Len(f[v]) <= 1
  PROVE  /\ [f EXCEPT ![w] = s] \in [Workers -> Seq(S)]
         /\ \A v \in Workers : Len([f EXCEPT ![w] = s][v]) <= 1
  OBVIOUS

(* The listing that is being logged gets a folder, or its end.             *)
LEMMA PrintoutExtended ==
  ASSUME printed \in Seq(Printout), printed # << >>, NEW f \in Nat \X Nat
  PROVE  [printed EXCEPT ![Latest].folders = Append(@, f)] \in Seq(Printout)
<1>1. Latest \in 1 .. Len(printed) /\ printed[Latest] \in Printout
  BY DEF Latest
<1>2. Append(printed[Latest].folders, f) \in FolderSeq
  BY <1>1, AppendProperties DEF Printout, FolderSeq
<1> DEFINE p == [printed[Latest] EXCEPT !.folders = Append(@, f)]
<1>3. p \in Printout
  BY <1>1, <1>2 DEF Printout
<1>4. [printed EXCEPT ![Latest].folders = Append(@, f)] = [printed EXCEPT ![Latest] = p]
  BY <1>1
<1> HIDE DEF p
<1> QED  BY <1>1, <1>3, <1>4, ExceptSeq

(* A printout that is ended stays one.                                     *)
LEMMA PrintoutEnded ==
  ASSUME printed \in Seq(Printout), printed # << >>
  PROVE  [printed EXCEPT ![Latest].whole = TRUE] \in Seq(Printout)
<1>1. Latest \in 1 .. Len(printed) /\ printed[Latest] \in Printout
  BY DEF Latest
<1> DEFINE p == [printed[Latest] EXCEPT !.whole = TRUE]
<1>2. p \in Printout
  BY <1>1 DEF Printout
<1>3. [printed EXCEPT ![Latest].whole = TRUE] = [printed EXCEPT ![Latest] = p]
  BY <1>1
<1> HIDE DEF p
<1> QED  BY <1>1, <1>2, <1>3, ExceptSeq

(* submit() keeps the slots and the counters what they are.                *)
LEMMA SubmitTyped ==
  ASSUME UsbTypeOK, NEW w \in Workers, NEW m \in Message, Submit(w, m)
  PROVE  /\ slot' \in [Workers -> Seq(Message)] /\ \A v \in Workers : Len(slot'[v]) <= 1
         /\ lost' \in [Counters -> Nat]
<1>1. CASE slot[w] = << >>
  <2>1. <<m>> \in Seq(Message) /\ Len(<<m>>) = 1
    BY OneSeq
  <2>2. slot' = [slot EXCEPT ![w] = <<m>>] /\ lost' = lost
    BY <1>1 DEF Submit
  <2> QED  BY <2>1, <2>2, SlotSet DEF UsbTypeOK
<1>2. CASE slot[w] # << >>
  BY <1>2 DEF Submit, UsbTypeOK, Counters, Workers
<1> QED  BY <1>1, <1>2

(* A torn message is still a message.                                      *)
LEMMA TornTyped ==
  ASSUME NEW w \in Workers, NEW m \in Message, NEW t \in Torn(w, m)
  PROVE  t \in Message
<1>1. OtherMessage \in Message
  BY DEF OtherMessage, Message
<1>2. [m EXCEPT !.folder = 0, !.ok = (w = "dispatcher")] \in Message
  BY DEF Message
<1> QED  BY <1>1, <1>2 DEF Torn

(* What decodeFile() leaves of a catalog: the same, one folder more, or an *)
(* overflow.                                                               *)
LEMMA DecodedCases ==
  ASSUME NEW k, NEW m, NEW c \in Decoded(k, m)
  PROVE  c = k \/ c = AddFolder(k, <<m.stream, m.folder>>) \/ c = [k EXCEPT !.overflowed = TRUE]
  BY DEF Decoded

(* A folder is added while there is room.                                  *)
LEMMA AddFolderTyped ==
  ASSUME NEW k \in Catalog, Len(k.folders) <= Capacity, NEW f \in Nat \X Nat
  PROVE  AddFolder(k, f) \in Catalog /\ Len(AddFolder(k, f).folders) <= Capacity
<1>1. /\ Append(k.folders, f) \in FolderSeq /\ Len(k.folders) \in Nat
      /\ Len(Append(k.folders, f)) = Len(k.folders) + 1
  BY AppendProperties, LenProperties DEF Catalog, FolderSeq
<1>2. AddFolder(k, f) \in Catalog
  BY <1>1 DEF AddFolder, Catalog
<1>3. CASE Len(k.folders) < Capacity
  BY <1>1, <1>2, <1>3, SessionAssumption DEF AddFolder, Catalog
<1>4. CASE ~(Len(k.folders) < Capacity)
  BY <1>2, <1>4 DEF AddFolder, Catalog
<1> QED  BY <1>2, <1>3, <1>4

(* The catalog stays within its capacity, whatever a message holds.        *)
LEMMA DecodedTyped ==
  ASSUME NEW k \in Catalog, Len(k.folders) <= Capacity, NEW m \in Message, NEW c \in Decoded(k, m)
  PROVE  c \in Catalog /\ Len(c.folders) <= Capacity
<1>1. <<m.stream, m.folder>> \in Nat \X Nat
  BY DEF Message
<1>2. CASE c = AddFolder(k, <<m.stream, m.folder>>)
  BY <1>1, <1>2, AddFolderTyped
<1>3. CASE c = [k EXCEPT !.overflowed = TRUE]
  BY <1>3 DEF Catalog
<1> QED  BY <1>2, <1>3, DecodedCases

(* The handshake thread runs only while the mailboxes are empty and the    *)
(* heartbeat waits.                                                        *)
LEMMA SessionRunsLast ==
  ASSUME MayRun("session")
  PROVE  /\ hpc \in {"off", "wait", "sending"}
         /\ \A w \in Workers : slot[w] = << >>
<1>1. \A u \in DOMAIN Priority : Ready(u) => Priority["session"] <= Priority[u]
  BY DEF MayRun
<1>2. ~Ready("heartbeat") /\ ~Ready("dispatcher") /\ ~Ready("inflater")
  BY <1>1 DEF Priority
<1> QED  BY <1>2 DEF Ready, Workers

(* Types, for any values of the constants.                                 *)
THEOREM TypeCorrect == SafeSpec => []TypeOK
<1>1. Init => TypeOK
  <2> SUFFICES ASSUME Init PROVE TypeOK
    OBVIOUS
  <2>1. UsbTypeOK
    <3>1. slot \in [Workers -> Seq(Message)] /\ \A w \in Workers : Len(slot[w]) <= 1
      BY EmptySeq DEF Init
    <3>2. lost \in [Counters -> Nat] /\ reply \in Seq(Message)
      BY EmptySeq DEF Init, Zero
    <3>3. connected = FALSE /\ readySem = 0 /\ connects = 0
      BY DEF Init
    <3>4. connected \in BOOLEAN
      BY <3>3
    <3>5. readySem \in 0 .. 1 /\ connects \in Nat
      BY <3>3
    <3> QED  BY <3>1, <3>2, <3>4, <3>5 DEF UsbTypeOK
  <2>2. SessionTypeOK
    <3>1. catalog \in Catalog /\ Len(catalog.folders) <= Capacity
      BY EmptySeq, SessionAssumption DEF Init, Catalog, FolderSeq
    <3>2. fs \in Stream /\ fs.failed <= fs.messages
      BY SessionAssumption DEF Init, Stream
    <3> QED  BY <3>1, <3>2 DEF Init, Zero, SessionTypeOK, Counters, Workers
  <2>3. HeartbeatTypeOK
    BY EmptySeq DEF Init, HeartbeatTypeOK, Listing, FolderSeq
  <2>4. PrinterTypeOK
    BY EmptySeq DEF Init, PrinterTypeOK, Job
  <2> QED  BY <2>1, <2>2, <2>3, <2>4 DEF TypeOK
<1>2. TypeOK /\ [Next]_vars => TypeOK'
  <2> SUFFICES ASSUME TypeOK, [Next]_vars
               PROVE  TypeOK'
    OBVIOUS
  <2>0. UsbTypeOK /\ SessionTypeOK /\ HeartbeatTypeOK /\ PrinterTypeOK
    BY DEF TypeOK
  <2> USE DEF usbVars, sessionVars, heartbeatVars, printerVars
  <2>1. CASE DeviceConnected
    <3>1. UsbTypeOK'
      BY <2>0, <2>1 DEF DeviceConnected, UsbTypeOK
    <3>2. SessionTypeOK'
      BY <2>0, <2>1 DEF DeviceConnected, SessionTypeOK
    <3>3. HeartbeatTypeOK'
      BY <2>0, <2>1 DEF DeviceConnected, HeartbeatTypeOK, Publishing
    <3>4. PrinterTypeOK'
      BY <2>0, <2>1 DEF DeviceConnected, PrinterTypeOK
    <3> QED  BY <3>1, <3>2, <3>3, <3>4 DEF TypeOK
  <2>2. CASE DeviceRemoved
    <3>1. UsbTypeOK'
      BY <2>0, <2>2, EmptySeq DEF DeviceRemoved, UsbTypeOK
    <3>2. SessionTypeOK'
      BY <2>0, <2>2 DEF DeviceRemoved, SessionTypeOK
    <3>3. HeartbeatTypeOK'
      BY <2>0, <2>2 DEF DeviceRemoved, HeartbeatTypeOK, Publishing
    <3>4. PrinterTypeOK'
      BY <2>0, <2>2 DEF DeviceRemoved, PrinterTypeOK
    <3> QED  BY <3>1, <3>2, <3>3, <3>4 DEF TypeOK
  <2>3. CASE \E w \in Workers : OtherArrives(w)
    <3>1. UsbTypeOK'
      <4>1. PICK w \in Workers : OtherArrives(w)
        BY <2>3
      <4>2. OtherMessage \in Message
        BY DEF OtherMessage, Message
      <4> QED  BY <2>0, <4>1, <4>2, SubmitTyped DEF OtherArrives, UsbTypeOK
    <3>2. SessionTypeOK'
      BY <2>0, <2>3 DEF OtherArrives, SessionTypeOK
    <3>3. HeartbeatTypeOK'
      BY <2>0, <2>3 DEF OtherArrives, HeartbeatTypeOK, Publishing
    <3>4. PrinterTypeOK'
      BY <2>0, <2>3 DEF OtherArrives, PrinterTypeOK
    <3> QED  BY <3>1, <3>2, <3>3, <3>4 DEF TypeOK
  <2>4. CASE Device
    <3>1. UsbTypeOK'
      <4>1. PICK fate \in Fates : FileArrives(fate)
        BY <2>4 DEF Device
      <4> DEFINE m == [Head(reply) EXCEPT !.ok = (fate # "corrupt")]
      <4>2. Head(reply) \in Message /\ reply' \in Seq(Message)
        BY <2>0, <4>1, HeadTailProperties DEF FileArrives, UsbTypeOK
      <4>3. m \in Message
        BY <4>2 DEF Message
      <4>4. /\ slot' \in [Workers -> Seq(Message)] /\ \A v \in Workers : Len(slot'[v]) <= 1
            /\ lost' \in [Counters -> Nat]
        <5>1. CASE fate = "plain"
          BY <2>0, <4>1, <4>3, <5>1, SubmitTyped DEF FileArrives, Workers
        <5>2. CASE fate \in {"gzip", "corrupt"}
          BY <2>0, <4>1, <4>3, <5>2, SubmitTyped DEF FileArrives, Workers
        <5>3. CASE fate = "vanished"
          BY <2>0, <4>1, <5>3 DEF FileArrives, UsbTypeOK
        <5>5. CASE fate = "torn"
          <6>1. PICK w \in Workers : \E t \in Torn(w, m) : Submit(w, t)
            BY <4>1, <5>5 DEF FileArrives
          <6>2. PICK t \in Torn(w, m) : Submit(w, t)
            BY <6>1
          <6>3. t \in Message
            <7> HIDE DEF m
            <7> QED  BY <4>3, <6>2, TornTyped
          <6> QED  BY <2>0, <6>2, <6>3, SubmitTyped
        <5>4. CASE fate \in {"overflow", "malformed"}
          <6>1. slot' = slot /\ lost' = [lost EXCEPT ![fate] = @ + 1] /\ fate \in Counters
            BY <4>1, <5>4 DEF FileArrives, Counters
          <6> QED  BY <2>0, <6>1 DEF UsbTypeOK
        <5> QED  BY <5>1, <5>2, <5>3, <5>4, <5>5 DEF Fates
      <4> QED  BY <2>0, <4>1, <4>2, <4>4 DEF FileArrives, UsbTypeOK
    <3>2. SessionTypeOK'
      <4>1. PICK fate \in Fates : FileArrives(fate)
        BY <2>4 DEF Device
      <4>2. Head(reply).folder \in Nat
        <5>1. Head(reply) \in Message
          BY <2>0, <4>1, HeadTailProperties DEF FileArrives, UsbTypeOK
        <5> QED  BY <5>1 DEF Message
      <4>3. stream' \in [connection : Nat, received : SUBSET Nat]
        BY <2>0, <4>1, <4>2 DEF FileArrives, SessionTypeOK
      <4> QED  BY <2>0, <4>1, <4>3 DEF FileArrives, SessionTypeOK
    <3>3. HeartbeatTypeOK'
      BY <2>0, <2>4 DEF Device, FileArrives, HeartbeatTypeOK, Publishing
    <3>4. PrinterTypeOK'
      BY <2>0, <2>4 DEF Device, FileArrives, PrinterTypeOK
    <3> QED  BY <3>1, <3>2, <3>3, <3>4 DEF TypeOK
  <2>5. CASE \E w \in Workers : Handle(w)
    <3>1. UsbTypeOK'
      <4>1. PICK w \in Workers : Handle(w)
        BY <2>5
      <4> QED  BY <2>0, <4>1, EmptySeq, SlotSet DEF Handle, UsbTypeOK
    <3>2. SessionTypeOK'
      <4>1. PICK w \in Workers : Handle(w)
        BY <2>5
      <4> DEFINE m == Head(slot[w])
      <4>2. m \in Message
        BY <2>0, <4>1, HeadTailProperties DEF Handle, UsbTypeOK
      <4>3. CASE m.command = "File" /\ fs.active
        <5>1. fs' \in Stream /\ fs'.failed <= fs'.messages
          <6>1. fs' = [fs EXCEPT !.messages = @ + 1, !.sinceLast = 0,
                                 !.failed = @ + (IF m.ok THEN 0 ELSE 1)]
            BY <4>1, <4>3 DEF Handle
          <6>2. fs \in Stream /\ fs.failed <= fs.messages /\ Quiet \in Nat
            BY <2>0, SessionAssumption DEF SessionTypeOK
          <6>3. fs' = [active |-> fs.active, messages |-> fs.messages + 1,
                       failed |-> fs.failed + (IF m.ok THEN 0 ELSE 1),
                       sinceStart |-> fs.sinceStart, sinceLast |-> 0]
            BY <6>1, <6>2 DEF Stream
          <6>4. fs.messages \in Nat /\ fs.failed \in Nat /\ fs.active \in BOOLEAN /\ fs.sinceStart \in Nat
            BY <6>2 DEF Stream
          <6>5. fs'.failed \in Nat /\ fs'.failed <= fs'.messages
            BY <6>2, <6>3, <6>4
          <6> QED  BY <6>2, <6>3, <6>4, <6>5 DEF Stream
        <5>2. catalog \in Catalog /\ Len(catalog.folders) <= Capacity
          BY <2>0 DEF SessionTypeOK
        <5>3. catalog' = catalog \/ catalog' \in Decoded(catalog, m)
          BY <4>1, <4>3 DEF Handle
        <5>4. catalog' \in Catalog /\ Len(catalog'.folders) <= Capacity
          <6> HIDE DEF m
          <6> QED  BY <4>2, <5>2, <5>3, DecodedTyped
        <5> QED  BY <2>0, <4>1, <4>3, <5>1, <5>4 DEF Handle, SessionTypeOK
      <4>4. CASE ~(m.command = "File" /\ fs.active)
        BY <2>0, <4>1, <4>4 DEF Handle, SessionTypeOK
      <4> QED  BY <4>3, <4>4
    <3>3. HeartbeatTypeOK'
      BY <2>0, <2>5 DEF Handle, HeartbeatTypeOK, Publishing
    <3>4. PrinterTypeOK'
      BY <2>0, <2>5 DEF Handle, PrinterTypeOK
    <3> QED  BY <3>1, <3>2, <3>3, <3>4 DEF TypeOK
  <2>6. CASE TakeReady
    <3>1. UsbTypeOK'
      BY <2>0, <2>6 DEF TakeReady, sessionUnchanged, UsbTypeOK
    <3>2. SessionTypeOK'
      BY <2>0, <2>6 DEF TakeReady, sessionUnchanged, SessionTypeOK
    <3>3. HeartbeatTypeOK'
      BY <2>0, <2>6 DEF TakeReady, sessionUnchanged, HeartbeatTypeOK, Publishing
    <3>4. PrinterTypeOK'
      BY <2>0, <2>6 DEF TakeReady, sessionUnchanged, PrinterTypeOK
    <3> QED  BY <3>1, <3>2, <3>3, <3>4 DEF TypeOK
  <2>7. CASE \E ok \in BOOLEAN : SendReset(ok)
    <3>1. UsbTypeOK'
      BY <2>0, <2>7, EmptySeq DEF SendReset, sessionUnchanged, UsbTypeOK
    <3>2. SessionTypeOK'
      BY <2>0, <2>7 DEF SendReset, Sends, sessionUnchanged, SessionTypeOK, UsbTypeOK
    <3>3. HeartbeatTypeOK'
      BY <2>0, <2>7 DEF SendReset, sessionUnchanged, HeartbeatTypeOK, Publishing
    <3>4. PrinterTypeOK'
      BY <2>0, <2>7 DEF SendReset, sessionUnchanged, PrinterTypeOK
    <3> QED  BY <3>1, <3>2, <3>3, <3>4 DEF TypeOK
  <2>8. CASE \E ok \in BOOLEAN : SendLogin(ok)
    <3>1. UsbTypeOK'
      BY <2>0, <2>8 DEF SendLogin, sessionUnchanged, UsbTypeOK
    <3>2. SessionTypeOK'
      BY <2>0, <2>8 DEF SendLogin, Sends, sessionUnchanged, SessionTypeOK, UsbTypeOK
    <3>3. HeartbeatTypeOK'
      BY <2>0, <2>8 DEF SendLogin, sessionUnchanged, HeartbeatTypeOK, Publishing
    <3>4. PrinterTypeOK'
      BY <2>0, <2>8 DEF SendLogin, sessionUnchanged, PrinterTypeOK
    <3> QED  BY <3>1, <3>2, <3>3, <3>4 DEF TypeOK
  <2>9. CASE Settle
    <3>1. UsbTypeOK'
      BY <2>0, <2>9 DEF Settle, sessionUnchanged, UsbTypeOK
    <3>2. SessionTypeOK'
      BY <2>0, <2>9 DEF Settle, sessionUnchanged, SessionTypeOK
    <3>3. HeartbeatTypeOK'
      BY <2>0, <2>9 DEF Settle, sessionUnchanged, HeartbeatTypeOK, Publishing
    <3>4. PrinterTypeOK'
      BY <2>0, <2>9 DEF Settle, sessionUnchanged, PrinterTypeOK
    <3> QED  BY <3>1, <3>2, <3>3, <3>4 DEF TypeOK
  <2>10. CASE StartStream
    <3>1. UsbTypeOK'
      BY <2>0, <2>10 DEF StartStream, sessionUnchanged, UsbTypeOK
    <3>2. SessionTypeOK'
      <4>1. catalog' \in Catalog /\ Len(catalog'.folders) <= Capacity
        BY <2>0, <2>10, EmptySeq, SessionAssumption DEF StartStream, SessionTypeOK, Catalog, FolderSeq
      <4>2. fs' \in Stream /\ fs'.failed <= fs'.messages
        BY <2>10, SessionAssumption DEF StartStream, Stream
      <4>3. atStart' \in [Counters -> Nat] /\ stream' \in [connection : Nat, received : SUBSET Nat]
        BY <2>0, <2>10 DEF StartStream, UsbTypeOK
      <4> QED  BY <2>0, <2>10, <4>1, <4>2, <4>3 DEF StartStream, SessionTypeOK, sessionUnchanged
    <3>3. HeartbeatTypeOK'
      BY <2>0, <2>10 DEF StartStream, sessionUnchanged, HeartbeatTypeOK, Publishing
    <3>4. PrinterTypeOK'
      BY <2>0, <2>10 DEF StartStream, sessionUnchanged, PrinterTypeOK
    <3> QED  BY <3>1, <3>2, <3>3, <3>4 DEF TypeOK
  <2>11. CASE \E ok \in BOOLEAN : SendFileRead(ok)
    <3>1. UsbTypeOK'
      <4>1. PICK ok \in BOOLEAN : SendFileRead(ok)
        BY <2>11
      <4>2. reply' \in Seq(Message)
        <5>1. CASE ok
          <6>1. \A f \in 1 .. Folders : [command |-> "File", stream |-> catalog.generation,
                                         folder |-> f, ok |-> TRUE] \in Message
            BY <2>0, SessionAssumption DEF SessionTypeOK, Catalog, Message
          <6> QED  BY <4>1, <5>1, <6>1, SessionAssumption DEF SendFileRead
        <5>2. CASE ~ok
          BY <2>0, <4>1, <5>2 DEF SendFileRead, UsbTypeOK
        <5> QED  BY <5>1, <5>2
      <4> QED  BY <2>0, <4>1, <4>2 DEF SendFileRead, sessionUnchanged, UsbTypeOK
    <3>2. SessionTypeOK'
      BY <2>0, <2>11 DEF SendFileRead, Sends, sessionUnchanged, SessionTypeOK, UsbTypeOK
    <3>3. HeartbeatTypeOK'
      BY <2>0, <2>11 DEF SendFileRead, sessionUnchanged, HeartbeatTypeOK, Publishing
    <3>4. PrinterTypeOK'
      BY <2>0, <2>11 DEF SendFileRead, sessionUnchanged, PrinterTypeOK
    <3> QED  BY <3>1, <3>2, <3>3, <3>4 DEF TypeOK
  <2>12. CASE Beat
    <3>1. UsbTypeOK'
      BY <2>0, <2>12 DEF Beat, heartbeatUnchanged, UsbTypeOK
    <3>2. SessionTypeOK'
      BY <2>0, <2>12 DEF Beat, heartbeatUnchanged, SessionTypeOK
    <3>3. HeartbeatTypeOK'
      BY <2>0, <2>12 DEF Beat, heartbeatUnchanged, HeartbeatTypeOK, Publishing
    <3>4. PrinterTypeOK'
      BY <2>0, <2>12 DEF Beat, heartbeatUnchanged, PrinterTypeOK
    <3> QED  BY <3>1, <3>2, <3>3, <3>4 DEF TypeOK
  <2>13. CASE BeatSent
    <3>1. UsbTypeOK'
      BY <2>0, <2>13 DEF BeatSent, heartbeatUnchanged, UsbTypeOK
    <3>2. SessionTypeOK'
      BY <2>0, <2>13 DEF BeatSent, heartbeatUnchanged, SessionTypeOK
    <3>3. HeartbeatTypeOK'
      BY <2>0, <2>13 DEF BeatSent, heartbeatUnchanged, HeartbeatTypeOK, Publishing
    <3>4. PrinterTypeOK'
      BY <2>0, <2>13 DEF BeatSent, heartbeatUnchanged, PrinterTypeOK
    <3> QED  BY <3>1, <3>2, <3>3, <3>4 DEF TypeOK
  <2>14. CASE CheckTimeout
    <3>1. UsbTypeOK'
      BY <2>0, <2>14 DEF CheckTimeout, heartbeatUnchanged, UsbTypeOK
    <3>2. SessionTypeOK'
      BY <2>0, <2>14 DEF CheckTimeout, heartbeatUnchanged, SessionTypeOK, Stream
    <3>3. HeartbeatTypeOK'
      BY <2>0, <2>14 DEF CheckTimeout, heartbeatUnchanged, HeartbeatTypeOK, Publishing
    <3>4. PrinterTypeOK'
      BY <2>0, <2>14 DEF CheckTimeout, heartbeatUnchanged, PrinterTypeOK
    <3> QED  BY <3>1, <3>2, <3>3, <3>4 DEF TypeOK
  <2>15. CASE Assess
    <3>1. UsbTypeOK'
      BY <2>0, <2>15 DEF Assess, IsListingIncomplete, heartbeatUnchanged, UsbTypeOK
    <3>2. SessionTypeOK'
      BY <2>0, <2>15 DEF Assess, IsListingIncomplete, heartbeatUnchanged, SessionTypeOK
    <3>3. HeartbeatTypeOK'
      BY <2>0, <2>15 DEF Assess, IsListingIncomplete, heartbeatUnchanged, HeartbeatTypeOK, Publishing
    <3>4. PrinterTypeOK'
      BY <2>0, <2>15 DEF Assess, IsListingIncomplete, heartbeatUnchanged, PrinterTypeOK
    <3> QED  BY <3>1, <3>2, <3>3, <3>4 DEF TypeOK
  <2>16. CASE RequestPrint
    <3>1. UsbTypeOK'
      BY <2>0, <2>16 DEF RequestPrint, heartbeatUnchanged, UsbTypeOK
    <3>2. SessionTypeOK'
      BY <2>0, <2>16 DEF RequestPrint, heartbeatUnchanged, SessionTypeOK
    <3>3. HeartbeatTypeOK'
      BY <2>0, <2>16 DEF RequestPrint, HeartbeatTypeOK, SessionTypeOK, Catalog, Publishing, heartbeatUnchanged
    <3>4. PrinterTypeOK'
      BY <2>0, <2>16 DEF RequestPrint, heartbeatUnchanged, PrinterTypeOK
    <3> QED  BY <3>1, <3>2, <3>3, <3>4 DEF TypeOK
  <2>17. CASE CopySnapshot
    <3>1. UsbTypeOK'
      BY <2>0, <2>17 DEF CopySnapshot, heartbeatUnchanged, UsbTypeOK
    <3>2. SessionTypeOK'
      BY <2>0, <2>17 DEF CopySnapshot, heartbeatUnchanged, SessionTypeOK
    <3>3. HeartbeatTypeOK'
      BY <2>0, <2>17 DEF CopySnapshot, HeartbeatTypeOK, SessionTypeOK, Catalog, Listing, Publishing, heartbeatUnchanged
    <3>4. PrinterTypeOK'
      BY <2>0, <2>17 DEF CopySnapshot, heartbeatUnchanged, PrinterTypeOK
    <3> QED  BY <3>1, <3>2, <3>3, <3>4 DEF TypeOK
  <2>18. CASE Publish
    <3>1. UsbTypeOK'
      BY <2>0, <2>18 DEF Publish, heartbeatUnchanged, UsbTypeOK
    <3>2. SessionTypeOK'
      BY <2>0, <2>18 DEF Publish, heartbeatUnchanged, SessionTypeOK
    <3>3. HeartbeatTypeOK'
      <4> DEFINE p == [listing |-> snapshot, received |-> stream.received, connection |-> stream.connection]
             P == [listing : Listing, received : SUBSET Nat, connection : Nat]
      <4>1. p \in P
        BY <2>0 DEF HeartbeatTypeOK, SessionTypeOK
      <4>2. published \in Seq(P)
        BY <2>0 DEF HeartbeatTypeOK
      <4> HIDE DEF P
      <4>3. Append(published, p) \in Seq(P)
        BY <4>1, <4>2, AppendProperties
      <4> QED  BY <2>0, <2>18, <4>3 DEF P, Publish, HeartbeatTypeOK, heartbeatUnchanged
    <3>4. PrinterTypeOK'
      BY <2>0, <2>18 DEF Publish, heartbeatUnchanged, PrinterTypeOK
    <3> QED  BY <3>1, <3>2, <3>3, <3>4 DEF TypeOK
  <2>19. CASE TakeRequest
    <3>1. UsbTypeOK'
      BY <2>0, <2>19 DEF TakeRequest, printerUnchanged, UsbTypeOK
    <3>2. SessionTypeOK'
      BY <2>0, <2>19 DEF TakeRequest, printerUnchanged, SessionTypeOK
    <3>3. HeartbeatTypeOK'
      BY <2>0, <2>19 DEF TakeRequest, printerUnchanged, HeartbeatTypeOK, Publishing
    <3>4. PrinterTypeOK'
      BY <2>0, <2>19 DEF TakeRequest, PrinterTypeOK, HeartbeatTypeOK, Job, printerUnchanged
    <3> QED  BY <3>1, <3>2, <3>3, <3>4 DEF TypeOK
  <2>20. CASE PrintHeader
    <3>1. UsbTypeOK'
      BY <2>0, <2>20 DEF PrintHeader, printerUnchanged, UsbTypeOK
    <3>2. SessionTypeOK'
      BY <2>0, <2>20 DEF PrintHeader, printerUnchanged, SessionTypeOK
    <3>3. HeartbeatTypeOK'
      BY <2>0, <2>20 DEF PrintHeader, printerUnchanged, HeartbeatTypeOK, Publishing
    <3>4. PrinterTypeOK'
      <4>1. CASE SameGeneration
        <5> DEFINE p == [generation |-> job.generation, folders |-> << >>,
                         incomplete |-> job.incomplete, whole |-> FALSE]
        <5>1. p \in Printout
          BY <2>0, EmptySeq DEF PrinterTypeOK, Job, Printout, FolderSeq
        <5>2. Append(printed, p) \in Seq(Printout)
          BY <2>0, <5>1, AppendProperties DEF PrinterTypeOK
        <5>3. Len(catalog.folders) \in Nat
          BY <2>0 DEF SessionTypeOK, Catalog, FolderSeq
        <5>4. job' = [job EXCEPT !.count = Len(catalog.folders)] /\ job.next = 1 /\ job \in Job
          BY <2>0, <2>20, <4>1 DEF PrintHeader, PrinterTypeOK
        <5>5. job' \in Job /\ job'.next <= job'.count + 1
          BY <5>3, <5>4 DEF Job
        <5> QED  BY <2>0, <2>20, <4>1, <5>2, <5>5 DEF PrintHeader, PrinterTypeOK
      <4>2. CASE ~SameGeneration
        BY <2>0, <2>20, <4>2 DEF PrintHeader, PrinterTypeOK
      <4> QED  BY <4>1, <4>2
    <3> QED  BY <3>1, <3>2, <3>3, <3>4 DEF TypeOK
  <2>21. CASE PrintFolder
    <3>1. UsbTypeOK'
      BY <2>0, <2>21 DEF PrintFolder, Latest, printerUnchanged, UsbTypeOK
    <3>2. SessionTypeOK'
      BY <2>0, <2>21 DEF PrintFolder, Latest, printerUnchanged, SessionTypeOK
    <3>3. HeartbeatTypeOK'
      BY <2>0, <2>21 DEF PrintFolder, Latest, printerUnchanged, HeartbeatTypeOK, Publishing
    <3>4. PrinterTypeOK'
      <4>1. CASE SameGeneration /\ job.next <= Len(catalog.folders)
        <5>1. catalog.folders \in FolderSeq /\ job \in Job
          BY <2>0 DEF SessionTypeOK, PrinterTypeOK, Catalog
        <5>2. catalog.folders[job.next] \in Nat \X Nat
          BY <4>1, <5>1 DEF Job, FolderSeq
        <5>3. printed' = [printed EXCEPT ![Latest].folders = Append(@, catalog.folders[job.next])]
          BY <2>21, <4>1 DEF PrintFolder
        <5>4. printed' \in Seq(Printout)
          BY <2>0, <2>21, <5>2, <5>3, PrintoutExtended DEF PrintFolder, PrinterTypeOK
        <5>5. job' = [job EXCEPT !.next = job.next + 1] /\ job.next <= job.count
          BY <2>21, <4>1 DEF PrintFolder
        <5>6. job' \in Job /\ job'.next <= job'.count + 1
          BY <5>1, <5>5 DEF Job
        <5> QED  BY <2>0, <2>21, <4>1, <5>4, <5>6 DEF PrintFolder, PrinterTypeOK, printerUnchanged
      <4>2. CASE ~(SameGeneration /\ job.next <= Len(catalog.folders))
        BY <2>0, <2>21, <4>2 DEF PrintFolder, PrinterTypeOK, printerUnchanged
      <4> QED  BY <4>1, <4>2
    <3> QED  BY <3>1, <3>2, <3>3, <3>4 DEF TypeOK
  <2>22. CASE PrintEnd
    <3>1. UsbTypeOK'
      BY <2>0, <2>22 DEF PrintEnd, Latest, printerUnchanged, UsbTypeOK
    <3>2. SessionTypeOK'
      BY <2>0, <2>22 DEF PrintEnd, Latest, printerUnchanged, SessionTypeOK
    <3>3. HeartbeatTypeOK'
      BY <2>0, <2>22 DEF PrintEnd, Latest, printerUnchanged, HeartbeatTypeOK, Publishing
    <3>4. PrinterTypeOK'
      <4>1. printed' \in Seq(Printout)
        BY <2>0, <2>22, PrintoutEnded DEF PrintEnd, PrinterTypeOK
      <4> QED  BY <2>0, <2>22, <4>1 DEF PrintEnd, PrinterTypeOK, printerUnchanged
    <3> QED  BY <3>1, <3>2, <3>3, <3>4 DEF TypeOK
  <2>23. CASE Tick
    <3>1. UsbTypeOK'
      BY <2>0, <2>23 DEF Tick, UsbTypeOK
    <3>2. SessionTypeOK'
      <4>1. fs \in Stream /\ fs.failed <= fs.messages /\ Quiet \in Nat
        BY <2>0, SessionAssumption DEF SessionTypeOK
      <4>2. fs' = [fs EXCEPT !.sinceStart = fs.sinceStart + 1,
                             !.sinceLast = IF fs.sinceLast < Quiet THEN fs.sinceLast + 1 ELSE fs.sinceLast]
        BY <2>23 DEF Tick
      <4>3. fs' = [active |-> fs.active, messages |-> fs.messages, failed |-> fs.failed,
                   sinceStart |-> fs.sinceStart + 1,
                   sinceLast |-> IF fs.sinceLast < Quiet THEN fs.sinceLast + 1 ELSE fs.sinceLast]
        BY <4>1, <4>2 DEF Stream
      <4>4. fs.sinceLast \in Nat /\ fs.sinceLast <= Quiet /\ fs.sinceStart \in Nat
        BY <4>1 DEF Stream
      <4>5. fs' \in Stream /\ fs'.failed <= fs'.messages
        BY <4>1, <4>3, <4>4 DEF Stream
      <4> QED  BY <2>0, <2>23, <4>5 DEF Tick, SessionTypeOK
    <3>3. HeartbeatTypeOK'
      BY <2>0, <2>23 DEF Tick, HeartbeatTypeOK, Publishing
    <3>4. PrinterTypeOK'
      BY <2>0, <2>23 DEF Tick, PrinterTypeOK
    <3> QED  BY <3>1, <3>2, <3>3, <3>4 DEF TypeOK
  <2>24. CASE UNCHANGED vars
    BY <2>0, <2>24 DEF vars, TypeOK, UsbTypeOK, SessionTypeOK, HeartbeatTypeOK, PrinterTypeOK
  <2> QED
    BY <2>1, <2>2, <2>3, <2>4, <2>5, <2>6, <2>7, <2>8, <2>9, <2>10, <2>11, <2>12,
       <2>13, <2>14, <2>15, <2>16, <2>17, <2>18, <2>19, <2>20, <2>21, <2>22, <2>23, <2>24
    DEF Next, Usb, Session, Heartbeat, Printer
<1> QED  BY <1>1, <1>2, PTL DEF SafeSpec

(* The heartbeat's snapshot and print request are of the summarised stream *)
(* in every reachable state: only startStream() makes a stream active, and *)
(* no handler changes the catalog while none is.                           *)
THEOREM SnapshotOfItsStream == SafeSpec => []SnapshotIsOfItsStream
<1>1. Init => SnapshotIsOfItsStream
  BY DEF Init, SnapshotIsOfItsStream, Publishing
<1>2. TypeOK /\ SnapshotIsOfItsStream /\ [Next]_vars => SnapshotIsOfItsStream'
  <2> SUFFICES ASSUME TypeOK, SnapshotIsOfItsStream, [Next]_vars
               PROVE  SnapshotIsOfItsStream'
    OBVIOUS
  <2> USE DEF SnapshotIsOfItsStream, Publishing
  <2>1. CASE Usb
    BY <2>1 DEF Usb, DeviceConnected, DeviceRemoved, OtherArrives, heartbeatVars
  <2>2. CASE Device
    BY <2>2 DEF Device, FileArrives, heartbeatVars
  <2>3. CASE StartStream
    BY <2>3, SessionRunsLast DEF StartStream, heartbeatVars
  <2>4. CASE TakeReady
    BY <2>4 DEF TakeReady
  <2>5. CASE Settle
    BY <2>5 DEF Settle, heartbeatVars
  <2>6. CASE \E ok \in BOOLEAN : SendReset(ok) \/ SendLogin(ok) \/ SendFileRead(ok)
    BY <2>6 DEF SendReset, SendLogin, SendFileRead, heartbeatVars
  <2>7. ASSUME NEW w \in Workers, Handle(w)
        PROVE  SnapshotIsOfItsStream'
    <3>1. CASE fs.active
      BY <2>7, <3>1 DEF Handle, heartbeatVars
    <3>2. CASE ~fs.active
      BY <2>7, <3>2 DEF Handle, heartbeatVars
    <3> QED  BY <3>1, <3>2
  <2>8. CASE Beat \/ BeatSent \/ Publish
    BY <2>8 DEF Beat, BeatSent, Publish
  <2>9. CASE CheckTimeout
    BY <2>9 DEF CheckTimeout, TypeOK, SessionTypeOK, Stream
  <2>10. CASE Assess \/ RequestPrint \/ CopySnapshot
    BY <2>10 DEF Assess, RequestPrint, CopySnapshot
  <2>11. CASE Printer
    BY <2>11 DEF Printer, TakeRequest, PrintHeader, PrintFolder, PrintEnd, printerUnchanged,
                 heartbeatVars
  <2>12. CASE Tick
    BY <2>12 DEF Tick, heartbeatVars
  <2>13. CASE UNCHANGED vars
    BY <2>13 DEF vars, heartbeatVars
  <2> QED  BY <2>1, <2>2, <2>3, <2>4, <2>5, <2>6, <2>7, <2>8, <2>9, <2>10, <2>11, <2>12, <2>13
           DEF Next, Session, Heartbeat
<1> QED  BY <1>1, <1>2, TypeCorrect, PTL DEF SafeSpec

---------------------------------------------------------------------------
(* Why no listing has a folder of another stream: what is on its way to    *)
(* the catalog - in the device's reply, in a mailbox - is of the catalog's *)
(* own generation, because a new generation begins only when nothing is    *)
(* on its way: the device has been reset and the mailboxes are empty.      *)
OfThisStream(m) == m.command = "File" => m.stream = catalog.generation
ReplyOwn == \A i \in DOMAIN reply : reply[i].stream = catalog.generation
SlotsOwn == \A w \in Workers : slot[w] # << >> => OfThisStream(Head(slot[w]))
SilentUntilRead == spc \in {"login", "settle", "start", "read"} => reply = << >>
OwnInv == NoForeignFolders /\ ReplyOwn /\ SlotsOwn /\ SilentUntilRead

(* A File message that reaches a mailbox is of this stream if the sender's *)
(* message was.                                                            *)
LEMMA SubmitOwn ==
  ASSUME SlotsOwn, NEW w \in Workers, NEW m, OfThisStream(m), Submit(w, m), catalog' = catalog,
         slot \in [Workers -> Seq(Message)]
  PROVE  SlotsOwn'
<1>1. CASE slot[w] = << >>
  <2>1. slot' = [slot EXCEPT ![w] = <<m>>] /\ Head(<<m>>) = m
    BY <1>1 DEF Submit
  <2> QED  BY <2>1 DEF SlotsOwn, OfThisStream
<1>2. CASE slot[w] # << >>
  BY <1>2 DEF Submit, SlotsOwn, OfThisStream
<1> QED  BY <1>1, <1>2

(* What is left of a torn message is of its stream, or not of a listing.   *)
LEMMA TornOwn ==
  ASSUME NEW w, NEW m \in Message, OfThisStream(m), NEW t \in Torn(w, m)
  PROVE  OfThisStream(t)
<1>1. CASE t = OtherMessage
  BY <1>1 DEF OtherMessage, OfThisStream
<1>2. CASE t = [m EXCEPT !.folder = 0, !.ok = (w = "dispatcher")]
  <2>1. t.command = m.command /\ t.stream = m.stream
    BY <1>2 DEF Message
  <2> QED  BY <2>1 DEF OfThisStream
<1> QED  BY <1>1, <1>2 DEF Torn

(* One more folder of its own generation keeps a list of folders pure.     *)
LEMMA AddOwn ==
  ASSUME catalog \in Catalog, OwnFolders(catalog.generation, catalog.folders),
         NEW f \in Nat \X Nat, f[1] = catalog.generation
  PROVE  LET c == AddFolder(catalog, f)
         IN c.generation = catalog.generation /\ OwnFolders(c.generation, c.folders)
<1>1. CASE Len(catalog.folders) < Capacity
  <2>1. AddFolder(catalog, f) = [catalog EXCEPT !.folders = Append(catalog.folders, f)]
    BY <1>1 DEF AddFolder
  <2>2. catalog.folders \in Seq(Nat \X Nat)
    BY DEF Catalog, FolderSeq
  <2>3. OwnFolders(catalog.generation, Append(catalog.folders, f))
    BY <2>2 DEF OwnFolders
  <2> QED  BY <2>1, <2>3 DEF Catalog
<1>2. CASE ~(Len(catalog.folders) < Capacity)
  BY <1>2 DEF AddFolder, Catalog
<1> QED  BY <1>1, <1>2

(* A published listing has folders of its own stream only, whatever is     *)
(* dropped, delayed or unplugged, and whenever the device comes back.      *)
THEOREM OwnFoldersOnly == SafeSpec => []NoForeignFolders
<1>1. Init => OwnInv
  BY DEF Init, OwnInv, NoForeignFolders, OwnFolders, ReplyOwn, SlotsOwn, SilentUntilRead
<1>2. TypeOK /\ OwnInv /\ [Next]_vars => OwnInv'
  <2> SUFFICES ASSUME TypeOK, OwnInv, [Next]_vars
               PROVE  OwnInv'
    OBVIOUS
  <2>0. /\ UsbTypeOK /\ SessionTypeOK /\ HeartbeatTypeOK /\ PrinterTypeOK
        /\ NoForeignFolders /\ ReplyOwn /\ SlotsOwn /\ SilentUntilRead
    BY DEF TypeOK, OwnInv
  <2> USE DEF usbVars, sessionVars, heartbeatVars, printerVars
  <2>1. CASE DeviceConnected \/ Tick \/ Printer
    BY <2>0, <2>1 DEF DeviceConnected, Tick, Printer, TakeRequest, PrintHeader, PrintFolder, PrintEnd,
                      printerUnchanged, OwnInv, NoForeignFolders, ReplyOwn, SlotsOwn, OfThisStream,
                      SilentUntilRead
  <2>2. CASE DeviceRemoved
    BY <2>0, <2>2 DEF DeviceRemoved, OwnInv, NoForeignFolders, ReplyOwn, SlotsOwn, OfThisStream,
                      SilentUntilRead
  <2>3. ASSUME NEW w \in Workers, OtherArrives(w)
        PROVE  OwnInv'
    <3>1. SlotsOwn'
      BY <2>0, <2>3, SubmitOwn DEF OtherArrives, OtherMessage, OfThisStream, UsbTypeOK
    <3> QED  BY <2>0, <2>3, <3>1 DEF OtherArrives, OwnInv, NoForeignFolders, ReplyOwn, SilentUntilRead
  <2>4. ASSUME NEW fate \in Fates, FileArrives(fate)
        PROVE  OwnInv'
    <3> DEFINE m == [Head(reply) EXCEPT !.ok = (fate # "corrupt")]
    <3>1. reply \in Seq(Message) /\ reply # << >> /\ reply' = Tail(reply) /\ catalog' = catalog
      BY <2>0, <2>4 DEF FileArrives, UsbTypeOK
    <3>2. ReplyOwn'
      BY <2>0, <3>1 DEF ReplyOwn
    <3>3. Head(reply).stream = catalog.generation /\ Head(reply) \in Message
      BY <2>0, <3>1, HeadTailProperties DEF ReplyOwn
    <3>4. OfThisStream(m)
      BY <3>3 DEF OfThisStream, Message
    <3>5. SlotsOwn'
      <4>1. CASE fate = "plain"
        BY <2>0, <2>4, <3>1, <3>4, <4>1, SubmitOwn DEF FileArrives, UsbTypeOK, Workers
      <4>2. CASE fate \in {"gzip", "corrupt"}
        BY <2>0, <2>4, <3>1, <3>4, <4>2, SubmitOwn DEF FileArrives, UsbTypeOK, Workers
      <4>3. CASE fate \in {"vanished", "overflow", "malformed"}
        BY <2>0, <2>4, <3>1, <4>3 DEF FileArrives, SlotsOwn, OfThisStream
      <4>4. CASE fate = "torn"
        <5>1. PICK w \in Workers : \E t \in Torn(w, m) : Submit(w, t)
          BY <2>4, <4>4 DEF FileArrives
        <5>2. PICK t \in Torn(w, m) : Submit(w, t)
          BY <5>1
        <5>3. m \in Message
          BY <3>3 DEF Message
        <5>4. OfThisStream(t)
          <6> HIDE DEF m
          <6> QED  BY <3>4, <5>2, <5>3, TornOwn
        <5> QED  BY <2>0, <3>1, <5>2, <5>4, SubmitOwn DEF UsbTypeOK
      <4> QED  BY <4>1, <4>2, <4>3, <4>4 DEF Fates
    <3>6. SilentUntilRead'
      BY <2>0, <2>4, <3>1 DEF FileArrives, SilentUntilRead
    <3> QED  BY <2>0, <2>4, <3>1, <3>2, <3>5, <3>6 DEF FileArrives, OwnInv, NoForeignFolders
  <2>5. ASSUME NEW w \in Workers, Handle(w)
        PROVE  OwnInv'
    <3> DEFINE m == Head(slot[w])
    <3>1. m \in Message /\ OfThisStream(m) /\ catalog \in Catalog /\ slot \in [Workers -> Seq(Message)]
      BY <2>0, <2>5, HeadTailProperties DEF Handle, UsbTypeOK, SessionTypeOK, SlotsOwn
    <3>2. catalog'.generation = catalog.generation /\ OwnFolders(catalog'.generation, catalog'.folders)
      <4>1. CASE m.command = "File" /\ fs.active /\ m.ok
        <5>1. catalog' \in Decoded(catalog, m)
          BY <2>5, <4>1 DEF Handle
        <5>2. <<m.stream, m.folder>> \in Nat \X Nat /\ <<m.stream, m.folder>>[1] = catalog.generation
          BY <3>1, <4>1 DEF Message, OfThisStream
        <5> HIDE DEF m
        <5>3. CASE catalog' = AddFolder(catalog, <<m.stream, m.folder>>)
          BY <2>0, <3>1, <5>2, <5>3, AddOwn DEF NoForeignFolders
        <5>4. CASE catalog' = catalog \/ catalog' = [catalog EXCEPT !.overflowed = TRUE]
          BY <2>0, <3>1, <5>4 DEF NoForeignFolders, Catalog
        <5> QED  BY <5>1, <5>3, <5>4, DecodedCases
      <4>2. CASE ~(m.command = "File" /\ fs.active /\ m.ok)
        BY <2>0, <2>5, <4>2 DEF Handle, NoForeignFolders
      <4> QED  BY <4>1, <4>2
    <3>3. SlotsOwn'
      BY <2>0, <2>5, <3>1, <3>2 DEF Handle, SlotsOwn, OfThisStream
    <3> QED  BY <2>0, <2>5, <3>2, <3>3 DEF Handle, OwnInv, NoForeignFolders, ReplyOwn, SilentUntilRead
  <2>6. CASE TakeReady \/ Settle \/ \E ok \in BOOLEAN : SendReset(ok) \/ SendLogin(ok)
    BY <2>0, <2>6 DEF TakeReady, Settle, SendReset, SendLogin, sessionUnchanged, OwnInv,
                      NoForeignFolders, ReplyOwn, SlotsOwn, OfThisStream, SilentUntilRead
  <2>7. CASE StartStream
    <3>1. \A w \in Workers : slot'[w] = << >>
      BY <2>7, SessionRunsLast DEF StartStream, sessionUnchanged
    <3>2. reply' = << >>
      BY <2>0, <2>7 DEF StartStream, SilentUntilRead
    <3>3. catalog'.folders = << >>
      BY <2>7 DEF StartStream
    <3> QED  BY <2>0, <2>7, <3>1, <3>2, <3>3 DEF StartStream, OwnInv, NoForeignFolders, OwnFolders,
                                               ReplyOwn, SlotsOwn, SilentUntilRead
  <2>8. ASSUME NEW ok \in BOOLEAN, SendFileRead(ok)
        PROVE  OwnInv'
    <3>1. ReplyOwn'
      BY <2>0, <2>8 DEF SendFileRead, ReplyOwn
    <3> QED  BY <2>0, <2>8, <3>1 DEF SendFileRead, sessionUnchanged, OwnInv, NoForeignFolders, SlotsOwn,
                                   OfThisStream, SilentUntilRead
  <2>9. CASE Beat \/ BeatSent \/ CheckTimeout \/ Assess \/ RequestPrint \/ CopySnapshot
    BY <2>0, <2>9 DEF Beat, BeatSent, CheckTimeout, Assess, RequestPrint, CopySnapshot,
                      heartbeatUnchanged, OwnInv, NoForeignFolders, ReplyOwn, SlotsOwn, OfThisStream,
                      SilentUntilRead
  <2>10. CASE Publish
    <3> DEFINE p == [listing |-> snapshot, received |-> stream.received, connection |-> stream.connection]
    <3>1. published' = Append(published, p) /\ OwnFolders(p.listing.generation, p.listing.folders)
      BY <2>0, <2>10 DEF Publish, NoForeignFolders
    <3>2. DOMAIN published' = 1 .. Len(published) + 1 /\ published'[Len(published) + 1] = p
          /\ \A i \in 1 .. Len(published) : published'[i] = published[i]
      BY <2>0, <3>1 DEF HeartbeatTypeOK
    <3>3. DOMAIN published = 1 .. Len(published) /\ Len(published) \in Nat
      BY <2>0 DEF HeartbeatTypeOK
    <3>4. \A i \in DOMAIN published' :
            OwnFolders(published'[i].listing.generation, published'[i].listing.folders)
      BY <2>0, <3>1, <3>2, <3>3 DEF NoForeignFolders
    <3> QED  BY <2>0, <2>10, <3>4 DEF Publish, heartbeatUnchanged, OwnInv, NoForeignFolders, ReplyOwn,
                                    SlotsOwn, OfThisStream, SilentUntilRead
  <2>11. CASE UNCHANGED vars
    BY <2>0, <2>11 DEF vars, OwnInv, NoForeignFolders, ReplyOwn, SlotsOwn, OfThisStream, SilentUntilRead
  <2> QED  BY <2>1, <2>2, <2>3, <2>4, <2>5, <2>6, <2>7, <2>8, <2>9, <2>10, <2>11
           DEF Next, Usb, Device, Session, Heartbeat
<1>3. OwnInv => NoForeignFolders
  BY DEF OwnInv
<1> QED  BY <1>1, <1>2, <1>3, TypeCorrect, PTL DEF SafeSpec
=============================================================================
