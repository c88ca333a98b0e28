---------------------------- MODULE HidFraming -----------------------------
(***************************************************************************)
(* How a message of the Quad Cortex becomes HID reports and a message      *)
(* again: HidChunker's framing (which the device uses too), a wire that    *)
(* may lose packets without a trace, QcHidBridge::onReportIn() joining the *)
(* pieces of a report, and HidReassembler::feed().                         *)
(*                                                                         *)
(* A byte of message k is the cell <<k, i>>; lengths and the conditions on *)
(* them are the code's, with smaller limits.  A report travels whole       *)
(* (RW612) or as a 128-byte and a 1-byte packet (ESP32-S3), variable split.*)
(* The device puts a report on the wire when the one before has gone; an   *)
(* endpoint keeps its packets in order, so this loses no behaviour.        *)
(***************************************************************************)
EXTENDS Naturals, Sequences, FiniteSets

CONSTANTS MaxPayload,   \* kHidMaxPayloadPerReport, 126
          ConfusedLen,  \* the chunk length whose byte reads as HidReportFlag::First, 64
          Capacity,     \* kReassemblyCapacity
          Sizes,        \* the sizes of the messages the device sends
          Splits,       \* whether reports travel as two packets: subset of BOOLEAN
          Droppable,    \* the packets the wire may lose: subset of {"whole", "head", "tail"}
          MaxMessages,  \* bound on the messages sent
          MaxLost,      \* bound on the packets lost
          MaxUnplugs    \* bound on the disconnects

ASSUME HidAssumption ==
  /\ MaxPayload \in Nat \ {0, 1}
  /\ ConfusedLen \in 1 .. MaxPayload - 1
  /\ Capacity \in Nat
  /\ Sizes \subseteq Nat
  /\ Splits \subseteq BOOLEAN
  /\ MaxMessages \in Nat /\ MaxLost \in Nat /\ MaxUnplugs \in Nat

VARIABLES
  split,      \* the controller takes a report in two transfers; it never changes
  sizes,      \* the messages the device has begun to send: message k has sizes[k] bytes
  offset,     \* HidChunker::offset_ in the latest of them
  emitted,    \* HidChunker::emittedAtLeastOne_
  connected,  \* the interface is claimed
  wire,       \* the packets of the report in flight
  partial,    \* partialReport_: the packets of a report received so far
  asm,        \* HidReassembler: buffer, overflowing, overflowSize
  transfers,  \* totalInTransfers_
  malformed,  \* reassemblyMalformedCount_
  results,    \* what the session was given: messages, and sizes of overflows
  \* history, not in the code:
  sent,       \* reports put on the wire
  intact,     \* reports fed to the reassembler as they were sent
  lost,       \* packets lost, and reports cut off by a disconnect
  damaged,    \* messages that lost a packet
  beheaded,   \* messages that lost a packet of their first report
  unplugs

chunkerVars == <<split, sizes, offset, emitted, sent>>
bridgeVars == <<partial, asm, transfers, malformed, results, intact>>
vars == <<chunkerVars, connected, wire, bridgeVars, lost, damaged, beheaded, unplugs>>

Least(a, b) == IF a < b THEN a ELSE b
Current == Len(sizes)
CurrentSize == IF Current = 0 THEN 0 ELSE sizes[Current]
Idle == [buffer |-> << >>, overflowing |-> FALSE, overflowSize |-> 0]
Junk == <<0, 0>>   \* a header or padding byte taken for payload

(* The bytes of a report and of its two parts; the size of partialReport_. *)
ReportSize == 129
PartSize == [whole |-> ReportSize, head |-> ReportSize - 1, tail |-> 1]
Count(ps, part) == Cardinality({i \in 1 .. Len(ps) : ps[i].part = part})
PartsSize(ps) == Count(ps, "whole") * PartSize.whole + Count(ps, "head") * PartSize.head
                   + Count(ps, "tail") * PartSize.tail
Reports(ps) == {ps[i].report : i \in 1 .. Len(ps)}

Init ==
  /\ split \in Splits
  /\ sizes = << >> /\ offset = 0 /\ emitted = TRUE
  /\ connected = FALSE
  /\ wire = << >> /\ partial = << >>
  /\ asm = Idle
  /\ transfers = 0 /\ malformed = 0 /\ results = << >>
  /\ sent = 0 /\ intact = 0 /\ lost = 0 /\ damaged = {} /\ beheaded = {}
  /\ unplugs = 0

---------------------------------------------------------------------------
(* HidChunker, on the sending side                                         *)

Done == emitted /\ offset >= CurrentSize

StartMessage(size) ==
  /\ connected
  /\ Done
  /\ wire = << >>
  /\ Current < MaxMessages
  /\ sizes' = Append(sizes, size)
  /\ offset' = 0
  /\ emitted' = FALSE
  /\ UNCHANGED <<split, connected, wire, bridgeVars, sent, lost, damaged, beheaded, unplugs>>

Flag(isFirst, isLast) ==
  CASE isFirst /\ isLast   -> "Single"
    [] isFirst /\ ~isLast  -> "First"
    [] ~isFirst /\ isLast  -> "Last"
    [] ~isFirst /\ ~isLast -> "Middle"

FlagOf(off, len) == Flag(off = 0, off + len >= CurrentSize)

(* HidChunker::next(): the next report of the message goes on the wire.    *)
EmitReport ==
  /\ connected
  /\ ~Done
  /\ wire = << >>
  /\ LET len == Least(CurrentSize - offset, MaxPayload)
         r == [msg |-> Current, off |-> offset, len |-> len,
               flag |-> FlagOf(offset, len)]
     IN /\ wire' = IF split THEN <<[part |-> "head", report |-> r], [part |-> "tail", report |-> r]>>
                            ELSE <<[part |-> "whole", report |-> r]>>
        /\ offset' = offset + len
  /\ emitted' = TRUE
  /\ sent' = sent + 1
  /\ UNCHANGED <<split, sizes, connected, bridgeVars, lost, damaged, beheaded, unplugs>>

(* The device drops what it cannot send in time; nobody is told.           *)
Lose ==
  /\ wire # << >>
  /\ Head(wire).part \in Droppable
  /\ lost < MaxLost
  /\ lost' = lost + 1
  /\ damaged' = damaged \cup {Head(wire).report.msg}
  /\ beheaded' = beheaded \cup (IF Head(wire).report.off = 0 THEN {Head(wire).report.msg} ELSE {})
  /\ wire' = Tail(wire)
  /\ UNCHANGED <<chunkerVars, connected, bridgeVars, unplugs>>

---------------------------------------------------------------------------
(* HidReassembler                                                          *)

IsFirst(r) == r.flag \in {"First", "Single"}
IsLast(r) == r.flag \in {"Last", "Single"}

Fail == [asm |-> Idle, status |-> "Malformed"]

(* Seeded bug: a new message does not clear what is left of the last one.  *)
StartKeepsOldState(s, r) == s

(* A FIRST or SINGLE report starts afresh.                                 *)
Start(s, r) == IF IsFirst(r) THEN Idle ELSE s

(* A continuation with nothing to continue.                                *)
NoBeginning(s, r) == ~IsFirst(r) /\ s.buffer = << >> /\ ~s.overflowing

(* Seeded bug: off by one, a full buffer takes one more byte.              *)
FitsOneTooMany(s, r) == ~s.overflowing /\ Len(s.buffer) + r.len <= Capacity + 1

Fits(s, r) == ~s.overflowing /\ Len(s.buffer) + r.len <= Capacity

(* The body does not fit: from here on only its size is kept.              *)
Overflow(s, r) ==
  [asm |-> [buffer |-> << >>, overflowing |-> ~IsLast(r),
            overflowSize |-> r.len + (IF s.overflowing THEN s.overflowSize ELSE Len(s.buffer))],
   status |-> IF IsLast(r) THEN "Overflow" ELSE "InProgress"]

(* feed(): the reassembler's next state and the status returned.           *)
Feed(s, r) ==
  LET base == Start(s, r)
  IN CASE r.len > MaxPayload \/ r.flag = "bad" \/ NoBeginning(s, r) -> Fail
       [] OTHER -> IF Fits(base, r)
                   THEN [asm |-> [base EXCEPT !.buffer = @ \o r.cells],
                         status |-> IF IsLast(r) THEN "Complete" ELSE "InProgress"]
                   ELSE Overflow(base, r)

---------------------------------------------------------------------------
(* QcHidBridge                                                             *)

(* The bytes of a joined report, read as a report.  With a head first it   *)
(* is that report, but for the byte the tail holds; with a tail first, the *)
(* report id 1 is read as the chunk length and the length as the flags.    *)
AsReport(ps) ==
  LET a == ps[1].report
      b == ps[Len(ps)].report
      cell(r, i) == IF i <= r.len THEN <<r.msg, r.off + i>> ELSE Junk
  IN IF ps[1].part = "tail"
     THEN [len |-> 1, cells |-> <<Junk>>,
           flag |-> CASE b.len = 0 -> "Middle" [] b.len = ConfusedLen -> "First" [] OTHER -> "bad"]
     ELSE [len |-> a.len, flag |-> a.flag,
           cells |-> [i \in 1 .. a.len |-> cell(IF i = MaxPayload THEN b ELSE a, i)]]

(* feedReport(): a complete message goes to QcSession::handleMessage(), an *)
(* overflow to recordReassemblyOverflow().                                 *)
FeedReport(ps, dropped) ==
  LET r == AsReport(ps)
      f == Feed(asm, r)
      by == ps[Len(ps)].report.msg
  IN /\ asm' = f.asm
     /\ results' = CASE f.status = "Complete" ->
                          Append(results, [kind |-> "message", by |-> by, body |-> f.asm.buffer])
                     [] f.status = "Overflow" ->
                          Append(results, [kind |-> "overflow", by |-> by, body |-> f.asm.overflowSize])
                     [] OTHER -> results
     /\ malformed' = malformed + dropped + (IF f.status = "Malformed" THEN 1 ELSE 0)
     /\ intact' = intact + (IF ps[1].part # "tail" /\ Cardinality(Reports(ps)) = 1 THEN 1 ELSE 0)

(* More bytes than a report has: a piece was lost somewhere.               *)
Restarts(transfer) == PartsSize(partial) + PartSize[transfer.part] > ReportSize

(* Seeded bug: the transfer is dropped with what is pending.               *)
JoinedDropsBoth(transfer) == IF Restarts(transfer) THEN << >> ELSE Append(partial, transfer)

Joined(transfer) == IF Restarts(transfer) THEN <<transfer>> ELSE Append(partial, transfer)

(* onReportIn(): one successful IN transfer.                               *)
OnReportIn ==
  /\ connected
  /\ wire # << >>
  /\ LET joined == Joined(Head(wire))
         dropped == IF Restarts(Head(wire)) THEN 1 ELSE 0
     IN IF PartsSize(joined) = ReportSize
        THEN /\ partial' = << >>
             /\ FeedReport(joined, dropped)
        ELSE /\ partial' = joined
             /\ malformed' = malformed + dropped
             /\ UNCHANGED <<asm, results, intact>>
  /\ wire' = Tail(wire)
  /\ transfers' = transfers + 1
  /\ UNCHANGED <<chunkerVars, connected, lost, damaged, beheaded, unplugs>>

(* onProbe() accepts the interface.                                        *)
OnProbe ==
  /\ ~connected
  /\ connected' = TRUE
  /\ partial' = << >>
  /\ UNCHANGED <<chunkerVars, wire, asm, transfers, malformed, results, intact, lost, damaged,
                 beheaded, unplugs>>

(* The device is unplugged, whatever it was sending: onRemoved().  The     *)
(* reassembler keeps what it has.                                          *)
OnRemoved ==
  /\ connected
  /\ unplugs < MaxUnplugs
  /\ connected' = FALSE
  /\ partial' = << >>
  /\ wire' = << >>
  /\ offset' = CurrentSize
  /\ emitted' = TRUE
  /\ LET cut == Reports(wire) \cup Reports(partial)
     IN /\ lost' = lost + Cardinality(cut)
        /\ damaged' = damaged \cup {r.msg : r \in cut} \cup (IF Done THEN {} ELSE {Current})
  /\ unplugs' = unplugs + 1
  /\ UNCHANGED <<split, sizes, sent, asm, transfers, malformed, results, intact, beheaded>>

---------------------------------------------------------------------------
Next ==
  \/ \E size \in Sizes : StartMessage(size)
  \/ EmitReport
  \/ Lose
  \/ OnReportIn
  \/ OnProbe
  \/ OnRemoved

Spec == Init /\ [][Next]_vars
---------------------------------------------------------------------------
(* Properties                                                              *)

Cells == (0 .. MaxMessages) \X Nat
Report == [msg : 1 .. MaxMessages, off : Nat, len : 0 .. MaxPayload,
           flag : {"First", "Middle", "Last", "Single"}]
Packet == [part : {"whole", "head", "tail"}, report : Report]
Result == [kind : {"message"}, by : 1 .. MaxMessages, body : Seq(Cells)] \cup
          [kind : {"overflow"}, by : 1 .. MaxMessages, body : Nat]

(* The types of the framing state; the reassembly buffer stays within its  *)
(* capacity and the joined pieces within one report (HidReassembler.hpp    *)
(* and QcHidBridge.hpp hold both in fixed arrays).                         *)
ChunkerTypeOK ==
  /\ split \in BOOLEAN /\ sizes \in Seq(Sizes) /\ Len(sizes) <= MaxMessages
  /\ offset \in Nat /\ emitted \in BOOLEAN /\ sent \in Nat

ReassemblerTypeOK ==
  /\ asm \in [buffer : Seq(Cells), overflowing : BOOLEAN, overflowSize : Nat]
  /\ Len(asm.buffer) <= Capacity
  /\ asm.overflowing => asm.buffer = << >>

BridgeTypeOK ==
  /\ wire \in Seq(Packet)
  /\ partial \in Seq(Packet) /\ PartsSize(partial) < ReportSize
  /\ results \in Seq(Result)
  /\ transfers \in Nat /\ malformed \in Nat /\ intact \in Nat

TypeOK ==
  /\ ChunkerTypeOK
  /\ ReassemblerTypeOK
  /\ BridgeTypeOK
  /\ connected \in BOOLEAN
  /\ lost \in Nat /\ unplugs \in Nat
  /\ damaged \subseteq 1 .. MaxMessages /\ beheaded \subseteq damaged

Body(k) == [i \in 1 .. sizes[k] |-> <<k, i>>]

Expected(k) ==
  IF sizes[k] <= Capacity THEN [kind |-> "message", by |-> k, body |-> Body(k)]
                          ELSE [kind |-> "overflow", by |-> k, body |-> sizes[k]]

Arrived(k) == k < Current \/ (Done /\ wire = << >> /\ partial = << >>)

(* A message none of whose packets was lost reaches the session once, byte *)
(* for byte, or is reported as an overflow of its true size, whatever was  *)
(* lost before it: every FIRST or SINGLE report starts HidReassembler      *)
(* afresh, also after a disconnect in the middle of a message.             *)
UndamagedArrive ==
  /\ \A k \in 1 .. Current : (k \notin damaged /\ Arrived(k)) =>
       \E n \in 1 .. Len(results) : results[n] = Expected(k)
  /\ \A m, n \in 1 .. Len(results) : m < n => results[m].by < results[n].by

(* Only message k, from its first byte on, each byte once and in order.    *)
OfOneMessage(body, k) ==
  /\ body # << >> => body[1] = <<k, 1>>
  /\ \A i, j \in 1 .. Len(body) : body[i][1] = k /\ (i < j => body[i][2] < body[j][2])

(* A message whose own FIRST report was not lost is handed over from its   *)
(* first byte on and with nothing of another message in it, although       *)
(* feed() leaves a completed message in buffer_ and continues it.  One     *)
(* whose FIRST was lost is left out: its later reports are appended to     *)
(* what buffer_ still holds (HidReassembler.hpp:90).                       *)
BeginsWithItsFirst ==
  \A n \in 1 .. Len(results) :
    (results[n].kind = "message" /\ results[n].by \notin beheaded) =>
      OfOneMessage(results[n].body, results[n].by)

(* "one missing packet costs one report rather than knocking every report  *)
(* after it out of step" (QcHidBridge::onReportIn): no more reports fail   *)
(* to reach the reassembler intact than packets were lost.                 *)
OnePacketCostsOneReport ==
  sent <= intact + lost + Cardinality(Reports(wire) \cup Reports(partial))
=============================================================================
