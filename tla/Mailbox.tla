------------------------------ MODULE Mailbox ------------------------------
(***************************************************************************)
(* The single-slot mailbox between the USB host thread and a worker thread *)
(* (QcDispatcher.hpp, and QcGzipInflater.hpp, whose slot is the same code).*)
(* submit() runs on the USB thread; run() is the worker's loop.  A         *)
(* message is written in two parts, its bytes and the length, command and  *)
(* wire size beside them ("stamp"), and read in two parts, so that a torn  *)
(* hand-over would show.  Each step below is one access to shared memory.  *)
(* The slot is used only after start(): the shim calls on_probe(), which   *)
(* starts the workers, before it arms the first IN transfer.               *)
(***************************************************************************)
EXTENDS Naturals, Sequences

CONSTANTS Messages,     \* the messages the USB thread may submit
          TooBig,       \* those larger than mailbox_
          Undecodable,  \* those gzip::inflate() fails on
          Zeroed,       \* the content of the zero-initialised mailbox
          MaxSubmits    \* bound on the number of calls of submit()

ASSUME MailboxAssumption ==
  /\ Zeroed \notin Messages
  /\ TooBig \subseteq Messages
  /\ Undecodable \subseteq Messages
  /\ MaxSubmits \in Nat

VARIABLES
  gunzip,   \* TRUE: QcGzipInflater's loop; FALSE: QcDispatcher's.  Constant.
  busy,     \* busy_
  sem,      \* the count of itemReadySem_, of limit 1
  bytes,    \* mailbox_
  stamp,    \* mailboxLen_, mailboxCommand_, mailboxWireSize_
  dropped,  \* droppedCount_
  uPc,      \* where the USB thread is in submit()
  msg,      \* submit()'s argument
  wPc,      \* where the worker is in run()
  seen,     \* the part of the mailbox the worker has read already
  \* history, not in the code:
  submits,  \* calls of submit() so far
  accepted, \* the messages submit() returned true for
  handled   \* what the sink was called with

usbVars == <<gunzip, uPc, msg, submits, accepted, dropped>>
workerVars == <<gunzip, wPc, seen, handled>>
vars == <<gunzip, busy, sem, bytes, stamp, dropped, uPc, msg, wPc, seen, submits, accepted, handled>>

Init ==
  /\ gunzip \in BOOLEAN
  /\ busy = FALSE
  /\ sem = 0
  /\ bytes = Zeroed
  /\ stamp = Zeroed
  /\ dropped = 0
  /\ uPc = "idle"
  /\ msg = Zeroed
  /\ wPc = "wait"
  /\ seen = Zeroed
  /\ submits = 0
  /\ accepted = << >>
  /\ handled = << >>

---------------------------------------------------------------------------
(* submit(), on the USB thread                                             *)

(* Only gzip messages, which QcDispatcher is never given, can fail to      *)
(* inflate.                                                                *)
Submittable == {m \in Messages : gunzip \/ m \notin Undecodable}

(* Seeded bug: the result of the exchange is ignored.                      *)
SubmitUnguarded(m) ==
  /\ uPc = "idle"
  /\ submits < MaxSubmits
  /\ submits' = submits + 1
  /\ msg' = m
  /\ busy' = TRUE
  /\ uPc' = "claimed"
  /\ UNCHANGED <<sem, bytes, stamp, dropped, accepted, workerVars>>

(* Seeded bug: the worker is woken before the mailbox is written.          *)
SubmitGivesFirst(m) ==
  /\ uPc = "idle"
  /\ submits < MaxSubmits
  /\ submits' = submits + 1
  /\ msg' = m
  /\ busy' = TRUE
  /\ uPc' = IF busy THEN "refused" ELSE "claimed"
  /\ sem' = IF busy THEN sem ELSE 1
  /\ UNCHANGED <<bytes, stamp, dropped, accepted, workerVars>>

(* busy_.exchange(true): refused when it was true already.                 *)
Submit(m) ==
  /\ uPc = "idle"
  /\ submits < MaxSubmits
  /\ submits' = submits + 1
  /\ msg' = m
  /\ busy' = TRUE
  /\ uPc' = IF busy THEN "refused" ELSE "claimed"
  /\ UNCHANGED <<sem, bytes, stamp, dropped, accepted, workerVars>>

(* Seeded bug: busy_ stays set when the message is too big.                *)
UnclaimForgotten ==
  /\ uPc = "claimed"
  /\ msg \in TooBig
  /\ uPc' = "refused"
  /\ UNCHANGED <<busy, sem, bytes, stamp, dropped, msg, submits, accepted, workerVars>>

(* Too big for the mailbox: the claim is given back.                       *)
Unclaim ==
  /\ uPc = "claimed"
  /\ msg \in TooBig
  /\ busy' = FALSE
  /\ uPc' = "refused"
  /\ UNCHANGED <<sem, bytes, stamp, dropped, msg, submits, accepted, workerVars>>

(* Seeded bug: the message is dropped without being counted.               *)
CountDropForgotten ==
  /\ uPc = "refused"
  /\ uPc' = "idle"
  /\ UNCHANGED <<busy, sem, bytes, stamp, dropped, msg, submits, accepted, workerVars>>

(* droppedCount_.fetch_add(1); return false                                *)
CountDrop ==
  /\ uPc = "refused"
  /\ dropped' = dropped + 1
  /\ uPc' = "idle"
  /\ UNCHANGED <<busy, sem, bytes, stamp, msg, submits, accepted, workerVars>>

CopyBytes ==
  /\ uPc = "claimed"
  /\ msg \notin TooBig
  /\ bytes' = msg
  /\ uPc' = "copied"
  /\ UNCHANGED <<busy, sem, stamp, dropped, msg, submits, accepted, workerVars>>

WriteStamp ==
  /\ uPc = "copied"
  /\ stamp' = msg
  /\ uPc' = "stamped"
  /\ UNCHANGED <<busy, sem, bytes, dropped, msg, submits, accepted, workerVars>>

(* k_sem_give(&itemReadySem_); return true.  A give at the limit is lost.  *)
Give ==
  /\ uPc = "stamped"
  /\ sem' = 1
  /\ accepted' = Append(accepted, msg)
  /\ uPc' = "idle"
  /\ UNCHANGED <<busy, bytes, stamp, dropped, msg, submits, workerVars>>

---------------------------------------------------------------------------
(* run(), on the worker thread                                             *)

(* Seeded bug: the slot is freed when the worker picks the message up.     *)
TakeReleasesEarly ==
  /\ wPc = "wait"
  /\ sem = 1
  /\ sem' = 0
  /\ wPc' = "taken"
  /\ busy' = FALSE
  /\ UNCHANGED <<bytes, stamp, seen, handled, usbVars>>

(* k_sem_take(&itemReadySem_, K_FOREVER)                                   *)
Take ==
  /\ wPc = "wait"
  /\ sem = 1
  /\ sem' = 0
  /\ wPc' = "taken"
  /\ UNCHANGED <<busy, bytes, stamp, seen, handled, usbVars>>

(* QcDispatcher calls the sink with the stamp by value and a view of the   *)
(* mailbox, ...                                                            *)
CallSink ==
  /\ ~gunzip
  /\ wPc = "taken"
  /\ seen' = stamp
  /\ wPc' = "half"
  /\ UNCHANGED <<busy, sem, bytes, stamp, handled, usbVars>>

(* ... which the sink has read when it returns.                            *)
SinkReturns ==
  /\ ~gunzip
  /\ wPc = "half"
  /\ handled' = Append(handled, [bytes |-> bytes, stamp |-> seen, ok |-> TRUE])
  /\ wPc' = "done"
  /\ UNCHANGED <<busy, sem, bytes, stamp, seen, usbVars>>

(* QcGzipInflater decompresses the mailbox into output_, ...               *)
Inflate ==
  /\ gunzip
  /\ wPc = "taken"
  /\ seen' = bytes
  /\ wPc' = "half"
  /\ UNCHANGED <<busy, sem, bytes, stamp, handled, usbVars>>

(* ... then calls onMessage(), or onInflateFailed(), with the stamp.       *)
ReportInflated ==
  /\ gunzip
  /\ wPc = "half"
  /\ handled' = Append(handled, [bytes |-> seen, stamp |-> stamp, ok |-> seen \notin Undecodable])
  /\ wPc' = "done"
  /\ UNCHANGED <<busy, sem, bytes, stamp, seen, usbVars>>

(* busy_.store(false)                                                      *)
Release ==
  /\ wPc = "done"
  /\ busy' = FALSE
  /\ wPc' = "wait"
  /\ UNCHANGED <<sem, bytes, stamp, seen, handled, usbVars>>

---------------------------------------------------------------------------
SubmitStep == Unclaim \/ CountDrop \/ CopyBytes \/ WriteStamp \/ Give
WorkerStep == Take \/ CallSink \/ SinkReturns \/ Inflate \/ ReportInflated \/ Release

Next ==
  \/ \E m \in Submittable : Submit(m)
  \/ SubmitStep
  \/ WorkerStep

SafeSpec == Init /\ [][Next]_vars

(* A call of submit() runs to its end and the worker is scheduled; nothing *)
(* obliges the USB thread to submit.                                       *)
Spec == SafeSpec /\ WF_vars(SubmitStep) /\ WF_vars(WorkerStep)
---------------------------------------------------------------------------
(* Properties                                                              *)

Holding == {"claimed", "copied", "stamped"}   \* submit() has claimed the slot
Reading == {"taken", "half"}                  \* run() has not finished with it

Outcome(m) == [bytes |-> m, stamp |-> m, ok |-> m \notin Undecodable]

(* Every variable has its type; in particular the semaphore stays within   *)
(* its limit and the sink is never called with a mailbox that nobody has   *)
(* written (QcDispatcher.hpp, QcGzipInflater.hpp).                         *)
TypeOK ==
  /\ gunzip \in BOOLEAN
  /\ busy \in BOOLEAN
  /\ sem \in {0, 1}
  /\ bytes \in Messages \cup {Zeroed}
  /\ stamp \in Messages \cup {Zeroed}
  /\ dropped \in Nat
  /\ uPc \in {"idle", "refused"} \cup Holding
  /\ msg \in Messages \cup {Zeroed}
  /\ wPc \in {"wait", "done"} \cup Reading
  /\ seen \in Messages \cup {Zeroed}
  /\ submits \in Nat
  /\ accepted \in Seq(Messages)
  /\ handled \in Seq([bytes : Messages, stamp : Messages, ok : BOOLEAN])

(* The USB thread never writes the mailbox while the worker has yet to     *)
(* read it: submit() past its busy_ check, the posted semaphore and the    *)
(* worker between k_sem_take() and the sink's return exclude one another.  *)
(* There is no lock on the mailbox: only the order of busy_, the copy and  *)
(* the semaphore in submit() and run() makes this true.                    *)
SlotExclusive ==
  /\ (uPc \in Holding) => (sem = 0 /\ wPc = "wait")
  /\ (sem = 1) => (wPc = "wait")

(* The sink is called once for each message submit() returned true for, in *)
(* that order, with bytes, command and sizes of the same message, and is   *)
(* told of a failed inflate exactly when it failed.                        *)
IntactInOrder ==
  /\ Len(handled) <= Len(accepted)
  /\ \A i \in 1 .. Len(handled) : handled[i] = Outcome(accepted[i])

(* droppedCount() "exists precisely to answer this": once submit() has     *)
(* returned, every message it was given reached the sink, is the one in    *)
(* the slot, or is in the count.                                           *)
NothingLostUncounted ==
  /\ submits = Len(accepted) + dropped + (IF uPc = "idle" THEN 0 ELSE 1)
  /\ Len(accepted) - Len(handled) \in {0, 1}

(* The slot as its callers see it: MessageSlot.  The slot counts as free   *)
(* while submit() holds a claim it will give back because the message is   *)
(* too big, and a message counts as refused from that decision on.         *)
Slot == INSTANCE MessageSlot WITH
  busy <- busy /\ ~(uPc = "claimed" /\ msg \in TooBig),
  inHand <- IF uPc \in Holding /\ ~(uPc = "claimed" /\ msg \in TooBig) THEN <<msg>>
            ELSE IF sem = 1 \/ wPc \in Reading THEN <<bytes>> ELSE << >>,
  handled <- handled,
  dropped <- dropped + (IF uPc = "refused" THEN 1 ELSE 0)

(* Mailbox implements MessageSlot: a message is refused only while the     *)
(* slot is taken or when it is too big ("Returns false (message dropped)   *)
(* if a previous item hasn't finished dispatching yet, or if protoBytes is *)
(* larger than this module's mailbox"), and the slot always becomes free.  *)
ImplementsSlot == Slot!Spec
=============================================================================
