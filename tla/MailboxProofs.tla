--------------------------- MODULE MailboxProofs ---------------------------
(***************************************************************************)
(* The mailbox's safety, for any set of messages and any number of calls   *)
(* of submit().  The inductive invariant says who owns the slot in every   *)
(* control state, and what the mailbox and the histories then hold.        *)
(***************************************************************************)
EXTENDS Mailbox, TLAPS

(* busy_ is set exactly while submit(), the semaphore or the worker has    *)
(* the slot.                                                               *)
BusyMeansOwned == busy <=> (uPc \in Holding \/ sem = 1 \/ wPc # "wait")

(* The three owners exclude one another.                                   *)
OneOwner ==
  /\ (uPc \in Holding) => (sem = 0 /\ wPc = "wait")
  /\ (sem = 1) => (wPc = "wait")

(* What submit() has written so far is the message it was given.           *)
Written ==
  /\ (uPc # "idle") => (msg \in Submittable)
  /\ (uPc \in {"copied", "stamped"}) => (bytes = msg)
  /\ (uPc = "stamped") => (stamp = msg)

(* The accepted messages are those handled, and the one in the slot.       *)
InSlot ==
  IF sem = 1 \/ wPc \in Reading
  THEN /\ bytes \in Submittable
       /\ stamp = bytes
       /\ Len(accepted) = Len(handled) + 1
       /\ accepted[Len(accepted)] = bytes
  ELSE Len(accepted) = Len(handled)

(* What the worker has read already is the message in the slot.            *)
HalfRead == (wPc = "half") => (seen = bytes)

HandledIsAccepted ==
  \A i \in 1 .. Len(handled) : i \in 1 .. Len(accepted) /\ handled[i] = Outcome(accepted[i])

Counted == submits = Len(accepted) + dropped + (IF uPc = "idle" THEN 0 ELSE 1)

IInv ==
  /\ TypeOK
  /\ BusyMeansOwned
  /\ OneOwner
  /\ Written
  /\ InSlot
  /\ HalfRead
  /\ HandledIsAccepted
  /\ Counted

---------------------------------------------------------------------------
(* The invariant holds initially and is preserved by every step.           *)
LEMMA InitIInv == Init => IInv
<1> SUFFICES ASSUME Init
             PROVE  IInv
  OBVIOUS
<1> USE DEF Init
<1>1. TypeOK
  <2>1. << >> \in Seq(Messages)
    OBVIOUS
  <2>2. << >> \in Seq([bytes : Messages, stamp : Messages, ok : BOOLEAN])
    OBVIOUS
  <2> QED
    BY <2>1, <2>2, Zenon DEF TypeOK, Holding, Reading
<1>2. BusyMeansOwned /\ OneOwner /\ Written /\ HalfRead
  BY DEF BusyMeansOwned, OneOwner, Written, HalfRead, Holding
<1>3. InSlot
  BY DEF InSlot, Reading
<1>4. HandledIsAccepted
  BY DEF HandledIsAccepted
<1>5. Counted
  BY DEF Counted
<1> QED
  BY <1>1, <1>2, <1>3, <1>4, <1>5 DEF IInv

(* Every shared access keeps the invariant.                                *)
LEMMA StepIInv == IInv /\ [Next]_vars => IInv'
<1> SUFFICES ASSUME IInv, [Next]_vars
             PROVE  IInv'
  OBVIOUS
<1> USE MailboxAssumption
        DEF IInv, TypeOK, BusyMeansOwned, OneOwner, Written, InSlot, HalfRead,
            HandledIsAccepted, Counted, Holding, Reading, Submittable, usbVars, workerVars
<1>1. ASSUME NEW m \in Submittable, Submit(m)
      PROVE  IInv'
  BY <1>1 DEF Submit
<1>2. CASE Unclaim
  <2>1. sem = 0 /\ wPc = "wait"
    BY <1>2 DEF Unclaim
  <2>2. BusyMeansOwned' /\ OneOwner' /\ Written'
    BY <1>2, <2>1 DEF Unclaim
  <2>3. TypeOK'
    BY <1>2 DEF Unclaim
  <2>4. InSlot' /\ HalfRead' /\ HandledIsAccepted'
    BY <1>2 DEF Unclaim
  <2>5. Counted'
    BY <1>2 DEF Unclaim
  <2> QED
    BY <2>2, <2>3, <2>4, <2>5
<1>3. CASE CountDrop
  BY <1>3 DEF CountDrop
<1>4. CASE CopyBytes
  BY <1>4 DEF CopyBytes
<1>5. CASE WriteStamp
  BY <1>5 DEF WriteStamp
<1>6. CASE Give
  BY <1>6 DEF Give
<1>7. CASE Take
  BY <1>7 DEF Take
<1>8. CASE CallSink
  BY <1>8 DEF CallSink
<1>9. CASE SinkReturns
  <2> DEFINE out == [bytes |-> bytes, stamp |-> seen, ok |-> TRUE]
  <2>1. out \in [bytes : Messages, stamp : Messages, ok : BOOLEAN]
    BY <1>9 DEF SinkReturns
  <2>2. out = Outcome(bytes)
    BY <1>9 DEF SinkReturns, Outcome
  <2>3. handled' = Append(handled, out)
    BY <1>9 DEF SinkReturns
  <2> HIDE DEF out
  <2>4. TypeOK'
    BY <1>9, <2>1, <2>3 DEF SinkReturns
  <2>5. BusyMeansOwned' /\ OneOwner' /\ Written' /\ HalfRead'
    BY <1>9 DEF SinkReturns
  <2>6. InSlot' /\ Counted'
    BY <1>9, <2>1, <2>3 DEF SinkReturns
  <2>7. HandledIsAccepted'
    BY <1>9, <2>1, <2>2, <2>3 DEF SinkReturns
  <2> QED
    BY <2>4, <2>5, <2>6, <2>7
<1>10. CASE Inflate
  BY <1>10 DEF Inflate
<1>11. CASE ReportInflated
  BY <1>11 DEF ReportInflated, Outcome
<1>12. CASE Release
  BY <1>12 DEF Release
<1>13. CASE UNCHANGED vars
  BY <1>13 DEF vars
<1> QED
  BY <1>1, <1>2, <1>3, <1>4, <1>5, <1>6, <1>7, <1>8, <1>9, <1>10, <1>11, <1>12, <1>13
     DEF Next, SubmitStep, WorkerStep

(* Hence it holds in every reachable state.                                *)
LEMMA Inductive == Spec => []IInv
<1>1. Spec => SafeSpec
  BY PTL DEF Spec
<1>2. SafeSpec => []IInv
  BY InitIInv, StepIInv, PTL DEF SafeSpec
<1> QED
  BY <1>1, <1>2

---------------------------------------------------------------------------
(* QcDispatcher / QcGzipInflater: every variable keeps its type, so the    *)
(* semaphore stays within its limit and the sink never sees a mailbox that *)
(* was not written.                                                        *)
THEOREM TypeCorrect == Spec => []TypeOK
<1>1. IInv => TypeOK
  BY DEF IInv
<1> QED
  BY <1>1, Inductive, PTL

(* submit() never writes the mailbox while run() is still to read it, for  *)
(* any messages and any number of calls.                                   *)
THEOREM Exclusion == Spec => []SlotExclusive
<1>1. IInv => SlotExclusive
  BY DEF IInv, OneOwner, SlotExclusive
<1> QED
  BY <1>1, Inductive, PTL

(* The sink is called exactly with the accepted messages, whole and in     *)
(* their order.                                                            *)
THEOREM HandledIntactInOrder == Spec => []IntactInOrder
<1>1. IInv => IntactInOrder
  <2> SUFFICES ASSUME IInv
               PROVE  IntactInOrder
    OBVIOUS
  <2>1. Len(accepted) \in Nat /\ Len(handled) \in Nat
    BY DEF IInv, TypeOK
  <2>2. Len(handled) <= Len(accepted)
    BY <2>1 DEF IInv, InSlot
  <2> QED
    BY <2>2 DEF IntactInOrder, IInv, HandledIsAccepted
<1> QED
  BY <1>1, Inductive, PTL

(* A message given to submit() is handled, in the slot or counted.         *)
THEOREM DropsAreCounted == Spec => []NothingLostUncounted
<1>1. IInv => NothingLostUncounted
  <2> SUFFICES ASSUME IInv
               PROVE  NothingLostUncounted
    OBVIOUS
  <2>1. Len(accepted) \in Nat /\ Len(handled) \in Nat
    BY DEF IInv, TypeOK
  <2>2. Len(accepted) - Len(handled) \in {0, 1}
    BY <2>1 DEF IInv, InSlot
  <2> QED
    BY <2>2 DEF NothingLostUncounted, IInv, Counted
<1> QED
  BY <1>1, Inductive, PTL

---------------------------------------------------------------------------
(* The mailbox implements MessageSlot's safety: each step of the two       *)
(* threads is one of the slot's steps or invisible to its users.           *)
LEMMA StepSimulates == IInv /\ [Next]_vars => [Slot!Next]_Slot!vars
<1> SUFFICES ASSUME IInv, [Next]_vars
             PROVE  [Slot!Next]_Slot!vars
  OBVIOUS
<1> USE MailboxAssumption
        DEF IInv, TypeOK, BusyMeansOwned, OneOwner, Written, InSlot, HalfRead,
            Holding, Reading, Submittable, usbVars, workerVars
<1>1. ASSUME NEW m \in Submittable, Submit(m)
      PROVE  Slot!Accept(m) \/ Slot!Refuse(m) \/ UNCHANGED Slot!vars
  BY <1>1 DEF Submit, Slot!Accept, Slot!Refuse, Slot!vars
<1>2. CASE Unclaim
  <2>1. msg \in Messages /\ Slot!Refuse(msg)
    BY <1>2 DEF Unclaim, Slot!Refuse
  <2> QED
    BY <2>1 DEF Slot!Next
<1>3. CASE CountDrop
  BY <1>3 DEF CountDrop, Slot!vars
<1>4. CASE CopyBytes
  BY <1>4 DEF CopyBytes, Slot!vars
<1>5. CASE WriteStamp
  BY <1>5 DEF WriteStamp, Slot!vars
<1>6. CASE Give
  BY <1>6 DEF Give, Slot!vars
<1>7. CASE Take
  BY <1>7 DEF Take, Slot!vars
<1>8. CASE CallSink
  BY <1>8 DEF CallSink, Slot!vars
<1>9. CASE SinkReturns
  <2>1. bytes \notin Undecodable /\ seen = bytes
    BY <1>9 DEF SinkReturns
  <2>2. handled' = Append(handled, Slot!Outcome(bytes))
    BY <1>9, <2>1 DEF SinkReturns, Slot!Outcome
  <2>3. Slot!Handle
    BY <1>9, <2>2 DEF SinkReturns, Slot!Handle
  <2> QED
    BY <2>3 DEF Slot!Next
<1>10. CASE Inflate
  BY <1>10 DEF Inflate, Slot!vars
<1>11. CASE ReportInflated
  <2>1. Slot!Handle
    BY <1>11 DEF ReportInflated, Slot!Handle, Slot!Outcome
  <2> QED
    BY <2>1 DEF Slot!Next
<1>12. CASE Release
  <2>1. Slot!Free
    BY <1>12 DEF Release, Slot!Free
  <2> QED
    BY <2>1 DEF Slot!Next
<1>13. CASE UNCHANGED vars
  BY <1>13 DEF vars, Slot!vars
<1> QED
  BY <1>1, <1>2, <1>3, <1>4, <1>5, <1>6, <1>7, <1>8, <1>9, <1>10, <1>11, <1>12, <1>13
     DEF Next, SubmitStep, WorkerStep, Slot!Next

(* submit() and run(), access by access, do what MessageSlot promises:     *)
(* accept or refuse at once, and hand over what was accepted.              *)
THEOREM Refinement == Spec => Slot!SafeSpec
<1>1. Init => Slot!Init
  BY DEF Init, Slot!Init, Holding, Reading
<1>2. Spec => SafeSpec
  BY PTL DEF Spec
<1>3. SafeSpec /\ []IInv => Slot!SafeSpec
  BY <1>1, StepSimulates, PTL DEF SafeSpec, Slot!SafeSpec
<1> QED
  BY <1>2, <1>3, Inductive
=============================================================================
