---------------------------- MODULE MessageSlot ----------------------------
(***************************************************************************)
(* What a worker of the session promises the USB thread, as the comments   *)
(* of QcDispatcher::submit() and QcGzipInflater::submit() put it: a slot   *)
(* for one message.  A message is refused, and counted, only while an      *)
(* earlier one has not been finished or when it is too big; every accepted *)
(* message is handled exactly once, whole and in the order of acceptance.  *)
(* Mailbox implements this specification.                                  *)
(***************************************************************************)
EXTENDS Naturals, Sequences

CONSTANTS Messages,     \* what the USB thread may hand over
          TooBig,       \* those larger than the mailbox
          Undecodable   \* those gzip::inflate() fails on

VARIABLES busy,      \* the slot is taken
          inHand,    \* << >> or <<m>>: the message accepted and not yet handled
          handled,   \* what the sink was called with, in order
          dropped    \* refusals

vars == <<busy, inHand, handled, dropped>>

(* What the sink is given for message m: its bytes, the command and sizes  *)
(* stored with them, and onMessage() (ok) or onInflateFailed().            *)
Outcome(m) == [bytes |-> m, stamp |-> m, ok |-> m \notin Undecodable]

Init ==
  /\ busy = FALSE
  /\ inHand = << >>
  /\ handled = << >>
  /\ dropped = 0

Accept(m) ==
  /\ ~busy
  /\ m \notin TooBig
  /\ busy' = TRUE
  /\ inHand' = <<m>>
  /\ UNCHANGED <<handled, dropped>>

Handle ==
  /\ inHand # << >>
  /\ handled' = Append(handled, Outcome(Head(inHand)))
  /\ inHand' = << >>
  /\ UNCHANGED <<busy, dropped>>

Free ==
  /\ busy
  /\ inHand = << >>
  /\ busy' = FALSE
  /\ UNCHANGED <<inHand, handled, dropped>>

Refuse(m) ==
  /\ busy \/ m \in TooBig
  /\ dropped' = dropped + 1
  /\ UNCHANGED <<busy, inHand, handled>>

Next ==
  \/ \E m \in Messages : Accept(m) \/ Refuse(m)
  \/ Handle
  \/ Free

SafeSpec == Init /\ [][Next]_vars

Spec == SafeSpec /\ WF_vars(Handle) /\ WF_vars(Free)
=============================================================================
