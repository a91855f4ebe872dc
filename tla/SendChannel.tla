----------------------------- MODULE SendChannel -----------------------------
(***************************************************************************)
(* What a session promises the code that calls CSession::Send, and what    *)
(* the logger's SafeQueue promises the threads that log: a bounded FIFO    *)
(* channel.  A message the channel accepts is delivered after everything   *)
(* accepted before it, or the channel breaks.  A channel that is stopping  *)
(* (CSession::Close has been called, the socket is still open; or          *)
(* SafeQueue::Stop) accepts nothing, a closed one does nothing at all.     *)
(***************************************************************************)
EXTENDS Naturals, Sequences

CONSTANTS Messages,    \* what can be sent
          Capacity     \* the most messages that wait at once

VARIABLES pending,     \* accepted, not yet delivered
          delivered,   \* what was delivered, in order
          status       \* "open", "stopping" or "closed"

vars == <<pending, delivered, status>>

TypeOK ==
  /\ pending \in Seq(Messages)
  /\ delivered \in Seq(Messages)
  /\ status \in {"open", "stopping", "closed"}

Init == pending = <<>> /\ delivered = <<>> /\ status = "open"

\* A message is taken in.
Accept(m) ==
  /\ status = "open"
  /\ Len(pending) < Capacity
  /\ pending' = Append(pending, m)
  /\ UNCHANGED <<delivered, status>>

\* The oldest message is delivered, also while the channel is stopping.
Deliver ==
  /\ status # "closed"
  /\ pending # <<>>
  /\ delivered' = Append(delivered, Head(pending))
  /\ pending' = Tail(pending)
  /\ UNCHANGED status

Stop ==
  /\ status = "open"
  /\ status' = "stopping"
  /\ UNCHANGED <<pending, delivered>>

Shut ==
  /\ status = "stopping"
  /\ status' = "closed"
  /\ UNCHANGED <<pending, delivered>>

Next == (\E m \in Messages : Accept(m)) \/ Deliver \/ Stop \/ Shut

Safety == Init /\ [][Next]_vars

Spec == Safety /\ WF_vars(Deliver) /\ WF_vars(Shut)
=============================================================================
