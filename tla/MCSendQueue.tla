----------------------------- MODULE MCSendQueue -----------------------------
(***************************************************************************)
(* Two senders race each other, Close and the network over a queue of two  *)
(* packets, so that the queue fills, drops, drains and is cut off.         *)
(***************************************************************************)
EXTENDS SendQueue

CONSTANTS t1, t2

MCSenders == {t1, t2}
=============================================================================
