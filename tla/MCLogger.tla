------------------------------ MODULE MCLogger ------------------------------
(***************************************************************************)
(* Two threads log two events through a queue of two places.  The log is   *)
(* full, so that it is rolled at once, or nearly so.  All backups are      *)
(* there, or some are missing after a crash inside a roll.                 *)
(***************************************************************************)
EXTENDS Logger

CONSTANTS c1, c2, e1, e2, d1, n1, n2

MCProducers == {c1, c2, Nested}
MCConsumers == {Worker}
MCEvents == {e1, e2, n1, n2}
MCAnnounced == {n1, n2}
MCDirect == {d1}

\* k events of file f, from an earlier process.
Earlier(f, k) == [i \in 1 .. k |-> 10 * f + i]
MCEarlier == 1 .. 10 * MaxBackup + MaxFileSize
\* The sizes of the log and of its backups: full or nearly full, with and without holes.
MCSizes == {<<4, 4, 4, 4>>, <<3, 4, 4, 4>>, <<4, 0, 4, 4>>, <<4, 4, 0, 4>>, <<4, 0, 0, 0>>}
MCLeft == {[f \in Files |-> Earlier(f, size[f + 1])] : size \in MCSizes}
=============================================================================
