-------------------------- MODULE MCSessionLifecycle --------------------------
(***************************************************************************)
(* One or two connections; a session survives one idle check and its peer  *)
(* sends a packet or two.                                                  *)
(***************************************************************************)
EXTENDS SessionLifecycle

CONSTANTS s1, s2

OneSession == {s1}
TwoSessions == {s1, s2}
=============================================================================
