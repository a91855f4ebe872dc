-------------------------- MODULE MCClientRegistry --------------------------
(***************************************************************************)
(* Three connections: two of the client k1, which may reconnect, and one   *)
(* of k2.  OwnClaims: each client keeps to a name of its own.  AnyClaims:  *)
(* every client may use every name.                                        *)
(***************************************************************************)
EXTENDS ClientRegistry

CONSTANTS s1, s2, s3, k1, k2, n1, n2

MCSessions == {s1, s2, s3}
MCNames == {n1, n2}
MCClients == {k1, k2}
MCClientOf == [s \in MCSessions |-> IF s = s3 THEN k2 ELSE k1]

OwnClaims == [c \in MCClients |-> IF c = k1 THEN {n1} ELSE {n2}]
AnyClaims == [c \in MCClients |-> MCNames]

ASSUME OwnClaimsAreOwn == MayClaim = OwnClaims => OwnNames
=============================================================================
