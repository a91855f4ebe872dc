----------------------------- MODULE MCMessaging -----------------------------
(***************************************************************************)
(* One client sends two requests whose order or outcome can matter, some   *)
(* of them to a second one that closes, asks or forwards back, and that    *)
(* may leave or be stopped meanwhile; under both types of server.          *)
(***************************************************************************)
EXTENDS Messaging

CONSTANTS s1, s2

MCSessions == {s1, s2}
MCFrail == {s2}

First == {<<"forward", "forward">>, <<"db", "forward">>, <<"heart", "db">>, <<"close", "echo">>,
          <<"baddb", "unknown">>, <<"nocmd", "close">>}
Second == {<<"close">>, <<"forward">>, <<"heart">>}
ToOther(kinds, t) == [i \in DOMAIN kinds |-> [kind |-> kinds[i], to |-> t]]
MCScripts == {[s \in MCSessions |-> IF s = s1 THEN ToOther(a, s2) ELSE ToOther(b, s1)] :
                a \in First, b \in Second}
=============================================================================
