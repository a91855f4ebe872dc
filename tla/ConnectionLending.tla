-------------------------- MODULE ConnectionLending --------------------------
(***************************************************************************)
(* What a pool of connections promises its borrowers, apart from queues,   *)
(* wakeups and deadlines: a connection is lent to one of them at a time,   *)
(* no more than Max exist or are being made, a new one is made only when   *)
(* none is free, and a pool that was closed keeps none of those that come  *)
(* back and lets nobody in any more; but who was asking then may still     *)
(* have one made.                                                          *)
(***************************************************************************)
EXTENDS Naturals, FiniteSets

CONSTANTS Borrowers, Conns, NoConn, Max

VARIABLES free,    \* connections nobody has
          lent,    \* lent[b]: the connection b has, or NoConn
          asking,  \* borrowers that were let in when there was nothing for them
          making,  \* borrowers that a connection is being made for
          open     \* the pool was not closed

lendVars == <<free, lent, asking, making, open>>

Having == {b \in Borrowers : lent[b] # NoConn}

Init ==
  /\ free \subseteq Conns /\ Cardinality(free) <= Max
  /\ lent = [b \in Borrowers |-> NoConn]
  /\ asking = {} /\ making = {} /\ open = TRUE

WithNothing(b) == b \notin Having /\ b \notin making

\* b is let in, or has been.
IsServed(b) == WithNothing(b) /\ (open \/ b \in asking)

Ask(b) ==
  /\ IsServed(b)
  /\ asking' = asking \cup {b}
  /\ UNCHANGED <<free, lent, making, open>>

Lend(b) ==
  /\ IsServed(b)
  /\ \E c \in free : lent' = [lent EXCEPT ![b] = c] /\ free' = free \ {c}
  /\ asking' = asking \ {b}
  /\ UNCHANGED <<making, open>>

BeginMaking(b) ==
  /\ IsServed(b) /\ free = {} /\ Cardinality(Having) + Cardinality(making) < Max
  /\ making' = making \cup {b}
  /\ asking' = asking \ {b}
  /\ UNCHANGED <<free, lent, open>>

GiveUp(b) == b \in asking /\ asking' = asking \ {b} /\ UNCHANGED <<free, lent, making, open>>

Made(b) ==
  /\ b \in making /\ making' = making \ {b}
  /\ \E c \in Conns \ free :
       (\A o \in Having : lent[o] # c) /\ lent' = [lent EXCEPT ![b] = c]
  /\ UNCHANGED <<free, asking, open>>

MakingFails(b) ==
  b \in making /\ making' = making \ {b} /\ UNCHANGED <<free, lent, asking, open>>

\* An open pool takes the connection back, a closed one destroys it.
GiveBack(b) ==
  /\ b \in Having
  /\ lent' = [lent EXCEPT ![b] = NoConn]
  /\ free' = IF open THEN free \cup {lent[b]} ELSE free
  /\ UNCHANGED <<asking, making, open>>

Close == open' = FALSE /\ free' = {} /\ UNCHANGED <<lent, asking, making>>

Next ==
  \/ \E b \in Borrowers :
       \/ Ask(b) \/ Lend(b) \/ BeginMaking(b) \/ GiveUp(b)
       \/ Made(b) \/ MakingFails(b) \/ GiveBack(b)
  \/ Close

Safety == Init /\ [][Next]_lendVars
=============================================================================
