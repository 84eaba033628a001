------------------------------- MODULE LinkIn -------------------------------
(***************************************************************************)
(* What the port controller promises for the messages of the partner,      *)
(* numbered in the order in which it sends them: what the partner believes *)
(* delivered has been kept for the protocol engine, and messages are       *)
(* handed over in order, possibly twice.                                   *)
(***************************************************************************)
EXTENDS Naturals, Sequences

VARIABLES
    offered,        \* the last message the partner sent
    inbox,          \* messages kept and not yet read
    kept,           \* the last message that was kept
    acked           \* the last one the partner knows to be delivered

vars == <<offered, inbox, kept, acked>>

Init == offered = 0 /\ inbox = <<>> /\ kept = 0 /\ acked = 0

Offer ==
    /\ offered' = offered + 1
    /\ UNCHANGED <<inbox, kept, acked>>

Keep(n) ==
    /\ kept <= n /\ n <= offered /\ n > 0
    /\ inbox' = Append(inbox, n)
    /\ kept' = n
    /\ UNCHANGED <<offered, acked>>

Ack ==
    /\ kept = offered
    /\ acked' = offered
    /\ UNCHANGED <<offered, inbox, kept>>

\* The protocol engine reads a message.
Take ==
    /\ inbox # <<>>
    /\ inbox' = Tail(inbox)
    /\ UNCHANGED <<offered, kept, acked>>

Next == Offer \/ Ack \/ Take \/ \E n \in 1 .. offered : Keep(n)

Spec == Init /\ [][Next]_vars

=============================================================================
