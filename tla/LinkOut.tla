------------------------------ MODULE LinkOut -------------------------------
(***************************************************************************)
(* What the port controller promises for the messages it sends, without    *)
(* frames, ids, GoodCRCs or retries: messages are numbers, in the order in *)
(* which they are sent.                                                    *)
(*                                                                         *)
(* A transmission that is reported as a success has reached the partner.   *)
(* The exception is `doubt': the two ends no longer agree which message is *)
(* a new one.  A message that arrived and was reported as failed, or a     *)
(* reset of the message ids on this side, brings it about; a success ends  *)
(* it.                                                                     *)
(***************************************************************************)
EXTENDS Naturals

VARIABLES
    out,            \* the number of the last message to be sent
    busy,           \* it is being sent
    result,         \* what the last transmission returned
    reached,        \* the last message that got through to the partner
    doubt,          \* the partner would take the next message for a repeat
    renumbered      \* the ids were reset since the transmission started

vars == <<out, busy, result, reached, doubt, renumbered>>

Init ==
    /\ out = 0 /\ busy = FALSE /\ result = "none" /\ reached = 0
    /\ doubt = FALSE /\ renumbered = FALSE

Start ==
    /\ ~busy
    /\ out' = out + 1
    /\ busy' = TRUE
    /\ UNCHANGED <<result, reached, doubt, renumbered>>

Reach ==
    /\ busy /\ reached < out
    /\ reached' = out /\ doubt' = FALSE
    /\ UNCHANGED <<out, busy, result, renumbered>>

\* The end of a transmission.  With the ids reset meanwhile, it is open whether
\* the partner knows the id that comes next.
Finish(success) ==
    /\ busy
    /\ busy' = FALSE
    /\ success => reached = out \/ doubt
    /\ result' = IF success THEN "ok" ELSE "failed"
    /\ doubt' \in BOOLEAN
    /\ doubt' => renumbered \/ (~success /\ (doubt \/ reached = out))
    /\ renumbered' = FALSE
    /\ UNCHANGED <<out, reached>>

\* The ids start anew on this side.
Renumber ==
    /\ doubt' \in BOOLEAN
    /\ renumbered' = busy
    /\ UNCHANGED <<out, busy, result, reached>>

\* A hard reset is sent, or collides; the partner may not hear it.
HardReset ==
    /\ ~busy
    /\ result' \in {"ok", "failed"}
    /\ doubt' \in BOOLEAN
    /\ UNCHANGED <<out, busy, reached, renumbered>>

\* The partner forgets what it received, is reset or unplugged.
PeerForgets ==
    /\ doubt' = FALSE
    /\ UNCHANGED <<out, busy, result, reached, renumbered>>

Next ==
    \/ Start \/ Reach \/ Renumber \/ HardReset \/ PeerForgets
    \/ \E success \in BOOLEAN : Finish(success)

Spec == Init /\ [][Next]_vars

=============================================================================
