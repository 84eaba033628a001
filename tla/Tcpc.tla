-------------------------------- MODULE Tcpc --------------------------------
(***************************************************************************)
(* The port controller of common/usb_pd_tcpc.c on its CC line: message     *)
(* ids, GoodCRC acknowledgements, retries, collisions and the receive      *)
(* buffer, with the parts of the phy (chip/stm32/usb_pd_phy.c) that decide *)
(* what is heard.                                                          *)
(*                                                                         *)
(* The line is half duplex and loses frames.  The port hears a frame in    *)
(* two ways: the comparator interrupt (`monitoring') starts the sampling   *)
(* of it, or the task has started sampling itself, to wait for a GoodCRC.  *)
(* The samples and the frame to be sent share one buffer.                  *)
(*                                                                         *)
(* The partner is external: a sink that follows the protocol.  It speaks   *)
(* when it was spoken to, acknowledges a message at once or not at all,    *)
(* takes a message with the id of the last one for a repeat, and repeats   *)
(* its own until it gets the GoodCRC or gives up.                          *)
(***************************************************************************)
EXTENDS Naturals

CONSTANTS
    PD_RETRY_COUNT, RX_BUFFER_SIZE,
    IdCount,            \* ids are modulo this (PD_MESSAGE_ID_COUNT + 1)
    PeerRetries,        \* how often the partner repeats a message
    MaxOut, MaxIn       \* bounds on the messages of either side

ASSUME TcpcAssumption ==
    /\ PD_RETRY_COUNT \in Nat /\ RX_BUFFER_SIZE \in Nat \ {0}
    /\ IdCount \in Nat \ {0, 1} /\ PeerRetries \in Nat
    /\ MaxOut \in Nat /\ MaxIn \in Nat

VARIABLES
    (* the PD task, in pd_transmit() and tcpc_run() *)
    pc, evt, tx_type,
    tx_id,              \* the id in tx_head
    r,                  \* attempts made
    msg_id,             \* pd[port].msg_id
    due,                \* a reset of msg_id that is to come
    rx_enabled,
    (* the receive buffer *)
    rx_head, rx_buf_head, rx_buf_tail,
    (* the phy *)
    sampling,           \* pd_rx_started()
    monitoring,         \* the comparator interrupt is enabled
    frame,              \* what was sampled
    (* the partner *)
    p_in,               \* the id of the last message it received
    p_owes,             \* the id of the GoodCRC it is about to send
    p_id, p_wait, p_left,   \* its own id, a message without answer, retries
    p_met,              \* it was spoken to
    p_soft,             \* its message is a soft reset
    (* histories, see LinkOut and LinkIn *)
    out, result, p_got, renumbered, offered, kept, acked,
    p_mistook           \* the partner took the message for a repeat

taskVars == <<pc, evt, tx_type, tx_id, r>>
idVars == <<msg_id, due, renumbered>>
bufVars == <<rx_head, rx_buf_head, rx_buf_tail, kept>>
phyVars == <<sampling, monitoring, frame>>
peerVars == <<p_in, p_owes, p_id, p_wait, p_left, p_met, p_soft, p_got, acked,
              p_mistook>>
vars == <<taskVars, idVars, bufVars, phyVars, peerVars, rx_enabled, out,
          result, offered>>

NoId == IdCount
Ids == 0 .. IdCount - 1

NextId(id) == (id + 1) % IdCount

Slots == 0 .. RX_BUFFER_SIZE
TxTypes == {"SOURCE_CAP", "OTHER", "HARD_RESET"}

Frame(kind, id, n) == [kind |-> kind, id |-> id, n |-> n]
None == Frame("none", NoId, 0)
Garbage == Frame("garbage", NoId, 0)
Reset == Frame("reset", NoId, 0)
GoodCrc(id) == Frame("crc", id, 0)
Frames ==
    {None, Garbage, Reset} \cup {GoodCrc(id) : id \in Ids}
      \cup {Frame(k, id, n) : k \in {"msg", "soft"}, id \in Ids, n \in 1 .. MaxIn}

\* pd_analyze_rx() returns a header.
Good(f) == f.kind \in {"msg", "soft", "crc"}

TaskTypes ==
    /\ pc \in {"idle", "run", "ack", "tx", "read", "wait", "end"}
    /\ evt \in {"none", "TX"} /\ tx_type \in TxTypes
    /\ tx_id \in Ids /\ r \in 0 .. PD_RETRY_COUNT
    /\ msg_id \in Ids /\ due \in {"none", "connect", "execute", "startup"}
    /\ rx_enabled \in BOOLEAN /\ renumbered \in BOOLEAN

LineTypes ==
    /\ rx_head \in [Slots -> Frames]
    /\ rx_buf_head \in Slots /\ rx_buf_tail \in Slots
    /\ sampling \in BOOLEAN /\ monitoring \in BOOLEAN /\ frame \in Frames

PeerTypes ==
    /\ p_in \in Ids \cup {NoId} /\ p_owes \in Ids \cup {NoId} /\ p_id \in Ids
    /\ p_wait \in BOOLEAN /\ p_left \in 0 .. PeerRetries
    /\ p_met \in BOOLEAN /\ p_soft \in BOOLEAN /\ p_mistook \in BOOLEAN

HistoryTypes ==
    /\ out \in 0 .. MaxOut /\ result \in {"none", "ok", "failed"}
    /\ p_got \in 0 .. MaxOut
    /\ offered \in 0 .. MaxIn /\ kept \in 0 .. MaxIn /\ acked \in 0 .. MaxIn

\* Type invariant: the controller's registers and buffer, the line, the partner
\* and the histories.
TypeOK == TaskTypes /\ LineTypes /\ PeerTypes /\ HistoryTypes

\* A message is being sent.
Busy ==
    /\ evt = "TX" /\ tx_type # "HARD_RESET"
    /\ pc = "end" => ~rx_enabled

Init ==
    /\ pc = "idle" /\ evt = "none" /\ tx_type = "OTHER" /\ tx_id = 0 /\ r = 0
    /\ msg_id = 0 /\ due = "none" /\ rx_enabled = FALSE
    /\ rx_head = [s \in Slots |-> None] /\ rx_buf_head = 0 /\ rx_buf_tail = 0
    /\ sampling = FALSE /\ monitoring = FALSE /\ frame = None
    /\ p_in = NoId /\ p_owes = NoId /\ p_id = 0 /\ p_wait = FALSE /\ p_left = 0
    /\ p_met = FALSE /\ p_soft = FALSE
    /\ out = 0 /\ result = "none" /\ p_got = 0 /\ renumbered = FALSE
    /\ offered = 0 /\ kept = 0 /\ acked = 0 /\ p_mistook = FALSE

-----------------------------------------------------------------------------
(* The receive buffer: a ring of RX_BUFFER_SIZE + 1 slots *)

\* Mutant of rx_buf_is_full: the last slot counts as free.
RxBufNeverFull == FALSE

\* The tail is one ahead of the head.
rx_buf_is_full ==
    \/ rx_buf_tail = rx_buf_head + 1
    \/ rx_buf_head = rx_buf_tail + RX_BUFFER_SIZE

rx_buf_is_empty == rx_buf_tail = rx_buf_head

rx_buf_increment(p) == IF p = RX_BUFFER_SIZE THEN 0 ELSE p + 1

-----------------------------------------------------------------------------
(* The partner (external) *)

\* It loses all memory of the connection.
PeerAnew ==
    /\ p_in' = NoId /\ p_owes' = NoId /\ p_id' = 0
    /\ p_wait' = FALSE /\ p_left' = 0 /\ p_met' = FALSE /\ p_soft' = FALSE
    /\ UNCHANGED <<p_got, acked, p_mistook>>

\* It hears message number n.
PeerTakes(n, id) ==
    /\ p_in' = id /\ p_owes' = id /\ p_met' = TRUE
    /\ p_got' = IF p_in = id THEN p_got ELSE n
    /\ p_mistook' = (p_mistook \/ (p_in = id /\ p_got # n))
    /\ UNCHANGED <<p_id, p_wait, p_left, p_soft, acked>>

\* Its message is done with.
PeerIdle ==
    /\ p_wait' = FALSE /\ p_id' = NextId(p_id)
    /\ p_left' = 0 /\ p_soft' = FALSE

\* It hears a GoodCRC.
PeerAcked(id) ==
    /\ IF p_wait /\ p_id = id
       THEN /\ acked' = offered
            /\ PeerIdle
       ELSE UNCHANGED <<acked, p_wait, p_id, p_left, p_soft>>
    /\ UNCHANGED <<p_in, p_owes, p_met, p_got, p_mistook>>

\* What the port sends may get lost.
Lost == UNCHANGED peerVars

\* A frame of the partner reaches the port: whole, damaged or not at all.  With
\* the interrupt enabled it starts the sampling, even if it was on.
Arrive(f) ==
    \/ UNCHANGED phyVars
    \/ /\ monitoring
       /\ frame' \in {f, Garbage}
       /\ sampling' = TRUE /\ monitoring' = FALSE
    \/ /\ pc = "read" /\ sampling /\ frame = None /\ ~monitoring
       /\ frame' \in {f, Garbage}
       /\ UNCHANGED <<sampling, monitoring>>

PeerSends(f) ==
    /\ rx_enabled
    /\ Arrive(f)
    /\ UNCHANGED <<taskVars, idVars, bufVars, rx_enabled, out, result>>

PeerGoodCrc ==
    /\ p_owes # NoId
    /\ p_owes' = NoId
    /\ PeerSends(GoodCrc(p_owes))
    /\ UNCHANGED <<offered, p_in, p_id, p_wait, p_left, p_met, p_soft, p_got,
                   acked, p_mistook>>

PeerMessage == Frame(IF p_soft THEN "soft" ELSE "msg", p_id, offered)

\* A new message; a soft reset starts the ids anew.
PeerSend(soft) ==
    /\ p_met /\ ~p_wait /\ p_owes = NoId /\ offered < MaxIn
    /\ offered' = offered + 1
    /\ p_wait' = TRUE /\ p_left' = PeerRetries /\ p_soft' = soft
    /\ p_id' = IF soft THEN 0 ELSE p_id
    /\ p_in' = IF soft THEN NoId ELSE p_in
    /\ PeerSends(PeerMessage')
    /\ UNCHANGED <<p_owes, p_met, p_got, acked, p_mistook>>

PeerRetry ==
    /\ p_wait /\ p_owes = NoId /\ p_left > 0
    /\ p_left' = p_left - 1
    /\ PeerSends(PeerMessage)
    /\ UNCHANGED <<offered, p_in, p_owes, p_id, p_wait, p_met, p_soft, p_got,
                   acked, p_mistook>>

\* Its patience (four times a millisecond) outlasts the time in which the PD task,
\* woken by the interrupt, analyses a frame and answers it.
PeerGivesUp ==
    /\ p_wait /\ ~sampling /\ pc # "ack"
    /\ PeerIdle
    /\ UNCHANGED <<taskVars, idVars, bufVars, phyVars, rx_enabled, out, result,
                   offered, p_in, p_owes, p_met, p_got, acked, p_mistook>>

PeerHardReset ==
    /\ p_met
    /\ PeerAnew
    /\ PeerSends(Reset)
    /\ UNCHANGED offered

\* pd_rx_handler() again: a collision leaves the interrupt enabled while a frame
\* is still coming in, and an edge of it starts the sampling in its middle.
SampleAgain ==
    /\ monitoring /\ sampling
    /\ frame' = Garbage /\ monitoring' = FALSE
    /\ UNCHANGED <<taskVars, idVars, bufVars, sampling, peerVars, rx_enabled,
                   out, result, offered>>

-----------------------------------------------------------------------------
(* The protocol engine's calls *)

\* pd_transmit() to tcpc_transmit(): the header holds the id of this moment.
Transmit(type) ==
    /\ pc = "idle" /\ due # "connect"
    /\ type # "HARD_RESET" => out < MaxOut
    /\ pc' = "run" /\ evt' = "TX"
    /\ tx_type' = type /\ tx_id' = msg_id /\ r' = 0
    /\ out' = IF type = "HARD_RESET" THEN out ELSE out + 1
    /\ UNCHANGED <<idVars, bufVars, phyVars, rx_enabled, result, offered,
                   peerVars>>

\* tcpc_run() in the loop of pd_task().
Run ==
    /\ pc = "idle"
    /\ pc' = "run" /\ evt' = "none"
    /\ UNCHANGED <<tx_type, tx_id, r, idVars, bufVars, phyVars, peerVars,
                   rx_enabled, out, result, offered>>

Renumber ==
    /\ msg_id' = 0
    /\ renumbered' = Busy

\* tcpm_dequeue_message() of handle_request(); for SOFT_RESET,
\* execute_soft_reset().  What a free slot holds is never read: None here.
Dequeue ==
    /\ pc = "idle" /\ due # "connect" /\ ~rx_buf_is_empty
    /\ rx_buf_tail' = rx_buf_increment(rx_buf_tail)
    /\ IF rx_head[rx_buf_tail].kind = "soft" THEN Renumber
       ELSE UNCHANGED <<msg_id, renumbered>>
    /\ rx_head' = [rx_head EXCEPT ![rx_buf_tail] = None]
    /\ UNCHANGED <<taskVars, due, rx_buf_head, kept, phyVars, peerVars, rx_enabled,
                   out, result, offered>>

\* pd_execute_hard_reset() after HARD_RESET was sent, and PD_STATE_SRC_STARTUP.
ResetId ==
    /\ pc = "idle" /\ due \in {"execute", "startup"}
    /\ due' = IF due = "execute" THEN "startup" ELSE "none"
    /\ Renumber
    /\ UNCHANGED <<taskVars, bufVars, phyVars, peerVars, rx_enabled, out,
                   result, offered>>

\* tcpm_set_rx_enable(1), of a new connection.  The loop of pd_task() comes to
\* tcpc_run() before it comes to the next state.
Connect ==
    /\ pc = "idle" /\ ~rx_enabled
    /\ rx_enabled' = TRUE /\ due' = "connect"
    /\ UNCHANGED <<taskVars, msg_id, renumbered, bufVars, phyVars, peerVars,
                   out, result, offered>>

\* tcpm_set_rx_enable(0).  A frame that was sampled stays.
Disconnect ==
    /\ pc = "idle" /\ rx_enabled /\ due # "connect"
    /\ rx_enabled' = FALSE /\ monitoring' = FALSE
    /\ PeerAnew
    /\ UNCHANGED <<taskVars, idVars, bufVars, sampling, frame, out, result,
                   offered>>

-----------------------------------------------------------------------------
(* tcpc_run() *)

AfterReception == IF evt = "TX" /\ rx_enabled THEN "tx" ELSE "end"

NoPacket ==
    /\ pc = "run" /\ ~(sampling /\ rx_enabled)
    /\ pc' = AfterReception
    /\ UNCHANGED <<evt, tx_type, tx_id, r, idVars, bufVars, phyVars, peerVars,
                   rx_enabled, out, result, offered>>

\* The packet goes to the head of the buffer, where it stays or not.
Packet ==
    /\ pc = "run" /\ sampling /\ rx_enabled
    /\ sampling' = FALSE /\ frame' = None
    /\ UNCHANGED <<evt, tx_type, tx_id, r, rx_buf_tail, monitoring, peerVars,
                   rx_enabled, out, result, offered>>

KeepPacket ==
    /\ Packet
    /\ Good(frame) /\ ~rx_buf_is_full
    /\ rx_head' = [rx_head EXCEPT ![rx_buf_head] = frame]
    /\ rx_buf_head' = rx_buf_increment(rx_buf_head)
    /\ kept' = IF frame.kind = "crc" THEN kept ELSE frame.n
    /\ pc' = "ack"
    /\ UNCHANGED idVars

\* pd_execute_hard_reset().
ResetPacket ==
    /\ Packet
    /\ frame = Reset
    /\ Renumber /\ due' = "startup"
    /\ pc' = AfterReception
    /\ UNCHANGED <<rx_head, rx_buf_head, kept>>

DropPacket ==
    /\ Packet
    /\ frame # Reset /\ ~(Good(frame) /\ ~rx_buf_is_full)
    /\ pc' = AfterReception
    /\ UNCHANGED <<rx_head, rx_buf_head, kept, idVars>>

\* The message just kept is the one before the head.
LastKept == CHOOSE s \in Slots : rx_buf_increment(s) = rx_buf_head

\* handle_request() and send_goodcrc().  prepare_message() writes into the
\* buffer of a frame that is coming in.
Acknowledge ==
    /\ pc = "ack"
    /\ pc' = AfterReception
    /\ CASE rx_head[LastKept].kind = "crc" ->
              monitoring' = TRUE /\ UNCHANGED <<frame, peerVars>>
         [] rx_head[LastKept].kind # "crc" /\ sampling ->
              /\ monitoring' = FALSE
              /\ frame' \in {frame, Garbage}
              /\ UNCHANGED peerVars
         [] OTHER ->
              /\ monitoring' = TRUE
              /\ PeerAcked(rx_head[LastKept].id) \/ Lost
              /\ UNCHANGED frame
    /\ UNCHANGED <<evt, tx_type, tx_id, r, idVars, bufVars, sampling,
                   rx_enabled, out, result, offered>>

-----------------------------------------------------------------------------
(* send_validate_message(), send_hard_reset() and the alert that follows *)

\* Mutant of TxDone: the id stays as it is.
TxDoneSameId(success) ==
    /\ pc' = "end"
    /\ result' = IF success THEN "ok" ELSE "failed"
    /\ msg_id' = msg_id

\* alert(), tcpc_alert() and pd_transmit_complete().
TxDone(success) ==
    /\ pc' = "end"
    /\ result' = IF success THEN "ok" ELSE "failed"
    /\ msg_id' = IF success THEN NextId(msg_id) ELSE msg_id

\* pd_start_tx() finds that a frame is coming in.
Collision ==
    /\ pc = "tx" /\ sampling
    /\ monitoring' = FALSE
    /\ frame' \in {frame, Garbage}
    /\ TxDone(FALSE)
    /\ UNCHANGED <<evt, tx_type, tx_id, r, due, renumbered, bufVars, sampling,
                   peerVars, rx_enabled, out, offered>>

SendHardReset ==
    /\ pc = "tx" /\ ~sampling /\ tx_type = "HARD_RESET"
    /\ PeerAnew \/ Lost
    /\ monitoring' = TRUE
    /\ TxDone(TRUE)
    /\ due' = "execute"
    /\ UNCHANGED <<evt, tx_type, tx_id, r, renumbered, bufVars, sampling, frame,
                   rx_enabled, out, offered>>

\* One attempt.  The first one is followed by a blocking read, the others by a
\* wait for the interrupt.
Attempt ==
    /\ pc = "tx" /\ ~sampling /\ tx_type # "HARD_RESET"
    /\ PeerTakes(out, tx_id) \/ Lost
    /\ pc' = IF r = 0 THEN "read" ELSE "wait"
    /\ sampling' = (r = 0) /\ monitoring' = (r > 0) /\ frame' = None
    /\ UNCHANGED <<evt, tx_type, tx_id, r, idVars, bufVars, rx_enabled, out,
                   result, offered>>

Retries == IF tx_type = "SOURCE_CAP" THEN 0 ELSE PD_RETRY_COUNT

\* Mutant of NoAnswer: the attempts are not counted.
NoAnswerUncounted == r' = r /\ pc' = "tx" /\ UNCHANGED <<msg_id, result>>

\* No valid answer: the next attempt, or PD_TX_ERR_GOODCRC.
NoAnswer ==
    IF r < Retries
    THEN /\ r' = r + 1 /\ pc' = "tx"
         /\ UNCHANGED <<msg_id, result>>
    ELSE TxDone(FALSE) /\ r' = r

\* TASK_EVENT_TIMER alone.  By then the partner has answered or never will.
WaitTimeout ==
    /\ pc = "wait" /\ ~sampling
    /\ p_owes' = NoId
    /\ NoAnswer
    /\ UNCHANGED <<evt, tx_type, tx_id, due, renumbered, bufVars, phyVars, p_in,
                   p_id, p_wait, p_left, p_met, p_soft, p_got, acked, p_mistook,
                   rx_enabled, out, offered>>

\* The interrupt or any other event: sampling is started if it is not.
WaitWoken ==
    /\ pc = "wait"
    /\ pc' = "read"
    /\ sampling' = TRUE
    /\ monitoring' = (sampling /\ monitoring)
    /\ UNCHANGED <<evt, tx_type, tx_id, r, idVars, bufVars, frame, peerVars,
                   rx_enabled, out, result, offered>>

\* pd_analyze_rx() and pd_rx_complete().
Read ==
    /\ pc = "read"
    /\ sampling' = FALSE /\ frame' = None /\ monitoring' = TRUE
    /\ UNCHANGED <<evt, tx_type, tx_id, due, renumbered, bufVars, rx_enabled,
                   out, offered>>

IsAnswer(f) == f.kind = "crc" /\ f.id = tx_id

\* The GoodCRC that was waited for, or another packet (PD_TX_ERR_INV_ACK),
\* which gets no GoodCRC, so that the partner repeats it.
ReadPacket ==
    /\ Read
    /\ Good(frame)
    /\ TxDone(IsAnswer(frame))
    /\ UNCHANGED <<r, peerVars>>

\* A hard reset, too, counts as no answer here.
ReadNothing ==
    /\ Read
    /\ ~Good(frame)
    /\ p_owes' = IF frame = None THEN NoId ELSE p_owes
    /\ NoAnswer
    /\ UNCHANGED <<p_in, p_id, p_wait, p_left, p_met, p_soft, p_got, acked,
                   p_mistook>>

\* Mutant of Monitoring: the reception of the next frame is left to others.
MonitoringAsIs == monitoring

\* pd_rx_enable_monitoring() at the end of tcpc_run().
Monitoring == rx_enabled \/ monitoring

\* The end of tcpc_run(), and of pd_transmit(): with the receiver off nothing
\* was sent, and the wait for PD_EVENT_TX has timed out.
End ==
    /\ pc = "end"
    /\ pc' = "idle" /\ evt' = "none"
    /\ monitoring' = Monitoring
    /\ result' = IF evt = "TX" /\ ~rx_enabled THEN "failed" ELSE result
    /\ due' = IF due = "connect" THEN "startup" ELSE due
    /\ tx_type' = "OTHER" /\ tx_id' = 0 /\ r' = 0
    /\ renumbered' = FALSE /\ p_mistook' = FALSE
    /\ UNCHANGED <<msg_id, bufVars, sampling, frame, rx_enabled, out, offered,
                   p_in, p_owes, p_id, p_wait, p_left, p_met, p_soft, p_got,
                   acked>>

-----------------------------------------------------------------------------

Engine == (\E type \in TxTypes : Transmit(type)) \/ Run \/ Dequeue \/ ResetId
            \/ Connect \/ Disconnect

\* The PD task inside tcpc_run().
Controller ==
    \/ NoPacket \/ KeepPacket \/ ResetPacket \/ DropPacket \/ Acknowledge
    \/ Collision \/ SendHardReset \/ Attempt \/ WaitTimeout \/ WaitWoken
    \/ ReadPacket \/ ReadNothing \/ End

Peer ==
    \/ PeerGoodCrc \/ (\E soft \in BOOLEAN : PeerSend(soft)) \/ PeerRetry
    \/ PeerGivesUp \/ PeerHardReset \/ SampleAgain

Next == Engine \/ Controller \/ Peer

Spec == Init /\ [][Next]_vars

\* The PD task is the highest priority task of the image, and every wait in
\* tcpc_run() has a timeout.
FairSpec == Spec /\ WF_vars(Controller)

-----------------------------------------------------------------------------
(* Properties *)

\* The partner would take the message for a repeat of the one before.
Doubt ==
    IF Busy THEN p_got # out /\ (p_mistook \/ p_in = tx_id) ELSE p_in = msg_id

\* The slots in use, and the one that holds the i-th message.
RxCount ==
    IF rx_buf_tail <= rx_buf_head THEN rx_buf_head - rx_buf_tail
    ELSE rx_buf_head + RX_BUFFER_SIZE + 1 - rx_buf_tail

RxSlot(i) ==
    LET slot == rx_buf_tail + i - 1
    IN IF slot <= RX_BUFFER_SIZE THEN slot ELSE slot - (RX_BUFFER_SIZE + 1)

\* The messages in the receive buffer.  A GoodCRC never stays there: the partner
\* sends none that is not waited for.
Inbox == [i \in 1 .. RxCount |-> rx_head[RxSlot(i)].n]

Out == INSTANCE LinkOut WITH busy <- Busy, reached <- p_got, doubt <- Doubt,
                             renumbered <- Busy /\ renumbered

\* The port controller implements LinkOut: whatever is lost, repeated, collides or
\* is reset, pd_transmit() reports a success only for a message that reached the
\* partner, or while the ids are out of step for a reason.
SenderSpec == Out!Spec

In == INSTANCE LinkIn WITH inbox <- Inbox

\* The port controller implements LinkIn: a GoodCRC goes out only for a message
\* that stays in the receive buffer, and messages come out of it in order.
ReceiverSpec == In!Spec

\* A port with the receiver on is never deaf: when tcpc_run() has returned,
\* either the comparator interrupt is enabled or a frame is being sampled.
NeverDeaf ==
    pc = "idle" /\ rx_enabled /\ due # "connect" => monitoring \/ sampling

\* pd_transmit() returns: the retries end, though each attempt may go without
\* an answer, be woken by other events or read garbage.
TransmitEnds == Busy ~> ~Busy

=============================================================================
