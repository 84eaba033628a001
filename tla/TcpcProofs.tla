----------------------------- MODULE TcpcProofs -----------------------------
(* Proofs about the port controller, for any number of retries, of message ids, *)
(* of slots of the receive buffer and of messages.                              *)
EXTENDS Integers, Tcpc, SequenceTheorems, TLAPS

-----------------------------------------------------------------------------
(* The inductive invariants *)

\* tcpc_run(): what the task does at each position, and when the histories of a
\* transmission are blank.
TaskInv ==
    /\ pc = "idle" => evt = "none"
    /\ pc \in {"tx", "read", "wait", "ack"} => rx_enabled
    /\ pc \in {"tx", "read", "wait"} => evt = "TX"
    /\ pc \in {"read", "wait"} => tx_type # "HARD_RESET"
    /\ evt = "none" \/ tx_type = "HARD_RESET" => ~p_mistook /\ ~renumbered
    /\ Busy /\ ~renumbered => tx_id = msg_id
    /\ p_got <= out

\* send_validate_message(): while a GoodCRC is waited for, nothing disturbs the frame
\* that is coming in.
PhyInv ==
    /\ pc \in {"read", "wait"} => ~(monitoring /\ sampling)
    /\ pc = "wait" /\ ~sampling => frame = None
    /\ p_wait => offered >= 1

\* The partner has the message, or takes it for one that it has.
TookIt == (p_got = out \/ p_mistook) /\ p_in \in {tx_id, NoId}

\* A GoodCRC that is owed, or on its way, is the answer to the message that is being
\* sent.
AnswerInv ==
    /\ p_owes # NoId =>
         pc \in {"read", "wait"} /\ frame = None /\ p_owes = tx_id /\ TookIt
    /\ pc \in {"read", "wait"} /\ frame.kind = "crc" => frame.id = tx_id /\ TookIt

IsMessage(f) == f.kind \in {"msg", "soft"}

\* The message f is the one that the partner waits to see acknowledged.
Awaited(f) == p_wait /\ f.id = p_id /\ f.n = offered

\* A frame of the partner stays current until it is acknowledged or the partner forgets
\* about it, and nothing but messages comes to the receive buffer.
ReceiveInv ==
    /\ ~sampling => frame = None
    /\ pc \notin {"read", "wait"} => frame.kind # "crc"
    /\ p_wait => p_met
    /\ kept <= offered
    /\ IsMessage(frame) =>
         /\ kept <= frame.n /\ frame.n <= offered
         /\ p_met => Awaited(frame)
    /\ pc = "ack" =>
         /\ IsMessage(rx_head[LastKept]) /\ rx_head[LastKept].n = kept
         /\ p_met => Awaited(rx_head[LastKept])

-----------------------------------------------------------------------------
(* Ids and frames *)

LEMMA IdFacts ==
    /\ IdCount \in Nat /\ IdCount > 1 /\ 0 \in Ids /\ NoId \notin Ids
    /\ \A id \in Ids : NextId(id) \in Ids /\ NextId(id) # id
<1>1. IdCount \in Nat /\ IdCount > 1
  BY TcpcAssumption
<1>2. ASSUME NEW id \in Ids PROVE NextId(id) \in Ids /\ NextId(id) # id
  <2>1. id \in 0 .. IdCount - 1
    BY DEF Ids
  <2>2. CASE id = IdCount - 1
    <3>1. (id + 1) % IdCount = 0
      BY <1>1, <2>2
    <3> QED BY <1>1, <2>1, <2>2, <3>1 DEF NextId, Ids
  <2>3. CASE id # IdCount - 1
    <3>1. (id + 1) % IdCount = id + 1
      BY <1>1, <2>1, <2>3
    <3> QED BY <1>1, <2>1, <2>3, <3>1 DEF NextId, Ids
  <2> QED BY <2>2, <2>3
<1>3. 0 \in Ids /\ NoId \notin Ids
  BY <1>1 DEF Ids, NoId
<1> QED BY <1>1, <1>2, <1>3

\* What a frame holds.
LEMMA FrameFacts ==
    /\ None \in Frames /\ Garbage \in Frames /\ Reset \in Frames
    /\ None.kind = "none" /\ Garbage.kind = "garbage" /\ Reset.kind = "reset"
    /\ \A id \in Ids : GoodCrc(id) \in Frames /\ GoodCrc(id).kind = "crc" /\ GoodCrc(id).id = id
    /\ \A f \in Frames : f.kind \in {"msg", "soft"} => f.id \in Ids /\ f.n \in 1 .. MaxIn
<1>1. None \in Frames /\ Garbage \in Frames /\ Reset \in Frames
  BY DEF Frames
<1>2. None.kind = "none" /\ Garbage.kind = "garbage" /\ Reset.kind = "reset"
  BY DEF None, Garbage, Reset, Frame
<1>3. ASSUME NEW id \in Ids
      PROVE  GoodCrc(id) \in Frames /\ GoodCrc(id).kind = "crc" /\ GoodCrc(id).id = id
  <2>1. GoodCrc(id) \in Frames
    BY DEF Frames
  <2> QED BY <2>1 DEF GoodCrc, Frame
<1>4. ASSUME NEW f \in Frames, f.kind \in {"msg", "soft"}
      PROVE  f.id \in Ids /\ f.n \in 1 .. MaxIn
  <2>1. f \notin {None, Garbage, Reset}
    BY <1>2, <1>4
  <2>2. \A id \in Ids : f # GoodCrc(id)
    BY <1>3, <1>4
  <2>3. PICK k \in {"msg", "soft"}, id \in Ids, n \in 1 .. MaxIn : f = Frame(k, id, n)
    BY <2>1, <2>2 DEF Frames
  <2> QED BY <2>3 DEF Frame
<1> QED BY <1>1, <1>2, <1>3, <1>4

LEMMA MessageFacts ==
    ASSUME NEW id \in Ids, NEW n \in 1 .. MaxIn, NEW kind \in {"msg", "soft"}
    PROVE  /\ Frame(kind, id, n) \in Frames /\ Frame(kind, id, n).kind = kind
           /\ Frame(kind, id, n).id = id /\ Frame(kind, id, n).n = n
  BY DEF Frames, Frame

-----------------------------------------------------------------------------
(* Types *)

\* Every step keeps the types of the task's variables.
LEMMA TaskStep ==
    ASSUME TypeOK, [Next]_vars
    PROVE  TaskTypes'
<1> USE DEF TypeOK, TaskTypes
<1>1. CASE Engine
  <2> USE <1>1 DEF Engine, Transmit, Run, Dequeue, ResetId, Connect, Disconnect
  <2>1. rx_enabled' \in BOOLEAN /\ renumbered' \in BOOLEAN
    BY DEF idVars, Renumber, Busy
  <2>2. r' \in 0 .. PD_RETRY_COUNT
    BY TcpcAssumption DEF taskVars
  <2>3. msg_id' \in Ids /\ tx_id' \in Ids
    BY IdFacts DEF idVars, taskVars, Renumber
  <2> QED BY <2>1, <2>2, <2>3 DEF taskVars, idVars, TxTypes
<1>2. CASE Controller
  <2> USE <1>2 DEF Controller, NoPacket, KeepPacket, ResetPacket, DropPacket, Acknowledge,
                Collision, SendHardReset, Attempt, WaitTimeout, WaitWoken, ReadPacket,
                ReadNothing, End, Packet, Read, AfterReception
  <2>1. rx_enabled' \in BOOLEAN /\ renumbered' \in BOOLEAN
    BY DEF idVars, Renumber, Busy
  <2>2. r' \in {0, r} \/ (r < Retries /\ r' = r + 1)
    BY DEF NoAnswer
  <2>3. r' \in 0 .. PD_RETRY_COUNT
    BY <2>2, TcpcAssumption DEF Retries
  <2>4. msg_id' \in {0, msg_id, NextId(msg_id)} /\ tx_id' \in {0, tx_id}
    BY DEF idVars, Renumber, NoAnswer, TxDone
  <2>5. msg_id' \in Ids /\ tx_id' \in Ids
    BY <2>4, IdFacts
  <2>6. pc' \in {"idle", "run", "ack", "tx", "read", "wait", "end"}
    BY DEF NoAnswer, TxDone
  <2> QED BY <2>1, <2>3, <2>5, <2>6 DEF idVars, TxTypes
<1>3. CASE Peer
  BY <1>3 DEF Peer, PeerGoodCrc, PeerSend, PeerRetry, PeerGivesUp, PeerHardReset, SampleAgain,
                PeerSends, taskVars, idVars
<1>4. CASE UNCHANGED vars
  BY <1>4 DEF vars, taskVars, idVars
<1> QED BY <1>1, <1>2, <1>3, <1>4 DEF Next

\* The receive buffer's increment stays inside of it.
LEMMA SlotFacts ==
    \A p \in Slots : rx_buf_increment(p) \in Slots
  BY TcpcAssumption DEF Slots, rx_buf_increment

\* Every step keeps the types of the receive buffer and of the phy.
LEMMA LineStep ==
    ASSUME TypeOK, PhyInv, [Next]_vars
    PROVE  LineTypes'
<1> USE DEF TypeOK, LineTypes
<1>1. CASE Engine
  BY <1>1, SlotFacts, FrameFacts DEF Engine, Transmit, Run, Dequeue, ResetId, Connect,
                Disconnect, bufVars, phyVars
<1>2. CASE Controller
  <2> USE <1>2 DEF Controller, NoPacket, KeepPacket, ResetPacket, DropPacket, Acknowledge,
                Collision, SendHardReset, Attempt, WaitTimeout, WaitWoken, ReadPacket,
                ReadNothing, End, Packet, Read
  <2>1. sampling' \in BOOLEAN /\ monitoring' \in BOOLEAN
    <3>1. CASE Attempt
      BY <3>1
    <3>2. CASE WaitWoken
      BY <3>2
    <3>3. CASE End
      BY <3>3 DEF Monitoring
    <3>4. CASE ~Attempt /\ ~WaitWoken /\ ~End
      BY <3>4 DEF phyVars
    <3> QED BY <3>1, <3>2, <3>3, <3>4
  <2>2. frame' \in {frame, None, Garbage}
    BY DEF phyVars
  <2>3. rx_head' \in [Slots -> Frames] /\ rx_buf_head' \in Slots /\ rx_buf_tail' \in Slots
    BY SlotFacts DEF bufVars
  <2> QED BY <2>1, <2>2, <2>3, FrameFacts
<1>3. CASE Peer
  <2> USE <1>3 DEF Peer, PeerGoodCrc, PeerSend, PeerRetry, PeerGivesUp, PeerHardReset,
                SampleAgain, PeerSends
  <2>1. UNCHANGED bufVars
    OBVIOUS
  <2>2. sampling' \in BOOLEAN /\ monitoring' \in BOOLEAN
    BY DEF Arrive, phyVars
  <2>3. frame' \in Frames
    <3>1. CASE PeerGoodCrc
      <4>1. p_owes \in Ids /\ frame' \in {frame, Garbage, GoodCrc(p_owes)}
        BY <3>1 DEF Arrive, phyVars, PeerTypes
      <4> QED BY <4>1, FrameFacts
    <3>2. ASSUME NEW soft \in BOOLEAN, PeerSend(soft)
          PROVE  frame' \in Frames
      <4>0. p_id' \in Ids
        BY <3>2, IdFacts DEF PeerTypes
      <4>1. offered' \in 1 .. MaxIn
        <5>1. offered < MaxIn /\ offered' = offered + 1
          BY <3>2
        <5> QED BY <5>1, TcpcAssumption DEF HistoryTypes
      <4>2. PeerMessage' \in Frames
        BY <4>0, <4>1, MessageFacts DEF PeerMessage, Frame
      <4>3. frame' \in {frame, Garbage, PeerMessage'}
        BY <3>2 DEF Arrive, phyVars
      <4> QED BY <4>2, <4>3, FrameFacts
    <3>3. CASE PeerRetry
      <4>1. offered \in 1 .. MaxIn /\ p_id \in Ids
        BY <3>3 DEF PeerTypes, HistoryTypes, PhyInv
      <4>2. PeerMessage \in Frames
        BY <4>1, MessageFacts DEF PeerMessage
      <4>3. frame' \in {frame, Garbage, PeerMessage}
        BY <3>3 DEF Arrive, phyVars
      <4> QED BY <4>2, <4>3, FrameFacts
    <3>4. CASE PeerGivesUp \/ PeerHardReset \/ SampleAgain
      BY <3>4, FrameFacts DEF Arrive, phyVars
    <3> QED BY <1>3, <3>1, <3>2, <3>3, <3>4
  <2> QED BY <2>1, <2>2, <2>3 DEF bufVars
<1>4. CASE UNCHANGED vars
  BY <1>4 DEF vars, bufVars, phyVars
<1> QED BY <1>1, <1>2, <1>3, <1>4 DEF Next

\* What any step does to the partner.
LEMMA PeerMoves ==
    ASSUME TypeOK, [Next]_vars
    PROVE  /\ p_id' \in {p_id, 0, NextId(p_id)}
           /\ p_in' \in {p_in, NoId, tx_id} /\ p_owes' \in {p_owes, NoId, tx_id}
           /\ p_left' \in {p_left, 0, PeerRetries} \/ (p_left > 0 /\ p_left' = p_left - 1)
<1>1. CASE Engine
  BY <1>1 DEF Engine, Transmit, Run, Dequeue, ResetId, Connect, Disconnect, PeerAnew, peerVars
<1>2. CASE Controller
  BY <1>2 DEF Controller, NoPacket, KeepPacket, ResetPacket, DropPacket, Acknowledge,
                Collision, SendHardReset, Attempt, WaitTimeout, WaitWoken, ReadPacket,
                ReadNothing, End, Packet, peerVars, PeerAnew, Lost, PeerTakes, PeerAcked,
                PeerIdle
<1>3. CASE Peer
  BY <1>3 DEF Peer, PeerGoodCrc, PeerSend, PeerRetry, PeerGivesUp, PeerHardReset, SampleAgain,
                PeerAnew, PeerIdle, peerVars
<1>4. CASE UNCHANGED vars
  BY <1>4 DEF vars, peerVars
<1> QED BY <1>1, <1>2, <1>3, <1>4 DEF Next

\* Every step keeps the types of the partner's variables.
LEMMA PeerStep ==
    ASSUME TypeOK, [Next]_vars
    PROVE  PeerTypes'
<1> USE DEF TypeOK, PeerTypes
<1>1. p_id' \in Ids /\ p_in' \in Ids \cup {NoId} /\ p_owes' \in Ids \cup {NoId}
  BY PeerMoves, IdFacts DEF TaskTypes
<1>2. p_left' \in 0 .. PeerRetries
  BY PeerMoves, TcpcAssumption
<1>3. p_wait' \in BOOLEAN /\ p_met' \in BOOLEAN /\ p_soft' \in BOOLEAN
  <2>1. CASE Engine
    BY <2>1 DEF Engine, Transmit, Run, Dequeue, ResetId, Connect, Disconnect, PeerAnew,
                peerVars
  <2>2. CASE Controller
    BY <2>2 DEF Controller, NoPacket, KeepPacket, ResetPacket, DropPacket, Acknowledge,
                Collision, SendHardReset, Attempt, WaitTimeout, WaitWoken, ReadPacket,
                ReadNothing, End, Packet, peerVars, PeerAnew, Lost, PeerTakes, PeerAcked,
                PeerIdle
  <2>3. CASE Peer
    BY <2>3 DEF Peer, PeerGoodCrc, PeerSend, PeerRetry, PeerGivesUp, PeerHardReset,
                SampleAgain, PeerAnew, PeerIdle, peerVars
  <2>4. CASE UNCHANGED vars
    BY <2>4 DEF vars, peerVars
  <2> QED BY <2>1, <2>2, <2>3, <2>4 DEF Next
<1>4. p_mistook' \in BOOLEAN
  <2>1. CASE Engine
    BY <2>1 DEF Engine, Transmit, Run, Dequeue, ResetId, Connect, Disconnect, PeerAnew,
                peerVars
  <2>2. CASE Controller
    BY <2>2 DEF Controller, NoPacket, KeepPacket, ResetPacket, DropPacket, Acknowledge,
                Collision, SendHardReset, Attempt, WaitTimeout, WaitWoken, ReadPacket,
                ReadNothing, End, Packet, peerVars, PeerAnew, Lost, PeerTakes, PeerAcked,
                PeerIdle
  <2>3. CASE Peer
    BY <2>3 DEF Peer, PeerGoodCrc, PeerSend, PeerRetry, PeerGivesUp, PeerHardReset,
                SampleAgain, PeerAnew, PeerIdle, peerVars
  <2>4. CASE UNCHANGED vars
    BY <2>4 DEF vars, peerVars
  <2> QED BY <2>1, <2>2, <2>3, <2>4 DEF Next
<1> QED BY <1>1, <1>2, <1>3, <1>4

\* Every step keeps the types of the histories.
LEMMA HistoryStep ==
    ASSUME TypeOK, [Next]_vars
    PROVE  HistoryTypes'
<1> USE TcpcAssumption DEF TypeOK, HistoryTypes
<1>1. CASE Engine
  <2> USE <1>1 DEF Engine, Transmit, Run, Dequeue, ResetId, Connect, Disconnect
  <2>1. UNCHANGED <<result, p_got, offered, kept, acked>>
    BY DEF PeerAnew, peerVars, bufVars
  <2>2. out' = out \/ (out < MaxOut /\ out' = out + 1)
    OBVIOUS
  <2>3. out' \in 0 .. MaxOut
    BY <2>2
  <2> QED BY <2>1, <2>3
<1>2. CASE Controller
  <2> USE <1>2 DEF Controller, NoPacket, KeepPacket, ResetPacket, DropPacket, Acknowledge,
                Collision, SendHardReset, Attempt, WaitTimeout, WaitWoken, ReadPacket,
                ReadNothing, End, Packet, Read
  <2>1. UNCHANGED <<out, offered>> /\ p_got' \in {p_got, out} /\ acked' \in {acked, offered}
    BY DEF peerVars, PeerAnew, Lost, PeerTakes, PeerAcked
  <2>2. result' \in {"none", "ok", "failed"}
    BY DEF NoAnswer, TxDone
  <2>3. kept' \in 0 .. MaxIn
    <3>1. kept' = kept \/ (frame.kind \in {"msg", "soft"} /\ kept' = frame.n)
      BY DEF bufVars, Good
    <3>2. frame.kind \in {"msg", "soft"} => frame.n \in 1 .. MaxIn
      BY FrameFacts DEF LineTypes
    <3> QED BY <3>1, <3>2
  <2> QED BY <2>1, <2>2, <2>3
<1>3. CASE Peer
  <2> USE <1>3 DEF Peer, PeerGoodCrc, PeerSend, PeerRetry, PeerGivesUp, PeerHardReset,
                SampleAgain, PeerSends
  <2>1. UNCHANGED <<result, p_got, out, kept, acked>>
    BY DEF PeerAnew, peerVars, bufVars
  <2>2. offered' = offered \/ (offered < MaxIn /\ offered' = offered + 1)
    OBVIOUS
  <2>3. offered' \in 0 .. MaxIn
    BY <2>2
  <2> QED BY <2>1, <2>3
<1>4. CASE UNCHANGED vars
  BY <1>4 DEF vars, peerVars, bufVars
<1> QED BY <1>1, <1>2, <1>3, <1>4 DEF Next

-----------------------------------------------------------------------------
(* The invariants *)

\* Every step keeps the phy undisturbed while a GoodCRC is waited for.
LEMMA PhyStep ==
    ASSUME TypeOK, PhyInv, [Next]_vars
    PROVE  PhyInv'
<1> USE DEF TypeOK, PhyInv
<1>1. p_wait' => offered' >= 1
  <2>0. offered \in Nat
    BY DEF HistoryTypes
  <2>1. offered' = offered \/ offered' = offered + 1
    BY DEF Next, vars, peerVars, Engine, Transmit, Run, Dequeue, ResetId, Connect,
                Disconnect, Controller, NoPacket, KeepPacket, ResetPacket, DropPacket,
                Acknowledge, Collision, SendHardReset, Attempt, WaitTimeout, WaitWoken,
                ReadPacket, ReadNothing, End, Packet, Read, Peer, PeerGoodCrc, PeerSend,
                PeerRetry, PeerGivesUp, PeerHardReset, SampleAgain
  <2>2. p_wait' => p_wait \/ offered' = offered + 1
    BY DEF Next, vars, peerVars, Engine, Transmit, Run, Dequeue, ResetId, Connect,
                Disconnect, Controller, NoPacket, KeepPacket, ResetPacket, DropPacket,
                Acknowledge, Collision, SendHardReset, Attempt, WaitTimeout, WaitWoken,
                ReadPacket, ReadNothing, End, Packet, Peer, PeerGoodCrc, PeerSend, PeerRetry,
                PeerGivesUp, PeerHardReset, SampleAgain, PeerAnew, PeerIdle, PeerTakes,
                PeerAcked, Lost
  <2> QED BY <2>0, <2>1, <2>2
<1>2. CASE Engine
  BY <1>1, <1>2 DEF Engine, Transmit, Run, Dequeue, ResetId, Connect, Disconnect, taskVars,
                phyVars
<1>3. CASE Attempt
  <2>1. /\ pc' \in {"read", "wait"} /\ frame' = None
        /\ (sampling' <=> r = 0) /\ (monitoring' <=> r > 0)
    BY <1>3 DEF Attempt
  <2> QED BY <1>1, <2>1
<1>4. CASE Controller /\ ~Attempt
  BY <1>1, <1>4 DEF Controller, NoPacket, KeepPacket, ResetPacket, DropPacket, Acknowledge,
                Collision, SendHardReset, WaitTimeout, WaitWoken, ReadPacket, ReadNothing,
                End, Packet, Read, AfterReception, TxDone, NoAnswer
<1>5. CASE Peer
  BY <1>1, <1>5 DEF Peer, PeerGoodCrc, PeerSend, PeerRetry, PeerGivesUp, PeerHardReset,
                SampleAgain, PeerSends, Arrive, taskVars, phyVars
<1>6. CASE UNCHANGED vars
  BY <1>1, <1>6 DEF vars, taskVars, phyVars
<1> QED BY <1>2, <1>3, <1>4, <1>5, <1>6 DEF Next

\* Every step keeps the task in step with its position.
LEMMA TaskInvStep ==
    ASSUME TypeOK, TaskInv, [Next]_vars
    PROVE  TaskInv'
<1> USE DEF TypeOK, TaskTypes
<1>1. p_got' <= out'
  <2>1. p_got' \in {p_got, out} /\ (out' = out \/ out' = out + 1)
    BY DEF Next, vars, peerVars, Engine, Transmit, Run, Dequeue, ResetId, Connect,
                Disconnect, Controller, NoPacket, KeepPacket, ResetPacket, DropPacket,
                Acknowledge, Collision, SendHardReset, Attempt, WaitTimeout, WaitWoken,
                ReadPacket, ReadNothing, End, Packet, Read, Peer, PeerGoodCrc, PeerSend,
                PeerRetry, PeerGivesUp, PeerHardReset, SampleAgain, PeerSends, PeerAnew,
                PeerTakes, PeerAcked, Lost
  <2> QED BY <2>1 DEF HistoryTypes, TaskInv
<1>2. CASE Engine
  <2>1. ASSUME NEW type \in TxTypes, Transmit(type)
        PROVE  TaskInv'
    BY <1>1, <2>1 DEF TaskInv, Transmit, idVars, peerVars, Busy
  <2>2. CASE Dequeue \/ ResetId
    <3>1. pc' = "idle" /\ evt' = "none" /\ ~Busy'
      BY <2>2 DEF TaskInv, Dequeue, ResetId, taskVars, Busy
    <3>2. evt = "none" /\ p_mistook' = p_mistook /\ renumbered' \in {Busy, renumbered}
      BY <2>2 DEF TaskInv, Dequeue, ResetId, Renumber, peerVars
    <3>3. ~Busy /\ ~renumbered /\ ~p_mistook
      BY <3>2 DEF TaskInv, Busy
    <3> QED BY <1>1, <3>1, <3>2, <3>3 DEF TaskInv
  <2>3. CASE Run \/ Connect \/ Disconnect
    BY <1>1, <2>3 DEF TaskInv, Run, Connect, Disconnect, PeerAnew, taskVars, idVars,
                peerVars, Busy
  <2> QED BY <1>2, <2>1, <2>2, <2>3 DEF Engine
<1>3. CASE NoPacket \/ KeepPacket \/ ResetPacket \/ DropPacket \/ Acknowledge
  <2>1. CASE NoPacket \/ KeepPacket \/ DropPacket \/ Acknowledge
    BY <1>1, <2>1 DEF TaskInv, NoPacket, KeepPacket, DropPacket, Acknowledge, Packet,
                AfterReception, Busy, idVars, peerVars, Lost, PeerAcked
  <2>2. CASE ResetPacket
    <3>1. /\ pc = "run" /\ rx_enabled' = rx_enabled /\ rx_enabled
          /\ pc' = (IF evt = "TX" THEN "tx" ELSE "end")
          /\ UNCHANGED <<evt, tx_type, p_mistook>> /\ (renumbered' <=> Busy)
      BY <2>2 DEF ResetPacket, Packet, Renumber, AfterReception, peerVars
    <3>2. Busy' <=> Busy
      BY <3>1 DEF Busy
    <3>3. evt' = "none" \/ tx_type' = "HARD_RESET" => ~Busy
      BY <3>1 DEF Busy
    <3> QED BY <1>1, <3>1, <3>2, <3>3 DEF TaskInv
  <2> QED BY <1>3, <2>1, <2>2
<1>4. CASE Collision \/ SendHardReset \/ Attempt
  BY <1>1, <1>4 DEF TaskInv, Collision, SendHardReset, Attempt, TxDone, Busy, idVars,
                peerVars, Lost, PeerAnew, PeerTakes
<1>5. CASE WaitTimeout \/ WaitWoken \/ ReadPacket \/ ReadNothing
  BY <1>1, <1>5 DEF TaskInv, WaitTimeout, WaitWoken, ReadPacket, ReadNothing, Read, TxDone,
                NoAnswer, Busy, idVars, peerVars
<1>6. CASE End
  BY <1>1, <1>6 DEF TaskInv, End, Busy
<1>7. CASE Peer
  BY <1>1, <1>7 DEF TaskInv, Peer, PeerGoodCrc, PeerSend, PeerRetry, PeerGivesUp, PeerHardReset,
                SampleAgain, PeerSends, PeerAnew, PeerIdle, Busy, taskVars, idVars, peerVars
<1>8. CASE UNCHANGED vars
  BY <1>1, <1>8 DEF TaskInv, vars, taskVars, idVars, peerVars, Busy
<1> QED BY <1>2, <1>3, <1>4, <1>5, <1>6, <1>7, <1>8 DEF Next, Controller

\* Every step keeps the GoodCRC the answer to the message that is being sent.
LEMMA AnswerStep ==
    ASSUME TypeOK, PhyInv, AnswerInv, [Next]_vars
    PROVE  AnswerInv'
<1> USE FrameFacts DEF AnswerInv, TookIt
<1>1. CASE Engine
  BY <1>1 DEF Engine, Transmit, Run, Dequeue, ResetId, Connect, Disconnect, PeerAnew, taskVars,
                phyVars, peerVars
<1>2. CASE NoPacket \/ KeepPacket \/ ResetPacket \/ DropPacket \/ Acknowledge
  BY <1>2 DEF NoPacket, KeepPacket, ResetPacket, DropPacket, Acknowledge, Packet,
                AfterReception, phyVars, peerVars, Lost, PeerAcked
<1>3. CASE Collision \/ SendHardReset \/ End
  BY <1>3 DEF Collision, SendHardReset, End, TxDone, peerVars, Lost, PeerAnew
<1>4. CASE Attempt
  BY <1>4 DEF Attempt, peerVars, Lost, PeerTakes
<1>5. CASE WaitTimeout \/ WaitWoken
  BY <1>5 DEF WaitTimeout, WaitWoken, NoAnswer, TxDone, phyVars, peerVars
<1>6. CASE ReadPacket \/ ReadNothing
  BY <1>6 DEF ReadPacket, ReadNothing, Read, NoAnswer, TxDone, Good, peerVars
<1>7. CASE PeerGoodCrc
  <2>1. /\ UNCHANGED <<pc, tx_id, out, p_in, p_got, p_mistook>> /\ p_owes' = NoId
        /\ frame' \in {frame, Garbage, GoodCrc(p_owes)}
    BY <1>7 DEF PeerGoodCrc, PeerSends, Arrive, taskVars, phyVars
  <2>2. p_owes \in Ids
    BY <1>7 DEF PeerGoodCrc, TypeOK, PeerTypes
  <2> QED BY <1>7, <2>1, <2>2 DEF PeerGoodCrc
<1>8. ASSUME NEW soft \in BOOLEAN, PeerSend(soft)
      PROVE  AnswerInv'
  <2>1. /\ UNCHANGED <<pc, tx_id, out, p_owes, p_got, p_mistook>> /\ p_owes = NoId
        /\ p_in' \in {p_in, NoId} /\ frame' \in {frame, Garbage, PeerMessage'}
    BY <1>8 DEF PeerSend, PeerSends, Arrive, taskVars, phyVars
  <2>2. PeerMessage'.kind # "crc"
    BY DEF PeerMessage, Frame
  <2>3. NoId' = NoId
    BY DEF NoId
  <2> QED BY <2>1, <2>2, <2>3
<1>9. CASE PeerRetry
  <2>1. /\ UNCHANGED <<pc, tx_id, out, p_owes, p_in, p_got, p_mistook>> /\ p_owes = NoId
        /\ frame' \in {frame, Garbage, PeerMessage}
    BY <1>9 DEF PeerRetry, PeerSends, Arrive, taskVars, phyVars
  <2>2. PeerMessage.kind # "crc"
    BY DEF PeerMessage, Frame
  <2> QED BY <2>1, <2>2
<1>10. CASE PeerGivesUp \/ PeerHardReset \/ SampleAgain
  BY <1>10 DEF PeerGivesUp, PeerHardReset, SampleAgain, PeerSends, Arrive, PeerAnew, PeerIdle,
                PhyInv, taskVars, phyVars, peerVars
<1>11. CASE UNCHANGED vars
  BY <1>11 DEF vars, taskVars, phyVars, peerVars
<1> QED BY <1>1, <1>2, <1>3, <1>4, <1>5, <1>6, <1>7, <1>8, <1>9, <1>10, <1>11
        DEF Next, Controller, Peer

\* The slot before the head.
LEMMA LastKeptFacts ==
    ASSUME TypeOK
    PROVE  /\ LastKept \in Slots /\ rx_buf_increment(LastKept) = rx_buf_head
           /\ \A s \in Slots : rx_buf_increment(s) = rx_buf_head => s = LastKept
<1>1. RX_BUFFER_SIZE \in Nat /\ RX_BUFFER_SIZE > 0 /\ rx_buf_head \in 0 .. RX_BUFFER_SIZE
  BY TcpcAssumption DEF TypeOK, LineTypes, Slots
<1>2. \E s \in Slots : rx_buf_increment(s) = rx_buf_head
  <2>1. CASE rx_buf_head = 0
    BY <1>1, <2>1 DEF Slots, rx_buf_increment
  <2>2. CASE rx_buf_head # 0
    <3>1. rx_buf_head - 1 \in Slots /\ rx_buf_increment(rx_buf_head - 1) = rx_buf_head
      BY <1>1, <2>2 DEF Slots, rx_buf_increment
    <3> QED BY <3>1
  <2> QED BY <2>1, <2>2
<1>3. LastKept \in Slots /\ rx_buf_increment(LastKept) = rx_buf_head
  BY <1>2 DEF LastKept
<1>4. ASSUME NEW s \in Slots, NEW t \in Slots, rx_buf_increment(s) = rx_buf_increment(t)
      PROVE  s = t
  BY <1>1, <1>4 DEF Slots, rx_buf_increment
<1> QED BY <1>3, <1>4

\* Every step keeps the frames of the partner current.
LEMMA ReceiveStep ==
    ASSUME TypeOK, PhyInv, AnswerInv, ReceiveInv, [Next]_vars
    PROVE  ReceiveInv'
<1>1. /\ offered \in Nat /\ kept \in Nat /\ offered' \in Nat /\ kept' \in Nat
  BY HistoryStep DEF TypeOK, HistoryTypes
<1>2. LastKept \in Slots
  BY LastKeptFacts
<1> USE FrameFacts DEF ReceiveInv, IsMessage, Awaited
<1>3. CASE Engine
  <2>1. /\ pc' # "ack" /\ UNCHANGED <<sampling, frame, offered, kept>> /\ pc = "idle"
        /\ pc' \notin {"read", "wait"}
        /\ (UNCHANGED <<p_wait, p_met, p_id>>) \/ (~p_wait' /\ ~p_met')
    BY <1>3 DEF Engine, Transmit, Run, Dequeue, ResetId, Connect, Disconnect, PeerAnew, taskVars,
                phyVars, bufVars, peerVars
  <2> QED BY <2>1
<1>4. CASE NoPacket \/ ResetPacket \/ DropPacket
  <2>1. /\ pc = "run" /\ pc' \in {"tx", "end"} /\ UNCHANGED <<offered, kept, p_wait, p_met, p_id>>
        /\ (UNCHANGED <<sampling, frame>>) \/ (~sampling' /\ frame' = None)
    BY <1>4 DEF NoPacket, ResetPacket, DropPacket, Packet, AfterReception, phyVars, bufVars,
                peerVars
  <2> QED BY <2>1
<1>5. CASE KeepPacket
  <2>1. /\ pc = "run" /\ pc' = "ack" /\ UNCHANGED <<offered, p_wait, p_met, p_id>>
        /\ ~sampling' /\ frame' = None /\ Good(frame)
        /\ kept' = (IF frame.kind = "crc" THEN kept ELSE frame.n)
        /\ rx_head' = [rx_head EXCEPT ![rx_buf_head] = frame]
        /\ rx_buf_head' = rx_buf_increment(rx_buf_head)
    BY <1>5 DEF KeepPacket, Packet, peerVars
  <2>2. IsMessage(frame) /\ kept' = frame.n
    BY <2>1 DEF Good
  <2>3. LastKept' = rx_buf_head /\ rx_buf_head \in Slots
    <3>1. rx_buf_head \in Slots /\ rx_buf_head' \in Slots
      BY <2>1, SlotFacts DEF TypeOK, LineTypes
    <3>2. \A s \in Slots : rx_buf_increment(s) = rx_buf_increment(rx_buf_head) => s = rx_buf_head
      BY <3>1, TcpcAssumption DEF Slots, rx_buf_increment
    <3>3. LastKept' = CHOOSE s \in Slots : rx_buf_increment(s) = rx_buf_increment(rx_buf_head)
      BY <2>1 DEF LastKept, Slots, rx_buf_increment
    <3> QED BY <3>1, <3>2, <3>3
  <2>4. rx_head'[LastKept'] = frame
    BY <2>1, <2>3 DEF TypeOK, LineTypes
  <2> QED BY <2>1, <2>2, <2>4
<1>6. CASE Acknowledge
  <2>1. /\ pc = "ack" /\ pc' \in {"tx", "end"} /\ UNCHANGED <<offered, kept, sampling, p_met>>
        /\ frame' \in {frame, Garbage} /\ (~sampling => frame' = frame)
        /\ sampling => UNCHANGED <<p_wait, p_id>>
        /\ p_wait' => p_wait
    BY <1>6 DEF Acknowledge, AfterReception, bufVars, peerVars, Lost, PeerAcked, PeerIdle
  <2> QED BY <2>1
<1>7. CASE Collision \/ SendHardReset \/ Attempt
  <2>1. /\ pc = "tx" /\ pc' # "ack" /\ UNCHANGED <<offered, kept>>
        /\ \/ frame' = None
           \/ frame' = frame /\ UNCHANGED sampling /\ ~sampling
           \/ frame' \in {frame, Garbage} /\ UNCHANGED <<sampling, p_wait, p_met, p_id>> /\ sampling
        /\ p_wait' => p_wait /\ p_met'
    BY <1>7 DEF Collision, SendHardReset, Attempt, TxDone, bufVars, peerVars, Lost, PeerAnew,
                PeerTakes
  <2> QED BY <2>1
<1>8. CASE WaitTimeout \/ WaitWoken \/ ReadPacket \/ ReadNothing
  <2>1. /\ pc \in {"read", "wait"} /\ pc' # "ack" /\ UNCHANGED <<offered, kept, p_wait, p_met, p_id>>
        /\ \/ frame' = None
           \/ frame' = frame /\ sampling' /\ pc' = "read"
           \/ frame' = frame /\ ~sampling' /\ ~sampling
    BY <1>8 DEF WaitTimeout, WaitWoken, ReadPacket, ReadNothing, Read, NoAnswer, TxDone,
                bufVars, phyVars, peerVars
  <2> QED BY <2>1
<1>9. CASE End
  BY <1>9 DEF End, bufVars
<1>10. ASSUME PeerGoodCrc \/ PeerRetry \/ PeerHardReset \/ SampleAgain \/ PeerGivesUp
       PROVE  ReceiveInv'
  <2>1. /\ UNCHANGED <<pc, offered, kept, rx_head, rx_buf_head>>
        /\ LastKept' = LastKept
    BY <1>10 DEF PeerGoodCrc, PeerRetry, PeerHardReset, SampleAgain, PeerGivesUp, PeerSends,
                taskVars, bufVars, LastKept, Slots, rx_buf_increment
  <2>2. CASE PeerGoodCrc
    <3>1. /\ UNCHANGED <<p_wait, p_met, p_id>> /\ pc \in {"read", "wait"}
          /\ \/ frame' = frame /\ sampling' = sampling
             \/ frame' \in {Garbage, GoodCrc(p_owes)} /\ sampling'
      BY <2>2 DEF PeerGoodCrc, PeerSends, Arrive, phyVars, AnswerInv
    <3>2. p_owes \in Ids
      BY <2>2 DEF PeerGoodCrc, TypeOK, PeerTypes
    <3> QED BY <2>1, <3>1, <3>2
  <2>3. CASE PeerRetry
    <3>1. /\ UNCHANGED <<p_wait, p_met, p_id>> /\ p_wait
          /\ \/ frame' = frame /\ sampling' = sampling
             \/ frame' \in {Garbage, PeerMessage} /\ sampling'
      BY <2>3 DEF PeerRetry, PeerSends, Arrive, phyVars
    <3>2. /\ PeerMessage.kind \in {"msg", "soft"} /\ PeerMessage.id = p_id
          /\ PeerMessage.n = offered
      BY DEF PeerMessage, Frame
    <3>3. kept <= offered /\ offered <= offered
      BY <1>1
    <3> QED BY <2>1, <3>1, <3>2, <3>3
  <2>4. CASE PeerHardReset
    <3>1. /\ ~p_wait' /\ ~p_met'
          /\ \/ frame' = frame /\ sampling' = sampling
             \/ frame' \in {Garbage, Reset} /\ sampling'
      BY <2>4 DEF PeerHardReset, PeerAnew, PeerSends, Arrive, phyVars
    <3> QED BY <2>1, <3>1
  <2>5. CASE SampleAgain
    BY <2>1, <2>5 DEF SampleAgain, peerVars
  <2>6. CASE PeerGivesUp
    <3>1. /\ ~sampling /\ pc # "ack" /\ UNCHANGED <<sampling, frame, p_met>> /\ ~p_wait'
      BY <2>6 DEF PeerGivesUp, PeerIdle, phyVars
    <3> QED BY <2>1, <3>1
  <2> QED BY <1>10, <2>2, <2>3, <2>4, <2>5, <2>6
<1>11. ASSUME NEW soft \in BOOLEAN, PeerSend(soft)
       PROVE  ReceiveInv'
  <2>1. /\ UNCHANGED <<pc, kept, p_met>> /\ offered' = offered + 1 /\ p_wait' /\ p_met /\ ~p_wait
        /\ \/ frame' = frame /\ sampling' = sampling
           \/ frame' \in {Garbage, PeerMessage'} /\ sampling'
    BY <1>11 DEF PeerSend, PeerSends, Arrive, taskVars, bufVars, phyVars
  <2>2. pc # "ack" /\ ~IsMessage(frame)
    BY <2>1
  <2>3. /\ PeerMessage'.kind \in {"msg", "soft"} /\ PeerMessage'.id = p_id'
        /\ PeerMessage'.n = offered'
    BY DEF PeerMessage, Frame
  <2>4. kept <= offered' /\ offered' <= offered'
    BY <1>1, <2>1
  <2> QED BY <2>1, <2>2, <2>3, <2>4
<1>12. CASE UNCHANGED vars
  BY <1>12 DEF vars, taskVars, phyVars, peerVars, bufVars, LastKept, Slots, rx_buf_increment
<1> QED BY <1>3, <1>4, <1>5, <1>6, <1>7, <1>8, <1>9, <1>10, <1>11, <1>12
        DEF Next, Controller, Peer

IInv == TypeOK /\ PhyInv /\ TaskInv /\ AnswerInv /\ ReceiveInv

LEMMA InitInv == Init => IInv
<1> SUFFICES ASSUME Init PROVE IInv
  OBVIOUS
<1> USE DEF Init
<1>0. 0 \in Ids /\ 0 \in Slots /\ 0 \in 0 .. PD_RETRY_COUNT /\ 0 \in 0 .. PeerRetries
  BY IdFacts, TcpcAssumption DEF Slots
<1>1. TaskTypes
  <2>1. rx_enabled \in BOOLEAN /\ renumbered \in BOOLEAN
    OBVIOUS
  <2> QED BY <1>0, <2>1 DEF TaskTypes, TxTypes
<1>2. LineTypes
  <2>1. sampling \in BOOLEAN /\ monitoring \in BOOLEAN
    OBVIOUS
  <2>2. None \in Frames
    BY FrameFacts
  <2> QED BY <1>0, <2>1, <2>2 DEF LineTypes
<1>3. PeerTypes
  <2>1. p_wait \in BOOLEAN /\ p_met \in BOOLEAN /\ p_soft \in BOOLEAN /\ p_mistook \in BOOLEAN
    OBVIOUS
  <2> QED BY <1>0, <2>1 DEF PeerTypes
<1>4. HistoryTypes
  BY TcpcAssumption DEF HistoryTypes
<1>5. PhyInv /\ AnswerInv /\ ReceiveInv
  BY FrameFacts DEF PhyInv, AnswerInv, ReceiveInv, IsMessage
<1>6. TaskInv
  BY DEF TaskInv, Busy
<1> QED BY <1>1, <1>2, <1>3, <1>4, <1>5, <1>6 DEF IInv, TypeOK

LEMMA StepInv == IInv /\ [Next]_vars => IInv'
  BY TaskStep, LineStep, PeerStep, HistoryStep, PhyStep, TaskInvStep, AnswerStep, ReceiveStep
     DEF IInv, TypeOK

LEMMA Invariant == Spec => []IInv
  BY InitInv, StepInv, PTL DEF Spec

\* The controller's registers and ids, the line, the partner and the histories keep
\* their types: no id leaves its width and no slot is outside of the receive buffer.
THEOREM TypeCorrect == Spec => []TypeOK
<1>1. IInv => TypeOK
  BY DEF IInv
<1> QED BY <1>1, Invariant, PTL

\* tcpc_run(): a port with the receiver on has the comparator interrupt enabled or a frame
\* being sampled whenever the function has returned.
THEOREM NotDeaf == Spec => []NeverDeaf
<1>1. Init => NeverDeaf
  BY DEF Init, NeverDeaf
<1>2. NeverDeaf /\ [Next]_vars => NeverDeaf'
  <2> SUFFICES ASSUME NeverDeaf, [Next]_vars PROVE NeverDeaf'
    OBVIOUS
  <2> USE DEF NeverDeaf
  <2>1. CASE Engine
    BY <2>1 DEF Engine, Transmit, Run, Dequeue, ResetId, Connect, Disconnect, taskVars, idVars,
                phyVars
  <2>2. CASE End
    BY <2>2 DEF End, Monitoring
  <2>3. CASE Controller /\ ~End
    BY <2>3 DEF Controller, NoPacket, KeepPacket, ResetPacket, DropPacket, Acknowledge,
                Collision, SendHardReset, Attempt, WaitTimeout, WaitWoken, ReadPacket,
                ReadNothing, Packet, Read, AfterReception, TxDone, NoAnswer
  <2>4. CASE Peer
    BY <2>4 DEF Peer, PeerGoodCrc, PeerSend, PeerRetry, PeerGivesUp, PeerHardReset, SampleAgain,
                PeerSends, Arrive, taskVars, idVars, phyVars
  <2>5. CASE UNCHANGED vars
    BY <2>5 DEF vars, taskVars, idVars, phyVars
  <2> QED BY <2>1, <2>2, <2>3, <2>4, <2>5 DEF Next
<1> QED BY <1>1, <1>2, PTL DEF Spec

-----------------------------------------------------------------------------
(* The port controller implements LinkOut *)

\* The mapped variables are Boolean, before and after a step.
LEMMA Mapped ==
    /\ Busy \in BOOLEAN /\ Busy' \in BOOLEAN /\ Doubt \in BOOLEAN /\ Doubt' \in BOOLEAN
    /\ (Busy /\ renumbered) \in BOOLEAN /\ (Busy /\ renumbered)' \in BOOLEAN
<1>1. Busy \in BOOLEAN /\ Busy' \in BOOLEAN
  BY DEF Busy
<1>2. Doubt \in BOOLEAN /\ Doubt' \in BOOLEAN
  BY DEF Doubt
<1> QED BY <1>1, <1>2

\* A step that leaves alone what LinkOut sees.
LEMMA Stutter ==
    ASSUME UNCHANGED <<tx_id, renumbered, msg_id, out, result, p_got, p_mistook, p_in>>,
           Busy' <=> Busy
    PROVE  UNCHANGED Out!vars
<1>1. Doubt' = Doubt
  BY DEF Doubt
<1>2. Busy' = Busy
  BY Mapped
<1> QED BY <1>1, <1>2 DEF Out!vars

\* The partner forgets the last message, or does not.
LEMMA Forgetting ==
    ASSUME TypeOK, UNCHANGED <<tx_id, renumbered, msg_id, out, result, p_got, p_mistook>>,
           Busy' <=> Busy, p_in' \in {p_in, NoId}
    PROVE  [Out!Next]_(Out!vars)
<1>1. CASE p_in' = p_in
  BY <1>1, Stutter
<1>2. CASE p_in' = NoId
  <2>1. NoId # tx_id /\ NoId # msg_id
    BY IdFacts DEF TypeOK, TaskTypes
  <2>2. Doubt' => Doubt
    BY <1>2, <2>1 DEF Doubt
  <2>3. Doubt' = Doubt \/ Doubt' = FALSE
    BY <2>2, Mapped
  <2>4. Busy' = Busy
    BY Mapped
  <2>5. UNCHANGED <<out, Busy, result, p_got, Busy /\ renumbered>>
    BY <2>4
  <2>6. Out!PeerForgets \/ UNCHANGED Out!vars
    BY <2>3, <2>5 DEF Out!PeerForgets, Out!vars
  <2> QED BY <2>6 DEF Out!Next
<1> QED BY <1>1, <1>2

\* pd_transmit() reports a failure.
LEMMA Failing ==
    ASSUME TaskInv, Busy, ~Busy', result' = "failed",
           UNCHANGED <<out, p_got, p_in, msg_id>>
    PROVE  Out!Next
<1>1. Doubt' => renumbered \/ Doubt \/ p_got = out
  <2>1. ~renumbered => tx_id = msg_id
    BY DEF TaskInv
  <2> QED BY <2>1 DEF Doubt
<1>2. (Busy /\ renumbered)' = FALSE /\ Busy' = FALSE
  BY Mapped
<1>3. Out!Finish(FALSE)
  BY <1>1, <1>2, Mapped DEF Out!Finish
<1> QED BY <1>3 DEF Out!Next

\* The end of an attempt without an answer: another attempt, or a failure.
LEMMA Unanswered ==
    ASSUME IInv, pc \in {"read", "wait"}, NoAnswer,
           UNCHANGED <<evt, tx_type, tx_id, rx_enabled, renumbered, out, p_got, p_mistook, p_in>>
    PROVE  [Out!Next]_(Out!vars)
<1>1. Busy /\ rx_enabled
  BY DEF IInv, TaskInv, TypeOK, TaskTypes, Busy
<1>2. CASE r < Retries
  <2>1. pc' = "tx" /\ UNCHANGED <<msg_id, result>>
    BY <1>2 DEF NoAnswer
  <2>2. Busy'
    BY <1>1, <2>1 DEF Busy
  <2> QED BY <1>1, <2>1, <2>2, Stutter
<1>3. CASE ~(r < Retries)
  <2>1. pc' = "end" /\ result' = "failed" /\ msg_id' = msg_id
    BY <1>3 DEF NoAnswer, TxDone
  <2>2. ~Busy'
    BY <1>1, <2>1 DEF Busy
  <2> QED BY <1>1, <2>1, <2>2, Failing DEF IInv
<1> QED BY <1>2, <1>3

\* Every step of the protocol engine's calls is one of LinkOut, or a stutter.
LEMMA EngineRefines ==
    ASSUME IInv, Engine
    PROVE  [Out!Next]_(Out!vars)
<1>1. pc = "idle" /\ evt = "none" /\ ~renumbered /\ ~p_mistook
  BY DEF Engine, Transmit, Run, Dequeue, ResetId, Connect, Disconnect, IInv, TaskInv
<1>2. ~Busy
  BY <1>1 DEF Busy
<1>3. ASSUME NEW type \in TxTypes, Transmit(type)
      PROVE  [Out!Next]_(Out!vars)
  <2>1. /\ pc' = "run" /\ evt' = "TX" /\ tx_type' = type /\ tx_id' = msg_id
        /\ UNCHANGED <<msg_id, renumbered, result, p_got, p_in, p_mistook>>
        /\ out' = IF type = "HARD_RESET" THEN out ELSE out + 1
    BY <1>3 DEF Transmit, idVars, peerVars
  <2>2. CASE type = "HARD_RESET"
    <3>1. ~Busy' /\ out' = out
      BY <2>1, <2>2 DEF Busy
    <3>2. Doubt' = Doubt /\ Busy' = Busy
      BY <1>2, <2>1, <3>1, Mapped DEF Doubt
    <3>3. UNCHANGED Out!vars
      BY <1>1, <2>1, <3>1, <3>2 DEF Out!vars
    <3> QED BY <3>3
  <2>3. CASE type # "HARD_RESET"
    <3>1. Busy' /\ out' = out + 1
      BY <2>1, <2>3 DEF Busy
    <3>2. p_got # out + 1
      BY DEF IInv, TaskInv, TypeOK, HistoryTypes
    <3>3. Doubt' <=> Doubt
      BY <1>1, <1>2, <2>1, <3>1, <3>2 DEF Doubt
    <3>4. Doubt' = Doubt /\ Busy' = TRUE /\ (Busy /\ renumbered)' = (Busy /\ renumbered)
      BY <1>1, <2>1, <3>1, <3>3, Mapped
    <3>5. Out!Start
      BY <1>2, <2>1, <3>1, <3>4 DEF Out!Start
    <3> QED BY <3>5 DEF Out!Next
  <2> QED BY <2>2, <2>3
<1>4. CASE Dequeue \/ ResetId
  <2>1. UNCHANGED <<evt, out, result, p_got>>
    BY <1>4 DEF Dequeue, ResetId, taskVars, peerVars
  <2>2. ~Busy'
    BY <1>1, <2>1 DEF Busy
  <2>3. Busy' = Busy /\ (Busy /\ renumbered)' = Busy
    BY <1>2, <2>2, Mapped
  <2>4. Out!Renumber
    BY <2>1, <2>3, Mapped DEF Out!Renumber
  <2> QED BY <2>4 DEF Out!Next
<1>5. CASE Run \/ Connect \/ Disconnect
  <2>1. /\ UNCHANGED <<tx_id, renumbered, msg_id, out, result, p_got, p_mistook>>
        /\ evt' = "none" /\ p_in' \in {p_in, NoId}
    BY <1>1, <1>5 DEF Run, Connect, Disconnect, PeerAnew, taskVars, idVars, peerVars
  <2>2. ~Busy'
    BY <2>1 DEF Busy
  <2> QED BY <1>2, <2>1, <2>2, Forgetting DEF IInv
<1> QED BY <1>3, <1>4, <1>5 DEF Engine

\* Every step of tcpc_run() is one of LinkOut, or a stutter.
LEMMA ControllerRefines ==
    ASSUME IInv, Controller
    PROVE  [Out!Next]_(Out!vars)
<1>1. CASE NoPacket \/ KeepPacket \/ DropPacket \/ Acknowledge \/ WaitWoken
  <2>1. /\ UNCHANGED <<evt, tx_type, tx_id, rx_enabled, renumbered, msg_id, out, result, p_got,
                       p_mistook, p_in>>
        /\ pc # "end" /\ (pc' = "end" => ~(evt = "TX" /\ rx_enabled))
    BY <1>1 DEF NoPacket, KeepPacket, DropPacket, Acknowledge, WaitWoken, Packet,
                AfterReception, idVars, peerVars, Lost, PeerAcked
  <2>2. Busy' <=> Busy
    BY <2>1 DEF Busy
  <2> QED BY <2>1, <2>2, Stutter
<1>2. CASE ResetPacket
  <2>1. /\ UNCHANGED <<evt, tx_type, rx_enabled, out, result, p_got>> /\ (renumbered' <=> Busy)
        /\ pc # "end" /\ (pc' = "end" => ~(evt = "TX" /\ rx_enabled))
    BY <1>2 DEF ResetPacket, Packet, Renumber, AfterReception, peerVars
  <2>2. Busy' <=> Busy
    BY <2>1 DEF Busy
  <2>3. Busy' = Busy /\ (Busy /\ renumbered)' = Busy
    BY <2>1, <2>2, Mapped
  <2>4. Out!Renumber
    BY <2>1, <2>3, Mapped DEF Out!Renumber
  <2> QED BY <2>4 DEF Out!Next
<1>3. CASE Collision \/ SendHardReset
  <2>1. /\ evt = "TX" /\ rx_enabled /\ pc = "tx" /\ pc' = "end"
        /\ UNCHANGED <<evt, tx_type, rx_enabled, out, p_got>>
        /\ result' \in {"ok", "failed"}
        /\ tx_type # "HARD_RESET" =>
             result' = "failed" /\ UNCHANGED <<p_in, msg_id>>
    BY <1>3 DEF Collision, SendHardReset, TxDone, PeerAnew, Lost, peerVars, IInv, TaskInv
  <2>2. ~Busy' /\ (Busy <=> tx_type # "HARD_RESET")
    BY <2>1 DEF Busy
  <2>3. CASE tx_type = "HARD_RESET"
    <3>1. Busy' = Busy /\ (Busy /\ renumbered)' = (Busy /\ renumbered)
      BY <2>2, <2>3, Mapped
    <3>2. Out!HardReset
      BY <2>1, <2>2, <2>3, <3>1, Mapped DEF Out!HardReset
    <3> QED BY <3>2 DEF Out!Next
  <2>4. CASE tx_type # "HARD_RESET"
    BY <2>1, <2>2, <2>4, Failing DEF IInv
  <2> QED BY <2>3, <2>4
<1>4. CASE Attempt
  <2>1. /\ UNCHANGED <<evt, tx_type, tx_id, rx_enabled, renumbered, msg_id, out, result>>
        /\ pc = "tx" /\ pc' # "end" /\ evt = "TX" /\ tx_type # "HARD_RESET"
    BY <1>4 DEF Attempt, idVars, IInv, TaskInv
  <2>2. Busy /\ Busy'
    BY <2>1 DEF Busy
  <2>3. CASE Lost
    BY <2>1, <2>2, <2>3, Stutter DEF Lost, peerVars
  <2>4. CASE PeerTakes(out, tx_id)
    <3>1. CASE p_in = tx_id
      <4>1. /\ p_in' = p_in /\ p_got' = p_got
            /\ p_mistook' <=> p_mistook \/ p_got # out
        BY <2>4, <3>1 DEF PeerTakes
      <4>2. Doubt' <=> Doubt
        BY <2>1, <2>2, <3>1, <4>1 DEF Doubt
      <4>3. Doubt' = Doubt /\ Busy' = Busy /\ (Busy /\ renumbered)' = (Busy /\ renumbered)
        BY <2>1, <2>2, <4>2, Mapped
      <4>4. UNCHANGED Out!vars
        BY <2>1, <4>1, <4>3 DEF Out!vars
      <4> QED BY <4>4
    <3>2. CASE p_in # tx_id
      <4>1. p_got' = out
        BY <2>4, <3>2 DEF PeerTakes
      <4>2. Doubt' = FALSE /\ Busy' = Busy /\ (Busy /\ renumbered)' = (Busy /\ renumbered)
        BY <2>1, <2>2, <4>1, Mapped DEF Doubt
      <4>3. CASE p_got = out
        <5>1. Doubt = FALSE
          BY <2>2, <4>3 DEF Doubt
        <5>2. UNCHANGED Out!vars
          BY <2>1, <4>1, <4>2, <4>3, <5>1 DEF Out!vars
        <5> QED BY <5>2
      <4>4. CASE p_got # out
        <5>1. p_got < out
          BY <4>4 DEF IInv, TaskInv, TypeOK, HistoryTypes
        <5>2. Out!Reach
          BY <2>1, <2>2, <4>1, <4>2, <5>1 DEF Out!Reach
        <5> QED BY <5>2 DEF Out!Next
      <4> QED BY <4>3, <4>4
    <3> QED BY <3>1, <3>2
  <2> QED BY <1>4, <2>3, <2>4 DEF Attempt
<1>5. CASE WaitTimeout \/ ReadNothing
  <2>1. /\ UNCHANGED <<evt, tx_type, tx_id, rx_enabled, renumbered, out, p_got, p_mistook, p_in>>
        /\ pc \in {"read", "wait"} /\ NoAnswer
    BY <1>5 DEF WaitTimeout, ReadNothing, Read
  <2> QED BY <2>1, Unanswered
<1>6. CASE ReadPacket
  <2>1. /\ UNCHANGED <<evt, tx_type, tx_id, rx_enabled, renumbered, out, p_got, p_mistook, p_in>>
        /\ pc = "read" /\ pc' = "end" /\ evt = "TX" /\ rx_enabled /\ tx_type # "HARD_RESET"
    BY <1>6 DEF ReadPacket, Read, TxDone, peerVars, IInv, TaskInv
  <2>2. Busy /\ ~Busy'
    BY <2>1 DEF Busy
  <2>3. CASE ~IsAnswer(frame)
    <3>1. result' = "failed" /\ msg_id' = msg_id
      BY <1>6, <2>3 DEF ReadPacket, TxDone
    <3> QED BY <2>1, <2>2, <3>1, Failing DEF IInv
  <2>4. CASE IsAnswer(frame)
    <3>1. result' = "ok" /\ msg_id' = NextId(msg_id)
      BY <1>6, <2>4 DEF ReadPacket, TxDone
    <3>2. (p_got = out \/ p_mistook) /\ p_in \in {tx_id, NoId}
      BY <2>1, <2>4 DEF IInv, AnswerInv, TookIt, IsAnswer
    <3>3. p_got = out \/ Doubt
      BY <2>2, <3>2 DEF Doubt
    <3>4. ~renumbered => ~Doubt'
      <4>1. ~renumbered => tx_id = msg_id
        BY <2>2 DEF IInv, TaskInv
      <4>2. msg_id \in Ids /\ NextId(msg_id) # msg_id /\ NextId(msg_id) # NoId
        BY IdFacts DEF IInv, TypeOK, TaskTypes
      <4> QED BY <2>1, <2>2, <3>1, <3>2, <4>1, <4>2 DEF Doubt
    <3>5. Busy' = FALSE /\ (Busy /\ renumbered)' = FALSE
      BY <2>2, Mapped
    <3>6. Out!Finish(TRUE)
      BY <2>1, <2>2, <3>1, <3>3, <3>4, <3>5, Mapped DEF Out!Finish
    <3> QED BY <3>6 DEF Out!Next
  <2> QED BY <2>3, <2>4
<1>7. CASE End
  <2>1. /\ UNCHANGED <<msg_id, out, p_got, p_in>> /\ pc = "end" /\ evt' = "none" /\ ~renumbered'
        /\ result' = IF evt = "TX" /\ ~rx_enabled THEN "failed" ELSE result
    BY <1>7 DEF End
  <2>2. ~Busy'
    BY <2>1 DEF Busy
  <2>3. CASE Busy
    <3>1. result' = "failed"
      BY <2>1, <2>3 DEF Busy
    <3> QED BY <2>1, <2>2, <2>3, <3>1, Failing DEF IInv
  <2>4. CASE ~Busy
    <3>1. /\ Busy' = Busy /\ (Busy /\ renumbered)' = (Busy /\ renumbered)
          /\ Doubt' = Doubt
      BY <2>1, <2>2, <2>4, Mapped DEF Doubt
    <3>2. result' = result => UNCHANGED Out!vars
      BY <2>1, <3>1 DEF Out!vars
    <3>3. result' = "failed" => Out!HardReset
      BY <2>1, <2>4, <3>1, Mapped DEF Out!HardReset
    <3> QED BY <2>1, <3>2, <3>3 DEF Out!Next
  <2> QED BY <2>3, <2>4
<1> QED BY <1>1, <1>2, <1>3, <1>4, <1>5, <1>6, <1>7 DEF Controller

\* Every step of the partner is one of LinkOut, or a stutter.
LEMMA PeerRefines ==
    ASSUME IInv, Peer
    PROVE  [Out!Next]_(Out!vars)
<1>1. /\ UNCHANGED <<pc, evt, tx_type, tx_id, rx_enabled, renumbered, msg_id, out, result, p_got,
                     p_mistook>>
      /\ p_in' \in {p_in, NoId}
  BY DEF Peer, PeerGoodCrc, PeerSend, PeerRetry, PeerGivesUp, PeerHardReset, SampleAgain,
         PeerSends, PeerAnew, PeerIdle, taskVars, idVars, peerVars
<1>2. Busy' <=> Busy
  BY <1>1 DEF Busy
<1> QED BY <1>1, <1>2, Forgetting DEF IInv

\* The port controller implements LinkOut: whatever is lost, damaged, repeated, collides or
\* is reset, pd_transmit() reports a success only for a message that has reached the partner,
\* or while the message ids are out of step for a reason.
THEOREM SenderRefines == Spec => SenderSpec
<1>1. Init => Out!Init
  <2> SUFFICES ASSUME Init PROVE Out!Init
    OBVIOUS
  <2>1. ~Busy
    BY DEF Init, Busy
  <2>2. ~Doubt
    <3>1. NoId # 0
      BY IdFacts
    <3> QED BY <2>1, <3>1 DEF Init, Doubt
  <2>3. Busy = FALSE /\ Doubt = FALSE /\ (Busy /\ renumbered) = FALSE
    BY <2>1, <2>2, Mapped
  <2> QED BY <2>3 DEF Init, Out!Init
<1>2. IInv /\ [Next]_vars => [Out!Next]_(Out!vars)
  <2> SUFFICES ASSUME IInv, [Next]_vars PROVE [Out!Next]_(Out!vars)
    OBVIOUS
  <2>1. CASE UNCHANGED vars
    <3>1. UNCHANGED <<pc, evt, tx_type, tx_id, rx_enabled, renumbered, msg_id, out, result, p_got,
                      p_mistook, p_in>>
      BY <2>1 DEF vars, taskVars, idVars, peerVars
    <3>2. Busy' <=> Busy
      BY <3>1 DEF Busy
    <3> QED BY <3>1, <3>2, Stutter
  <2> QED BY <2>1, EngineRefines, ControllerRefines, PeerRefines DEF Next
<1> QED BY <1>1, <1>2, Invariant, PTL DEF Spec, SenderSpec, Out!Spec

-----------------------------------------------------------------------------
(* The port controller implements LinkIn *)

\* The receive buffer is a ring of RX_BUFFER_SIZE + 1 slots, the one at the head free.
LEMMA RingFacts ==
    ASSUME TypeOK
    PROVE  /\ RxCount \in 0 .. RX_BUFFER_SIZE
           /\ rx_buf_is_full <=> RxCount = RX_BUFFER_SIZE
           /\ rx_buf_is_empty <=> RxCount = 0
           /\ \A i \in 1 .. RxCount : RxSlot(i) \in Slots /\ RxSlot(i) # rx_buf_head
           /\ \A i \in 2 .. RxCount : RxSlot(i) # rx_buf_tail
           /\ RxSlot(RxCount + 1) = rx_buf_head
<1>1. /\ RX_BUFFER_SIZE \in Nat /\ RX_BUFFER_SIZE > 0
      /\ rx_buf_head \in 0 .. RX_BUFFER_SIZE /\ rx_buf_tail \in 0 .. RX_BUFFER_SIZE
  BY TcpcAssumption DEF TypeOK, LineTypes, Slots
<1> USE <1>1 DEF RxCount, RxSlot, Slots
<1>2. RxCount \in 0 .. RX_BUFFER_SIZE
  OBVIOUS
<1>3. rx_buf_is_full <=> RxCount = RX_BUFFER_SIZE
  BY DEF rx_buf_is_full
<1>4. rx_buf_is_empty <=> RxCount = 0
  BY DEF rx_buf_is_empty
<1>5. ASSUME NEW i \in 1 .. RxCount PROVE RxSlot(i) \in Slots /\ RxSlot(i) # rx_buf_head
  OBVIOUS
<1>6. ASSUME NEW i \in 2 .. RxCount PROVE RxSlot(i) # rx_buf_tail
  OBVIOUS
<1>7. RxSlot(RxCount + 1) = rx_buf_head
  OBVIOUS
<1> QED BY <1>2, <1>3, <1>4, <1>5, <1>6, <1>7

LEMMA FrameNumber == \A f \in Frames : f.n \in Nat
  BY TcpcAssumption DEF Frames, None, Garbage, Reset, GoodCrc, Frame

\* The messages in the buffer are a sequence.
LEMMA InboxFacts ==
    ASSUME TypeOK
    PROVE  /\ Inbox \in Seq(Nat) /\ Len(Inbox) = RxCount
           /\ \A i \in 1 .. RxCount : Inbox[i] = rx_head[RxSlot(i)].n
<1>1. RxCount \in Nat
  BY RingFacts, TcpcAssumption
<1>2. \A i \in 1 .. RxCount : rx_head[RxSlot(i)].n \in Nat
  BY RingFacts, FrameNumber DEF TypeOK, LineTypes
<1>3. Inbox \in [1 .. RxCount -> Nat]
  BY <1>2 DEF Inbox
<1> QED BY <1>1, <1>3 DEF Inbox

\* A packet that is kept becomes the last message.
LEMMA KeepAppends ==
    ASSUME TypeOK, TypeOK', KeepPacket
    PROVE  Inbox' = Append(Inbox, frame.n)
<1>1. /\ rx_buf_tail' = rx_buf_tail /\ rx_buf_head' = rx_buf_increment(rx_buf_head)
      /\ rx_head' = [rx_head EXCEPT ![rx_buf_head] = frame] /\ ~rx_buf_is_full
  BY DEF KeepPacket, Packet
<1>2. /\ RX_BUFFER_SIZE \in Nat /\ RX_BUFFER_SIZE > 0
      /\ rx_buf_head \in 0 .. RX_BUFFER_SIZE /\ rx_buf_tail \in 0 .. RX_BUFFER_SIZE
  BY TcpcAssumption DEF TypeOK, LineTypes, Slots
<1>3. RxCount' = RxCount + 1 /\ RxCount \in Nat
  <2>1. RxCount \in 0 .. RX_BUFFER_SIZE /\ RxCount # RX_BUFFER_SIZE
    BY <1>1, RingFacts
  <2> QED BY <1>1, <1>2, <2>1 DEF RxCount, rx_buf_increment
<1>4. \A i \in Nat : RxSlot(i)' = RxSlot(i)
  BY <1>1 DEF RxSlot
<1>5. frame.n \in Nat
  BY FrameNumber DEF TypeOK, LineTypes
<1>6. \A i \in 1 .. RxCount : Inbox'[i] = Inbox[i]
  <2> SUFFICES ASSUME NEW i \in 1 .. RxCount PROVE Inbox'[i] = Inbox[i]
    OBVIOUS
  <2>1. Inbox'[i] = rx_head'[RxSlot(i)'].n
    BY <1>3 DEF Inbox
  <2>2. RxSlot(i)' = RxSlot(i) /\ RxSlot(i) \in Slots /\ RxSlot(i) # rx_buf_head
    BY <1>4, RingFacts
  <2>3. rx_head'[RxSlot(i)] = rx_head[RxSlot(i)]
    BY <1>1, <2>2 DEF TypeOK, LineTypes
  <2> QED BY <2>1, <2>2, <2>3, InboxFacts
<1>7. Inbox'[RxCount + 1] = frame.n
  <2>0. PICK k \in Nat : k = RxCount + 1
    BY <1>3
  <2>1. k \in 1 .. RxCount'
    BY <1>3, <2>0
  <2>2. Inbox'[k] = rx_head'[RxSlot(k)'].n
    BY <2>1 DEF Inbox
  <2>3. RxSlot(k)' = rx_buf_head
    BY <1>4, <2>0, RingFacts
  <2>4. rx_head'[rx_buf_head] = frame
    BY <1>1 DEF TypeOK, LineTypes
  <2> QED BY <2>0, <2>2, <2>3, <2>4
<1>8. Inbox' \in Seq(Nat) /\ Len(Inbox') = RxCount + 1
  <2>1. Inbox' \in [1 .. RxCount + 1 -> Nat]
    <3>1. DOMAIN Inbox' = 1 .. RxCount + 1 /\ Inbox' = [i \in 1 .. RxCount + 1 |-> Inbox'[i]]
      BY <1>3 DEF Inbox
    <3>2. \A i \in 1 .. RxCount + 1 : Inbox'[i] \in Nat
      <4>1. \A i \in 1 .. RxCount : Inbox[i] \in Nat
        BY InboxFacts
      <4> QED BY <1>3, <1>5, <1>6, <1>7, <4>1
    <3> QED BY <3>1, <3>2
  <2> QED BY <1>3, <2>1
<1>9. /\ Append(Inbox, frame.n) \in Seq(Nat) /\ Len(Append(Inbox, frame.n)) = RxCount + 1
      /\ \A i \in 1 .. RxCount : Append(Inbox, frame.n)[i] = Inbox[i]
      /\ Append(Inbox, frame.n)[RxCount + 1] = frame.n
  BY <1>5, InboxFacts, AppendProperties
<1>10. \A i \in 1 .. RxCount + 1 : Inbox'[i] = Append(Inbox, frame.n)[i]
  BY <1>3, <1>6, <1>7, <1>9
<1> QED BY <1>8, <1>9, <1>10, SeqEqual

\* The protocol engine takes the first message.
LEMMA DequeueTakes ==
    ASSUME TypeOK, Dequeue
    PROVE  Inbox # <<>> /\ Inbox' = Tail(Inbox)
<1>1. /\ rx_buf_head' = rx_buf_head /\ rx_buf_tail' = rx_buf_increment(rx_buf_tail)
      /\ rx_head' = [rx_head EXCEPT ![rx_buf_tail] = None] /\ ~rx_buf_is_empty
  BY DEF Dequeue
<1>2. /\ RX_BUFFER_SIZE \in Nat /\ RX_BUFFER_SIZE > 0
      /\ rx_buf_head \in 0 .. RX_BUFFER_SIZE /\ rx_buf_tail \in 0 .. RX_BUFFER_SIZE
  BY TcpcAssumption DEF TypeOK, LineTypes, Slots
<1>3. RxCount' = RxCount - 1 /\ RxCount \in Nat /\ RxCount > 0
  <2>1. RxCount \in 0 .. RX_BUFFER_SIZE /\ RxCount # 0
    BY <1>1, RingFacts
  <2> QED BY <1>1, <1>2, <2>1 DEF RxCount, rx_buf_increment
<1>4. Inbox # <<>>
  BY <1>3, InboxFacts, EmptySeq
<1>5. /\ Tail(Inbox) \in Seq(Nat) /\ Len(Tail(Inbox)) = RxCount - 1
      /\ \A i \in 1 .. RxCount - 1 : Tail(Inbox)[i] = Inbox[i + 1]
  BY <1>3, <1>4, InboxFacts, HeadTailProperties
<1>6. ASSUME NEW i \in 1 .. RxCount - 1
      PROVE  Inbox'[i] = Inbox[i + 1] /\ Inbox'[i] \in Nat
  <2>1. Inbox'[i] = rx_head'[RxSlot(i)'].n
    BY <1>3 DEF Inbox
  <2>2. RxSlot(i)' = RxSlot(i + 1)
    <3>1. i \in Nat /\ i > 0 /\ i < RX_BUFFER_SIZE
      BY <1>2, <1>3, RingFacts
    <3>2. CASE rx_buf_tail = RX_BUFFER_SIZE
      <4>1. rx_buf_tail' = 0
        BY <1>1, <3>2 DEF rx_buf_increment
      <4>2. RxSlot(i)' = i - 1
        BY <1>2, <3>1, <4>1 DEF RxSlot
      <4>3. RxSlot(i + 1) = i - 1
        BY <1>2, <3>1, <3>2 DEF RxSlot
      <4> QED BY <4>2, <4>3
    <3>3. CASE rx_buf_tail # RX_BUFFER_SIZE
      <4>1. rx_buf_tail' = rx_buf_tail + 1
        BY <1>1, <3>3 DEF rx_buf_increment
      <4>2. rx_buf_tail' + i - 1 = rx_buf_tail + i /\ rx_buf_tail + (i + 1) - 1 = rx_buf_tail + i
        BY <1>2, <3>1, <4>1
      <4> QED BY <4>2 DEF RxSlot
    <3> QED BY <3>2, <3>3
  <2>3. i + 1 \in 1 .. RxCount /\ i + 1 \in 2 .. RxCount
    BY <1>3
  <2>4. RxSlot(i + 1) \in Slots /\ RxSlot(i + 1) # rx_buf_tail
    BY <2>3, RingFacts
  <2>5. rx_head'[RxSlot(i + 1)] = rx_head[RxSlot(i + 1)]
    BY <1>1, <2>4 DEF TypeOK, LineTypes
  <2>6. Inbox[i + 1] = rx_head[RxSlot(i + 1)].n
    BY <2>3, InboxFacts
  <2>7. rx_head[RxSlot(i + 1)].n \in Nat
    BY <2>4, FrameNumber DEF TypeOK, LineTypes
  <2> QED BY <2>1, <2>2, <2>5, <2>6, <2>7
<1>7. Inbox' \in Seq(Nat) /\ Len(Inbox') = RxCount - 1
  <2>1. Inbox' = [i \in 1 .. RxCount - 1 |-> Inbox'[i]]
    BY <1>3 DEF Inbox
  <2>2. Inbox' \in [1 .. RxCount - 1 -> Nat]
    BY <1>6, <2>1
  <2>3. RxCount - 1 \in Nat
    BY <1>3
  <2> QED BY <2>2, <2>3
<1>8. \A i \in 1 .. RxCount - 1 : Inbox'[i] = Tail(Inbox)[i]
  BY <1>5, <1>6
<1> QED BY <1>4, <1>5, <1>7, <1>8, SeqEqual

\* The port controller implements LinkIn: a GoodCRC goes out only for a message that stays in
\* the receive buffer, however full it is, and the protocol engine gets the messages in order.
THEOREM ReceiverRefines == Spec => ReceiverSpec
<1>1. Init => In!Init
  <2> SUFFICES ASSUME Init PROVE In!Init
    OBVIOUS
  <2>1. RxCount = 0
    BY TcpcAssumption DEF Init, RxCount
  <2>2. Inbox = <<>>
    <3>1. Inbox \in Seq(Nat) /\ Len(Inbox) = 0
      BY <2>1, InitInv, InboxFacts DEF IInv
    <3> QED BY <3>1, EmptySeq
  <2> QED BY <2>2 DEF Init, In!Init
<1>2. IInv /\ IInv' /\ [Next]_vars => [In!Next]_(In!vars)
  <2> SUFFICES ASSUME IInv, IInv', [Next]_vars PROVE [In!Next]_(In!vars)
    OBVIOUS
  <2>1. (UNCHANGED <<rx_head, rx_buf_head, rx_buf_tail>>) => Inbox' = Inbox
    BY DEF Inbox, RxCount, RxSlot
  <2>2. CASE Dequeue
    <3>1. In!Take
      BY <2>2, DequeueTakes DEF IInv, In!Take, Dequeue, peerVars
    <3> QED BY <3>1 DEF In!Next
  <2>3. CASE Engine /\ ~Dequeue
    BY <2>1, <2>3 DEF Engine, Transmit, Run, ResetId, Connect, Disconnect, PeerAnew, bufVars,
                peerVars, In!vars
  <2>4. CASE KeepPacket
    <3>1. IsMessage(frame) /\ kept' = frame.n /\ UNCHANGED <<offered, acked>>
      BY <2>4 DEF KeepPacket, Packet, Good, IInv, ReceiveInv, IsMessage, peerVars
    <3>2. kept <= frame.n /\ frame.n <= offered /\ frame.n \in 1 .. MaxIn
      BY <3>1, FrameFacts DEF IInv, ReceiveInv, TypeOK, LineTypes, IsMessage
    <3>3. frame.n > 0 /\ frame.n \in 1 .. offered
      BY <3>2, TcpcAssumption DEF IInv, TypeOK, HistoryTypes
    <3>4. In!Keep(frame.n)
      BY <2>4, <3>1, <3>2, <3>3, KeepAppends DEF In!Keep, IInv
    <3> QED BY <3>3, <3>4 DEF In!Next
  <2>5. CASE Acknowledge
    <3>1. /\ UNCHANGED <<rx_head, rx_buf_head, rx_buf_tail, offered, kept>> /\ pc = "ack"
          /\ acked' = acked \/ (acked' = offered /\ p_wait /\ p_id = rx_head[LastKept].id)
      BY <2>5 DEF Acknowledge, bufVars, peerVars, Lost, PeerAcked
    <3>2. p_wait => kept = offered
      BY <3>1 DEF IInv, ReceiveInv, Awaited
    <3>3. acked' # acked => In!Ack
      BY <2>1, <3>1, <3>2 DEF In!Ack
    <3>4. acked' = acked => UNCHANGED In!vars
      BY <2>1, <3>1 DEF In!vars
    <3> QED BY <3>3, <3>4 DEF In!Next
  <2>6. CASE Controller /\ ~KeepPacket /\ ~Acknowledge
    BY <2>1, <2>6 DEF Controller, NoPacket, ResetPacket, DropPacket, Collision, SendHardReset,
                Attempt, WaitTimeout, WaitWoken, ReadPacket, ReadNothing, End, Packet, Read,
                bufVars, peerVars, PeerAnew, Lost, PeerTakes, In!vars
  <2>7. ASSUME NEW soft \in BOOLEAN, PeerSend(soft)
        PROVE  In!Next
    <3>1. /\ UNCHANGED <<rx_head, rx_buf_head, rx_buf_tail, kept, acked>>
          /\ offered' = offered + 1
      BY <2>7 DEF PeerSend, PeerSends, bufVars
    <3>2. In!Offer
      BY <2>1, <3>1 DEF In!Offer
    <3> QED BY <3>2 DEF In!Next
  <2>8. CASE PeerGoodCrc \/ PeerRetry \/ PeerGivesUp \/ PeerHardReset \/ SampleAgain
    BY <2>1, <2>8 DEF PeerGoodCrc, PeerRetry, PeerGivesUp, PeerHardReset, SampleAgain,
                PeerSends, PeerAnew, PeerIdle, bufVars, peerVars, In!vars
  <2>9. CASE UNCHANGED vars
    BY <2>1, <2>9 DEF vars, bufVars, peerVars, In!vars
  <2> QED BY <2>2, <2>3, <2>4, <2>5, <2>6, <2>7, <2>8, <2>9 DEF Next, Peer
<1> QED BY <1>1, <1>2, Invariant, PTL DEF Spec, ReceiverSpec, In!Spec
=============================================================================
