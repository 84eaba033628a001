------------------------------- MODULE PdPort -------------------------------
(***************************************************************************)
(* The USB Power Delivery source port: pd_task() of                        *)
(* common/usb_pd_protocol.c as board/lgvr builds it (a source only, with   *)
(* the port controller of common/usb_pd_tcpc.c on the same chip), and the  *)
(* VBUS switch of board/lgvr/usb_pd_policy.c.                              *)
(*                                                                         *)
(* The PD task is one thread.  It goes round a loop: send a queued VDM,    *)
(* wait, run the port controller, handle a received message, run the       *)
(* handler of the present state, look at the state's timeout and at the CC *)
(* line.  What makes it hard is that pd_transmit() runs the port           *)
(* controller again, in the middle of a handler: a message or a hard reset *)
(* that came in meanwhile is taken there.  So a handler that transmits is  *)
(* split: up to the call (pc = "tx"), the call, and the rest (pc = "sent").*)
(*                                                                         *)
(* The port partner is not modelled: any message may arrive whenever the   *)
(* receiver is on, any transmission may fail, and every look at the CC     *)
(* lines may find anything.  Time is abstract: `ahead' holds the deadlines *)
(* that are still in the future, and a wait may take any of them out.      *)
(***************************************************************************)
EXTENDS Naturals

CONSTANTS
    Types,          \* the kinds of message the partner sends
    Lines,          \* what the CC lines may show, by name
    PD_CAPS_COUNT, PD_HARD_RESET_COUNT, PD_SNK_CAP_RETRIES

AllTypes == {"REQUEST", "BAD_REQUEST", "BIST", "SINK_CAP", "VDM", "VDM_BUSY",
             "GET_SOURCE_CAP", "SOFT_RESET", "DR_SWAP", "REFUSED", "IGNORED"}

\* The voltages of CC1 and CC2.
Volts ==
    [OPEN |-> <<"OPEN", "OPEN">>, CC1 |-> <<"RD", "OPEN">>,
     CC2 |-> <<"OPEN", "RD">>, DEBUG |-> <<"RD", "RD">>,
     AUDIO |-> <<"RA", "RA">>, CABLE1 |-> <<"RD", "RA">>,
     CABLE2 |-> <<"RA", "RD">>, RA1 |-> <<"RA", "OPEN">>,
     RA2 |-> <<"OPEN", "RA">>]

ASSUME PdAssumption ==
    /\ Types \subseteq AllTypes
    /\ Lines \subseteq DOMAIN Volts /\ "OPEN" \in Lines
    /\ PD_CAPS_COUNT \in Nat
    /\ PD_HARD_RESET_COUNT \in Nat
    /\ PD_SNK_CAP_RETRIES \in Nat

VARIABLES
    (* struct pd_protocol *)
    task_state, last_state,
    timeout,            \* "off" (0), "ahead" or "past"
    timeout_state,      \* where it leads; "NONE" with timeout = 0
    flags, data_role, polarity, vdm_state, cc_state,
    (* local variables of pd_task() *)
    this_state, incoming_packet, hard_reset_count, hard_reset_sent, caps_count,
    snk_cap_count,
    pc,                 \* where in the loop the task is
    site,               \* the pd_transmit() call it is in
    res,                \* what that call returned
    (* the port controller and the board *)
    cc,                 \* cc_status: the last sample of CC1 and CC2
    rx_enabled,
    rx,                 \* what the phy has received and nobody looked at
    rx_buf,             \* the receive buffer, of one message; its kind is
                        \* chosen when it is read
    vbus,               \* VBUS is on
    ahead               \* the deadlines that are in the future

portVars == <<task_state, timeout, timeout_state, flags, vbus, rx_enabled>>
countVars == <<hard_reset_count, hard_reset_sent, caps_count, snk_cap_count>>
peerVars == <<data_role, polarity, vdm_state, cc_state>>
stepVars == <<last_state, this_state, incoming_packet>>
lineVars == <<cc, rx, rx_buf>>
txVars == <<site, res>>
vars == <<portVars, countVars, peerVars, stepVars, lineVars, txVars, pc, ahead>>

States == {"SRC_DISCONNECTED", "SRC_DISCONNECTED_DEBOUNCE",
           "SRC_HARD_RESET_RECOVER", "SRC_STARTUP", "SRC_DISCOVERY",
           "SRC_NEGOCIATE", "SRC_ACCEPTED", "SRC_POWERED", "SRC_TRANSITION",
           "SRC_READY", "SRC_GET_SINK_CAP", "HARD_RESET_SEND",
           "HARD_RESET_EXECUTE"}

Nothing == "nothing"
Message == "message"
HardReset == "hard reset"

\* pd[port].flags: the ones that this build sets and acts upon.  (CHECK_PR_ROLE
\* and CHECK_DR_ROLE call for checks which on this board do nothing.)
Flags == {"EXPLICIT_CONTRACT", "PREVIOUS_PD_CONN", "SNK_CAP_RECVD",
          "CHECK_IDENTITY"}

\* Mutant of ResetOnDisconnect: the contract outlives the connection.
ResetButContract == Flags \ {"EXPLICIT_CONTRACT"}

\* PD_FLAGS_RESET_ON_DISCONNECT_MASK, which has all of them.
ResetOnDisconnect == Flags

\* The transmissions of the PD task, by what is sent.
Sites == {"vdm", "accept", "reject", "bist", "source_cap_again", "refuse",
          "soft_reset_accept", "dr_swap_accept", "source_cap", "ps_rdy",
          "get_sink_cap", "hard_reset"}

\* Other deadlines: pd.src_recover and pd.vdm_timeout.
\* "debounce" is a history: PD_T_CC_DEBOUNCE since cc_state changed.
Deadlines == {"recover", "vdm", "debounce"}

Positions == {"vdm", "wait", "request", "set_cc_open", "set_cc_rp",
              "unattach", "state", "end", "tx", "sent"}

PortTypes ==
    /\ task_state \in States
    /\ timeout \in {"off", "ahead", "past"}
    /\ timeout_state \in States \cup {"NONE"}
    /\ flags \subseteq Flags
    /\ vbus \in BOOLEAN /\ rx_enabled \in BOOLEAN

CountTypes ==
    /\ hard_reset_count \in 0 .. PD_HARD_RESET_COUNT
    /\ hard_reset_sent \in BOOLEAN
    /\ caps_count \in 0 .. PD_CAPS_COUNT
    /\ snk_cap_count \in 0 .. PD_SNK_CAP_RETRIES

PeerTypes ==
    /\ data_role \in {"DFP", "UFP"}
    /\ polarity \in 1 .. 2
    /\ vdm_state \in {"IDLE", "READY", "BUSY", "WAIT_RSP_BUSY"}
    /\ cc_state \in {"NONE", "UFP_ATTACHED", "DEBUG_ACC", "AUDIO_ACC"}

StepTypes ==
    /\ last_state \in States /\ this_state \in States
    /\ incoming_packet \in BOOLEAN
    /\ pc \in Positions
    /\ site \in Sites \cup {"none"}
    /\ res \in {"ok", "failed"}

LineTypes ==
    /\ cc \in Lines
    /\ rx \in {Nothing, Message, HardReset}
    /\ rx_buf \in {Nothing, Message}
    /\ ahead \subseteq Deadlines

TypeOK == PortTypes /\ CountTypes /\ PeerTypes /\ StepTypes /\ LineTypes

\* pd_task() before its loop, the source being the default role.
Init ==
    /\ task_state = "SRC_DISCONNECTED" /\ last_state = "SRC_DISCONNECTED"
    /\ this_state = "SRC_DISCONNECTED"
    /\ timeout = "off" /\ timeout_state = "NONE"
    /\ flags = {}
    /\ data_role = "UFP" /\ polarity = 1 /\ vdm_state = "IDLE"
    /\ cc_state = "NONE"
    /\ incoming_packet = FALSE /\ hard_reset_sent = FALSE
    /\ hard_reset_count = 0 /\ caps_count = 0 /\ snk_cap_count = 0
    /\ pc = "vdm" /\ site = "none" /\ res = "ok"
    /\ cc \in Lines
    /\ rx_enabled = FALSE /\ vbus = FALSE
    /\ rx = Nothing /\ rx_buf = Nothing
    /\ ahead = {}

-----------------------------------------------------------------------------
(* Helpers of the protocol engine *)

\* pd_is_connected().
Connected(s) == s \notin {"SRC_DISCONNECTED", "SRC_DISCONNECTED_DEBOUNCE"}

\* set_state_timeout(0, 0) and set_state_timeout(get_time() + ..., next).
NoTimeout == timeout' = "off" /\ timeout_state' = "NONE"
SetTimeout(next) == timeout' = "ahead" /\ timeout_state' = next
KeepTimeout == UNCHANGED <<timeout, timeout_state>>

\* set_state(next) is a disconnection.
Leaves(next) == next = "SRC_DISCONNECTED" /\ task_state # next

\* Mutant of VbusIn: the power supply is not reset.
VbusInAnyState(next) == vbus

\* VBUS after set_state(next).
VbusIn(next) == vbus /\ ~Leaves(next)

\* set_state(next), the flags being fl when it is called.
SetStateFlags(next, fl) ==
    /\ task_state' = next
    /\ NoTimeout
    /\ flags' = IF Leaves(next) THEN fl \ ResetOnDisconnect ELSE fl
    /\ vbus' = VbusIn(next)
    /\ rx_enabled' = (rx_enabled /\ ~Leaves(next))

SetState(next) == SetStateFlags(next, flags)

\* The other deadlines somebody may look at before they are set again.
Awaited ==
    {d \in ahead :
       CASE d = "recover" -> task_state = "SRC_HARD_RESET_RECOVER"
         [] d = "debounce" -> task_state = "SRC_DISCONNECTED_DEBOUNCE"
         [] d = "vdm" -> vdm_state \in {"BUSY", "WAIT_RSP_BUSY"}}

-----------------------------------------------------------------------------
(* The port controller *)

\* The partner sends; the comparator interrupt starts sampling.  At the three
\* positions left out the arrival makes no difference until the next one.
Arrive(m) ==
    /\ rx_enabled /\ rx = Nothing
    /\ pc \notin {"vdm", "request", "state"}
    /\ rx' = m
    /\ UNCHANGED <<portVars, countVars, peerVars, stepVars, cc, rx_buf, txVars,
                   pc, ahead>>

HardResetReceived == rx_enabled /\ rx = HardReset

\* The first half of tcpc_run(): a message is kept and acknowledged if the
\* buffer is free; a hard reset is executed.
Receive ==
    /\ rx' = IF rx_enabled THEN Nothing ELSE rx
    /\ rx_buf' = IF rx_enabled /\ rx = Message /\ rx_buf = Nothing
                 THEN rx ELSE rx_buf
    /\ IF HardResetReceived
       THEN /\ last_state' = "HARD_RESET_EXECUTE"
            /\ task_state' = "SRC_HARD_RESET_RECOVER"
            /\ NoTimeout
       ELSE /\ UNCHANGED <<last_state, task_state, timeout_state>>
            /\ timeout' \in {timeout, IF timeout = "ahead" THEN "past" ELSE timeout}
    /\ \E left \in SUBSET Awaited :
         ahead' = IF HardResetReceived THEN left \cup {"recover"} ELSE left

\* Mutant of TxResults: after the timeout, an old tx_status is returned.
TxResultsOld == {"ok", "failed"}

\* What pd_transmit() may return: with the receiver off nothing is sent, and the
\* wait for PD_EVENT_TX times out.
TxResults == IF rx_enabled THEN {"ok", "failed"} ELSE {"failed"}

\* pd_transmit() and the tcpc_run() inside, which samples the CC lines if it
\* does not send.
Transmit ==
    /\ pc = "tx"
    /\ pc' = "sent"
    /\ Receive
    /\ vbus' = (vbus /\ ~HardResetReceived)
    /\ res' \in TxResults
    /\ IF rx_enabled THEN UNCHANGED cc ELSE cc' \in Lines
    /\ UNCHANGED <<flags, rx_enabled, countVars, peerVars, this_state,
                   incoming_packet, site>>

\* The call of pd_transmit() in a handler.
Send(what) ==
    /\ pc' = "tx"
    /\ site' = what
    /\ UNCHANGED res

\* The rest of a handler, after pd_transmit(); `back' is where it goes on.
Sent(what, back) ==
    /\ pc = "sent" /\ site = what
    /\ pc' = back
    /\ site' = "none"
    /\ res' = "ok"
    /\ UNCHANGED <<stepVars, lineVars>>

\* The wait at the head of the loop and tcpc_run().
WaitAndRun ==
    /\ pc = "wait"
    /\ pc' = "request"
    /\ Receive
    /\ vbus' = (vbus /\ ~HardResetReceived)
    /\ cc' \in Lines
    /\ UNCHANGED <<flags, rx_enabled, countVars, peerVars, this_state,
                   incoming_packet, txVars>>

-----------------------------------------------------------------------------
(* Vendor defined messages: pd_vdm_send_state_machine() *)

VdmSend ==
    /\ pc = "vdm" /\ vdm_state = "READY" /\ task_state = "SRC_READY"
    /\ Send("vdm")
    /\ UNCHANGED <<portVars, countVars, peerVars, stepVars, lineVars, ahead>>

VdmSent ==
    /\ Sent("vdm", "wait")
    /\ vdm_state' = IF res = "ok" THEN "BUSY" ELSE "IDLE"
    /\ ahead' = IF res = "ok" THEN ahead \cup {"vdm"} ELSE ahead
    /\ UNCHANGED <<portVars, countVars, data_role, polarity, cc_state>>

\* Mutant of VdmAfter: only a response ends the wait for one.
VdmAfterResponse ==
    CASE vdm_state = "READY" /\ ~Connected(task_state) -> "IDLE"
      [] vdm_state = "WAIT_RSP_BUSY" /\ "vdm" \notin ahead -> "READY"
      [] OTHER -> vdm_state

\* vdm_state after a round in which nothing is sent.  "IDLE" stands for
\* VDM_STATE_DONE and the error states, which only a console reader tells apart.
VdmAfter ==
    CASE vdm_state = "READY" /\ ~Connected(task_state) -> "IDLE"
      [] vdm_state = "WAIT_RSP_BUSY" /\ "vdm" \notin ahead -> "READY"
      [] vdm_state = "BUSY" /\ "vdm" \notin ahead -> "IDLE"
      [] OTHER -> vdm_state

\* Nothing is sent: not connected, not ready, or waiting for an answer.
VdmIdle ==
    /\ pc = "vdm" /\ ~(vdm_state = "READY" /\ task_state = "SRC_READY")
    /\ pc' = "wait"
    /\ vdm_state' = VdmAfter
    /\ UNCHANGED <<portVars, countVars, data_role, polarity, cc_state,
                   stepVars, lineVars, txVars, ahead>>

-----------------------------------------------------------------------------
(* Received messages: handle_request() *)

NoRequest ==
    /\ pc = "request" /\ rx_buf = Nothing
    /\ pc' = "state"
    /\ incoming_packet' = FALSE
    /\ UNCHANGED <<portVars, countVars, peerVars, last_state, this_state,
                   lineVars, txVars, ahead>>

\* tcpm_dequeue_message(), of a message of kind m.
Dequeue(m) ==
    /\ m \in Types
    /\ pc = "request" /\ rx_buf = Message
    /\ rx_buf' = Nothing
    /\ incoming_packet' = TRUE
    /\ UNCHANGED <<last_state, this_state, cc, rx>>

\* A message in a disconnected state: set_state(HARD_RESET_SEND) first.
HandledIn == IF Connected(task_state) THEN task_state ELSE "HARD_RESET_SEND"

\* The state when the handler does not change it.
StayIn ==
    IF Connected(task_state) THEN UNCHANGED portVars
    ELSE SetState("HARD_RESET_SEND")

\* A data role conflict: USB-C error recovery.
Conflict(m) ==
    /\ Dequeue(m)
    /\ pc' = "set_cc_open"
    /\ StayIn
    /\ UNCHANGED <<countVars, peerVars, txVars, ahead>>

\* tcpm_set_cc(TYPEC_CC_OPEN), which runs the port controller, then
\* pd_power_supply_reset() and usleep().
SetCcOpen ==
    /\ pc = "set_cc_open"
    /\ pc' = "set_cc_rp"
    /\ Receive
    /\ vbus' = FALSE
    /\ cc' = "OPEN"
    /\ UNCHANGED <<flags, rx_enabled, countVars, peerVars, this_state,
                   incoming_packet, txVars>>

\* tcpm_set_cc(TYPEC_CC_RP), which runs the port controller again.
SetCcRp ==
    /\ pc = "set_cc_rp"
    /\ pc' = "unattach"
    /\ Receive
    /\ vbus' = (vbus /\ ~HardResetReceived)
    /\ cc' \in Lines
    /\ UNCHANGED <<flags, rx_enabled, countVars, peerVars, this_state,
                   incoming_packet, txVars>>

Unattach ==
    /\ pc = "unattach"
    /\ pc' = "state"
    /\ SetState("SRC_DISCONNECTED")
    /\ UNCHANGED <<countVars, peerVars, stepVars, lineVars, txVars, ahead>>

\* A request that pd_check_requested_voltage() grants, or does not.
HandleRequest(m) ==
    /\ m \in {"REQUEST", "BAD_REQUEST"}
    /\ Dequeue(m)
    /\ Send(IF m = "REQUEST" THEN "accept" ELSE "reject")
    /\ StayIn
    /\ UNCHANGED <<countVars, peerVars, ahead>>

AcceptSent ==
    /\ Sent("accept", "state")
    /\ IF res = "ok"
       THEN SetStateFlags("SRC_ACCEPTED", flags \cup {"EXPLICIT_CONTRACT"})
       ELSE UNCHANGED portVars
    /\ UNCHANGED <<countVars, peerVars, ahead>>

RejectSent ==
    /\ Sent("reject", "state")
    /\ SetState("SRC_READY")
    /\ UNCHANGED <<countVars, peerVars, ahead>>

HandleBist ==
    /\ Dequeue("BIST")
    /\ IF HandledIn = "SRC_READY" THEN Send("bist")
       ELSE pc' = "state" /\ UNCHANGED txVars
    /\ StayIn
    /\ UNCHANGED <<countVars, peerVars, ahead>>

BistSent ==
    /\ Sent("bist", "state")
    /\ SetState("SRC_DISCONNECTED")
    /\ UNCHANGED <<countVars, peerVars, ahead>>

HandleSinkCap ==
    /\ Dequeue("SINK_CAP")
    /\ pc' = "state"
    /\ LET fl == flags \cup {"SNK_CAP_RECVD"} IN
       IF HandledIn = "SRC_GET_SINK_CAP" THEN SetStateFlags("SRC_READY", fl)
       ELSE IF Connected(task_state)
       THEN flags' = fl /\ UNCHANGED <<task_state, timeout, timeout_state, vbus, rx_enabled>>
       ELSE SetStateFlags("HARD_RESET_SEND", fl)
    /\ UNCHANGED <<countVars, peerVars, txVars, ahead>>

\* handle_vdm_request(): whether pd_svdm() has an answer is left open.
HandleVdm(m, answer) ==
    /\ m \in {"VDM", "VDM_BUSY"}
    /\ Dequeue(m)
    /\ pc' = "state"
    /\ LET retry == m = "VDM_BUSY" /\ vdm_state = "BUSY" IN
       /\ vdm_state' = CASE retry -> "WAIT_RSP_BUSY"
                         [] ~retry /\ answer -> "READY"
                         [] OTHER -> IF vdm_state = "BUSY" THEN "IDLE" ELSE vdm_state
       /\ ahead' = IF retry THEN ahead \cup {"vdm"} ELSE ahead
    /\ StayIn
    /\ UNCHANGED <<countVars, data_role, polarity, cc_state, txVars>>

HandleGetSourceCap ==
    /\ Dequeue("GET_SOURCE_CAP")
    /\ IF HandledIn = "SRC_READY"
       THEN SetState("SRC_DISCOVERY") /\ pc' = "state" /\ UNCHANGED txVars
       ELSE StayIn /\ Send("source_cap_again")
    /\ UNCHANGED <<countVars, peerVars, ahead>>

SourceCapAgainSent ==
    /\ Sent("source_cap_again", "state")
    /\ IF res = "ok" /\ task_state = "SRC_DISCOVERY"
       THEN SetState("SRC_NEGOCIATE") ELSE UNCHANGED portVars
    /\ UNCHANGED <<countVars, peerVars, ahead>>

\* GET_SINK_CAP, PR_SWAP and VCONN_SWAP: a source without dual role.
HandleRefused ==
    /\ Dequeue("REFUSED")
    /\ Send("refuse")
    /\ StayIn
    /\ UNCHANGED <<countVars, peerVars, ahead>>

RefuseSent ==
    /\ \E s \in {"refuse", "soft_reset_accept"} : Sent(s, "state")
    /\ UNCHANGED <<portVars, countVars, peerVars, ahead>>

\* PING, GOOD_CRC and what is unknown; and ACCEPT, REJECT and WAIT, whose
\* states (SOFT_RESET, DR_SWAP) nothing in this build leads to.
HandleIgnored ==
    /\ Dequeue("IGNORED")
    /\ pc' = "state"
    /\ StayIn
    /\ UNCHANGED <<countVars, peerVars, txVars, ahead>>

\* pd_dr_swap().
Swapped(role) == IF role = "DFP" THEN "UFP" ELSE "DFP"

\* execute_soft_reset(), then the Accept.
HandleSoftReset ==
    /\ Dequeue("SOFT_RESET")
    /\ SetState("SRC_DISCOVERY")
    /\ Send("soft_reset_accept")
    /\ UNCHANGED <<countVars, peerVars, ahead>>

HandleDrSwap ==
    /\ Dequeue("DR_SWAP")
    /\ Send("dr_swap_accept")
    /\ StayIn
    /\ UNCHANGED <<countVars, peerVars, ahead>>

DrSwapAcceptSent ==
    /\ Sent("dr_swap_accept", "state")
    /\ IF res = "ok"
       THEN /\ data_role' = Swapped(data_role)
            /\ flags' = flags \cup {"CHECK_IDENTITY"}
       ELSE UNCHANGED <<data_role, flags>>
    /\ UNCHANGED <<task_state, timeout, timeout_state, vbus, rx_enabled, countVars,
                   polarity, vdm_state, cc_state, ahead>>

-----------------------------------------------------------------------------
(* The handlers of the states *)

InState(s) ==
    /\ pc = "state" /\ task_state = s
    /\ this_state' = s
    /\ UNCHANGED <<last_state, incoming_packet, lineVars>>

\* A handler that does not transmit.
Handled == pc' = "end" /\ UNCHANGED txVars

Entered == last_state # task_state

\* Vnc monitoring: an Rd, or Ra on both lines.
Attached ==
    \/ \E i \in 1 .. 2 : Volts[cc][i] = "RD"
    \/ \A i \in 1 .. 2 : Volts[cc][i] = "RA"

SrcDisconnected ==
    /\ InState("SRC_DISCONNECTED") /\ Handled
    /\ IF Attached
       THEN SetState("SRC_DISCONNECTED_DEBOUNCE") /\ cc_state' = "NONE"
       ELSE UNCHANGED <<portVars, cc_state>>
    /\ UNCHANGED <<countVars, data_role, polarity, vdm_state, ahead>>

\* new_cc_state, when something is attached.
NewCcState ==
    IF \A i \in 1 .. 2 : Volts[cc][i] = "RD" THEN "DEBUG_ACC"
    ELSE IF \E i \in 1 .. 2 : Volts[cc][i] = "RD" THEN "UFP_ATTACHED"
    ELSE "AUDIO_ACC"

\* The tests after a change of cc_state: "no UFP", and the start of the
\* debouncing.
DebounceAgain ==
    /\ InState("SRC_DISCONNECTED_DEBOUNCE") /\ Handled
    /\ \/ /\ ~Attached
          /\ SetState("SRC_DISCONNECTED")
          /\ UNCHANGED <<cc_state, ahead>>
       \/ /\ Attached /\ NewCcState # cc_state
          /\ cc_state' = NewCcState
          /\ ahead' = ahead \cup {"debounce"}
          /\ UNCHANGED portVars
    /\ UNCHANGED <<countVars, data_role, polarity, vdm_state>>

\* get_time().val >= pd.cc_debounce.  The conditional operator takes the whole
\* sum get_time().val + (flags & PD_FLAGS_TRY_SRC) as its condition, so that
\* cc_debounce is PD_T_DEBOUNCE: 15 ms after boot, always in the past.
DebounceOver == TRUE

\* The debouncing is complete; an accessory without Rd stays in this state.
Debounced ==
    /\ InState("SRC_DISCONNECTED_DEBOUNCE") /\ Handled
    /\ Attached /\ NewCcState = cc_state /\ DebounceOver
    /\ IF cc_state = "AUDIO_ACC"
       THEN UNCHANGED <<portVars, polarity, data_role, hard_reset_count>>
       ELSE /\ polarity' = IF Volts[cc][1] = "RD" THEN 1 ELSE 2
            /\ data_role' = "DFP"
            /\ vbus' = TRUE
            /\ rx_enabled' = TRUE
            /\ task_state' = "SRC_STARTUP"
            /\ NoTimeout
            /\ hard_reset_count' = 0
            /\ UNCHANGED flags
    /\ UNCHANGED <<hard_reset_sent, caps_count, snk_cap_count, vdm_state,
                   cc_state, ahead>>

\* VBUS comes back after PD_T_SRC_RECOVER.
SrcHardResetRecover ==
    /\ InState("SRC_HARD_RESET_RECOVER") /\ Handled
    /\ IF "recover" \in ahead THEN UNCHANGED portVars
       ELSE /\ vbus' = TRUE
            /\ task_state' = "SRC_STARTUP"
            /\ NoTimeout
            /\ UNCHANGED <<flags, rx_enabled>>
    /\ UNCHANGED <<countVars, peerVars, ahead>>

SrcStartup ==
    /\ InState("SRC_STARTUP") /\ Handled
    /\ IF Entered
       THEN /\ flags' = flags \cup {"CHECK_IDENTITY"}
            /\ caps_count' = 0 /\ snk_cap_count' = 0
            /\ SetTimeout("SRC_DISCOVERY")
       ELSE KeepTimeout /\ UNCHANGED <<flags, caps_count, snk_cap_count>>
    /\ UNCHANGED <<task_state, vbus, rx_enabled, hard_reset_count,
                   hard_reset_sent, peerVars, ahead>>

\* Mutant of MoreCaps: off by one.
MoreCapsOneMore(count) == count <= PD_CAPS_COUNT

\* caps_count < PD_CAPS_COUNT.
MoreCaps(count) == count < PD_CAPS_COUNT

\* Source capabilities are sent until one is acknowledged, at most
\* PD_CAPS_COUNT times; whether the time for the next has come (next_src_cap)
\* is left open.
SrcDiscovery(due) ==
    LET count == IF Entered THEN 0 ELSE caps_count
    IN  /\ InState("SRC_DISCOVERY")
        /\ Entered => due
        /\ caps_count' = count
        /\ IF Entered /\ "PREVIOUS_PD_CONN" \in flags
           THEN SetTimeout(IF hard_reset_count < PD_HARD_RESET_COUNT
                           THEN "HARD_RESET_SEND" ELSE "SRC_DISCONNECTED")
           ELSE KeepTimeout
        /\ IF MoreCaps(count) /\ due THEN Send("source_cap") ELSE Handled
        /\ UNCHANGED <<task_state, flags, vbus, rx_enabled, hard_reset_count,
                       hard_reset_sent, snk_cap_count, peerVars, ahead>>

SourceCapSent ==
    /\ Sent("source_cap", "end")
    /\ IF res = "ok"
       THEN /\ SetStateFlags("SRC_NEGOCIATE", flags \cup {"PREVIOUS_PD_CONN"})
            /\ hard_reset_count' = 0
            /\ caps_count' = 0
       ELSE /\ caps_count' = caps_count + 1
            /\ UNCHANGED <<portVars, hard_reset_count>>
    /\ UNCHANGED <<hard_reset_sent, snk_cap_count, peerVars, ahead>>

\* The states that only wait, each with its timeout.
WaitsFor ==
    [s \in {"SRC_NEGOCIATE", "SRC_ACCEPTED", "SRC_POWERED", "SRC_GET_SINK_CAP"} |->
       CASE s = "SRC_NEGOCIATE" -> "HARD_RESET_SEND"
         [] s = "SRC_ACCEPTED" -> "SRC_POWERED"
         [] s = "SRC_POWERED" -> "SRC_TRANSITION"
         [] s = "SRC_GET_SINK_CAP" -> "SRC_READY"]

\* Mutant of StartsWaiting: no timeout for the sink's capabilities.
StartsWaitingButSinkCap(s) == Entered /\ s # "SRC_GET_SINK_CAP"

\* last_state != task_state, in the handler of s.
StartsWaiting(s) == Entered

SrcWaits(s) ==
    /\ InState(s) /\ Handled
    /\ IF StartsWaiting(s) THEN SetTimeout(WaitsFor[s]) ELSE KeepTimeout
    /\ UNCHANGED <<task_state, flags, vbus, rx_enabled, countVars, peerVars,
                   ahead>>

SrcTransition ==
    /\ InState("SRC_TRANSITION")
    /\ Send("ps_rdy")
    /\ UNCHANGED <<portVars, countVars, peerVars, ahead>>

PsRdySent ==
    /\ Sent("ps_rdy", "end")
    /\ SetState(IF res = "ok" THEN "SRC_READY" ELSE "SRC_DISCONNECTED")
    /\ UNCHANGED <<countVars, peerVars, ahead>>

\* In the ready state one thing is done per round, unless a message came in or
\* an answer to a VDM is awaited.
Quiet == incoming_packet \/ vdm_state = "BUSY"

SrcReadyQuiet ==
    /\ InState("SRC_READY") /\ Handled
    /\ Quiet
    /\ UNCHANGED <<portVars, countVars, peerVars, ahead>>

AsksSinkCap == "SNK_CAP_RECVD" \notin flags /\ snk_cap_count < PD_SNK_CAP_RETRIES

SrcReadyGetSinkCap ==
    /\ InState("SRC_READY")
    /\ ~Quiet /\ AsksSinkCap
    /\ snk_cap_count' = snk_cap_count + 1
    /\ Send("get_sink_cap")
    /\ UNCHANGED <<portVars, hard_reset_count, hard_reset_sent, caps_count,
                   peerVars, ahead>>

GetSinkCapSent ==
    /\ Sent("get_sink_cap", "end")
    /\ SetState("SRC_GET_SINK_CAP")
    /\ UNCHANGED <<countVars, peerVars, ahead>>

\* The role checks, which take a round each after an attach and do nothing,
\* then the identity.  Nothing in this build enables the pings.
SrcReadyChecks ==
    /\ InState("SRC_READY") /\ Handled
    /\ ~Quiet /\ ~AsksSinkCap
    /\ \/ UNCHANGED <<flags, vdm_state>>
       \/ /\ data_role = "DFP" /\ "CHECK_IDENTITY" \in flags
          /\ flags' = flags \ {"CHECK_IDENTITY"}
          /\ vdm_state' = "READY"
    /\ UNCHANGED <<task_state, timeout, timeout_state, vbus, rx_enabled, countVars,
                   data_role, polarity, cc_state, ahead>>

\* The hard reset is sent until it succeeds.
HardResetSend ==
    LET done == hard_reset_sent /\ ~Entered IN
    /\ InState("HARD_RESET_SEND")
    /\ hard_reset_count' = IF hard_reset_count < PD_HARD_RESET_COUNT
                           THEN hard_reset_count + 1 ELSE hard_reset_count
    /\ hard_reset_sent' = done
    /\ IF done THEN Handled ELSE Send("hard_reset")
    /\ UNCHANGED <<portVars, caps_count, snk_cap_count, peerVars, ahead>>

HardResetSent ==
    /\ Sent("hard_reset", "end")
    /\ IF res = "ok"
       THEN hard_reset_sent' = TRUE /\ SetTimeout("HARD_RESET_EXECUTE")
       ELSE KeepTimeout /\ UNCHANGED hard_reset_sent
    /\ UNCHANGED <<task_state, flags, vbus, rx_enabled, hard_reset_count,
                   caps_count, snk_cap_count, peerVars, ahead>>

\* pd_execute_hard_reset(): a source cuts the power.
HardResetExecute ==
    /\ pc = "state" /\ task_state = "HARD_RESET_EXECUTE"
    /\ Handled
    /\ this_state' = task_state
    /\ last_state' = "HARD_RESET_EXECUTE"
    /\ task_state' = "SRC_HARD_RESET_RECOVER"
    /\ NoTimeout
    /\ vbus' = FALSE
    /\ ahead' = ahead \cup {"recover"}
    /\ UNCHANGED <<flags, rx_enabled, countVars, peerVars, incoming_packet,
                   lineVars>>

-----------------------------------------------------------------------------
(* The end of the loop *)

\* The partner's CC line is open.
Open == Volts[cc][polarity] = "OPEN"

\* Mutant of Gone: only the ready state looks at the CC line.
GoneIfReady(next) == next = "SRC_READY" /\ Open

\* Source: detect disconnect by monitoring CC.
Gone(next) == Connected(next) /\ Open

\* The state's timeout, then the check for a disconnection.
EndOfLoop ==
    LET expired == timeout = "past"
        next == IF expired THEN timeout_state ELSE task_state
    IN  /\ pc = "end"
        /\ pc' = "vdm"
        /\ last_state' = this_state
        /\ IF Gone(next) THEN SetState("SRC_DISCONNECTED")
           ELSE IF expired THEN SetState(next) ELSE UNCHANGED portVars
        /\ incoming_packet' = FALSE
        /\ UNCHANGED <<countVars, peerVars, this_state, lineVars, txVars, ahead>>

-----------------------------------------------------------------------------
HandleMessage ==
    \/ \E m \in Types : \/ Conflict(m)
                        \/ HandleRequest(m)
                        \/ \E answer \in BOOLEAN : HandleVdm(m, answer)
    \/ HandleBist \/ HandleSinkCap \/ HandleGetSourceCap \/ HandleRefused
    \/ HandleIgnored \/ HandleSoftReset \/ HandleDrSwap

AfterSend ==
    \/ VdmSent \/ AcceptSent \/ RejectSent \/ BistSent \/ SourceCapAgainSent
    \/ RefuseSent \/ DrSwapAcceptSent \/ SourceCapSent \/ PsRdySent
    \/ GetSinkCapSent \/ HardResetSent

RunState ==
    \/ SrcDisconnected \/ DebounceAgain \/ Debounced \/ SrcHardResetRecover
    \/ SrcStartup \/ SrcTransition \/ \E due \in BOOLEAN : SrcDiscovery(due)
    \/ SrcReadyQuiet \/ SrcReadyGetSinkCap \/ SrcReadyChecks
    \/ HardResetSend \/ HardResetExecute
    \/ \E s \in DOMAIN WaitsFor : SrcWaits(s)

PdTask ==
    \/ VdmSend \/ VdmIdle \/ WaitAndRun \/ Transmit \/ NoRequest
    \/ HandleMessage \/ SetCcOpen \/ SetCcRp \/ Unattach
    \/ AfterSend \/ RunState \/ EndOfLoop

Next == PdTask \/ \E m \in {Message, HardReset} : Arrive(m)

Spec == Init /\ [][Next]_vars

\* The PD task runs on, and what it waits for comes.
FairSpec ==
    /\ Spec
    /\ WF_vars(PdTask)
    /\ SF_vars(WaitAndRun /\ timeout = "ahead" /\ timeout' # "ahead")
    /\ SF_vars(WaitAndRun /\ "vdm" \in ahead /\ "vdm" \notin ahead')
    /\ SF_vars(Transmit /\ res' = "ok")

-----------------------------------------------------------------------------
(* Safety *)

\* VBUS is off in the disconnected states: every way back to them, through a
\* failed transmission, a timeout, BIST, a data role conflict or an open CC
\* line, cuts the power (set_state(), pd_power_supply_reset()).
VbusAttached == vbus => Connected(task_state)

\* After a round of the loop there is no power on a port whose CC line was
\* found open in that round (the check at the end of pd_task()).
NoPowerToOpenPort == pc \in {"vdm", "wait"} /\ vbus => ~Open

\* A powered port listens: its receiver is on, so that a hard reset of the
\* partner gets through.  A port that fell back to HARD_RESET_SEND with the
\* receiver off must not come back to power.
PoweredListens == vbus => rx_enabled

\* The flag of an explicit contract does not outlive the connection
\* (PD_FLAGS_RESET_ON_DISCONNECT_MASK).
ContractConnected == "EXPLICIT_CONTRACT" \in flags => Connected(task_state)

\* A state that waits for the partner or for the supply has a timeout running,
\* once its handler has run: the port gets out of it on its own.  SRC_ACCEPTED is
\* not among them: a second REQUEST cancels its timeout for good.
TimersArmed ==
    pc = "wait" /\ last_state = task_state
      /\ task_state \in {"SRC_STARTUP", "SRC_NEGOCIATE", "SRC_POWERED",
                         "SRC_GET_SINK_CAP"}
    => timeout # "off"

(* Liveness *)

\* A port whose CC lines stay open comes to rest: disconnected and without
\* power for good, whatever message or hard reset was left over.
UnpluggedOff == <>[](cc = "OPEN") => <>[](~vbus /\ ~Connected(task_state))

\* A partner that does not answer a VDM does not silence the port for ever
\* (VDM_STATE_BUSY holds back the traffic of SRC_READY).
VdmGivenUp == []<>(vdm_state # "BUSY")

(* What the source says, and the code does not do *)

\* "Debounce the cc state": VBUS is not switched on before PD_T_CC_DEBOUNCE.
CcDebounced ==
    [][task_state = "SRC_DISCONNECTED_DEBOUNCE" /\ task_state' = "SRC_STARTUP"
       => "debounce" \notin ahead]_vars

\* "Do not continue until hard reset recovery time": before that, the port
\* leaves the recovery only by a disconnection.
RecoversFirst ==
    [][task_state = "SRC_HARD_RESET_RECOVER" /\ "recover" \in ahead
       => task_state' \in {"SRC_HARD_RESET_RECOVER", "SRC_DISCONNECTED"}]_vars

\* "try sending hard reset until it succeeds": with transmissions that succeed
\* again and again, it does.
HardResetGoesOut == task_state = "HARD_RESET_SEND" ~> task_state # "HARD_RESET_SEND"

=============================================================================
