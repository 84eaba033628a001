---------------------------- MODULE PdPortProofs ----------------------------
(* Proofs about the PD source port, for any limits of the counters, any set of *)
(* messages the partner sends and any set of voltages of the CC lines.         *)
EXTENDS PdPort, TLAPS

-----------------------------------------------------------------------------
(* The inductive invariants *)

\* The states that set_state_timeout() is given.
TimeoutStates ==
    {"NONE", "SRC_DISCOVERY", "SRC_DISCONNECTED", "SRC_POWERED", "SRC_TRANSITION",
     "SRC_READY", "HARD_RESET_SEND", "HARD_RESET_EXECUTE"}

\* A timeout that runs leads somewhere.
TimeoutInv ==
    /\ timeout_state \in TimeoutStates
    /\ timeout # "off" => timeout_state # "NONE"

\* PD_STATE_SRC_DISCOVERY transmits only below the limit.
CapsInv == pc \in {"tx", "sent"} /\ site = "source_cap" => MoreCaps(caps_count)

\* A disconnected port has neither power nor a contract.
DetachedInv ==
    ~Connected(task_state) => ~vbus /\ "EXPLICIT_CONTRACT" \notin flags

\* With the receiver off, the port is without power and on no way to it: no
\* transmission succeeds, so no hard reset gets executed and recovered from.
DeafInv ==
    ~rx_enabled => /\ ~vbus
                   /\ task_state \notin {"HARD_RESET_EXECUTE", "SRC_HARD_RESET_RECOVER"}
                   /\ timeout_state # "HARD_RESET_EXECUTE"
                   /\ pc = "sent" => res # "ok"

\* From the check at the end of the loop up to the next look at the CC line.
Looked == pc \in {"vdm", "wait"} \/ (pc \in {"tx", "sent"} /\ site = "vdm")

OpenInv == Looked /\ vbus => ~Open

PortInv == TimeoutInv /\ CapsInv /\ DetachedInv /\ DeafInv /\ OpenInv

\* The handler of this_state has run, or is transmitting.
StateSites == {"source_cap", "ps_rdy", "get_sink_cap", "hard_reset"}
InHandler == pc = "end" \/ (pc \in {"tx", "sent"} /\ site \in StateSites)

\* The states of TimersArmed.
Waiting == {"SRC_STARTUP", "SRC_NEGOCIATE", "SRC_POWERED", "SRC_GET_SINK_CAP"}

\* Before handle_request() has changed the state.
Unhandled ==
    \/ pc \in {"vdm", "wait", "request"}
    \/ pc \in {"tx", "sent"} /\ site \in {"vdm", "source_cap_again"}

\* A state that was there at the end of the last round, or whose handler has run
\* in this one, has its timeout; and no way into such a state comes from itself.
ArmInv ==
    /\ ~InHandler /\ last_state = task_state /\ task_state \in Waiting
         => timeout # "off"
    /\ InHandler /\ this_state = task_state /\ task_state \in Waiting
         => timeout # "off"
    /\ Unhandled /\ task_state = "SRC_DISCOVERY" => last_state # "SRC_NEGOCIATE"
    /\ InHandler =>
         /\ task_state \in {"SRC_ACCEPTED", "SRC_DISCOVERY"} => this_state = task_state
         /\ task_state = "SRC_STARTUP" => this_state # "SRC_NEGOCIATE"
    /\ timeout_state = "SRC_POWERED" => task_state = "SRC_ACCEPTED"
    /\ timeout_state = "SRC_DISCOVERY" => task_state = "SRC_STARTUP"
    /\ pc \in {"tx", "sent"} =>
         /\ site = "source_cap" => this_state = "SRC_DISCOVERY"
         /\ site = "get_sink_cap" => this_state = "SRC_READY"

-----------------------------------------------------------------------------
(* Types *)

\* set_state() keeps the types of the port.
LEMMA SetStateTypes ==
    ASSUME PortTypes, NEW next \in States, NEW fl \in SUBSET Flags, SetStateFlags(next, fl)
    PROVE  PortTypes'
<1>1. vbus' \in BOOLEAN /\ rx_enabled' \in BOOLEAN
  BY DEF SetStateFlags, PortTypes, VbusIn
<1>2. flags' \subseteq Flags
  BY DEF SetStateFlags
<1>3. task_state' \in States /\ timeout' = "off" /\ timeout_state' = "NONE"
  BY DEF SetStateFlags, NoTimeout
<1> QED BY <1>1, <1>2, <1>3 DEF PortTypes

\* A message that leaves the state alone, but for a disconnected one.
LEMMA StayTypes ==
    ASSUME PortTypes, StayIn
    PROVE  PortTypes'
<1>1. CASE Connected(task_state)
  BY <1>1 DEF StayIn, PortTypes, portVars
<1>2. CASE ~Connected(task_state)
  BY <1>2, SetStateTypes DEF StayIn, SetState, PortTypes, States
<1> QED BY <1>1, <1>2

\* Every step keeps the types of the port.
LEMMA PortStep ==
    ASSUME TypeOK, TimeoutInv, [Next]_vars
    PROVE  PortTypes'
<1> USE PdAssumption DEF PortTypes, TypeOK, TimeoutInv, TimeoutStates, States, Flags,
        portVars, Receive, HardResetReceived, Sent, Send, Dequeue, SetState,
        NoTimeout, SetTimeout, KeepTimeout, InState, Handled
<1>1. CASE (\E m \in {Message, HardReset} : Arrive(m)) \/ UNCHANGED vars
  BY <1>1 DEF Arrive, vars
<1>2. CASE WaitAndRun \/ Transmit \/ SetCcOpen \/ SetCcRp
  <2>1. CASE WaitAndRun \/ Transmit
    BY <2>1 DEF WaitAndRun, Transmit
  <2>2. CASE SetCcOpen \/ SetCcRp
    <3>1. vbus' \in BOOLEAN
      BY <2>2 DEF SetCcOpen, SetCcRp
    <3> QED BY <2>2, <3>1 DEF SetCcOpen, SetCcRp
  <2> QED BY <1>2, <2>1, <2>2
<1>3. CASE VdmSend \/ VdmSent \/ VdmIdle \/ NoRequest \/ Unattach
  BY <1>3, SetStateTypes, StayTypes DEF VdmSend, VdmSent, VdmIdle, VdmAfter,
     NoRequest, Unattach
<1>4. CASE HandleMessage
  BY <1>4, SetStateTypes, StayTypes DEF HandleMessage, Conflict, HandleRequest,
     HandleVdm, HandleBist, HandleSinkCap, HandleGetSourceCap, HandleRefused,
     HandleIgnored, HandleSoftReset, HandleDrSwap
<1>5. CASE AfterSend
  <2>1. CASE AcceptSent
    <3>1. flags \cup {"EXPLICIT_CONTRACT"} \in SUBSET Flags /\ "SRC_ACCEPTED" \in States
      OBVIOUS
    <3>2. \/ SetStateFlags("SRC_ACCEPTED", flags \cup {"EXPLICIT_CONTRACT"})
          \/ UNCHANGED portVars
      BY <2>1 DEF AcceptSent
    <3> QED BY <3>1, <3>2, SetStateTypes
  <2>2. CASE RejectSent \/ BistSent \/ PsRdySent \/ GetSinkCapSent
    BY <2>2, SetStateTypes, StayTypes DEF RejectSent, BistSent, PsRdySent,
       GetSinkCapSent
  <2>3. CASE VdmSent \/ RefuseSent \/ DrSwapAcceptSent \/ HardResetSent
    BY <2>3, SetStateTypes, StayTypes DEF VdmSent, RefuseSent, DrSwapAcceptSent,
       HardResetSent
  <2>4. CASE SourceCapAgainSent \/ SourceCapSent
    BY <2>4, SetStateTypes, StayTypes DEF SourceCapAgainSent, SourceCapSent
  <2> QED BY <1>5, <2>1, <2>2, <2>3, <2>4 DEF AfterSend
<1>6. CASE RunState
  <2>1. CASE SrcDisconnected \/ DebounceAgain
    BY <2>1, SetStateTypes, StayTypes DEF SrcDisconnected, DebounceAgain
  <2>2. CASE Debounced \/ SrcHardResetRecover
    BY <2>2, SetStateTypes, StayTypes DEF Debounced, SrcHardResetRecover
  <2>3. CASE SrcStartup \/ \E due \in BOOLEAN : SrcDiscovery(due)
    BY <2>3, SetStateTypes, StayTypes DEF SrcStartup, SrcDiscovery
  <2>4. CASE \E s \in DOMAIN WaitsFor : SrcWaits(s)
    BY <2>4, SetStateTypes, StayTypes DEF SrcWaits, WaitsFor
  <2>5. CASE SrcTransition \/ SrcReadyQuiet \/ SrcReadyGetSinkCap \/ SrcReadyChecks
    BY <2>5, SetStateTypes, StayTypes DEF SrcTransition, SrcReadyQuiet,
       SrcReadyGetSinkCap, SrcReadyChecks
  <2>6. CASE HardResetSend \/ HardResetExecute
    BY <2>6, SetStateTypes, StayTypes DEF HardResetSend, HardResetExecute
  <2> QED BY <1>6, <2>1, <2>2, <2>3, <2>4, <2>5, <2>6 DEF RunState
<1>7. CASE EndOfLoop
  BY <1>7, SetStateTypes, StayTypes DEF EndOfLoop
<1> QED BY <1>1, <1>2, <1>3, <1>4, <1>5, <1>6, <1>7 DEF Next, PdTask

\* Every step keeps the types of what is known of the partner.
LEMMA PeerStep ==
    ASSUME TypeOK, [Next]_vars
    PROVE  PeerTypes'
<1> USE PdAssumption DEF PeerTypes, TypeOK, Swapped, peerVars, InState
<1>1. CASE (\E m \in {Message, HardReset} : Arrive(m)) \/ UNCHANGED vars
  BY <1>1 DEF Arrive, vars
<1>2. CASE WaitAndRun \/ Transmit \/ SetCcOpen \/ SetCcRp
  BY <1>2 DEF WaitAndRun, Transmit, TxResults, SetCcOpen, SetCcRp
<1>3. CASE VdmSend \/ VdmSent \/ VdmIdle \/ NoRequest \/ Unattach
  BY <1>3 DEF VdmSend, VdmSent, VdmIdle, VdmAfter, NoRequest, Unattach
<1>4. CASE HandleMessage
  BY <1>4 DEF HandleMessage, Conflict, HandleRequest, HandleVdm, HandleBist,
     HandleSinkCap, HandleGetSourceCap, HandleRefused, HandleIgnored, HandleSoftReset,
     HandleDrSwap
<1>5. CASE AfterSend
  BY <1>5 DEF AfterSend, VdmSent, AcceptSent, RejectSent, BistSent, RefuseSent,
     SourceCapAgainSent, DrSwapAcceptSent, SourceCapSent, PsRdySent, GetSinkCapSent,
     HardResetSent
<1>6. CASE RunState
  <2>1. CASE SrcDisconnected \/ DebounceAgain
    BY <2>1 DEF SrcDisconnected, DebounceAgain, NewCcState
  <2>2. CASE Debounced \/ SrcHardResetRecover
    BY <2>2 DEF Debounced, SrcHardResetRecover
  <2>3. CASE SrcStartup \/ \E due \in BOOLEAN : SrcDiscovery(due)
    BY <2>3 DEF SrcStartup, SrcDiscovery
  <2>4. CASE \E s \in DOMAIN WaitsFor : SrcWaits(s)
    BY <2>4 DEF SrcWaits, WaitsFor
  <2>5. CASE SrcTransition \/ SrcReadyQuiet \/ SrcReadyGetSinkCap \/ SrcReadyChecks
    BY <2>5 DEF SrcTransition, SrcReadyQuiet, SrcReadyGetSinkCap, SrcReadyChecks
  <2>6. CASE HardResetSend \/ HardResetExecute
    BY <2>6 DEF HardResetSend, HardResetExecute
  <2> QED BY <1>6, <2>1, <2>2, <2>3, <2>4, <2>5, <2>6 DEF RunState
<1>7. CASE EndOfLoop
  BY <1>7 DEF EndOfLoop
<1> QED BY <1>1, <1>2, <1>3, <1>4, <1>5, <1>6, <1>7 DEF Next, PdTask

\* Every step keeps the counters within their limits.
LEMMA CountStep ==
    ASSUME TypeOK, CapsInv, [Next]_vars
    PROVE  CountTypes'
<1> USE PdAssumption DEF CountTypes, TypeOK, CapsInv, MoreCaps, countVars, Sent,
        InState
<1>1. CASE (\E m \in {Message, HardReset} : Arrive(m)) \/ UNCHANGED vars
  BY <1>1 DEF Arrive, vars
<1>2. CASE WaitAndRun \/ Transmit \/ SetCcOpen \/ SetCcRp
  BY <1>2 DEF WaitAndRun, Transmit, TxResults, SetCcOpen, SetCcRp
<1>3. CASE VdmSend \/ VdmSent \/ VdmIdle \/ NoRequest \/ Unattach
  BY <1>3 DEF VdmSend, VdmSent, VdmIdle, VdmAfter, NoRequest, Unattach
<1>4. CASE HandleMessage
  BY <1>4 DEF HandleMessage, Conflict, HandleRequest, HandleVdm, HandleBist,
     HandleSinkCap, HandleGetSourceCap, HandleRefused, HandleIgnored, HandleSoftReset,
     HandleDrSwap
<1>5. CASE AfterSend
  <2>1. CASE AcceptSent
    BY <2>1 DEF AcceptSent
  <2>2. CASE RejectSent \/ BistSent \/ PsRdySent \/ GetSinkCapSent
    BY <2>2 DEF RejectSent, BistSent, PsRdySent, GetSinkCapSent
  <2>3. CASE VdmSent \/ RefuseSent \/ DrSwapAcceptSent \/ HardResetSent
    BY <2>3 DEF VdmSent, RefuseSent, DrSwapAcceptSent, HardResetSent
  <2>4. CASE SourceCapAgainSent \/ SourceCapSent
    BY <2>4 DEF SourceCapAgainSent, SourceCapSent
  <2> QED BY <1>5, <2>1, <2>2, <2>3, <2>4 DEF AfterSend
<1>6. CASE RunState
  <2>1. CASE SrcDisconnected \/ DebounceAgain
    BY <2>1 DEF SrcDisconnected, DebounceAgain
  <2>2. CASE Debounced \/ SrcHardResetRecover
    BY <2>2 DEF Debounced, SrcHardResetRecover
  <2>3. CASE SrcStartup \/ \E due \in BOOLEAN : SrcDiscovery(due)
    BY <2>3 DEF SrcStartup, SrcDiscovery
  <2>4. CASE \E s \in DOMAIN WaitsFor : SrcWaits(s)
    BY <2>4 DEF SrcWaits, WaitsFor
  <2>5. CASE SrcTransition \/ SrcReadyQuiet \/ SrcReadyGetSinkCap \/ SrcReadyChecks
    BY <2>5 DEF SrcTransition, SrcReadyQuiet, SrcReadyGetSinkCap, SrcReadyChecks,
       AsksSinkCap
  <2>6. CASE HardResetSend \/ HardResetExecute
    <3>1. hard_reset_sent' \in BOOLEAN
      BY <2>6 DEF HardResetSend, HardResetExecute
    <3> QED BY <2>6, <3>1 DEF HardResetSend, HardResetExecute
  <2> QED BY <1>6, <2>1, <2>2, <2>3, <2>4, <2>5, <2>6 DEF RunState
<1>7. CASE EndOfLoop
  BY <1>7 DEF EndOfLoop
<1> QED BY <1>1, <1>2, <1>3, <1>4, <1>5, <1>6, <1>7 DEF Next, PdTask

\* Every step keeps the types of the loop's own variables.
LEMMA StepStep ==
    ASSUME TypeOK, [Next]_vars
    PROVE  StepTypes'
<1> USE PdAssumption DEF StepTypes, TypeOK, Positions, Sites, States, stepVars,
        txVars, Sent, Send, Dequeue, InState, Handled, Receive
<1>1. CASE (\E m \in {Message, HardReset} : Arrive(m)) \/ UNCHANGED vars
  BY <1>1 DEF Arrive, vars
<1>2. CASE WaitAndRun \/ Transmit \/ SetCcOpen \/ SetCcRp
  BY <1>2 DEF WaitAndRun, Transmit, TxResults, SetCcOpen, SetCcRp
<1>3. CASE VdmSend \/ VdmSent \/ VdmIdle \/ NoRequest \/ Unattach
  BY <1>3 DEF VdmSend, VdmSent, VdmIdle, VdmAfter, NoRequest, Unattach
<1>4. CASE HandleMessage
  BY <1>4 DEF HandleMessage, Conflict, HandleRequest, HandleVdm, HandleBist,
     HandleSinkCap, HandleGetSourceCap, HandleRefused, HandleIgnored, HandleSoftReset,
     HandleDrSwap
<1>5. CASE AfterSend
  BY <1>5 DEF AfterSend, VdmSent, AcceptSent, RejectSent, BistSent, RefuseSent,
     SourceCapAgainSent, DrSwapAcceptSent, SourceCapSent, PsRdySent, GetSinkCapSent,
     HardResetSent
<1>6. CASE RunState
  BY <1>6 DEF RunState, SrcDisconnected, DebounceAgain, Debounced,
     SrcHardResetRecover, SrcStartup, SrcDiscovery, SrcWaits, WaitsFor, StartsWaiting,
     Entered, SrcTransition, SrcReadyQuiet, SrcReadyGetSinkCap, SrcReadyChecks,
     HardResetSend, HardResetExecute
<1>7. CASE EndOfLoop
  BY <1>7 DEF EndOfLoop
<1> QED BY <1>1, <1>2, <1>3, <1>4, <1>5, <1>6, <1>7 DEF Next, PdTask

\* Every step keeps the types of what the lines bring.
LEMMA LineStep ==
    ASSUME TypeOK, [Next]_vars
    PROVE  LineTypes'
<1> USE PdAssumption DEF LineTypes, TypeOK, Deadlines, Nothing, Message, HardReset,
        Awaited, lineVars, Sent, Send, Dequeue, InState, Handled, Receive
<1>1. CASE (\E m \in {Message, HardReset} : Arrive(m)) \/ UNCHANGED vars
  BY <1>1 DEF Arrive, vars
<1>2. CASE WaitAndRun \/ Transmit \/ SetCcOpen \/ SetCcRp
  BY <1>2 DEF WaitAndRun, Transmit, TxResults, SetCcOpen, SetCcRp
<1>3. CASE VdmSend \/ VdmSent \/ VdmIdle \/ NoRequest \/ Unattach
  BY <1>3 DEF VdmSend, VdmSent, VdmIdle, VdmAfter, NoRequest, Unattach
<1>4. CASE HandleMessage
  BY <1>4 DEF HandleMessage, Conflict, HandleRequest, HandleVdm, HandleBist,
     HandleSinkCap, HandleGetSourceCap, HandleRefused, HandleIgnored, HandleSoftReset,
     HandleDrSwap
<1>5. CASE AfterSend
  BY <1>5 DEF AfterSend, VdmSent, AcceptSent, RejectSent, BistSent, RefuseSent,
     SourceCapAgainSent, DrSwapAcceptSent, SourceCapSent, PsRdySent, GetSinkCapSent,
     HardResetSent
<1>6. CASE RunState
  BY <1>6 DEF RunState, SrcDisconnected, DebounceAgain, Debounced,
     SrcHardResetRecover, SrcStartup, SrcDiscovery, SrcWaits, WaitsFor, StartsWaiting,
     Entered, SrcTransition, SrcReadyQuiet, SrcReadyGetSinkCap, SrcReadyChecks,
     HardResetSend, HardResetExecute
<1>7. CASE EndOfLoop
  BY <1>7 DEF EndOfLoop
<1> QED BY <1>1, <1>2, <1>3, <1>4, <1>5, <1>6, <1>7 DEF Next, PdTask

-----------------------------------------------------------------------------
(* Each step keeps the invariants *)

\* Every step keeps timeouts that lead somewhere.
LEMMA TimeoutStep ==
    ASSUME TypeOK, TimeoutInv, [Next]_vars
    PROVE  TimeoutInv'
<1> USE PdAssumption DEF TimeoutInv, TimeoutStates, PortTypes, TypeOK, portVars,
        Receive, HardResetReceived, Sent, Send, Dequeue, StayIn, SetState,
        SetStateFlags, Leaves, VbusIn, NoTimeout, SetTimeout, KeepTimeout, InState,
        Handled
<1>1. CASE (\E m \in {Message, HardReset} : Arrive(m)) \/ UNCHANGED vars
  BY <1>1 DEF Arrive, vars
<1>2. CASE WaitAndRun \/ Transmit \/ SetCcOpen \/ SetCcRp
  BY <1>2 DEF WaitAndRun, Transmit, TxResults, SetCcOpen, SetCcRp
<1>3. CASE VdmSend \/ VdmSent \/ VdmIdle \/ NoRequest \/ Unattach
  BY <1>3 DEF VdmSend, VdmSent, VdmIdle, VdmAfter, NoRequest, Unattach
<1>4. CASE HandleMessage
  BY <1>4 DEF HandleMessage, Conflict, HandleRequest, HandleVdm, HandleBist,
     HandleSinkCap, HandleGetSourceCap, HandleRefused, HandleIgnored, HandleSoftReset,
     HandleDrSwap
<1>5. CASE AfterSend
  BY <1>5 DEF AfterSend, VdmSent, AcceptSent, RejectSent, BistSent, RefuseSent,
     SourceCapAgainSent, DrSwapAcceptSent, SourceCapSent, PsRdySent, GetSinkCapSent,
     HardResetSent
<1>6. CASE RunState
  BY <1>6 DEF RunState, SrcDisconnected, DebounceAgain, Debounced,
     SrcHardResetRecover, SrcStartup, SrcDiscovery, SrcWaits, WaitsFor, StartsWaiting,
     Entered, SrcTransition, SrcReadyQuiet, SrcReadyGetSinkCap, SrcReadyChecks,
     HardResetSend, HardResetExecute
<1>7. CASE EndOfLoop
  BY <1>7 DEF EndOfLoop
<1> QED BY <1>1, <1>2, <1>3, <1>4, <1>5, <1>6, <1>7 DEF Next, PdTask

\* Every step keeps the limit of source capabilities.
LEMMA CapsStep ==
    ASSUME TypeOK, CapsInv, [Next]_vars
    PROVE  CapsInv'
<1> USE PdAssumption DEF CapsInv, MoreCaps, countVars, txVars, Sent, Send, Dequeue,
        InState, Handled
<1>1. CASE (\E m \in {Message, HardReset} : Arrive(m)) \/ UNCHANGED vars
  BY <1>1 DEF Arrive, vars
<1>2. CASE WaitAndRun \/ Transmit \/ SetCcOpen \/ SetCcRp
  BY <1>2 DEF WaitAndRun, Transmit, TxResults, SetCcOpen, SetCcRp
<1>3. CASE VdmSend \/ VdmSent \/ VdmIdle \/ NoRequest \/ Unattach
  BY <1>3 DEF VdmSend, VdmSent, VdmIdle, VdmAfter, NoRequest, Unattach
<1>4. CASE HandleMessage
  BY <1>4 DEF HandleMessage, Conflict, HandleRequest, HandleVdm, HandleBist,
     HandleSinkCap, HandleGetSourceCap, HandleRefused, HandleIgnored, HandleSoftReset,
     HandleDrSwap
<1>5. CASE AfterSend
  BY <1>5 DEF AfterSend, VdmSent, AcceptSent, RejectSent, BistSent, RefuseSent,
     SourceCapAgainSent, DrSwapAcceptSent, SourceCapSent, PsRdySent, GetSinkCapSent,
     HardResetSent
<1>6. CASE RunState
  BY <1>6 DEF RunState, SrcDisconnected, DebounceAgain, Debounced,
     SrcHardResetRecover, SrcStartup, SrcDiscovery, SrcWaits, WaitsFor, StartsWaiting,
     Entered, SrcTransition, SrcReadyQuiet, SrcReadyGetSinkCap, SrcReadyChecks,
     HardResetSend, HardResetExecute
<1>7. CASE EndOfLoop
  BY <1>7 DEF EndOfLoop
<1> QED BY <1>1, <1>2, <1>3, <1>4, <1>5, <1>6, <1>7 DEF Next, PdTask

\* Every way back to a disconnected state cuts the power and ends the contract.
LEMMA DetachedStep ==
    ASSUME TypeOK, TimeoutInv, DetachedInv, [Next]_vars
    PROVE  DetachedInv'
<1> USE PdAssumption DEF DetachedInv, TimeoutInv, TimeoutStates, Connected,
        ResetOnDisconnect, Flags, portVars, Receive, HardResetReceived, Sent, Send,
        Dequeue, StayIn, SetState, SetStateFlags, Leaves, VbusIn, NoTimeout,
        SetTimeout, KeepTimeout, InState, Handled
<1>1. CASE (\E m \in {Message, HardReset} : Arrive(m)) \/ UNCHANGED vars
  BY <1>1 DEF Arrive, vars
<1>2. CASE WaitAndRun \/ Transmit \/ SetCcOpen \/ SetCcRp
  BY <1>2 DEF WaitAndRun, Transmit, TxResults, SetCcOpen, SetCcRp
<1>3. CASE VdmSend \/ VdmSent \/ VdmIdle \/ NoRequest \/ Unattach
  BY <1>3 DEF VdmSend, VdmSent, VdmIdle, VdmAfter, NoRequest, Unattach
<1>4. CASE HandleMessage
  BY <1>4 DEF HandleMessage, Conflict, HandleRequest, HandleVdm, HandleBist,
     HandleSinkCap, HandleGetSourceCap, HandleRefused, HandleIgnored, HandleSoftReset,
     HandleDrSwap
<1>5. CASE AfterSend
  <2>1. CASE AcceptSent
    BY <2>1 DEF AcceptSent
  <2>2. CASE RejectSent \/ BistSent \/ PsRdySent \/ GetSinkCapSent
    BY <2>2 DEF RejectSent, BistSent, PsRdySent, GetSinkCapSent
  <2>3. CASE VdmSent \/ RefuseSent \/ DrSwapAcceptSent \/ HardResetSent
    BY <2>3 DEF VdmSent, RefuseSent, DrSwapAcceptSent, HardResetSent
  <2>4. CASE SourceCapAgainSent \/ SourceCapSent
    BY <2>4 DEF SourceCapAgainSent, SourceCapSent
  <2> QED BY <1>5, <2>1, <2>2, <2>3, <2>4 DEF AfterSend
<1>6. CASE RunState
  BY <1>6 DEF RunState, SrcDisconnected, DebounceAgain, Debounced,
     SrcHardResetRecover, SrcStartup, SrcDiscovery, SrcWaits, WaitsFor, StartsWaiting,
     Entered, SrcTransition, SrcReadyQuiet, SrcReadyGetSinkCap, SrcReadyChecks,
     HardResetSend, HardResetExecute
<1>7. CASE EndOfLoop
  BY <1>7 DEF EndOfLoop
<1> QED BY <1>1, <1>2, <1>3, <1>4, <1>5, <1>6, <1>7 DEF Next, PdTask

\* With the receiver off, no step brings the power back but an attach.
LEMMA DeafStep ==
    ASSUME TypeOK, TimeoutInv, DeafInv, [Next]_vars
    PROVE  DeafInv'
<1> USE PdAssumption DEF DeafInv, TimeoutInv, TimeoutStates, portVars, txVars,
        Receive, HardResetReceived, Sent, Send, Dequeue, StayIn, SetState,
        SetStateFlags, Leaves, VbusIn, NoTimeout, SetTimeout, KeepTimeout, InState,
        Handled
<1>1. CASE (\E m \in {Message, HardReset} : Arrive(m)) \/ UNCHANGED vars
  BY <1>1 DEF Arrive, vars
<1>2. CASE WaitAndRun \/ Transmit \/ SetCcOpen \/ SetCcRp
  BY <1>2 DEF WaitAndRun, Transmit, TxResults, SetCcOpen, SetCcRp
<1>3. CASE VdmSend \/ VdmSent \/ VdmIdle \/ NoRequest \/ Unattach
  BY <1>3 DEF VdmSend, VdmSent, VdmIdle, VdmAfter, NoRequest, Unattach
<1>4. CASE HandleMessage
  BY <1>4 DEF HandleMessage, Conflict, HandleRequest, HandleVdm, HandleBist,
     HandleSinkCap, HandleGetSourceCap, HandleRefused, HandleIgnored, HandleSoftReset,
     HandleDrSwap
<1>5. CASE AfterSend
  BY <1>5 DEF AfterSend, VdmSent, AcceptSent, RejectSent, BistSent, RefuseSent,
     SourceCapAgainSent, DrSwapAcceptSent, SourceCapSent, PsRdySent, GetSinkCapSent,
     HardResetSent
<1>6. CASE RunState
  BY <1>6 DEF RunState, SrcDisconnected, DebounceAgain, Debounced,
     SrcHardResetRecover, SrcStartup, SrcDiscovery, SrcWaits, WaitsFor, StartsWaiting,
     Entered, SrcTransition, SrcReadyQuiet, SrcReadyGetSinkCap, SrcReadyChecks,
     HardResetSend, HardResetExecute
<1>7. CASE EndOfLoop
  BY <1>7 DEF EndOfLoop
<1> QED BY <1>1, <1>2, <1>3, <1>4, <1>5, <1>6, <1>7 DEF Next, PdTask

\* After the check for a disconnection, nothing looks at the CC line of a powered port
\* before the next round.
LEMMA OpenStep ==
    ASSUME TypeOK, TimeoutInv, DeafInv, DetachedInv, OpenInv, [Next]_vars
    PROVE  OpenInv'
<1> USE PdAssumption DEF OpenInv, Looked, Open, Gone, Connected, TimeoutInv,
        TimeoutStates, DeafInv, DetachedInv, portVars, peerVars, lineVars, txVars,
        Receive, HardResetReceived, Sent, Send, Dequeue, StayIn, SetState,
        SetStateFlags, Leaves, VbusIn, NoTimeout, SetTimeout, KeepTimeout, InState,
        Handled
<1>1. CASE (\E m \in {Message, HardReset} : Arrive(m)) \/ UNCHANGED vars
  BY <1>1 DEF Arrive, vars
<1>2. CASE WaitAndRun \/ Transmit \/ SetCcOpen \/ SetCcRp
  BY <1>2 DEF WaitAndRun, Transmit, TxResults, SetCcOpen, SetCcRp
<1>3. CASE VdmSend \/ VdmSent \/ VdmIdle \/ NoRequest \/ Unattach
  BY <1>3 DEF VdmSend, VdmSent, VdmIdle, VdmAfter, NoRequest, Unattach
<1>4. CASE HandleMessage
  BY <1>4 DEF HandleMessage, Conflict, HandleRequest, HandleVdm, HandleBist,
     HandleSinkCap, HandleGetSourceCap, HandleRefused, HandleIgnored, HandleSoftReset,
     HandleDrSwap
<1>5. CASE AfterSend
  BY <1>5 DEF AfterSend, VdmSent, AcceptSent, RejectSent, BistSent, RefuseSent,
     SourceCapAgainSent, DrSwapAcceptSent, SourceCapSent, PsRdySent, GetSinkCapSent,
     HardResetSent
<1>6. CASE RunState
  BY <1>6 DEF RunState, SrcDisconnected, DebounceAgain, Debounced,
     SrcHardResetRecover, SrcStartup, SrcDiscovery, SrcWaits, WaitsFor, StartsWaiting,
     Entered, SrcTransition, SrcReadyQuiet, SrcReadyGetSinkCap, SrcReadyChecks,
     HardResetSend, HardResetExecute
<1>7. CASE EndOfLoop
  BY <1>7 DEF EndOfLoop
<1> QED BY <1>1, <1>2, <1>3, <1>4, <1>5, <1>6, <1>7 DEF Next, PdTask

\* Every step keeps the timeouts of the states that wait.
LEMMA ArmStep ==
    ASSUME TypeOK, TimeoutInv, ArmInv, [Next]_vars
    PROVE  ArmInv'
<1> USE PdAssumption DEF ArmInv, InHandler, StateSites, Waiting, Unhandled,
        TimeoutInv, TimeoutStates, portVars, stepVars, txVars, Receive,
        HardResetReceived, Sent, Send, Dequeue, StayIn, SetState, SetStateFlags,
        Leaves, VbusIn, NoTimeout, SetTimeout, KeepTimeout, InState, Handled
<1>1. CASE (\E m \in {Message, HardReset} : Arrive(m)) \/ UNCHANGED vars
  BY <1>1 DEF Arrive, vars
<1>2. CASE WaitAndRun \/ Transmit \/ SetCcOpen \/ SetCcRp
  BY <1>2 DEF WaitAndRun, Transmit, TxResults, SetCcOpen, SetCcRp
<1>3. CASE VdmSend \/ VdmSent \/ VdmIdle \/ NoRequest \/ Unattach
  BY <1>3 DEF VdmSend, VdmSent, VdmIdle, VdmAfter, NoRequest, Unattach
<1>4. CASE HandleMessage
  BY <1>4 DEF HandleMessage, Conflict, HandleRequest, HandleVdm, HandleBist,
     HandleSinkCap, HandleGetSourceCap, HandleRefused, HandleIgnored, HandleSoftReset,
     HandleDrSwap
<1>5. CASE AfterSend
  BY <1>5 DEF AfterSend, VdmSent, AcceptSent, RejectSent, BistSent, RefuseSent,
     SourceCapAgainSent, DrSwapAcceptSent, SourceCapSent, PsRdySent, GetSinkCapSent,
     HardResetSent
<1>6. CASE RunState
  BY <1>6 DEF RunState, SrcDisconnected, DebounceAgain, Debounced,
     SrcHardResetRecover, SrcStartup, SrcDiscovery, SrcWaits, WaitsFor, StartsWaiting,
     Entered, SrcTransition, SrcReadyQuiet, SrcReadyGetSinkCap, SrcReadyChecks,
     HardResetSend, HardResetExecute
<1>7. CASE EndOfLoop
  BY <1>7 DEF EndOfLoop
<1> QED BY <1>1, <1>2, <1>3, <1>4, <1>5, <1>6, <1>7 DEF Next, PdTask

-----------------------------------------------------------------------------
(* The theorems *)

IInv == TypeOK /\ PortInv /\ ArmInv

\* The invariants hold together, at the start and after every step.
LEMMA PortInvariant == Spec => []IInv
<1>1. ASSUME Init PROVE IInv
  <2> USE <1>1, PdAssumption DEF Init
  <2>1. PortTypes
    BY DEF PortTypes, States
  <2>2. PeerTypes
    BY DEF PeerTypes
  <2>3. hard_reset_sent \in BOOLEAN
    OBVIOUS
  <2>4. CountTypes
    BY <2>3 DEF CountTypes
  <2>5. StepTypes /\ LineTypes
    BY DEF StepTypes, LineTypes, States, Positions, Sites, Nothing, Message, HardReset
  <2>6. TimeoutInv /\ CapsInv /\ DetachedInv /\ DeafInv /\ OpenInv
    BY DEF TimeoutInv, TimeoutStates, CapsInv, DetachedInv, DeafInv, OpenInv
  <2>7. ArmInv
    BY DEF ArmInv, InHandler, Unhandled, Waiting
  <2> QED BY <2>1, <2>2, <2>4, <2>5, <2>6, <2>7 DEF IInv, TypeOK, PortInv
<1>2. ASSUME IInv, [Next]_vars PROVE IInv'
  <2> USE <1>2 DEF IInv, PortInv
  <2>1. TypeOK'
    BY PortStep, PeerStep, CountStep, StepStep, LineStep DEF TypeOK
  <2>2. PortInv'
    BY TimeoutStep, CapsStep, DetachedStep, DeafStep, OpenStep
  <2>3. ArmInv'
    BY ArmStep
  <2> QED BY <2>1, <2>2, <2>3
<1> QED BY <1>1, <1>2, PTL DEF Spec

\* Types of pd_task()'s variables: the counters of capabilities, hard resets and
\* sink capability requests stay within their limits, and every timeout that
\* expires leads to a state.
THEOREM TypeCorrect == Spec => []TypeOK
  BY PortInvariant, PTL DEF IInv

\* No way back to the disconnected states leaves VBUS on (VbusAttached).
THEOREM DetachedIsOff == Spec => []VbusAttached
<1>1. IInv => VbusAttached
  BY DEF IInv, PortInv, DetachedInv, VbusAttached
<1> QED BY <1>1, PortInvariant, PTL

\* The contract ends with the connection (ContractConnected).
THEOREM ContractEnds == Spec => []ContractConnected
<1>1. IInv => ContractConnected
  BY DEF IInv, PortInv, DetachedInv, ContractConnected
<1> QED BY <1>1, PortInvariant, PTL

\* The port that is powered hears its partner (PoweredListens): a port with its
\* receiver off finds no way to power but a new attach.
THEOREM PowerIsHeard == Spec => []PoweredListens
<1>1. IInv => PoweredListens
  BY DEF IInv, PortInv, DeafInv, PoweredListens
<1> QED BY <1>1, PortInvariant, PTL

\* No round of pd_task() ends with power on an open port (NoPowerToOpenPort).
THEOREM OpenIsOff == Spec => []NoPowerToOpenPort
<1>1. IInv => NoPowerToOpenPort
  BY DEF IInv, PortInv, OpenInv, Looked, NoPowerToOpenPort
<1> QED BY <1>1, PortInvariant, PTL

\* A state that waits has its timeout running (TimersArmed), whatever messages and
\* hard resets came in while its predecessors transmitted.
THEOREM WaitsEnd == Spec => []TimersArmed
<1>1. IInv => TimersArmed
  BY DEF IInv, ArmInv, InHandler, Waiting, TimersArmed
<1> QED BY <1>1, PortInvariant, PTL
=============================================================================
