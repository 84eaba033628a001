------------------------------ MODULE AltMode -------------------------------
(***************************************************************************)
(* DisplayPort over USB-C: the discovery of the partner's modes, the entry *)
(* of the DisplayPort mode and the hot plug detect line HPD that tells the *)
(* graphics source whether a display is there.  common/usb_pd_policy.c     *)
(* with the callbacks of board/lgvr/usb_pd_policy.c, and the VDM queue of  *)
(* common/usb_pd_protocol.c that carries it.                               *)
(*                                                                         *)
(* The PD task goes round its loop: it sends a queued VDM, then waits,     *)
(* handles a message or finds nothing to do.  What PdPort models in detail *)
(* is one variable here, phase: "talking" stands for every state of a      *)
(* connection but SRC_READY.  DisplayPort is the only mode lgvr supports,  *)
(* so that every slot of pe.amodes that is taken has its functions; nothing *)
(* in the image exits a mode by itself, so that opos is 1 in all of them.  *)
(***************************************************************************)
EXTENDS Naturals, SequencesExt

CONSTANTS
    Partners,       \* records: svids, and whether DisplayPort is a sink
    PD_AMODE_COUNT, SVID_DISCOVERY_MAX,
    MaxBusy, MaxIrregular, MaxLevels    \* bounds for the partner and the cable

Devices == [svids : Seq(STRING), sink : BOOLEAN]

ASSUME AltModeAssumption ==
    /\ Partners \subseteq Devices
    /\ PD_AMODE_COUNT \in Nat \ {0} /\ SVID_DISCOVERY_MAX \in Nat \ {0}
    /\ MaxBusy \in Nat /\ MaxIrregular \in Nat /\ MaxLevels \in Nat

VARIABLES
    (* the PD task *)
    phase, pc, data_role, check_identity,
    vdm_state, vdo,     \* and the command that is queued or being answered
    rx,                 \* the message received and not handled yet
    (* struct pd_policy, the board's flags and the GPIO *)
    svids, modes,       \* modes[i]: svids[i] can be a DisplayPort sink
    amodes,             \* the indices into svids of the modes allocated
    dp_on, hi_pending, hpd,
    (* the partner *)
    partner, plugged, pmode,    \* its mode
    request,            \* what it has to answer
    level,              \* whether its display is there
    (* bounds *)
    busy, irregular, levels,
    (* histories *)
    clean,      \* connected, and no VDM of the port has failed since, been
                \* answered too late or been overwritten, no level ignored
    forgotten   \* modes were cleared, or entered anew with HPD high, without having
                \* been exited, and since then DisplayPort has been on or HPD high

taskVars == <<phase, pc, data_role, check_identity>>
vdmVars == <<vdm_state, vdo>>
peVars == <<svids, modes, amodes>>
dpVars == <<dp_on, hi_pending, hpd, forgotten>>
partnerVars == <<partner, plugged, pmode, level>>
boundVars == <<busy, irregular, levels>>
vars == <<taskVars, vdmVars, rx, peVars, dpVars, partnerVars, request, boundVars, clean>>

Discovery == {"IDENT", "SVID", "MODES"}
Entry == {"ENTER", "STATUS", "CONFIG"}
Cmds == Discovery \cup Entry

None == [type |-> "none", cmd |-> "none", from |-> [svids |-> <<>>, sink |-> FALSE],
         level |-> FALSE, irq |-> FALSE]

\* A message of the partner.  Those about the display have its level and an IRQ bit.
Report(type, cmd, lvl, irq) ==
    [type |-> type, cmd |-> cmd, from |-> partner, level |-> lvl, irq |-> irq]

Message(type, cmd) == Report(type, cmd, level, FALSE)

Messages(types, cmds) ==
    [type : types, cmd : cmds, from : Devices, level : BOOLEAN, irq : BOOLEAN]

Received ==
    Messages({"INIT"}, {"IDENT", "ATTENTION"}) \cup Messages({"ACK", "NAK"}, Cmds)
        \cup Messages({"BUSY"}, Discovery) \cup {None}

TaskTypes ==
    /\ phase \in {"off", "talking", "ready"} /\ pc \in {"vdm", "wait"}
    /\ data_role \in {"DFP", "UFP"} /\ check_identity \in BOOLEAN /\ clean \in BOOLEAN

VdmTypes ==
    /\ vdm_state \in {"IDLE", "READY", "BUSY", "WAIT_RSP_BUSY"}
    /\ vdo \in Cmds \cup {"NAK"} /\ rx \in Received /\ request \in Cmds \cup {"none"}

ModeTypes ==
    /\ svids \in Seq(STRING) /\ modes \in Seq(BOOLEAN)
    /\ amodes \in Seq(1 .. Len(svids)) /\ Len(amodes) <= PD_AMODE_COUNT

DisplayTypes ==
    /\ dp_on \in BOOLEAN /\ hi_pending \in BOOLEAN /\ hpd \in BOOLEAN
    /\ forgotten \in BOOLEAN

PartnerTypes ==
    /\ partner \in Devices /\ plugged \in BOOLEAN /\ level \in BOOLEAN
    /\ pmode \in {"usb", "entered", "configured"}

\* pe.amodes is written within its bounds, and every slot in use refers to an SVID
\* that is known.
TypeOK == TaskTypes /\ VdmTypes /\ ModeTypes /\ DisplayTypes /\ PartnerTypes

Init ==
    /\ phase = "off" /\ pc = "vdm" /\ data_role = "DFP" /\ check_identity = FALSE
    /\ vdm_state = "IDLE" /\ vdo = "NAK" /\ rx = None
    /\ svids = <<>> /\ modes = <<>> /\ amodes = <<>>
    /\ dp_on = FALSE /\ hi_pending = FALSE /\ hpd = FALSE
    /\ partner \in Partners /\ plugged = FALSE /\ pmode = "usb" /\ request = "none"
    /\ level = FALSE
    /\ busy = 0 /\ irregular = 0 /\ levels = 0 /\ clean = FALSE /\ forgotten = FALSE

-----------------------------------------------------------------------------
(* common/usb_pd_policy.c and board/lgvr/usb_pd_policy.c *)

\* pd_dfp_pe_init().
PeInit == svids' = <<>> /\ modes' = <<>> /\ amodes' = <<>>

\* dp_on and the GPIO of HPD.
Show(on, high) ==
    dp_on' = on /\ hpd' = high /\ forgotten' = (forgotten /\ (on \/ high))

\* Mutant of Exit: without svdm_safe_dp_mode().
ExitUnsafe ==
    IF amodes = <<>> THEN UNCHANGED dpVars
    ELSE Show(dp_on, FALSE) /\ UNCHANGED hi_pending

\* Mutant of Exit: HPD is left as it is.
ExitButHpd == dp_on' = FALSE /\ hi_pending' = FALSE /\ UNCHANGED <<hpd, forgotten>>

\* svdm_exit_dp_mode(), which pd_dfp_exit_mode() calls for every slot in use.
Exit ==
    IF amodes = <<>> THEN UNCHANGED dpVars
    ELSE Show(FALSE, FALSE) /\ hi_pending' = FALSE

\* pd_dfp_exit_mode(port, 0, 0).
ExitAll == Exit /\ PeInit

\* queue_vdm().
Queue(cmd) == vdm_state' = "READY" /\ vdo' = cmd

\* pd_svdm() has nothing to send; the answer, if one was awaited, has come.
NoVdm == vdm_state' = (IF vdm_state = "BUSY" THEN "IDLE" ELSE vdm_state) /\ vdo' = vdo

\* DISCOVER_IDENT is acknowledged.
ConsumeIdentity ==
    /\ PeInit
    /\ Queue("SVID")
    /\ forgotten' = (forgotten \/ ((hpd \/ dp_on) /\ amodes # <<>>))
    /\ UNCHANGED <<dp_on, hi_pending, hpd>>

\* dfp_discover_modes().
MoreModes(idx, cnt) == idx < cnt

\* How many SVIDs dfp_consume_svids() takes.  It writes them in pairs and tests only
\* for a pair that begins at the limit: an odd number of SVIDs steps over it.
Room ==
    LET free == SVID_DISCOVERY_MAX - Len(svids) IN
    IF Len(svids) <= SVID_DISCOVERY_MAX /\ free % 2 = 0 /\ free < Len(rx.from.svids)
    THEN free ELSE Len(rx.from.svids)

\* DISCOVER_SVID is acknowledged: dfp_consume_svids().
ConsumeSvids ==
    /\ svids' = svids \o SubSeq(rx.from.svids, 1, Room)
    /\ IF MoreModes(Len(modes), Len(svids')) THEN Queue("MODES") ELSE NoVdm
    /\ UNCHANGED <<modes, amodes, dpVars>>

\* allocate_mode() with no SVID given: the first entry that is supported.
Supported == {i \in 1 .. Len(svids) : svids[i] = "DP"}

\* svdm_enter_dp_mode().
MayEnter(caps, i) == caps[i]

\* What DISCOVER_MODES says of the SVID at idx: an answer that comes late is
\* written behind the last SVID, whatever mode it was asked for.
Capable(idx) ==
    IF idx <= Len(svids) THEN {svids[idx] = "DP" /\ rx.from.sink}
    ELSE {FALSE, rx.from.sink}

\* pd_dfp_enter_mode(port, 0, 0), with what is known of the modes in caps.  The
\* slot is taken even if the mode is not entered.
EnterDefault(caps) ==
    IF Len(amodes) < PD_AMODE_COUNT /\ Supported # {}
    THEN LET i == Min(Supported) IN
         /\ amodes' = Append(amodes, i)
         /\ IF MayEnter(caps, i)
            THEN /\ Queue("ENTER")
                 /\ dp_on' = FALSE /\ hi_pending' = FALSE
                 /\ hpd' = hpd /\ forgotten' = hpd
            ELSE NoVdm /\ UNCHANGED dpVars
    ELSE NoVdm /\ UNCHANGED <<amodes, dpVars>>

\* DISCOVER_MODES is acknowledged: dfp_consume_modes(), then the next SVID's
\* modes or the default mode.
ConsumeModes ==
    /\ \E capable \in Capable(Len(modes) + 1) : modes' = Append(modes, capable)
    /\ svids' = svids
    /\ IF MoreModes(Len(modes'), Len(svids))
       THEN Queue("MODES") /\ UNCHANGED <<amodes, dpVars>>
       ELSE EnterDefault(modes')

\* ENTER_MODE is acknowledged: svdm_dp_status().
EnterAcked ==
    /\ IF amodes # <<>> THEN Queue("STATUS") ELSE NoVdm
    /\ UNCHANGED <<peVars, dpVars>>

\* svdm_dp_attention().  With an IRQ the level that is reported is ignored: HPD high
\* is pulsed and ends high, HPD low stays low.
Attention ==
    CASE amodes = <<>> -> UNCHANGED dpVars
      [] amodes # <<>> /\ ~dp_on -> /\ hi_pending' = (hi_pending \/ rx.level)
                                   /\ UNCHANGED <<dp_on, hpd, forgotten>>
      [] amodes # <<>> /\ dp_on /\ rx.irq -> UNCHANGED dpVars
      [] amodes # <<>> /\ dp_on /\ ~rx.irq -> Show(TRUE, rx.level) /\ UNCHANGED hi_pending

\* The DisplayPort status: svdm_dp_attention(), svdm_dp_config().
StatusAcked ==
    /\ Attention
    /\ IF amodes # <<>> THEN Queue("CONFIG") ELSE NoVdm
    /\ UNCHANGED peVars

\* Mutant of ShowPending: the level reported with the status is forgotten.
ShowPendingNever == Show(TRUE, hpd)

ShowPending == Show(TRUE, hpd \/ hi_pending)

\* The configuration is acknowledged: svdm_dp_post_config().
ConfigAcked ==
    /\ NoVdm
    /\ IF amodes # <<>> THEN ShowPending /\ hi_pending' = hi_pending
       ELSE UNCHANGED dpVars
    /\ UNCHANGED peVars

\* pd_svdm() on a message that has no effect on the modes.
Unmoded == UNCHANGED <<peVars, dpVars>>

-----------------------------------------------------------------------------
(* The PD task: common/usb_pd_protocol.c *)

\* pd_vdm_send_state_machine(): the VDM goes out.
SendVdm ==
    /\ pc = "vdm" /\ vdm_state = "READY" /\ phase = "ready" /\ plugged
    /\ pc' = "wait"
    /\ vdm_state' = "BUSY"
    /\ request' = IF vdo = "NAK" THEN request ELSE vdo
    /\ UNCHANGED <<phase, data_role, check_identity, vdo, rx, peVars, dpVars,
                   partnerVars, boundVars, clean>>

\* pd_transmit() fails, the message having reached the partner or not.
SendFails(delivered) ==
    /\ pc = "vdm" /\ vdm_state = "READY" /\ phase = "ready"
    /\ IF plugged THEN irregular < MaxIrregular /\ irregular' = irregular + 1
       ELSE ~delivered /\ irregular' = irregular
    /\ pc' = "wait"
    /\ vdm_state' = "IDLE"
    /\ request' = IF delivered /\ vdo # "NAK" THEN vdo ELSE request
    /\ clean' = FALSE
    /\ UNCHANGED <<phase, data_role, check_identity, vdo, rx, peVars, dpVars,
                   partnerVars, busy, levels>>

\* pd_vdm_send_state_machine(): the time for an answer is over.  The partner owes
\* none, or it is late.
VdmTimeout(late) ==
    /\ pc = "vdm" /\ vdm_state = "BUSY"
    /\ IF late THEN irregular < MaxIrregular /\ irregular' = irregular + 1
       ELSE request = "none" /\ rx = None /\ irregular' = irregular
    /\ vdm_state' = "IDLE" /\ pc' = "wait"
    /\ clean' = (clean /\ ~late)
    /\ UNCHANGED <<phase, data_role, check_identity, vdo, rx, peVars, dpVars,
                   partnerVars, request, busy, levels>>

\* pd_vdm_send_state_machine(): the partner was busy long enough.
BusyOver ==
    /\ pc = "vdm" /\ vdm_state = "WAIT_RSP_BUSY"
    /\ vdm_state' = "READY" /\ pc' = "wait"
    /\ UNCHANGED <<phase, data_role, check_identity, vdo, rx, peVars, dpVars,
                   partnerVars, request, boundVars, clean>>

\* pd_vdm_send_state_machine(): nothing is sent.  Without a connection a VDM is
\* dropped.
NoSend ==
    /\ pc = "vdm" /\ ~(vdm_state = "READY" /\ phase = "ready")
    /\ pc' = "wait"
    /\ vdm_state' = IF vdm_state = "READY" /\ phase = "off" THEN "IDLE" ELSE vdm_state
    /\ UNCHANGED <<phase, data_role, check_identity, vdo, rx, peVars, dpVars,
                   partnerVars, request, boundVars, clean>>

Awaited == vdm_state = "BUSY"

\* handle_vdm_request(): of the partner's own commands all but an attention are
\* refused.
Handle ==
    CASE rx.type = "INIT" /\ rx.cmd = "ATTENTION" -> NoVdm /\ Attention /\ UNCHANGED peVars
      [] rx.type = "INIT" /\ rx.cmd # "ATTENTION" -> Queue("NAK") /\ Unmoded
      [] rx.type = "NAK" -> NoVdm /\ Unmoded
      [] rx.type = "BUSY" /\ Awaited -> vdm_state' = "WAIT_RSP_BUSY" /\ vdo' = rx.cmd /\ Unmoded
      [] rx.type = "BUSY" /\ ~Awaited -> Queue(rx.cmd) /\ Unmoded
      [] rx.type = "ACK" /\ rx.cmd = "IDENT" -> ConsumeIdentity
      [] rx.type = "ACK" /\ rx.cmd = "SVID" -> ConsumeSvids
      [] rx.type = "ACK" /\ rx.cmd = "MODES" -> ConsumeModes
      [] rx.type = "ACK" /\ rx.cmd = "ENTER" -> EnterAcked
      [] rx.type = "ACK" /\ rx.cmd = "STATUS" -> StatusAcked
      [] rx.type = "ACK" /\ rx.cmd = "CONFIG" -> ConfigAcked

\* The refusal takes the place of a VDM that has not been sent.
Overwrites ==
    rx.type = "INIT" /\ rx.cmd # "ATTENTION" /\ vdm_state \in {"READY", "WAIT_RSP_BUSY"}

\* svdm_dp_attention() keeps a high level in mind until the configuration, a low
\* one that follows it not; and it takes no new level from a report with an IRQ.
IgnoresLevel ==
    /\ rx.cmd = "ATTENTION" \/ (rx.type = "ACK" /\ rx.cmd = "STATUS")
    /\ amodes # <<>>
    /\ \/ ~dp_on /\ hi_pending /\ ~rx.level
       \/ dp_on /\ rx.irq /\ rx.level # hpd

\* A round with an incoming packet: SRC_READY sends nothing.
Receive ==
    /\ pc = "wait" /\ rx # None
    /\ pc' = "vdm" /\ rx' = None
    /\ Handle
    /\ clean' = (clean /\ ~Overwrites /\ ~IgnoresLevel)
    /\ UNCHANGED <<phase, data_role, check_identity, partnerVars, request,
                   boundVars>>

MayDiscover == phase = "ready" /\ ~Awaited /\ data_role = "DFP" /\ check_identity

\* A round without one.
Quiet ==
    /\ pc = "wait" /\ rx = None
    /\ pc' = "vdm"
    /\ IF MayDiscover THEN Queue("IDENT") /\ check_identity' = FALSE
       ELSE UNCHANGED <<vdmVars, check_identity>>
    /\ UNCHANGED <<phase, data_role, rx, peVars, dpVars, partnerVars, request,
                   boundVars, clean>>

\* To SRC_STARTUP.  In a round messages are handled before the state is.
Attach ==
    /\ phase = "off" /\ plugged /\ pc = "wait" /\ rx = None
    /\ phase' = "talking" /\ data_role' = "DFP" /\ check_identity' = TRUE
    /\ clean' = TRUE
    /\ UNCHANGED <<pc, vdmVars, rx, peVars, dpVars, partnerVars, request, boundVars>>

\* SRC_READY is reached.
Negotiated ==
    /\ phase = "talking" /\ pc = "wait" /\ rx = None /\ plugged
    /\ phase' = "ready"
    /\ UNCHANGED <<pc, data_role, check_identity, vdmVars, rx, peVars, dpVars,
                   partnerVars, request, boundVars, clean>>

\* The contract is negotiated again, or a soft reset: the modes stay.
Renegotiate ==
    /\ phase = "ready" /\ pc = "wait" /\ irregular < MaxIrregular
    /\ phase' = "talking" /\ irregular' = irregular + 1
    /\ UNCHANGED <<pc, data_role, check_identity, vdmVars, rx, peVars, dpVars,
                   partnerVars, request, busy, levels, clean>>

\* set_state() to a disconnected state, once the port sees that the cable is gone.
Disconnect ==
    /\ phase # "off" /\ ~plugged /\ pc = "wait"
    /\ phase' = "off"
    /\ ExitAll
    /\ clean' = FALSE
    /\ UNCHANGED <<pc, data_role, check_identity, vdmVars, rx, partnerVars,
                   request, boundVars>>

\* pd_execute_hard_reset(), on either side.  What is queued and what has been
\* received stays; SRC_STARTUP follows.
HardReset ==
    /\ phase # "off" /\ plugged /\ pc = "wait" /\ irregular < MaxIrregular
    /\ irregular' = irregular + 1
    /\ phase' = "talking" /\ check_identity' = TRUE
    /\ ExitAll
    /\ pmode' = "usb" /\ request' = "none"
    /\ clean' = TRUE
    /\ UNCHANGED <<pc, data_role, vdmVars, rx, partner, plugged, level, busy, levels>>

\* pd_dr_swap(): the partner asks and lgvr always agrees.
DataSwap ==
    /\ irregular < MaxIrregular
    /\ phase = "ready" /\ plugged /\ pc = "wait" /\ request = "none"
    /\ irregular' = irregular + 1
    /\ data_role' = (IF data_role = "DFP" THEN "UFP" ELSE "DFP")
    /\ check_identity' = TRUE
    /\ UNCHANGED <<phase, pc, vdmVars, rx, peVars, dpVars, partnerVars, request,
                   busy, levels, clean>>

-----------------------------------------------------------------------------
(* The partner (external).  It answers every request once. *)

PlugIn ==
    /\ ~plugged /\ phase = "off" /\ irregular < MaxIrregular
    /\ plugged' = TRUE /\ partner' \in Partners
    /\ pmode' = "usb" /\ level' = FALSE /\ request' = "none"
    /\ irregular' = irregular + 1
    /\ UNCHANGED <<taskVars, vdmVars, rx, peVars, dpVars, busy, levels, clean>>

Unplug ==
    /\ plugged
    /\ plugged' = FALSE /\ request' = "none"
    /\ UNCHANGED <<taskVars, vdmVars, rx, peVars, dpVars, partner, pmode, level,
                   boundVars, clean>>

ModeAfter(cmd) ==
    CASE cmd = "ENTER" -> "entered"
      [] cmd = "CONFIG" /\ pmode # "usb" -> "configured"
      [] OTHER -> pmode

\* Outside of its mode it refuses the commands of DisplayPort.
Understood(cmd) == cmd \in {"STATUS", "CONFIG"} => pmode # "usb"

Answer ==
    /\ plugged /\ request \in Cmds /\ rx = None
    /\ request' = "none"
    /\ \E irq \in BOOLEAN :
         /\ irq => request = "STATUS"
         /\ rx' = Report(IF Understood(request) THEN "ACK" ELSE "NAK", request, level, irq)
    /\ pmode' = ModeAfter(request)
    /\ UNCHANGED <<taskVars, vdmVars, peVars, dpVars, partner, plugged, level,
                   boundVars, clean>>

\* It is busy, which it may be during the discovery.
AnswerBusy ==
    /\ plugged /\ request \in Discovery /\ rx = None /\ busy < MaxBusy
    /\ request' = "none"
    /\ rx' = Message("BUSY", request)
    /\ busy' = busy + 1
    /\ UNCHANGED <<taskVars, vdmVars, peVars, dpVars, partnerVars, irregular,
                   levels, clean>>

\* The display comes or goes, or has an interrupt, or both: once in DisplayPort
\* mode, the partner says so.
DisplayEvent ==
    /\ plugged /\ levels < MaxLevels /\ rx = None
    /\ levels' = levels + 1
    /\ level' \in BOOLEAN
    /\ \E irq \in BOOLEAN :
         /\ level' # level \/ irq
         /\ irq => pmode # "usb"
         /\ rx' = IF pmode = "usb" THEN None ELSE Report("INIT", "ATTENTION", level', irq)
    /\ UNCHANGED <<taskVars, vdmVars, peVars, dpVars, partner, plugged, pmode,
                   request, busy, irregular, clean>>

\* A command of its own.
PartnerAsks ==
    /\ plugged /\ phase = "ready" /\ rx = None /\ irregular < MaxIrregular
    /\ irregular' = irregular + 1
    /\ rx' = Message("INIT", "IDENT")
    /\ UNCHANGED <<taskVars, vdmVars, peVars, dpVars, partnerVars, request, busy,
                   levels, clean>>

-----------------------------------------------------------------------------

Loop == SendVdm \/ (~plugged /\ SendFails(FALSE)) \/ NoSend \/ Receive \/ Quiet

Irregular ==
    \/ \E delivered \in BOOLEAN : SendFails(delivered)
    \/ VdmTimeout(TRUE) \/ Renegotiate \/ HardReset \/ DataSwap

Next ==
    \/ SendVdm \/ NoSend \/ Receive \/ Quiet \/ VdmTimeout(FALSE) \/ BusyOver
    \/ Attach \/ Negotiated \/ Disconnect
    \/ Irregular
    \/ PlugIn \/ Unplug \/ Answer \/ AnswerBusy \/ DisplayEvent \/ PartnerAsks

Spec == Init /\ [][Next]_vars

\* The PD task goes round its loop, its timeouts pass and the states in which it
\* connects, negotiates and disconnects come to an end; the partner answers.
FairSpec ==
    /\ Spec
    /\ WF_vars(Loop) /\ WF_vars(Answer)
    /\ SF_vars(VdmTimeout(FALSE)) /\ SF_vars(BusyOver)
    /\ SF_vars(Attach) /\ SF_vars(Negotiated) /\ SF_vars(Disconnect)

-----------------------------------------------------------------------------
(* Properties *)

\* HPD is high only in DisplayPort mode, configured, on a connected port: an
\* unplugged cable or a hard reset, at any step of the entry and whatever is
\* still queued or received, leaves no display behind.  The exception is a
\* display that was there when a second discovery began (NoDisplayLeft) or
\* entered the mode again.
HpdBacked == hpd /\ ~forgotten => dp_on /\ amodes # <<>> /\ phase # "off"

\* Once it has disconnected, the port shows no display.  "exiting all entered
\* modes then clearing state.  This occurs when we've disconnected".
NoDisplayLeft == phase = "off" => ~hpd

\* The port takes DisplayPort as on only if the partner has entered the mode and
\* has not been exchanged, or reset by a hard reset of either side that the port has
\* executed, since; and been configured for it, unless late
\* answers made the port enter the mode a second time.  A second discovery that
\* clears the modes in use makes an exception here, too: the hard reset that
\* follows exits none.
InStep ==
    dp_on /\ plugged /\ ~forgotten =>
        /\ pmode # "usb"
        /\ Len(amodes) = 1 => pmode = "configured"

\* The partner is a DisplayPort sink, no VDM has been lost, and the port has its
\* data role, which a hard reset does not restore.
Regular ==
    /\ plugged /\ partner.sink /\ "DP" \in ToSet(partner.svids)
    /\ clean /\ data_role = "DFP" /\ ~forgotten

\* HPD follows the display of a partner that has the mode, as long as no VDM of
\* the port is lost and no level is ignored, because it goes low while the mode is
\* being configured or is reported together with an IRQ: through discovery, busy
\* answers, interrupts, commands of the partner's own, new contracts and hard resets.
HpdFollows ==
    \A l \in BOOLEAN :
        (Regular /\ level = l) ~> (~Regular \/ level # l \/ hpd = l)

=============================================================================
