--------------------------- MODULE AltModeProofs ----------------------------
(* Proofs about the DisplayPort mode, for any partners, any number of slots    *)
(* for modes and any number of irregular events.                               *)
EXTENDS AltMode, SequenceTheorems, WellFoundedInduction, TLAPS

-----------------------------------------------------------------------------
(* The inductive invariant *)

Queued(cmds) == vdm_state = "READY" /\ vdo \in cmds

Acked(cmds) == rx.type = "ACK" /\ rx.cmd \in cmds

\* The partner owes no answer to a port that is not connected.
SilentInv == ~plugged \/ phase = "off" => request = "none"

\* A disconnected port has no mode, and of an old connection's answers it can
\* still receive one: not enough to find SVIDs and their modes.
OffInv == phase = "off" => amodes = <<>> /\ (svids = <<>> \/ rx.type # "ACK")

\* What is sent again after the partner was busy belongs to the discovery.
BusyInv == vdm_state = "WAIT_RSP_BUSY" => vdo \in Discovery

\* A command of the entry that is queued without a mode comes from before a hard
\* reset or a disconnection, and goes out or is replaced before the discovery
\* finds an SVID.
QueueInv ==
    amodes = <<>> /\ Queued(Entry) =>
        /\ request = "none" /\ svids = <<>>
        /\ rx.type = "ACK" => pc = "wait" /\ modes = <<>>

\* So is one that the partner has to answer: it is answered or replaced.
RequestInv ==
    amodes = <<>> /\ request \in Entry => svids = <<>> /\ ~Acked({"SVID"})

\* With the mode entered once, its entry is at one stage of one of the commands,
\* or over.
StageInv ==
    Len(amodes) = 1 =>
        /\ Queued(Entry) => request \notin Entry /\ ~Acked(Entry) /\ ~dp_on
        /\ request \in Entry => ~Acked(Entry) /\ ~dp_on
        /\ Acked(Entry) => ~dp_on

\* DisplayPort is on in a mode.
KnownInv == dp_on /\ ~forgotten => amodes # <<>>

\* The configuration that is acknowledged is that of this partner.
AckInv ==
    plugged /\ amodes # <<>> /\ Acked({"CONFIG"}) =>
        /\ pmode # "usb"
        /\ Len(amodes) = 1 => pmode = "configured"

EntryInv == SilentInv /\ OffInv /\ BusyInv /\ QueueInv /\ RequestInv /\ StageInv

DisplayInv == KnownInv /\ AckInv /\ HpdBacked /\ InStep

AltInv == EntryInv /\ DisplayInv

-----------------------------------------------------------------------------
(* Types *)

\* A set of natural numbers has a least element.
LEMMA LeastExists ==
    ASSUME NEW S \in SUBSET Nat, S # {}
    PROVE  \E x \in S : \A y \in S : x <= y
<1> DEFINE Less == {p \in Nat \X Nat : p[1] < p[2]}
<1>1. IsWellFoundedOn(Less, Nat)
  BY NatLessThanWellFounded DEF OpToRel
<1>2. PICK x \in S : \A y \in S : ~(<<y, x>> \in Less)
  BY <1>1, WFMin
<1>3. ASSUME NEW y \in S PROVE x <= y
  <2>1. x \in Nat /\ y \in Nat
    OBVIOUS
  <2>2. y < x => <<y, x>> \in Less
    BY <2>1
  <2> QED BY <1>2, <2>1, <2>2
<1> QED BY <1>3

\* allocate_mode() takes the first SVID that is supported.
LEMMA FirstSupported ==
    ASSUME svids \in Seq(STRING), Supported # {}
    PROVE  Min(Supported) \in 1 .. Len(svids)
<1>1. Len(svids) \in Nat /\ Supported \in SUBSET Nat /\ Supported \subseteq 1 .. Len(svids)
  BY LenProperties DEF Supported
<1>2. \E x \in Supported : \A y \in Supported : x <= y
  BY <1>1, LeastExists
<1>3. Min(Supported) \in Supported
  BY <1>2 DEF Min
<1> QED BY <1>1, <1>3

\* A message that is received has its parts.
LEMMA ReceivedParts ==
    ASSUME rx \in Received
    PROVE  /\ rx = None => rx.type = "none"
           /\ rx # None =>
                /\ rx.type \in {"INIT", "ACK", "NAK", "BUSY"}
                /\ rx.type = "INIT" => rx.cmd \in {"IDENT", "ATTENTION"}
                /\ rx.type \in {"ACK", "NAK"} => rx.cmd \in Cmds
                /\ rx.type = "BUSY" => rx.cmd \in Discovery
                /\ rx.from.svids \in Seq(STRING) /\ rx.level \in BOOLEAN /\ rx.irq \in BOOLEAN
BY DEF Received, Messages, None, Devices

\* So has one that the partner sends.
LEMMA ReportTypes ==
    ASSUME NEW types, NEW cmds, NEW t \in types, NEW c \in cmds,
           NEW l \in BOOLEAN, NEW irq \in BOOLEAN, partner \in Devices
    PROVE  Report(t, c, l, irq) \in Messages(types, cmds)
BY DEF Report, Messages

\* svdm_dp_attention() leaves the mode as it is, and sets HPD only in it.
LEMMA AttentionCases ==
    ASSUME Attention, dp_on \in BOOLEAN, rx.irq \in BOOLEAN, rx.level \in BOOLEAN,
           hpd \in BOOLEAN, forgotten \in BOOLEAN, hi_pending \in BOOLEAN
    PROVE  \/ UNCHANGED <<dp_on, hpd, forgotten>> /\ hi_pending' \in BOOLEAN
           \/ /\ amodes # <<>> /\ dp_on /\ dp_on' = TRUE /\ hpd' \in BOOLEAN
              /\ forgotten' = forgotten /\ hi_pending' \in BOOLEAN
<1>1. CASE amodes = <<>>
  BY <1>1 DEF Attention, dpVars
<1>2. CASE amodes # <<>> /\ ~dp_on
  BY <1>2 DEF Attention
<1>3. CASE amodes # <<>> /\ dp_on /\ rx.irq
  BY <1>3 DEF Attention, dpVars
<1>4. CASE amodes # <<>> /\ dp_on /\ ~rx.irq
  BY <1>4 DEF Attention, Show
<1> QED BY <1>1, <1>2, <1>3, <1>4

\* handle_vdm_request() does one of these things.
Handled ==
    \/ rx.type \in {"INIT", "NAK", "BUSY"} /\ UNCHANGED peVars
         /\ \/ NoVdm
            \/ Queue("NAK")
            \/ rx.type = "BUSY" /\ rx.cmd \in Discovery /\ vdo' = rx.cmd
                 /\ vdm_state' = (IF Awaited THEN "WAIT_RSP_BUSY" ELSE "READY")
         /\ (Attention \/ UNCHANGED dpVars)
    \/ Acked({"IDENT"}) /\ ConsumeIdentity
    \/ Acked({"SVID"}) /\ ConsumeSvids
    \/ Acked({"MODES"}) /\ ConsumeModes
    \/ Acked({"ENTER"}) /\ EnterAcked
    \/ Acked({"STATUS"}) /\ StatusAcked
    \/ Acked({"CONFIG"}) /\ ConfigAcked

LEMMA HandleCases ==
    ASSUME rx \in Received, rx # None, Handle
    PROVE  Handled
<1> DEFINE t == rx.type
           c == rx.cmd
<1>1. /\ t \in {"INIT", "ACK", "NAK", "BUSY"}
      /\ t = "INIT" => c \in {"IDENT", "ATTENTION"}
      /\ t \in {"ACK", "NAK"} => c \in Cmds
      /\ t = "BUSY" => c \in Discovery
  BY ReceivedParts
<1>2. CASE t = "INIT"
  BY <1>1, <1>2, Zenon DEF Handle, Handled, Unmoded
<1>3. CASE t = "NAK"
  BY <1>1, <1>3 DEF Handle, Handled, Unmoded
<1>4. CASE t = "BUSY"
  BY <1>1, <1>4 DEF Handle, Handled, Unmoded, Queue
<1>5. CASE t = "ACK"
  BY <1>1, <1>5 DEF Handle, Handled, Acked, Cmds, Discovery, Entry
<1> QED BY <1>1, <1>2, <1>3, <1>4, <1>5

\* What pd_dfp_enter_mode() does: nothing, or it takes a slot.
LEMMA EnterCases ==
    ASSUME TypeOK, NEW caps, EnterDefault(caps)
    PROVE  \/ amodes' = amodes /\ NoVdm /\ UNCHANGED dpVars
           \/ /\ svids # <<>>
              /\ amodes' \in Seq(1 .. Len(svids)) /\ Len(amodes') = Len(amodes) + 1
              /\ Len(amodes') <= PD_AMODE_COUNT
              /\ \/ NoVdm /\ UNCHANGED dpVars
                 \/ /\ Queue("ENTER") /\ dp_on' = FALSE /\ hi_pending' = FALSE
                    /\ hpd' = hpd /\ forgotten' = hpd
<1>1. CASE Len(amodes) < PD_AMODE_COUNT /\ Supported # {}
  <2>1. Min(Supported) \in 1 .. Len(svids)
    BY <1>1, FirstSupported DEF TypeOK, ModeTypes
  <2> DEFINE i == Min(Supported)
  <2>2. /\ amodes' = Append(amodes, i)
        /\ \/ NoVdm /\ UNCHANGED dpVars
           \/ /\ Queue("ENTER") /\ dp_on' = FALSE /\ hi_pending' = FALSE
              /\ hpd' = hpd /\ forgotten' = hpd
    BY <1>1 DEF EnterDefault
  <2> HIDE DEF i
  <2>3. amodes' \in Seq(1 .. Len(svids)) /\ Len(amodes') = Len(amodes) + 1
    BY <2>1, <2>2 DEF TypeOK, ModeTypes, i
  <2>4. svids # <<>>
    BY <2>1
  <2>5. Len(amodes) \in Nat
    BY LenProperties DEF TypeOK, ModeTypes
  <2>6. Len(amodes') <= PD_AMODE_COUNT
    BY <1>1, <2>3, <2>5, AltModeAssumption
  <2> QED BY <2>2, <2>3, <2>4, <2>6
<1>2. CASE ~(Len(amodes) < PD_AMODE_COUNT /\ Supported # {})
  BY <1>2 DEF EnterDefault, dpVars
<1> QED BY <1>1, <1>2

\* What dfp_consume_svids() takes of an answer is a part of it.
LEMMA RoomFor ==
    ASSUME svids \in Seq(STRING), rx.from.svids \in Seq(STRING)
    PROVE  SubSeq(rx.from.svids, 1, Room) \in Seq(STRING)
<1> DEFINE from == rx.from.svids
           free == SVID_DISCOVERY_MAX - Len(svids)
<1>1. Len(svids) \in Nat /\ Len(from) \in Nat
  BY LenProperties
<1>2. Room \in 0 .. Len(from)
  BY <1>1, AltModeAssumption DEF Room
<1>3. \A i \in 1 .. Room : from[i] \in STRING
  BY <1>1, <1>2, ElementOfSeq
<1> QED BY <1>1, <1>2, <1>3, SubSeqProperties

\* pd_dfp_pe_init().
LEMMA EmptyTypes ==
    /\ <<>> \in Seq(STRING) /\ <<>> \in Seq(BOOLEAN) /\ <<>> \in Seq(1 .. Len(<<>>))
    /\ Len(<<>>) <= PD_AMODE_COUNT
  BY AltModeAssumption, EmptySeq

\* The type invariant is inductive.
LEMMA TypeStep ==
    ASSUME TypeOK, [Next]_vars
    PROVE  TypeOK'
<1>1. TaskTypes' /\ PartnerTypes'
  <2> USE DEF TypeOK, TaskTypes, PartnerTypes
  <2>1. CASE SendVdm \/ (\E delivered \in BOOLEAN : SendFails(delivered))
    BY <2>1 DEF SendVdm, SendFails, partnerVars
  <2>2. CASE VdmTimeout(TRUE) \/ VdmTimeout(FALSE) \/ BusyOver \/ NoSend
    BY <2>2 DEF VdmTimeout, BusyOver, NoSend, partnerVars
  <2>3. CASE Receive \/ Quiet
    BY <2>3 DEF Receive, Quiet, partnerVars
  <2>4. CASE Attach \/ Negotiated \/ Renegotiate \/ DataSwap
    BY <2>4 DEF Attach, Negotiated, Renegotiate, DataSwap, partnerVars
  <2>5. CASE Disconnect \/ HardReset
    BY <2>5 DEF Disconnect, HardReset, partnerVars
  <2>6. CASE PlugIn \/ Unplug
    BY <2>6, AltModeAssumption DEF PlugIn, Unplug, taskVars
  <2>7. CASE Answer
    BY <2>7 DEF Answer, ModeAfter, taskVars
  <2>8. CASE AnswerBusy \/ DisplayEvent \/ PartnerAsks
    BY <2>8 DEF AnswerBusy, DisplayEvent, PartnerAsks, taskVars, partnerVars
  <2>9. CASE UNCHANGED vars
    BY <2>9 DEF vars, taskVars, partnerVars
  <2> QED BY <2>1, <2>2, <2>3, <2>4, <2>5, <2>6, <2>7, <2>8, <2>9 DEF Next, Irregular
<1>2. CASE Receive
  <2> SUFFICES VdmTypes' /\ ModeTypes' /\ DisplayTypes'
    BY <1>1 DEF TypeOK
  <2>1. rx \in Received /\ rx # None /\ Handle
    BY <1>2 DEF Receive, TypeOK, VdmTypes
  <2>2. Handled
    BY <2>1, HandleCases
  <2>3. rx.from.svids \in Seq(STRING) /\ rx.level \in BOOLEAN
    BY <2>1, ReceivedParts
  <2>4. rx' \in Received /\ request' \in Cmds \cup {"none"}
    BY <1>2 DEF Receive, TypeOK, VdmTypes, Received, None
  <2> USE DEF TypeOK, VdmTypes, ModeTypes, DisplayTypes
  <2>5. CASE rx.type \in {"INIT", "NAK", "BUSY"}
    BY <2>2, <2>3, <2>4, <2>5 DEF Handled, Acked, NoVdm, Queue, Attention, Show, peVars, dpVars, Cmds
  <2>6. CASE Acked({"IDENT"}) /\ ConsumeIdentity
    BY <2>4, <2>6, EmptyTypes DEF ConsumeIdentity, PeInit, Queue, Cmds, Discovery
  <2>7. CASE Acked({"SVID"}) /\ ConsumeSvids
    <3>1. svids' \in Seq(STRING) /\ Len(svids) \in Nat /\ Len(svids') \in Nat /\ Len(svids) <= Len(svids')
      <4>1. SubSeq(rx.from.svids, 1, Room) \in Seq(STRING)
        BY <2>3, RoomFor
      <4> QED BY <2>7, <4>1, ConcatProperties, LenProperties DEF ConsumeSvids
    <3>2. amodes \in Seq(1 .. Len(svids'))
      <4>1. 1 .. Len(svids) \subseteq 1 .. Len(svids')
        BY <3>1
      <4> QED BY <4>1, SeqMonotonic
    <3> QED BY <2>4, <2>7, <3>1, <3>2 DEF ConsumeSvids, NoVdm, Queue, Cmds, Discovery, dpVars
  <2>8. CASE Acked({"MODES"}) /\ ConsumeModes
    <3>1. modes' \in Seq(BOOLEAN) /\ svids' = svids
      <4>1. PICK capable \in Capable(Len(modes) + 1) : modes' = Append(modes, capable)
        BY <2>8 DEF ConsumeModes
      <4>2. capable \in BOOLEAN
        <5>1. rx.from.sink \in BOOLEAN
          BY <2>1 DEF Received, Messages, None, Devices
        <5> QED BY <4>1, <5>1 DEF Capable
      <4> QED BY <2>8, <4>1, <4>2 DEF ConsumeModes
    <3>2. CASE Queue("MODES") /\ UNCHANGED <<amodes, dpVars>>
      BY <2>4, <3>1, <3>2 DEF Queue, Cmds, Discovery, dpVars
    <3>3. CASE EnterDefault(modes')
      <4>1. /\ amodes' \in Seq(1 .. Len(svids)) /\ Len(amodes') <= PD_AMODE_COUNT
            /\ \/ NoVdm /\ UNCHANGED dpVars
               \/ /\ Queue("ENTER") /\ dp_on' = FALSE /\ hi_pending' = FALSE
                  /\ hpd' = hpd /\ forgotten' = hpd
        BY <3>3, EnterCases
      <4> QED BY <2>4, <3>1, <4>1 DEF NoVdm, Queue, Cmds, Entry, dpVars
    <3> QED BY <2>8, <3>2, <3>3 DEF ConsumeModes
  <2>9. CASE Acked({"ENTER"}) /\ EnterAcked
    BY <2>4, <2>9 DEF EnterAcked, NoVdm, Queue, Cmds, Entry, peVars, dpVars
  <2>10. CASE Acked({"STATUS"}) /\ StatusAcked
    BY <2>3, <2>4, <2>10 DEF StatusAcked, Attention, Show, NoVdm, Queue, Cmds, Entry, peVars, dpVars
  <2>11. CASE Acked({"CONFIG"}) /\ ConfigAcked
    BY <2>4, <2>11 DEF ConfigAcked, ShowPending, Show, NoVdm, peVars, dpVars
  <2> QED BY <2>2, <2>5, <2>6, <2>7, <2>8, <2>9, <2>10, <2>11 DEF Handled
<1>3. CASE Disconnect \/ HardReset
  <2> USE DEF TypeOK, VdmTypes, ModeTypes, DisplayTypes
  <2>1. ExitAll /\ UNCHANGED <<vdmVars, rx>> /\ request' \in {request, "none"}
    BY <1>3 DEF Disconnect, HardReset
  <2>2. VdmTypes' /\ DisplayTypes'
    BY <2>1 DEF ExitAll, Exit, Show, vdmVars, dpVars
  <2>3. ModeTypes'
    BY <2>1, EmptyTypes DEF ExitAll, PeInit
  <2> QED BY <1>1, <2>2, <2>3
<1>4. CASE UNCHANGED <<peVars, dpVars>>
  <2>1. ModeTypes' /\ DisplayTypes'
    BY <1>4 DEF TypeOK, ModeTypes, DisplayTypes, peVars, dpVars
  <2>2. VdmTypes'
    <3> USE DEF TypeOK, VdmTypes
    <3>1. CASE SendVdm \/ (\E delivered \in BOOLEAN : SendFails(delivered))
      BY <3>1 DEF SendVdm, SendFails
    <3>2. CASE VdmTimeout(TRUE) \/ VdmTimeout(FALSE) \/ BusyOver \/ NoSend
      BY <3>2 DEF VdmTimeout, BusyOver, NoSend
    <3>3. CASE Quiet
      BY <3>3 DEF Quiet, Queue, Cmds, Discovery, vdmVars
    <3>4. CASE Attach \/ Negotiated \/ Renegotiate \/ DataSwap
      BY <3>4 DEF Attach, Negotiated, Renegotiate, DataSwap, vdmVars
    <3>5. CASE PlugIn \/ Unplug
      BY <3>5 DEF PlugIn, Unplug, vdmVars
    <3>6. CASE Answer \/ AnswerBusy \/ DisplayEvent \/ PartnerAsks
      <4>1. partner \in Devices /\ level \in BOOLEAN
        BY DEF PartnerTypes
      <4>2. rx' \in Received
        <5> USE DEF Received
        <5>1. CASE Answer
          <6>1. PICK irq \in BOOLEAN :
                  rx' = Report(IF Understood(request) THEN "ACK" ELSE "NAK", request, level, irq)
            BY <5>1 DEF Answer
          <6>2. request \in Cmds /\ level \in BOOLEAN
            BY <5>1 DEF Answer, PartnerTypes
          <6>3. rx' \in Messages({"ACK", "NAK"}, Cmds)
            BY <4>1, <6>1, <6>2, ReportTypes
          <6> QED BY <6>3
        <5>2. CASE AnswerBusy
          <6>1. rx' \in Messages({"BUSY"}, Discovery)
            BY <4>1, <5>2, ReportTypes DEF AnswerBusy, Message
          <6> QED BY <6>1
        <5>3. CASE DisplayEvent
          <6>1. rx' = None \/ rx' \in Messages({"INIT"}, {"IDENT", "ATTENTION"})
            BY <4>1, <5>3, ReportTypes DEF DisplayEvent
          <6> QED BY <6>1
        <5>4. CASE PartnerAsks
          <6>1. rx' \in Messages({"INIT"}, {"IDENT", "ATTENTION"})
            BY <4>1, <5>4, ReportTypes DEF PartnerAsks, Message
          <6> QED BY <6>1
        <5> QED BY <3>6, <5>1, <5>2, <5>3, <5>4
      <4> QED BY <3>6, <4>2 DEF Answer, AnswerBusy, DisplayEvent, PartnerAsks, vdmVars
    <3>7. CASE UNCHANGED vars
      BY <3>7 DEF vars, vdmVars
    <3> QED BY <1>2, <1>3, <3>1, <3>2, <3>3, <3>4, <3>5, <3>6, <3>7 DEF Next, Irregular
  <2> QED BY <1>1, <2>1, <2>2 DEF TypeOK
<1>5. Receive \/ Disconnect \/ HardReset \/ UNCHANGED <<peVars, dpVars>>
  BY DEF Next, Irregular, SendVdm, SendFails, VdmTimeout, BusyOver, NoSend, Quiet, Attach,
      Negotiated, Renegotiate, DataSwap, PlugIn, Unplug, Answer, AnswerBusy, DisplayEvent,
      PartnerAsks, vars
<1> QED BY <1>2, <1>3, <1>4, <1>5

\* allocate_mode() stays within pe.amodes, and every slot in use refers to an SVID
\* that is known: TypeOK, for any partners and any number of slots.
THEOREM TypeCorrect == Spec => []TypeOK
<1>1. Init => TypeOK
  <2> SUFFICES ASSUME Init PROVE TypeOK
    OBVIOUS
  <2>1. ModeTypes
    BY EmptyTypes DEF Init, ModeTypes
  <2>2. TaskTypes /\ DisplayTypes
    BY DEF Init, TaskTypes, DisplayTypes
  <2>3. VdmTypes
    BY DEF Init, VdmTypes, Received
  <2>4. PartnerTypes
    BY AltModeAssumption DEF Init, PartnerTypes
  <2> QED BY <2>1, <2>2, <2>3, <2>4 DEF TypeOK
<1>2. TypeOK /\ [Next]_vars => TypeOK'
  BY TypeStep
<1> QED BY <1>1, <1>2, PTL DEF Spec

-----------------------------------------------------------------------------
(* The entry into the mode *)

\* A sequence of slots is empty or has a length.
LEMMA SlotCount ==
    ASSUME TypeOK
    PROVE  /\ Len(amodes) \in Nat /\ Len(svids) \in Nat
           /\ amodes = <<>> <=> Len(amodes) = 0
           /\ svids = <<>> <=> Len(svids) = 0
  BY LenProperties, EmptySeq DEF TypeOK, ModeTypes

\* The messages that come in, by kind.
LEMMA RxKinds ==
    ASSUME TypeOK
    PROVE  /\ rx = None => rx.type = "none"
           /\ rx # None => rx.type \in {"INIT", "ACK", "NAK", "BUSY"}
  BY ReceivedParts DEF TypeOK, VdmTypes

\* Every step but that which handles a message keeps the invariant.
LEMMA QuietStep ==
    ASSUME TypeOK, AltInv, [Next]_vars, ~Receive
    PROVE  AltInv'
<1>0. /\ Len(amodes) \in Nat /\ amodes = <<>> <=> Len(amodes) = 0
      /\ rx = None => rx.type = "none"
  BY SlotCount, RxKinds
<1> USE <1>0 DEF TypeOK, TaskTypes, VdmTypes, DisplayTypes, PartnerTypes, AltInv, EntryInv,
    DisplayInv, SilentInv, OffInv, BusyInv, QueueInv, RequestInv, StageInv, KnownInv, AckInv,
    HpdBacked, InStep, Queued, Acked
<1>1. CASE SendVdm
  BY <1>1 DEF SendVdm, peVars, dpVars, partnerVars
<1>2. CASE \E delivered \in BOOLEAN : SendFails(delivered)
  BY <1>2 DEF SendFails, peVars, dpVars, partnerVars
<1>3. CASE VdmTimeout(TRUE) \/ VdmTimeout(FALSE)
  BY <1>3 DEF VdmTimeout, peVars, dpVars, partnerVars
<1>4. CASE BusyOver
  BY <1>4 DEF BusyOver, peVars, dpVars, partnerVars, Discovery, Entry
<1>5. CASE NoSend
  BY <1>5 DEF NoSend, peVars, dpVars, partnerVars
<1>6. CASE Quiet
  BY <1>6 DEF Quiet, MayDiscover, Queue, Entry, vdmVars, peVars, dpVars, partnerVars
<1>7. CASE Attach \/ Negotiated
  BY <1>7 DEF Attach, Negotiated, vdmVars, peVars, dpVars, partnerVars
<1>8. CASE Renegotiate \/ DataSwap
  BY <1>8 DEF Renegotiate, DataSwap, vdmVars, peVars, dpVars, partnerVars
<1>9. CASE Disconnect \/ HardReset
  <2>1. svids' = <<>> /\ modes' = <<>> /\ amodes' = <<>> /\ Len(amodes') = 0
    BY <1>9 DEF Disconnect, HardReset, ExitAll, PeInit
  <2>2. \/ amodes = <<>> /\ UNCHANGED dpVars
        \/ ~dp_on' /\ ~hpd'
    BY <1>9 DEF Disconnect, HardReset, ExitAll, Exit, Show
  <2>3. EntryInv'
    <3>1. UNCHANGED <<vdm_state, vdo, rx, pc>> /\ pc = "wait" /\ request' = "none"
      BY <1>9 DEF Disconnect, HardReset, vdmVars
    <3> QED BY <2>1, <3>1 DEF Entry
  <2>4. DisplayInv'
    BY <2>1, <2>2 DEF dpVars
  <2> QED BY <2>3, <2>4
<1>10. CASE PlugIn
  BY <1>10 DEF PlugIn, taskVars, vdmVars, peVars, dpVars
<1>11. CASE Unplug
  <2>1. EntryInv'
    BY <1>11 DEF Unplug, taskVars, vdmVars, peVars, dpVars, Entry
  <2>2. DisplayInv'
    BY <1>11 DEF Unplug, taskVars, vdmVars, peVars, dpVars
  <2> QED BY <2>1, <2>2
<1>12. CASE Answer
  <2>1. /\ plugged /\ request \in Cmds /\ rx.type = "none" /\ request' = "none"
        /\ rx'.type = (IF Understood(request) THEN "ACK" ELSE "NAK") /\ rx'.cmd = request
        /\ pmode' = ModeAfter(request)
        /\ UNCHANGED <<taskVars, vdmVars, peVars, dpVars, plugged>>
    BY <1>12 DEF Answer, Report
  <2>2. EntryInv'
    BY <2>1 DEF taskVars, vdmVars, peVars, dpVars, Entry, Cmds, Discovery
  <2>3. DisplayInv'
    BY <2>1 DEF taskVars, vdmVars, peVars, dpVars, ModeAfter, Understood, Entry
  <2> QED BY <2>2, <2>3
<1>13. CASE AnswerBusy \/ PartnerAsks
  <2>1. /\ rx.type = "none" /\ rx'.type # "ACK" /\ request' \in {request, "none"}
        /\ UNCHANGED <<taskVars, vdmVars, peVars, dpVars, partnerVars>>
    BY <1>13 DEF AnswerBusy, PartnerAsks, Message, Report
  <2>2. EntryInv'
    BY <2>1 DEF taskVars, vdmVars, peVars, dpVars, partnerVars, Entry
  <2>3. DisplayInv'
    BY <2>1 DEF taskVars, vdmVars, peVars, dpVars, partnerVars
  <2> QED BY <2>2, <2>3
<1>14. CASE DisplayEvent
  BY <1>14 DEF DisplayEvent, Report, None, taskVars, vdmVars, peVars, dpVars
<1>15. CASE UNCHANGED vars
  BY <1>15 DEF vars, taskVars, vdmVars, peVars, dpVars, partnerVars
<1> QED BY <1>1, <1>2, <1>3, <1>4, <1>5, <1>6, <1>7, <1>8, <1>9, <1>10, <1>11, <1>12,
    <1>13, <1>14, <1>15 DEF Next, Irregular

\* What a message leaves as it is.
LEMMA ReceiveFrame ==
    ASSUME TypeOK, Receive
    PROVE  /\ Handled /\ rx.type # "none" /\ rx'.type = "none" /\ pc = "wait"
           /\ UNCHANGED <<phase, partnerVars, request>>
<1>1. rx \in Received /\ rx # None /\ Handle
  BY DEF Receive, TypeOK, VdmTypes
<1>2. Handled /\ rx.type # "none"
  BY <1>1, HandleCases, ReceivedParts
<1> QED BY <1>2 DEF Receive, None

\* A message that is handled keeps the invariant.
LEMMA ReceiveStep ==
    ASSUME TypeOK, AltInv, Receive
    PROVE  AltInv'
<1>1. /\ Handled /\ rx.type # "none" /\ rx'.type = "none" /\ pc = "wait"
      /\ UNCHANGED <<phase, plugged, pmode, request>>
  BY ReceiveFrame DEF partnerVars
<1>2. /\ Len(amodes) \in Nat /\ amodes = <<>> <=> Len(amodes) = 0
      /\ svids = <<>> <=> Len(svids) = 0
  BY SlotCount
<1>3. /\ vdm_state \in {"IDLE", "READY", "BUSY", "WAIT_RSP_BUSY"}
      /\ dp_on \in BOOLEAN /\ hpd \in BOOLEAN /\ forgotten \in BOOLEAN
      /\ plugged \in BOOLEAN
  BY DEF TypeOK, VdmTypes, DisplayTypes, PartnerTypes
<1>a. Attention =>
        \/ UNCHANGED <<dp_on, hpd, forgotten>>
        \/ amodes # <<>> /\ dp_on /\ dp_on' = TRUE /\ forgotten' = forgotten
  <2>1. rx.level \in BOOLEAN /\ rx.irq \in BOOLEAN
    BY <1>1, ReceivedParts DEF Receive, TypeOK, VdmTypes
  <2> QED BY <2>1, AttentionCases DEF TypeOK, DisplayTypes
<1> USE <1>1, <1>2, <1>3 DEF AltInv, EntryInv, DisplayInv, SilentInv, OffInv, BusyInv, QueueInv,
    RequestInv, StageInv, KnownInv, AckInv, HpdBacked, InStep, Queued, Acked
<1>4. CASE rx.type \in {"INIT", "NAK", "BUSY"}
  <2>1. /\ UNCHANGED peVars
        /\ \/ NoVdm
           \/ Queue("NAK")
           \/ /\ vdo' \in Discovery
              /\ vdm_state' = (IF Awaited THEN "WAIT_RSP_BUSY" ELSE "READY")
        /\ (Attention \/ UNCHANGED dpVars)
    BY <1>4 DEF Handled
  <2>2. EntryInv'
    BY <1>a, <2>1 DEF NoVdm, Queue, Awaited, Discovery, Entry, peVars, dpVars
  <2>3. DisplayInv'
    BY <1>a, <2>1 DEF peVars, dpVars
  <2> QED BY <2>2, <2>3
<1>5. CASE Acked({"IDENT"}) /\ ConsumeIdentity
  BY <1>5, EmptyTypes DEF ConsumeIdentity, PeInit, Queue, Entry
<1>6. CASE Acked({"SVID"}) /\ ConsumeSvids
  <2>1. amodes' = amodes /\ UNCHANGED dpVars
    BY <1>6 DEF ConsumeSvids
  <2>2. modes = <<>> /\ svids' # <<>> => Queue("MODES")
    <3>1. svids' \in Seq(STRING)
      BY TypeStep, <1>6 DEF Next, TypeOK, ModeTypes
    <3>2. svids' # <<>> => 0 < Len(svids')
      BY <3>1, LenProperties, EmptySeq
    <3>3. modes = <<>> => Len(modes) = 0
      OBVIOUS
    <3> QED BY <1>6, <3>2, <3>3 DEF ConsumeSvids, MoreModes
  <2>3. Queue("MODES") \/ NoVdm
    BY <1>6 DEF ConsumeSvids
  <2>4. EntryInv'
    BY <1>6, <2>1, <2>2, <2>3 DEF NoVdm, Queue, Entry, dpVars
  <2>5. DisplayInv'
    BY <2>1 DEF dpVars
  <2> QED BY <2>4, <2>5
<1>7. CASE Acked({"MODES"}) /\ ConsumeModes
  <2>1. svids' = svids
    BY <1>7 DEF ConsumeModes
  <2>2. CASE Queue("MODES") /\ UNCHANGED <<amodes, dpVars>>
    BY <2>1, <2>2 DEF Queue, Entry, dpVars
  <2>3. CASE amodes' = amodes /\ NoVdm /\ UNCHANGED dpVars
    BY <2>1, <2>3 DEF NoVdm, dpVars
  <2>4. CASE /\ svids # <<>> /\ Len(amodes') = Len(amodes) + 1 /\ amodes' # <<>>
             /\ \/ NoVdm /\ UNCHANGED dpVars
                \/ /\ Queue("ENTER") /\ dp_on' = FALSE /\ hi_pending' = FALSE
                   /\ hpd' = hpd /\ forgotten' = hpd
    <3>1. EntryInv'
      BY <1>7, <2>1, <2>4 DEF NoVdm, Queue, Entry, Discovery, dpVars
    <3>2. DisplayInv'
      BY <1>7, <2>4 DEF dpVars
    <3> QED BY <3>1, <3>2
  <2>5. CASE EnterDefault(modes')
    <3>1. amodes' = <<>> => Len(amodes') = 0
      OBVIOUS
    <3>2. \/ amodes' = amodes /\ NoVdm /\ UNCHANGED dpVars
          \/ /\ svids # <<>> /\ Len(amodes') = Len(amodes) + 1
             /\ \/ NoVdm /\ UNCHANGED dpVars
                \/ /\ Queue("ENTER") /\ dp_on' = FALSE /\ hi_pending' = FALSE
                   /\ hpd' = hpd /\ forgotten' = hpd
      BY <2>5, EnterCases
    <3>3. Len(amodes') = Len(amodes) + 1 => amodes' # <<>>
      BY <3>1
    <3> QED BY <2>3, <2>4, <3>2, <3>3
  <2> QED BY <1>7, <2>2, <2>5 DEF ConsumeModes
<1>8. CASE Acked({"ENTER"}) /\ EnterAcked
  BY <1>8 DEF EnterAcked, NoVdm, Queue, Entry, peVars, dpVars
<1>9. CASE Acked({"STATUS"}) /\ StatusAcked
  BY <1>9, <1>a DEF StatusAcked, NoVdm, Queue, Entry, peVars, dpVars
<1>10. CASE Acked({"CONFIG"}) /\ ConfigAcked
  BY <1>10 DEF ConfigAcked, ShowPending, Show, NoVdm, Entry, peVars, dpVars
<1> QED BY <1>4, <1>5, <1>6, <1>7, <1>8, <1>9, <1>10 DEF Handled

\* The invariant holds.
LEMMA AltInvariant == Spec => [](TypeOK /\ AltInv)
<1>1. Init => AltInv
  BY DEF Init, AltInv, EntryInv, DisplayInv, SilentInv, OffInv, BusyInv, QueueInv, RequestInv,
      StageInv, KnownInv, AckInv, HpdBacked, InStep, Queued, Acked, None
<1>2. TypeOK /\ AltInv /\ [Next]_vars => AltInv'
  BY QuietStep, ReceiveStep
<1> QED BY <1>1, <1>2, TypeCorrect, PTL DEF Spec

\* HPD is never left high by an unplugged cable or a hard reset, for any number of
\* late answers, failed transmissions, swaps and resets in any order.
THEOREM DisplayIsBacked == Spec => []HpdBacked
<1>1. AltInv => HpdBacked
  BY DEF AltInv, DisplayInv
<1> QED BY <1>1, AltInvariant, PTL

\* The port and the partner agree on the mode, in the same generality.
THEOREM PartnerInStep == Spec => []InStep
<1>1. AltInv => InStep
  BY DEF AltInv, DisplayInv
<1> QED BY <1>1, AltInvariant, PTL

=============================================================================
