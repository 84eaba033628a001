-------------------------------- MODULE Uart --------------------------------
(***************************************************************************)
(* Buffered serial output and input: common/uart_buffering.c with the      *)
(* driver chip/stm32/uart.c, transmitting by DMA and receiving by          *)
(* interrupt, and the reading loop of console_task().                      *)
(*                                                                         *)
(* The writers are tasks that print, ordered by priority: a task goes on   *)
(* only while no task above it is printing.  Interrupts of a higher        *)
(* priority than the UART's do not print.  The UART interrupt is cut in    *)
(* two, since the hardware goes on between its looks at the flag TC.       *)
(*                                                                         *)
(* Characters are numbered as they are accepted: what is sent should be    *)
(* 1, 2, 3, ...  Nothing keeps a task from being preempted by another      *)
(* writer inside __tx_char(): overlap records that it has happened, and    *)
(* from then on the numbers are 0.                                         *)
(***************************************************************************)
EXTENDS Naturals

CONSTANTS
    Writers,        \* the priorities of the tasks that print
    TxSize, RxSize, \* CONFIG_UART_TX_BUF_SIZE and CONFIG_UART_RX_BUF_SIZE
    Strings,        \* the lengths of what they print, as sent
    MaxTx, MaxRx    \* bounds on the characters of either direction

ASSUME UartAssumption ==
    /\ Writers \subseteq Nat
    /\ TxSize \in Nat \ {0, 1} /\ RxSize \in Nat \ {0, 1}
    /\ Strings \subseteq Nat \ {0}
    /\ MaxTx \in Nat /\ MaxRx \in Nat

VARIABLES
    (* output: uart_buffering.c *)
    tx_buf, tx_buf_head, tx_buf_tail, tx_dma_in_progress,
    (* the USART, its DMA channel and its line in the interrupt controller *)
    tc, tcie,           \* transmission complete; interrupt on it enabled
    dma_from, dma_left, \* where the DMA reads, and how much is left
    pending,            \* triggered by task_trigger_irq()
    rxne, rdr,          \* a received character and its number
    irq,                \* where uart_interrupt() is
    (* the tasks that print *)
    wpc,                \* where in uart_puts() they are
    left,               \* characters of the string that are left
    tx_buf_next,        \* the local variable of __tx_char()
    flushing,           \* in uart_flush_output(): what it must see sent
    (* input *)
    rx_buf, rx_buf_head, rx_buf_tail,
    console,            \* what console_task() is doing
    wake,               \* TASK_EVENT_WAKE of the console task
    (* histories *)
    begun,              \* characters of the strings of output
    accepted, sent, strange,    \* output, and whether a wrong one was sent
    overlap,
    received, stored, read      \* input

txVars == <<tx_buf, tx_buf_head, tx_buf_tail, tx_dma_in_progress>>
usartVars == <<tc, tcie, dma_from, dma_left, pending>>
writerVars == <<wpc, left, tx_buf_next, flushing>>
rxVars == <<rxne, rdr, rx_buf, rx_buf_head, rx_buf_tail, received, stored>>
consoleVars == <<console, read>>
outVars == <<begun, accepted, sent, strange, overlap>>
vars == <<txVars, usartVars, writerVars, rxVars, consoleVars, outVars, wake, irq>>

FlagTypes ==
    /\ tc \in BOOLEAN /\ tcie \in BOOLEAN /\ pending \in BOOLEAN
    /\ rxne \in BOOLEAN /\ wake \in BOOLEAN
    /\ strange \in BOOLEAN /\ overlap \in BOOLEAN

TxTypes ==
    /\ tx_buf \in [0 .. TxSize - 1 -> Nat]
    /\ tx_buf_head \in 0 .. TxSize - 1 /\ tx_buf_tail \in 0 .. TxSize - 1
    /\ tx_dma_in_progress \in 0 .. TxSize
    /\ dma_from \in 0 .. TxSize /\ dma_left \in 0 .. TxSize
    /\ begun \in 0 .. MaxTx /\ accepted \in Nat /\ sent \in Nat

WriterTypes ==
    /\ wpc \in [Writers -> {"idle", "char", "store", "advance", "start", "flush"}]
    /\ left \in [Writers -> Nat]
    /\ tx_buf_next \in [Writers -> 0 .. TxSize - 1]
    /\ flushing \in [Writers -> Nat]

RxTypes ==
    /\ irq \in {"none", "output"}
    /\ rdr \in 0 .. MaxRx
    /\ rx_buf \in [0 .. RxSize - 1 -> 0 .. MaxRx]
    /\ rx_buf_head \in 0 .. RxSize - 1 /\ rx_buf_tail \in 0 .. RxSize - 1
    /\ console \in {"getc", "none", "wait"}
    /\ received \in 0 .. MaxRx /\ stored \in 0 .. MaxRx /\ read \in 0 .. MaxRx

TypeOK == FlagTypes /\ TxTypes /\ WriterTypes /\ RxTypes

\* After uart_init(): the transmitter is idle, TC is set.
Init ==
    /\ tx_buf = [i \in 0 .. TxSize - 1 |-> 0]
    /\ tx_buf_head = 0 /\ tx_buf_tail = 0 /\ tx_dma_in_progress = 0
    /\ tc = TRUE /\ tcie = FALSE /\ pending = FALSE
    /\ dma_from = 0 /\ dma_left = 0
    /\ rxne = FALSE /\ rdr = 0 /\ irq = "none"
    /\ wpc = [w \in Writers |-> "idle"] /\ left = [w \in Writers |-> 0]
    /\ tx_buf_next = [w \in Writers |-> 0] /\ flushing = [w \in Writers |-> 0]
    /\ rx_buf = [i \in 0 .. RxSize - 1 |-> 0]
    /\ rx_buf_head = 0 /\ rx_buf_tail = 0
    /\ console = "getc" /\ wake = FALSE
    /\ accepted = 0 /\ sent = 0 /\ begun = 0
    /\ strange = FALSE /\ overlap = FALSE
    /\ received = 0 /\ stored = 0 /\ read = 0

TX_BUF_NEXT(i) == (i + 1) % TxSize
RX_BUF_NEXT(i) == (i + 1) % RxSize

-----------------------------------------------------------------------------
(* Tasks that print *)

InTxChar(w) == wpc[w] \in {"store", "advance"}

IrqRaised == pending \/ (tc /\ tcie) \/ rxne

\* Task w may run: no interrupt is served or raised, and nobody above it is
\* printing.  A task that flushes spins, so those below it do not run either.
MayRun(w) ==
    /\ irq = "none" /\ ~IrqRaised
    /\ \A v \in Writers : v > w => wpc[v] = "idle"

Goto(w, where) == wpc' = [wpc EXCEPT ![w] = where]

\* A number, unless they are lost.
Number(lost, n) == IF lost THEN 0 ELSE n

\* uart_puts() and the like begin, for a string of n characters.
Puts(w, n) ==
    /\ MayRun(w) /\ wpc[w] = "idle"
    /\ begun + n <= MaxTx /\ begun' = begun + n
    /\ overlap' = (overlap \/ \E v \in Writers : InTxChar(v))
    /\ accepted' = Number(overlap', accepted) /\ sent' = Number(overlap', sent)
    /\ strange' = (strange /\ ~overlap')
    /\ Goto(w, "char")
    /\ left' = [left EXCEPT ![w] = n]
    /\ flushing' = [v \in Writers |-> Number(overlap', flushing[v])]
    /\ tx_buf' = [i \in DOMAIN tx_buf |-> Number(overlap', tx_buf[i])]
    /\ UNCHANGED <<tx_buf_head, tx_buf_tail, tx_dma_in_progress, usartVars,
                   tx_buf_next, rxVars, consoleVars, wake, irq>>

\* Mutant of TxFull: the slot before the tail is used as well.
TxFullNever(next) == FALSE

TxFull(next) == next = tx_buf_tail

\* __tx_char(): the next position, unless the buffer is full or all is written.
TxNext(w) ==
    /\ MayRun(w) /\ wpc[w] = "char"
    /\ LET next == TX_BUF_NEXT(tx_buf_head) IN
       IF left[w] = 0 \/ TxFull(next)
       THEN Goto(w, "start") /\ UNCHANGED tx_buf_next
       ELSE /\ Goto(w, "store")
            /\ tx_buf_next' = [tx_buf_next EXCEPT ![w] = next]
    /\ UNCHANGED <<txVars, usartVars, left, flushing, rxVars, consoleVars,
                   outVars, wake, irq>>

\* __tx_char(): the character goes where tx_buf_head is now.
TxStore(w) ==
    /\ MayRun(w) /\ wpc[w] = "store"
    /\ Goto(w, "advance")
    /\ tx_buf' = [tx_buf EXCEPT ![tx_buf_head] = Number(overlap, accepted + 1)]
    /\ UNCHANGED <<tx_buf_head, tx_buf_tail, tx_dma_in_progress, usartVars, left,
                   tx_buf_next, flushing, rxVars, consoleVars, outVars, wake, irq>>

\* __tx_char(): tx_buf_head follows, and the caller takes it as accepted.
TxAdvance(w) ==
    /\ MayRun(w) /\ wpc[w] = "advance"
    /\ Goto(w, "char")
    /\ tx_buf_head' = tx_buf_next[w]
    /\ tx_buf_next' = [tx_buf_next EXCEPT ![w] = 0]
    /\ left' = [left EXCEPT ![w] = @ - 1]
    /\ accepted' = Number(overlap, accepted + 1)
    /\ UNCHANGED <<tx_buf, tx_buf_tail, tx_dma_in_progress, usartVars, flushing,
                   rxVars, consoleVars, begun, sent, strange, overlap, wake, irq>>

\* uart_tx_start().
TxKick ==
    IF tcie THEN UNCHANGED <<tcie, pending>>
    ELSE tcie' = TRUE /\ pending' = TRUE

\* The end of uart_puts(), with uart_tx_start().
TxStart(w) ==
    /\ MayRun(w) /\ wpc[w] = "start"
    /\ TxKick
    /\ Goto(w, "idle")
    /\ left' = [left EXCEPT ![w] = 0]
    /\ UNCHANGED <<txVars, tc, dma_from, dma_left, tx_buf_next, flushing, rxVars,
                   consoleVars, outVars, wake, irq>>

\* uart_flush_output() of a task.
Flush(w) ==
    /\ MayRun(w) /\ wpc[w] = "idle"
    /\ tx_buf_head # tx_buf_tail
    /\ Goto(w, "flush")
    /\ flushing' = [flushing EXCEPT ![w] = accepted]
    /\ UNCHANGED <<txVars, usartVars, left, tx_buf_next, rxVars, consoleVars,
                   outVars, wake, irq>>

\* A round of its loop.
FlushAgain(w) ==
    /\ MayRun(w) /\ wpc[w] = "flush" /\ tx_buf_head # tx_buf_tail
    /\ TxKick
    /\ UNCHANGED <<txVars, tc, dma_from, dma_left, writerVars, rxVars,
                   consoleVars, outVars, wake, irq>>

FlushDone(w) ==
    /\ MayRun(w) /\ wpc[w] = "flush" /\ tx_buf_head = tx_buf_tail
    /\ Goto(w, "idle")
    /\ flushing' = [flushing EXCEPT ![w] = 0]
    /\ UNCHANGED <<txVars, usartVars, left, tx_buf_next, rxVars, consoleVars,
                   outVars, wake, irq>>

-----------------------------------------------------------------------------
(* The hardware (external) *)

\* The DMA hands a character to the transmitter.
DmaByte ==
    /\ dma_left > 0
    /\ dma_left' = dma_left - 1 /\ dma_from' = dma_from + 1
    /\ strange' = (strange \/ tx_buf[dma_from] # Number(overlap, sent + 1))
    /\ sent' = Number(overlap, sent + 1)
    /\ UNCHANGED <<txVars, tc, tcie, pending, writerVars, rxVars, consoleVars,
                   begun, accepted, overlap, wake, irq>>

\* The last character has left.
TxComplete ==
    /\ ~tc /\ dma_left = 0
    /\ tc' = TRUE
    /\ UNCHANGED <<txVars, tcie, dma_from, dma_left, pending, writerVars, rxVars,
                   consoleVars, outVars, wake, irq>>

\* A character comes in.  The interrupt is served before the next one.
RxByte ==
    /\ ~rxne /\ received < MaxRx
    /\ rxne' = TRUE /\ rdr' = received + 1
    /\ received' = received + 1
    /\ UNCHANGED <<txVars, usartVars, writerVars, rx_buf, rx_buf_head,
                   rx_buf_tail, stored, consoleVars, outVars, wake, irq>>

-----------------------------------------------------------------------------
(* uart_interrupt() *)

\* Mutant of RxFull: the oldest character is overwritten.
RxFullNever(next) == FALSE

RxFull(next) == next = rx_buf_tail

\* Mutant of Woken: only a console that waits is woken.
WokenIfWaiting == wake \/ console = "wait"

\* console_has_input().
Woken == TRUE

\* uart_process_input(): a full buffer drops the character.  What a slot held
\* when it is free is never read: 0 here.
ProcessInput ==
    IF rxne
    THEN /\ rxne' = FALSE /\ rdr' = 0
         /\ LET next == RX_BUF_NEXT(rx_buf_head) IN
            IF ~RxFull(next)
            THEN /\ rx_buf' = [rx_buf EXCEPT ![rx_buf_head] = rdr]
                 /\ rx_buf_head' = next
                 /\ stored' = rdr
                 /\ wake' = Woken
            ELSE UNCHANGED <<rx_buf, rx_buf_head, stored, wake>>
         /\ UNCHANGED <<rx_buf_tail, received>>
    ELSE UNCHANGED <<rxVars, wake>>

IrqInput ==
    /\ irq = "none" /\ IrqRaised
    /\ irq' = "output"
    /\ pending' = FALSE
    /\ tcie' = (tcie /\ ~tc)
    /\ ProcessInput
    /\ UNCHANGED <<txVars, tc, dma_from, dma_left, writerVars, consoleVars,
                   outVars>>

\* The largest contiguous block of output.
DmaLength(tail) == (IF tx_buf_head > tail THEN tx_buf_head ELSE TxSize) - tail

\* Mutant of TxDmaReady: the block counts as sent when it was handed over.
TxDmaReadyAlways == TRUE

TxDmaReady == tc

\* Mutant of DmaTcie: the interrupt stays as uart_interrupt() left it.
DmaTcieAsIs == tcie

\* uart_tx_dma_start() enables the interrupt.
DmaTcie == TRUE

\* uart_process_output(): free what was sent, then stop or send the next block.
IrqOutput ==
    /\ irq = "output"
    /\ irq' = "none"
    /\ IF TxDmaReady
       THEN LET tail == (tx_buf_tail + tx_dma_in_progress) % TxSize IN
            /\ tx_buf_tail' = tail
            /\ IF tx_buf_head = tail
               THEN /\ tx_dma_in_progress' = 0
                    /\ tcie' = FALSE
                    /\ UNCHANGED <<tc, dma_from, dma_left>>
               ELSE /\ tx_dma_in_progress' = DmaLength(tail)
                    /\ dma_from' = tail /\ dma_left' = DmaLength(tail)
                    /\ tc' = FALSE /\ tcie' = DmaTcie
       ELSE UNCHANGED <<tx_buf_tail, tx_dma_in_progress, tc, tcie, dma_from,
                        dma_left>>
    /\ UNCHANGED <<tx_buf, tx_buf_head, pending, writerVars, rxVars, consoleVars,
                   outVars, wake>>

-----------------------------------------------------------------------------
(* console_task(): the lowest priority of the tasks that are modelled *)

ConsoleRuns == irq = "none" /\ ~IrqRaised /\ \A w \in Writers : wpc[w] = "idle"

\* uart_getc() has a character for console_handle_char().
Getc ==
    /\ ConsoleRuns /\ console = "getc" /\ rx_buf_tail # rx_buf_head
    /\ read' = rx_buf[rx_buf_tail]
    /\ rx_buf' = [rx_buf EXCEPT ![rx_buf_tail] = 0]
    /\ rx_buf_tail' = RX_BUF_NEXT(rx_buf_tail)
    /\ UNCHANGED <<txVars, usartVars, writerVars, rxne, rdr, rx_buf_head,
                   received, stored, console, outVars, wake, irq>>

\* uart_getc() has none.
GetcNone ==
    /\ ConsoleRuns /\ console = "getc" /\ rx_buf_tail = rx_buf_head
    /\ console' = "none"
    /\ UNCHANGED <<txVars, usartVars, writerVars, rxVars, read, outVars, wake, irq>>

\* task_wait_event(-1), which may have to return at once.
ConsoleWaits ==
    /\ ConsoleRuns /\ console = "none"
    /\ console' = "wait"
    /\ UNCHANGED <<txVars, usartVars, writerVars, rxVars, read, outVars, wake, irq>>

\* The wait returns; the events are read and cleared in one step.
ConsoleWakes ==
    /\ ConsoleRuns /\ console = "wait" /\ wake
    /\ console' = "getc"
    /\ wake' = FALSE
    /\ UNCHANGED <<txVars, usartVars, writerVars, rxVars, read, outVars, irq>>

-----------------------------------------------------------------------------

Writing(w) ==
    \/ TxNext(w) \/ TxStore(w) \/ TxAdvance(w) \/ TxStart(w)
    \/ FlushAgain(w) \/ FlushDone(w)

Console == Getc \/ GetcNone \/ ConsoleWaits \/ ConsoleWakes

Next ==
    \/ \E w \in Writers : (\E n \in Strings : Puts(w, n)) \/ Flush(w) \/ Writing(w)
    \/ DmaByte \/ TxComplete \/ RxByte
    \/ IrqInput \/ IrqOutput
    \/ Console

Spec == Init /\ [][Next]_vars

\* What the CPU does: the interrupt first, then the task of highest priority.
Cpu == IrqInput \/ IrqOutput \/ (\E w \in Writers : Writing(w)) \/ Console

\* The CPU goes on, and so does the transmitter.
FairSpec == Spec /\ WF_vars(Cpu) /\ WF_vars(DmaByte \/ TxComplete)

-----------------------------------------------------------------------------
(* Properties *)

\* What __tx_char() accepts is sent once and in order, unless two of its calls
\* have overlapped: the DMA never hands over another character than the next one,
\* across wraps of the buffer, new output during a transfer and preemptions.
SentInOrder == ~overlap => ~strange /\ sent <= accepted

\* Once nobody prints any more, the buffer runs empty, in spite of overlaps, and
\* without them all that was accepted has left: no start of the transmitter gets
\* lost, whether uart_tx_start() finds the interrupt enabled, a transfer running
\* or just completed.
AllSent ==
    <>[](\A w \in Writers : wpc[w] = "idle") =>
        <>[](tx_buf_head = tx_buf_tail /\ sent = accepted)

\* uart_flush_output() returns only when all output that was accepted before the
\* call has been transmitted.  It says nothing once two writers have overlapped:
\* the numbers it compares are 0 from then on.
FlushWaits ==
    [][\A w \in Writers :
         wpc[w] = "flush" /\ wpc'[w] = "idle" => sent >= flushing[w]]_vars

\* The console does not sleep on input: while it waits and was not woken, the
\* receive buffer is empty.
InputWakes == console = "wait" /\ ~wake => rx_buf_tail = rx_buf_head

\* Every character that was stored gets to console_handle_char(), though more
\* come in while it reads.
InputHandled == \A n \in 1 .. MaxRx : stored = n ~> read = n

\* "If the buffer overflows, the oldest input in the buffer is discarded to make
\* room for the new input" (include/uart.h): a character that uart_interrupt() takes
\* from the receiver is stored.  Refuted: ProcessInput drops it.
NewInputKept == [][rxne /\ ~rxne' => stored' = rdr]_vars

=============================================================================
