----------------------------- MODULE UartProofs -----------------------------
(* Proofs about the serial buffers, for any buffer sizes, any set of writers  *)
(* and strings of any length.                                                 *)
EXTENDS Integers, Uart, TLAPS

\* The remainder of a position at most one turn ahead.
LEMMA ModWrap ==
    ASSUME NEW n \in Nat \ {0}, NEW x \in 0 .. n
    PROVE  x % n = IF x = n THEN 0 ELSE x
  OBVIOUS

\* TX_BUF_NEXT() and RX_BUF_NEXT() stay within their buffers.
LEMMA NextWraps ==
    /\ \A i \in 0 .. TxSize - 1 : TX_BUF_NEXT(i) = IF i + 1 = TxSize THEN 0 ELSE i + 1
    /\ \A i \in 0 .. TxSize - 1 : TX_BUF_NEXT(i) \in 0 .. TxSize - 1
    /\ \A i \in 0 .. RxSize - 1 : RX_BUF_NEXT(i) \in 0 .. RxSize - 1
<1>1. ASSUME NEW i \in 0 .. TxSize - 1
      PROVE  TX_BUF_NEXT(i) = IF i + 1 = TxSize THEN 0 ELSE i + 1
  <2>1. i + 1 \in 0 .. TxSize
    BY UartAssumption
  <2> QED BY <2>1, ModWrap, UartAssumption DEF TX_BUF_NEXT
<1>2. ASSUME NEW i \in 0 .. RxSize - 1
      PROVE  RX_BUF_NEXT(i) \in 0 .. RxSize - 1
  <2>1. i + 1 \in 0 .. RxSize
    BY UartAssumption
  <2>2. (i + 1) % RxSize = IF i + 1 = RxSize THEN 0 ELSE i + 1
    BY <2>1, ModWrap, UartAssumption
  <2> QED BY <2>2, UartAssumption DEF RX_BUF_NEXT
<1>3. ASSUME NEW i \in 0 .. TxSize - 1
      PROVE  TX_BUF_NEXT(i) \in 0 .. TxSize - 1
  BY <1>1, UartAssumption
<1> QED BY <1>1, <1>2, <1>3

\* What a task that prints may do.
Printing(w) == (\E n \in Strings : Puts(w, n)) \/ Flush(w) \/ Writing(w)

\* Output leaves the receive side alone.
LEMMA OutputFrame ==
    ASSUME [Next]_vars
    PROVE  \/ RxByte \/ IrqInput \/ IrqOutput \/ Console
           \/ UNCHANGED <<rxVars, consoleVars, wake, irq>>
<1>1. ASSUME NEW w \in Writers, Printing(w)
      PROVE  UNCHANGED <<rxVars, consoleVars, wake, irq>>
  BY <1>1 DEF Printing, Writing, Puts, Flush, TxNext, TxStore, TxAdvance, TxStart,
              FlushAgain, FlushDone
<1>2. CASE DmaByte \/ TxComplete
  BY <1>2 DEF DmaByte, TxComplete
<1>3. CASE UNCHANGED vars
  BY <1>3 DEF vars
<1> QED BY <1>1, <1>2, <1>3 DEF Next, Printing

\* Input leaves the transmit side alone, but for the interrupt's flags.
LEMMA InputFrame ==
    ASSUME [Next]_vars
    PROVE  \/ \E w \in Writers : Printing(w)
           \/ DmaByte \/ TxComplete \/ IrqOutput
           \/ UNCHANGED <<txVars, tc, dma_from, dma_left, writerVars, outVars>>
<1>1. CASE RxByte \/ IrqInput
  BY <1>1 DEF RxByte, IrqInput, usartVars
<1>2. CASE Console
  BY <1>2 DEF Console, Getc, GetcNone, ConsoleWaits, ConsoleWakes, usartVars
<1>3. CASE UNCHANGED vars
  BY <1>3 DEF vars, usartVars
<1> QED BY <1>1, <1>2, <1>3 DEF Next, Printing

-----------------------------------------------------------------------------
(* Types, and the block the DMA is sending *)

\* uart_process_output(): the block being sent begins at the tail and does not
\* wrap, the DMA is somewhere in it, and has finished it once TC is set.
\* __tx_char() is only called for a character.
BlockInv ==
    /\ tx_buf_tail + tx_dma_in_progress <= TxSize
    /\ dma_left <= tx_dma_in_progress
    /\ dma_left > 0 => dma_from + dma_left = tx_buf_tail + tx_dma_in_progress
    /\ tc => dma_left = 0
    /\ \A w \in Writers : InTxChar(w) => left[w] > 0

\* uart_process_output(): where the tail goes when the block has been sent.
LEMMA TailWraps ==
    ASSUME TxTypes, BlockInv
    PROVE  (tx_buf_tail + tx_dma_in_progress) % TxSize =
             IF tx_buf_tail + tx_dma_in_progress = TxSize THEN 0
             ELSE tx_buf_tail + tx_dma_in_progress
<1>1. tx_buf_tail + tx_dma_in_progress \in 0 .. TxSize
  BY UartAssumption DEF TxTypes, BlockInv
<1> QED BY <1>1, ModWrap, UartAssumption

\* uart_process_output(): what it does to the tail and to the DMA.
LEMMA OutputBlock ==
    ASSUME TxTypes, BlockInv, IrqOutput
    PROVE  \/ ~tc /\ UNCHANGED <<tx_buf_tail, tx_dma_in_progress, tc, dma_from, dma_left>>
           \/ /\ tc
              /\ tx_buf_tail' \in 0 .. TxSize - 1
              /\ tx_buf_tail' = IF tx_buf_tail + tx_dma_in_progress = TxSize THEN 0
                                ELSE tx_buf_tail + tx_dma_in_progress
              /\ \/ /\ tx_buf_head = tx_buf_tail' /\ tx_dma_in_progress' = 0
                    /\ UNCHANGED <<tc, dma_from, dma_left>>
                 \/ /\ tx_buf_head # tx_buf_tail'
                    /\ tx_dma_in_progress' \in 1 .. TxSize
                    /\ tx_dma_in_progress' =
                         (IF tx_buf_head > tx_buf_tail' THEN tx_buf_head ELSE TxSize)
                           - tx_buf_tail'
                    /\ dma_from' = tx_buf_tail' /\ dma_left' = tx_dma_in_progress'
                    /\ ~tc'
<1>1. CASE ~tc
  BY <1>1 DEF IrqOutput, TxDmaReady
<1>2. CASE tc
  <2> DEFINE tail == (tx_buf_tail + tx_dma_in_progress) % TxSize
  <2>1. /\ tail = IF tx_buf_tail + tx_dma_in_progress = TxSize THEN 0
                  ELSE tx_buf_tail + tx_dma_in_progress
        /\ tail \in 0 .. TxSize - 1
    BY TailWraps, UartAssumption DEF TxTypes, BlockInv
  <2>2. tx_buf_tail' = tail
    BY <1>2 DEF IrqOutput, TxDmaReady
  <2>3. tx_buf_head \in 0 .. TxSize - 1
    BY DEF TxTypes
  <2>4. /\ DmaLength(tail) = (IF tx_buf_head > tail THEN tx_buf_head ELSE TxSize) - tail
        /\ DmaLength(tail) \in 1 .. TxSize
    BY <2>1, <2>3, UartAssumption DEF DmaLength
  <2>5. \/ /\ tx_buf_head = tail /\ tx_dma_in_progress' = 0
           /\ UNCHANGED <<tc, dma_from, dma_left>>
        \/ /\ tx_buf_head # tail /\ tx_dma_in_progress' = DmaLength(tail)
           /\ dma_from' = tail /\ dma_left' = DmaLength(tail) /\ ~tc'
    BY <1>2 DEF IrqOutput, TxDmaReady
  <2> HIDE DEF tail
  <2> QED BY <1>2, <2>1, <2>2, <2>4, <2>5
<1> QED BY <1>1, <1>2

\* Every step keeps the flags Boolean.
LEMMA FlagStep ==
    ASSUME FlagTypes, [Next]_vars
    PROVE  FlagTypes'
<1> USE DEF FlagTypes, txVars, usartVars, rxVars, outVars
<1>1. ASSUME NEW w \in Writers, Printing(w)
      PROVE  FlagTypes'
  BY <1>1 DEF Printing, Writing, Puts, Flush, TxNext, TxStore, TxAdvance, TxStart,
              TxKick, FlushAgain, FlushDone
<1>2. CASE DmaByte \/ TxComplete \/ RxByte
  BY <1>2 DEF DmaByte, TxComplete, RxByte
<1>3. CASE IrqInput
  BY <1>3 DEF IrqInput, ProcessInput, Woken
<1>4. CASE IrqOutput
  BY <1>4 DEF IrqOutput, DmaTcie
<1>5. CASE Console
  BY <1>5 DEF Console, Getc, GetcNone, ConsoleWaits, ConsoleWakes
<1>6. CASE UNCHANGED vars
  BY <1>6 DEF vars
<1> QED BY <1>1, <1>2, <1>3, <1>4, <1>5, <1>6 DEF Next, Printing

\* Every step keeps the types of the receive side: no index leaves its buffer.
LEMMA RxStep ==
    ASSUME RxTypes, [Next]_vars
    PROVE  RxTypes'
<1> USE UartAssumption DEF RxTypes, rxVars, consoleVars
<1>1. CASE RxByte
  BY <1>1 DEF RxByte
<1>2. CASE IrqInput
  <2>1. RX_BUF_NEXT(rx_buf_head) \in 0 .. RxSize - 1
    BY NextWraps
  <2>2. irq' = "output" /\ UNCHANGED consoleVars /\ ProcessInput
    BY <1>2 DEF IrqInput
  <2>3. CASE rxne
    <3>1. /\ rdr' = 0 /\ UNCHANGED <<rx_buf_tail, received>>
          /\ \/ /\ rx_buf' = [rx_buf EXCEPT ![rx_buf_head] = rdr]
                /\ rx_buf_head' = RX_BUF_NEXT(rx_buf_head) /\ stored' = rdr
             \/ UNCHANGED <<rx_buf, rx_buf_head, stored>>
      BY <2>2, <2>3 DEF ProcessInput
    <3> QED BY <2>1, <2>2, <3>1
  <2>4. CASE ~rxne
    BY <2>2, <2>4 DEF ProcessInput
  <2> QED BY <2>3, <2>4
<1>3. CASE IrqOutput
  BY <1>3 DEF IrqOutput
<1>4. CASE Getc
  <2>1. RX_BUF_NEXT(rx_buf_tail) \in 0 .. RxSize - 1
    BY NextWraps
  <2> QED BY <1>4, <2>1 DEF Getc
<1>5. CASE GetcNone \/ ConsoleWaits \/ ConsoleWakes
  BY <1>5 DEF GetcNone, ConsoleWaits, ConsoleWakes
<1>6. CASE UNCHANGED <<rxVars, consoleVars, wake, irq>>
  BY <1>6
<1> QED BY <1>1, <1>2, <1>3, <1>4, <1>5, <1>6, OutputFrame DEF Console

\* Every step keeps the types of the tasks that print.
LEMMA WriterStep ==
    ASSUME WriterTypes, TxTypes, BlockInv, [Next]_vars
    PROVE  WriterTypes'
<1> USE UartAssumption DEF WriterTypes, writerVars, Goto
<1>1. ASSUME NEW w \in Writers, NEW n \in Strings, Puts(w, n)
      PROVE  WriterTypes'
  BY <1>1 DEF Puts, Number
<1>2. ASSUME NEW w \in Writers, TxNext(w)
      PROVE  WriterTypes'
  <2>1. TX_BUF_NEXT(tx_buf_head) \in 0 .. TxSize - 1
    BY NextWraps DEF TxTypes
  <2> QED BY <1>2, <2>1 DEF TxNext
<1>3. ASSUME NEW w \in Writers, TxAdvance(w)
      PROVE  WriterTypes'
  <2>1. left[w] - 1 \in Nat
    BY <1>3 DEF TxAdvance, BlockInv, InTxChar
  <2> QED BY <1>3, <2>1 DEF TxAdvance
<1>4. ASSUME NEW w \in Writers, TxStore(w) \/ TxStart(w)
      PROVE  WriterTypes'
  BY <1>4 DEF TxStore, TxStart
<1>5. ASSUME NEW w \in Writers, Flush(w) \/ FlushAgain(w) \/ FlushDone(w)
      PROVE  WriterTypes'
  BY <1>5 DEF Flush, FlushAgain, FlushDone, TxTypes
<1>6. CASE DmaByte \/ TxComplete \/ IrqOutput
  BY <1>6 DEF DmaByte, TxComplete, IrqOutput
<1>7. CASE UNCHANGED writerVars
  BY <1>7
<1> QED
  BY <1>1, <1>2, <1>3, <1>4, <1>5, <1>6, <1>7, InputFrame DEF Printing, Writing

\* Every step keeps the types of the transmit side: no index leaves its buffer.
LEMMA TxStep ==
    ASSUME TxTypes, WriterTypes, BlockInv, [Next]_vars
    PROVE  TxTypes'
<1> USE UartAssumption DEF TxTypes, txVars, usartVars, outVars
<1>1. ASSUME NEW w \in Writers, NEW n \in Strings, Puts(w, n)
      PROVE  TxTypes'
  BY <1>1 DEF Puts, Number
<1>2. ASSUME NEW w \in Writers, TxStore(w)
      PROVE  TxTypes'
  BY <1>2 DEF TxStore, Number
<1>3. ASSUME NEW w \in Writers, TxAdvance(w)
      PROVE  TxTypes'
  BY <1>3 DEF TxAdvance, Number, WriterTypes
<1>4. ASSUME NEW w \in Writers,
             TxNext(w) \/ TxStart(w) \/ Flush(w) \/ FlushAgain(w) \/ FlushDone(w)
      PROVE  TxTypes'
  BY <1>4 DEF TxNext, TxStart, Flush, FlushAgain, FlushDone
<1>5. CASE DmaByte
  BY <1>5 DEF DmaByte, Number, BlockInv
<1>6. CASE TxComplete
  BY <1>6 DEF TxComplete
<1>7. CASE IrqOutput
  <2>1. /\ tx_buf_tail' \in 0 .. TxSize - 1 /\ tx_dma_in_progress' \in 0 .. TxSize
        /\ dma_from' \in 0 .. TxSize /\ dma_left' \in 0 .. TxSize
    BY <1>7, OutputBlock
  <2>2. UNCHANGED <<tx_buf, tx_buf_head, outVars>>
    BY <1>7 DEF IrqOutput
  <2> QED BY <2>1, <2>2
<1>8. CASE UNCHANGED <<txVars, tc, dma_from, dma_left, writerVars, outVars>>
  BY <1>8
<1> QED
  BY <1>1, <1>2, <1>3, <1>4, <1>5, <1>6, <1>7, <1>8, InputFrame DEF Printing, Writing

\* Every step keeps the block.
LEMMA BlockStep ==
    ASSUME TxTypes, WriterTypes, BlockInv, [Next]_vars
    PROVE  BlockInv'
<1> USE UartAssumption DEF BlockInv, txVars, usartVars, writerVars, InTxChar, Goto,
        WriterTypes
<1>1. ASSUME NEW w \in Writers, Printing(w)
      PROVE  BlockInv'
  <2>1. UNCHANGED <<tx_buf_tail, tx_dma_in_progress, dma_from, dma_left, tc>>
    BY <1>1 DEF Printing, Writing, Puts, Flush, TxNext, TxStore, TxAdvance, TxStart,
                FlushAgain, FlushDone
  <2>2. ASSUME NEW v \in Writers, wpc'[v] \in {"store", "advance"}
        PROVE  left'[v] > 0
    <3>1. ASSUME NEW n \in Strings, Puts(w, n)
          PROVE  left'[v] > 0
      BY <2>2, <3>1 DEF Puts
    <3>2. CASE TxNext(w)
      BY <2>2, <3>2 DEF TxNext
    <3>3. CASE TxStore(w) \/ TxAdvance(w) \/ TxStart(w)
      BY <2>2, <3>3 DEF TxStore, TxAdvance, TxStart
    <3>4. CASE Flush(w) \/ FlushAgain(w) \/ FlushDone(w)
      BY <2>2, <3>4 DEF Flush, FlushAgain, FlushDone
    <3> QED BY <1>1, <3>1, <3>2, <3>3, <3>4 DEF Printing, Writing
  <2> QED BY <2>1, <2>2
<1>2. CASE DmaByte
  BY <1>2 DEF DmaByte, TxTypes
<1>3. CASE TxComplete
  BY <1>3 DEF TxComplete
<1>4. CASE IrqOutput
  <2>1. UNCHANGED writerVars
    BY <1>4 DEF IrqOutput
  <2>2. /\ tx_buf_head \in 0 .. TxSize - 1 /\ tx_buf_tail \in 0 .. TxSize - 1
        /\ tx_dma_in_progress \in 0 .. TxSize
    BY DEF TxTypes
  <2>3. /\ tx_buf_tail' + tx_dma_in_progress' <= TxSize
        /\ dma_left' <= tx_dma_in_progress'
        /\ dma_left' > 0 => dma_from' + dma_left' = tx_buf_tail' + tx_dma_in_progress'
        /\ tc' => dma_left' = 0
    BY <1>4, <2>2, OutputBlock
  <2> QED BY <2>1, <2>3
<1>5. CASE UNCHANGED <<txVars, tc, dma_from, dma_left, writerVars, outVars>>
  BY <1>5
<1> QED BY <1>1, <1>2, <1>3, <1>4, <1>5, InputFrame

\* The types and the block are an inductive invariant.
LEMMA TypeInvariant == Spec => [](TypeOK /\ BlockInv)
<1>1. ASSUME Init PROVE TypeOK /\ BlockInv
  <2> USE <1>1, UartAssumption DEF Init
  <2>1. FlagTypes
    BY DEF FlagTypes
  <2>2. RxTypes
    BY DEF RxTypes
  <2>3. TxTypes
    BY DEF TxTypes
  <2>4. WriterTypes
    BY DEF WriterTypes
  <2>5. BlockInv
    BY DEF BlockInv, InTxChar
  <2> QED BY <2>1, <2>2, <2>3, <2>4, <2>5 DEF TypeOK
<1>2. TypeOK /\ BlockInv /\ [Next]_vars => TypeOK' /\ BlockInv'
  BY FlagStep, RxStep, WriterStep, TxStep, BlockStep DEF TypeOK
<1> QED BY <1>1, <1>2, PTL DEF Spec

\* Types of uart_buffering.c's variables: the indices stay within their buffers and
\* the DMA within the transmit buffer, whoever prints whatever.
THEOREM TypeCorrect == Spec => []TypeOK
  BY TypeInvariant, PTL

-----------------------------------------------------------------------------
(* Input *)

\* console_task(): from the look that finds the buffer empty until the wait
\* returns, a character that came in has left the event pending.
LookInv == console \in {"none", "wait"} /\ ~wake => rx_buf_tail = rx_buf_head

\* The console never sleeps on input, whichever way its loop interleaves with the
\* interrupt: InputWakes for buffers of any size.
THEOREM InputIsNoticed == Spec => []InputWakes
<1>1. Init => LookInv
  BY DEF Init, LookInv
<1>2. ASSUME LookInv, [Next]_vars
      PROVE  LookInv'
  <2> USE <1>2 DEF LookInv, rxVars, consoleVars
  <2>1. CASE RxByte
    BY <2>1 DEF RxByte
  <2>2. CASE IrqInput
    BY <2>2 DEF IrqInput, ProcessInput, Woken
  <2>3. CASE IrqOutput
    BY <2>3 DEF IrqOutput
  <2>4. CASE Console
    BY <2>4 DEF Console, Getc, GetcNone, ConsoleWaits, ConsoleWakes
  <2> QED BY <2>1, <2>2, <2>3, <2>4, OutputFrame
<1>3. LookInv => InputWakes
  BY DEF LookInv, InputWakes
<1> QED BY <1>1, <1>2, <1>3, PTL DEF Spec

-----------------------------------------------------------------------------
(* Output: the characters between the tail and the head *)

\* How far a position of the transmit buffer is ahead of its tail.
Ahead(i) == IF i >= tx_buf_tail THEN i - tx_buf_tail ELSE i + TxSize - tx_buf_tail

Used == Ahead(tx_buf_head)

\* The positions in use hold the last characters that were accepted, in order.
ContentInv ==
    \A i \in 0 .. TxSize - 1 :
        Ahead(i) < Used => tx_buf[i] + Used = accepted + 1 + Ahead(i)

\* The block is in use, and what of it the DMA has read is what was sent.
SentInv ==
    /\ tx_dma_in_progress <= Used
    /\ sent + Used + dma_left = accepted + tx_dma_in_progress
    /\ ~strange

\* __tx_char(): what the call that is under way has found out still holds, and
\* whoever has preempted it does not print.
CallInv ==
    \A w \in Writers : InTxChar(w) =>
        /\ tx_buf_next[w] = TX_BUF_NEXT(tx_buf_head) /\ Used < TxSize - 1
        /\ wpc[w] = "advance" => tx_buf[tx_buf_head] = accepted + 1
        /\ \A v \in Writers : v > w => wpc[v] \in {"idle", "flush"}

\* uart_flush_output() waits for characters that were accepted.
FlushInv ==
    /\ \A w \in Writers : flushing[w] <= accepted
    /\ overlap => accepted = 0

\* The queue of output, as long as calls have not overlapped.
QueueInv == (~overlap => ContentInv /\ SentInv /\ CallInv) /\ FlushInv

\* A step that leaves the buffer and the DMA alone leaves the queue alone.
LEMMA SameQueue ==
    ASSUME ContentInv, SentInv,
           UNCHANGED <<tx_buf, tx_buf_head, tx_buf_tail, tx_dma_in_progress, dma_left,
                       accepted, sent>>,
           ~strange'
    PROVE  ContentInv' /\ SentInv'
  BY DEF ContentInv, SentInv, Used, Ahead

\* Tasks that print keep the queue, as long as no call interrupts another.
LEMMA PrintingKeepsQueue ==
    ASSUME TypeOK, BlockInv, QueueInv, NEW w \in Writers, Printing(w), ~overlap'
    PROVE  ContentInv' /\ SentInv' /\ CallInv'
<1> USE UartAssumption
<1>1. ASSUME NEW n \in Strings, Puts(w, n)
      PROVE  ContentInv' /\ SentInv' /\ CallInv'
  <2>1. /\ ~overlap /\ \A v \in Writers : ~InTxChar(v)
    BY <1>1 DEF Puts
  <2>2. /\ UNCHANGED <<tx_buf_head, tx_buf_tail, tx_dma_in_progress, dma_left>>
        /\ accepted' = accepted /\ sent' = sent /\ ~strange'
        /\ Goto(w, "char")
    BY <1>1, <2>1 DEF Puts, Number, usartVars, QueueInv, SentInv
  <2>3. tx_buf' = tx_buf
    BY <1>1 DEF Puts, Number, TypeOK, TxTypes
  <2>4. ContentInv' /\ SentInv'
    BY <2>1, <2>2, <2>3, SameQueue DEF QueueInv
  <2>5. \A v \in Writers : ~InTxChar(v)'
    BY <2>1, <2>2 DEF InTxChar, Goto, TypeOK, WriterTypes
  <2> QED BY <2>4, <2>5 DEF CallInv
<1>2. ASSUME UNCHANGED <<tx_buf, tx_buf_head, tx_buf_tail, tx_dma_in_progress, dma_left,
                         accepted, sent, strange, overlap>>
      PROVE  /\ ContentInv' /\ SentInv' /\ CallInv
             /\ Used' = Used /\ TX_BUF_NEXT(tx_buf_head)' = TX_BUF_NEXT(tx_buf_head)
  <2>1. ContentInv /\ SentInv /\ CallInv
    BY <1>2 DEF QueueInv
  <2>2. ~strange'
    BY <1>2, <2>1 DEF SentInv
  <2> QED BY <1>2, <2>1, <2>2, SameQueue DEF Used, Ahead, TX_BUF_NEXT
<1>3. CASE TxNext(w)
  <2>1. /\ UNCHANGED <<txVars, dma_left, accepted, sent, strange, overlap>>
        /\ \A v \in Writers : v > w => wpc[v] = "idle"
        /\ wpc[w] = "char"
        /\ \/ Goto(w, "start") /\ UNCHANGED tx_buf_next
           \/ /\ TX_BUF_NEXT(tx_buf_head) # tx_buf_tail
              /\ Goto(w, "store")
              /\ tx_buf_next' = [tx_buf_next EXCEPT ![w] = TX_BUF_NEXT(tx_buf_head)]
    BY <1>3 DEF TxNext, MayRun, TxFull, usartVars, outVars
  <2>2. /\ ContentInv' /\ SentInv' /\ CallInv
        /\ Used' = Used /\ TX_BUF_NEXT(tx_buf_head)' = TX_BUF_NEXT(tx_buf_head)
    BY <1>2, <2>1 DEF txVars
  <2>3. TX_BUF_NEXT(tx_buf_head) # tx_buf_tail => Used < TxSize - 1
    <3>1. /\ tx_buf_head \in 0 .. TxSize - 1 /\ tx_buf_tail \in 0 .. TxSize - 1
      BY DEF TypeOK, TxTypes
    <3>2. TX_BUF_NEXT(tx_buf_head) =
            IF tx_buf_head + 1 = TxSize THEN 0 ELSE tx_buf_head + 1
      BY <3>1, NextWraps
    <3> QED BY <3>1, <3>2 DEF Used, Ahead
  <2>4. CallInv'
    <3> SUFFICES ASSUME NEW u \in Writers, InTxChar(u)'
                 PROVE  /\ tx_buf_next'[u] = TX_BUF_NEXT(tx_buf_head) /\ Used < TxSize - 1
                        /\ wpc'[u] = "advance" => tx_buf[tx_buf_head] = accepted + 1
                        /\ \A v \in Writers : v > u => wpc'[v] \in {"idle", "flush"}
      BY <2>1, <2>2 DEF CallInv, txVars
    <3>1. CASE u = w
      BY <2>1, <2>3, <3>1 DEF InTxChar, Goto, TypeOK, WriterTypes
    <3>2. CASE u # w
      <4>1. InTxChar(u) /\ wpc'[u] = wpc[u] /\ tx_buf_next'[u] = tx_buf_next[u]
        BY <2>1, <3>2 DEF InTxChar, Goto, TypeOK, WriterTypes
      <4>2. /\ tx_buf_next[u] = TX_BUF_NEXT(tx_buf_head) /\ Used < TxSize - 1
            /\ wpc[u] = "advance" => tx_buf[tx_buf_head] = accepted + 1
            /\ \A v \in Writers : v > u => wpc[v] \in {"idle", "flush"}
        BY <2>2, <4>1 DEF CallInv
      <4>3. ~(w > u)
        BY <2>1, <4>2
      <4>4. \A v \in Writers : v > u => wpc'[v] = wpc[v]
        BY <2>1, <4>3 DEF Goto, TypeOK, WriterTypes
      <4> QED BY <4>1, <4>2, <4>4
    <3> QED BY <3>1, <3>2
  <2> QED BY <2>2, <2>4
<1>4. CASE TxStore(w)
  <2>1. /\ UNCHANGED <<tx_buf_head, tx_buf_tail, tx_dma_in_progress, dma_left, accepted,
                       sent, strange, overlap, tx_buf_next>>
        /\ wpc[w] = "store" /\ Goto(w, "advance")
        /\ tx_buf' = [tx_buf EXCEPT ![tx_buf_head] = accepted + 1]
        /\ \A v \in Writers : v > w => wpc[v] = "idle"
    BY <1>4 DEF TxStore, MayRun, Number, usartVars, outVars
  <2>2. ContentInv /\ SentInv /\ CallInv
    BY <2>1 DEF QueueInv
  <2>3. /\ Used' = Used /\ TX_BUF_NEXT(tx_buf_head)' = TX_BUF_NEXT(tx_buf_head)
        /\ \A i \in 0 .. TxSize - 1 : Ahead(i)' = Ahead(i)
    BY <2>1 DEF Used, Ahead, TX_BUF_NEXT
  <2>4. \A i \in 0 .. TxSize - 1 : Ahead(i) < Used => tx_buf'[i] = tx_buf[i]
    BY <2>1 DEF Used, Ahead, TypeOK, TxTypes
  <2>5. ContentInv'
    BY <2>1, <2>2, <2>3, <2>4 DEF ContentInv
  <2>6. SentInv'
    BY <2>1, <2>2, <2>3 DEF SentInv
  <2>7. tx_buf'[tx_buf_head] = accepted + 1
    BY <2>1 DEF TypeOK, TxTypes
  <2>8. \A u \in Writers :
          /\ InTxChar(u)' => InTxChar(u)
          /\ wpc'[u] \in {"idle", "flush"} <=> wpc[u] \in {"idle", "flush"}
    BY <2>1 DEF InTxChar, Goto, TypeOK, WriterTypes
  <2>9. CallInv'
    BY <2>1, <2>2, <2>3, <2>7, <2>8 DEF CallInv
  <2> QED BY <2>5, <2>6, <2>9
<1>5. CASE TxAdvance(w)
  <2>1. /\ UNCHANGED <<tx_buf, tx_buf_tail, tx_dma_in_progress, dma_left, sent, strange,
                       overlap>>
        /\ wpc[w] = "advance" /\ Goto(w, "char")
        /\ tx_buf_head' = tx_buf_next[w]
        /\ accepted' = accepted + 1
        /\ \A v \in Writers : v > w => wpc[v] = "idle"
    BY <1>5 DEF TxAdvance, MayRun, Number, usartVars
  <2>2. ContentInv /\ SentInv /\ CallInv
    BY <2>1 DEF QueueInv
  <2>3. /\ tx_buf_next[w] = TX_BUF_NEXT(tx_buf_head) /\ Used < TxSize - 1
        /\ tx_buf[tx_buf_head] = accepted + 1
    BY <2>1, <2>2 DEF CallInv, InTxChar
  <2>4. /\ tx_buf_head \in 0 .. TxSize - 1 /\ tx_buf_tail \in 0 .. TxSize - 1
        /\ accepted \in Nat /\ sent \in Nat /\ dma_left \in Nat
        /\ tx_dma_in_progress \in Nat /\ tx_buf \in [0 .. TxSize - 1 -> Nat]
    BY DEF TypeOK, TxTypes
  <2>5. tx_buf_head' = IF tx_buf_head + 1 = TxSize THEN 0 ELSE tx_buf_head + 1
    BY <2>1, <2>3, <2>4, NextWraps
  <2>6. /\ Used' = Used + 1
        /\ \A i \in 0 .. TxSize - 1 :
             Ahead(i)' = Ahead(i) /\ (Ahead(i) < Used + 1 => i = tx_buf_head \/ Ahead(i) < Used)
    <3>1. Used < TxSize - 1 /\ tx_buf_tail' = tx_buf_tail
      BY <2>1, <2>3
    <3>2. Used' = Used + 1
      BY <2>4, <2>5, <3>1 DEF Used, Ahead
    <3>3. ASSUME NEW i \in 0 .. TxSize - 1
          PROVE  /\ Ahead(i)' = Ahead(i)
                 /\ Ahead(i) < Used + 1 => i = tx_buf_head \/ Ahead(i) < Used
      BY <2>4, <3>1 DEF Used, Ahead
    <3> QED BY <3>2, <3>3
  <2>7. Used \in Nat /\ \A i \in 0 .. TxSize - 1 : Ahead(i) \in Nat
    BY <2>4 DEF Used, Ahead
  <2>8. ContentInv'
    <3> SUFFICES ASSUME NEW i \in 0 .. TxSize - 1, Ahead(i) < Used + 1
                 PROVE  tx_buf[i] + (Used + 1) = (accepted + 1) + 1 + Ahead(i)
      BY <2>1, <2>6 DEF ContentInv
    <3>1. CASE i = tx_buf_head
      BY <2>3, <2>4, <2>7, <3>1 DEF Used
    <3>2. CASE Ahead(i) < Used
      <4>1. tx_buf[i] + Used = accepted + 1 + Ahead(i)
        BY <2>2, <3>2 DEF ContentInv
      <4>2. tx_buf[i] \in Nat /\ Ahead(i) \in Nat /\ Used \in Nat /\ accepted \in Nat
        BY <2>4, <2>7
      <4> QED BY <4>1, <4>2
    <3> QED BY <2>6, <3>1, <3>2
  <2>9. SentInv'
    BY <2>1, <2>2, <2>4, <2>6, <2>7 DEF SentInv
  <2>10. \A u \in Writers : ~InTxChar(u)'
    <3>1. ASSUME NEW u \in Writers, u # w PROVE ~InTxChar(u)
      <4>1. CASE u > w
        BY <2>1, <4>1 DEF InTxChar
      <4>2. CASE w > u
        BY <2>1, <2>2, <4>2 DEF CallInv
      <4> QED BY <3>1, <4>1, <4>2
    <3> QED BY <2>1, <3>1 DEF InTxChar, Goto, TypeOK, WriterTypes
  <2> QED BY <2>8, <2>9, <2>10 DEF CallInv
<1>6. CASE TxStart(w) \/ Flush(w) \/ FlushAgain(w) \/ FlushDone(w)
  <2>1. UNCHANGED <<txVars, dma_left, accepted, sent, strange, overlap, tx_buf_next>>
    BY <1>6 DEF TxStart, Flush, FlushAgain, FlushDone, usartVars, outVars, writerVars
  <2>2. /\ ContentInv' /\ SentInv' /\ CallInv
        /\ Used' = Used /\ TX_BUF_NEXT(tx_buf_head)' = TX_BUF_NEXT(tx_buf_head)
    BY <1>2, <2>1 DEF txVars
  <2>3. \A u \in Writers :
          /\ InTxChar(u)' => wpc'[u] = wpc[u]
          /\ wpc[u] \in {"idle", "flush"} => wpc'[u] \in {"idle", "flush"}
    BY <1>6 DEF TxStart, Flush, FlushAgain, FlushDone, InTxChar, Goto, writerVars,
                TypeOK, WriterTypes
  <2>4. \A u \in Writers : InTxChar(u)' => InTxChar(u)
    BY <2>3 DEF InTxChar
  <2>5. CallInv'
    BY <2>1, <2>2, <2>3, <2>4 DEF CallInv, txVars
  <2> QED BY <2>2, <2>5
<1> QED BY <1>1, <1>3, <1>4, <1>5, <1>6 DEF Printing, Writing

\* The hardware and uart_process_output() keep the queue: the character the DMA
\* reads is the next one, and the tail passes exactly what was sent.
LEMMA SendingKeepsQueue ==
    ASSUME TypeOK, BlockInv, QueueInv, DmaByte \/ TxComplete \/ IrqOutput, ~overlap'
    PROVE  ContentInv' /\ SentInv' /\ CallInv'
<1>1. /\ tx_buf_head \in 0 .. TxSize - 1 /\ tx_buf_tail \in 0 .. TxSize - 1
      /\ tx_dma_in_progress \in 0 .. TxSize /\ dma_left \in 0 .. TxSize
      /\ dma_from \in 0 .. TxSize /\ tx_buf \in [0 .. TxSize - 1 -> Nat]
      /\ accepted \in Nat /\ sent \in Nat /\ TxSize \in Nat
  BY UartAssumption DEF TypeOK, TxTypes
<1>2. /\ Used \in Nat /\ \A i \in 0 .. TxSize - 1 : Ahead(i) \in Nat
  BY <1>1 DEF Used, Ahead
<1>3. UNCHANGED <<tx_buf, tx_buf_head, wpc, tx_buf_next, accepted, overlap>>
  BY DEF DmaByte, TxComplete, IrqOutput, txVars, writerVars, outVars
<1>4. ContentInv /\ SentInv /\ CallInv
  BY <1>3 DEF QueueInv
<1>5. ASSUME Used' <= Used
      PROVE  CallInv'
  <2>1. \A u \in Writers : InTxChar(u)' <=> InTxChar(u)
    BY <1>3 DEF InTxChar
  <2>2. /\ TX_BUF_NEXT(tx_buf_head)' = TX_BUF_NEXT(tx_buf_head)
        /\ Used < TxSize - 1 => Used' < TxSize - 1
    <3>1. Used' \in Int
      <4>1. CASE DmaByte \/ TxComplete
        BY <1>1, <4>1 DEF Used, Ahead, DmaByte, TxComplete, txVars
      <4>2. CASE IrqOutput
        <5>1. tx_buf_tail' \in Nat
          BY <1>1, <4>2, OutputBlock DEF TypeOK
        <5> QED BY <1>1, <1>3, <5>1 DEF Used, Ahead
      <4> QED BY <4>1, <4>2
    <3> QED BY <1>1, <1>2, <1>3, <1>5, <3>1 DEF TX_BUF_NEXT
  <2> QED BY <1>3, <1>4, <2>1, <2>2 DEF CallInv
<1>6. CASE DmaByte
  <2>1. /\ dma_left > 0 /\ dma_left' = dma_left - 1 /\ sent' = sent + 1
        /\ UNCHANGED <<tx_buf_head, tx_buf_tail, tx_dma_in_progress>>
    BY <1>3, <1>6 DEF DmaByte, Number, txVars
  <2>2. Used' = Used /\ \A i \in 0 .. TxSize - 1 : Ahead(i)' = Ahead(i)
    BY <2>1 DEF Used, Ahead
  <2>3. /\ dma_from \in 0 .. TxSize - 1
        /\ Ahead(dma_from) = tx_dma_in_progress - dma_left
    BY <1>1, <2>1 DEF BlockInv, Ahead
  <2>4. Ahead(dma_from) < Used
    BY <1>1, <1>2, <1>4, <2>1, <2>3 DEF SentInv
  <2>5. tx_buf[dma_from] + Used = accepted + 1 + Ahead(dma_from)
    BY <1>4, <2>3, <2>4 DEF ContentInv
  <2>6. tx_buf[dma_from] = sent + 1
    <3>1. tx_buf[dma_from] \in Nat
      BY <1>1, <2>3
    <3>2. sent + Used + dma_left = accepted + tx_dma_in_progress
      BY <1>4 DEF SentInv
    <3> QED BY <1>1, <1>2, <2>3, <2>5, <3>1, <3>2
  <2>7. ~strange'
    <3>1. ~strange /\ ~overlap
      BY <1>3, <1>4 DEF SentInv
    <3>2. Number(overlap, sent + 1) = sent + 1
      BY <3>1 DEF Number
    <3>3. strange' <=> strange \/ tx_buf[dma_from] # Number(overlap, sent + 1)
      BY <1>6 DEF DmaByte
    <3> QED BY <2>6, <3>1, <3>2, <3>3
  <2>8. SentInv'
    <3>1. /\ tx_dma_in_progress <= Used
          /\ sent + Used + dma_left = accepted + tx_dma_in_progress
      BY <1>4 DEF SentInv
    <3>2. sent + 1 + Used + (dma_left - 1) = accepted + tx_dma_in_progress
      BY <1>1, <1>2, <3>1
    <3> QED BY <1>3, <2>1, <2>2, <2>7, <3>1, <3>2 DEF SentInv
  <2>9. ContentInv'
    BY <1>3, <1>4, <2>2 DEF ContentInv
  <2> QED BY <1>2, <1>5, <2>2, <2>8, <2>9
<1>7. CASE TxComplete
  <2>1. UNCHANGED <<txVars, dma_left, sent, strange>>
    BY <1>7 DEF TxComplete, outVars
  <2>2. ~strange'
    BY <1>4, <2>1 DEF SentInv
  <2>3. Used' = Used
    BY <2>1 DEF Used, Ahead, txVars
  <2> QED BY <1>2, <1>3, <1>4, <1>5, <2>1, <2>2, <2>3, SameQueue DEF txVars
<1>8. CASE IrqOutput
  <2>1. /\ sent' = sent /\ ~strange'
    BY <1>4, <1>8 DEF IrqOutput, outVars, SentInv
  <2>2. CASE ~tc
    <3>1. UNCHANGED <<tx_buf_tail, tx_dma_in_progress, dma_left>>
      BY <1>8, <2>2 DEF IrqOutput, TxDmaReady
    <3>2. Used' = Used
      BY <1>3, <3>1 DEF Used, Ahead
    <3> QED BY <1>2, <1>3, <1>4, <1>5, <2>1, <3>1, <3>2, SameQueue
  <2>3. CASE tc
    <3>1. /\ tx_buf_tail' \in 0 .. TxSize - 1
          /\ tx_buf_tail' = IF tx_buf_tail + tx_dma_in_progress = TxSize THEN 0
                            ELSE tx_buf_tail + tx_dma_in_progress
          /\ \/ /\ tx_buf_head = tx_buf_tail' /\ tx_dma_in_progress' = 0
                /\ dma_left' = dma_left
             \/ /\ tx_buf_head # tx_buf_tail'
                /\ tx_dma_in_progress' =
                     (IF tx_buf_head > tx_buf_tail' THEN tx_buf_head ELSE TxSize)
                       - tx_buf_tail'
                /\ dma_left' = tx_dma_in_progress'
      BY <1>8, <2>3, OutputBlock DEF TypeOK
    <3>2. /\ dma_left = 0 /\ tx_buf_tail + tx_dma_in_progress <= TxSize
      BY <2>3 DEF BlockInv
    <3>3. /\ tx_dma_in_progress <= Used
          /\ sent + Used + dma_left = accepted + tx_dma_in_progress
      BY <1>4 DEF SentInv
    <3>4. Used' = Used - tx_dma_in_progress
      BY <1>1, <1>3, <3>1, <3>2, <3>3 DEF Used, Ahead
    <3>5. tx_dma_in_progress' <= Used' /\ dma_left' = tx_dma_in_progress'
      BY <1>1, <1>3, <3>1, <3>2 DEF Used, Ahead
    <3>6. SentInv'
      <4>1. Used' \in Nat /\ sent + Used' = accepted
        BY <1>1, <1>2, <3>2, <3>3, <3>4
      <4>2. tx_dma_in_progress' \in Nat
        BY <1>1, <3>1
      <4> QED BY <1>1, <1>3, <2>1, <3>5, <4>1, <4>2 DEF SentInv
    <3>7. ASSUME NEW i \in 0 .. TxSize - 1, Ahead(i)' < Used'
          PROVE  Ahead(i) = Ahead(i)' + tx_dma_in_progress
      BY <1>1, <1>3, <3>1, <3>2, <3>3, <3>7 DEF Used, Ahead
    <3>8. ASSUME NEW i \in 0 .. TxSize - 1, Ahead(i)' < Used'
          PROVE  tx_buf'[i] + Used' = accepted' + 1 + Ahead(i)'
      <4>1. Ahead(i)' \in Nat
        BY <1>1, <3>1 DEF Ahead
      <4>2. Ahead(i) = Ahead(i)' + tx_dma_in_progress /\ Ahead(i) < Used
        BY <1>1, <1>2, <3>4, <3>7, <3>8, <4>1
      <4>3. tx_buf[i] + Used = accepted + 1 + Ahead(i) /\ tx_buf[i] \in Nat
        BY <1>1, <1>4, <4>2 DEF ContentInv
      <4>4. Used \in Nat /\ tx_dma_in_progress \in Nat /\ accepted \in Nat
        BY <1>1, <1>2
      <4>5. tx_buf[i] + (Used - tx_dma_in_progress) = accepted + 1 + Ahead(i)'
        BY <4>1, <4>2, <4>3, <4>4
      <4> QED BY <1>3, <3>4, <4>5
    <3>9. Used' <= Used
      BY <1>1, <1>2, <3>4
    <3> QED BY <1>5, <3>6, <3>8, <3>9 DEF ContentInv
  <2> QED BY <2>2, <2>3
<1> QED BY <1>6, <1>7, <1>8

\* Every step keeps what uart_flush_output() waits for.
LEMMA FlushStep ==
    ASSUME TypeOK, FlushInv, [Next]_vars
    PROVE  FlushInv'
<1> USE DEF FlushInv, outVars, writerVars
<1>1. ASSUME NEW w \in Writers, NEW n \in Strings, Puts(w, n)
      PROVE  FlushInv'
  BY <1>1 DEF Puts, Number, TypeOK, WriterTypes
<1>2. ASSUME NEW w \in Writers, TxAdvance(w)
      PROVE  FlushInv'
  BY <1>2 DEF TxAdvance, Number, TypeOK, WriterTypes, TxTypes
<1>3. ASSUME NEW w \in Writers, TxNext(w) \/ TxStore(w) \/ TxStart(w) \/ FlushAgain(w)
      PROVE  FlushInv'
  BY <1>3 DEF TxNext, TxStore, TxStart, FlushAgain
<1>4. ASSUME NEW w \in Writers, Flush(w) \/ FlushDone(w)
      PROVE  FlushInv'
  <2>1. accepted \in Nat /\ flushing \in [Writers -> Nat]
    BY DEF TypeOK, TxTypes, WriterTypes
  <2>2. \E n \in 0 .. accepted : flushing' = [flushing EXCEPT ![w] = n]
    BY <1>4, <2>1 DEF Flush, FlushDone
  <2>3. UNCHANGED <<accepted, overlap>>
    BY <1>4 DEF Flush, FlushDone
  <2> QED BY <2>1, <2>2, <2>3
<1>5. CASE DmaByte \/ TxComplete \/ IrqOutput
  BY <1>5 DEF DmaByte, TxComplete, IrqOutput
<1> QED BY <1>1, <1>2, <1>3, <1>4, <1>5, InputFrame DEF Printing, Writing

\* The queue of output is an inductive invariant, with the types and the block.
LEMMA QueueInvariant == Spec => [](TypeOK /\ BlockInv /\ QueueInv)
<1>1. ASSUME Init PROVE QueueInv
  <2>1. FlushInv
    BY <1>1 DEF Init, FlushInv
  <2>2. ContentInv /\ SentInv /\ CallInv
    BY <1>1, UartAssumption DEF Init, ContentInv, SentInv, CallInv, InTxChar, Used, Ahead
  <2> QED BY <2>1, <2>2 DEF QueueInv
<1>2. ASSUME TypeOK, BlockInv, QueueInv, [Next]_vars PROVE QueueInv'
  <2>1. FlushInv'
    BY <1>2, FlushStep DEF QueueInv
  <2>2. ASSUME ~overlap' PROVE ContentInv' /\ SentInv' /\ CallInv'
    <3>1. CASE UNCHANGED <<txVars, tc, dma_from, dma_left, writerVars, outVars>>
      <4>1. UNCHANGED <<tx_buf, tx_buf_head, tx_buf_tail, tx_dma_in_progress, dma_left,
                        wpc, tx_buf_next, accepted, sent, overlap, strange>>
        BY <3>1 DEF txVars, writerVars, outVars
      <4>2. ContentInv /\ SentInv /\ CallInv
        BY <1>2, <2>2, <4>1 DEF QueueInv
      <4>3. ~strange'
        BY <4>1, <4>2 DEF SentInv
      <4>4. CallInv'
        BY <4>1, <4>2 DEF CallInv, InTxChar, TX_BUF_NEXT, Used, Ahead
      <4> QED BY <4>1, <4>2, <4>3, <4>4, SameQueue
    <3> QED BY <1>2, <2>2, <3>1, InputFrame, PrintingKeepsQueue, SendingKeepsQueue
  <2> QED BY <2>1, <2>2 DEF QueueInv
<1> QED BY <1>1, <1>2, TypeInvariant, PTL DEF Spec

\* What __tx_char() accepts is sent once and in order (SentInOrder), for buffers of
\* any size, any number of writers and transfers of any length.
THEOREM OutputInOrder == Spec => []SentInOrder
<1>1. TypeOK /\ QueueInv => SentInOrder
  <2> SUFFICES ASSUME TypeOK, QueueInv, ~overlap PROVE ~strange /\ sent <= accepted
    BY DEF SentInOrder
  <2>1. /\ ~strange /\ tx_dma_in_progress <= Used
        /\ sent + Used + dma_left = accepted + tx_dma_in_progress
    BY DEF QueueInv, SentInv
  <2>2. /\ sent \in Nat /\ accepted \in Nat /\ dma_left \in Nat
        /\ tx_dma_in_progress \in Nat /\ Used \in Int
    BY UartAssumption DEF TypeOK, TxTypes, Used, Ahead
  <2> QED BY <2>1, <2>2
<1> QED BY <1>1, QueueInvariant, PTL

\* uart_flush_output() returns only when all that was accepted before its call has
\* been transmitted (FlushWaits), whatever else is printed meanwhile.
THEOREM FlushIsComplete == Spec => FlushWaits
<1>1. ASSUME TypeOK, BlockInv, QueueInv, [Next]_vars,
             NEW w \in Writers, wpc[w] = "flush", wpc'[w] = "idle"
      PROVE  sent >= flushing[w]
  <2>1. FlushDone(w)
    <3>1. ASSUME NEW v \in Writers, Printing(v) PROVE FlushDone(w)
      BY <1>1, <3>1 DEF Printing, Writing, Puts, Flush, TxNext, TxStore, TxAdvance,
           TxStart, FlushAgain, FlushDone, Goto, writerVars, TypeOK, WriterTypes
    <3>2. CASE DmaByte \/ TxComplete \/ IrqOutput
      BY <1>1, <3>2 DEF DmaByte, TxComplete, IrqOutput, writerVars
    <3> QED BY <1>1, <3>1, <3>2, InputFrame DEF writerVars
  <2>2. tx_buf_head = tx_buf_tail
    BY <2>1 DEF FlushDone
  <2>3. /\ sent \in Nat /\ accepted \in Nat /\ dma_left \in Nat /\ flushing[w] \in Nat
        /\ tx_dma_in_progress \in Nat /\ tx_buf_head \in Nat
    BY <1>1, UartAssumption DEF TypeOK, TxTypes, WriterTypes
  <2>4. flushing[w] <= accepted /\ (overlap => accepted = 0)
    BY <1>1 DEF QueueInv, FlushInv
  <2>5. CASE overlap
    BY <2>3, <2>4, <2>5
  <2>6. CASE ~overlap
    <3>1. Used = 0
      BY <2>2, <2>3 DEF Used, Ahead
    <3>2. /\ tx_dma_in_progress <= Used
          /\ sent + Used + dma_left = accepted + tx_dma_in_progress
          /\ dma_left <= tx_dma_in_progress
      BY <1>1, <2>6 DEF QueueInv, SentInv, BlockInv
    <3>3. sent = accepted
      BY <2>3, <3>1, <3>2
    <3> QED BY <2>3, <2>4, <3>3
  <2> QED BY <2>5, <2>6
<1>2. TypeOK /\ BlockInv /\ QueueInv /\ [Next]_vars =>
        [\A w \in Writers :
           wpc[w] = "flush" /\ wpc'[w] = "idle" => sent >= flushing[w]]_vars
  BY <1>1
<1> QED BY <1>2, QueueInvariant, PTL DEF Spec, FlushWaits
=============================================================================
