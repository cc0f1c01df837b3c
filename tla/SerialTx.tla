------------------------------ MODULE SerialTx ------------------------------
(***************************************************************************)
(* DMA transmission of drivers/serial/serial.c: writers push what they have *)
(* to send on a data queue and start the DMA when it is idle; the interrupt *)
(* at the end of a transfer starts the next one.                            *)
(*                                                                         *)
(* The data queue is the sequence that DataQueue is shown to implement.     *)
(***************************************************************************)
EXTENDS Naturals, Sequences

CONSTANTS
    Writers,         \* threads that write to the device
    Buffers,         \* what they write, each buffer not reused until it is sent
    Idle,            \* no buffer
    QueueSize,       \* 8
    WriterMasksIrq   \* do writers keep interrupts disabled around rt_device_write?

ASSUME SerialTxAssumption ==
    /\ Idle \notin Buffers /\ QueueSize \in Nat \ {0}
    /\ WriterMasksIrq \in BOOLEAN

VARIABLES
    data_queue,   \* tx_dma->data_queue
    activated,    \* tx_dma->activated
    dma,          \* the buffer the hardware transmits, or Idle
    pushed        \* what each writer has pushed and not yet looked after

txVars == <<data_queue, activated, dma, pushed>>

TxInit ==
    /\ data_queue = <<>> /\ activated = FALSE /\ dma = Idle
    /\ pushed = [w \in Writers |-> Idle]

InUse(b) ==
    \/ b = dma
    \/ \E i \in DOMAIN data_queue : data_queue[i] = b
    \/ \E w \in Writers : pushed[w] = b

(* The region after the push.  The transfer itself is started after it. *)
Started(b) ==
    IF activated THEN UNCHANGED <<activated, dma>> ELSE activated' = TRUE /\ dma' = b

(* Nobody acts between the push and the region if the writer sees to it. *)
MayAct == WriterMasksIrq => \A w \in Writers : pushed[w] = Idle

(* rt_data_queue_push waits until there is room. *)
_serial_dma_tx(w, b) ==
    /\ MayAct /\ pushed[w] = Idle /\ ~InUse(b)
    /\ Len(data_queue) < QueueSize
    /\ data_queue' = Append(data_queue, b)
    /\ pushed' = [pushed EXCEPT ![w] = b]
    /\ UNCHANGED <<activated, dma>>

DmaTxStarts(w) ==
    /\ pushed[w] # Idle
    /\ Started(pushed[w])
    /\ pushed' = [pushed EXCEPT ![w] = Idle]
    /\ UNCHANGED data_queue

(* A plausible slip: the next transfer is left to the next writer. *)
DoneStopsAlways ==
    /\ MayAct /\ dma # Idle
    /\ data_queue' = IF data_queue = <<>> THEN <<>> ELSE Tail(data_queue)
    /\ activated' = FALSE /\ dma' = Idle
    /\ UNCHANGED pushed

(* RT_SERIAL_EVENT_TX_DMADONE: one entry is popped, if there is one, the    *)
(* next one transmitted.                                                   *)
TxDmaDone ==
    /\ MayAct /\ dma # Idle
    /\ LET rest == IF data_queue = <<>> THEN <<>> ELSE Tail(data_queue) IN
       /\ data_queue' = rest
       /\ activated' = (rest # <<>>)
       /\ dma' = IF rest = <<>> THEN Idle ELSE Head(rest)
    /\ UNCHANGED pushed

TxNext ==
    \/ \E w \in Writers : DmaTxStarts(w) \/ \E b \in Buffers : _serial_dma_tx(w, b)
    \/ TxDmaDone

-----------------------------------------------------------------------------
(* Properties *)

(* What the DMA transmits is the first entry of the queue, which its        *)
(* interrupt then pops and hands to tx_complete as written: each buffer is  *)
(* sent, once, in the order of the writes.                                 *)
TransmitsHead ==
    dma # Idle => IF data_queue = <<>> THEN FALSE ELSE Head(data_queue) = dma

(* Nothing stays in the queue with the DMA idle and nobody about to start   *)
(* it.                                                                     *)
QueueIsServed ==
    data_queue # <<>> => dma # Idle \/ \E w \in Writers : pushed[w] # Idle

TransmitsInOrder == TransmitsHead /\ QueueIsServed
=============================================================================
