------------------------------ MODULE SerialRx ------------------------------
(***************************************************************************)
(* Reception of drivers/serial/serial.c into a ring buffer, by interrupt or *)
(* by DMA, and the shell of finsh/shell.c that reads one character at a     *)
(* time and sleeps on rx_sem when there is none.                            *)
(***************************************************************************)
EXTENDS Integers, Sequences

CONSTANTS
    Chars,     \* the characters
    Blank,     \* what the buffer holds before
    bufsz,     \* serial->config.bufsz, at least 2 for reception by interrupt
    Lengths,   \* what readers beside the shell ask for
    MaxSem     \* RT_SEM_VALUE_MAX

ASSUME SerialRxAssumption ==
    /\ bufsz \in Nat \ {0, 1} /\ Lengths \subseteq Nat \ {0} /\ MaxSem \in Nat \ {0}

VARIABLES
    rx,       \* the FIFO and the hardware behind it, see Fifo
    shell,    \* where the shell is: read, take, asleep (on rx_sem)
    rx_sem,   \* value of shell->rx_sem
    isr,      \* has the interrupt handler characters it has not told of?
    unread    \* history: what was received and not read or given up since

rxVars == <<rx, shell, rx_sem, isr, unread>>

(* pending counts the characters that the DMA has stored and no interrupt   *)
(* has told of.                                                            *)
Fifo == [dma : BOOLEAN, buffer : [0 .. bufsz - 1 -> Chars \cup {Blank}],
         put_index : 0 .. bufsz - 1, get_index : 0 .. bufsz - 1, is_full : BOOLEAN,
         pending : 0 .. bufsz]

RxInit ==
    /\ rx \in [dma : BOOLEAN, buffer : {[i \in 0 .. bufsz - 1 |-> Blank]},
               put_index : {0}, get_index : {0}, is_full : {FALSE}, pending : {0}]
    /\ shell = "read" /\ rx_sem = 0 /\ isr = FALSE /\ unread = <<>>

-----------------------------------------------------------------------------
(* _serial_fifo_calc_recved_len *)
Received(f) ==
    IF f.put_index = f.get_index THEN (IF f.is_full THEN bufsz ELSE 0)
    ELSE IF f.put_index > f.get_index THEN f.put_index - f.get_index
    ELSE bufsz - (f.get_index - f.put_index)

(* finsh_rx_ind: rt_sem_release, which refuses above RT_SEM_VALUE_MAX. *)
finsh_rx_ind ==
    IF shell = "asleep" THEN shell' = "read" /\ UNCHANGED rx_sem
    ELSE /\ rx_sem' = IF rx_sem < MaxSem THEN rx_sem + 1 ELSE rx_sem
         /\ UNCHANGED shell

LastOf(s, n) == IF Len(s) <= n THEN s ELSE SubSeq(s, Len(s) - n + 1, Len(s))

(* RT_SERIAL_EVENT_RX_IND, for each character: the oldest one goes when the *)
(* next position is that of the reader.                                    *)
IsrRxInd(ch) ==
    /\ ~rx.dma
    /\ LET put == (rx.put_index + 1) % bufsz IN
       rx' = [rx EXCEPT !.buffer[rx.put_index] = ch, !.put_index = put,
                        !.get_index = IF put = @ THEN (@ + 1) % bufsz ELSE @,
                        !.is_full = @ \/ put = rx.get_index]
    /\ isr' = TRUE
    /\ unread' = LastOf(Append(unread, ch), bufsz - 1)
    /\ UNCHANGED <<shell, rx_sem>>

(* A plausible slip: the length is taken from one end of the buffer only. *)
IndicatesUnwrapped ==
    /\ isr
    /\ isr' = FALSE
    /\ IF rx.put_index > rx.get_index THEN finsh_rx_ind ELSE UNCHANGED <<shell, rx_sem>>
    /\ UNCHANGED <<rx, unread>>

(* The handler leaves, having told of a length that is not 0. *)
IsrIndicates ==
    /\ isr
    /\ isr' = FALSE
    /\ IF rx.put_index # rx.get_index THEN finsh_rx_ind ELSE UNCHANGED <<shell, rx_sem>>
    /\ UNCHANGED <<rx, unread>>

(* The DMA stores on, in a circle, until its next interrupt. *)
DmaStores(ch) ==
    /\ rx.dma /\ rx.pending < bufsz
    /\ rx' = [rx EXCEPT !.buffer[(rx.put_index + rx.pending) % bufsz] = ch, !.pending = @ + 1]
    /\ UNCHANGED <<shell, rx_sem, isr, unread>>

(* rt_dma_recv_update_put_index *)
PutAdvanced(f, len) ==
    LET put  == f.put_index + len
        full == \/ f.is_full
                \/ IF f.get_index <= f.put_index
                   THEN put >= bufsz /\ put % bufsz >= f.get_index
                   ELSE put >= f.get_index
    IN  [f EXCEPT !.put_index = put % bufsz, !.is_full = full,
                  !.get_index = IF full THEN put % bufsz ELSE @]

(* RT_SERIAL_EVENT_RX_DMADONE tells of all that was stored since. *)
IsrRxDmaDone ==
    /\ rx.dma /\ rx.pending > 0
    /\ rx' = [PutAdvanced(rx, rx.pending) EXCEPT !.pending = 0]
    /\ unread' = LastOf(unread \o [i \in 1 .. rx.pending |->
                            rx.buffer[(rx.put_index + i - 1) % bufsz]], bufsz)
    /\ finsh_rx_ind
    /\ UNCHANGED isr

-----------------------------------------------------------------------------
(* _serial_int_rx and _serial_dma_rx: n characters leave the FIFO. *)
GetAdvanced(f, n) ==
    [f EXCEPT !.get_index = (@ + n) % bufsz, !.is_full = IF n = 0 THEN @ ELSE FALSE]

Least(m, n) == IF m < n THEN m ELSE n

Reads(n) ==
    /\ ~isr
    /\ rx' = GetAdvanced(rx, n)
    /\ unread' = SubSeq(unread, n + 1, Len(unread))

(* Another reader.  By interrupt each character is a region of its own. *)
rt_serial_read(n) ==
    /\ Received(rx) > 0 /\ (~rx.dma => n = 1)
    /\ Reads(Least(n, Received(rx)))
    /\ UNCHANGED <<shell, rx_sem, isr>>

(* finsh_getchar: read; if there is nothing, take the semaphore and read    *)
(* again.                                                                  *)
ShellReads ==
    /\ shell = "read"
    /\ Reads(Least(1, Received(rx)))
    /\ shell' = IF Received(rx) = 0 THEN "take" ELSE "read"
    /\ UNCHANGED <<rx_sem, isr>>

ShellTakes ==
    /\ shell = "take" /\ ~isr
    /\ IF rx_sem > 0 THEN rx_sem' = rx_sem - 1 /\ shell' = "read"
       ELSE shell' = "asleep" /\ UNCHANGED rx_sem
    /\ UNCHANGED <<rx, isr, unread>>

RxNext ==
    \/ \E ch \in Chars : IsrRxInd(ch) \/ DmaStores(ch)
    \/ IsrIndicates \/ IsrRxDmaDone
    \/ \E n \in Lengths : rt_serial_read(n)
    \/ ShellReads \/ ShellTakes

-----------------------------------------------------------------------------
(* Properties *)

(* What the FIFO hands out next. *)
Stored == [i \in 1 .. Received(rx) |-> rx.buffer[(rx.get_index + i - 1) % bufsz]]

(* The FIFO holds the latest characters that were not read, all but one of  *)
(* bufsz by interrupt and all of them by DMA, in order, across wrap-around  *)
(* and overrun -- unless the DMA overruns the reader before its interrupt   *)
(* tells of it; and the shell does not sleep while there is one.            *)
ReceivedReachesShell ==
    /\ rx \in Fifo
    /\ Received(rx) + rx.pending <= bufsz => Stored = unread
    /\ shell = "asleep" /\ ~isr => Received(rx) = 0
=============================================================================
