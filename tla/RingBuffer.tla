----------------------------- MODULE RingBuffer -----------------------------
(***************************************************************************)
(* The ring buffer of components/drivers/ipc/ringbuffer.c: two indices and  *)
(* a mirror bit each, which tell a full buffer from an empty one.           *)
(*                                                                         *)
(* It takes no lock: a call is one step because its callers serialise them, *)
(* as the pipe does with its mutex.                                        *)
(***************************************************************************)
EXTENDS Integers, Sequences

CONSTANTS
    Bytes,       \* what is stored
    NoByte,      \* what the buffer holds before
    RingSize,    \* rb->buffer_size
    Blocks       \* what callers put, a set of sequences of Bytes

ASSUME RingAssumption ==
    RingSize \in Nat \ {0} /\ Blocks \subseteq Seq(Bytes) /\ NoByte \notin Bytes

VARIABLES
    ring,   \* the ring buffer, see Ring
    kept    \* history: what was put and neither read nor overwritten since

ringVars == <<ring, kept>>

Ring == [buffer : [0 .. RingSize - 1 -> Bytes \cup {NoByte}],
         read_mirror : BOOLEAN, read_index : 0 .. RingSize - 1,
         write_mirror : BOOLEAN, write_index : 0 .. RingSize - 1]

RingInit ==
    /\ ring = [buffer |-> [i \in 0 .. RingSize - 1 |-> NoByte],
               read_mirror |-> FALSE, read_index |-> 0,
               write_mirror |-> FALSE, write_index |-> 0]
    /\ kept = <<>>

-----------------------------------------------------------------------------
Full  == ring.read_index = ring.write_index /\ ring.read_mirror # ring.write_mirror
Empty == ring.read_index = ring.write_index /\ ring.read_mirror = ring.write_mirror

rt_ringbuffer_data_len ==
    IF Empty THEN 0
    ELSE IF Full THEN RingSize
    ELSE IF ring.write_index > ring.read_index THEN ring.write_index - ring.read_index
    ELSE RingSize - (ring.read_index - ring.write_index)

rt_ringbuffer_space_len == RingSize - rt_ringbuffer_data_len

(* Both ends of the buffer are written if s goes beyond the end. *)
Stores(s) ==
    [i \in 0 .. RingSize - 1 |->
        LET k == (i - ring.write_index) % RingSize
        IN  IF k < Len(s) THEN s[k + 1] ELSE ring.buffer[i]]

Crosses(index, n) == ~(RingSize - index > n)

Written(s) ==
    LET n == Len(s) IN
    [ring EXCEPT !.buffer = Stores(s),
                 !.write_mirror = IF Crosses(ring.write_index, n) THEN ~@ ELSE @,
                 !.write_index = IF Crosses(@, n) THEN n - (RingSize - @) ELSE @ + n]

Read(n) ==
    [ring EXCEPT !.read_mirror = IF Crosses(ring.read_index, n) THEN ~@ ELSE @,
                 !.read_index = IF Crosses(@, n) THEN n - (RingSize - @) ELSE @ + n]

Lesser(m, n)    == IF m < n THEN m ELSE n
Latest(s)       == SubSeq(s, Len(s) - Lesser(Len(s), RingSize) + 1, Len(s))
Without1st(s, n) == SubSeq(s, n + 1, Len(s))

-----------------------------------------------------------------------------
(* What does not fit is dropped. *)
rt_ringbuffer_put(s) ==
    LET fits == SubSeq(s, 1, Lesser(Len(s), rt_ringbuffer_space_len)) IN
    /\ ring' = IF rt_ringbuffer_space_len = 0 THEN ring ELSE Written(fits)
    /\ kept' = kept \o fits

(* A plausible slip: the reader's mirror bit is flipped whenever the writer *)
(* crosses the end.                                                        *)
PutForceFlipsAlways(s) ==
    LET last == Latest(s)  written == Written(last)
        full == Len(last) > rt_ringbuffer_space_len
    IN  /\ ring' = IF ~full THEN written
                   ELSE [written EXCEPT
                            !.read_mirror = IF Crosses(ring.write_index, Len(last)) THEN ~@ ELSE @,
                            !.read_index = written.write_index]
        /\ kept' = Latest(kept \o s)

(* What was there is overwritten, the reader moved to the oldest byte left. *)
rt_ringbuffer_put_force(s) ==
    LET last == Latest(s)  written == Written(last)
        full == Len(last) > rt_ringbuffer_space_len
    IN  /\ ring' = IF ~full THEN written
                   ELSE [written EXCEPT
                            !.read_mirror = IF /\ Crosses(ring.write_index, Len(last))
                                               /\ written.write_index <= ring.read_index
                                            THEN ~@ ELSE @,
                            !.read_index = written.write_index]
        /\ kept' = Latest(kept \o s)

rt_ringbuffer_putchar(ch) ==
    /\ rt_ringbuffer_space_len > 0
    /\ ring' = Written(<<ch>>)
    /\ kept' = Append(kept, ch)

rt_ringbuffer_putchar_force(ch) ==
    LET written == Written(<<ch>>) IN
    /\ ring' = IF ~Full THEN written
               ELSE [written EXCEPT
                        !.read_mirror = IF Crosses(ring.write_index, 1) THEN ~@ ELSE @,
                        !.read_index = written.write_index]
    /\ kept' = Latest(Append(kept, ch))

rt_ringbuffer_get(n) ==
    LET size == Lesser(n, rt_ringbuffer_data_len) IN
    /\ ring' = IF size = 0 THEN ring ELSE Read(size)
    /\ kept' = Without1st(kept, size)

rt_ringbuffer_getchar == rt_ringbuffer_data_len > 0 /\ rt_ringbuffer_get(1)

(* The bytes up to the end of the buffer are handed out where they are. *)
rt_ringbuffer_peak ==
    LET size == Lesser(rt_ringbuffer_data_len, RingSize - ring.read_index) IN
    /\ rt_ringbuffer_data_len > 0
    /\ ring' = Read(size)
    /\ kept' = Without1st(kept, size)

rt_ringbuffer_reset ==
    /\ ring' = [ring EXCEPT !.read_mirror = FALSE, !.read_index = 0,
                            !.write_mirror = FALSE, !.write_index = 0]
    /\ kept' = <<>>

RingNext ==
    \/ \E s \in Blocks : rt_ringbuffer_put(s) \/ rt_ringbuffer_put_force(s)
    \/ \E ch \in Bytes : rt_ringbuffer_putchar(ch) \/ rt_ringbuffer_putchar_force(ch)
    \/ \E n \in 1 .. RingSize + 1 : rt_ringbuffer_get(n)
    \/ rt_ringbuffer_getchar \/ rt_ringbuffer_peak \/ rt_ringbuffer_reset

-----------------------------------------------------------------------------
(* Properties *)

(* The buffer hands out, in order, exactly what was put and neither read    *)
(* nor overwritten: whatever mix of blocks and single bytes, forced or not, *)
(* crosses the end, empties or fills the buffer, the mirror bits tell full  *)
(* from empty.                                                             *)
HoldsLatest ==
    /\ ring \in Ring
    /\ kept = [i \in 1 .. rt_ringbuffer_data_len |->
                 ring.buffer[(ring.read_index + i - 1) % RingSize]]
=============================================================================
