------------------------------ MODULE MemPool ------------------------------
(***************************************************************************)
(* A memory pool of src/mempool.c.  The word before a block is the pointer  *)
(* to the next free block while the block is free, and to its pool while it *)
(* is allocated.                                                           *)
(***************************************************************************)
EXTENDS Waiters, Chains

CONSTANT PoolSize    \* mp->block_total_count

ASSUME MpSizeAssumption == PoolSize \in Nat \ {0}

VARIABLES
    mp,      \* the object, see MpObject
    inUse    \* history: blocks allocated and not freed

mpVars == <<mp, inUse>>

PoolBlocks == 1 .. PoolSize
Pool       == PoolSize + 1     \* the address of mp itself

MpObject == [word             : [PoolBlocks -> PoolBlocks \cup {Null, Pool}],
             block_list       : PoolBlocks \cup {Null},
             block_free_count : 0 .. PoolSize,
             live             : BOOLEAN]

AllFree == [word |-> [b \in PoolBlocks |-> IF b = PoolSize THEN Null ELSE b + 1],
            block_list |-> 1, block_free_count |-> PoolSize, live |-> TRUE]

MpStored(live) == mp = [AllFree EXCEPT !.live = live] /\ inUse = {}

MpInit == WaitersInit /\ MpStored(TRUE)

-----------------------------------------------------------------------------
(* A plausible slip: the block keeps the link to the next free one. *)
AllocKeepsLink(t) ==
    /\ Tests(t, "recv") /\ mp.live /\ mp.block_free_count # 0
    /\ mp' = [mp EXCEPT !.block_free_count = @ - 1,
                        !.block_list = mp.word[mp.block_list]]
    /\ inUse' = inUse \cup {mp.block_list}
    /\ Goto(t, "run")

(* rt_mp_alloc: the region that finds a free block ... *)
rt_mp_alloc(t) ==
    /\ Tests(t, "recv") /\ mp.live /\ mp.block_free_count # 0
    /\ mp' = [mp EXCEPT !.block_free_count = @ - 1,
                        !.block_list = mp.word[mp.block_list],
                        !.word[mp.block_list] = Pool]
    /\ inUse' = inUse \cup {mp.block_list}
    /\ Goto(t, "run")

(* ... and the one that finds none.  The latest to wait is the first. *)
MpAllocSuspends(t, ticks) ==
    /\ Tests(t, "recv") /\ mp.live /\ mp.block_free_count = 0
    /\ Suspend(t, "recv", rt_list_insert_after(list["recv"], t), ticks)
    /\ UNCHANGED mpVars

MpAllocGivesUp(t) ==
    /\ mp.block_free_count = 0 /\ GivesUp(t, "recv")
    /\ UNCHANGED mpVars

(* rt_mp_free of a block that is allocated.  It finds the pool through the  *)
(* block.                                                                  *)
rt_mp_free(t, block) ==
    /\ pc[t] = "run" /\ mp.live /\ block \in inUse
    /\ mp.word[block] = Pool
    /\ mp' = [mp EXCEPT !.block_free_count = @ + 1,
                        !.word[block] = mp.block_list,
                        !.block_list = block]
    /\ inUse' = inUse \ {block}
    /\ ResumeFirst("recv", t, "run")

(* rt_mp_detach, rt_mp_delete by a caller that disables interrupts, when     *)
(* nobody is left who would touch the object.                              *)
rt_mp_delete ==
    /\ mp.live /\ NobodyInside
    /\ mp' = [mp EXCEPT !.live = FALSE]
    /\ inUse' = {}
    /\ _ipc_list_resume_all

(* rt_mp_init, rt_mp_create at the same place. *)
rt_mp_init ==
    /\ ~mp.live
    /\ mp' = AllFree
    /\ UNCHANGED <<waiters, inUse>>

MpThread(t) ==
    \/ rt_mp_alloc(t)
    \/ \E block \in inUse : rt_mp_free(t, block)
    \/ \E ticks \in BOOLEAN : MpAllocSuspends(t, ticks)
    \/ MpAllocGivesUp(t)
    \/ (_thread_timeout(t) \/ rt_thread_delete(t)) /\ UNCHANGED mpVars

MpNext == (\E t \in Threads : MpThread(t)) \/ rt_mp_delete \/ rt_mp_init

MpSpec == MpInit /\ [][MpNext]_<<waiters, mpVars>>

-----------------------------------------------------------------------------
(* Properties *)

MpTypeOK ==
    /\ WaitersTypeOK
    /\ mp \in MpObject
    /\ inUse \subseteq PoolBlocks

(* A block is free or in use and never both, so that nobody is given one    *)
(* that another still has; the count is right; and a block in use leads     *)
(* back to its pool.                                                       *)
PoolConserved ==
    LET free == Chain(mp.word, mp.block_list) IN
    mp.live =>
        /\ NoDup(free)
        /\ Linked(free) = PoolBlocks \ inUse
        /\ mp.block_free_count = Len(free)
        /\ \A b \in inUse : mp.word[b] = Pool

(* Nobody waits for a block that is free. *)
MpServed == mp.live => Served("recv", mp.block_free_count)
=============================================================================
