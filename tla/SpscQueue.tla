------------------------------ MODULE SpscQueue ------------------------------
(***************************************************************************)
(* sq::SpscQueue (include/smartquant/common/spsc_queue.hpp), the lock-free *)
(* ring between the market-data thread (push) and the alpha thread (pop).  *)
(*                                                                         *)
(* Each method is cut at its shared accesses.  An item is a multi-word     *)
(* LOBEvent, so the copy into or out of a slot takes time: p_pc = "write"  *)
(* and c_pc = "read" mean the copy is under way.                           *)
(*                                                                         *)
(* An acquire load may return a value the other thread has already         *)
(* replaced.  head_view and tail_view are what the loads return; they      *)
(* follow head and tail by steps of their own.  A release store makes the  *)
(* slot written before it visible together with the index, so buf needs no *)
(* view of its own.                                                        *)
(***************************************************************************)
EXTENDS Integers, Sequences

CONSTANTS
    Item,       \* T
    Zero,       \* T{}: what the slots hold initially
    Capacity    \* template parameter, a power of two; one slot stays empty

ASSUME QueueAssumption ==
    /\ Capacity \in Nat /\ Capacity >= 2
    /\ Zero \in Item

VARIABLES
    head, tail,             \* head_, tail_
    buf,                    \* buf_
    tail_view, head_view,   \* what acquire loads of the other side's index return
    p_pc, p_item,           \* push: place, argument
    c_pc, c_item,           \* pop: place, out
    popped                  \* what the last successful pop returned

vars == <<head, tail, buf, tail_view, head_view, p_pc, p_item, c_pc, c_item, popped>>

Slot == 0 .. Capacity - 1

\* Fault: the mask left out.
Succ_NoMask(i) == i + 1

\* (i + 1) & kMask
Succ(i) == IF i + 1 = Capacity THEN 0 ELSE i + 1

\* (b - a) & kMask
Dist(a, b) == IF b >= a THEN b - a ELSE b - a + Capacity

size == Dist(tail, head)

Init ==
    /\ head = 0 /\ tail = 0 /\ tail_view = 0 /\ head_view = 0
    /\ buf = [s \in Slot |-> Zero]
    /\ p_pc = "idle" /\ p_item = Zero
    /\ c_pc = "idle" /\ c_item = Zero
    /\ popped = Zero

-----------------------------------------------------------------------------
(* Producer *)

\* Fault: a full ring is not noticed.
PushCheck_NoFullTest(x) ==
    /\ p_pc = "idle"
    /\ p_item' = x
    /\ p_pc' = "write"
    /\ UNCHANGED <<head, tail, buf, tail_view, head_view, c_pc, c_item, popped>>

\* The test for a full ring passes; when it does not, push returns false and
\* nothing changes.
PushCheck(x) ==
    /\ p_pc = "idle"
    /\ Succ(head) # tail_view
    /\ p_item' = x
    /\ p_pc' = "write"
    /\ UNCHANGED <<head, tail, buf, tail_view, head_view, c_pc, c_item, popped>>

\* Fault: the item goes into the slot that is about to become the head.
PushWrite_Next ==
    /\ p_pc = "write"
    /\ buf' = [buf EXCEPT ![Succ(head)] = p_item]
    /\ p_pc' = "publish"
    /\ UNCHANGED <<head, tail, tail_view, head_view, p_item, c_pc, c_item, popped>>

\* buf_[head] = item has completed.
PushWrite ==
    /\ p_pc = "write"
    /\ buf' = [buf EXCEPT ![head] = p_item]
    /\ p_pc' = "publish"
    /\ UNCHANGED <<head, tail, tail_view, head_view, p_item, c_pc, c_item, popped>>

PushPublish ==
    /\ p_pc = "publish"
    /\ head' = Succ(head)
    /\ p_pc' = "idle"
    /\ UNCHANGED <<tail, buf, tail_view, head_view, p_item, c_pc, c_item, popped>>

\* The consumer's release store of tail_ becomes visible to the producer.
SeeTail ==
    /\ tail_view' = tail
    /\ UNCHANGED <<head, tail, buf, head_view, p_pc, p_item, c_pc, c_item, popped>>

-----------------------------------------------------------------------------
(* Consumer *)

\* The test for an empty ring passes; otherwise pop returns false.
PopCheck ==
    /\ c_pc = "idle"
    /\ tail # head_view
    /\ c_pc' = "read"
    /\ UNCHANGED <<head, tail, buf, tail_view, head_view, p_pc, p_item, c_item, popped>>

\* out = buf_[tail] has completed.
PopRead ==
    /\ c_pc = "read"
    /\ c_item' = buf[tail]
    /\ c_pc' = "release"
    /\ UNCHANGED <<head, tail, buf, tail_view, head_view, p_pc, p_item, popped>>

PopRelease ==
    /\ c_pc = "release"
    /\ tail' = Succ(tail)
    /\ popped' = c_item
    /\ c_pc' = "idle"
    /\ UNCHANGED <<head, buf, tail_view, head_view, p_pc, p_item, c_item>>

\* The producer's release store of head_ becomes visible to the consumer.
SeeHead ==
    /\ head_view' = head
    /\ UNCHANGED <<head, tail, buf, tail_view, p_pc, p_item, c_pc, c_item, popped>>

-----------------------------------------------------------------------------
Push == (\E x \in Item : PushCheck(x)) \/ PushWrite \/ PushPublish
Pop  == PopCheck \/ PopRead \/ PopRelease

Next == Push \/ SeeTail \/ Pop \/ SeeHead

Spec == Init /\ [][Next]_vars

\* The alpha thread polls forever and stores become visible in finite time; the
\* producer may stop at any point.
FairSpec == Spec /\ WF_vars(Pop) /\ WF_vars(SeeHead)

-----------------------------------------------------------------------------
TypeOK ==
    /\ head \in Slot /\ tail \in Slot
    /\ tail_view \in Slot /\ head_view \in Slot
    /\ buf \in [Slot -> Item]
    /\ p_pc \in {"idle", "write", "publish"} /\ p_item \in Item
    /\ c_pc \in {"idle", "read", "release"} /\ c_item \in Item
    /\ popped \in Item

\* push against pop: no slot is copied into while it is being copied out of,
\* however old the index each side works from.
NoSlotRace == ~(p_pc = "write" /\ c_pc = "read" /\ head = tail)

\* The accepted items, oldest first.
Contents ==
    [i \in 1 .. size |-> buf[IF tail + i - 1 < Capacity
                             THEN tail + i - 1 ELSE tail + i - 1 - Capacity]]

Fifo == INSTANCE BoundedFifo WITH
    items <- Contents, Limit <- Capacity - 1, offered <- p_item, offering <- p_pc # "idle"

\* push and pop together implement a FIFO queue of Capacity - 1 items: what push was
\* given is what joins the queue, when its index is published, what pop hands out is
\* the oldest of them, and the queue is drained.
ImplementsFifo == Fifo!FairSpec
=============================================================================
