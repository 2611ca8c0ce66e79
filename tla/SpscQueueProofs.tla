---------------------------- MODULE SpscQueueProofs ----------------------------
(***************************************************************************)
(* SpscQueue for every capacity and every kind of item.                    *)
(***************************************************************************)
EXTENDS SpscQueue, SequenceTheorems, TLAPS

\* The inductive invariant.  Going round the ring: tail_view is not past tail, tail
\* not past head_view, head_view not past head; and each side's test, made on the
\* index it saw, still holds while it works on its slot, and what it copied is there.
RingInv ==
    /\ Dist(tail, head) <= Dist(tail_view, head)
    /\ Dist(tail, head_view) <= Dist(tail, head)
    /\ p_pc # "idle" => Succ(head) # tail_view
    /\ p_pc = "publish" => buf[head] = p_item
    /\ c_pc # "idle" => tail # head_view
    /\ c_pc = "release" => c_item = buf[tail]

\* (i + 1) & kMask stays in the ring.
LEMMA SuccSlot == ASSUME NEW i \in Slot PROVE Succ(i) \in Slot
  BY QueueAssumption DEF Slot, Succ

\* Moving the far end on by one adds one to the distance, unless it runs into the
\* near end; moving the near end on takes one off, unless the two are equal.
LEMMA DistSucc ==
    ASSUME NEW a \in Slot, NEW b \in Slot
    PROVE  /\ Dist(a, b) \in 0 .. Capacity - 1
           /\ Dist(a, b) = 0 <=> a = b
           /\ Succ(b) # a => Dist(a, Succ(b)) = Dist(a, b) + 1
           /\ Succ(b) = a <=> Dist(a, b) = Capacity - 1
           /\ a # b => Dist(Succ(a), b) = Dist(a, b) - 1
  BY QueueAssumption DEF Slot, Succ, Dist

\* Indices stay in the ring and slots hold items.
THEOREM TypeCorrect == Spec => []TypeOK
  <1>1. Init => TypeOK
    BY QueueAssumption DEF Init, TypeOK, Slot
  <1>2. TypeOK /\ [Next]_vars => TypeOK'
    <2> SUFFICES ASSUME TypeOK, [Next]_vars PROVE TypeOK'
      OBVIOUS
    <2>1. Succ(head) \in Slot /\ Succ(tail) \in Slot
      BY SuccSlot DEF TypeOK
    <2>2. ASSUME NEW x \in Item, PushCheck(x) PROVE TypeOK'
      BY <2>2 DEF TypeOK, PushCheck
    <2>3. CASE PushWrite
      BY <2>3 DEF TypeOK, PushWrite
    <2>4. CASE PushPublish
      BY <2>1, <2>4 DEF TypeOK, PushPublish
    <2>5. CASE PopCheck
      BY <2>5 DEF TypeOK, PopCheck
    <2>6. CASE PopRead
      BY <2>6 DEF TypeOK, PopRead
    <2>7. CASE PopRelease
      BY <2>1, <2>7 DEF TypeOK, PopRelease
    <2>8. CASE SeeTail \/ SeeHead
      BY <2>8 DEF TypeOK, SeeTail, SeeHead
    <2>9. CASE UNCHANGED vars
      BY <2>9 DEF TypeOK, vars
    <2> QED
      BY <2>2, <2>3, <2>4, <2>5, <2>6, <2>7, <2>8, <2>9 DEF Next, Push, Pop
  <1> QED
    BY <1>1, <1>2, PTL DEF Spec

\* The producer's and the consumer's views of each other only ever err on the safe
\* side.
THEOREM RingCorrect == Spec => []RingInv
  <1>1. Init => RingInv
    BY QueueAssumption DEF Init, RingInv, Dist, Succ
  <1>2. TypeOK /\ RingInv /\ [Next]_vars => RingInv'
    <2> SUFFICES ASSUME TypeOK, RingInv, [Next]_vars PROVE RingInv'
      OBVIOUS
    <2>0. /\ head \in Slot /\ tail \in Slot /\ head_view \in Slot /\ tail_view \in Slot
          /\ Capacity \in Nat /\ Capacity >= 2
      BY QueueAssumption DEF TypeOK
    <2>1. c_pc # "idle" => head # tail
      BY <2>0, DistSucc DEF RingInv
    <2>2. ASSUME NEW x \in Item, PushCheck(x) PROVE RingInv'
      BY <2>2 DEF RingInv, PushCheck
    <2>3. CASE PushWrite
      BY <2>3, <2>1 DEF RingInv, PushWrite, TypeOK
    <2>4. CASE PushPublish
      <3>1. Succ(head) # tail_view /\ head' = Succ(head)
        BY <2>4 DEF RingInv, PushPublish
      <3>2. Succ(head) # tail
        BY <2>0, <3>1, DistSucc DEF RingInv
      <3>3. /\ Dist(tail, Succ(head)) = Dist(tail, head) + 1
            /\ Dist(tail_view, Succ(head)) = Dist(tail_view, head) + 1
        BY <2>0, <3>1, <3>2, DistSucc
      <3>4. /\ Dist(tail, head) \in Int /\ Dist(tail_view, head) \in Int
            /\ Dist(tail, head_view) \in Int
        BY <2>0, DistSucc
      <3> QED
        BY <2>4, <3>1, <3>3, <3>4 DEF RingInv, PushPublish
    <2>5. CASE PopCheck
      BY <2>5 DEF RingInv, PopCheck
    <2>6. CASE PopRead
      BY <2>6 DEF RingInv, PopRead
    <2>7. CASE PopRelease
      <3>1. tail # head_view /\ tail # head /\ tail' = Succ(tail)
        BY <2>7, <2>1 DEF RingInv, PopRelease
      <3>2. /\ Dist(Succ(tail), head) = Dist(tail, head) - 1
            /\ Dist(Succ(tail), head_view) = Dist(tail, head_view) - 1
        BY <2>0, <3>1, DistSucc
      <3>3. /\ Dist(tail, head) \in Int /\ Dist(tail_view, head) \in Int
            /\ Dist(tail, head_view) \in Int
        BY <2>0, DistSucc
      <3> QED
        BY <2>7, <3>1, <3>2, <3>3 DEF RingInv, PopRelease
    <2>8. CASE SeeTail
      <3>1. p_pc # "idle" => Succ(head) # tail
        BY <2>0, DistSucc DEF RingInv
      <3>2. Dist(tail, head) \in Int
        BY <2>0, DistSucc
      <3> QED
        BY <2>8, <3>1, <3>2 DEF RingInv, SeeTail
    <2>9. CASE SeeHead
      <3>1. Dist(tail, head) \in Int
        BY <2>0, DistSucc
      <3> QED
        BY <2>9, <2>1, <3>1 DEF RingInv, SeeHead
    <2>10. CASE UNCHANGED vars
      BY <2>10 DEF RingInv, vars
    <2> QED
      BY <2>2, <2>3, <2>4, <2>5, <2>6, <2>7, <2>8, <2>9, <2>10 DEF Next, Push, Pop
  <1> QED
    BY <1>1, <1>2, TypeCorrect, PTL DEF Spec

\* push never writes the slot pop is reading, for any capacity and any staleness of
\* the indices.
THEOREM RaceFree == Spec => []NoSlotRace
  <1>1. TypeOK /\ RingInv => NoSlotRace
    BY DistSucc DEF TypeOK, RingInv, NoSlotRace
  <1> QED
    BY <1>1, TypeCorrect, RingCorrect, PTL

-----------------------------------------------------------------------------
\* The slot i places after the tail; Contents lists those of 0 .. size - 1.
Place(t, i) == IF t + i < Capacity THEN t + i ELSE t + i - Capacity

\* Contents is a sequence of items, as long as size, held in the slots from tail on.
LEMMA ContentsShape ==
    ASSUME TypeOK
    PROVE  /\ size \in 0 .. Capacity - 1
           /\ Contents \in Seq(Item) /\ Len(Contents) = size
           /\ \A i \in 1 .. size : Contents[i] = buf[Place(tail, i - 1)]
           /\ \A i \in 0 .. size - 1 : Place(tail, i) \in Slot /\ Place(tail, i) # head
  <1>1. size \in 0 .. Capacity - 1
    BY DistSucc DEF size, TypeOK
  <1>2. \A i \in 0 .. size - 1 : Place(tail, i) \in Slot /\ Place(tail, i) # head
    BY <1>1, QueueAssumption DEF size, Dist, Place, Slot, TypeOK
  <1>3. \A i \in 1 .. size : i - 1 \in 0 .. size - 1 /\ tail + (i - 1) = tail + i - 1
    BY <1>1 DEF TypeOK, Slot
  <1>4. Contents = [i \in 1 .. size |-> buf[Place(tail, i - 1)]]
    BY <1>1, <1>3 DEF Contents, Place, TypeOK, Slot
  <1>5. \A i \in 1 .. size : buf[Place(tail, i - 1)] \in Item
    BY <1>2, <1>3 DEF TypeOK
  <1> QED
    BY <1>1, <1>2, <1>4, <1>5

\* The steps of push and pop that are not publishing ones leave the contents alone.
LEMMA ContentsStutter ==
    ASSUME TypeOK, TypeOK', UNCHANGED <<head, tail>>,
           \A s \in Slot \ {head} : buf'[s] = buf[s]
    PROVE  Contents' = Contents
  <1>1. size' = size
    BY DEF size, Dist
  <1>2. \A i \in 1 .. size : Contents'[i] = Contents[i]
    <2> SUFFICES ASSUME NEW i \in 1 .. size PROVE Contents'[i] = Contents[i]
      OBVIOUS
    <2>1. i - 1 \in 0 .. size - 1
      BY ContentsShape
    <2>2. Place(tail, i - 1) \in Slot \ {head}
      BY <2>1, ContentsShape
    <2>3. Contents[i] = buf[Place(tail, i - 1)]
      BY ContentsShape
    <2>4. Contents'[i] = buf'[Place(tail, i - 1)]
      BY <1>1 DEF Contents, Place, TypeOK, Slot
    <2> QED
      BY <2>2, <2>3, <2>4
  <1> QED
    BY <1>1, <1>2 DEF Contents

\* push and pop implement the FIFO queue they promise (its safety part): an accepted
\* item is the one push was given, is appended when its index is published, removed when its slot is released,
\* and is the one handed out.
THEOREM Refinement == Spec => Fifo!Spec
  <1>1. Init => Fifo!Init
    <2> SUFFICES ASSUME Init PROVE Fifo!Init
      OBVIOUS
    <2>1. size = 0
      BY DEF Init, size, Dist
    <2>2. Contents = <<>>
      BY <2>1 DEF Contents
    <2> QED
      BY <2>2, QueueAssumption DEF Init, Fifo!Init
  <1>2. TypeOK /\ TypeOK' /\ RingInv /\ [Next]_vars
          => [Fifo!Next]_<<Contents, popped, p_item, p_pc # "idle">>
    <2> SUFFICES ASSUME TypeOK, TypeOK', RingInv, [Next]_vars
                 PROVE  Fifo!Next \/ UNCHANGED <<Contents, popped, p_item, p_pc # "idle">>
      OBVIOUS
    <2>1. ASSUME UNCHANGED <<head, tail, buf, popped>> PROVE UNCHANGED <<Contents, popped>>
      BY <2>1, ContentsStutter
    <2>2. ASSUME NEW x \in Item, PushCheck(x) PROVE Fifo!Next
      BY <2>2, <2>1 DEF PushCheck, Fifo!Next, Fifo!Offer
    <2>3. CASE PushWrite
      <3>1. \A s \in Slot \ {head} : buf'[s] = buf[s]
        BY <2>3 DEF PushWrite, TypeOK
      <3>2. UNCHANGED <<head, tail, popped, p_item>> /\ p_pc = "write" /\ p_pc' = "publish"
        BY <2>3 DEF PushWrite
      <3> QED
        BY <3>1, <3>2, ContentsStutter
    <2>4. CASE PushPublish
      <3>0. /\ head' = Succ(head) /\ UNCHANGED <<tail, buf, popped, p_item>>
            /\ p_pc = "publish" /\ p_pc' = "idle"
            /\ Succ(head) # tail_view /\ buf[head] = p_item
        BY <2>4 DEF PushPublish, RingInv
      <3>1. size < Capacity - 1 /\ size' = size + 1 /\ size \in Nat
        BY <3>0, DistSucc DEF TypeOK, RingInv, size
      <3>2. Place(tail, size) = head
        BY QueueAssumption DEF Place, size, Dist, TypeOK, Slot
      <3>3. Contents' = Append(Contents, buf[head])
        <4>1. Contents' = [i \in 1 .. size + 1 |-> buf[Place(tail, i - 1)]]
          BY <3>0, <3>1 DEF Contents, Place, TypeOK, Slot
        <4>2. Contents = [i \in 1 .. size |-> buf[Place(tail, i - 1)]]
          BY <3>1 DEF Contents, Place, TypeOK, Slot
        <4>3. buf[Place(tail, (size + 1) - 1)] = buf[head]
          BY <3>1, <3>2
        <4> HIDE DEF size, Contents, Place
        <4> QED
          BY <4>1, <4>2, <4>3, <3>1
      <3>4. Len(Contents) < Capacity - 1 /\ buf[head] \in Item
        BY <3>1, ContentsShape DEF TypeOK
      <3> QED
        BY <3>0, <3>3, <3>4 DEF Fifo!Next, Fifo!Put
    <2>5. CASE PopCheck
      BY <2>5, <2>1 DEF PopCheck
    <2>6. CASE PopRead
      BY <2>6, <2>1 DEF PopRead
    <2>7. CASE PopRelease
      <3>0. /\ tail' = Succ(tail) /\ UNCHANGED <<head, buf, p_pc, p_item>>
            /\ tail # head_view /\ popped' = buf[tail]
        BY <2>7 DEF PopRelease, RingInv
      <3>1. tail # head
        BY <3>0, DistSucc DEF TypeOK, RingInv
      <3>2. size \in 1 .. Capacity - 1 /\ size' = size - 1
        BY <3>0, <3>1, DistSucc, QueueAssumption DEF TypeOK, size
      <3>3. Place(tail, 0) = tail /\ 1 \in 1 .. size
        BY <3>2, QueueAssumption DEF Place, TypeOK, Slot
      <3>4. Contents # <<>> /\ Head(Contents) = buf[tail]
        BY <3>2, <3>3, ContentsShape
      <3>5. Contents' = Tail(Contents)
        <4>1. \A n \in 1 .. Capacity - 1 : \A i \in 1 .. n - 1 :
                 Place(Succ(tail), i - 1) = Place(tail, (i + 1) - 1)
          BY QueueAssumption DEF Place, Succ, TypeOK, Slot
        <4>2. Contents' = [i \in 1 .. size - 1 |-> buf[Place(Succ(tail), i - 1)]]
          BY <3>0, <3>2 DEF Contents, Place, TypeOK, Slot
        <4>3. Contents = [i \in 1 .. size |-> buf[Place(tail, i - 1)]]
          BY <3>2 DEF Contents, Place, TypeOK, Slot
        <4>4. Tail(Contents) = [i \in 1 .. size - 1 |-> Contents[i + 1]]
          <5>1. Contents \in Seq(Item) /\ Contents # <<>> /\ Len(Contents) = size
            BY <3>4, ContentsShape
          <5>2. /\ Tail(Contents) \in Seq(Item) /\ Len(Tail(Contents)) = size - 1
                /\ \A i \in 1 .. size - 1 : Tail(Contents)[i] = Contents[i + 1]
            BY <5>1, HeadTailProperties
          <5>3. Tail(Contents) \in [1 .. size - 1 -> Item]
            BY <5>2, LenProperties
          <5> QED
            BY <5>2, <5>3
        <4>5. \A i \in 1 .. size - 1 : Contents[i + 1] = buf[Place(tail, (i + 1) - 1)]
          BY <4>3, <3>2
        <4> QED
          BY <4>1, <4>2, <4>4, <4>5, <3>2
      <3> QED
        BY <3>0, <3>4, <3>5 DEF Fifo!Next, Fifo!Get
    <2>8. CASE SeeTail \/ SeeHead
      BY <2>8, <2>1 DEF SeeTail, SeeHead
    <2>9. CASE UNCHANGED vars
      BY <2>9, <2>1 DEF vars
    <2> QED
      BY <2>2, <2>3, <2>4, <2>5, <2>6, <2>7, <2>8, <2>9 DEF Next, Push, Pop
  <1> QED
    BY <1>1, <1>2, TypeCorrect, RingCorrect, PTL DEF Spec, Fifo!Spec, Fifo!vars
=============================================================================
