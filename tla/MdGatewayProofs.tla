---------------------------- MODULE MdGatewayProofs ----------------------------
(***************************************************************************)
(* The market-data gateway in its process, for any number of sessions and  *)
(* entries, any length of FastLogout and any queue.                        *)
(*                                                                         *)
(* First the data path by itself (MdPipeline): the levels of the book are  *)
(* the sums of their entries, and the log replays to the book.  Then the   *)
(* process: the same across sessions, and what ties the subscription flag, *)
(* the snapshots and the shutdown to the data.                             *)
(***************************************************************************)
EXTENDS MdGateway, ArithProofs

(* OrderBook *)

\* An update of one side is a book again, with the same entries.
LEMMA SideAddBook ==
    ASSUME NEW b \in Book, NEW side, NEW px \in BookPrice, NEW delta \in Int
    PROVE  SideAdd(b, side, px, delta) \in Book /\ SideAdd(b, side, px, delta).entries = b.entries
<1>1. ASSUME NEW l \in [BookPrice -> Nat] PROVE level_add(l, px, delta) \in [BookPrice -> Nat]
  BY DEF level_add
<1> DEFINE bids == IF side = "Bid" THEN level_add(b.bids, px, delta) ELSE b.bids
           asks == IF side = "Offer" THEN level_add(b.asks, px, delta) ELSE b.asks
<1>2. bids \in [BookPrice -> Nat] /\ asks \in [BookPrice -> Nat]  BY <1>1 DEF Book
<1>3. SideAdd(b, side, px, delta) = [b EXCEPT !.bids = bids, !.asks = asks]  BY DEF SideAdd
<1> HIDE DEF bids, asks
<1> QED  BY <1>2, <1>3 DEF Book

\* So is the book without the quantity of one entry.
LEMMA WithdrawBook ==
    ASSUME NEW b \in Book, NEW id \in EntryId
    PROVE  Withdraw(b, id) \in Book /\ Withdraw(b, id).entries = b.entries
<1>1. b.entries[id] \in EntryInfo  BY DEF Book
<1> DEFINE old == b.entries[id]
<1>2. old.price \in BookPrice /\ old.qty \in Nat  BY <1>1, BookAssumption DEF EntryInfo
<1>3. Withdraw(b, id) = SideAdd(b, old.side, old.price, -old.qty)  BY DEF Withdraw
<1> HIDE DEF old
<1>4. -old.qty \in Int  BY <1>2
<1> QED  BY <1>2, <1>3, <1>4, SideAddBook

\* What update does to the entries.
Entry(old, e) ==
    IF e.action = "New" /\ ~(e.qty > 0) THEN old
    ELSE IF e.action = "Delete" \/ ~(e.qty > 0) THEN NoEntry
    ELSE [side |-> e.side, price |-> e.price, qty |-> e.qty]

\* Setting one entry.
LEMMA SetEntry ==
    ASSUME NEW b \in Book, NEW id \in EntryId, NEW x \in EntryInfo
    PROVE  /\ [b EXCEPT !.entries[id] = x] \in Book
           /\ [b EXCEPT !.entries[id] = x].entries = [b.entries EXCEPT ![id] = x]
  BY DEF Book

\* update changes the entry its event names, by what the event says, and no other.
LEMMA UpdateBookEntries ==
    ASSUME NEW b \in Book, NEW e \in LOBEvent
    PROVE  /\ update(b, e) \in Book
           /\ update(b, e).entries = [b.entries EXCEPT ![e.id] = Entry(b.entries[e.id], e)]
<1> DEFINE x == [side |-> e.side, price |-> e.price, qty |-> e.qty]
<1>1. /\ e.id \in EntryId /\ e.price \in BookPrice /\ e.qty \in Nat
      /\ x \in EntryInfo /\ e.action \in Action
  BY BookAssumption DEF LOBEvent, EntryInfo
<1>2. NoEntry \in EntryInfo  BY BookAssumption DEF NoEntry, EntryInfo, EntryType
<1> HIDE DEF x
<1>3. ASSUME NEW c \in Book
      PROVE  Record(c, e) \in Book /\ Record(c, e).entries = [c.entries EXCEPT ![e.id] = x]
  <2> DEFINE d == SideAdd(c, e.side, e.price, e.qty)
  <2>1. d \in Book /\ d.entries = c.entries  BY <1>1, SideAddBook
  <2>2. Record(c, e) = [d EXCEPT !.entries[e.id] = x]  BY DEF Record, x
  <2> HIDE DEF d
  <2> QED  BY <1>1, <2>1, <2>2, SetEntry
<1>4. ASSUME NEW c \in Book
      PROVE  /\ Forget(c, e.id) \in Book
             /\ Forget(c, e.id).entries = [c.entries EXCEPT ![e.id] = NoEntry]
  BY <1>1, <1>2, SetEntry DEF Forget
<1>5. Withdraw(b, e.id) \in Book /\ Withdraw(b, e.id).entries = b.entries
  BY <1>1, WithdrawBook
<1>6. CASE e.action = "New" /\ e.qty > 0
  BY <1>3, <1>6 DEF update, Entry, x
<1>7. CASE e.action = "New" /\ ~(e.qty > 0)
  <2>1. update(b, e) = b  BY <1>7 DEF update
  <2>2. Entry(b.entries[e.id], e) = b.entries[e.id]  BY <1>7 DEF Entry
  <2> QED  BY <1>1, <2>1, <2>2 DEF Book
<1>8. CASE e.action = "Change" /\ e.qty > 0
  <2>1. update(b, e) = Record(Withdraw(b, e.id), e)  BY <1>8 DEF update, ApplyChange
  <2>2. Entry(b.entries[e.id], e) = x  BY <1>8 DEF Entry, x
  <2> QED  BY <1>3, <1>5, <2>1, <2>2
<1>9. CASE (e.action = "Change" /\ ~(e.qty > 0)) \/ e.action = "Delete"
  <2>1. update(b, e) = Forget(Withdraw(b, e.id), e.id)
    BY <1>9 DEF update, ApplyChange, ApplyDelete
  <2>2. Entry(b.entries[e.id], e) = NoEntry  BY <1>9 DEF Entry
  <2> QED  BY <1>4, <1>5, <2>1, <2>2
<1> QED  BY <1>1, <1>6, <1>7, <1>8, <1>9 DEF Action

-----------------------------------------------------------------------------
(* The levels of the book *)

BookSide == {"Bid", "Offer"}

Level(b, side, p) == IF side = "Bid" THEN b.bids[p] ELSE b.asks[p]

\* What an entry contributes to one level.
Held(x, side, p) == IF x.side = side /\ x.price = p THEN x.qty ELSE 0

\* What the other entries contribute.
Rest(entries, id, side, p) ==
    SumFunctionOnSet([i \in EntryId |-> entries[i].qty],
                     {i \in EntryId \ {id} : entries[i].side = side /\ entries[i].price = p})

LevelInv(b, overwritten) ==
    \A side \in BookSide, p \in BookPrice :
        /\ Level(b, side, p) >= EntrySum(b, side, p)
        /\ ~overwritten => Level(b, side, p) = EntrySum(b, side, p)

\* One entry taken out of the sum.
LEMMA SumSplit ==
    ASSUME NEW b \in Book, NEW id \in EntryId, NEW side, NEW p
    PROVE  /\ EntrySum(b, side, p) = Held(b.entries[id], side, p) + Rest(b.entries, id, side, p)
           /\ Rest(b.entries, id, side, p) \in Nat /\ Held(b.entries[id], side, p) \in Nat
<1> DEFINE q == [i \in EntryId |-> b.entries[i].qty]
           A == {i \in EntryId : b.entries[i].side = side /\ b.entries[i].price = p}
           R == {i \in EntryId \ {id} : b.entries[i].side = side /\ b.entries[i].price = p}
<1>1. \A i \in EntryId : b.entries[i] \in EntryInfo  BY DEF Book
<1>2. \A i \in EntryId : b.entries[i].qty \in Nat  BY <1>1, BookAssumption DEF EntryInfo
<1>3. \A i \in EntryId : q[i] = b.entries[i].qty /\ q[i] \in Nat  BY <1>2
<1>4. A \in SUBSET EntryId /\ R \in SUBSET EntryId /\ R = A \ {id}  OBVIOUS
<1>5. id \in A <=> b.entries[id].side = side /\ b.entries[id].price = p  OBVIOUS
<1>6. /\ EntrySum(b, side, p) = SumFunctionOnSet(q, A)
      /\ Rest(b.entries, id, side, p) = SumFunctionOnSet(q, R)
  BY DEF EntrySum, Rest
<1> HIDE DEF q, A, R
<1>7. IsFiniteSet(A) /\ IsFiniteSet(R)  BY <1>4, BookAssumption, FS_Subset
<1>8. SumFunctionOnSet(q, R) \in Nat  BY <1>3, <1>4, <1>7, SumNat
<1>9. CASE id \in A
  <2>1. \A x \in A : q[x] \in Int  BY <1>3, <1>4
  <2>2. SumFunctionOnSet(q, A) = q[id] + SumFunctionOnSet(q, A \ {id})
    BY <1>7, <1>9, <2>1, SumRemove
  <2>3. Held(b.entries[id], side, p) = q[id]  BY <1>3, <1>5, <1>9 DEF Held
  <2> QED  BY <1>3, <1>4, <1>6, <1>8, <2>2, <2>3
<1>10. CASE id \notin A
  <2>1. Held(b.entries[id], side, p) = 0  BY <1>5, <1>10 DEF Held
  <2>2. A = R  BY <1>4, <1>10
  <2> QED  BY <1>6, <1>8, <2>1, <2>2
<1> QED  BY <1>9, <1>10

\* The others do not depend on the entry that is set.
LEMMA RestSame ==
    ASSUME NEW f \in [EntryId -> EntryInfo], NEW id \in EntryId, NEW x \in EntryInfo,
           NEW side, NEW p
    PROVE  Rest([f EXCEPT ![id] = x], id, side, p) = Rest(f, id, side, p)
<1> DEFINE g == [f EXCEPT ![id] = x]
           q(h) == [i \in EntryId |-> h[i].qty]
           R(h) == {i \in EntryId \ {id} : h[i].side = side /\ h[i].price = p}
<1>1. \A i \in EntryId \ {id} : g[i] = f[i]  OBVIOUS
<1> HIDE DEF g
<1>2. R(g) = R(f) /\ R(f) \in SUBSET EntryId  BY <1>1
<1>3. \A i \in R(f) : q(g)[i] = q(f)[i]  BY <1>1
<1>4. Rest(g, id, side, p) = SumFunctionOnSet(q(g), R(g))
      /\ Rest(f, id, side, p) = SumFunctionOnSet(q(f), R(f))
  BY DEF Rest
<1>5. IsFiniteSet(R(f))  BY <1>2, BookAssumption, FS_Subset
<1> HIDE DEF q, R
<1>6. SumFunctionOnSet(q(g), R(f)) = SumFunctionOnSet(q(f), R(f))  BY <1>3, <1>5, SumEqual
<1> QED  BY <1>2, <1>4, <1>6 DEF g

\* What SideAdd does to one level.
LEMMA SideAddLevel ==
    ASSUME NEW b \in Book, NEW s, NEW px \in BookPrice, NEW d \in Int,
           NEW side \in BookSide, NEW p \in BookPrice
    PROVE  /\ Level(b, side, p) \in Nat
           /\ Level(SideAdd(b, s, px, d), side, p) =
                IF s = side /\ px = p
                THEN IF Level(b, side, p) + d > 0 THEN Level(b, side, p) + d ELSE 0
                ELSE Level(b, side, p)
<1>1. b.bids \in [BookPrice -> Nat] /\ b.asks \in [BookPrice -> Nat]  BY DEF Book
<1>2. ASSUME NEW l \in [BookPrice -> Nat]
      PROVE  level_add(l, px, d)[p] =
               IF px = p THEN IF l[p] + d > 0 THEN l[p] + d ELSE 0 ELSE l[p]
  BY DEF level_add
<1>3. /\ SideAdd(b, s, px, d).bids = IF s = "Bid" THEN level_add(b.bids, px, d) ELSE b.bids
      /\ SideAdd(b, s, px, d).asks = IF s = "Offer" THEN level_add(b.asks, px, d) ELSE b.asks
  BY DEF SideAdd, Book
<1>4. CASE side = "Bid"  BY <1>1, <1>2, <1>3, <1>4 DEF Level
<1>5. CASE side = "Offer"  BY <1>1, <1>2, <1>3, <1>5 DEF Level
<1> QED  BY <1>4, <1>5 DEF BookSide

\* Withdrawing an entry leaves at least what the others hold, and exactly that if the
\* level was exact.
LEMMA WithdrawLevel ==
    ASSUME NEW b \in Book, NEW id \in EntryId, NEW side \in BookSide, NEW p \in BookPrice,
           NEW ow \in BOOLEAN, LevelInv(b, ow)
    PROVE  LET l == Level(Withdraw(b, id), side, p)
               r == Rest(b.entries, id, side, p)
           IN /\ l \in Nat /\ l >= r
              /\ ~ow => l = r
<1> DEFINE old == b.entries[id]
           r == Rest(b.entries, id, side, p)
           l == Level(b, side, p)
           h == Held(old, side, p)
<1>1. old.price \in BookPrice /\ old.qty \in Nat
  <2>1. old \in EntryInfo  BY DEF Book
  <2> QED  BY <2>1, BookAssumption DEF EntryInfo
<1>2. EntrySum(b, side, p) = h + r /\ r \in Nat /\ h \in Nat  BY SumSplit
<1>3. l >= EntrySum(b, side, p) /\ (~ow => l = EntrySum(b, side, p))  BY DEF LevelInv
<1>4. Withdraw(b, id) = SideAdd(b, old.side, old.price, -old.qty)  BY DEF Withdraw
<1>5. h = IF old.side = side /\ old.price = p THEN old.qty ELSE 0  BY DEF Held
<1> HIDE DEF old, r, l, h
<1>6. -old.qty \in Int  BY <1>1
<1>7. /\ l \in Nat
      /\ Level(Withdraw(b, id), side, p) =
           IF old.side = side /\ old.price = p
           THEN IF l + (-old.qty) > 0 THEN l + (-old.qty) ELSE 0
           ELSE l
  BY <1>1, <1>4, <1>6, SideAddLevel DEF l
<1>8. Level(Withdraw(b, id), side, p) = IF l - h > 0 THEN l - h ELSE 0
  BY <1>1, <1>2, <1>5, <1>7
<1>9. /\ Level(Withdraw(b, id), side, p) \in Nat /\ Level(Withdraw(b, id), side, p) >= r
      /\ ~ow => Level(Withdraw(b, id), side, p) = r
  BY <1>2, <1>3, <1>7, <1>8
<1> QED  BY <1>9 DEF r

\* The price and the quantity of an event.
LEMMA EventFields ==
    ASSUME NEW e \in LOBEvent
    PROVE  e.price \in BookPrice /\ e.qty \in Nat /\ e.qty \in Int
<1>1. e.price \in BookPrice /\ e.qty \in Nat  BY BookAssumption DEF LOBEvent
<1> QED  BY <1>1

\* Recording an entry adds what it holds.
LEMMA RecordLevel ==
    ASSUME NEW b \in Book, NEW e \in LOBEvent, e.qty > 0,
           NEW side \in BookSide, NEW p \in BookPrice
    PROVE  /\ Level(b, side, p) \in Nat
           /\ Level(Record(b, e), side, p) = Level(b, side, p) + Held(e, side, p)
           /\ Held(e, side, p) \in Nat
<1>1. e.price \in BookPrice /\ e.qty \in Nat /\ e.qty \in Int  BY EventFields
<1> DEFINE d == SideAdd(b, e.side, e.price, e.qty)
<1>2. d \in Book  BY <1>1, SideAddBook
<1>3. Record(b, e) = [d EXCEPT !.entries[e.id] = [side |-> e.side, price |-> e.price, qty |-> e.qty]]
  BY DEF Record
<1> HIDE DEF d
<1>4. Record(b, e).bids = d.bids /\ Record(b, e).asks = d.asks  BY <1>2, <1>3 DEF Book
<1>5. Level(Record(b, e), side, p) = Level(d, side, p)  BY <1>4 DEF Level
<1>6. /\ Level(b, side, p) \in Nat
      /\ Level(d, side, p) = IF e.side = side /\ e.price = p
                             THEN IF Level(b, side, p) + e.qty > 0
                                  THEN Level(b, side, p) + e.qty ELSE 0
                             ELSE Level(b, side, p)
  BY <1>1, SideAddLevel DEF d
<1> QED  BY <1>1, <1>5, <1>6 DEF Held

\* update keeps the levels at or above what the entries add up to, and exact as long
\* as no New overwrites a live entry.
LEMMA UpdateLevels ==
    ASSUME NEW b \in Book, NEW e \in LOBEvent, NEW ow \in BOOLEAN, LevelInv(b, ow)
    PROVE  LevelInv(update(b, e), ow \/ (e.action = "New" /\ e.qty > 0
                                          /\ b.entries[e.id] # NoEntry))
<1> DEFINE now == ow \/ (e.action = "New" /\ e.qty > 0 /\ b.entries[e.id] # NoEntry)
           x == [side |-> e.side, price |-> e.price, qty |-> e.qty]
           c == update(b, e)
<1>1. /\ e.id \in EntryId /\ e.qty \in Nat /\ e.action \in Action
      /\ x \in EntryInfo /\ NoEntry \in EntryInfo /\ b.entries \in [EntryId -> EntryInfo]
  BY BookAssumption DEF LOBEvent, EntryInfo, NoEntry, EntryType, Book
<1>2. c \in Book /\ c.entries = [b.entries EXCEPT ![e.id] = Entry(b.entries[e.id], e)]
  BY UpdateBookEntries
<1>3. Withdraw(b, e.id) \in Book  BY <1>1, WithdrawBook
<1> SUFFICES ASSUME NEW side \in BookSide, NEW p \in BookPrice
             PROVE  /\ Level(c, side, p) >= EntrySum(c, side, p)
                    /\ ~now => Level(c, side, p) = EntrySum(c, side, p)
  BY DEF LevelInv
<1> DEFINE r == Rest(b.entries, e.id, side, p)
           w == Level(Withdraw(b, e.id), side, p)
<1>4. Held(x, side, p) = Held(e, side, p) /\ Held(NoEntry, side, p) = 0
  BY DEF Held, NoEntry, BookSide
<1>5. w \in Nat /\ w >= r /\ (~ow => w = r)  BY <1>1, WithdrawLevel
<1>6. r \in Nat /\ EntrySum(b, side, p) = Held(b.entries[e.id], side, p) + r
      /\ Held(b.entries[e.id], side, p) \in Nat
  BY <1>1, SumSplit
<1>7. ASSUME NEW y \in EntryInfo, c.entries = [b.entries EXCEPT ![e.id] = y]
      PROVE  EntrySum(c, side, p) = Held(y, side, p) + r /\ Held(y, side, p) \in Nat
  <2>1. c.entries[e.id] = y  BY <1>1, <1>7
  <2>2. Rest(c.entries, e.id, side, p) = r  BY <1>1, <1>7, RestSame
  <2> QED  BY <1>1, <1>2, <2>1, <2>2, SumSplit
<1> HIDE DEF x, w, r, c
<1>8. CASE e.action = "New" /\ e.qty > 0
  <2>1. c = Record(b, e) /\ Entry(b.entries[e.id], e) = x
    BY <1>8 DEF c, x, update, Entry
  <2>2. /\ Level(c, side, p) = Level(b, side, p) + Held(e, side, p)
        /\ Level(b, side, p) \in Nat /\ Held(e, side, p) \in Nat
    BY <1>8, <2>1, RecordLevel
  <2>3. EntrySum(c, side, p) = Held(e, side, p) + r  BY <1>1, <1>2, <1>4, <1>7, <2>1
  <2>4. /\ Level(b, side, p) >= EntrySum(b, side, p)
        /\ ~ow => Level(b, side, p) = EntrySum(b, side, p)
    BY DEF LevelInv
  <2>5. ~now => ~ow /\ b.entries[e.id] = NoEntry  BY <1>8
  <2>6. ~now => Held(b.entries[e.id], side, p) = 0  BY <1>4, <2>5
  <2> HIDE DEF now
  <2> QED  BY <1>6, <2>2, <2>3, <2>4, <2>5, <2>6
<1>9. CASE e.action = "New" /\ ~(e.qty > 0)
  <2>1. c = b  BY <1>9 DEF c, update
  <2> QED  BY <2>1 DEF LevelInv
<1>10. CASE e.action = "Change" /\ e.qty > 0
  <2>1. c = Record(Withdraw(b, e.id), e) /\ Entry(b.entries[e.id], e) = x
    BY <1>10 DEF c, x, update, ApplyChange, Entry
  <2>2. Level(c, side, p) = w + Held(e, side, p) /\ Held(e, side, p) \in Nat
    BY <1>3, <1>10, <2>1, RecordLevel DEF w
  <2>3. EntrySum(c, side, p) = Held(e, side, p) + r  BY <1>1, <1>2, <1>4, <1>7, <2>1
  <2> QED  BY <1>5, <1>6, <2>2, <2>3
<1>11. CASE (e.action = "Change" /\ ~(e.qty > 0)) \/ e.action = "Delete"
  <2>1. c = Forget(Withdraw(b, e.id), e.id) /\ Entry(b.entries[e.id], e) = NoEntry
    BY <1>11 DEF c, update, ApplyChange, ApplyDelete, Entry
  <2>2. Level(c, side, p) = w
    BY <1>3, <2>1 DEF Forget, Level, Book, w
  <2>3. EntrySum(c, side, p) = 0 + r  BY <1>1, <1>2, <1>4, <1>7, <2>1
  <2> QED  BY <1>5, <1>6, <2>2, <2>3
<1> QED  BY <1>1, <1>8, <1>9, <1>10, <1>11 DEF Action

-----------------------------------------------------------------------------
(* The invariants *)

\* r knows every order of b.
Knows(r, b) ==
    \A i \in EntryId : b.entries[i] # NoEntry => r.entries[i] = b.entries[i]

\* The live book once the entry in hand has been applied.
Upcoming == IF md_pc = "update" THEN update(book, ev) ELSE book

TypeInv ==
    /\ ev \in LOBEvent
    /\ book \in Book /\ replay \in Book

LogInv ==
    /\ ~resnapped => replay = Upcoming
    /\ Knows(replay, Upcoming)

SumInv == overwrote \in BOOLEAN /\ LevelInv(book, overwrote)

\* The data path's own steps, and the one it takes in a process without a queue.
DataStep == [DataNext]_dataVars \/ SkipQueue

\* Taking the same update keeps one book informed of the other.
LEMMA UpdateKnows ==
    ASSUME NEW r \in Book, NEW b \in Book, NEW e \in LOBEvent, Knows(r, b)
    PROVE  Knows(update(r, e), update(b, e))
<1> SUFFICES ASSUME NEW i \in EntryId, update(b, e).entries[i] # NoEntry
             PROVE  update(r, e).entries[i] = update(b, e).entries[i]
  BY DEF Knows
<1>1. /\ update(b, e).entries = [b.entries EXCEPT ![e.id] = Entry(b.entries[e.id], e)]
      /\ update(r, e).entries = [r.entries EXCEPT ![e.id] = Entry(r.entries[e.id], e)]
  BY UpdateBookEntries
<1>2. b.entries \in [EntryId -> EntryInfo] /\ r.entries \in [EntryId -> EntryInfo]
  BY DEF Book
<1>3. CASE i = e.id
  <2>1. /\ update(b, e).entries[i] = Entry(b.entries[i], e)
        /\ update(r, e).entries[i] = Entry(r.entries[i], e)
    BY <1>1, <1>2, <1>3
  <2>2. CASE e.action = "New" /\ ~(e.qty > 0)
    BY <2>1, <2>2 DEF Entry, Knows
  <2>3. CASE ~(e.action = "New" /\ ~(e.qty > 0))
    BY <2>1, <2>3 DEF Entry
  <2> QED  BY <2>2, <2>3
<1>4. CASE i # e.id  BY <1>1, <1>2, <1>4 DEF Knows
<1> QED  BY <1>3, <1>4

\* The events that are logged are events.
LEMMA EventType ==
    ASSUME TypeInv
    PROVE  SnapshotEvents \subseteq LOBEvent /\ IncrementalEvents \subseteq LOBEvent
<1>1. ASSUME NEW id \in EntryId PROVE DeleteEvent(id) \in LOBEvent
  <2>1. book.entries[id] \in EntryInfo  BY DEF TypeInv, Book
  <2>2. lookup_entry(book, id) \in EntryInfo
    BY <2>1, BookAssumption DEF lookup_entry, EntryInfo, EntryType
  <2> QED  BY <2>2 DEF DeleteEvent, EntryInfo, LOBEvent, Action
<1> QED  BY <1>1 DEF SnapshotEvents, IncrementalEvents

\* The initial values have their types.
LEMMA EmptyIsBook == EmptyBook \in Book /\ NoEvent \in LOBEvent
<1>1. NoEntry \in EntryInfo  BY BookAssumption DEF NoEntry, EntryInfo, EntryType
<1>2. NoEvent \in LOBEvent
  BY BookAssumption DEF NoEvent, LOBEvent, Action, EntryType
<1> QED  BY <1>1, <1>2 DEF EmptyBook, Book

\* The empty book's levels are exact.
LEMMA EmptyLevels == LevelInv(EmptyBook, FALSE)
<1> SUFFICES ASSUME NEW side \in BookSide, NEW p \in BookPrice
             PROVE  Level(EmptyBook, side, p) = 0 /\ EntrySum(EmptyBook, side, p) = 0
  BY DEF LevelInv
<1> DEFINE A == {i \in EntryId : /\ EmptyBook.entries[i].side = side
                                /\ EmptyBook.entries[i].price = p}
           q == [i \in EntryId |-> EmptyBook.entries[i].qty]
<1>1. A = {}  BY DEF EmptyBook, NoEntry, BookSide
<1>2. EntrySum(EmptyBook, side, p) = SumFunctionOnSet(q, A)  BY DEF EntrySum
<1> HIDE DEF A, q
<1>3. EntrySum(EmptyBook, side, p) = 0  BY <1>1, <1>2, SumEmpty
<1>4. Level(EmptyBook, side, p) = 0  BY DEF Level, EmptyBook
<1> QED  BY <1>3, <1>4

\* One step of the gateway or of the alpha thread.
LEMMA LogStep == TypeInv /\ LogInv /\ DataStep => TypeInv' /\ LogInv'
<1> SUFFICES ASSUME TypeInv, LogInv, DataStep PROVE TypeInv' /\ LogInv'
  OBVIOUS
<1>1. CASE BeginSnapshot
  <2>1. /\ md_pc = "idle" /\ md_pc' = "entries" /\ book' = EmptyBook
        /\ resnapped' = (resnapped \/ book # EmptyBook)
        /\ UNCHANGED <<ev, replay>>
    BY <1>1 DEF BeginSnapshot
  <2>2. Upcoming = book /\ Upcoming' = EmptyBook  BY <2>1 DEF Upcoming
  <2>3. Knows(replay, EmptyBook)  BY DEF Knows, EmptyBook
  <2>4. ~resnapped' => replay = EmptyBook
    <3>1. ~resnapped' => ~resnapped /\ book = EmptyBook  BY <2>1, Zenon
    <3> QED  BY <2>2, <3>1 DEF LogInv
  <2>5. TypeInv'  BY <2>1, EmptyIsBook DEF TypeInv
  <2>6. LogInv'  BY <2>1, <2>2, <2>3, <2>4 DEF LogInv, Knows
  <2> QED  BY <2>5, <2>6
<1>2. CASE LogSnapshotEntry \/ LogIncrementalEntry
  <2>1. PICK e \in LOBEvent : LogEntry(e)
    BY <1>2, EventType DEF LogSnapshotEntry, LogIncrementalEntry
  <2>2. /\ md_pc = "entries" /\ md_pc' = "update" /\ ev' = e
        /\ replay' = update(replay, e) /\ UNCHANGED <<book, resnapped>>
    BY <2>1 DEF LogEntry
  <2>3. Upcoming = book /\ Upcoming' = update(book, e)  BY <2>2 DEF Upcoming
  <2>4. Knows(update(replay, e), update(book, e))
    BY <2>3, UpdateKnows DEF LogInv, TypeInv
  <2>5. TypeInv'  BY <2>2, UpdateBookEntries DEF TypeInv
  <2>6. LogInv'  BY <2>2, <2>3, <2>4 DEF LogInv, Knows
  <2> QED  BY <2>5, <2>6
<1>3. CASE UpdateBook
  <2>1. /\ md_pc = "update" /\ md_pc' = "push" /\ book' = update(book, ev)
        /\ UNCHANGED <<ev, replay, resnapped>>
    BY <1>3 DEF UpdateBook
  <2>2. Upcoming' = Upcoming  BY <2>1 DEF Upcoming
  <2>3. TypeInv'  BY <2>1, UpdateBookEntries DEF TypeInv
  <2>4. LogInv'  BY <2>1, <2>2 DEF LogInv, Knows
  <2> QED  BY <2>3, <2>4
<1>4. CASE BeginIncremental \/ PushEvent \/ EndMessage \/ SkipQueue
  <2>1. /\ md_pc # "update" /\ md_pc' # "update"
        /\ ev' \in {ev, NoEvent} /\ UNCHANGED <<book, replay, resnapped>>
    BY <1>4 DEF BeginIncremental, PushEvent, EndMessage, SkipQueue
  <2>2. Upcoming' = Upcoming  BY <2>1 DEF Upcoming
  <2>3. TypeInv'  BY <2>1, EmptyIsBook DEF TypeInv
  <2>4. LogInv'  BY <2>1, <2>2 DEF LogInv, Knows
  <2> QED  BY <2>3, <2>4
<1>5. CASE AlphaPop \/ UNCHANGED dataVars
  <2>1. UNCHANGED <<md_pc, ev, book, replay, resnapped>>  BY <1>5 DEF AlphaPop, dataVars
  <2>2. Upcoming' = Upcoming  BY <2>1 DEF Upcoming
  <2> QED  BY <2>1, <2>2 DEF TypeInv, LogInv, Knows
<1> QED  BY <1>1, <1>2, <1>3, <1>4, <1>5 DEF DataStep, DataNext

\* One step, for the levels.
LEMMA SumStep == TypeInv /\ SumInv /\ DataStep => SumInv'
<1> SUFFICES ASSUME TypeInv, SumInv, DataStep PROVE SumInv'
  OBVIOUS
<1>1. CASE BeginSnapshot
  <2>1. book' = EmptyBook /\ overwrote' = FALSE  BY <1>1, Zenon DEF BeginSnapshot
  <2> QED  BY <2>1, EmptyLevels, Zenon DEF SumInv
<1>2. CASE UpdateBook
  <2> DEFINE o == overwrote \/ (ev.action = "New" /\ ev.qty > 0
                                 /\ book.entries[ev.id] # NoEntry)
  <2>1. book' = update(book, ev) /\ overwrote' = o  BY <1>2, Zenon DEF UpdateBook
  <2>2. LevelInv(update(book, ev), o)  BY UpdateLevels, Zenon DEF TypeInv, SumInv
  <2>3. o \in BOOLEAN  OBVIOUS
  <2> HIDE DEF o
  <2> QED  BY <2>1, <2>2, <2>3, Zenon DEF SumInv
<1>3. CASE UNCHANGED <<book, overwrote>>  BY <1>3, Zenon DEF SumInv
<1> QED
  BY <1>1, <1>2, <1>3
  DEF DataStep, DataNext, dataVars, BeginIncremental, LogSnapshotEntry,
      LogIncrementalEntry, LogEntry, PushEvent, EndMessage, AlphaPop, SkipQueue

\* The empty log and the empty book.
LEMMA LogInit == DataInit => TypeInv /\ LogInv /\ SumInv
<1> SUFFICES ASSUME DataInit PROVE TypeInv /\ LogInv /\ SumInv
  OBVIOUS
<1>1. TypeInv /\ LogInv
  BY EmptyIsBook DEF DataInit, TypeInv, LogInv, Upcoming, Knows
<1>2. SumInv  BY EmptyLevels, Zenon DEF DataInit, SumInv
<1> QED  BY <1>1, <1>2

\* What the invariants say of the log and of the levels.
LEMMA BookFacts ==
    /\ LogInv => ReplayMatchesBook /\ ReplayKnowsLiveOrders
    /\ SumInv => LevelsMatchEntries
<1>1. LogInv => ReplayMatchesBook /\ ReplayKnowsLiveOrders
  BY DEF LogInv, ReplayMatchesBook, ReplayKnowsLiveOrders, Upcoming, Knows
<1>2. ASSUME SumInv PROVE LevelsMatchEntries
  <2>1. LevelInv(book, overwrote)  BY <1>2, Zenon DEF SumInv
  <2> SUFFICES ASSUME NEW s \in Sides(book), NEW p \in BookPrice
               PROVE  /\ s[2][p] >= EntrySum(book, s[1], p)
                      /\ ~overwrote => s[2][p] = EntrySum(book, s[1], p)
    BY DEF LevelsMatchEntries
  <2>2. CASE s = <<"Bid", book.bids>>  BY <2>1, <2>2 DEF LevelInv, Level, BookSide
  <2>3. CASE s = <<"Offer", book.asks>>  BY <2>1, <2>3 DEF LevelInv, Level, BookSide
  <2> QED  BY <2>2, <2>3 DEF Sides
<1> QED  BY <1>1, <1>2

-----------------------------------------------------------------------------
(* Theorems *)

\* logger_.write and book_.update: until a snapshot replaces a book with orders in
\* it, the log rebuilds the live book.
THEOREM ReplayIsBook == DataSpec => []ReplayMatchesBook
<1>1. [DataNext]_dataVars => DataStep  BY DEF DataStep
<1> QED  BY LogInit, LogStep, BookFacts, <1>1, PTL DEF DataSpec

\* After any number of snapshots the log still knows every order of the live book.
THEOREM ReplayComplete == DataSpec => []ReplayKnowsLiveOrders
<1>1. [DataNext]_dataVars => DataStep  BY DEF DataStep
<1> QED  BY LogInit, LogStep, BookFacts, <1>1, PTL DEF DataSpec

\* lookup_entry for a Delete: its record repeats what the log has of the order, unless
\* a snapshot took the order out of the book.
THEOREM DeletesAreComplete == DataSpec => DeletesNameOrders
<1>1. TypeInv /\ LogInv /\ [DataNext]_dataVars => [DeleteNamesOrder]_dataVars
  <2> SUFFICES ASSUME TypeInv, LogInv, DataNext, written' # written, ev'.action = "Delete",
                      replay.entries[ev'.id] # NoEntry,
                      ~(resnapped /\ book.entries[ev'.id] = NoEntry)
               PROVE  replay.entries[ev'.id] =
                        [side |-> ev'.side, price |-> ev'.price, qty |-> ev'.qty]
    BY DEF DeleteNamesOrder
  <2>1. LogIncrementalEntry
    BY DEF DataNext, BeginSnapshot, BeginIncremental, LogSnapshotEntry, SnapshotEvents,
           LogEntry, UpdateBook, PushEvent, EndMessage, AlphaPop
  <2>2. PICK e \in IncrementalEvents : md_pc = "entries" /\ ev' = e
    BY <2>1 DEF LogIncrementalEntry, LogEntry
  <2>3. PICK id \in EntryId : ev' = DeleteEvent(id)
    BY <2>2 DEF IncrementalEvents
  <2> DEFINE b == book.entries[id]
  <2>4. ev'.id = id  BY <2>3 DEF DeleteEvent
  <2>5. b # NoEntry /\ replay.entries[id] = b
    BY <2>2, <2>4 DEF LogInv, Upcoming, Knows
  <2>6. b \in EntryInfo  BY DEF TypeInv, Book
  <2>7. ev'.side = b.side /\ ev'.price = b.price /\ ev'.qty = b.qty
    BY <2>3, <2>5 DEF DeleteEvent, lookup_entry
  <2> QED  BY <2>4, <2>5, <2>6, <2>7 DEF EntryInfo
<1>2. [DataNext]_dataVars => DataStep  BY DEF DataStep
<1> QED  BY LogInit, LogStep, <1>1, <1>2, PTL DEF DataSpec, DeletesNameOrders

\* OrderBook::update: under any feed no level falls below the entries that make it up,
\* and without a New that re-uses a live id every level is exactly their sum.
THEOREM LevelsAreSums == DataSpec => []LevelsMatchEntries
<1>1. [DataNext]_dataVars => DataStep  BY DEF DataStep
<1> QED  BY LogInit, LogStep, SumStep, BookFacts, <1>1, PTL DEF DataSpec

-----------------------------------------------------------------------------
(* The session *)

\* A step either is one of the session's or leaves the session's variables alone.
LEMMA SessionSteps ==
    ASSUME [Next]_vars
    PROVE  onLogon \/ onLogout \/ fromAdmin \/ BrokerAccepts \/ on_md_reject \/ Tick
           \/ UNCHANGED sessionVars
  BY DEF Next, vars, Logon, SessionEvent, Snapshot, Incremental, Md, Apply, HandleEntry,
         Alpha, Clock, on_signal, Main, MainGivesUp, MainLeavesLoop, MainWaited, MainStopped

-----------------------------------------------------------------------------
(* The subscription flag *)

\* A flag that outlives its session does so because of a fast logout.
FlagInv ==
    /\ session = "down" /\ subscribed => fast
    /\ SilentOnlyAfterFastLogout

\* onLogon, onLogout and on_md_reject: only a fast logout makes a later session skip
\* its MarketDataRequest.
THEOREM SilenceExplained == Spec => []SilentOnlyAfterFastLogout
  <1>1. Init => FlagInv
    BY DEF Init, SessionInit, FlagInv, SilentOnlyAfterFastLogout
  <1>2. FlagInv /\ [Next]_vars => FlagInv'
    <2> SUFFICES ASSUME FlagInv, [Next]_vars PROVE FlagInv'
      OBVIOUS
    <2>1. CASE onLogon
      <3>1. session = "down" /\ session' = "up" /\ fast' = fast
        BY <2>1 DEF onLogon
      <3>2. feed' = "none" /\ subscribed' => subscribed
        BY <2>1, Zenon DEF onLogon, subscribe_market_data
      <3> QED
        BY <3>1, <3>2 DEF FlagInv, SilentOnlyAfterFastLogout
    <2>2. CASE onLogout
      <3>1. session' = "down" /\ (subscribed' => fast')
        BY <2>2, Zenon DEF onLogout
      <3> QED
        BY <3>1 DEF FlagInv, SilentOnlyAfterFastLogout
    <2>3. CASE fromAdmin \/ Tick \/ UNCHANGED sessionVars
      BY <2>3 DEF fromAdmin, Tick, sessionVars, FlagInv, SilentOnlyAfterFastLogout
    <2>4. CASE BrokerAccepts
      BY <2>4 DEF BrokerAccepts, FlagInv, SilentOnlyAfterFastLogout
    <2>5. CASE on_md_reject
      BY <2>5 DEF on_md_reject, FlagInv, SilentOnlyAfterFastLogout
    <2> QED
      BY <2>1, <2>2, <2>3, <2>4, <2>5, SessionSteps
  <1>3. FlagInv => SilentOnlyAfterFastLogout
    BY DEF FlagInv
  <1> QED
    BY <1>1, <1>2, <1>3, PTL DEF Spec

-----------------------------------------------------------------------------
(* The book across sessions *)

\* on_snapshot: whatever the sessions before it left, a snapshot starts from nothing.
THEOREM GhostsCleared == Spec => []NoGhostOrders
  <1>1. Init => NoGhostOrders
    BY DEF Init, NoGhostOrders
  <1>2. NoGhostOrders /\ [Next]_vars => NoGhostOrders'
    <2> SUFFICES ASSUME NoGhostOrders, [Next]_vars PROVE NoGhostOrders'
      OBVIOUS
    <2>1. CASE Logon
      <3>1. fed' = FALSE
        BY <2>1, Zenon DEF Logon
      <3> QED
        BY <3>1, Zenon DEF NoGhostOrders
    <2>2. CASE Snapshot
      <3>1. book' = EmptyBook
        BY <2>2 DEF Snapshot, BeginSnapshot
      <3>2. LiveIds(book') = {}
        BY <3>1 DEF LiveIds, EmptyBook
      <3>3. carried' = carried \cap LiveIds(book')
        BY <2>2 DEF Snapshot
      <3> QED
        BY <3>2, <3>3 DEF NoGhostOrders
    <2>3. CASE Apply
      <3>1. fed' = fed /\ carried' = (carried \ {ev.id}) \cap LiveIds(book')
        BY <2>3 DEF Apply
      <3> QED
        BY <3>1, Zenon DEF NoGhostOrders
    <2>4. CASE UNCHANGED history
      BY <2>4, Zenon DEF history, NoGhostOrders
    <2> QED
      BY <2>1, <2>2, <2>3, <2>4
      DEF Next, vars, SessionEvent, Incremental, Md, HandleEntry, Alpha, Clock,
          on_signal, Main, MainGivesUp, MainLeavesLoop, MainWaited, MainStopped
  <1> QED
    BY <1>1, <1>2, PTL DEF Spec

-----------------------------------------------------------------------------
(* Log, book and queue *)

\* Logging is one record ahead of the book between the two calls, and nowhere else.
OrderInv ==
    /\ written \in Nat /\ applied \in Nat
    /\ written = IF md_pc = "update" THEN applied + 1 ELSE applied
    /\ queue \in Seq(Nat) /\ BookAheadOfQueue

\* No handler runs once the process is done.
StopInv == main_pc = "done" => md_pc = "idle"

LEMMA OrderStep ==
    ASSUME OrderInv, [Next]_vars
    PROVE  OrderInv'
  <1>1. CASE HandleEntry /\ (LogSnapshotEntry \/ LogIncrementalEntry)
    <2>1. md_pc = "entries" /\ md_pc' = "update" /\ written' = written + 1
          /\ applied' = applied /\ queue' = queue
      BY <1>1 DEF LogSnapshotEntry, LogIncrementalEntry, LogEntry
    <2> QED
      BY <2>1 DEF OrderInv, BookAheadOfQueue
  <1>2. CASE Apply
    <2>1. md_pc = "update" /\ md_pc' = "push" /\ applied' = applied + 1
          /\ written' = written /\ queue' = queue
      BY <1>2 DEF Apply, UpdateBook
    <2> QED
      BY <2>1 DEF OrderInv, BookAheadOfQueue
  <1>3. CASE HandleEntry /\ PushEvent
    <2>1. md_pc = "push" /\ md_pc' = "entries" /\ applied' = applied /\ written' = written
          /\ (queue' = queue \/ queue' = Append(queue, written))
      BY <1>3 DEF PushEvent
    <2>2. CASE queue' = queue
      BY <2>1, <2>2 DEF OrderInv, BookAheadOfQueue
    <2>3. CASE queue' = Append(queue, written)
      <3>1. queue' \in Seq(Nat) /\ Len(queue') = Len(queue) + 1
        BY <2>3 DEF OrderInv
      <3>2. ASSUME NEW i \in 1 .. Len(queue') PROVE queue'[i] <= applied
        <4>1. CASE i <= Len(queue)
          BY <2>3, <3>1, <4>1 DEF OrderInv, BookAheadOfQueue
        <4>2. CASE i = Len(queue) + 1
          BY <2>1, <2>3, <4>2 DEF OrderInv
        <4> QED
          BY <3>1, <4>1, <4>2 DEF OrderInv
      <3> QED
        BY <2>1, <3>1, <3>2 DEF OrderInv, BookAheadOfQueue
    <2> QED
      BY <2>1, <2>2, <2>3
  <1>4. CASE Alpha
    <2>1. queue # <<>> /\ queue' = Tail(queue) /\ md_pc' = md_pc
          /\ applied' = applied /\ written' = written
      BY <1>4 DEF Alpha, AlphaPop
    <2>2. queue' \in Seq(Nat) /\ Len(queue') = Len(queue) - 1
      BY <2>1 DEF OrderInv
    <2>3. \A i \in 1 .. Len(queue') : queue'[i] = queue[i + 1] /\ i + 1 \in 1 .. Len(queue)
      BY <2>1, <2>2 DEF OrderInv
    <2> QED
      BY <2>1, <2>2, <2>3 DEF OrderInv, BookAheadOfQueue
  <1>5. CASE Snapshot \/ Incremental \/ (HandleEntry /\ (EndMessage \/ SkipQueue))
    <2>1. md_pc \in {"idle", "entries", "push"} /\ md_pc' \in {"idle", "entries"}
          /\ applied' = applied /\ written' = written /\ queue' = queue
      BY <1>5 DEF Snapshot, BeginSnapshot, Incremental, BeginIncremental, EndMessage, SkipQueue
    <2> QED
      BY <2>1 DEF OrderInv, BookAheadOfQueue
  <1>6. CASE UNCHANGED dataVars
    BY <1>6 DEF dataVars, OrderInv, BookAheadOfQueue
  <1> QED
    BY <1>1, <1>2, <1>3, <1>4, <1>5, <1>6
    DEF Next, vars, Logon, SessionEvent, Md, HandleEntry, Clock, on_signal,
        Main, MainGivesUp, MainLeavesLoop, MainWaited, MainStopped

\* on_incremental_refresh and on_snapshot: log, book, queue, in this order, so that the
\* alpha thread never sees an event before the book has it.
THEOREM QueueFollowsBook == Spec => []BookAheadOfQueue
  <1>1. Init => OrderInv
    BY DEF Init, DataInit, OrderInv, BookAheadOfQueue
  <1>2. OrderInv /\ [Next]_vars => OrderInv'
    BY OrderStep
  <1>3. OrderInv => BookAheadOfQueue
    BY DEF OrderInv
  <1> QED
    BY <1>1, <1>2, <1>3, PTL DEF Spec

\* gateway.stop() waits for the message in hand: the process never ends between the
\* log record of an entry and its book update.
THEOREM WholeAtExit == Spec => []ExitOnWholeEntries
  <1>1. Init => OrderInv /\ StopInv
    BY DEF Init, DataInit, OrderInv, BookAheadOfQueue, StopInv
  <1>2. OrderInv /\ StopInv /\ [Next]_vars => OrderInv' /\ StopInv'
    <2> SUFFICES ASSUME OrderInv, StopInv, [Next]_vars PROVE StopInv'
      BY OrderStep
    <2>1. CASE main_pc' = main_pc /\ (md_pc' = md_pc \/ md_pc # "idle")
      BY <2>1 DEF StopInv
    <2>2. CASE main_pc' # "done"
      BY <2>2 DEF StopInv
    <2>3. CASE MainStopped
      BY <2>3 DEF MainStopped, dataVars, StopInv
    <2>4. CASE Snapshot \/ Incremental
      BY <2>2, <2>4 DEF Snapshot, Incremental, Dispatching, appVars
    <2>5. CASE Md
      <3>1. main_pc' = main_pc /\ md_pc # "idle"
        BY <2>5 DEF Md, Apply, UpdateBook, HandleEntry, LogSnapshotEntry,
                    LogIncrementalEntry, LogEntry, EndMessage, PushEvent, SkipQueue, appVars
      <3> QED
        BY <2>1, <3>1
    <2>6. CASE Alpha
      BY <2>1, <2>6 DEF Alpha, AlphaPop, appVars
    <2> QED
      BY <2>1, <2>2, <2>3, <2>4, <2>5, <2>6
      DEF Next, vars, dataVars, appVars, Logon, SessionEvent, Clock, on_signal, Main,
          MainGivesUp, MainLeavesLoop, MainWaited
  <1>3. OrderInv /\ StopInv => ExitOnWholeEntries
    BY DEF OrderInv, StopInv, ExitOnWholeEntries
  <1> QED
    BY <1>1, <1>2, <1>3, PTL DEF Spec

-----------------------------------------------------------------------------
(* The gateway in its process *)

\* Seen from the data path, a step of the process is one of its own or none.
LEMMA DataSteps == [Next]_vars => DataStep
<1> SUFFICES ASSUME [Next]_vars PROVE DataStep
  OBVIOUS
<1>1. CASE Snapshot \/ Incremental \/ Md \/ Alpha
  BY <1>1 DEF Snapshot, Incremental, Md, Apply, HandleEntry, Alpha, DataStep, DataNext
<1>2. CASE UNCHANGED dataVars  BY <1>2 DEF DataStep
<1> QED
  BY <1>1, <1>2
  DEF Next, vars, Logon, SessionEvent, Clock, on_signal, Main, MainGivesUp,
      MainLeavesLoop, MainWaited, MainStopped

\* Reconnects, shutdown and a missing queue change nothing of what is said of the
\* log and of the book on their own.
THEOREM BookAcrossSessions ==
    Spec => [](ReplayMatchesBook /\ ReplayKnowsLiveOrders /\ LevelsMatchEntries)
<1>1. Init => DataInit  BY DEF Init
<1> QED  BY <1>1, LogInit, LogStep, SumStep, BookFacts, DataSteps, PTL DEF Spec

\* The session's variables.
LEMMA SessionTypes == SessionTypeOK /\ [Next]_vars => SessionTypeOK'
<1> SUFFICES ASSUME SessionTypeOK, [Next]_vars PROVE SessionTypeOK'
  OBVIOUS
<1>1. CASE onLogon
  <2>1. session' = "up" /\ age' = 0 /\ logons' = logons + 1 /\ logons < MaxLogons
        /\ feed' \in {"pending", "none"}
    BY <1>1 DEF onLogon, subscribe_market_data
  <2>2. auth_failed' \in BOOLEAN /\ subscribed' \in BOOLEAN /\ fast' \in BOOLEAN
    BY <1>1, Zenon DEF onLogon, subscribe_market_data, SessionTypeOK
  <2> QED  BY <2>1, <2>2, SessionAssumption DEF SessionTypeOK
<1>2. CASE onLogout
  <2>1. session' = "down" /\ feed' = "none" /\ UNCHANGED <<age, logons>>
    BY <1>2 DEF onLogout
  <2>2. auth_failed' \in BOOLEAN /\ subscribed' \in BOOLEAN /\ fast' \in BOOLEAN
    <3>0. (age < FastLogout) \in BOOLEAN  BY SMT
    <3>1. fast' \in BOOLEAN  BY <1>2, <3>0, Zenon DEF onLogout
    <3>2. CASE age < FastLogout
      BY <1>2, <3>1, <3>2, Zenon DEF onLogout, SessionTypeOK
    <3>3. CASE ~(age < FastLogout)
      <4>1. subscribed' = FALSE /\ auth_failed' = auth_failed
        BY <1>2, <3>3, Zenon DEF onLogout
      <4> QED  BY <3>1, <4>1, Zenon DEF SessionTypeOK
    <3> QED  BY <3>2, <3>3, Zenon
  <2> QED  BY <2>1, <2>2 DEF SessionTypeOK
<1>3. CASE fromAdmin \/ BrokerAccepts \/ on_md_reject
  BY <1>3 DEF fromAdmin, BrokerAccepts, on_md_reject, SessionTypeOK
<1>4. CASE Tick  BY <1>4, SessionAssumption DEF Tick, SessionTypeOK
<1>5. CASE UNCHANGED sessionVars  BY <1>5 DEF sessionVars, SessionTypeOK
<1> QED  BY <1>1, <1>2, <1>3, <1>4, <1>5, SessionSteps

\* The data path's variables.
LEMMA DataTypes == DataTypeOK /\ DataStep => DataTypeOK'
<1> SUFFICES ASSUME DataTypeOK, DataStep PROVE DataTypeOK'
  OBVIOUS
<1>0. TypeInv  BY DEF DataTypeOK, TypeInv
<1>1. CASE BeginSnapshot
  <2>1. /\ md_pc' = "entries" /\ msg_type' = "W" /\ book' = EmptyBook /\ overwrote' = FALSE
        /\ UNCHANGED <<ev, replay, written, applied, queue>>
    BY <1>1, Zenon DEF BeginSnapshot
  <2>2. resnapped' \in BOOLEAN  BY <1>1, Zenon DEF BeginSnapshot
  <2> QED  BY <2>1, <2>2, EmptyIsBook DEF DataTypeOK
<1>2. CASE LogSnapshotEntry \/ LogIncrementalEntry
  <2>1. PICK e \in LOBEvent : LogEntry(e)
    BY <1>0, <1>2, EventType DEF LogSnapshotEntry, LogIncrementalEntry
  <2>2. update(replay, e) \in Book  BY UpdateBookEntries DEF DataTypeOK
  <2> QED  BY <2>1, <2>2 DEF LogEntry, DataTypeOK
<1>3. CASE UpdateBook
  <2>1. /\ md_pc' = "push" /\ book' = update(book, ev) /\ applied' = applied + 1
        /\ UNCHANGED <<msg_type, ev, replay, written, queue, resnapped>>
    BY <1>3, Zenon DEF UpdateBook
  <2>2. overwrote' \in BOOLEAN  BY <1>3, Zenon DEF UpdateBook
  <2>3. update(book, ev) \in Book  BY UpdateBookEntries DEF DataTypeOK
  <2> QED  BY <2>1, <2>2, <2>3 DEF DataTypeOK
<1>4. CASE PushEvent
  <2>1. queue' \in Seq(Nat)  BY <1>4 DEF PushEvent, DataTypeOK
  <2> QED  BY <1>4, <2>1, EmptyIsBook DEF PushEvent, DataTypeOK
<1>5. CASE BeginIncremental \/ EndMessage
  BY <1>5 DEF BeginIncremental, EndMessage, DataTypeOK
<1>6. CASE SkipQueue  BY <1>6, EmptyIsBook DEF SkipQueue, DataTypeOK
<1>7. CASE AlphaPop
  <2>1. queue' \in Seq(Nat)  BY <1>7 DEF AlphaPop, DataTypeOK
  <2> QED  BY <1>7, <2>1 DEF AlphaPop, DataTypeOK
<1>8. CASE UNCHANGED dataVars  BY <1>8 DEF dataVars, DataTypeOK
<1> QED  BY <1>1, <1>2, <1>3, <1>4, <1>5, <1>6, <1>7, <1>8 DEF DataStep, DataNext

\* Every variable of the process keeps its type: the session, the data path, main and
\* the history.
THEOREM TypeCorrect == Spec => []TypeOK
<1>1. Init => TypeOK
  <2> SUFFICES ASSUME Init PROVE TypeOK
    OBVIOUS
  <2>1. SessionTypeOK
    <3>1. FastLogout \in 0 .. FastLogout /\ 0 \in 0 .. MaxLogons  BY SessionAssumption
    <3> QED  BY <3>1, Zenon DEF Init, SessionInit, SessionTypeOK
  <2>2. DataTypeOK
    <3>1. 0 \in Nat /\ <<>> \in Seq(Nat)  OBVIOUS
    <3> QED  BY <3>1, EmptyIsBook, Zenon DEF Init, DataInit, DataTypeOK
  <2> QED  BY <2>1, <2>2, Zenon DEF Init, TypeOK
<1>2. TypeOK /\ [Next]_vars => TypeOK'
  <2> SUFFICES ASSUME TypeOK, [Next]_vars PROVE TypeOK'
    OBVIOUS
  <2>1. SessionTypeOK' /\ DataTypeOK'
    BY SessionTypes, DataTypes, DataSteps DEF TypeOK
  <2>2. /\ app' = app
        /\ main_pc' \in {main_pc, "stopping", "joining", "done"}
        /\ carried' \in {LiveIds(book), carried \cap LiveIds(book'),
                         (carried \ {ev.id}) \cap LiveIds(book'), carried}
    BY DEF Next, vars, appVars, history, Logon, SessionEvent, Snapshot, Incremental, Md,
           Apply, HandleEntry, Alpha, Clock, on_signal, Main, MainGivesUp,
           MainLeavesLoop, MainWaited, MainStopped
  <2>3. running' \in {running, FALSE} /\ fed' \in {fed, TRUE, FALSE}
    BY Zenon
    DEF Next, vars, appVars, history, Logon, SessionEvent, Snapshot, Incremental, Md,
        Apply, HandleEntry, Alpha, Clock, on_signal, Main, MainGivesUp,
        MainLeavesLoop, MainWaited, MainStopped
  <2>4. carried' \subseteq EntryId  BY <2>2 DEF LiveIds, TypeOK
  <2>5. running' \in BOOLEAN /\ fed' \in BOOLEAN  BY <2>3, Zenon DEF TypeOK
  <2> QED  BY <2>1, <2>2, <2>4, <2>5 DEF TypeOK
<1> QED  BY <1>1, <1>2, PTL DEF Spec
=============================================================================
