------------------------------ MODULE OrderBook ------------------------------
(***************************************************************************)
(* sq::OrderBook (src/md/order_book.cpp): the limit order book rebuilt     *)
(* from market-data entries, as a value and the methods as functions on    *)
(* it.  The gateway holds one such value, a replay of the log another.     *)
(*                                                                         *)
(* bids_ and asks_ hold the aggregated quantity per price; a price at 0    *)
(* stands for a level that is not in the map.  entries_ remembers each     *)
(* order by its MDEntryID; NoEntry stands for an id that is not in the map.*)
(***************************************************************************)
EXTENDS Integers, FiniteSetsExt

CONSTANTS
    BookPrice,   \* prices of entries; 0 when MDEntryPx is absent
    EntryId,     \* MDEntryIDs; 0 when tag 278 is absent or not a number
    EntryQty     \* quantities; 0 when MDEntrySize is absent

ASSUME BookAssumption ==
    /\ BookPrice \subseteq Nat /\ 0 \in BookPrice
    /\ EntryId \subseteq Nat /\ 0 \in EntryId /\ IsFiniteSet(EntryId)
    /\ EntryQty \subseteq Nat /\ 0 \in EntryQty

EntryType == {"Bid", "Offer", "Trade"}
Action    == {"New", "Change", "Delete"}
LOBEvent  == [action : Action, id : EntryId, side : EntryType,
              price : BookPrice, qty : EntryQty]

EntryInfo == [side : EntryType, price : BookPrice, qty : EntryQty]
NoEntry   == [side |-> "Trade", price |-> 0, qty |-> 0]

Book == [bids : [BookPrice -> Nat], asks : [BookPrice -> Nat],
         entries : [EntryId -> EntryInfo]]

EmptyBook == [bids    |-> [p \in BookPrice |-> 0],
              asks    |-> [p \in BookPrice |-> 0],
              entries |-> [i \in EntryId |-> NoEntry]]

-----------------------------------------------------------------------------
\* The level is dropped when nothing is left of it.
level_add(levels, px, delta) ==
    [levels EXCEPT ![px] = IF @ + delta > 0 THEN @ + delta ELSE 0]

\* delta goes to the side of the book that the entry type names; a Trade to neither.
SideAdd(b, side, px, delta) ==
    [b EXCEPT !.bids = IF side = "Bid"   THEN level_add(@, px, delta) ELSE @,
              !.asks = IF side = "Offer" THEN level_add(@, px, delta) ELSE @]

\* Subtracting NoEntry changes nothing: an id that is not found is left alone.
Withdraw(b, id) == LET old == b.entries[id] IN SideAdd(b, old.side, old.price, -old.qty)

\* Fault: the quantity of an update is taken for a difference.
Record_Accumulate(b, ev) ==
    [SideAdd(b, ev.side, ev.price, ev.qty) EXCEPT
        !.entries[ev.id] = [side |-> ev.side, price |-> ev.price, qty |-> @.qty + ev.qty]]

Record(b, ev) ==
    [SideAdd(b, ev.side, ev.price, ev.qty) EXCEPT
        !.entries[ev.id] = [side |-> ev.side, price |-> ev.price, qty |-> ev.qty]]

Forget(b, id) == [b EXCEPT !.entries[id] = NoEntry]

ApplyChange(b, ev) ==
    IF ev.qty > 0 THEN Record(Withdraw(b, ev.id), ev) ELSE Forget(Withdraw(b, ev.id), ev.id)

\* Fault: the entry goes, its quantity stays in the level.
ApplyDelete_KeepLevel(b, ev) == Forget(b, ev.id)

ApplyDelete(b, ev) == Forget(Withdraw(b, ev.id), ev.id)

update(b, ev) ==
    CASE ev.action = "New"    -> IF ev.qty > 0 THEN Record(b, ev) ELSE b
      [] ev.action = "Change" -> ApplyChange(b, ev)
      [] ev.action = "Delete" -> ApplyDelete(b, ev)

\* lookup_entry into a fresh event: side, price and qty keep their defaults when
\* the entry is unknown.
lookup_entry(b, id) ==
    IF b.entries[id] # NoEntry THEN b.entries[id]
                               ELSE [side |-> "Bid", price |-> 0, qty |-> 0]

\* What the entries add up to at one price of one side.
EntrySum(b, side, px) ==
    SumFunctionOnSet([i \in EntryId |-> b.entries[i].qty],
                     {i \in EntryId : b.entries[i].side = side /\ b.entries[i].price = px})
=============================================================================
