------------------------------ MODULE MdPipeline ------------------------------
(***************************************************************************)
(* The data side of sq::FixMdGateway (src/md/fix_md_gateway.cpp): the      *)
(* handlers that turn 35=W and 35=X messages into log records, book        *)
(* updates and queue entries, on the QuickFIX thread, while the alpha      *)
(* thread pops the queue.                                                  *)
(*                                                                         *)
(* A message is handled entry by entry, and an entry in three steps (log,  *)
(* book, queue).  Entries skipped by "continue" leave no trace; a missing  *)
(* required field ends the message early, as EndMessage may at any entry.  *)
(*                                                                         *)
(* The feed is external and arbitrary: in particular a snapshot comes with *)
(* every new subscription.  LobEventLogger is not part of the repository:  *)
(* the log is represented by replay, the book that the backtest rebuilds   *)
(* by applying every record written so far.                                *)
(***************************************************************************)
EXTENDS OrderBook, Sequences

CONSTANTS
    QueueLimit,   \* MdQueue::capacity()
    MaxEvents     \* bound on the entries handled

ASSUME PipelineAssumption == QueueLimit \in Nat /\ MaxEvents \in Nat

VARIABLES
    md_pc,        \* "idle", "entries", "update", "push"
    msg_type,     \* the message being handled: "W" or "X"
    ev,           \* its current event
    book,         \* book_
    replay,       \* the book a reader of the log arrives at
    written,      \* records in the log
    applied,      \* events applied to book_
    queue,        \* MdQueue: the log positions of the events in it
    \* history: a non-empty book was cleared ...
    resnapped,
    \* ... a New overwrote a live entry since the last clear
    overwrote

dataVars == <<md_pc, msg_type, ev, book, replay, written, applied, queue, resnapped, overwrote>>

NoEvent == [action |-> "New", id |-> 0, side |-> "Bid", price |-> 0, qty |-> 0]

DataInit ==
    /\ md_pc = "idle" /\ msg_type = "X" /\ ev = NoEvent
    /\ book = EmptyBook /\ replay = EmptyBook
    /\ written = 0 /\ applied = 0
    /\ queue = <<>>
    /\ resnapped = FALSE /\ overwrote = FALSE

-----------------------------------------------------------------------------
\* Fault: a snapshot is applied on top of the old book.
BeginSnapshot_KeepBook ==
    /\ md_pc = "idle"
    /\ md_pc' = "entries" /\ msg_type' = "W"
    /\ UNCHANGED <<ev, book, replay, written, applied, queue, resnapped, overwrote>>

\* on_snapshot: the book is cleared, and nothing of that is logged.
BeginSnapshot ==
    /\ md_pc = "idle"
    /\ book' = EmptyBook
    /\ resnapped' = (resnapped \/ book # EmptyBook)
    /\ overwrote' = FALSE
    /\ md_pc' = "entries" /\ msg_type' = "W"
    /\ UNCHANGED <<ev, replay, written, applied, queue>>

BeginIncremental ==
    /\ md_pc = "idle"
    /\ md_pc' = "entries" /\ msg_type' = "X"
    /\ UNCHANGED <<ev, book, replay, written, applied, queue, resnapped, overwrote>>

\* The events one entry of a message can be parsed into.
SnapshotEvents == {e \in LOBEvent : e.action = "New" /\ e.side # "Trade"}

\* Fault: the entry is not looked up.
DeleteEvent_Defaults(id) ==
    [action |-> "Delete", id |-> id, side |-> "Bid", price |-> 0, qty |-> 0]

\* A Delete names the entry only; the rest comes from the book.
DeleteEvent(id) ==
    LET e == lookup_entry(book, id) IN
    [action |-> "Delete", id |-> id, side |-> e.side, price |-> e.price, qty |-> e.qty]

IncrementalEvents ==
    {e \in LOBEvent : e.action # "Delete"} \cup {DeleteEvent(id) : id \in EntryId}

\* Fault: Deletes are not logged.
LogEntry_NoDeletes(e) ==
    /\ md_pc = "entries"
    /\ written < MaxEvents
    /\ ev' = e
    /\ written' = written + 1
    /\ replay' = IF e.action = "Delete" THEN replay ELSE update(replay, e)
    /\ md_pc' = "update"
    /\ UNCHANGED <<msg_type, book, applied, queue, resnapped, overwrote>>

\* Fault: the alpha thread is told before the book is updated.
LogEntry_PushFirst(e) ==
    /\ md_pc = "entries"
    /\ written < MaxEvents
    /\ ev' = e
    /\ written' = written + 1
    /\ replay' = update(replay, e)
    /\ queue' = Append(queue, written + 1)
    /\ md_pc' = "update"
    /\ UNCHANGED <<msg_type, book, applied, resnapped, overwrote>>

\* The entry is parsed and logger_.write(ev) called.
LogEntry(e) ==
    /\ md_pc = "entries"
    /\ written < MaxEvents
    /\ ev' = e
    /\ written' = written + 1
    /\ replay' = update(replay, e)
    /\ md_pc' = "update"
    /\ UNCHANGED <<msg_type, book, applied, queue, resnapped, overwrote>>

\* Fault: a snapshot that replaces a book is not logged.
LogSnapshotEntry_FirstOnly ==
    /\ msg_type = "W"
    /\ \E e \in SnapshotEvents :
          \/ ~resnapped /\ LogEntry(e)
          \/ /\ resnapped /\ md_pc = "entries" /\ written < MaxEvents
             /\ ev' = e /\ written' = written + 1 /\ md_pc' = "update"
             /\ UNCHANGED <<msg_type, book, replay, applied, queue, resnapped, overwrote>>

LogSnapshotEntry == msg_type = "W" /\ \E e \in SnapshotEvents : LogEntry(e)

LogIncrementalEntry == msg_type = "X" /\ \E e \in IncrementalEvents : LogEntry(e)

\* book_.update(ev)
UpdateBook ==
    /\ md_pc = "update"
    /\ book' = update(book, ev)
    /\ applied' = applied + 1
    /\ overwrote' = (overwrote \/ (ev.action = "New" /\ ev.qty > 0
                                    /\ book.entries[ev.id] # NoEntry))
    /\ md_pc' = "push"
    /\ UNCHANGED <<msg_type, ev, replay, written, queue, resnapped>>

\* queue_->push(ev); a full queue drops the event.
PushEvent ==
    /\ md_pc = "push"
    /\ \/ Len(queue) < QueueLimit /\ queue' = Append(queue, written)
       \/ Len(queue) >= QueueLimit /\ UNCHANGED queue
    /\ md_pc' = "entries" /\ ev' = NoEvent
    /\ UNCHANGED <<msg_type, book, replay, written, applied, resnapped, overwrote>>

EndMessage ==
    /\ md_pc = "entries"
    /\ md_pc' = "idle" /\ msg_type' = "X"
    /\ UNCHANGED <<ev, book, replay, written, applied, queue, resnapped, overwrote>>

\* The alpha thread takes an event.
AlphaPop ==
    /\ queue # <<>>
    /\ queue' = Tail(queue)
    /\ UNCHANGED <<md_pc, msg_type, ev, book, replay, written, applied, resnapped, overwrote>>

-----------------------------------------------------------------------------
DataNext ==
    \/ BeginSnapshot \/ BeginIncremental
    \/ LogSnapshotEntry \/ LogIncrementalEntry
    \/ UpdateBook \/ PushEvent \/ EndMessage
    \/ AlphaPop

DataSpec == DataInit /\ [][DataNext]_dataVars

-----------------------------------------------------------------------------
DataTypeOK ==
    /\ md_pc \in {"idle", "entries", "update", "push"} /\ msg_type \in {"W", "X"}
    /\ ev \in LOBEvent
    /\ book \in Book /\ replay \in Book
    /\ written \in Nat /\ applied \in Nat
    /\ queue \in Seq(Nat)
    /\ resnapped \in BOOLEAN /\ overwrote \in BOOLEAN

Sides(b) == {<<"Bid", b.bids>>, <<"Offer", b.asks>>}

\* OrderBook::update, any feed: no level ever shows less than the entries that make
\* it up, so best_bid and best_ask never skip a live order; and as long as no New
\* re-used a live id it is exactly their sum: nothing of a changed or deleted order
\* lingers.
LevelsMatchEntries ==
    \A s \in Sides(book), p \in BookPrice :
        LET sum == EntrySum(book, s[1], p) IN
        s[2][p] >= sum /\ (~overwrote => s[2][p] = sum)

\* fix_md_gateway: as long as no snapshot replaced a book with orders in it, the log
\* rebuilds the live book, Deletes of unknown entries included.
ReplayMatchesBook == (md_pc \in {"idle", "entries"} /\ ~resnapped) => replay = book

\* The log after any number of reconnects: each order of the live book is in the
\* replayed book with the same side, price and quantity; only orders that a snapshot
\* cleared may be there in addition.
ReplayKnowsLiveOrders ==
    md_pc \in {"idle", "entries"} =>
        \A i \in EntryId : book.entries[i] # NoEntry => replay.entries[i] = book.entries[i]

\* The log against lookup_entry: when the records before it have an order under the
\* id of a Delete, the Delete repeats that order's side, price and quantity, so that
\* the backtest counts the cancellation on the side it happened on.  The one exception
\* is an order that a snapshot took out of the book and that the log still has.
DeleteNamesOrder ==
    (written' # written /\ ev'.action = "Delete") =>
        LET known == replay.entries[ev'.id] IN
        \/ known = NoEntry
        \/ known = [side |-> ev'.side, price |-> ev'.price, qty |-> ev'.qty]
        \/ resnapped /\ book.entries[ev'.id] = NoEntry

DeletesNameOrders == [][DeleteNamesOrder]_dataVars

\* on_incremental_refresh: an event reaches the alpha thread only after the book it
\* will be read with has absorbed it.
BookAheadOfQueue == \A i \in 1 .. Len(queue) : queue[i] <= applied
=============================================================================
