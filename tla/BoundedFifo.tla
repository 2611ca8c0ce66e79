----------------------------- MODULE BoundedFifo -----------------------------
(***************************************************************************)
(* What SpscQueue promises its two callers: a first-in first-out queue of  *)
(* at most Limit items that loses, repeats and invents nothing it accepted *)
(* and that the consumer can always drain.  A refused push changes nothing *)
(* and is not visible here; an accepted one is offered first and put later.*)
(***************************************************************************)
EXTENDS Integers, Sequences

CONSTANTS
    Item,    \* what is queued
    Limit    \* SpscQueue::capacity()

VARIABLES
    items,     \* accepted and not yet handed out, oldest first
    popped,    \* what the last successful pop returned
    offered,   \* the argument of the push under way, or of the last one
    offering   \* a push is under way

vars == <<items, popped, offered, offering>>

Init ==
    /\ items = <<>>
    /\ popped \in Item
    /\ offered \in Item
    /\ offering = FALSE

Offer ==
    /\ ~offering
    /\ offering' = TRUE
    /\ offered' \in Item
    /\ UNCHANGED <<items, popped>>

Put ==
    /\ offering
    /\ Len(items) < Limit
    /\ items' = Append(items, offered)
    /\ offering' = FALSE
    /\ UNCHANGED <<popped, offered>>

Get ==
    /\ items # <<>>
    /\ popped' = Head(items)
    /\ items' = Tail(items)
    /\ UNCHANGED <<offered, offering>>

Next == Offer \/ Put \/ Get

Spec == Init /\ [][Next]_vars

\* A consumer that keeps polling gets everything.
FairSpec == Spec /\ WF_vars(Get)
=============================================================================
