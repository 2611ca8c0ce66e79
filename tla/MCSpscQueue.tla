----------------------------- MODULE MCSpscQueue -----------------------------
(***************************************************************************)
(* SpscQueue with four slots: indices wrap after four pushes, and the full *)
(* and the empty ring are both reached with indices at every position.     *)
(***************************************************************************)
EXTENDS SpscQueue
=============================================================================
