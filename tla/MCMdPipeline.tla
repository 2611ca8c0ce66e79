----------------------------- MODULE MCMdPipeline -----------------------------
(***************************************************************************)
(* The data path alone, under any feed.  Ids 0 and 1: id 0 is also the id  *)
(* of every entry that carries none.  Price 0 is an entry without a price. *)
(***************************************************************************)
EXTENDS MdPipeline
=============================================================================
