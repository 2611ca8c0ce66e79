----------------------------- MODULE MCMdGateway -----------------------------
(***************************************************************************)
(* MdGateway over a few sessions, fast and slow, and a few entries.        *)
(***************************************************************************)
EXTENDS MdGateway
=============================================================================
