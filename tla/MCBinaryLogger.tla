---------------------------- MODULE MCBinaryLogger ----------------------------
(***************************************************************************)
(* A ring of six bytes, records of two to five: headers and payloads fall  *)
(* across its end, and four records go round it up to three times.  Sizes  *)
(* 3, 4 and 2, in this order, give a sound pass a payload to bounce.       *)
(***************************************************************************)
EXTENDS BinaryLogger

MCLength == {0, 1, 2, 3}
=============================================================================
