--------------------------- MODULE MCReadingsPage ---------------------------
(***************************************************************************)
(* Pages of up to two readings from a ring of three that is overwritten    *)
(* twice over while they are being sent.                                   *)
(***************************************************************************)
EXTENDS ReadingsPage
=============================================================================
