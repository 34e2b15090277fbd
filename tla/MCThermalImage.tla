--------------------------- MODULE MCThermalImage ---------------------------
(***************************************************************************)
(* Four rows and up to five images, so that a response can be overtaken by *)
(* several captures.                                                       *)
(***************************************************************************)
EXTENDS ThermalImage
=============================================================================
