---------------------------- MODULE MCCollection ----------------------------
(***************************************************************************)
(* Readings three ticks apart, told apart by one and late by up to two: as *)
(* 5 s and 10 s are against 500 ms and a response of a second or more.     *)
(***************************************************************************)
EXTENDS Collection
=============================================================================
