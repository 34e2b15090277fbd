---------------------------- MODULE DriverData ----------------------------
(* What the drivers exchange with their chips: the settings they write       *)
(* (Registers) and the data they read (Readout).  The two share nothing, so  *)
(* a behaviour is of one of them.                                            *)
EXTENDS Registers, Readout

vars == <<registerVars, readoutVars>>

Init ==
    \/ RegistersInit /\ block = "none" /\ image = <<>> /\ changed = FALSE
    \/ /\ chip = "none" /\ regs = <<>> /\ pristine = <<>> /\ settled = <<>>
       /\ call = NoCall /\ seen = <<>> /\ failed = FALSE /\ disturbed = FALSE
       /\ ReadoutInit

Next ==
    \/ chip # "none" /\ RegistersNext /\ UNCHANGED readoutVars
    \/ chip = "none" /\ ReadoutNext /\ UNCHANGED registerVars

Spec == Init /\ [][Next]_vars

(* A driver's settings stand whatever calls followed and broke off, and the  *)
(* bits of its registers that are not its own are as it found them.          *)
RegistersAreKept == SettingsStand /\ OthersUntouched
=============================================================================
