------------------------ MODULE MCGeneralProtection -------------------------
(***************************************************************************)
(* Interrupts in which, besides, an instruction of the boot thread may     *)
(* raise a general protection fault, as the test in setup_idt_and_test's   *)
(* comment does.                                                           *)
(***************************************************************************)
EXTENDS Interrupts

MCDevices   == {<<"master", 0>>}
MCBiosMasks == {[master |-> 0, slave |-> 0]}

RaiseGeneralProtection ==
    /\ eip.r = "main"
    /\ At("printf")
    /\ Deliver(13, eip, ErrorCode)
    /\ UNCHANGED <<tables, Outside>>

GpSpec == Init /\ [][Next \/ RaiseGeneralProtection]_vars

(* A handler that returns has brought the stack back to the frame the       *)
(* processor pushed: where there is an error code, it was skipped.          *)
IretFindsFrame == At("iretd") => FrameOnTop

=============================================================================
