---------------------------- MODULE MCInterrupts ----------------------------
(***************************************************************************)
(* Interrupts with the clock, the keyboard and a device on the slave.      *)
(***************************************************************************)
EXTENDS Interrupts

MCDevices == {<<"master", 0>>, <<"master", 1>>, <<"slave", 0>>}

(* Nothing masked, the clock masked, the cascade masked. *)
MCBiosMasks == [master : {0, 1, 4}, slave : {0, 254}]

=============================================================================
