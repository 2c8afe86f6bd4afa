---------------------------- MODULE MCInterrupts ----------------------------
(* Interrupts with the timer's line, the keyboard's and one of the slave.  *)
EXTENDS Interrupts

MC_Devices == {0, 1, 8}
MC_Drivers == {"Keyboard_Handler"}
=============================================================================
