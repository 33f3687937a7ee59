---------------------------- MODULE MCMainloop ----------------------------
(* Instances of Mainloop for TLC: one INPUT module that restarts itself.   *)
EXTENDS Mainloop

CONSTANT in

InputModule == {in}
===========================================================================
