-------------------------- MODULE MCInputAssembler --------------------------
(* Instances of InputAssembler for TLC: special events and one other kind. *)
EXTENDS InputAssembler

CONSTANTS special, polarity

TwoKinds == {special, polarity}
=============================================================================
