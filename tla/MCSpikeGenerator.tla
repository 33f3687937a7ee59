------------------------- MODULE MCSpikeGenerator -------------------------
(* Instances of SpikeGenerator for TLC. *)
EXTENDS SpikeGenerator

\* A command whose flag the client takes back, and one that takes it back
\* itself.
SetAndClear == <<"setCam", "clearAllCam">>
=============================================================================
