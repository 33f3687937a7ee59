---------------------------- MODULE MCVisualizer ----------------------------
(* The settings that share a flag, one of each flag, and data with the rate *)
(* at which it is taken.                                                    *)
EXTENDS Visualizer

MCWatched ==
  {SizeKeys, PositionKeys, {"zoomFactor", "windowPositionX"},
   {DataTransfer, Subsampling}}
=============================================================================
