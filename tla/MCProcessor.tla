----------------------------- MODULE MCProcessor -----------------------------
(* One filter of each kind of the table (SpikeFeatures and MeanRateFilter   *)
(* are like BackgroundActivityFilter, MedianTracker is in ImageGenerator),  *)
(* with one live setting, or a command and a parameter, or one of each of   *)
(* those read again and those read once.                                    *)
EXTENDS Processor

One(f, s) == [filter |-> f, settings |-> s]

MCInstances ==
  {One(BackgroundActivityFilter, {"deltaT"}),
   One(RotateFilter, {"swapXY"}), One(FrameEnhancer, {"doContrast"}),
   One(ImageGenerator, {"numSpikes", "outputFrameSizeX"}),
   One(FrameStatistics, {"numBins"}),
   One(RectangularTracker, {"maxClusterNum"}),
   One(FpgaSpikeGen, {"Run", "VariableISI"}),
   One(SynapseReconfig, {"runDVS", "targetChipID"}),
   One(SynapseReconfig, {"runDVS", "updateSRAMKernels", "SRAMBaseAddress"})}
=============================================================================
