--------------------------- MODULE MCInputPipeline ---------------------------
(* Instances of InputPipeline for TLC. *)
EXTENDS InputPipeline

\* Clients that start the module again only once it has stopped: no property
\* of liveness survives one that undoes every stop.
NoFlapping == ClientChoices \ {"start"}
==============================================================================
