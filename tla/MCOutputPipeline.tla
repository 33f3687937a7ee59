-------------------------- MODULE MCOutputPipeline --------------------------
(* Instances of OutputPipeline for TLC. *)
EXTENDS OutputPipeline

\* Clients that start the module again only once it has stopped: an Output
\* thread that failed stays dead in a module whose stop was undone.
NoFlapping == ClientChoices \ {"start"}
=============================================================================
