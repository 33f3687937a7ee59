---------------------------- MODULE MCConfigTree ----------------------------
(* Instances of ConfigTree for TLC. *)
EXTENDS ConfigTree

CONSTANTS early, late

OneLibrary == 1
Node(id, setting) ==
  [k \in Keys |-> CASE k = "moduleId" -> id
                    [] k = "moduleLibrary" -> OneLibrary
                    [] k = "moduleInput" -> 0
                    [] k = "setting" -> setting]

\* One module of either kind, with a setting in or out of range. Its ID is
\* not the first, as after a removal.
MCFiles == {[m \in {early} |-> Node(2, 1)], [m \in {late} |-> Node(2, 2)]}

MCNames == {early, late}
MCEarly == {early}
=============================================================================
