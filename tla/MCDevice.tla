------------------------------ MODULE MCDevice ------------------------------
(* Each driver with one setting at a time, and the settings of a DAVIS that *)
(* belong together.                                                         *)
EXTENDS Device

Together == {{Exposure, AutoExposure}, CoarseFine, Standby}

MCWatched ==
  UNION {{[driver |-> d, settings |-> {s}] :
            s \in SettingsOf(d) \ UNION Together} : d \in Drivers}
  \cup {[driver |-> "DAVIS", settings |-> p] : p \in Together}
=============================================================================
