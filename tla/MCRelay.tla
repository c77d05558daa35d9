-------------------------------- MODULE MCRelay --------------------------------
(***************************************************************************)
(* Values for the constants of EventRelay: those of MCObserver for the     *)
(* service, and an endpoint that wants settlements and may be paused.      *)
(***************************************************************************)
EXTENDS MCObserver, EventRelay

Settlements == {{"SUCCEEDED"}}
Pause       == {[enabled |-> FALSE]}
=============================================================================
