------------------------ MODULE MCIncidentWorkbench ------------------------
(***************************************************************************)
(* TLC instance of IncidentWorkbench: tabs over the incident service.      *)
(***************************************************************************)
EXTENDS IncidentWorkbench, TLC

Symmetry == Permutations(Requests) \cup Permutations(Owners)

=============================================================================
