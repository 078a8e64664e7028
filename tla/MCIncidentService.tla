------------------------- MODULE MCIncidentService -------------------------
(***************************************************************************)
(* TLC instance of IncidentService with arbitrary API clients, over the    *)
(* assumptions of its inductive invariant.                                 *)
(***************************************************************************)
EXTENDS IncidentServiceInv

=============================================================================
