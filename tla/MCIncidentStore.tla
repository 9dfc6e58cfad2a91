-------------------------- MODULE MCIncidentStore --------------------------
(* A small instance of IncidentStore: the incident of p1 grows into a      *)
(* second one, that of any other parent stays as it is.                    *)
EXTENDS IncidentStore

CONSTANTS p1, p2

OneGrows == [p \in Parents |-> IF p = p1 THEN 2 ELSE 1]

=============================================================================
