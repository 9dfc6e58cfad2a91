----------------------------- MODULE MCObjects -----------------------------
(* TLC: CloudTrail and two Falco hosts, whose objects are uploaded in any   *)
(* order within a day and around midnight.                                  *)
EXTENDS Objects

=============================================================================
