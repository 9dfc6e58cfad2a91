---------------------------- MODULE MCAlertStore ----------------------------
(* A small instance of AlertStore: a1 and a2 share a deduplication key.    *)
EXTENDS AlertStore

CONSTANTS e1, e2, a1, a2, a3, k1, k2

MCKeyOf == [a \in Alerts |-> IF a = a3 THEN k2 ELSE k1]

=============================================================================
