---------------------------- MODULE MCHeartbeat ----------------------------
(* Two sources with different limits: cowrie is the one that may be silent *)
(* longer.                                                                 *)
EXTENDS Heartbeat

CONSTANTS auth_log, cowrie

MCLimit == [s \in Sources |-> IF s = cowrie THEN 2 ELSE 1]

=============================================================================
