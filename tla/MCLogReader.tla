---------------------------- MODULE MCLogReader ----------------------------
(* Small instances of LogReader.                                           *)
EXTENDS LogReader

Ration(rotations, discards, truncations, crashes) ==
    [rotations |-> rotations, discards |-> discards,
     truncations |-> truncations, crashes |-> crashes]

(* Two rotations with a killed reader, or one rotation with everything     *)
(* else that can happen to a log.                                          *)
RotatedTwiceOrOnce == {Ration(2, 0, 0, 1), Ration(1, 1, 1, 1)}

RotatedTwice == {Ration(2, 0, 0, 0)}

=============================================================================
