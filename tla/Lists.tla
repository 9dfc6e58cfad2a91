------------------------------- MODULE Lists -------------------------------
(***************************************************************************)
(* Python's lists, as the rules use them: a comprehension that keeps some  *)
(* entries, a stable sort by time, and the keys of a dictionary in the     *)
(* order they were first set.                                              *)
(***************************************************************************)
EXTENDS Integers, Sequences, FiniteSets, SequencesExt

(* The entries at some positions of s, arranged: upTo gives each of these  *)
(* positions with itself and those that come before it.                    *)
Arranged(s, upTo) ==
    [n \in 1 .. Cardinality(DOMAIN upTo) |->
        s[CHOOSE i \in DOMAIN upTo : Cardinality(upTo[i]) = n]]

Kept(s, positions) ==
    Arranged(s, [i \in positions |-> {j \in positions : j <= i}])

SortedByTime(s, positions) ==
    Arranged(s, [i \in positions |->
        {j \in positions : \/ s[j].time < s[i].time
                           \/ s[j].time = s[i].time /\ j <= i}])

(* Every entry of s where it comes first.                                  *)
Distinct(s) == Kept(s, {i \in DOMAIN s : \A j \in 1 .. i - 1 : s[j] # s[i]})

=============================================================================
