------------------------------- MODULE Bursts -------------------------------
(***************************************************************************)
(* The loop that rule_001, rule_012 and rule_013 share: the events of one  *)
(* actor, sorted by time, go through a window of some seconds; when the    *)
(* window holds enough events the rule raises an alert and the window      *)
(* starts again empty.                                                     *)
(*                                                                         *)
(* An event is its position in the sorted list t of times, a window is the *)
(* set of the positions it holds, and a rule's limit is                    *)
(* [seconds: WINDOW_SECONDS, events: THRESHOLD].                           *)
(***************************************************************************)
EXTENDS Integers, FiniteSets, Sequences

NothingScanned == [window |-> {}, fired |-> <<>>]

(* Bug: an event exactly WINDOW_SECONDS old is dropped.                    *)
SlideExclusive(limit, t, s, i) ==
    LET window == {j \in s.window : t[i] - t[j] < limit.seconds} \union {i}
    IN  IF Cardinality(window) >= limit.events
        THEN [window |-> {}, fired |-> Append(s.fired, window)]
        ELSE [window |-> window, fired |-> s.fired]

(* Bug: the window is not emptied after an alert.                          *)
SlideUnreset(limit, t, s, i) ==
    LET window == {j \in s.window : t[i] - t[j] <= limit.seconds} \union {i}
    IN  IF Cardinality(window) >= limit.events
        THEN [window |-> window, fired |-> Append(s.fired, window)]
        ELSE [window |-> window, fired |-> s.fired]

(* One turn of the loop: event i enters the window.                        *)
Slide(limit, t, s, i) ==
    LET window == {j \in s.window : t[i] - t[j] <= limit.seconds} \union {i}
    IN  IF Cardinality(window) >= limit.events
        THEN [window |-> {}, fired |-> Append(s.fired, window)]
        ELSE [window |-> window, fired |-> s.fired]

(* The windows that raised an alert when all events have gone through.     *)
BurstsOf(limit, t) ==
    LET scan[i \in 0 .. Len(t)] ==
            IF i = 0 THEN NothingScanned ELSE Slide(limit, t, scan[i - 1], i)
    IN  scan[Len(t)].fired

-----------------------------------------------------------------------------

(* The times of the events lie within one window.                          *)
Close(limit, t, events) == \A j, k \in events : t[k] - t[j] <= limit.seconds

(* Every alert is about exactly as many events as the rule asks for, and   *)
(* no event is in two alerts.                                              *)
Exact(limit, t, fired) ==
    /\ \A n \in DOMAIN fired :
          Cardinality(fired[n]) = limit.events /\ Close(limit, t, fired[n])
    /\ \A m, n \in DOMAIN fired : m # n => fired[m] \intersect fired[n] = {}

(* Of these events, any so many within so many seconds share one with an   *)
(* alert.                                                                  *)
Unmissed(limit, t, events, fired) ==
    \A run \in SUBSET events :
        Cardinality(run) = limit.events /\ Close(limit, t, run) =>
            \E n \in DOMAIN fired : fired[n] \intersect run # {}

=============================================================================
