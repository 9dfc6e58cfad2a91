--------------------------- MODULE SlidingWindow ---------------------------
(***************************************************************************)
(* The loop of Bursts turn by turn, over any sorted list of times.         *)
(***************************************************************************)
EXTENDS Bursts

CONSTANTS
    Window,     \* WINDOW_SECONDS
    Threshold,  \* THRESHOLD
    Batches     \* the sorted lists of times one actor's events can have

ASSUME WindowAssumption    == Window \in Nat
ASSUME ThresholdAssumption == Threshold \in Nat \ {0}
ASSUME BatchAssumption ==
    \A t \in Batches :
        /\ t \in Seq(Nat)
        /\ \A j, k \in 1 .. Len(t) : j <= k => t[j] <= t[k]

VARIABLES
    times,  \* the times of the actor's events, sorted
    turn,   \* the turns of the loop that are done
    scan    \* [window: positions in it, fired: the windows that raised an alert]

windowVars == <<times, turn, scan>>

Limit == [seconds |-> Window, events |-> Threshold]

-----------------------------------------------------------------------------

WindowInit ==
    /\ times \in Batches
    /\ turn = 0
    /\ scan = NothingScanned

WindowNext ==
    /\ turn < Len(times)
    /\ turn' = turn + 1
    /\ scan' = Slide(Limit, times, scan, turn + 1)
    /\ UNCHANGED times

WindowSpec == WindowInit /\ [][WindowNext]_windowVars

-----------------------------------------------------------------------------

WindowTypeOK ==
    /\ times \in Batches
    /\ turn \in 0 .. Len(times)
    /\ scan \in [window : SUBSET (1 .. turn), fired : Seq(SUBSET (1 .. turn))]

(* Every alert speaks of exactly Threshold events within Window seconds,   *)
(* so attempt_count says nothing about the size of an attack (and the rate *)
(* rule_001 grades by is at most Threshold a second); and no event is in   *)
(* two alerts.                                                             *)
BurstsAreExact == Exact(Limit, times, scan.fired)

(* "If >= 5 attempts fall within any 60-second window, fires alert": among *)
(* the events scanned so far, any Threshold of them within Window seconds  *)
(* share an event with an alert.  Emptying the window after an alert never *)
(* hides a burst that was not at least partly reported.                    *)
NoBurstMissed == Unmissed(Limit, times, 1 .. turn, scan.fired)

=============================================================================
