----------------------------- MODULE Heartbeat -----------------------------
(***************************************************************************)
(* rule_018, the collector heartbeat, in the engine cycle that runs it:    *)
(* the collectors have advanced their positions and counted their input,   *)
(* run_heartbeat turns the counts into alerts and saves the rule's memory  *)
(* in state.json, merge_and_save puts the alerts into the store.  The      *)
(* process can be killed, or the merge refused, between any two of them.   *)
(*                                                                         *)
(* Time is a counter of clock ticks; an alert of the rule is its source,   *)
(* its kind, the begin of the silence and the time it was raised.          *)
(***************************************************************************)
EXTENDS Naturals, SequencesExt

CONSTANTS
    Sources,    \* the watched log sources
    Limit,      \* source -> ticks it may stay silent
    None,       \* Python's None
    MaxTime,    \* bound: the clock
    MaxCrashes  \* bound: cycles that do not finish

ASSUME LimitAssumption == Limit \in [Sources -> Nat]
ASSUME NoneAssumption  == None \notin Nat
ASSUME BoundAssumption == MaxTime \in Nat /\ MaxCrashes \in Nat

VARIABLES
    now,        \* the clock
    pending,    \* the sources with input the collectors have not read
    state,      \* state.json["heartbeat"]: source -> entry, None before the first run
    pc,         \* "idle", "collected", "detected"
    received,   \* the sources from which this cycle has read input
    raised,     \* alerts of this cycle, not yet merged
    store,      \* source -> the alerts of the rule in alerts.json, oldest first
    crashes,    \* cycles that did not finish
    heard,      \* history: source -> when its input was last collected or
                \* counted, or when the rule first ran without any
    checkedAt,  \* history: when this cycle ran the rule
    lost        \* history: [input, alerts: the sources that lost some in a crash]

vars == <<now, pending, state, pc, received, raised, store, crashes,
          heard, checkedAt, lost>>

Times == 0 .. MaxTime
Entry == [watching : Times, last : Times \union {None},
          outage : Times \union {None}]
Alert == [source : Sources, kind : {"open", "closed"}, since : Times,
          at : Times]

ASSUME EntryAssumption == None \notin Entry

TypeOK ==
    /\ now \in Times
    /\ pending \in SUBSET Sources
    /\ state \in [Sources -> Entry \union {None}]
    /\ pc \in {"idle", "collected", "detected"}
    /\ received \in SUBSET Sources
    /\ raised \in SUBSET Alert
    /\ store \in [Sources -> Seq(Alert)]
    /\ crashes \in 0 .. MaxCrashes
    /\ heard \in [Sources -> Times \union {None}]
    /\ checkedAt \in Times
    /\ lost \in [input : SUBSET Sources, alerts : SUBSET Sources]

Init ==
    /\ now = 0
    /\ pending = {}
    /\ state = [s \in Sources |-> None]
    /\ pc = "idle"
    /\ received = {}
    /\ raised = {}
    /\ store = [s \in Sources |-> <<>>]
    /\ crashes = 0
    /\ heard = [s \in Sources |-> None]
    /\ checkedAt = 0
    /\ lost = [input |-> {}, alerts |-> {}]

-----------------------------------------------------------------------------
(* detect, for one source.                                                 *)

(* dict(state.get(source) or {}) and its setdefault calls.                 *)
Loaded(s) ==
    IF state[s] = None
    THEN [watching |-> now, last |-> None, outage |-> None]
    ELSE state[s]

(* Bug: only a source that has delivered before is watched.                *)
QuietSinceInput(entry) == IF entry.last = None THEN now ELSE entry.last

QuietSince(entry) == IF entry.last = None THEN entry.watching ELSE entry.last

Opens(s) ==
    /\ s \notin received
    /\ Loaded(s).outage = None
    /\ now - QuietSince(Loaded(s)) > Limit[s]

Closes(s) == s \in received /\ Loaded(s).outage # None

(* Bug: the time of the last input is only noted when an outage ends.      *)
EntryAfterStale(s) ==
    IF Closes(s) THEN [Loaded(s) EXCEPT !.last = now, !.outage = None]
    ELSE IF Opens(s) THEN [Loaded(s) EXCEPT !.outage = QuietSince(Loaded(s))]
    ELSE Loaded(s)

(* Bug: the end of an outage is not noted.                                 *)
EntryAfterEndless(s) ==
    IF s \in received THEN [Loaded(s) EXCEPT !.last = now]
    ELSE IF Opens(s) THEN [Loaded(s) EXCEPT !.outage = QuietSince(Loaded(s))]
    ELSE Loaded(s)

EntryAfter(s) ==
    IF s \in received THEN [Loaded(s) EXCEPT !.last = now, !.outage = None]
    ELSE IF Opens(s) THEN [Loaded(s) EXCEPT !.outage = QuietSince(Loaded(s))]
    ELSE Loaded(s)

OpenAlert(s) ==
    [source |-> s, kind |-> "open", since |-> QuietSince(Loaded(s)), at |-> now]

ClosedAlert(s) ==
    [source |-> s, kind |-> "closed", since |-> Loaded(s).outage, at |-> now]

-----------------------------------------------------------------------------
(* One engine cycle.                                                       *)

(* The collectors read all pending input and save their positions.         *)
Collect ==
    /\ pc = "idle"
    /\ pc' = "collected"
    /\ received' = pending
    /\ pending' = {}
    /\ heard' = [s \in Sources |->
          IF s \in pending THEN now ELSE heard[s]]
    /\ UNCHANGED <<now, state, raised, store, crashes, checkedAt, lost>>

(* run_heartbeat: load_state, detect, save_state.                          *)
RunHeartbeat ==
    /\ pc = "collected"
    /\ pc' = "detected"
    /\ raised' = {OpenAlert(s)   : s \in {r \in Sources : Opens(r)}} \union
                 {ClosedAlert(s) : s \in {r \in Sources : Closes(r)}}
    /\ state' = [s \in Sources |-> EntryAfter(s)]
    /\ heard' = [s \in Sources |->
          IF s \in received \/ state[s] = None THEN now ELSE heard[s]]
    /\ checkedAt' = now
    /\ UNCHANGED <<now, pending, received, store, crashes, lost>>

SameKey(a, b) == a.source = b.source /\ a.kind = b.kind /\ a.since = b.since

(* merge_and_save, as AlertStore shows it: alerts with a new key follow    *)
(* the stored ones.                                                        *)
Merge ==
    /\ pc = "detected"
    /\ pc' = "idle"
    /\ store' = [s \in Sources |->
          store[s] \o SetToSeq({a \in raised :
              /\ a.source = s
              /\ \A i \in DOMAIN store[s] : ~SameKey(store[s][i], a)})]
    /\ received' = {}
    /\ raised' = {}
    /\ checkedAt' = 0
    /\ UNCHANGED <<now, pending, state, crashes, heard, lost>>

(* The process is killed, a later collector raises or the store is refused.*)
Crash ==
    /\ pc # "idle"
    /\ crashes < MaxCrashes
    /\ crashes' = crashes + 1
    /\ pc' = "idle"
    /\ received' = {}
    /\ raised' = {}
    /\ checkedAt' = 0
    /\ lost' =
          [input  |-> IF pc = "collected" THEN lost.input \union received
                                          ELSE lost.input,
           alerts |-> lost.alerts \union {a.source : a \in raised}]
    /\ UNCHANGED <<now, pending, state, store, heard>>

-----------------------------------------------------------------------------
(* The world.                                                              *)

Tick ==
    /\ now < MaxTime
    /\ now' = now + 1
    /\ UNCHANGED <<pending, state, pc, received, raised, store, crashes,
                   heard, checkedAt, lost>>

Arrive(s) ==
    /\ s \notin pending
    /\ pending' = pending \union {s}
    /\ UNCHANGED <<now, state, pc, received, raised, store, crashes,
                   heard, checkedAt, lost>>

Next ==
    \/ Collect
    \/ RunHeartbeat
    \/ Merge
    \/ Crash
    \/ Tick
    \/ \E s \in Sources : Arrive(s)

Spec == Init /\ [][Next]_vars

-----------------------------------------------------------------------------
(* Properties.                                                             *)

Stored(s) == {store[s][i] : i \in DOMAIN store[s]}

(* An open alert speaks of a real silence: it lasted longer than the limit *)
(* and no input of the source was collected in it; unless a crash lost the *)
(* counts of a cycle.                                                      *)
OutagesAreReal ==
    \A a \in raised :
        a.kind = "open" /\ a.source \notin lost.input =>
            /\ a.at - a.since > Limit[a.source]
            /\ heard[a.source] <= a.since

(* The alerts of a source tell its outages one after the other: opened,    *)
(* closed, opened later than that, and so on, each pair naming the same    *)
(* silence, and between two cycles the rule's memory agrees with the store *)
(* on whether an outage is open; unless a crash lost alerts of the source. *)
AlertsPaired ==
    \A s \in Sources \ lost.alerts :
        /\ \A i \in DOMAIN store[s] :
              LET a == store[s][i]
              IN  IF i % 2 = 1
                  THEN /\ a.kind = "open"
                       /\ i > 1 => a.since >= store[s][i - 1].at
                  ELSE /\ a.kind = "closed"
                       /\ a.since = store[s][i - 1].since
                       /\ a.at >= store[s][i - 1].at
        /\ pc # "detected" /\ state[s] # None =>
              (state[s].outage # None <=> Len(store[s]) % 2 = 1)

(* A cycle that finishes leaves an open alert for every source that was    *)
(* silent beyond its limit when the rule ran, also for one that has never  *)
(* delivered anything and also after cycles that crashed before the rule.  *)
SilenceNoticed ==
    [][pc = "detected" /\ pc' = "idle" /\ crashes' = crashes =>
         \A s \in Sources \ (lost.alerts \union received) :
             checkedAt - heard[s] > Limit[s]
                 => \E a \in Stored(s)' :
                       /\ a.kind = "open"
                       /\ \A b \in Stored(s)' : b.at <= a.at]_vars

=============================================================================
