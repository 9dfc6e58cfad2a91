---------------------------- MODULE Correlation ----------------------------
(***************************************************************************)
(* correlation/: a run loads alerts.json, gives each alert a user name     *)
(* (its own, or the one /etc/passwd has for its auid), looks for what came *)
(* before each anchor, and builds the incidents IncidentStore then saves.  *)
(*                                                                         *)
(* Runs derive everything again, and between two of them the engine stores *)
(* alerts in any order of event time (its logs are read one after the      *)
(* other), and users come and go.                                          *)
(***************************************************************************)
EXTENDS Integers, FiniteSets, FiniteSetsExt, SequencesExt

CONSTANTS
    CORRELATION_RULES,   \* anchor -> groups of tiers [rule, severity]
    SEVERITY_OPT_IN_RULES,
    WindowHours,         \* CORRELATION_WINDOW_HOURS
    Alerts,              \* what the engine can store
    Accounts,            \* <<uid, name>>: the entries /etc/passwd can have
    NoUser,              \* username is None, or cannot be resolved
    NoTime,              \* last_seen is None
    MaxAlerts, MaxRemovals  \* bounds: stored alerts, deleted accounts

ASSUME CorrelationBoundAssumption == {WindowHours, MaxAlerts, MaxRemovals} \subseteq Nat

VARIABLES
    stored,    \* alerts.json
    passwd,    \* /etc/passwd: its <<uid, name>> entries
    derived,   \* the incidents of the last run
    saved,     \* the incidents of all runs, as save_incidents keeps them
    removals,  \* accounts that were deleted
    current    \* history: nothing has changed since the last run

correlationVars == <<stored, passwd, derived, saved, removals, current>>

CorrelationInit ==
    /\ stored = <<>>
    /\ passwd = {}
    /\ derived = {}
    /\ saved = {}
    /\ removals = 0
    /\ current = FALSE

-----------------------------------------------------------------------------
(* identity.py and matching.py.                                            *)

(* resolve_uid_to_username: useradd gives every account a uid of its own.  *)
UsernameOf(uid) ==
    LET names == {entry[2] : entry \in {e \in passwd : e[1] = uid}}
    IN  IF names = {} THEN NoUser ELSE CHOOSE name \in names : TRUE

(* get_identity.                                                           *)
Identity(a) == IF a.username # NoUser THEN a.username ELSE UsernameOf(a.auid)

(* load_alerts and username_index: an entry that does not validate is       *)
(* skipped, and every other goes under the name it has now.                 *)
Loaded ==
    [i \in {j \in DOMAIN stored : stored[j].valid} |->
        [stored[i] EXCEPT !.username = Identity(stored[i])]]

AlertsOf(alerts, name) ==
    {i \in DOMAIN alerts : name # NoUser /\ alerts[i].username = name}

EventStart(a) == a.first

EventEnd(a) == IF a.last = NoTime THEN a.first ELSE a.last

(* Bug: a candidate only has to begin before the anchor.                   *)
CandidatesOverlapping(alerts, anchor, rule) ==
    {i \in AlertsOf(alerts, anchor.username) :
        /\ alerts[i].rule = rule
        /\ EventStart(anchor) - EventStart(alerts[i]) \in 1 .. WindowHours}

(* find_nearest_preceding_match: what qualifies, and the nearest of them.  *)
Candidates(alerts, anchor, rule) ==
    {i \in AlertsOf(alerts, anchor.username) :
        /\ alerts[i].rule = rule
        /\ EventStart(anchor) - EventEnd(alerts[i]) \in 1 .. WindowHours}

Nearest(alerts, candidates) ==
    alerts[Min({i \in candidates :
                   \A j \in candidates : EventEnd(alerts[j]) <= EventEnd(alerts[i])})]

MatchingTiers(alerts, anchor, group) ==
    {t \in DOMAIN group : Candidates(alerts, anchor, group[t].rule) # {}}

(* Bug: the tier of the nearest alert wins.                                *)
GroupMatchNearest(alerts, anchor, group) ==
    LET tiers == MatchingTiers(alerts, anchor, group)
        match(t) == Nearest(alerts, Candidates(alerts, anchor, group[t].rule))
        t == CHOOSE u \in tiers :
                 \A v \in tiers : EventEnd(match(v)) <= EventEnd(match(u))
    IN  [matched |-> match(t), severity |-> group[t].severity]

(* The first tier with a match wins its group.                             *)
GroupMatch(alerts, anchor, group) ==
    LET first == Min(MatchingTiers(alerts, anchor, group))
    IN  [matched |-> Nearest(alerts, Candidates(alerts, anchor, group[first].rule)),
         severity |-> group[first].severity]

(* The groups that match, each with what it matched.                       *)
GroupMatches(alerts, anchor) ==
    LET groups == CORRELATION_RULES[anchor.rule]
    IN  [g \in {h \in DOMAIN groups : MatchingTiers(alerts, anchor, groups[h]) # {}} |->
            GroupMatch(alerts, anchor, groups[g])]

SEVERITY_ORDER == <<"INFO", "LOW", "MEDIUM", "HIGH", "CRITICAL">>

Rank(severity) == CHOOSE r \in DOMAIN SEVERITY_ORDER : SEVERITY_ORDER[r] = severity

(* Rules set first_seen to the first event of an alert and last_seen to the *)
(* last, of events that are sorted or come from a log in order of time.     *)
ASSUME AlertAssumption ==
    /\ Alerts \subseteq [rule : STRING, key : STRING, username : STRING, auid : Int,
                         severity : ToSet(SEVERITY_ORDER),
                         first : Int, last : Int \union {NoTime}, valid : BOOLEAN]
    /\ \A a \in Alerts : a.last # NoTime => a.first <= a.last

(* correlation_rules.py lists the tiers of a group from the strongest to    *)
(* the weakest.                                                             *)
ASSUME RulesAssumption ==
    /\ SEVERITY_OPT_IN_RULES \subseteq DOMAIN CORRELATION_RULES
    /\ \A rule \in DOMAIN CORRELATION_RULES :
          LET groups == CORRELATION_RULES[rule]
          IN  /\ groups \in Seq(ToSet(groups))
              /\ \A group \in ToSet(groups) :
                    /\ group \in Seq(ToSet(group))
                    /\ \A t \in DOMAIN group : group[t].severity \in ToSet(SEVERITY_ORDER)
                    /\ \A t, u \in DOMAIN group :
                          t < u => Rank(group[u].severity) <= Rank(group[t].severity)

(* Bug: severities are compared as strings.                                *)
HighestSeverityByName(matches) ==
    LET all == {matches[m].severity : m \in DOMAIN matches}
        alphabetical == <<"CRITICAL", "HIGH", "INFO", "LOW", "MEDIUM">>
    IN  alphabetical[Max({i \in 1 .. 5 : alphabetical[i] \in all})]

HighestSeverity(matches) ==
    SEVERITY_ORDER[Max({Rank(matches[m].severity) : m \in DOMAIN matches})]

-----------------------------------------------------------------------------
(* incident.py.                                                            *)

AlertRef(a) == <<a.rule, a.key>>

(* The anchor as number 0 and what its groups matched, sorted by the time  *)
(* they began; of two that began together the one with the lower number is *)
(* first.                                                                  *)
Links(anchor, matches) ==
    [g \in {0} \union DOMAIN matches |-> IF g = 0 THEN anchor ELSE matches[g].matched]

Before(links, g, h) ==
    \/ EventStart(links[g]) < EventStart(links[h])
    \/ EventStart(links[g]) = EventStart(links[h]) /\ g < h

InOrder(links) ==
    CHOOSE order \in [1 .. Cardinality(DOMAIN links) -> DOMAIN links] :
        \A m, n \in DOMAIN order : m < n => Before(links, order[m], order[n])

(* The key of an incident is its parent and its chain.                     *)
BuildIncident(anchor, matches) ==
    LET links == Links(anchor, matches)
        order == InOrder(links)
        opted == anchor.rule \in SEVERITY_OPT_IN_RULES
    IN  [parent |-> AlertRef(anchor),
         chain |-> [c \in DOMAIN order |-> AlertRef(links[order[c]])],
         severity |-> IF opted THEN HighestSeverity(matches) ELSE anchor.severity,
         modified |-> opted]

(* run_correlation and build_all_incidents.                                *)
Incidents(alerts) ==
    {BuildIncident(alerts[i], GroupMatches(alerts, alerts[i])) :
        i \in {j \in DOMAIN alerts :
                  /\ alerts[j].rule \in DOMAIN CORRELATION_RULES
                  /\ DOMAIN GroupMatches(alerts, alerts[j]) # {}}}

-----------------------------------------------------------------------------

CorrelationRun ==
    /\ derived' = Incidents(Loaded)
    /\ saved' = saved \union derived'
    /\ current' = TRUE
    /\ UNCHANGED <<stored, passwd, removals>>

(* The engine stores alerts with new keys and never drops or changes one.  *)
StoreAlert(a) ==
    /\ Len(stored) < MaxAlerts
    /\ \A i \in DOMAIN stored : AlertRef(stored[i]) # AlertRef(a)
    /\ stored' = Append(stored, a)
    /\ current' = FALSE
    /\ UNCHANGED <<passwd, derived, saved, removals>>

Useradd(account) ==
    /\ \A entry \in passwd : entry[1] # account[1] /\ entry[2] # account[2]
    /\ passwd' = passwd \union {account}
    /\ current' = FALSE
    /\ UNCHANGED <<stored, derived, saved, removals>>

Userdel(account) ==
    /\ account \in passwd
    /\ removals < MaxRemovals
    /\ removals' = removals + 1
    /\ passwd' = passwd \ {account}
    /\ current' = FALSE
    /\ UNCHANGED <<stored, derived, saved>>

CorrelationNext ==
    \/ CorrelationRun
    \/ \E a \in Alerts : StoreAlert(a)
    \/ \E account \in Accounts : Useradd(account) \/ Userdel(account)

CorrelationSpec == CorrelationInit /\ [][CorrelationNext]_correlationVars

-----------------------------------------------------------------------------

IncidentsOf(parent, incidents) == {i \in incidents : i.parent = parent}

AlertOf(ref) == stored[CHOOSE i \in DOMAIN stored : AlertRef(stored[i]) = ref]

(* An incident tells one story ("parent: ... the triggering/most-recent    *)
(* alert"): its links begin one after the other, the parent comes last,    *)
(* each other link had ended by then and not more than the window before;  *)
(* and as long as no account was deleted all links belong to one user.     *)
ChainsHold ==
    \A incident \in saved :
        LET links  == [c \in DOMAIN incident.chain |-> AlertOf(incident.chain[c])]
            parent == links[Len(links)]
        IN  /\ AlertRef(parent) = incident.parent
            /\ Len(links) > 1
            /\ \A c \in 1 .. Len(links) - 1 :
                  /\ EventStart(links[c]) <= EventStart(links[c + 1])
                  /\ EventEnd(links[c]) < EventStart(parent)
                  /\ EventStart(parent) - EventEnd(links[c]) <= WindowHours
                  /\ removals = 0 => Identity(links[c]) = Identity(parent)

(* A run surfaces every anchor that anything earlier speaks for, in one    *)
(* incident, graded at least as high as the strongest thing that does.     *)
NothingUnderstated ==
    current =>
        \A anchor, earlier \in ToSet(Loaded) :
            /\ anchor.rule \in SEVERITY_OPT_IN_RULES
            /\ Identity(earlier) # NoUser /\ Identity(earlier) = Identity(anchor)
            /\ EventEnd(earlier) < EventStart(anchor)
            /\ EventEnd(earlier) + WindowHours >= EventStart(anchor)
            => \A group \in ToSet(CORRELATION_RULES[anchor.rule]) :
                  \A tier \in ToSet(group) :
                      tier.rule = earlier.rule =>
                          \E incident \in IncidentsOf(AlertRef(anchor), derived) :
                              Rank(incident.severity) >= Rank(tier.severity)

(* Late alerts change the key of an incident only for the better: what a   *)
(* run derived for a parent, the next one derives with no lower severity   *)
(* and no shorter chain, as long as no account was deleted.                *)
NeverWeakened ==
    [][removals = 0 =>
          \A incident \in derived :
              \E next \in IncidentsOf(incident.parent, derived') :
                  /\ Rank(next.severity) >= Rank(incident.severity)
                  /\ Len(next.chain) >= Len(incident.chain)]_correlationVars

=============================================================================
