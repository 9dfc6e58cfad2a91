----------------------------- MODULE GeoCache -----------------------------
(***************************************************************************)
(* geo_lookup.enrich: each publish asks a free service for the locations   *)
(* of the attackers it lists, busiest first, at most MAX_NEW_PER_CYCLE of  *)
(* them, and keeps the answers, and the failures for RETRY_AFTER, in       *)
(* geo_cache.json.  The service may not know an address, or may ask for    *)
(* fewer requests; the honeypot database, which ranks the attackers, may   *)
(* be unreadable, and so may the cache; the engine may be killed before    *)
(* the cache is saved.                                                     *)
(*                                                                         *)
(* Time is counted in publishes; they come one after the other.            *)
(***************************************************************************)
EXTENDS Integers, FiniteSets, Functions

CONSTANTS
    Addresses,          \* the attackers
    Locatable,          \* those the service always knows
    Private,            \* those that are not global addresses
    MAX_NEW_PER_CYCLE,
    RETRY_AFTER,
    MaxMishaps          \* bound: cycles that a mishap cuts short

(* The hour until a lookup is repeated is longer than the time between two *)
(* publishes.                                                              *)
ASSUME GeoAssumption ==
    /\ Locatable \subseteq Addresses \ Private
    /\ RETRY_AFTER > 1
    /\ {MAX_NEW_PER_CYCLE, RETRY_AFTER, MaxMishaps} \subseteq Nat

VARIABLES
    geo,      \* address -> its entry: [located, org: known with them; failed:
              \*   publishes since its lookup failed, at most RETRY_AFTER]
    asked,    \* history: address -> publishes since the service was asked
    mishaps

geoVars == <<geo, asked, mishaps>>

Entry(located, org, failed) == [located |-> located, org |-> org, failed |-> failed]

NotAsked == Entry(FALSE, FALSE, RETRY_AFTER)
Known    == Entry(TRUE, TRUE, RETRY_AFTER)
Failed   == Entry(FALSE, FALSE, 0)

(* Entries of an older version lack the organisation.                      *)
GeoInit ==
    /\ geo \in [Addresses -> {NotAsked, Entry(TRUE, FALSE, RETRY_AFTER)}]
    /\ asked = [ip \in Addresses |-> RETRY_AFTER]
    /\ mishaps = 0

Older(age) == IF age < RETRY_AFTER THEN age + 1 ELSE age

-----------------------------------------------------------------------------

Skipped(ip, entry) ==
    \/ ip \in Private
    \/ entry.located /\ entry.org
    \/ entry.failed < RETRY_AFTER

(* Bug: addresses that are skipped count as lookups.                       *)
TurnCountsAll(wanted, entries, i) == i

(* The lookups made when the i-th address has its turn, its own included.  *)
Turn(wanted, entries, i) ==
    Cardinality({j \in 1 .. i : ~ Skipped(wanted[j], entries[wanted[j]])})

(* Bug: a lookup that fails is not remembered.                             *)
AnsweredForgetful(entry, answer) == IF answer = "found" THEN Known ELSE entry

Answered(entry, answer) ==
    CASE answer = "found"   -> Known
      [] answer = "unknown" -> Failed
      [] answer = "limited" -> entry

(* The loop of enrich over the addresses it is given, each once: it asks   *)
(* until there were enough lookups, or the service limits them.            *)
Enrich(wanted, answers, entries) ==
    LET Asks(i) ==
            /\ ~ Skipped(wanted[i], entries[wanted[i]])
            /\ Turn(wanted, entries, i) <= MAX_NEW_PER_CYCLE
        Limited(i) == Asks(i) /\ answers[wanted[i]] = "limited"
        looked ==
            {wanted[i] : i \in {k \in DOMAIN wanted :
                                  Asks(k) /\ \A j \in 1 .. k - 1 : ~ Limited(j)}}
    IN  [asked   |-> looked,
         entries |-> [ip \in Addresses |->
             IF ip \in looked THEN Answered(entries[ip], answers[ip]) ELSE entries[ip]]]

(* fetch_ipwho.                                                            *)
Answers ==
    {a \in [Addresses -> {"found", "unknown"}] : \A ip \in Locatable : a[ip] = "found"}

(* The orders in which each set of addresses can be wanted.                *)
Orders ==
    [set \in SUBSET Addresses |->
        {s \in [1 .. Cardinality(set) -> set] : Range(s) = set}]

Published(entries, looked) ==
    /\ geo' = [ip \in Addresses |-> [entries[ip] EXCEPT !.failed = Older(@)]]
    /\ asked' = [ip \in Addresses |-> Older(IF ip \in looked THEN 0 ELSE asked[ip])]

(* What a publish that wants the addresses of the set can come to.         *)
Lookups(set, answers) == {Enrich(wanted, a, geo) : wanted \in Orders[set], a \in answers}

Look ==
    \E done \in Lookups(Addresses, Answers) :
        Published(done.entries, done.asked) /\ UNCHANGED mishaps

Mishap == mishaps < MaxMishaps /\ mishaps' = mishaps + 1

(* The service limits when it is asked for some address.                   *)
LookLimited ==
    /\ Mishap
    /\ \E ip \in Addresses :
          \E done \in Lookups(Addresses, {[a EXCEPT ![ip] = "limited"] : a \in Answers}) :
              Published(done.entries, done.asked)

(* top_ips finds no database: only the addresses of some alerts are wanted.*)
LookUnranked ==
    /\ Mishap
    /\ \E some \in SUBSET Addresses : \E done \in Lookups(some, Answers) :
          Published(done.entries, done.asked)

(* The engine is killed before save_cache.                                 *)
LookUnsaved ==
    /\ Mishap
    /\ \E done \in Lookups(Addresses, Answers) : Published(geo, done.asked)

(* load_cache finds no JSON and goes on with nothing.                      *)
LookForgetful ==
    /\ Mishap
    /\ \E wanted \in Orders[Addresses], a \in Answers :
          LET done == Enrich(wanted, a, [ip \in Addresses |-> NotAsked])
          IN  Published(done.entries, done.asked)

GeoNext == Look \/ LookLimited \/ LookUnranked \/ LookUnsaved \/ LookForgetful

(* Every cycle publishes, and mishaps come to an end.                      *)
GeoFairness == WF_geoVars(Look)

GeoSpec == GeoInit /\ [][GeoNext]_geoVars /\ GeoFairness

-----------------------------------------------------------------------------

(* The free service is not hammered: an address whose location is known is *)
(* not asked for, and between two questions about one address lie          *)
(* RETRY_AFTER publishes, until a mishap loses an answer.                  *)
NotHammered ==
    [][mishaps' = 0 =>
          \A ip \in Addresses :
              asked'[ip] = 1 =>
                  geo[ip] # Known /\ ip \notin Private /\ asked[ip] = RETRY_AFTER]_geoVars

(* The publishes that the failure of a lookup is remembered for have       *)
(* lookups left over when all the addresses that the service may never     *)
(* know have had theirs.                                                   *)
LookupsSuffice ==
    Cardinality(Addresses \ (Locatable \union Private)) < MAX_NEW_PER_CYCLE * RETRY_AFTER

(* Then every attacker the service knows is located in the end and keeps   *)
(* its location, in whatever order they are asked for: while the others'   *)
(* failures are remembered, it has its turn.  Where lookups do not suffice *)
(* it may never have it: the same addresses can come first again and       *)
(* again, as their failures are forgotten (README.md, known limits).       *)
EventuallyLocated ==
    LookupsSuffice => \A ip \in Locatable : <>[](geo[ip] = Known)

=============================================================================
