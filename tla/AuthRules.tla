----------------------------- MODULE AuthRules -----------------------------
(***************************************************************************)
(* auth.log: how a line becomes an event, and the rules over the events of *)
(* one batch: rule_001 (brute force), rule_003 (new user), rule_007 (brute *)
(* force that succeeded).                                                  *)
(*                                                                         *)
(* A line is [kind, sshd, ip, user, time]; its kind is the pattern it      *)
(* matches first.                                                          *)
(***************************************************************************)
EXTENDS Lists, Bursts, FiniteSetsExt

CONSTANTS
    BruteWindow,      \* rule_001 WINDOW_SECONDS
    BruteThreshold,   \* rule_001 THRESHOLD
    ModerateRate,     \* attempts a second beyond which rule_001 says HIGH
    AggressiveRate,   \* and beyond which it says CRITICAL
    SuccessWindow,    \* rule_007 WINDOW_SECONDS
    SuccessThreshold, \* rule_007 THRESHOLD_ATTEMPTS
    DayLength,        \* seconds in a day
    SuspiciousNames,  \* rule_003 SUSPICIOUS_NAMES
    ValidIPs          \* the addresses ip_address() accepts

ASSUME AuthAssumption ==
    /\ BruteWindow \in Nat /\ SuccessWindow \in Nat
    /\ BruteThreshold \in Nat \ {0} /\ SuccessThreshold \in Nat \ {0}
    /\ DayLength \in Nat \ {0}
    /\ AggressiveRate \in Nat /\ BruteThreshold <= AggressiveRate

Brute == [seconds |-> BruteWindow, events |-> BruteThreshold]

-----------------------------------------------------------------------------
(* AuthLogEvent.from_raw.                                                  *)

(* validate_ip rejects the line as a whole.                                *)
HasAddress(line) ==
    \/ line.kind \in {"failed", "accepted"}
    \/ line.kind \in {"invalid_user", "closed_auth_user"} /\ line.sshd

Parses(line) == HasAddress(line) => line.ip \in ValidIPs

AuthResult(line) ==
    CASE line.kind \in {"failed", "accepted"} -> line.kind
      [] line.sshd /\ line.kind \in {"invalid_user", "closed_auth_user"} -> "probe"
      [] OTHER -> "none"

AuthEvent(line) ==
    [result  |-> AuthResult(line),
     ip      |-> line.ip,
     user    |-> line.user,
     newUser |-> line.kind = "new_user",
     time    |-> line.time]

AuthEvents(lines) ==
    LET parsed == Kept(lines, {i \in DOMAIN lines : Parses(lines[i])})
    IN  [i \in DOMAIN parsed |-> AuthEvent(parsed[i])]

-----------------------------------------------------------------------------
(* The rules.                                                              *)

AuthAlert(rule, key, severity, actor, first, last) ==
    [rule |-> rule, key |-> key, severity |-> severity, actor |-> actor,
     first |-> first, last |-> last]

Day(time) == time \div DayLength

IsTry(e) == e.result \in {"failed", "probe"}

(* The keys of by_ip.                                                      *)
AddressesOf(events) ==
    LET tries == Kept(events, {i \in DOMAIN events : IsTry(events[i])})
    IN  Distinct([i \in DOMAIN tries |-> tries[i].ip])

Attempts(events, ip) ==
    SortedByTime(events, {i \in DOMAIN events : IsTry(events[i]) /\ events[i].ip = ip})

SpeedSeverity(count, duration) ==
    CASE count > AggressiveRate * Max({duration, 1}) -> "CRITICAL"
      [] count > ModerateRate * Max({duration, 1}) -> "HIGH"
      [] OTHER -> "MEDIUM"

(* Bug: one key for all the days, so that the first day's alert stands in  *)
(* the way of the next day's.                                              *)
BruteAlertOfAnyDay(attempts, burst, ip) ==
    LET first == attempts[Min(burst)].time
        last  == attempts[Max(burst)].time
    IN  AuthAlert("rule_001", [who |-> ip, what |-> <<>>, when |-> 0],
                  SpeedSeverity(Cardinality(burst), last - first), ip, first, last)

BruteAlert(attempts, burst, ip) ==
    LET first == attempts[Min(burst)].time
        last  == attempts[Max(burst)].time
    IN  AuthAlert("rule_001", [who |-> ip, what |-> <<>>, when |-> Day(first)],
                  SpeedSeverity(Cardinality(burst), last - first), ip, first, last)

BruteAlertsOf(events, ip) ==
    LET attempts == Attempts(events, ip)
        times    == [i \in DOMAIN attempts |-> attempts[i].time]
        bursts   == BurstsOf(Brute, times)
    IN  [n \in DOMAIN bursts |-> BruteAlert(attempts, bursts[n], ip)]

BruteForce(events) ==
    LET ips == AddressesOf(events)
    IN  FlattenSeq([i \in DOMAIN ips |-> BruteAlertsOf(events, ips[i])])

NewUser(events) ==
    LET created == Kept(events, {i \in DOMAIN events : events[i].newUser})
    IN  [i \in DOMAIN created |->
            AuthAlert("rule_003",
                      [who |-> created[i].user, what |-> <<>>, when |-> 0],
                      IF created[i].user \in SuspiciousNames THEN "CRITICAL" ELSE "HIGH",
                      created[i].user, created[i].time, created[i].time)]

(* Bug: any failure of the batch may be the last one before the login.     *)
SucceedsAnyhow(accepted, failures) ==
    \E i \in DOMAIN failures : accepted.time - failures[i].time <= SuccessWindow

(* Of all the failures only the last one of the batch is compared.         *)
Succeeds(accepted, failures) ==
    /\ Len(failures) >= SuccessThreshold
    /\ accepted.time - Last(failures).time \in 0 .. SuccessWindow

Failures(events, ip) ==
    Kept(events, {i \in DOMAIN events : events[i].result = "failed" /\ events[i].ip = ip})

BruteSuccess(events) ==
    LET hits == Kept(events, {i \in DOMAIN events :
                    /\ events[i].result = "accepted"
                    /\ Succeeds(events[i], Failures(events, events[i].ip))})
    IN  [i \in DOMAIN hits |->
            AuthAlert("rule_007",
                      [who |-> hits[i].ip, what |-> <<hits[i].user>>, when |-> 0],
                      "CRITICAL", hits[i].ip,
                      Head(Failures(events, hits[i].ip)).time, hits[i].time)]

AuthAlerts(lines) ==
    LET events == AuthEvents(lines)
    IN  BruteForce(events) \o NewUser(events) \o BruteSuccess(events)

=============================================================================
