--------------------------- MODULE MCCorrelation ---------------------------
(* TLC: the production rules, the second group that tests enable, and an    *)
(* anchor that keeps its own severity.                                      *)
EXTENDS Correlation

Tier(rule, severity) == [rule |-> rule, severity |-> severity]

MCRules ==
    [rule_008 |-> << <<Tier("rule_007", "CRITICAL"), Tier("rule_001", "MEDIUM")>>,
                     <<Tier("rule_003", "HIGH")>> >>,
     rule_005 |-> << <<Tier("rule_007", "CRITICAL")>> >>]

Raised(rule, key, severity, username, auid, first, last) ==
    [rule |-> rule, key |-> key, severity |-> severity, username |-> username,
     auid |-> auid, first |-> first, last |-> last, valid |-> TRUE]

Login(key, username, first, last) ==
    Raised("rule_007", key, "CRITICAL", username, 0, first, last)

Burst(key, username, first, last) ==
    Raised("rule_001", key, "MEDIUM", username, 0, first, last)

Cron(key, severity, auid) == Raised("rule_008", key, severity, "", auid, 5, NoTime)

MCAlerts ==
    {Cron("a", "HIGH", 1000), Cron("b", "CRITICAL", 1001),
     Raised("rule_005", "a", "CRITICAL", "", 1000, 4, NoTime),
     Raised("rule_003", "c", "HIGH", "alice", 0, 3, NoTime),
     Login("x", "alice", 1, 3), Login("y", "alice", 3, 4), Login("z", "alice", 4, 5),
     Login("u", "bob", 1, 1), Burst("p", "alice", 3, 4), Burst("q", "bob", 2, 3),
     [Login("w", "alice", 2, 4) EXCEPT !.valid = FALSE]}

MCAccounts == {<<1000, "alice">>, <<1001, "bob">>, <<1001, "alice">>}

=============================================================================
