---------------------------- MODULE CloudRules ----------------------------
(***************************************************************************)
(* CloudTrail records and Falco alerts: how one becomes an event, and the  *)
(* rules over single events (rule_002, 006, 009, 016 and 017).             *)
(*                                                                         *)
(* A CloudTrail record is [type, userName, issuer, principal, event,       *)
(* sessionMfa, mfaUsed, login, error, ip, time], "" standing for a field   *)
(* it does not have; a Falco alert is [host, user, rule, tags, priority,    *)
(* time].                                                                  *)
(***************************************************************************)
EXTENDS Integers, Sequences, SequencesExt

CONSTANTS
    CanaryUsers,   \* rule_016 CANARY_USERNAMES
    MitreTags,     \* the Falco tags of the form T1234 or T1234.567
    FalcoDay       \* length of a day on the clock of the Falco alerts

KnownTechniques == {"T1555", "T1548", "T1053.003"}

-----------------------------------------------------------------------------
(* CloudTrailEvent.                                                        *)

(* The username cascade of extract_actor_info.                             *)
ActorName(r) ==
    CASE r.userName # "" -> r.userName
      [] r.userName = "" /\ r.issuer # "" -> r.issuer
      [] r.userName = "" /\ r.issuer = "" /\ r.type = "Root" -> "root"
      [] OTHER -> r.principal

(* mfa_authenticated: the session's flag, else the field of ConsoleLogin.  *)
Mfa(r) ==
    CASE r.sessionMfa # "" -> r.sessionMfa
      [] r.sessionMfa = "" /\ r.mfaUsed = "Yes" -> "true"
      [] r.sessionMfa = "" /\ r.mfaUsed = "No" -> "false"
      [] OTHER -> ""

(* "not self.mfa_used": an unknown status counts as used.                  *)
WithoutMfa(r) == Mfa(r) = "false"

IsConsoleLogin(r) == r.event = "ConsoleLogin"

LoginSuccess(r) == r.login = "Success"

(* A ConsoleLogin that fails has no errorCode, so it passes here as well.  *)
ApiCallWithoutMfa(r) == r.type = "IAMUser" /\ WithoutMfa(r) /\ ~r.error

SuspiciousLogin(r) == IsConsoleLogin(r) /\ LoginSuccess(r) /\ WithoutMfa(r)

-----------------------------------------------------------------------------
(* The rules.                                                              *)

CloudAlert(rule, r, who, what, severity) ==
    <<[rule |-> rule, key |-> [who |-> who, what |-> what, when |-> 0],
       severity |-> severity, actor |-> ActorName(r), first |-> r.time,
       last |-> r.time]>>

NoMfaLogin(r) ==
    CASE SuspiciousLogin(r) ->
            CloudAlert("rule_002", r, ActorName(r), <<r.event>>, "CRITICAL")
      [] ~SuspiciousLogin(r) /\ ApiCallWithoutMfa(r) ->
            CloudAlert("rule_002", r, ActorName(r), <<r.event>>, "MEDIUM")
      [] OTHER -> <<>>

RootLogin(r) ==
    IF r.type = "Root" /\ IsConsoleLogin(r) /\ LoginSuccess(r)
    THEN CloudAlert("rule_006", r, r.ip, <<>>, "CRITICAL")
    ELSE <<>>

CloudTrailDisabled(r) ==
    CASE r.event \in {"DeleteTrail", "StopLogging"} ->
            CloudAlert("rule_009", r, ActorName(r), <<r.event>>, "CRITICAL")
      [] r.event \in {"UpdateTrail", "PutEventSelectors"} ->
            CloudAlert("rule_009", r, ActorName(r), <<r.event>>, "HIGH")
      [] OTHER -> <<>>

CanaryUsed(r) ==
    IF ActorName(r) \in CanaryUsers
    THEN CloudAlert("rule_016", r, ActorName(r), <<>>, "CRITICAL")
    ELSE <<>>

Each(rule(_), records) ==
    FlattenSeq([i \in DOMAIN records |-> rule(records[i])])

CloudTrailAlerts(records) ==
    Each(NoMfaLogin, records) \o Each(RootLogin, records)
    \o Each(CloudTrailDisabled, records) \o Each(CanaryUsed, records)

-----------------------------------------------------------------------------
(* rule_017: Falco's own alerts.                                           *)

(* _extract_technique looks at the first tag of the MITRE form only.       *)
Technique(tags) ==
    LET mitre == SelectSeq(tags, LAMBDA t : t \in MitreTags)
    IN  IF mitre # <<>> /\ Head(mitre) \in KnownTechniques THEN Head(mitre) ELSE ""

FalcoSeverity(priority) ==
    CASE priority \in {"Emergency", "Alert", "Critical"} -> "CRITICAL"
      [] priority = "Error" -> "HIGH"
      [] priority = "Notice" -> "LOW"
      [] priority \in {"Informational", "Debug"} -> "INFO"
      [] OTHER -> "MEDIUM"

(* The alert is about the user, its key is the host, the rule and the day. *)
FalcoPassthrough(a) ==
    IF Technique(a.tags) = "" THEN <<>>
    ELSE <<[rule |-> "rule_017",
            key |-> [who |-> a.host, what |-> <<a.rule>>, when |-> a.time \div FalcoDay],
            severity |-> FalcoSeverity(a.priority), actor |-> a.user,
            first |-> a.time, last |-> a.time]>>

FalcoAlerts(alerts) == Each(FalcoPassthrough, alerts)

=============================================================================
