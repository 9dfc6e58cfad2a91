----------------------------- MODULE Detection -----------------------------
(***************************************************************************)
(* From a log to alerts.json: a source writes entries, the engine takes    *)
(* what is new as one batch, parses it, runs the rules over it, and adds   *)
(* what the rules raise unless an alert with the same key is stored.       *)
(*                                                                         *)
(* One source is followed at a time (their alerts never share a key); how  *)
(* a batch is read is LogReader's and Objects' subject, how a cycle can    *)
(* fail EngineCycle's.                                                     *)
(***************************************************************************)
EXTENDS AuthRules, AuditRules, CloudRules, Honeypot

CONSTANTS
    Entries,     \* source -> what the source can write
    MaxEntries,  \* bound: source -> length of its log
    MaxRereads   \* bound: times the position is lost

Sources == {"auth_log", "auditd", "cloudtrail", "falco", "cowrie"}

(* No line of Cowrie is from 1970: NoTime marks a session without a time.  *)
ASSUME EntriesAssumption ==
    /\ DOMAIN Entries = Sources
    /\ \A line \in Entries["auth_log"] : line.time \in Nat
    /\ \A event \in Entries["auditd"] :
          DOMAIN event = AuditFields /\ event.time \in Nat
    /\ \A line \in Entries["cowrie"] : line.time # NoTime

(* An account has one root user.                                           *)
ASSUME RootAssumption ==
    \A r, s \in Entries["cloudtrail"] :
        r.type = "Root" /\ s.type = "Root" => ActorName(r) = ActorName(s)

ASSUME DetectionBoundAssumption ==
    MaxEntries \in [Sources -> Nat] /\ MaxRereads \in Nat

VARIABLES
    source,    \* the source this behaviour follows
    log,       \* what it has written
    position,  \* how much of it the collector has read
    alerts,    \* alerts.json
    db,        \* the Cowrie database
    kept,      \* history: Cowrie lines of the batches that could be parsed
    rereads    \* times the position was lost

detectionVars == <<source, log, position, alerts, db, kept, rereads>>

DetectionInit ==
    /\ source \in Sources
    /\ log = <<>>
    /\ position = 0
    /\ alerts = <<>>
    /\ db = EmptyDb
    /\ kept = <<>>
    /\ rereads = 0

-----------------------------------------------------------------------------

(* dedup_key: the rule and its key.                                        *)
SameAlert(a, b) == a.rule = b.rule /\ a.key = b.key

(* deduplicate_alerts: the first alert with a key stays.                   *)
AddNew(stored, raised) ==
    LET Fresh(i) ==
            /\ \A j \in DOMAIN stored : ~SameAlert(stored[j], raised[i])
            /\ \A j \in 1 .. i - 1 : ~SameAlert(raised[j], raised[i])
    IN  stored \o Kept(raised, {i \in DOMAIN raised : Fresh(i)})

Raised(batch) ==
    CASE source = "auth_log"   -> AuthAlerts(batch)
      [] source = "auditd"     -> AuditAlerts(batch)
      [] source = "cloudtrail" -> CloudTrailAlerts(batch)
      [] source = "falco"      -> FalcoAlerts(batch)
      [] source = "cowrie"     -> HoneypotAlerts(batch)

Batch == SubSeq(log, position + 1, Len(log))

(* One cycle of the engine.                                                *)
Cycle ==
    /\ position < Len(log)
    /\ position' = Len(log)
    /\ alerts' = AddNew(alerts, Raised(Batch))
    /\ IF source = "cowrie"
       THEN /\ db' = StoreSessions(db, Batch)
            /\ kept' = IF Sessions(Batch) = <<>> THEN kept ELSE kept \o Batch
       ELSE UNCHANGED <<db, kept>>
    /\ UNCHANGED <<source, log, rereads>>

(* state.json is lost: the next cycle reads the log from its beginning.    *)
Reread ==
    /\ rereads < MaxRereads
    /\ position > 0
    /\ position' = 0
    /\ rereads' = rereads + 1
    /\ UNCHANGED <<source, log, alerts, db, kept>>

(* The audit daemon writes the SYSCALL record of an event, then its PATH   *)
(* record; records of other events can come between them.                  *)
AuditRecords ==
    {[serial |-> Len(log) + 1, type |-> "SYSCALL", event |-> e] : e \in Entries["auditd"]}
    \union
    {[log[i] EXCEPT !.type = "PATH"] : i \in {j \in DOMAIN log :
        /\ log[j].event.name # NoName
        /\ \A k \in DOMAIN log : log[k].serial = log[j].serial => k = j}}

TimeOfEntry(entry) == IF source = "auditd" THEN entry.event.time ELSE entry.time

(* A session of Cowrie begins with its connect line and has one of them.   *)
FollowsSession(entry) ==
    LET before == \E i \in DOMAIN log : log[i].session = entry.session
    IN  entry.good => (entry.kind = "connect" <=> ~before)

(* A log is written in the order of time; CloudTrail's records come as     *)
(* they come, and a PATH record has the time of its event.                 *)
InTime(entry) ==
    source # "cloudtrail" =>
        \A i \in DOMAIN log :
            \/ TimeOfEntry(log[i]) <= TimeOfEntry(entry)
            \/ source = "auditd" /\ entry.type = "PATH"

Write ==
    \E entry \in IF source = "auditd" THEN AuditRecords ELSE Entries[source] :
        /\ Len(log) < MaxEntries[source]
        /\ InTime(entry)
        /\ source = "cowrie" => FollowsSession(entry)
        /\ log' = Append(log, entry)
        /\ UNCHANGED <<source, position, alerts, db, kept, rereads>>

DetectionNext == Cycle \/ Reread \/ Write

DetectionSpec == DetectionInit /\ [][DetectionNext]_detectionVars

-----------------------------------------------------------------------------

(* A connection that tries a login: a wrong password, or the one line sshd *)
(* writes about a probe.                                                   *)
IsAttempt(line) ==
    \/ line.kind = "failed"
    \/ line.sshd /\ line.kind \in {"invalid_user", "closed_auth_user"}

AttemptsOf(lines, ip, from, to) ==
    {i \in DOMAIN lines : /\ IsAttempt(lines[i]) /\ lines[i].ip = ip
                          /\ lines[i].time \in from .. to}

FailuresOf(lines, ip, from, to) ==
    {i \in AttemptsOf(lines, ip, from, to) : lines[i].kind = "failed"}

SyscallsOf(records, auid, from, to) ==
    {i \in DOMAIN records : /\ records[i].type = "SYSCALL"
                            /\ records[i].event.auid = auid
                            /\ records[i].event.time \in from .. to}

Grounded(written, a) ==
    CASE a.rule = "rule_001" ->
            /\ Cardinality(AttemptsOf(written, a.actor, a.first, a.last)) >= BruteThreshold
            /\ a.last - a.first <= BruteWindow
            /\ a.severity # "CRITICAL"
      [] a.rule = "rule_007" ->
            /\ \E i \in DOMAIN written :
                  /\ written[i].kind = "accepted" /\ written[i].ip = a.actor
                  /\ written[i].time = a.last
            /\ Cardinality(FailuresOf(written, a.actor, a.first, a.last)) >= SuccessThreshold
            /\ FailuresOf(written, a.actor, a.last - SuccessWindow, a.last) # {}
      [] a.rule \in {"rule_012", "rule_013"} ->
            /\ Cardinality(SyscallsOf(written, a.actor, a.first, a.last)) >= AuditThreshold
            /\ a.last - a.first <= AuditWindow
      [] a.rule = "rule_015" ->
            \E i \in DOMAIN written :
                /\ written[i].session = a.actor /\ written[i].kind = "login_success"
                /\ written[i].time = a.first
      [] OTHER -> TRUE

(* Every stored alert about several events is backed by the log: enough    *)
(* attempts of that address, none counted twice, close together; failures  *)
(* before the login and not after it; a success in the session.  Of the    *)
(* reconnaissance of rule_012 and rule_013 only this much is asked: as many*)
(* system calls of that user, whichever they were.  README.md calls the    *)
(* grade AGGRESSIVE unreachable: no burst is CRITICAL.                     *)
AlertsGrounded == \A i \in DOMAIN alerts : Grounded(log, alerts[i])

(* What a batch raises about somebody is stored about them: the keys under *)
(* which alerts are suppressed never hide one actor behind another, in the *)
(* same batch or in any before it.  Not so for Falco: rule_017 reports a   *)
(* user and its key leaves the user out, so the first user of a host, rule *)
(* and day hides the others (README.md, known limits).                     *)
NoActorMasked ==
    [][position' > position =>
          \A a \in {r \in ToSet(Raised(Batch)) : r.rule # "rule_017"} :
              \E i \in DOMAIN alerts' :
                  alerts'[i].rule = a.rule /\ alerts'[i].actor = a.actor]_detectionVars

(* Attempts of one address that lie together in a batch and in time are    *)
(* reported: an alert of that address and of a day around them is stored   *)
(* (one alert may stand for several bursts of a day).  A burst that is     *)
(* split over two batches is not covered.                                  *)
BurstsReported ==
    [][position' > position /\ source = "auth_log" =>
          \A ip \in ValidIPs : \A from \in 1 .. Len(Batch) :
              LET near == {i \in 1 .. Len(Batch) :
                              /\ IsAttempt(Batch[i]) /\ Batch[i].ip = ip
                              /\ Batch[i].time - Batch[from].time \in 0 .. BruteWindow}
              IN  Cardinality(near) >= BruteThreshold =>
                      \E i \in DOMAIN alerts' :
                          /\ alerts'[i].rule = "rule_001" /\ alerts'[i].actor = ip
                          /\ alerts'[i].key.when \in
                                 Day(Max({0, Batch[from].time - BruteWindow}))
                                     .. Day(Batch[from].time + BruteWindow)]_detectionVars

(* However the lines of the sessions are split into batches and read again,*)
(* the database holds what one reading of them all would have stored, and  *)
(* each session with a successful login has one alert.                     *)
SessionsComplete ==
    source = "cowrie" =>
        /\ db = StoreSessions(EmptyDb, kept)
        /\ \A id \in ToSet(SessionIds(kept)) :
              Cardinality({i \in DOMAIN alerts : alerts[i].actor = id}) =
                  IF Successes(SessionOf(kept, id)) # <<>> THEN 1 ELSE 0

(* A successful console login without MFA is stored as CRITICAL, which is  *)
(* rule_002's grade for it ("severity escalation handled by Python         *)
(* rule_002").  The MEDIUM alert for API calls is meant for a "successful  *)
(* call, not a failed attempt", so it should not stand in the way.         *)
SuccessfulLoginsStored ==
    source = "cloudtrail" =>
        \A i \in 1 .. position :
            SuspiciousLogin(log[i]) =>
                \E n \in DOMAIN alerts :
                    /\ alerts[n].rule = "rule_002" /\ alerts[n].actor = ActorName(log[i])
                    /\ alerts[n].severity = "CRITICAL"

=============================================================================
