---------------------------- MODULE AuditRules ----------------------------
(***************************************************************************)
(* audit.log: how the records of a batch become events, and the rules over *)
(* the events of one batch (rule_004, 005, 008, 010 to 014).               *)
(*                                                                         *)
(* A record is [serial, type, event]: a SYSCALL record carries every field *)
(* of the event but the name, a PATH record carries the name.  An          *)
(* executable is [path, base, trusted, interpreter].                       *)
(***************************************************************************)
EXTENDS Lists, Bursts, FiniteSetsExt

CONSTANTS
    AuditWindow,     \* rule_012 and rule_013 WINDOW_SECONDS
    AuditThreshold,  \* rule_012 and rule_013 THRESHOLD
    AdminAuids,      \* rule_004 ADMIN_AUIDS
    Truncated        \* the pairs <<comm, base>> where comm is base cut off

ASSUME AuditAssumption == AuditWindow \in Nat /\ AuditThreshold \in Nat \ {0}

AuditFields == {"time", "auid", "euid", "pid", "exe", "comm", "name", "key", "syscall"}

Recon == [seconds |-> AuditWindow, events |-> AuditThreshold]

ShadowWhitelist ==
    {"/usr/bin/passwd", "/usr/sbin/unix_chkpwd", "/usr/bin/sudo",
     "/usr/lib/x86_64-linux-gnu/security/pam_unix.so",
     "/usr/lib/openssh/sshd-session"}

PrivescKeys == {"sudo_execution", "su_execution", "privilege_change"}

TamperKeys == {"auditd_tamper", "auditd_rules_tamper", "syslog_tamper",
               "bootloader_tamper"}

CronWrites == {"openat", "open", "rename", "link"}

EnumerationCommands == {"whoami", "id", "who", "w", "getent", "finger",
                        "groups", "last", "lastlog", "users"}

SensitiveFiles == {"/etc/passwd", "/etc/group", "/etc/sudoers", "/etc/shadow"}

DiscoveryCommands == {"uname", "hostname", "uptime", "ps", "top", "htop",
                      "netstat", "ss", "arp", "ifconfig", "ip", "df", "mount",
                      "env", "printenv", "find"}

SensitiveNames == {"sshd", "sshd-session", "sudo", "su", "passwd",
                   "unix_chkpwd", "polkitd", "cron", "crond", "systemd",
                   "auditd", "rsyslogd", "systemd-journald", "NetworkManager",
                   "systemd-resolved", "dbus-daemon"}

-----------------------------------------------------------------------------
(* group_audit_lines.                                                      *)

NoName == "none"

Serials(records) == Distinct([i \in DOMAIN records |-> records[i].serial])

RecordsOf(records, serial, type) ==
    Kept(records, {i \in DOMAIN records :
                      records[i].serial = serial /\ records[i].type = type})

(* The events of one serial: none without a SYSCALL record in the batch,   *)
(* and one without a name when the PATH record is not in the batch.        *)
Group(records, serial) ==
    LET syscalls == RecordsOf(records, serial, "SYSCALL")
        paths    == RecordsOf(records, serial, "PATH")
    IN  IF syscalls = <<>> THEN <<>>
        ELSE <<[Head(syscalls).event EXCEPT !.name =
                    IF paths = <<>> THEN NoName ELSE Head(paths).event.name]>>

AuditEvents(records) ==
    LET serials == Serials(records)
    IN  FlattenSeq([i \in DOMAIN serials |-> Group(records, serials[i])])

-----------------------------------------------------------------------------
(* The rules.                                                              *)

(* is_privileged_escalation.                                               *)
Escalated(e) == e.euid = "root" /\ e.auid \notin {"root", "unset"}

AuditAlert(rule, e, what, number, severity) ==
    [rule |-> rule, key |-> [who |-> e.auid, what |-> what, when |-> number],
     severity |-> severity, actor |-> e.auid, first |-> e.time, last |-> e.time]

PerEvent(rule(_), events) ==
    FlattenSeq([i \in DOMAIN events |-> rule(events[i])])

ShadowAccess(e) ==
    IF /\ e.key = "shadow_access"
       /\ e.exe.path \notin ShadowWhitelist
       /\ ~(e.auid \in AdminAuids /\ e.euid # "root")
    THEN <<AuditAlert("rule_004", e, <<e.exe.path>>, 0, "CRITICAL")>>
    ELSE <<>>

PrivilegeEscalation(e) ==
    IF e.key \in PrivescKeys /\ Escalated(e)
    THEN <<AuditAlert("rule_005", e, <<e.exe.path>>, e.pid, "CRITICAL")>>
    ELSE <<>>

CronPersistence(e) ==
    IF e.auid # "unset" /\ e.key = "cron_modification" /\ e.syscall \in CronWrites
    THEN <<AuditAlert("rule_008", e, <<e.exe.path, e.name>>, 0,
                      IF Escalated(e) THEN "CRITICAL" ELSE "HIGH")>>
    ELSE <<>>

AuditdTamper(e) ==
    IF e.key \in TamperKeys
    THEN <<AuditAlert("rule_010", e, <<e.exe.path, e.key>>, 0,
                      IF Escalated(e) THEN "CRITICAL" ELSE "HIGH")>>
    ELSE <<>>

SudoersTamper(e) ==
    IF e.key = "sudoers_tamper"
    THEN <<AuditAlert("rule_011", e, <<e.exe.path>>, 0, "CRITICAL")>>
    ELSE <<>>

NameMismatch(e) ==
    /\ e.exe.base # e.comm
    /\ <<e.comm, e.exe.base>> \notin Truncated
    /\ <<e.comm, e.exe.path>> \notin {<<"sh", "/usr/bin/dash">>, <<"sh", "/bin/dash">>}
    /\ ~e.exe.interpreter

UntrustedPath(e) ==
    e.comm \in SensitiveNames /\ ~e.exe.trusted /\ ~e.exe.interpreter

(* Bug: the alert without a dedup_key has no auid in its extra fields.     *)
MasqueradingAnonymous(e) ==
    (IF NameMismatch(e)
     THEN <<AuditAlert("rule_014", e, <<e.exe.path, e.comm>>, 0, "CRITICAL")>>
     ELSE <<>>)
    \o
    (IF UntrustedPath(e)
     THEN <<[AuditAlert("rule_014", e, <<>>, 0, "CRITICAL") EXCEPT !.key.who = ""]>>
     ELSE <<>>)

(* The alert for an untrusted path has no dedup_key: the fallback key of   *)
(* deduplicate_alerts keeps only the auid.                                 *)
Masquerading(e) ==
    (IF NameMismatch(e)
     THEN <<AuditAlert("rule_014", e, <<e.exe.path, e.comm>>, 0, "CRITICAL")>>
     ELSE <<>>)
    \o
    (IF UntrustedPath(e)
     THEN <<AuditAlert("rule_014", e, <<>>, 0, "CRITICAL")>>
     ELSE <<>>)

Enumerates(e) ==
    \/ e.exe.base \in EnumerationCommands
    \/ e.name \in SensitiveFiles

Discovers(e) == e.exe.base \in DiscoveryCommands

(* The loop of rule_012 and rule_013 over the events of one auid.          *)
WindowAlerts(rule, severity, sorted) ==
    LET times  == [i \in DOMAIN sorted |-> sorted[i].time]
        bursts == BurstsOf(Recon, times)
    IN  [n \in DOMAIN bursts |->
            [AuditAlert(rule, sorted[Min(bursts[n])], <<>>, times[Min(bursts[n])], severity)
                EXCEPT !.last = times[Max(bursts[n])]]]

Counted(e) == e.auid \notin {"unset", "root"}

(* The auids are the keys of by_auid.                                      *)
PerAuid(rule, severity, events) ==
    LET auids == Distinct([i \in DOMAIN events |-> events[i].auid])
        OfAuid(auid) ==
            SortedByTime(events, {i \in DOMAIN events : events[i].auid = auid})
    IN  FlattenSeq([n \in DOMAIN auids |-> WindowAlerts(rule, severity, OfAuid(auids[n]))])

AccountEnumeration(events) ==
    PerAuid("rule_012", "HIGH",
            Kept(events, {i \in DOMAIN events : Counted(events[i]) /\ Enumerates(events[i])}))

SystemDiscovery(events) ==
    PerAuid("rule_013", "MEDIUM",
            Kept(events, {i \in DOMAIN events : Counted(events[i]) /\ Discovers(events[i])}))

AuditAlerts(records) ==
    LET events == AuditEvents(records)
    IN  PerEvent(ShadowAccess, events) \o PerEvent(CronPersistence, events)
        \o PerEvent(AuditdTamper, events) \o PerEvent(SudoersTamper, events)
        \o AccountEnumeration(events) \o SystemDiscovery(events)
        \o PerEvent(PrivilegeEscalation, events) \o PerEvent(Masquerading, events)

=============================================================================
