---------------------------- MODULE MCDetection ----------------------------
(* TLC: the window of the rules and the detection of one source share no    *)
(* state, so a behaviour follows one of them ("part") and the other stays   *)
(* as it is.                                                                *)
EXTENDS SlidingWindow, Detection

VARIABLE part

allVars == <<part, windowVars, detectionVars>>

Init ==
    \/ part = "window" /\ WindowInit /\ DetectionInit /\ source = "auth_log"
    \/ part = "detection" /\ WindowInit /\ times[6] = 0 /\ DetectionInit

Next ==
    \/ part = "window" /\ WindowNext /\ UNCHANGED <<part, detectionVars>>
    \/ part = "detection" /\ DetectionNext /\ UNCHANGED <<part, windowVars>>

Spec == Init /\ [][Next]_allVars

(* Six events, three of which fill a window of two seconds; the shorter     *)
(* batches are the first turns of these.                                    *)
MCBatches == {t \in [1 .. 6 -> 0 .. 5] : \A i \in 1 .. 5 : t[i] <= t[i + 1]}

-----------------------------------------------------------------------------
(* What the sources write.  A second is a tick, a day has two of them.     *)

AuthLine(kind, ip, user, time) ==
    [kind |-> kind, sshd |-> kind # "new_user", ip |-> ip, user |-> user, time |-> time]

AuthLines ==
    {AuthLine(kind, "ip1", "root", time) :
        kind \in {"failed", "accepted", "invalid_user", "closed_invalid_user"},
        time \in {1, 2, 4}}
    \union {AuthLine("failed", "ip2", "root", time) : time \in {1, 2, 4}}
    \union {AuthLine("failed", "999", "root", 2),
            AuthLine("new_user", "", "admin", 2), AuthLine("new_user", "", "bob", 2)}

Exe(path, base, trusted) ==
    [path |-> path, base |-> base, trusted |-> trusted, interpreter |-> FALSE]

AuditEvent(time, auid, euid, exe, comm, name, key) ==
    [time |-> time, auid |-> auid, euid |-> euid, pid |-> time, exe |-> exe,
     comm |-> comm, name |-> name, key |-> key, syscall |-> "openat"]

Id    == Exe("/usr/bin/id", "id", TRUE)
Uname == Exe("/usr/bin/uname", "uname", TRUE)
Vim   == Exe("/usr/bin/vim", "vim", TRUE)
Fake  == Exe("/tmp/sshd", "sshd", FALSE)
Odd   == Exe("/tmp/x", "x", FALSE)

AuditEventsWritten ==
    {AuditEvent(time, auid, "user", Id, "id", NoName, "exec") :
        time \in {1, 2}, auid \in {"u1", "u2"}}
    \union
    {AuditEvent(2, "u1", "user", Uname, "uname", NoName, "exec"),
     AuditEvent(4, "u1", "user", Vim, "vim", "/etc/passwd", "exec"),
     AuditEvent(1, "u1", "root", Vim, "vim", "/etc/cron.d/x", "cron_modification"),
     AuditEvent(2, "u1", "user", Vim, "vim", "/etc/cron.d/x", "cron_modification"),
     AuditEvent(1, "u1", "root", Vim, "vim", "/etc/shadow", "shadow_access"),
     AuditEvent(1, "u1", "root", Fake, "sshd", NoName, "sudo_execution"),
     AuditEvent(2, "u2", "user", Fake, "sshd", NoName, "auditd_tamper"),
     AuditEvent(2, "u2", "root", Odd, "sshd", NoName, "sudoers_tamper")}

Record(type, user, event, sessionMfa, mfaUsed, login, error, time) ==
    [type |-> type, userName |-> user, issuer |-> "", principal |-> "p",
     event |-> event, sessionMfa |-> sessionMfa, mfaUsed |-> mfaUsed,
     login |-> login, error |-> error, ip |-> "ip1", time |-> time]

Records ==
    {Record("IAMUser", user, "ConsoleLogin", "", "No", login, FALSE, 1) :
        user \in {"alice", "bob"}, login \in {"Success", "Failure"}}
    \union
    {Record("IAMUser", "alice", "ConsoleLogin", "", "Yes", "Success", FALSE, 2),
     Record("IAMUser", "alice", "ListBuckets", "false", "", "", FALSE, 2),
     Record("IAMUser", "canary", "ListBuckets", "false", "", "", TRUE, 1),
     Record("Root", "", "ConsoleLogin", "", "No", "Success", FALSE, 1),
     Record("AWSService", "", "StopLogging", "", "", "", FALSE, 1),
     Record("IAMUser", "bob", "StopLogging", "true", "", "", FALSE, 2),
     Record("IAMUser", "bob", "UpdateTrail", "true", "", "", FALSE, 2)}

FalcoObjects ==
    {[host |-> host, user |-> user, rule |-> "r", tags |-> tags, priority |-> priority,
      time |-> time] :
        host \in {"h1", "h2"}, user \in {"u1", "u2"},
        tags \in {<<"net", "T1555">>, <<"T9999", "T1555">>},
        priority \in {"Warning", "Critical"}, time \in {1, 2}}

CowrieLines ==
    {[session |-> session, kind |-> kind, time |-> time, user |-> "root", good |-> TRUE] :
        session \in {"s1", "s2"}, time \in {1, 2},
        kind \in {"connect", "login_failed", "login_success", "command", "closed"}}
    \union
    {[session |-> "", kind |-> "", time |-> 2, user |-> "", good |-> FALSE]}

MCEntries ==
    [auth_log |-> AuthLines, auditd |-> AuditEventsWritten, cloudtrail |-> Records,
     falco |-> FalcoObjects, cowrie |-> CowrieLines]

MCMaxEntries ==
    [auth_log |-> 4, auditd |-> 3, cloudtrail |-> 3, falco |-> 2, cowrie |-> 4]

=============================================================================
