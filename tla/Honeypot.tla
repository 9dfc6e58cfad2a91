----------------------------- MODULE Honeypot -----------------------------
(***************************************************************************)
(* Cowrie: how the lines of a batch become (partial) sessions, rule_015,   *)
(* and the database that merges the partial sessions of many batches.      *)
(*                                                                         *)
(* A line is [session, kind, time, user, good]; one that is not good       *)
(* cannot be parsed.  A session's address is that of its lines.            *)
(***************************************************************************)
EXTENDS Lists

NoTime == 0   \* None, for the times of a session

-----------------------------------------------------------------------------
(* parse_cowrie_sessions.                                                  *)

SessionIds(lines) == Distinct([i \in DOMAIN lines |-> lines[i].session])

OfKind(lines, kinds) == Kept(lines, {i \in DOMAIN lines : lines[i].kind \in kinds})

(* The time of the last line of this kind, None without one.               *)
TimeOf(lines, kind) ==
    LET such == OfKind(lines, {kind})
    IN  IF such = <<>> THEN NoTime ELSE Last(such).time

SessionOf(lines, id) ==
    LET own == Kept(lines, {i \in DOMAIN lines : lines[i].session = id})
    IN  [id       |-> id,
         start    |-> TimeOf(own, "connect"),
         end      |-> TimeOf(own, "closed"),
         logins   |-> OfKind(own, {"login_success", "login_failed"}),
         commands |-> OfKind(own, {"command"})]

(* One line that cannot be parsed raises, and run_engine goes on without   *)
(* any session of the batch.                                               *)
Sessions(lines) ==
    IF \E i \in DOMAIN lines : ~lines[i].good THEN <<>>
    ELSE LET ids == SessionIds(lines)
         IN  [i \in DOMAIN ids |-> SessionOf(lines, ids[i])]

-----------------------------------------------------------------------------
(* rule_015.                                                               *)

Successes(s) == OfKind(s.logins, {"login_success"})

HoneypotLogin(s) ==
    IF Successes(s) = <<>> THEN <<>>
    ELSE LET first == Head(Successes(s)).time
         IN  <<[rule |-> "rule_015",
                key |-> [who |-> s.id, what |-> <<>>, when |-> 0],
                severity |-> "CRITICAL", actor |-> s.id, first |-> first,
                last |-> IF s.end = NoTime THEN first ELSE s.end]>>

HoneypotAlerts(lines) ==
    LET sessions == Sessions(lines)
    IN  FlattenSeq([i \in DOMAIN sessions |-> HoneypotLogin(sessions[i])])

-----------------------------------------------------------------------------
(* The database: [sessions: id -> row, logins: rows, commands: rows].      *)

EmptyDb == [sessions |-> [id \in {} |-> {}], logins |-> {}, commands |-> {}]

LoginRow(id, l) ==
    [id |-> id, time |-> l.time, user |-> l.user, success |-> l.kind = "login_success"]

(* INSERT OR IGNORE into a UNIQUE index: a row whose key is there already  *)
(* is ignored, so the first of several logins of one user at one time      *)
(* stays.                                                                  *)
LoginRows(rows, s) ==
    LET logins == s.logins
        Stored(i) == \E row \in rows : /\ row.id = s.id /\ row.time = logins[i].time
                                       /\ row.user = logins[i].user
        Ignored(i) == \E j \in 1 .. i - 1 : /\ logins[j].time = logins[i].time
                                            /\ logins[j].user = logins[i].user
        new == {i \in DOMAIN logins : ~Stored(i) /\ ~Ignored(i)}
    IN  rows \union {LoginRow(s.id, logins[i]) : i \in new}

CommandRow(id, c) == [id |-> id, time |-> c.time, text |-> c.user]

CommandRows(s) == {CommandRow(s.id, c) : c \in ToSet(s.commands)}

(* ON CONFLICT: the end of the newer batch if it has one; the start stays. *)
Upsert(rows, s) ==
    LET Row == IF s.id \notin DOMAIN rows THEN [start |-> s.start, end |-> s.end]
               ELSE [start |-> rows[s.id].start,
                     end   |-> IF s.end = NoTime THEN rows[s.id].end ELSE s.end]
    IN  [id \in DOMAIN rows \union {s.id} |-> IF id = s.id THEN Row ELSE rows[id]]

(* Bug: a session that has logins or commands gets no more of them.        *)
StoreSessionOnce(db, s) ==
    LET known == \E row \in db.logins \union db.commands : row.id = s.id
    IN  [sessions |-> Upsert(db.sessions, s),
         logins   |-> IF known THEN db.logins ELSE LoginRows(db.logins, s),
         commands |-> IF known THEN db.commands ELSE db.commands \union CommandRows(s)]

StoreSession(db, s) ==
    [sessions |-> Upsert(db.sessions, s),
     logins   |-> LoginRows(db.logins, s),
     commands |-> db.commands \union CommandRows(s)]

(* One session after the other.                                            *)
StoreSessions(db, lines) ==
    LET sessions == Sessions(lines)
        after[n \in 0 .. Len(sessions)] ==
            IF n = 0 THEN db ELSE StoreSession(after[n - 1], sessions[n])
    IN  after[Len(sessions)]

=============================================================================
