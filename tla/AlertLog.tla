------------------------------ MODULE AlertLog ------------------------------
(***************************************************************************)
(* What reports/alerts.json promises, whoever writes it and whatever       *)
(* crashes: one list of alerts that only grows, in which no two alerts     *)
(* have the same deduplication key.  Only the outside world (a damaged     *)
(* file, a restored backup, an entry that a new schema rejects) may do     *)
(* anything else to it, and every such intervention is counted.            *)
(*                                                                         *)
(* AlertStore implements this specification.                               *)
(***************************************************************************)
EXTENDS Naturals, SequencesExt

CONSTANTS Alerts, KeyOf

VARIABLES
    log,            \* the alerts of the store, oldest first
    readable,       \* FALSE while the file on disk is unusable
    interventions   \* how often the outside world changed the file

logVars == <<log, readable, interventions>>

(* No two alerts of s have the same deduplication key.                     *)
DistinctKeys(s) ==
    \A i, j \in DOMAIN s : KeyOf[s[i]] = KeyOf[s[j]] => i = j

LogInit ==
    /\ log = <<>>
    /\ readable = TRUE
    /\ interventions = 0

(* A finished merge: the history is kept, the new alerts follow it.        *)
Grow ==
    /\ IsPrefix(log, log')
    /\ DistinctKeys(log')
    /\ readable'
    /\ UNCHANGED interventions

Damage ==
    /\ readable
    /\ ~readable'
    /\ interventions' = interventions + 1
    /\ UNCHANGED log

RestoreBackup ==
    /\ ~readable
    /\ readable'
    /\ IsPrefix(log', log)
    /\ interventions' = interventions + 1

RejectEntry ==
    /\ readable
    /\ \E i \in DOMAIN log : log' = RemoveAt(log, i)
    /\ interventions' = interventions + 1
    /\ UNCHANGED readable

LogNext == Grow \/ Damage \/ RestoreBackup \/ RejectEntry

LogSpec == LogInit /\ [][LogNext]_logVars

=============================================================================
