---------------------------- MODULE MCDashboard ----------------------------
(* TLC: a behaviour follows one of three parts: the files while alerts come *)
(* in, the API's threads while the files are written again (all a request   *)
(* sees of a publish is the stamp and the version of one file), or the      *)
(* cache of locations.                                                      *)
EXTENDS Dashboard, GeoCache

VARIABLE part

allVars == <<part, dashboardVars, geoVars>>

(* With every location known there is nothing to look up.                   *)
GeoDone ==
    /\ geo = [ip \in Addresses |-> Known]
    /\ asked = [ip \in Addresses |-> RETRY_AFTER]
    /\ mishaps = 0

Init ==
    \/ part \in {"lists", "faults", "api"} /\ DashboardInit /\ GeoDone
    \/ part = "geo" /\ DashboardInit /\ GeoInit

EngineAlone == EngineStep /\ UNCHANGED <<cache, request>>

(* Either several lists of alerts and one fault, or one list and two.       *)
FilesBound ==
    \/ part = "lists" /\ faults' < 2
    \/ part = "faults" /\ alerts' \in {{}, Stored}

(* The engines of the threads' part fail only by being two, and only the    *)
(* file that the threads read is mixed up.                                  *)
ApiBound ==
    /\ faults' = faults \/ (faults' = 1 /\ shared')
    /\ mixed' \subseteq {"details"}

FilesStep == EngineAlone /\ FilesBound /\ UNCHANGED <<part, geoVars>>

ApiStep == part = "api" /\ EngineAlone /\ ApiBound /\ UNCHANGED <<part, geoVars>>

GeoStep == part = "geo" /\ Look /\ UNCHANGED <<part, dashboardVars>>

Next ==
    \/ FilesStep
    \/ MergeNew /\ FilesBound /\ UNCHANGED <<part, cache, request, geoVars>>
    \/ ApiStep
    \/ /\ part = "api"
       /\ \E r \in Requests : Attacker(r)
       /\ UNCHANGED <<part, publishVars, geoVars>>
    \/ part = "geo" /\ GeoNext /\ UNCHANGED <<part, dashboardVars>>

Spec ==
    /\ Init
    /\ [][Next]_allVars
    /\ WF_allVars(FilesStep) /\ WF_allVars(ApiStep) /\ WF_allVars(GeoStep)

PublicAlert(id, rank, time) ==
    [id |-> id, rule |-> "rule_001", severity |-> "HIGH", rank |-> rank,
     time |-> time, auid |-> "", extraAuid |-> "", source |-> "auth_log"]

MCStored ==
    {PublicAlert(1, 3, 1), PublicAlert(2, 4, 1),
     [PublicAlert(3, 3, 1) EXCEPT !.source = "cowrie"],
     [PublicAlert(4, 4, 2) EXCEPT !.extraAuid = "1000"]}

MCBatches ==
    {MCStored, {a \in MCStored : a.id \in {1, 4}}, {a \in MCStored : a.id \in {2, 3}}}

=============================================================================
