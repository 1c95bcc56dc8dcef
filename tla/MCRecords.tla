----------------------------- MODULE MCRecords -----------------------------
(***************************************************************************)
(* What sloth records of what it saw, for TLC: the request an HTTP         *)
(* response is filed under, the handshakes it exports, the counters and    *)
(* ids of an incident's records, the change cache of the JSONL writer, and *)
(* the incident rows of the SQLite file.  They share no state and no lock, *)
(* so one run checks them side by side: a behaviour is one of `recorder`,  *)
(* and the others stay as they start.                                      *)
(***************************************************************************)
EXTENDS HttpPairing, EapolAttempts, AlertEvaluation, JsonlDedup, IncidentStore

VARIABLE recorder

First(S) == CHOOSE x \in S : TRUE

RecordsInit ==
    /\ recorder \in {"http", "eapol", "evaluation", "dedup", "incidents"}
    /\ HttpInit /\ EapolInit /\ Init /\ DedupInit /\ IncInit
    /\ recorder = "eapol" \/ ~ eapolOut
    /\ recorder # "evaluation" => sev = First(Sevs) /\ detail = First(Details)

RecordsNext ==
    /\ UNCHANGED recorder
    /\ \/ /\ recorder = "http" /\ HttpNext
          /\ UNCHANGED <<eapolVars, vars, dedupVars, incVars>>
       \/ /\ recorder = "eapol" /\ EapolNext
          /\ UNCHANGED <<httpVars, vars, dedupVars, incVars>>
       \/ /\ recorder = "evaluation" /\ Next
          /\ UNCHANGED <<httpVars, eapolVars, dedupVars, incVars>>
       \/ /\ recorder = "dedup" /\ DedupNext
          /\ UNCHANGED <<httpVars, eapolVars, vars, incVars>>
       \/ /\ recorder = "incidents" /\ IncNext
          /\ UNCHANGED <<httpVars, eapolVars, vars, dedupVars>>

RecordsSpec ==
    RecordsInit
    /\ [][RecordsNext]_<<recorder, httpVars, eapolVars, vars, dedupVars, incVars>>

\* The shape of every recorder's state (http_flow_t, pending_t, alert_t's
\* counters, the cache's ways, db_inc_pend_t and the table).
RecordsTypeOK ==
    HttpTypeOK /\ EapolTypeOK /\ TypeOK /\ DedupTypeOK /\ IncTypeOK
=============================================================================
