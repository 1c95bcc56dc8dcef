--------------------------- MODULE AlertEvaluation ---------------------------
(***************************************************************************)
(* One incident from its alert.create to its alert.resolve, as fire_inv    *)
(* re-evaluates it poll after poll (src/alerts/engine.c): the counters a   *)
(* record carries, the throttle on evidence-only updates, and the event_id *)
(* each record is published under (src/jsonl.c).  AlertEngine models the   *)
(* slots and keys around it and leaves the counters out.                   *)
(*                                                                         *)
(* Names ending in _m and a number are defective forms of the definition   *)
(* that follows; no action uses them.                                      *)
(***************************************************************************)
EXTENDS Integers

CONSTANTS
    Sevs,       \* severities, a range of naturals
    Details,    \* renderings of the evidence; the signature is the rendering
    UpdateMin,  \* ALERT_UPDATE_MIN_MS, in units of elapsed time
    IdMod,      \* event_id carries event_seq modulo this (10000)
    MaxEvals,   \* bound: evaluations of the incident
    MaxQuiet,   \* bound: evaluations that announce nothing
    MaxAge      \* bound: the incident's age in units of time

ASSUME EvaluationAssumption ==
    /\ Sevs \subseteq Nat
    /\ UpdateMin \in Nat \ {0}
    /\ IdMod \in Nat \ {0, 1}
    /\ MaxEvals \in Nat \ {0} /\ MaxQuiet \in Nat /\ MaxAge \in Nat

VARIABLES
    resolved,   \* the incident is closed
    sev,
    detail,     \* the rendering of the last evaluation
    sig,        \* detail_sig: the rendering last announced
    eventAge,   \* time since last_event_ms
    evals,      \* evaluations
    obs,        \* observations
    seq,        \* event_seq
    eventId,    \* the number in the event_id of the last record
    age,        \* history: time since the incident opened
    updates     \* history: evidence-only updates announced

vars == <<resolved, sev, detail, sig, eventAge, evals, obs, seq, eventId, age,
          updates>>

\* "%s-%04u" of the incident and event_seq: its second part
EventId(n) == n % IdMod

\* fire_inv opens the incident; jsonl_emit_alert_event publishes event 1
Init ==
    /\ resolved = FALSE
    /\ sev \in Sevs
    /\ detail \in Details
    /\ sig = detail
    /\ eventAge = 0
    /\ evals = 1
    /\ obs = 1
    /\ seq = 1
    /\ eventId = EventId(1)
    /\ age = 0
    /\ updates = 0

\* an evaluation is an observation when it differs from what was announced
Moved(s, d) == d # sig \/ s # sev

\* what each evaluation does, announced or not
Evaluate(s, d) ==
    /\ ~resolved
    /\ evals < MaxEvals
    /\ evals' = evals + 1
    /\ obs' = IF Moved(s, d) THEN obs + 1 ELSE obs
    /\ sev' = s
    /\ detail' = d
    /\ UNCHANGED <<resolved, age>>

\* a record goes out
Announce ==
    /\ seq' = seq + 1
    /\ eventId' = EventId(seq + 1)

\* severity moved: never throttled
EvalSeverity(s, d) ==
    /\ s # sev
    /\ Evaluate(s, d)
    /\ Announce
    /\ sig' = d
    /\ eventAge' = 0
    /\ UNCHANGED updates

\* the evidence moved and the floor has passed
EvalUpdate_m1(d) ==
    /\ d # sig /\ eventAge >= UpdateMin
    /\ Evaluate(sev, d)
    /\ Announce
    /\ sig' = d
    /\ updates' = updates + 1
    /\ UNCHANGED eventAge
EvalUpdate(d) ==
    /\ d # sig /\ eventAge >= UpdateMin
    /\ Evaluate(sev, d)
    /\ Announce
    /\ sig' = d
    /\ eventAge' = 0
    /\ updates' = updates + 1

\* the same evidence, or the floor holds it back: detail_sig is left alone
EvalQuiet(d) ==
    /\ d = sig \/ eventAge < UpdateMin
    /\ evals - seq < MaxQuiet
    /\ Evaluate(sev, d)
    /\ UNCHANGED <<sig, eventAge, seq, eventId, updates>>

\* alert_resolve, for whatever reason
Resolve ==
    /\ ~resolved
    /\ resolved' = TRUE
    /\ Announce
    /\ UNCHANGED <<sev, detail, sig, eventAge, evals, obs, age, updates>>

\* CLOCK_MONOTONIC advances
Elapse ==
    /\ ~resolved
    /\ age < MaxAge
    /\ age' = age + 1
    /\ eventAge' = eventAge + 1
    /\ UNCHANGED <<resolved, sev, detail, sig, evals, obs, seq, eventId,
                   updates>>

Next ==
    \/ \E s \in Sevs, d \in Details : EvalSeverity(s, d)
    \/ \E d \in Details : EvalUpdate(d) \/ EvalQuiet(d)
    \/ Resolve
    \/ Elapse

Spec == Init /\ [][Next]_vars

-----------------------------------------------------------------------------
(* Properties *)

\* Every variable stays in its range.
TypeOK ==
    /\ resolved \in BOOLEAN
    /\ sev \in Sevs
    /\ detail \in Details /\ sig \in Details
    /\ eventAge \in 0 .. MaxAge
    /\ evals \in 1 .. MaxEvals
    /\ obs \in 1 .. evals
    /\ seq \in 1 .. evals + 1
    /\ eventId \in 0 .. IdMod - 1
    /\ age \in 0 .. MaxAge
    /\ updates \in 0 .. seq - 1

\* A flapping rule cannot flood the stream: over any life of an incident, at
\* most one evidence-only update per ALERT_UPDATE_MIN_MS goes out, whatever
\* severity moves come between (docs/views/alerts.md:28).
UpdateRateBounded == updates * UpdateMin <= age

\* The records a consumer got were all observations, and each observation an
\* evaluation (include/sloth.h:1065-1067); the resolve is neither.
CountersOrdered ==
    LET events == IF resolved THEN seq - 1 ELSE seq
    IN  events <= obs /\ obs <= evals

\* What docs/wiki/jsonl-schema.md:499 says of event_id: the per-incident number
\* in it increases with every record.
EventIdsIncrease == [][seq' # seq => eventId' > eventId]_vars
=============================================================================
