--------------------------- MODULE RecordsProofs ----------------------------
(***************************************************************************)
(* Proofs about what sloth records of what it saw: the evaluations of an   *)
(* incident, the handshakes it exports, the change cache of the JSONL      *)
(* writer, the request an HTTP response is filed under, and the incident   *)
(* rows of the SQLite file.  The components share nothing: each part below *)
(* speaks of one of them only, and the last puts them side by side.        *)
(***************************************************************************)
EXTENDS MCRecords, FiniteSetTheorems, WellFoundedInduction, TLAPS

-----------------------------------------------------------------------------
(***************************************************************************)
(* Proofs about one incident's evaluations: the rate of evidence-only      *)
(* updates and the order of the counters, for every floor, every set of    *)
(* severities and renderings, and any number of evaluations.               *)
(***************************************************************************)

\* The rate bound is not inductive: an update needs to know that the time
\* since the last event came on top of the floors already paid for.
RateInv ==
    /\ updates * UpdateMin + eventAge <= age
    /\ eventAge \in Nat /\ age \in Nat /\ updates \in Nat

\* Events are announced by evaluations that are observations.
CountInv ==
    /\ evals \in Nat /\ obs \in Nat /\ seq \in Nat
    /\ (IF resolved THEN seq - 1 ELSE seq) <= obs
    /\ obs <= evals

-----------------------------------------------------------------------------

LEMMA RateInit == Init => RateInv
BY EvaluationAssumption DEF EvaluationAssumption, Init, RateInv

LEMMA RateStep == RateInv /\ [Next]_vars => RateInv'
<1> SUFFICES ASSUME RateInv, [Next]_vars PROVE RateInv'
    OBVIOUS
<1> USE EvaluationAssumption DEF EvaluationAssumption, RateInv
<1>1. ASSUME NEW s \in Sevs, NEW d \in Details, EvalSeverity(s, d)
      PROVE  RateInv'
    BY <1>1 DEF EvalSeverity, Evaluate
<1>2. ASSUME NEW d \in Details, EvalUpdate(d) PROVE RateInv'
    <2>1. /\ eventAge >= UpdateMin /\ eventAge' = 0
          /\ updates' = updates + 1 /\ age' = age
        BY <1>2 DEF EvalUpdate, Evaluate
    <2>2. (updates + 1) * UpdateMin = updates * UpdateMin + UpdateMin
        BY SMT
    <2>. QED  BY <2>1, <2>2
<1>3. ASSUME NEW d \in Details, EvalQuiet(d) PROVE RateInv'
    BY <1>3 DEF EvalQuiet, Evaluate
<1>4. CASE Resolve
    BY <1>4 DEF Resolve
<1>5. CASE Elapse
    BY <1>5 DEF Elapse
<1>6. CASE UNCHANGED vars
    BY <1>6 DEF vars
<1>. QED  BY <1>1, <1>2, <1>3, <1>4, <1>5, <1>6 DEF Next

\* At most one evidence-only update per floor goes out, over any life of an
\* incident and whatever severity moves come between (engine.c:541-552).
THEOREM UpdatesAreBounded == Spec => []UpdateRateBounded
<1>1. RateInv => UpdateRateBounded
    BY EvaluationAssumption
    DEF EvaluationAssumption, RateInv, UpdateRateBounded
<1>. QED  BY RateInit, RateStep, <1>1, PTL DEF Spec

-----------------------------------------------------------------------------

LEMMA CountInit == Init => CountInv
BY DEF Init, CountInv

LEMMA CountStep == CountInv /\ [Next]_vars => CountInv'
<1> SUFFICES ASSUME CountInv, [Next]_vars PROVE CountInv'
    OBVIOUS
<1> USE DEF CountInv
<1>1. ASSUME NEW s \in Sevs, NEW d \in Details, EvalSeverity(s, d)
      PROVE  CountInv'
    BY <1>1 DEF EvalSeverity, Evaluate, Moved, Announce
<1>2. ASSUME NEW d \in Details, EvalUpdate(d) PROVE CountInv'
    BY <1>2 DEF EvalUpdate, Evaluate, Moved, Announce
<1>3. ASSUME NEW d \in Details, EvalQuiet(d) PROVE CountInv'
    BY <1>3 DEF EvalQuiet, Evaluate, Moved
<1>4. CASE Resolve
    BY <1>4 DEF Resolve, Announce
<1>5. CASE Elapse
    BY <1>5 DEF Elapse
<1>6. CASE UNCHANGED vars
    BY <1>6 DEF vars
<1>. QED  BY <1>1, <1>2, <1>3, <1>4, <1>5, <1>6 DEF Next

\* Every record of an incident but the resolve was an observation, and every
\* observation an evaluation (include/sloth.h:1065-1067).
THEOREM CountersStayOrdered == Spec => []CountersOrdered
<1>1. CountInv => CountersOrdered
    BY DEF CountInv, CountersOrdered
<1>. QED  BY CountInit, CountStep, <1>1, PTL DEF Spec

-----------------------------------------------------------------------------
(***************************************************************************)
(* Proofs about the handshake attempts, for any number of pairs, records,  *)
(* nonces and replay counters, any window and any frame at any time.       *)
(*                                                                         *)
(* Agrees(r, o) is what ties a record to the offer on the air it is about; *)
(* every message handler takes a record and an offer that agree to a       *)
(* record and an offer that agree.                                         *)
(***************************************************************************)

EapolRow ==
    [last_seen : Int, progress : 0 .. 4, has_m1 : BOOLEAN, has_m3 : BOOLEAN,
     m1_rc : EapolCounters, m3_rc : EapolCounters,
     anonce : EapolNonces \cup {EapolNone}, m1_ts : Int,
     paired : BOOLEAN, exported : BOOLEAN, m_frames : SUBSET (1 .. 4)]
Offer == [nonce : EapolNonces \cup {EapolNone}, rc : EapolCounters, at : Int,
          heard : SUBSET ((1 .. 4) \X EapolCounters), lines : Nat, failed : Nat]

\* A record with no M1 holds no attempt; one with an M1 claims what was heard.
Agrees(r, o) ==
    /\ r \in EapolRow /\ o \in Offer
    /\ ~ r.has_m1 => /\ o = NoOffer
                     /\ r.progress = 0 /\ ~ r.paired /\ ~ r.exported
    /\ r.has_m1 =>
          /\ r.anonce = o.nonce /\ r.m1_rc = o.rc /\ r.m1_ts = o.at
          /\ o.nonce # EapolNone /\ <<1, o.rc>> \in o.heard
          /\ r.m_frames \subseteq {h[1] : h \in o.heard}
    /\ r.paired => <<2, o.rc>> \in o.heard
    /\ r.progress >= 2 => <<2, o.rc>> \in o.heard
    /\ r.progress >= 3 => <<3, Successor(o.rc)>> \in o.heard
    /\ r.has_m1 /\ r.has_m3 => <<3, r.m3_rc>> \in o.heard
    /\ r.progress = 4 =>
          \E rc \in EapolCounters : {<<3, rc>>, <<4, rc>>} \subseteq o.heard
    /\ r.exported <=> r.paired /\ eapolOut
    /\ o.lines + o.failed = (IF r.paired /\ eapolOut THEN 1 ELSE 0)

EapolInv ==
    /\ eapolOut \in BOOLEAN /\ eapolNow \in Int
    /\ DOMAIN eapolRows \subseteq EapolPairs
    /\ eapolAir \in [EapolPairs -> Offer]
    /\ \A p \in DOMAIN eapolRows : Agrees(eapolRows[p], eapolAir[p])
    /\ \A p \in EapolPairs \ DOMAIN eapolRows : eapolAir[p] = NoOffer

LEMMA Counters == /\ 0 \in EapolCounters
                  /\ \A rc \in EapolCounters : Successor(rc) \in EapolCounters
<1>1. 0 \in EapolCounters
  BY EapolAssumption DEF EapolCounters
<1>2. ASSUME NEW rc \in EapolCounters PROVE Successor(rc) \in EapolCounters
  <2>1. rc + 1 \in Nat /\ EapolRcMod \in Nat \ {0}
    BY EapolAssumption DEF EapolCounters
  <2>2. (rc + 1) % EapolRcMod \in 0 .. EapolRcMod - 1
    BY <2>1
  <2> QED BY <2>2 DEF EapolCounters, Successor
<1> QED BY <1>1, <1>2

LEMMA NoOfferAgrees ==
    ASSUME NEW t \in Int, eapolOut \in BOOLEAN
    PROVE  /\ Agrees(EmptyRow, NoOffer) /\ NoOffer \in Offer
           /\ Agrees([EmptyRow EXCEPT !.last_seen = t], NoOffer)
<1>1. EmptyRow \in EapolRow /\ [EmptyRow EXCEPT !.last_seen = t] \in EapolRow
  <2>1. 0 \in EapolCounters /\ {} \in SUBSET (1 .. 4) /\ 0 \in 0 .. 4 /\ 0 \in Int
    BY Counters
  <2>2. EmptyRow \in EapolRow
    BY <2>1 DEF EmptyRow, EapolRow
  <2> QED BY <2>2 DEF EapolRow
<1>2. NoOffer \in Offer
  BY Counters DEF NoOffer, Offer
<1> QED BY <1>1, <1>2 DEF Agrees, EmptyRow, NoOffer

-----------------------------------------------------------------------------
\* The record a handler finds agrees with the offer the observer finds: both
\* expire by the same clock.
LEMMA PendingAgrees ==
    ASSUME EapolInv, NEW p \in EapolPairs
    PROVE  Agrees(Pending(p), OfferOf(p))
<1> DEFINE row == IF p \in DOMAIN eapolRows THEN eapolRows[p] ELSE EmptyRow
           seen == [row EXCEPT !.last_seen = eapolNow]
<1>1. eapolNow \in Int /\ eapolOut \in BOOLEAN /\ EapolWindow \in Nat
  BY EapolAssumption DEF EapolInv
<1>2. Agrees(row, eapolAir[p])
  <2>1. CASE p \in DOMAIN eapolRows
    BY <2>1 DEF EapolInv
  <2>2. CASE p \notin DOMAIN eapolRows
    <3>1. Agrees(EmptyRow, NoOffer)
      BY <1>1, NoOfferAgrees
    <3> QED BY <2>2, <3>1 DEF EapolInv
  <2> QED BY <2>1, <2>2
<1> HIDE DEF row
<1>3. Agrees(seen, eapolAir[p])
  <2>1. row \in EapolRow
    BY <1>2 DEF Agrees
  <2>2. /\ seen \in EapolRow /\ seen.progress = row.progress /\ seen.has_m1 = row.has_m1
        /\ seen.has_m3 = row.has_m3 /\ seen.m1_rc = row.m1_rc /\ seen.m3_rc = row.m3_rc
        /\ seen.anonce = row.anonce /\ seen.m1_ts = row.m1_ts /\ seen.paired = row.paired
        /\ seen.exported = row.exported /\ seen.m_frames = row.m_frames
    BY <1>1, <2>1 DEF EapolRow
  <2> QED BY <1>2, <2>2 DEF Agrees
<1>4. Pending(p) = AttemptExpire(seen) /\ seen.last_seen = eapolNow
  <2>1. row \in EapolRow
    BY <1>2 DEF Agrees
  <2> QED BY <2>1 DEF Pending, row, EapolRow
<1> HIDE DEF seen
<1>5. CASE seen.has_m1 /\ eapolNow - seen.m1_ts > EapolWindow
  <2>1. eapolAir[p].at = seen.m1_ts
    BY <1>3, <1>5 DEF Agrees
  <2>2. OfferOf(p) = NoOffer
    BY <1>5, <2>1 DEF OfferOf
  <2>3. Pending(p) = [EmptyRow EXCEPT !.last_seen = eapolNow]
    BY <1>4, <1>5 DEF AttemptExpire, AttemptReset
  <2> QED BY <1>1, <2>2, <2>3, NoOfferAgrees
<1>6. CASE ~ (seen.has_m1 /\ eapolNow - seen.m1_ts > EapolWindow)
  <2>1. Pending(p) = seen
    BY <1>4, <1>6 DEF AttemptExpire
  <2>2. CASE seen.has_m1
    <3>1. eapolAir[p].at = seen.m1_ts
      BY <1>3, <2>2 DEF Agrees
    <3>2. OfferOf(p) = eapolAir[p]
      BY <1>6, <2>2, <3>1 DEF OfferOf
    <3> QED BY <1>3, <2>1, <3>2
  <2>3. CASE ~ seen.has_m1
    <3>1. eapolAir[p] = NoOffer
      BY <1>3, <2>3 DEF Agrees
    <3>2. OfferOf(p) = eapolAir[p]
      BY <3>1 DEF OfferOf
    <3> QED BY <1>3, <2>1, <3>2
  <2> QED BY <2>2, <2>3
<1> QED BY <1>5, <1>6

\* Putting back a record and an offer that agree, and displacing whom the
\* table displaces, keeps the invariant.
LEMMA StoreKeeps ==
    ASSUME EapolInv, NEW p \in EapolPairs, NEW gone \in Displaced(p),
           NEW row, NEW o, Agrees(row, o),
           Store(p, row, gone), Hear(p, o, gone),
           UNCHANGED <<eapolOut, eapolNow>>
    PROVE  EapolInv'
<1>1. gone \subseteq DOMAIN eapolRows /\ p \notin gone
  <2>1. gone = {} \/ \E q \in DOMAIN eapolRows : gone = {q} /\ p \notin DOMAIN eapolRows
    BY DEF Displaced
  <2> QED BY <2>1
<1>2. DOMAIN eapolRows' = (DOMAIN eapolRows \cup {p}) \ gone
  BY DEF Store
<1>3. /\ eapolRows'[p] = row /\ eapolAir'[p] = o
      /\ \A q \in DOMAIN eapolRows' : q # p =>
            q \in DOMAIN eapolRows \ gone /\ eapolRows'[q] = eapolRows[q]
                                          /\ eapolAir'[q] = eapolAir[q]
      /\ \A q \in EapolPairs \ DOMAIN eapolRows' : eapolAir'[q] = NoOffer
  BY <1>1, <1>2 DEF Store, Hear, EapolInv
<1>4. eapolAir' \in [EapolPairs -> Offer]
  <2>1. o \in Offer
    BY DEF Agrees
  <2>2. NoOffer \in Offer
    BY NoOfferAgrees DEF EapolInv
  <2> QED BY <2>1, <2>2 DEF Hear, EapolInv
<1>5. (\A q \in DOMAIN eapolRows : Agrees(eapolRows[q], eapolAir[q]))'
  <2> SUFFICES ASSUME NEW q \in DOMAIN eapolRows'
               PROVE  Agrees(eapolRows[q], eapolAir[q])'
    OBVIOUS
  <2>1. CASE q = p
    <3>1. Agrees(row, o)'
      BY DEF Agrees
    <3> QED BY <1>3, <2>1 DEF Agrees
  <2>2. CASE q # p
    <3>1. Agrees(eapolRows[q], eapolAir[q])
      BY <1>3, <2>2 DEF EapolInv
    <3> QED BY <1>3, <2>2, <3>1 DEF Agrees
  <2> QED BY <2>1, <2>2
<1> QED BY <1>1, <1>2, <1>3, <1>4, <1>5 DEF EapolInv


-----------------------------------------------------------------------------
(* One message, on a record and an offer that agree                        *)

\* What a handler does to the record before it looks at the message.
LEMMA BufferedFields ==
    ASSUME NEW r \in EapolRow, NEW m \in 1 .. 4
    PROVE  /\ Buffered(r, m) \in EapolRow
           /\ Buffered(r, m).m_frames = r.m_frames \cup {m}
           /\ Buffered(r, m).progress = r.progress /\ Buffered(r, m).has_m1 = r.has_m1
           /\ Buffered(r, m).has_m3 = r.has_m3 /\ Buffered(r, m).m1_rc = r.m1_rc
           /\ Buffered(r, m).m3_rc = r.m3_rc /\ Buffered(r, m).anonce = r.anonce
           /\ Buffered(r, m).m1_ts = r.m1_ts /\ Buffered(r, m).paired = r.paired
           /\ Buffered(r, m).exported = r.exported
           /\ Buffered(r, m).last_seen = r.last_seen
<1>1. r.m_frames \cup {m} \in SUBSET (1 .. 4)
  BY DEF EapolRow
<1> QED BY <1>1 DEF Buffered, EapolRow

\* What the observer hears under the offer that stands.
HeardMore(o, m, rc) ==
    IF o.nonce = EapolNone THEN o ELSE [o EXCEPT !.heard = @ \cup {<<m, rc>>}]

LEMMA HeardFields ==
    ASSUME NEW o \in Offer, NEW m \in 1 .. 4, NEW rc \in EapolCounters,
           o.nonce # EapolNone
    PROVE  LET h == HeardMore(o, m, rc) IN
           /\ h \in Offer /\ h.nonce = o.nonce /\ h.rc = o.rc /\ h.at = o.at
           /\ h.heard = o.heard \cup {<<m, rc>>}
           /\ h.lines = o.lines /\ h.failed = o.failed
           /\ {x[1] : x \in h.heard} = {x[1] : x \in o.heard} \cup {m}
<1>1. o.heard \cup {<<m, rc>>} \in SUBSET ((1 .. 4) \X EapolCounters)
  BY DEF Offer
<1>2. HeardMore(o, m, rc) = [o EXCEPT !.heard = o.heard \cup {<<m, rc>>}]
  BY DEF HeardMore
<1>3. /\ HeardMore(o, m, rc) \in Offer
      /\ HeardMore(o, m, rc).heard = o.heard \cup {<<m, rc>>}
      /\ HeardMore(o, m, rc).nonce = o.nonce /\ HeardMore(o, m, rc).rc = o.rc
      /\ HeardMore(o, m, rc).at = o.at
      /\ HeardMore(o, m, rc).lines = o.lines /\ HeardMore(o, m, rc).failed = o.failed
  BY <1>1, <1>2 DEF Offer
<1>4. {x[1] : x \in o.heard \cup {<<m, rc>>}} = {x[1] : x \in o.heard} \cup {m}
  <2>1. <<m, rc>>[1] = m
    OBVIOUS
  <2> QED BY <2>1, Zenon
<1> QED BY <1>3, <1>4

\* A message that only fills the buffer.
LEMMA BufferedAgrees ==
    ASSUME NEW r, NEW o, Agrees(r, o), NEW m \in 1 .. 4, NEW rc \in EapolCounters
    PROVE  Agrees(Buffered(r, m), HeardMore(o, m, rc))
<1>1. r \in EapolRow /\ o \in Offer
  BY DEF Agrees
<1>2. CASE ~ r.has_m1
  <2>1. o = NoOffer /\ HeardMore(o, m, rc) = NoOffer
    BY <1>2 DEF Agrees, HeardMore, NoOffer
  <2> QED BY <1>1, <1>2, <2>1, BufferedFields DEF Agrees
<1>3. CASE r.has_m1
  <2>1. o.nonce # EapolNone
    BY <1>3 DEF Agrees
  <2> DEFINE b == Buffered(r, m)
             h == HeardMore(o, m, rc)
  <2>2. /\ h \in Offer /\ h.nonce = o.nonce /\ h.rc = o.rc /\ h.at = o.at
        /\ h.heard = o.heard \cup {<<m, rc>>}
        /\ h.lines = o.lines /\ h.failed = o.failed
        /\ {x[1] : x \in h.heard} = {x[1] : x \in o.heard} \cup {m}
    BY <1>1, <2>1, HeardFields
  <2>3. /\ b \in EapolRow /\ b.m_frames = r.m_frames \cup {m}
        /\ b.progress = r.progress /\ b.has_m1 = r.has_m1 /\ b.has_m3 = r.has_m3
        /\ b.m1_rc = r.m1_rc /\ b.m3_rc = r.m3_rc /\ b.anonce = r.anonce
        /\ b.m1_ts = r.m1_ts /\ b.paired = r.paired /\ b.exported = r.exported
    BY <1>1, BufferedFields
  <2> HIDE DEF b, h
  <2>4. b.m_frames \subseteq {x[1] : x \in h.heard}
    <3>1. r.m_frames \subseteq {x[1] : x \in o.heard}
      BY <1>3 DEF Agrees
    <3> QED BY <2>2, <2>3, <3>1
  <2>5. b.progress = 4 =>
           \E c \in EapolCounters : {<<3, c>>, <<4, c>>} \subseteq h.heard
    BY <2>2, <2>3 DEF Agrees
  <2>6. /\ b.has_m1 /\ b.anonce = h.nonce /\ b.m1_rc = h.rc /\ b.m1_ts = h.at
        /\ h.nonce # EapolNone /\ <<1, h.rc>> \in h.heard
    BY <1>3, <2>2, <2>3 DEF Agrees
  <2>7. /\ b.paired => <<2, h.rc>> \in h.heard
        /\ b.progress >= 2 => <<2, h.rc>> \in h.heard
        /\ b.progress >= 3 => <<3, Successor(h.rc)>> \in h.heard
        /\ b.has_m1 /\ b.has_m3 => <<3, b.m3_rc>> \in h.heard
    BY <1>3, <2>2, <2>3 DEF Agrees
  <2>8. /\ b.exported <=> b.paired /\ eapolOut
        /\ h.lines + h.failed = (IF b.paired /\ eapolOut THEN 1 ELSE 0)
    BY <2>2, <2>3 DEF Agrees
  <2>9. Agrees(b, h)
    BY <2>2, <2>3, <2>4, <2>5, <2>6, <2>7, <2>8 DEF Agrees
  <2> QED BY <2>9 DEF b, h
<1> QED BY <1>1, <1>2, <1>3 DEF EapolRow


\* The record and the offer once the message is buffered and heard, as the
\* rest of the handler needs them.
LEMMA HeardUnderM1 ==
    ASSUME NEW r, NEW o, Agrees(r, o), r.has_m1,
           NEW m \in 1 .. 4, NEW rc \in EapolCounters
    PROVE  /\ o.nonce # EapolNone
           /\ <<m, rc>> \in HeardMore(o, m, rc).heard
           /\ o.heard \subseteq HeardMore(o, m, rc).heard
           /\ HeardMore(o, m, rc).rc = r.m1_rc
           /\ HeardMore(o, m, rc) \in Offer
<1>1. o \in Offer /\ o.nonce # EapolNone /\ r.m1_rc = o.rc
  BY DEF Agrees
<1>2. /\ HeardMore(o, m, rc) \in Offer /\ HeardMore(o, m, rc).rc = o.rc
      /\ HeardMore(o, m, rc).heard = o.heard \cup {<<m, rc>>}
  BY <1>1, HeardFields
<1> QED BY <1>1, <1>2

LEMMA M4Agrees ==
    ASSUME NEW r, NEW o, Agrees(r, o), NEW rc \in EapolCounters
    PROVE  Agrees(AfterM4(r, rc), HeardMore(o, 4, rc))
<1> DEFINE b == Buffered(r, 4)
           h == HeardMore(o, 4, rc)
           a == AfterM4(r, rc)
<1>1. Agrees(b, h) /\ b \in EapolRow
  <2>1. 4 \in 1 .. 4
    OBVIOUS
  <2>2. Agrees(b, h)
    BY <2>1, BufferedAgrees
  <2> HIDE DEF b, h
  <2> QED BY <2>2 DEF Agrees
<1>2. CASE ~ (b.progress = 3 /\ r.has_m3 /\ r.m3_rc = rc)
  <2>1. a = [b EXCEPT !.progress = b.progress]
    BY <1>2 DEF AfterM4
  <2>2. a = b
    BY <1>1, <2>1 DEF EapolRow
  <2> QED BY <1>1, <2>2
<1>3. CASE b.progress = 3 /\ r.has_m3 /\ r.m3_rc = rc
  <2>1. a = [b EXCEPT !.progress = 4]
    BY <1>3 DEF AfterM4
  <2>2. r \in EapolRow
    BY DEF Agrees
  <2>3. r.progress = 3 /\ b.has_m3 /\ b.m3_rc = rc /\ b.has_m1 = r.has_m1
    BY <1>3, <2>2, BufferedFields
  <2>4. r.has_m1
    BY <2>3 DEF Agrees
  <2>5. <<4, rc>> \in h.heard /\ <<3, rc>> \in h.heard
    <3>1. 4 \in 1 .. 4
      OBVIOUS
    <3>2. <<4, rc>> \in h.heard
      BY <2>4, <3>1, HeardUnderM1
    <3> HIDE DEF b, h
    <3> QED BY <1>1, <2>3, <2>4, <3>2 DEF Agrees
  <2>6. /\ a \in EapolRow /\ a.progress = 4 /\ a.has_m1 = b.has_m1 /\ a.has_m3 = b.has_m3
        /\ a.m1_rc = b.m1_rc /\ a.m3_rc = b.m3_rc /\ a.anonce = b.anonce
        /\ a.m1_ts = b.m1_ts /\ a.paired = b.paired /\ a.exported = b.exported
        /\ a.m_frames = b.m_frames
    BY <1>1, <2>1 DEF EapolRow
  <2> HIDE DEF a, b, h
  <2>7. \E c \in EapolCounters : {<<3, c>>, <<4, c>>} \subseteq h.heard
    BY <2>5
  <2>8. b.has_m1 /\ b.progress = 3
    BY <1>3, <2>3, <2>4
  <2>9. /\ a.has_m1 /\ a.anonce = h.nonce /\ a.m1_rc = h.rc /\ a.m1_ts = h.at
        /\ h.nonce # EapolNone /\ <<1, h.rc>> \in h.heard
        /\ a.m_frames \subseteq {y[1] : y \in h.heard}
    BY <1>1, <2>6, <2>8 DEF Agrees
  <2>10. /\ <<2, h.rc>> \in h.heard /\ <<3, Successor(h.rc)>> \in h.heard
         /\ a.has_m3 => <<3, a.m3_rc>> \in h.heard
         /\ a.exported <=> a.paired /\ eapolOut
         /\ h.lines + h.failed = (IF a.paired /\ eapolOut THEN 1 ELSE 0)
    BY <1>1, <2>6, <2>8 DEF Agrees
  <2>11. h \in Offer
    BY <1>1 DEF Agrees
  <2>12. Agrees(a, h)
    BY <2>6, <2>7, <2>9, <2>10, <2>11 DEF Agrees
  <2> QED BY <2>12 DEF a, h
<1> QED BY <1>2, <1>3

LEMMA M3Agrees ==
    ASSUME NEW r, NEW o, Agrees(r, o), NEW rc \in EapolCounters
    PROVE  Agrees(AfterM3(r, rc), HeardMore(o, 3, rc))
<1> DEFINE b == Buffered(r, 3)
           h == HeardMore(o, 3, rc)
           a == AfterM3(r, rc)
           goes == r.paired /\ rc = Successor(r.m1_rc)
<1>1. Agrees(b, h) /\ b \in EapolRow /\ r \in EapolRow
  <2>1. 3 \in 1 .. 4
    OBVIOUS
  <2>2. Agrees(b, h)
    BY <2>1, BufferedAgrees
  <2> HIDE DEF b, h
  <2> QED BY <2>2 DEF Agrees
<1>2. /\ b.paired = r.paired /\ b.has_m1 = r.has_m1 /\ b.m1_rc = r.m1_rc
      /\ b.progress \in 0 .. 4
  BY <1>1, BufferedFields DEF EapolRow
<1>3. a = [b EXCEPT !.m3_rc = rc, !.has_m3 = TRUE,
                    !.progress = IF goes THEN 3 ELSE b.progress]
  BY DEF AfterM3
<1>4. /\ a \in EapolRow /\ a.progress = (IF goes THEN 3 ELSE b.progress)
      /\ a.has_m1 = b.has_m1 /\ a.has_m3 = TRUE
      /\ a.m1_rc = b.m1_rc /\ a.m3_rc = rc /\ a.anonce = b.anonce
      /\ a.m1_ts = b.m1_ts /\ a.paired = b.paired /\ a.exported = b.exported
      /\ a.m_frames = b.m_frames
  <2>1. (IF goes THEN 3 ELSE b.progress) \in 0 .. 4
    BY <1>2
  <2> HIDE DEF b, goes
  <2> QED BY <1>1, <1>3, <2>1 DEF EapolRow
<1>5. r.has_m1 => <<3, rc>> \in h.heard /\ h.rc = r.m1_rc
  <2>1. 3 \in 1 .. 4
    OBVIOUS
  <2> QED BY <2>1, HeardUnderM1
<1>6. goes => r.has_m1
  BY DEF Agrees
<1> HIDE DEF a, b, h
<1>7. /\ a.progress >= 2 => <<2, h.rc>> \in h.heard
      /\ a.progress >= 3 => <<3, Successor(h.rc)>> \in h.heard
      /\ a.progress = 4 => \E c \in EapolCounters : {<<3, c>>, <<4, c>>} \subseteq h.heard
      /\ ~ a.has_m1 => a.progress = 0
  <2>1. CASE goes
    <3>1. /\ <<3, Successor(h.rc)>> \in h.heard /\ <<2, h.rc>> \in h.heard
          /\ a.progress = 3
      BY <1>1, <1>2, <1>4, <1>5, <1>6, <2>1 DEF Agrees
    <3> QED BY <1>2, <1>4, <1>6, <2>1, <3>1
  <2>2. CASE ~ goes
    <3>1. a.progress = b.progress
      BY <1>4, <2>2
    <3> HIDE DEF goes
    <3> QED BY <1>1, <1>4, <3>1 DEF Agrees
  <2> QED BY <2>1, <2>2
<1> HIDE DEF goes
<1>8. /\ ~ a.has_m1 => h = NoOffer /\ ~ a.paired /\ ~ a.exported
      /\ a.has_m1 =>
            /\ a.anonce = h.nonce /\ a.m1_rc = h.rc /\ a.m1_ts = h.at
            /\ h.nonce # EapolNone /\ <<1, h.rc>> \in h.heard
            /\ a.m_frames \subseteq {y[1] : y \in h.heard}
  BY <1>1, <1>4 DEF Agrees
<1>9. /\ a.paired => <<2, h.rc>> \in h.heard
      /\ a.exported <=> a.paired /\ eapolOut
      /\ h.lines + h.failed = (IF a.paired /\ eapolOut THEN 1 ELSE 0)
      /\ h \in Offer
  BY <1>1, <1>4 DEF Agrees
<1>10. a.has_m1 /\ a.has_m3 => <<3, a.m3_rc>> \in h.heard
  BY <1>2, <1>4, <1>5
<1>11. Agrees(a, h)
  BY <1>4, <1>7, <1>8, <1>9, <1>10 DEF Agrees
<1> QED BY <1>11 DEF a, h

\* The offer of the pairing M2 gains its line, or the failed write, if one is
\* tried.
LEMMA M2Agrees ==
    ASSUME NEW r, NEW o, Agrees(r, o), NEW rc \in EapolCounters, Pairs(r, rc),
           eapolOut \in BOOLEAN, NEW x,
           IF ~ r.exported /\ eapolOut
           THEN \/ x = [HeardMore(o, 2, rc) EXCEPT !.lines = @ + 1]
                \/ x = [HeardMore(o, 2, rc) EXCEPT !.failed = @ + 1]
           ELSE x = HeardMore(o, 2, rc)
    PROVE  Agrees(AfterM2(r, rc), x)
<1> DEFINE b == Buffered(r, 2)
           h == HeardMore(o, 2, rc)
           a == AfterM2(r, rc)
<1>1. Agrees(b, h) /\ b \in EapolRow /\ r \in EapolRow /\ h \in Offer
  <2>1. 2 \in 1 .. 4
    OBVIOUS
  <2>2. Agrees(b, h)
    BY <2>1, BufferedAgrees
  <2> HIDE DEF b, h
  <2> QED BY <2>2 DEF Agrees
<1>2. /\ b.paired = r.paired /\ b.has_m1 = r.has_m1 /\ b.m1_rc = r.m1_rc
      /\ b.exported = r.exported /\ b.progress \in 0 .. 4 /\ b.exported \in BOOLEAN
  BY <1>1, BufferedFields DEF EapolRow
<1>3. a = [b EXCEPT !.paired = TRUE,
                    !.progress = IF b.progress < 2 THEN 2 ELSE b.progress,
                    !.exported = b.exported \/ eapolOut]
  BY DEF AfterM2
<1>4. /\ a \in EapolRow /\ a.progress = (IF b.progress < 2 THEN 2 ELSE b.progress)
      /\ a.has_m1 = b.has_m1 /\ a.has_m3 = b.has_m3
      /\ a.m1_rc = b.m1_rc /\ a.m3_rc = b.m3_rc /\ a.anonce = b.anonce
      /\ a.m1_ts = b.m1_ts /\ a.paired = TRUE /\ a.exported = (b.exported \/ eapolOut)
      /\ a.m_frames = b.m_frames
  <2>1. (IF b.progress < 2 THEN 2 ELSE b.progress) \in 0 .. 4
    BY <1>2
  <2>2. (b.exported \/ eapolOut) \in BOOLEAN
    OBVIOUS
  <2> HIDE DEF b
  <2> QED BY <1>1, <1>3, <2>1, <2>2 DEF EapolRow
<1>5. r.has_m1 /\ r.m1_rc = rc /\ <<2, rc>> \in h.heard /\ h.rc = rc
  BY HeardUnderM1 DEF Pairs
<1> HIDE DEF a, b, h
<1>6. /\ x \in Offer /\ x.nonce = h.nonce /\ x.rc = h.rc /\ x.at = h.at
      /\ x.heard = h.heard
      /\ x.lines + x.failed =
            (IF ~ r.exported /\ eapolOut THEN h.lines + h.failed + 1 ELSE h.lines + h.failed)
  <2>1. h.lines \in Nat /\ h.failed \in Nat
    BY <1>1 DEF Offer
  <2>2. CASE ~ r.exported /\ eapolOut
    <3>1. CASE x = [h EXCEPT !.lines = h.lines + 1]
      <4>1. h.lines + 1 \in Nat
        BY <2>1
      <4>2. /\ x \in Offer /\ x.nonce = h.nonce /\ x.rc = h.rc /\ x.at = h.at
            /\ x.heard = h.heard /\ x.lines = h.lines + 1 /\ x.failed = h.failed
        BY <1>1, <3>1, <4>1 DEF Offer
      <4> QED BY <2>1, <2>2, <4>2
    <3>2. CASE x = [h EXCEPT !.failed = h.failed + 1]
      <4>1. h.failed + 1 \in Nat
        BY <2>1
      <4>2. /\ x \in Offer /\ x.nonce = h.nonce /\ x.rc = h.rc /\ x.at = h.at
            /\ x.heard = h.heard /\ x.lines = h.lines /\ x.failed = h.failed + 1
        BY <1>1, <3>2, <4>1 DEF Offer
      <4> QED BY <2>1, <2>2, <4>2
    <3> QED BY <2>2, <3>1, <3>2 DEF h
  <2>3. CASE ~ (~ r.exported /\ eapolOut)
    BY <1>1, <2>3 DEF h
  <2> QED BY <2>2, <2>3
<1>7. a.exported <=> a.paired /\ eapolOut
  BY <1>1, <1>4 DEF Agrees
<1>8. x.lines + x.failed = (IF a.paired /\ eapolOut THEN 1 ELSE 0)
  <2>1. h.lines + h.failed = (IF b.paired /\ eapolOut THEN 1 ELSE 0)
    BY <1>1 DEF Agrees
  <2>2. r.exported <=> b.paired /\ eapolOut
    BY <1>1, <1>2 DEF Agrees
  <2> QED BY <1>4, <1>6, <2>1, <2>2
<1>9. a.progress = 4 => \E c \in EapolCounters : {<<3, c>>, <<4, c>>} \subseteq x.heard
  BY <1>1, <1>2, <1>4, <1>6 DEF Agrees
<1>10. /\ a.progress >= 3 => <<3, Successor(x.rc)>> \in x.heard
       /\ a.has_m1 /\ a.has_m3 => <<3, a.m3_rc>> \in x.heard
       /\ <<2, x.rc>> \in x.heard
  BY <1>1, <1>2, <1>4, <1>5, <1>6 DEF Agrees
<1>11. /\ a.has_m1 /\ a.anonce = x.nonce /\ a.m1_rc = x.rc /\ a.m1_ts = x.at
       /\ x.nonce # EapolNone /\ <<1, x.rc>> \in x.heard
       /\ a.m_frames \subseteq {y[1] : y \in x.heard}
  BY <1>1, <1>2, <1>4, <1>5, <1>6 DEF Agrees
<1>12. Agrees(a, x)
  BY <1>4, <1>6, <1>7, <1>8, <1>9, <1>10, <1>11 DEF Agrees
<1> QED BY <1>12 DEF a


\* An M1, on an attempt it continues or on none: then the record is empty but
\* for its last_seen.
LEMMA M1Opens ==
    ASSUME NEW r, NEW q, Agrees(r, q), eapolOut \in BOOLEAN, eapolNow \in Int,
           NEW nonce \in EapolNonces, NEW rc \in EapolCounters, NEW after, NEW x,
           \/ r.has_m1 /\ r.m1_rc = rc /\ r.anonce = nonce
           \/ ~ r.has_m1 /\ r.m_frames = {} /\ ~ r.has_m3,
           after = [Buffered(r, 1) EXCEPT !.anonce = nonce, !.m1_rc = rc,
                       !.has_m1 = TRUE, !.m1_ts = eapolNow,
                       !.progress = IF @ < 1 THEN 1 ELSE @],
           x = [q EXCEPT !.nonce = nonce, !.rc = rc, !.at = eapolNow,
                         !.heard = @ \cup {<<1, rc>>}]
    PROVE  Agrees(after, x)
<1> DEFINE b == Buffered(r, 1)
<1>1. r \in EapolRow /\ q \in Offer /\ 1 \in 1 .. 4
  BY DEF Agrees
<1>2. /\ b \in EapolRow /\ b.m_frames = r.m_frames \cup {1}
      /\ b.progress = r.progress /\ b.has_m1 = r.has_m1 /\ b.has_m3 = r.has_m3
      /\ b.m1_rc = r.m1_rc /\ b.m3_rc = r.m3_rc /\ b.anonce = r.anonce
      /\ b.m1_ts = r.m1_ts /\ b.paired = r.paired /\ b.exported = r.exported
      /\ b.progress \in 0 .. 4
  BY <1>1, BufferedFields DEF EapolRow
<1>3. /\ after \in EapolRow /\ after.progress = (IF b.progress < 1 THEN 1 ELSE b.progress)
      /\ after.has_m1 = TRUE /\ after.has_m3 = b.has_m3
      /\ after.m1_rc = rc /\ after.m3_rc = b.m3_rc /\ after.anonce = nonce
      /\ after.m1_ts = eapolNow /\ after.paired = b.paired
      /\ after.exported = b.exported /\ after.m_frames = b.m_frames
  <2>1. (IF b.progress < 1 THEN 1 ELSE b.progress) \in 0 .. 4
    BY <1>2
  <2> HIDE DEF b
  <2>2. after = [b EXCEPT !.anonce = nonce, !.m1_rc = rc, !.has_m1 = TRUE,
                          !.m1_ts = eapolNow,
                          !.progress = IF b.progress < 1 THEN 1 ELSE b.progress]
    BY DEF b
  <2> QED BY <1>2, <2>1, <2>2 DEF EapolRow
<1>4. /\ x \in Offer /\ x.nonce = nonce /\ x.rc = rc /\ x.at = eapolNow
      /\ x.heard = q.heard \cup {<<1, rc>>}
      /\ x.lines = q.lines /\ x.failed = q.failed
  <2>1. q.heard \cup {<<1, rc>>} \in SUBSET ((1 .. 4) \X EapolCounters)
    BY <1>1 DEF Offer
  <2> QED BY <1>1, <2>1 DEF Offer
<1> HIDE DEF b
<1>5. nonce # EapolNone
  BY EapolAssumption
<1>6. after.m_frames \subseteq {y[1] : y \in x.heard}
  <2>1. r.m_frames \subseteq {y[1] : y \in q.heard}
    BY DEF Agrees
  <2>2. <<1, rc>>[1] = 1 /\ <<1, rc>> \in x.heard
    BY <1>4
  <2>3. 1 \in {y[1] : y \in x.heard}
    BY <2>2, Zenon
  <2>4. {y[1] : y \in q.heard} \subseteq {y[1] : y \in x.heard}
    BY <1>4
  <2> QED BY <1>2, <1>3, <2>1, <2>3, <2>4
<1>7. CASE r.has_m1
  <2>1. q.rc = rc
    BY <1>7 DEF Agrees
  <2>2. /\ after.progress >= 2 => r.progress >= 2
        /\ after.progress >= 3 => r.progress >= 3
        /\ after.progress = 4 => r.progress = 4
    BY <1>2, <1>3
  <2>3. /\ after.paired => <<2, x.rc>> \in x.heard
        /\ after.progress >= 2 => <<2, x.rc>> \in x.heard
        /\ after.progress >= 3 => <<3, Successor(x.rc)>> \in x.heard
        /\ after.has_m3 => <<3, after.m3_rc>> \in x.heard
    BY <1>2, <1>3, <1>4, <1>7, <2>1, <2>2 DEF Agrees
  <2>4. after.progress = 4 =>
           \E c \in EapolCounters : {<<3, c>>, <<4, c>>} \subseteq x.heard
    BY <1>4, <2>2 DEF Agrees
  <2>5. /\ after.exported <=> after.paired /\ eapolOut
        /\ x.lines + x.failed = (IF after.paired /\ eapolOut THEN 1 ELSE 0)
    BY <1>2, <1>3, <1>4 DEF Agrees
  <2> QED BY <1>3, <1>4, <1>5, <1>6, <2>3, <2>4, <2>5 DEF Agrees
<1>8. CASE ~ r.has_m1
  <2>1. /\ r.progress = 0 /\ ~ r.paired /\ ~ r.exported /\ ~ r.has_m3
        /\ q.lines = 0 /\ q.failed = 0
    BY <1>8 DEF Agrees, NoOffer
  <2>2. after.progress = 1 /\ ~ after.paired /\ ~ after.exported /\ ~ after.has_m3
    BY <1>2, <1>3, <2>1
  <2> QED BY <1>3, <1>4, <1>5, <1>6, <2>1, <2>2 DEF Agrees
<1> QED BY <1>7, <1>8

\* The M1 the handler takes for a retransmission is the one the observer does.
LEMMA M1Agrees ==
    ASSUME NEW r, NEW o, Agrees(r, o), eapolOut \in BOOLEAN, eapolNow \in Int,
           NEW nonce \in EapolNonces, NEW rc \in EapolCounters
    PROVE  Agrees(AfterM1(r, nonce, rc),
                  [(IF o.nonce = nonce /\ o.rc = rc THEN o ELSE NoOffer) EXCEPT
                      !.nonce = nonce, !.rc = rc, !.at = eapolNow,
                      !.heard = @ \cup {<<1, rc>>}])
<1>1. nonce # EapolNone
  BY EapolAssumption
<1>2. Retransmitted(r, nonce, rc) <=> o.nonce = nonce /\ o.rc = rc
  BY <1>1 DEF Agrees, Retransmitted, NoOffer
<1>3. CASE Retransmitted(r, nonce, rc)
  <2> DEFINE after == [Buffered(r, 1) EXCEPT !.anonce = nonce, !.m1_rc = rc,
                       !.has_m1 = TRUE, !.m1_ts = eapolNow,
                       !.progress = IF @ < 1 THEN 1 ELSE @]
             x == [o EXCEPT !.nonce = nonce, !.rc = rc, !.at = eapolNow,
                            !.heard = @ \cup {<<1, rc>>}]
  <2>1. AfterM1(r, nonce, rc) = after
    BY <1>3 DEF AfterM1
  <2>2. Agrees(after, x)
    BY <1>3, M1Opens DEF Retransmitted
  <2> HIDE DEF after
  <2> QED BY <1>2, <1>3, <2>1, <2>2
<1>4. CASE ~ Retransmitted(r, nonce, rc)
  <2> DEFINE e == AttemptReset(r)
             after == [Buffered(e, 1) EXCEPT !.anonce = nonce, !.m1_rc = rc,
                       !.has_m1 = TRUE, !.m1_ts = eapolNow,
                       !.progress = IF @ < 1 THEN 1 ELSE @]
             x == [NoOffer EXCEPT !.nonce = nonce, !.rc = rc, !.at = eapolNow,
                                  !.heard = @ \cup {<<1, rc>>}]
  <2>1. r.last_seen \in Int
    BY DEF Agrees, EapolRow
  <2>2. Agrees(e, NoOffer)
    BY <2>1, NoOfferAgrees DEF AttemptReset
  <2>3. ~ e.has_m1 /\ e.m_frames = {} /\ ~ e.has_m3
    BY DEF AttemptReset, EmptyRow
  <2>4. AfterM1(r, nonce, rc) = after
    BY <1>4 DEF AfterM1
  <2> HIDE DEF e
  <2>5. Agrees(after, x)
    BY <2>2, <2>3, M1Opens
  <2> HIDE DEF after
  <2> QED BY <1>2, <1>4, <2>4, <2>5
<1> QED BY <1>3, <1>4

-----------------------------------------------------------------------------
(* The tracker                                                             *)

LEMMA EapolInvHolds == EapolSpec => []EapolInv
<1>1. EapolInit => EapolInv
  <2> SUFFICES ASSUME EapolInit PROVE EapolInv
    OBVIOUS
  <2>1. eapolOut \in BOOLEAN /\ eapolNow \in Int /\ DOMAIN eapolRows = {}
    BY DEF EapolInit
  <2>2. NoOffer \in Offer
    BY <2>1, NoOfferAgrees
  <2>3. eapolAir = [p \in EapolPairs |-> NoOffer]
    BY DEF EapolInit
  <2> QED BY <2>1, <2>2, <2>3 DEF EapolInv
<1>2. EapolInv /\ [EapolNext]_eapolVars => EapolInv'
  <2> SUFFICES ASSUME EapolInv, [EapolNext]_eapolVars PROVE EapolInv'
    OBVIOUS
  <2>1. eapolOut \in BOOLEAN /\ eapolNow \in Int
    BY DEF EapolInv
  <2>2. ASSUME NEW p \in EapolPairs, NEW rc \in EapolCounters,
               NEW nonce \in EapolNonces, EapolM1(p, nonce, rc)
        PROVE  EapolInv'
    <3> DEFINE o == OfferOf(p)
               x == [(IF o.nonce = nonce /\ o.rc = rc THEN o ELSE NoOffer) EXCEPT
                        !.nonce = nonce, !.rc = rc, !.at = eapolNow,
                        !.heard = @ \cup {<<1, rc>>}]
               after == AfterM1(Pending(p), nonce, rc)
    <3>1. PICK gone \in Displaced(p) :
             /\ Store(p, after, gone) /\ Hear(p, x, gone)
             /\ UNCHANGED <<eapolOut, eapolNow>>
      BY <2>2 DEF EapolM1
    <3>2. Agrees(Pending(p), o)
      BY PendingAgrees
    <3> HIDE DEF o
    <3>3. Agrees(after, x)
      BY <2>1, <3>2, M1Agrees
    <3> HIDE DEF x, after
    <3> QED BY <3>1, <3>3, StoreKeeps
  <2>3. ASSUME NEW p \in EapolPairs, NEW rc \in EapolCounters, EapolM2(p, rc)
        PROVE  EapolInv'
    <3> DEFINE r == Pending(p)
               h == Heard(p, 2, rc)
               export == Pairs(r, rc) /\ ~ r.exported /\ eapolOut
    <3>1. PICK gone \in Displaced(p) :
             /\ Store(p, AfterM2(r, rc), gone)
             /\ IF export THEN \/ Hear(p, [h EXCEPT !.lines = @ + 1], gone)
                               \/ Hear(p, [h EXCEPT !.failed = @ + 1], gone)
                ELSE Hear(p, h, gone)
             /\ UNCHANGED <<eapolOut, eapolNow>>
      BY <2>3 DEF EapolM2
    <3>2. Agrees(r, OfferOf(p))
      BY PendingAgrees
    <3>3. h = HeardMore(OfferOf(p), 2, rc)
      BY DEF Heard, HeardMore
    <3> HIDE DEF r, h
    <3>4. CASE ~ Pairs(r, rc)
      <4>1. AfterM2(r, rc) = Buffered(r, 2) /\ Hear(p, h, gone) /\ 2 \in 1 .. 4
        BY <3>1, <3>4 DEF AfterM2
      <4>2. Agrees(AfterM2(r, rc), h)
        BY <3>2, <3>3, <4>1, BufferedAgrees
      <4> QED BY <3>1, <4>1, <4>2, StoreKeeps
    <3>5. CASE Pairs(r, rc)
      <4>1. PICK x : /\ Hear(p, x, gone)
                     /\ IF ~ r.exported /\ eapolOut
                        THEN \/ x = [h EXCEPT !.lines = @ + 1]
                             \/ x = [h EXCEPT !.failed = @ + 1]
                        ELSE x = h
        BY <3>1, <3>5
      <4>2. Agrees(AfterM2(r, rc), x)
        BY <2>1, <3>2, <3>3, <3>5, <4>1, M2Agrees
      <4> QED BY <3>1, <4>1, <4>2, StoreKeeps
    <3> QED BY <3>4, <3>5
  <2>4. ASSUME NEW p \in EapolPairs, NEW rc \in EapolCounters, EapolM3(p, rc)
        PROVE  EapolInv'
    <3>1. Heard(p, 3, rc) = HeardMore(OfferOf(p), 3, rc)
      BY DEF Heard, HeardMore
    <3>2. Agrees(AfterM3(Pending(p), rc), Heard(p, 3, rc))
      BY <3>1, PendingAgrees, M3Agrees
    <3> QED BY <2>4, <3>2, StoreKeeps DEF EapolM3
  <2>5. ASSUME NEW p \in EapolPairs, NEW rc \in EapolCounters, EapolM4(p, rc)
        PROVE  EapolInv'
    <3>1. Heard(p, 4, rc) = HeardMore(OfferOf(p), 4, rc)
      BY DEF Heard, HeardMore
    <3>2. Agrees(AfterM4(Pending(p), rc), Heard(p, 4, rc))
      BY <3>1, PendingAgrees, M4Agrees
    <3> QED BY <2>5, <3>2, StoreKeeps DEF EapolM4
  <2>6. CASE EapolTick
    <3>1. eapolNow' \in Int /\ UNCHANGED <<eapolOut, eapolRows, eapolAir>>
      BY <2>6 DEF EapolTick
    <3> QED BY <3>1 DEF EapolInv, Agrees
  <2>7. CASE UNCHANGED eapolVars
    BY <2>7 DEF eapolVars, EapolInv, Agrees
  <2> QED BY <2>2, <2>3, <2>4, <2>5, <2>6, <2>7 DEF EapolNext
<1> QED BY <1>1, <1>2, PTL DEF EapolSpec

\* No order of messages, retransmissions, losses and clock steps makes an
\* attempt claim, or its pcap hold, what was not heard under its own M1.
THEOREM AttemptsAreBacked == EapolSpec => []EapolAttemptBacked
<1>1. EapolInv => EapolAttemptBacked
  <2> SUFFICES ASSUME EapolInv, NEW p \in DOMAIN eapolRows
               PROVE  LET r == eapolRows[p]
                          o == eapolAir[p] IN
                      /\ r.has_m1 => r.anonce = o.nonce /\ r.m1_rc = o.rc
                      /\ r.progress >= 1 => r.has_m1 /\ <<1, o.rc>> \in o.heard
                      /\ r.paired \/ r.progress >= 2 => <<2, o.rc>> \in o.heard
                      /\ r.progress >= 3 => <<3, Successor(o.rc)>> \in o.heard
                      /\ r.progress = 4 =>
                            \E rc \in EapolCounters :
                               {<<3, rc>>, <<4, rc>>} \subseteq o.heard
                      /\ r.has_m1 => r.m_frames \subseteq {h[1] : h \in o.heard}
    BY DEF EapolAttemptBacked
  <2>1. Agrees(eapolRows[p], eapolAir[p])
    BY DEF EapolInv
  <2> QED BY <2>1 DEF Agrees
<1> QED BY <1>1, EapolInvHolds, PTL

\* Each offer that was paired is written once, or its one write failed.
THEOREM OneLinePerOffer == EapolSpec => []EapolOneLinePerOffer
<1>1. EapolInv => EapolOneLinePerOffer
  <2> SUFFICES ASSUME EapolInv, NEW p \in DOMAIN eapolRows
               PROVE  eapolAir[p].lines + eapolAir[p].failed =
                         (IF eapolRows[p].paired /\ eapolOut THEN 1 ELSE 0)
    BY DEF EapolOneLinePerOffer
  <2>1. Agrees(eapolRows[p], eapolAir[p])
    BY DEF EapolInv
  <2> QED BY <2>1 DEF Agrees
<1> QED BY <1>1, EapolInvHolds, PTL

-----------------------------------------------------------------------------
(***************************************************************************)
(* Proofs about one set of the change cache, for any number of keys, ways  *)
(* and steps of the clock.                                                 *)
(*                                                                         *)
(* What a lookup may suppress depends on the cached row, so the invariant  *)
(* ties every cached row to what the consumer was shown: its signature     *)
(* always, its times until the wall clock is first set back.               *)
(***************************************************************************)

\* A key is cached once, with the signature its last row was written with.
CacheIsShown ==
    \A w \in 1 .. Ways : set[w].key # None =>
       /\ set[w].sig = shown[set[w].key]
       /\ \A v \in 1 .. Ways : set[v].key = set[w].key => v = w

\* Until the clock is set back, a cached stamp is at most the clock's present
\* lead ahead of the moment it was taken.
StampsLag ==
    setBack \/ \A w \in 1 .. Ways : set[w].key # None =>
       /\ set[w].emit <= shownAt[set[w].key] + skew
       /\ set[w].seen <= lookedAt[set[w].key] + skew

\* ... and stamps of lookups are in the order of the lookups.
StampsOrdered ==
    setBack \/ \A w, v \in 1 .. Ways :
       /\ set[w].key # None /\ set[v].key # None
       /\ lookedAt[set[v].key] < lookedAt[set[w].key]
       => set[v].seen < set[w].seen

DedupInv ==
    /\ DedupTypeOK /\ NothingIsWithheld /\ CacheIsShown
    /\ StampsLag /\ StampsOrdered /\ HeartbeatKeptForward
    /\ \A k \in Keys : lookedAt[k] <= time

Ints ==
    /\ time \in Nat /\ skew \in Int
    /\ \A j \in Keys : lookedAt[j] \in Int /\ shownAt[j] \in Int
    /\ \A v \in 1 .. Ways : /\ set[v].emit \in Int /\ set[v].seen \in Int
                            /\ set[v].key # None => set[v].key \in Keys

LEMMA TypesAreInts == DedupTypeOK => Ints
<1> SUFFICES ASSUME DedupTypeOK PROVE Ints
  OBVIOUS
<1>1. time \in Nat /\ skew \in Int /\ \A j \in Keys : lookedAt[j] \in Int /\ shownAt[j] \in Int
  BY DedupAssumption DEF DedupTypeOK
<1>2. ASSUME NEW v \in 1 .. Ways
      PROVE  /\ set[v].emit \in Int /\ set[v].seen \in Int
             /\ set[v].key # None => set[v].key \in Keys
  <2>1. set[v] \in [key : Keys \cup {None}, sig : Sigs \cup {None},
                    emit : Int, seen : Int]
    BY DEF DedupTypeOK
  <2> QED BY <2>1
<1> QED BY <1>1, <1>2 DEF Ints

\* A lookup that writes its row, in the way that held the key or in any other
\* when none did.
LEMMA WriteKeeps ==
    ASSUME DedupInv, NEW k \in Keys, NEW s \in Sigs, NEW w \in 1 .. Ways,
           Hit(k, w) \/ Missing(k), LookUp(k, s), Emit(k, s, w)
    PROVE  DedupInv'
<1> DEFINE W == time + skew
<1>1. DedupTypeOK /\ Ints
  BY TypesAreInts DEF DedupInv
<1>2. \A v \in 1 .. Ways : v # w => set[v].key # k
  <2>1. k # None
    BY DedupAssumption
  <2>2. CASE Missing(k)
    BY <2>2 DEF Missing, Hit
  <2>3. CASE Hit(k, w)
    BY <2>1, <2>3 DEF DedupInv, CacheIsShown, Hit
  <2> QED BY <2>2, <2>3
<1>3. /\ W \in Int /\ k # None /\ UNCHANGED <<time, skew, setBack>>
      /\ shown' = [shown EXCEPT ![k] = s] /\ actual' = [actual EXCEPT ![k] = s]
      /\ shownAt' = [shownAt EXCEPT ![k] = time]
      /\ lookedAt' = [lookedAt EXCEPT ![k] = time]
      /\ set' = [set EXCEPT ![w] = [key |-> k, sig |-> s, emit |-> W, seen |-> W]]
  BY <1>1, DedupAssumption DEF LookUp, Emit, Wall, Ints
<1> HIDE DEF W
<1>4. /\ set'[w] = [key |-> k, sig |-> s, emit |-> W, seen |-> W]
      /\ \A v \in 1 .. Ways : v # w => set'[v] = set[v]
      /\ shownAt'[k] = time /\ lookedAt'[k] = time
      /\ \A j \in Keys : j # k => shownAt'[j] = shownAt[j] /\ lookedAt'[j] = lookedAt[j]
  BY <1>1, <1>3 DEF DedupTypeOK
<1>5. DedupTypeOK'
  <2>1. [key |-> k, sig |-> s, emit |-> W, seen |-> W] \in
           [key : Keys \cup {None}, sig : Sigs \cup {None}, emit : Int, seen : Int]
    BY <1>3
  <2> QED BY <1>1, <1>3, <2>1 DEF DedupTypeOK
<1>6. NothingIsWithheld' /\ CacheIsShown'
  <2>1. NothingIsWithheld'
    BY <1>3 DEF DedupInv, NothingIsWithheld
  <2>2. CacheIsShown'
    BY <1>1, <1>2, <1>3, <1>4 DEF DedupInv, DedupTypeOK, CacheIsShown, Ints
  <2> QED BY <2>1, <2>2
<1>7. StampsLag'
  <2> SUFFICES ASSUME ~ setBack, NEW v \in 1 .. Ways, set'[v].key # None
               PROVE  /\ set'[v].emit <= shownAt'[set'[v].key] + skew
                      /\ set'[v].seen <= lookedAt'[set'[v].key] + skew
    BY <1>3 DEF StampsLag
  <2>1. CASE v = w
    BY <1>1, <1>4, <2>1 DEF W, Ints
  <2>2. CASE v # w
    BY <1>1, <1>2, <1>4, <2>2 DEF DedupInv, StampsLag, Ints
  <2> QED BY <2>1, <2>2
<1>8. StampsOrdered'
  <2> SUFFICES ASSUME ~ setBack, NEW u \in 1 .. Ways, NEW v \in 1 .. Ways,
                      set'[u].key # None, set'[v].key # None,
                      lookedAt'[set'[v].key] < lookedAt'[set'[u].key]
               PROVE  set'[v].seen < set'[u].seen
    BY <1>3 DEF StampsOrdered
  <2>1. \A j \in Keys : lookedAt[j] <= time
    BY DEF DedupInv
  <2>2. v # w
    BY <1>1, <1>2, <1>4, <2>1 DEF Ints
  <2>3. lookedAt'[set'[v].key] = lookedAt[set[v].key] /\ set[v].key \in Keys
    BY <1>1, <1>2, <1>4, <2>2 DEF Ints
  <2>4. CASE u = w
    <3>1. set[v].seen <= lookedAt[set[v].key] + skew
      BY <1>4, <2>2 DEF DedupInv, StampsLag
    <3> QED BY <1>1, <1>4, <2>2, <2>3, <2>4, <3>1 DEF W, Ints
  <2>5. CASE u # w
    BY <1>1, <1>2, <1>4, <2>2, <2>3, <2>5 DEF DedupInv, StampsOrdered, Ints
  <2> QED BY <2>4, <2>5
<1>9. HeartbeatKeptForward'
  BY <1>1, <1>3, <1>4, DedupAssumption
     DEF DedupInv, DedupTypeOK, HeartbeatKeptForward, HeartbeatKept, Ints
<1>10. (\A j \in Keys : lookedAt[j] <= time)'
  BY <1>1, <1>3, <1>4 DEF DedupInv, Ints
<1> QED BY <1>5, <1>6, <1>7, <1>8, <1>9, <1>10 DEF DedupInv

\* A lookup that is suppressed: the row was shown less than a heartbeat ago.
LEMMA SuppressKeeps ==
    ASSUME DedupInv, NEW k \in Keys, NEW s \in Sigs, Suppress(k, s)
    PROVE  DedupInv'
<1> DEFINE W == time + skew
<1>1. DedupTypeOK /\ Ints
  BY TypesAreInts DEF DedupInv
<1>2. PICK w \in 1 .. Ways : Hit(k, w) /\ Fresh(set[w], s) /\ LookUp(k, s)
                             /\ set' = [set EXCEPT ![w].seen = W]
                             /\ UNCHANGED <<shown, shownAt>>
  BY DEF Suppress, Wall
<1>3. /\ set[w].sig = s /\ set[w].key = k /\ W - set[w].emit < Heartbeat
      /\ W \in Int /\ k # None /\ UNCHANGED <<time, skew, setBack, shown, shownAt>>
      /\ actual' = [actual EXCEPT ![k] = s]
      /\ lookedAt' = [lookedAt EXCEPT ![k] = time]
  BY <1>1, <1>2, DedupAssumption DEF LookUp, Fresh, Hit, Wall, Ints
<1>4. \A v \in 1 .. Ways : v # w => set[v].key # k
  BY <1>3 DEF DedupInv, CacheIsShown
<1> HIDE DEF W
<1>5. /\ set'[w] = [set[w] EXCEPT !.seen = W]
      /\ \A v \in 1 .. Ways : v # w => set'[v] = set[v]
      /\ lookedAt'[k] = time
      /\ \A j \in Keys : j # k => lookedAt'[j] = lookedAt[j]
  BY <1>1, <1>2, <1>3 DEF DedupTypeOK
<1>6. /\ set'[w].seen = W
      /\ \A v \in 1 .. Ways : /\ set'[v].key = set[v].key /\ set'[v].sig = set[v].sig
                              /\ set'[v].emit = set[v].emit
  <2>1. set[w] \in [key : Keys \cup {None}, sig : Sigs \cup {None},
                    emit : Int, seen : Int]
    BY <1>1 DEF DedupTypeOK
  <2>2. /\ set'[w].seen = W /\ set'[w].key = set[w].key
        /\ set'[w].sig = set[w].sig /\ set'[w].emit = set[w].emit
    BY <1>5, <2>1
  <2> QED BY <1>5, <2>2
<1>7. shown[k] = s
  BY <1>3 DEF DedupInv, CacheIsShown
<1>8. DedupTypeOK'
  <2>1. [set[w] EXCEPT !.seen = W] \in
           [key : Keys \cup {None}, sig : Sigs \cup {None}, emit : Int, seen : Int]
    BY <1>1, <1>3 DEF DedupTypeOK
  <2> QED BY <1>1, <1>2, <1>3, <2>1 DEF DedupTypeOK
<1>9. NothingIsWithheld' /\ CacheIsShown'
  <2>1. NothingIsWithheld'
    BY <1>1, <1>3, <1>7 DEF DedupInv, DedupTypeOK, NothingIsWithheld
  <2>2. CacheIsShown'
    BY <1>3, <1>6 DEF DedupInv, CacheIsShown
  <2> QED BY <2>1, <2>2
<1>10. StampsLag'
  <2> SUFFICES ASSUME ~ setBack, NEW v \in 1 .. Ways, set'[v].key # None
               PROVE  /\ set'[v].emit <= shownAt[set'[v].key] + skew
                      /\ set'[v].seen <= lookedAt'[set'[v].key] + skew
    BY <1>3 DEF StampsLag
  <2>1. CASE v = w
    <3>1. set[w].emit <= shownAt[k] + skew
      BY <1>3 DEF DedupInv, StampsLag
    <3>2. set'[v].key = k /\ set'[v].emit = set[w].emit /\ set'[v].seen = W
      BY <1>3, <1>6, <2>1
    <3>3. W = time + skew /\ lookedAt'[k] = time
      BY <1>5 DEF W
    <3> QED BY <1>1, <3>1, <3>2, <3>3 DEF Ints
  <2>2. CASE v # w
    BY <1>1, <1>4, <1>5, <2>2 DEF DedupInv, StampsLag, Ints
  <2> QED BY <2>1, <2>2
<1>11. StampsOrdered'
  <2> SUFFICES ASSUME ~ setBack, NEW u \in 1 .. Ways, NEW v \in 1 .. Ways,
                      set[u].key # None, set[v].key # None,
                      lookedAt'[set[v].key] < lookedAt'[set[u].key]
               PROVE  set'[v].seen < set'[u].seen
    BY <1>3, <1>6 DEF StampsOrdered
  <2>1. \A j \in Keys : lookedAt[j] <= time
    BY DEF DedupInv
  <2>2. v # w
    BY <1>1, <1>3, <1>4, <1>5, <2>1 DEF Ints
  <2>3. lookedAt'[set[v].key] = lookedAt[set[v].key] /\ set[v].key \in Keys
    BY <1>1, <1>4, <1>5, <2>2 DEF Ints
  <2>4. CASE u = w
    <3>1. set[v].seen <= lookedAt[set[v].key] + skew
      BY DEF DedupInv, StampsLag
    <3>2. set'[v].seen = set[v].seen /\ set'[u].seen = W /\ set[u].key = k
      BY <1>3, <1>5, <1>6, <2>2, <2>4
    <3>3. W = time + skew /\ lookedAt[set[v].key] < time
      BY <1>5, <2>3, <3>2 DEF W
    <3> QED BY <1>1, <2>3, <3>1, <3>2, <3>3 DEF Ints
  <2>5. CASE u # w
    BY <1>1, <1>4, <1>5, <2>2, <2>3, <2>5 DEF DedupInv, StampsOrdered, Ints
  <2> QED BY <2>4, <2>5
<1>12. HeartbeatKeptForward'
  <2>1. setBack \/ time - shownAt[k] < Heartbeat
    <3>1. setBack \/ set[w].emit <= shownAt[k] + skew
      BY <1>3 DEF DedupInv, StampsLag
    <3> QED BY <1>1, <1>3, <3>1, DedupAssumption DEF W, Ints
  <2> QED BY <1>1, <1>3, <1>5, <2>1 DEF DedupInv, DedupTypeOK,
             HeartbeatKeptForward, HeartbeatKept, Ints
<1>13. (\A j \in Keys : lookedAt[j] <= time)'
  BY <1>1, <1>3, <1>5 DEF DedupInv, Ints
<1> QED BY <1>8, <1>9, <1>10, <1>11, <1>12, <1>13 DEF DedupInv

LEMMA ClockKeeps ==
    ASSUME DedupInv, DedupTick \/ StepWall
    PROVE  DedupInv'
<1>1. DedupTypeOK /\ Ints
  BY TypesAreInts DEF DedupInv
<1>2. /\ UNCHANGED <<set, actual, shown, shownAt, lookedAt>>
      /\ skew' \in Int /\ skew' \in Skews /\ setBack' \in BOOLEAN
      /\ time' \in 0 .. MaxTime /\ time <= time'
      /\ setBack' \/ (skew <= skew' /\ ~ setBack)
  <2>1. skew \in Skews /\ setBack \in BOOLEAN /\ time \in 0 .. MaxTime
    BY <1>1 DEF DedupTypeOK
  <2>2. CASE DedupTick
    BY <1>1, <2>1, <2>2, DedupAssumption DEF DedupTick, Ints
  <2>3. CASE StepWall
    <3>1. UNCHANGED <<set, actual, shown, shownAt, lookedAt, time>>
      BY <2>3 DEF StepWall
    <3>2. skew' \in Int /\ skew' \in Skews
      BY <2>3, DedupAssumption DEF StepWall
    <3>3. setBack' = (setBack \/ skew' < skew)
      BY <2>3 DEF StepWall
    <3>4. setBack' \in BOOLEAN
      BY <3>3
    <3>5. setBack' \/ (skew <= skew' /\ ~ setBack)
      <4>1. CASE setBack
        BY <3>3, <4>1
      <4>2. CASE ~ setBack
        <5>1. skew' < skew \/ skew <= skew'
          BY <1>1, <3>2 DEF Ints
        <5> QED BY <3>3, <4>2, <5>1
      <4> QED BY <4>1, <4>2
    <3>6. time' \in 0 .. MaxTime /\ time <= time'
      BY <1>1, <2>1, <3>1 DEF Ints
    <3> QED BY <3>1, <3>2, <3>4, <3>5, <3>6
  <2> QED BY <2>2, <2>3
<1>3. DedupTypeOK' /\ NothingIsWithheld' /\ CacheIsShown'
  BY <1>1, <1>2 DEF DedupInv, DedupTypeOK, NothingIsWithheld, CacheIsShown
<1>4. StampsLag'
  <2> SUFFICES ASSUME ~ setBack', NEW v \in 1 .. Ways, set[v].key # None
               PROVE  /\ set[v].emit <= shownAt[set[v].key] + skew'
                      /\ set[v].seen <= lookedAt[set[v].key] + skew'
    BY <1>2 DEF StampsLag
  <2>1. /\ set[v].emit <= shownAt[set[v].key] + skew
        /\ set[v].seen <= lookedAt[set[v].key] + skew
    BY <1>2 DEF DedupInv, StampsLag
  <2> QED BY <1>1, <1>2, <2>1 DEF Ints
<1>5. StampsOrdered' /\ HeartbeatKeptForward'
  BY <1>2 DEF DedupInv, StampsOrdered, HeartbeatKeptForward, HeartbeatKept
<1>6. (\A j \in Keys : lookedAt[j] <= time)'
  BY <1>1, <1>2, DedupAssumption DEF DedupInv, Ints
<1> QED BY <1>3, <1>4, <1>5, <1>6 DEF DedupInv

LEMMA ResetKeeps ==
    ASSUME DedupInv, DedupReset
    PROVE  DedupInv'
<1> USE DedupAssumption DEF DedupInv, DedupReset, Free
<1>1. DedupTypeOK'
  <2>1. [key |-> None, sig |-> None, emit |-> 0, seen |-> 0] \in
           [key : Keys \cup {None}, sig : Sigs \cup {None}, emit : Int, seen : Int]
    OBVIOUS
  <2> QED BY <2>1 DEF DedupTypeOK
<1>2. NothingIsWithheld' /\ CacheIsShown' /\ StampsLag' /\ StampsOrdered'
  BY DEF NothingIsWithheld, CacheIsShown, StampsLag, StampsOrdered
<1>3. HeartbeatKeptForward'
  BY DEF HeartbeatKeptForward, HeartbeatKept
<1> QED BY <1>1, <1>2, <1>3

LEMMA DedupInvHolds == DedupSpec => []DedupInv
<1>1. DedupInit => DedupInv
  <2> SUFFICES ASSUME DedupInit PROVE DedupInv
    OBVIOUS
  <2> USE DedupAssumption DEF DedupInit, Free
  <2>1. DedupTypeOK /\ \A k \in Keys : lookedAt[k] <= time
    <3>1. Free \in [key : Keys \cup {None}, sig : Sigs \cup {None},
                    emit : Int, seen : Int]
      OBVIOUS
    <3>2. set \in [1 .. Ways -> [key : Keys \cup {None}, sig : Sigs \cup {None},
                                 emit : Int, seen : Int]]
      BY <3>1
    <3>3. 0 \in 0 .. MaxTime /\ time = 0
      OBVIOUS
    <3>4. skew \in Skews /\ setBack \in BOOLEAN
      OBVIOUS
    <3>5. /\ actual \in [Keys -> Sigs \cup {None}] /\ shown \in [Keys -> Sigs \cup {None}]
          /\ shownAt \in [Keys -> 0 .. MaxTime] /\ lookedAt \in [Keys -> 0 .. MaxTime]
      BY <3>3
    <3>6. ASSUME NEW k \in Keys PROVE lookedAt[k] <= time
      <4>1. lookedAt[k] = 0
        OBVIOUS
      <4>2. 0 <= 0
        OBVIOUS
      <4> QED BY <3>3, <4>1, <4>2
    <3> QED BY <3>2, <3>3, <3>4, <3>5, <3>6 DEF DedupTypeOK
  <2>2. NothingIsWithheld /\ CacheIsShown /\ StampsLag /\ StampsOrdered
    BY DEF NothingIsWithheld, CacheIsShown, StampsLag, StampsOrdered
  <2>3. HeartbeatKeptForward
    BY DEF HeartbeatKeptForward, HeartbeatKept
  <2> QED BY <2>1, <2>2, <2>3 DEF DedupInv
<1>2. DedupInv /\ [DedupNext]_dedupVars => DedupInv'
  <2> SUFFICES ASSUME DedupInv, [DedupNext]_dedupVars PROVE DedupInv'
    OBVIOUS
  <2>1. ASSUME NEW k \in Keys, NEW s \in Sigs, Suppress(k, s) PROVE DedupInv'
    BY <2>1, SuppressKeeps
  <2>2. ASSUME NEW k \in Keys, NEW s \in Sigs, Refresh(k, s) PROVE DedupInv'
    <3>1. PICK w \in 1 .. Ways : Hit(k, w) /\ LookUp(k, s) /\ Emit(k, s, w)
      BY <2>2 DEF Refresh
    <3> QED BY <3>1, WriteKeeps
  <2>3. ASSUME NEW k \in Keys, NEW s \in Sigs, Insert(k, s) PROVE DedupInv'
    <3>1. PICK w \in 1 .. Ways : Missing(k) /\ LookUp(k, s) /\ Emit(k, s, w)
      BY <2>3 DEF Insert
    <3> QED BY <3>1, WriteKeeps
  <2>4. CASE UNCHANGED dedupVars
    BY <2>4 DEF dedupVars, DedupInv, DedupTypeOK, NothingIsWithheld, CacheIsShown,
                StampsLag, StampsOrdered, HeartbeatKeptForward, HeartbeatKept
  <2> QED
    BY <2>1, <2>2, <2>3, <2>4, ResetKeeps, ClockKeeps DEF DedupNext
<1> QED BY <1>1, <1>2, PTL DEF DedupSpec

\* Whatever shares a set with it, and whatever the clock does, a consumer that
\* keeps the latest row of each key knows the state it was last looked up in.
THEOREM NothingIsEverWithheld == DedupSpec => []NothingIsWithheld
<1>1. DedupInv => NothingIsWithheld
  BY DEF DedupInv
<1> QED BY <1>1, DedupInvHolds, PTL

\* While the wall clock is not set back, no lookup leaves its key unwritten for
\* a heartbeat, for every heartbeat and every forward step.
THEOREM HeartbeatIsKept == DedupSpec => []HeartbeatKeptForward
<1>1. DedupInv => HeartbeatKeptForward
  BY DEF DedupInv
<1> QED BY <1>1, DedupInvHolds, PTL

\* A full set gives up the key looked up least recently.
THEOREM ColdestAlwaysGoes == DedupSpec => ColdestGoes
<1> DEFINE Displacing == \A w \in 1 .. Ways :
          (/\ ~ setBack
           /\ set[w].key # None /\ set'[w].key \notin {None, set[w].key}) =>
             \A v \in 1 .. Ways :
                set[v].key # None /\ lookedAt[set[w].key] <= lookedAt[set[v].key]
<1>1. DedupInv /\ [DedupNext]_dedupVars => [Displacing]_dedupVars
  <2> SUFFICES ASSUME DedupInv, DedupNext, NEW w \in 1 .. Ways, ~ setBack,
                      set[w].key # None, set'[w].key \notin {None, set[w].key},
                      NEW v \in 1 .. Ways
               PROVE  set[v].key # None /\ lookedAt[set[w].key] <= lookedAt[set[v].key]
    OBVIOUS
  <2>1. DedupTypeOK /\ Ints
    BY TypesAreInts DEF DedupInv
  <2>2. PICK k \in Keys, s \in Sigs : Insert(k, s)
    <3>1. ASSUME NEW k \in Keys, NEW s \in Sigs, Suppress(k, s) PROVE FALSE
      <4>1. PICK u \in 1 .. Ways : set' = [set EXCEPT ![u].seen = Wall]
        BY <3>1 DEF Suppress
      <4>2. set[u] \in [key : Keys \cup {None}, sig : Sigs \cup {None},
                        emit : Int, seen : Int]
        BY <2>1 DEF DedupTypeOK
      <4>3. set'[w].key = set[w].key
        BY <2>1, <4>1, <4>2 DEF DedupTypeOK
      <4> QED BY <4>3
    <3>2. ASSUME NEW k \in Keys, NEW s \in Sigs, Refresh(k, s) PROVE FALSE
      <4>1. PICK u \in 1 .. Ways : Hit(k, u) /\ Emit(k, s, u)
        BY <3>2 DEF Refresh
      <4>2. set'[w].key = set[w].key
        BY <2>1, <4>1 DEF DedupTypeOK, Hit, Emit
      <4> QED BY <4>2
    <3>3. ~ DedupReset
      <4>1. SUFFICES ASSUME DedupReset PROVE FALSE
        OBVIOUS
      <4>2. set'[w] = Free
        BY <4>1 DEF DedupReset
      <4>3. Free.key = None
        BY DEF Free
      <4> QED BY <4>2, <4>3
    <3>4. ~ DedupTick /\ ~ StepWall
      BY DEF DedupTick, StepWall
    <3> QED BY <3>1, <3>2, <3>3, <3>4 DEF DedupNext
  <2>3. Victim(w)
    <3>1. PICK u \in 1 .. Ways : Victim(u) /\ Emit(k, s, u)
      BY <2>2 DEF Insert
    <3>2. u # w => set'[w] = set[w]
      BY <2>1, <3>1 DEF Emit, DedupTypeOK
    <3> QED BY <3>1, <3>2
  <2>4. set[v].key # None /\ ~ (set[v].seen < set[w].seen)
    BY <2>3 DEF Victim, Colder
  <2> QED BY <2>1, <2>4 DEF DedupInv, StampsOrdered, Ints
<1> QED BY <1>1, DedupInvHolds, PTL DEF DedupSpec, ColdestGoes

-----------------------------------------------------------------------------
(***************************************************************************)
(* Proofs about the pairing of HTTP requests and responses, for any number *)
(* of flows, table entries, requests and misses.                           *)
(***************************************************************************)

\* Of a flow that alternates and was wholly seen, at most one request is
\* unanswered, and a slot that pairs holds that one.
HttpCleanFlows ==
    \A f \in HttpFlows :
       httpClean[f] =>
          /\ Len(httpWire[f]) <= 1
          /\ \A i \in 1 .. Len(httpSlots) :
                httpSlots[i].flow = f =>
                   \/ httpSlots[i].in_flight = 0
                   \/ /\ httpSlots[i].in_flight = 1
                      /\ Len(httpWire[f]) = 1
                      /\ httpWire[f][1] = httpSlots[i].req

\* A request still to be paired was sent and given to no response, and what
\* was given was sent.
HttpUnpaired ==
    /\ \A i \in 1 .. Len(httpSlots) :
          httpSlots[i].in_flight = 1 =>
             /\ <<httpSlots[i].flow, httpSlots[i].req>> \notin httpGiven
             /\ httpSlots[i].req <= httpSent[httpSlots[i].flow]
    /\ \A f \in HttpFlows, n \in Nat :
          <<f, n>> \in httpGiven => n # NoRequest /\ n <= httpSent[f]

HttpInv ==
    /\ HttpTypeOK
    /\ httpSent \in [HttpFlows -> 0 .. HttpSends] /\ httpClock \in 0 .. HttpTicks
    /\ httpClean \in [HttpFlows -> BOOLEAN]
    /\ HttpCleanFlows /\ HttpUnpaired /\ HttpTrueAttribution

LEMMA HttpSlotFacts ==
    ASSUME HttpInv
    PROVE  /\ httpSlots \in Seq(HttpSlot) /\ Len(httpSlots) \in Nat
           /\ DOMAIN httpSlots = 1 .. Len(httpSlots)
           /\ \A i \in 1 .. Len(httpSlots) : httpSlots[i] \in HttpSlot
           /\ \A i, j \in 1 .. Len(httpSlots) :
                 httpSlots[i].flow = httpSlots[j].flow => i = j
           /\ \A f \in HttpFlows :
                 httpWire[f] \in Seq(1 .. HttpSends) /\ Len(httpWire[f]) \in Nat
           /\ \A i \in 1 .. Len(httpSlots) :
                 /\ httpSlots[i].flow \in HttpFlows
                 /\ httpSlots[i].req \in Nat
                 /\ httpSlots[i].in_flight \in {-1, 0, 1}
<1>1. /\ httpSlots \in Seq(HttpSlot) /\ Len(httpSlots) \in Nat
      /\ DOMAIN httpSlots = 1 .. Len(httpSlots)
      /\ \A i \in 1 .. Len(httpSlots) : httpSlots[i] \in HttpSlot
    BY DEF HttpInv, HttpTypeOK
<1>2. \A i \in 1 .. Len(httpSlots) :
         /\ httpSlots[i].flow \in HttpFlows
         /\ httpSlots[i].req \in Nat
         /\ httpSlots[i].in_flight \in {-1, 0, 1}
    BY <1>1, HttpAssumption DEF HttpSlot
<1>3. \A i, j \in 1 .. Len(httpSlots) :
         httpSlots[i].flow = httpSlots[j].flow => i = j
    BY <1>1 DEF HttpInv, HttpTypeOK
<1>4. \A f \in HttpFlows :
         httpWire[f] \in Seq(1 .. HttpSends) /\ Len(httpWire[f]) \in Nat
    BY DEF HttpInv, HttpTypeOK
<1>. QED  BY <1>1, <1>2, <1>3, <1>4, Zenon

LEMMA NotedFacts ==
    ASSUME HttpInv, NEW s \in HttpSlot, NEW r \in 0 .. HttpSends
    PROVE  /\ Noted(s, r) \in HttpSlot /\ Noted(s, r).flow = s.flow
           /\ s.in_flight = 0 =>
                 Noted(s, r).in_flight = 1 /\ Noted(s, r).req = r
           /\ s.in_flight # 0 => Noted(s, r).in_flight = -1
BY HttpAssumption DEF Noted, HttpSlot, HttpInv

\* What a request does to the table: the flow's slot, wherever it is now,
\* notes it, and the other slots that stay are other flows'.
LEMMA HttpNoted ==
    ASSUME HttpInv, NEW f \in HttpFlows, NEW r \in 1 .. HttpSends,
           NoteKnown(f, r) \/ NoteNew(f, r) \/ NoteEvicting(f, r)
    PROVE  /\ httpSlots' \in Seq(HttpSlot) /\ Len(httpSlots') <= HttpFlowMax
           /\ \E i \in 1 .. Len(httpSlots') :
                 /\ httpSlots'[i].flow = f
                 /\ \/ httpSlots'[i].in_flight = 1 /\ httpSlots'[i].req = r
                    \/ httpSlots'[i].in_flight = -1
                 /\ (\A j \in 1 .. Len(httpSlots) :
                        httpSlots[j].flow = f => httpSlots[j].in_flight = 0)
                       => httpSlots'[i].in_flight = 1
                 /\ \A j \in 1 .. Len(httpSlots') :
                       j # i => /\ j \in 1 .. Len(httpSlots)
                                /\ httpSlots'[j] = httpSlots[j]
                                /\ httpSlots[j].flow # f
<1>1. /\ httpSlots \in Seq(HttpSlot) /\ Len(httpSlots) \in Nat
      /\ DOMAIN httpSlots = 1 .. Len(httpSlots)
      /\ \A i \in 1 .. Len(httpSlots) : httpSlots[i] \in HttpSlot
      /\ \A i, j \in 1 .. Len(httpSlots) :
            httpSlots[i].flow = httpSlots[j].flow => i = j
      /\ Len(httpSlots) <= HttpFlowMax
    BY HttpSlotFacts DEF HttpInv, HttpTypeOK
<1>2. /\ EmptySlot(f) \in HttpSlot /\ EmptySlot(f).flow = f
      /\ EmptySlot(f).in_flight = 0
    BY HttpAssumption DEF EmptySlot, HttpSlot, NoRequest
<1> DEFINE fresh == Noted(EmptySlot(f), r)
<1>3. /\ fresh \in HttpSlot /\ fresh.flow = f
      /\ fresh.in_flight = 1 /\ fresh.req = r
    BY <1>2, NotedFacts
<1> HIDE DEF fresh
<1>4. CASE NoteKnown(f, r)
    <2>1. PICK i \in SlotsOf(f) :
             httpSlots' = [httpSlots EXCEPT ![i] = Noted(httpSlots[i], r)]
        BY <1>4, Zenon DEF NoteKnown
    <2>2. i \in 1 .. Len(httpSlots) /\ httpSlots[i].flow = f
          /\ httpSlots[i] \in HttpSlot /\ httpSlots[i].in_flight \in {-1, 0, 1}
        BY <1>1 DEF SlotsOf, HttpSlot
    <2> DEFINE n == Noted(httpSlots[i], r)
    <2>3. /\ n \in HttpSlot /\ n.flow = f
          /\ httpSlots[i].in_flight = 0 => n.in_flight = 1 /\ n.req = r
          /\ httpSlots[i].in_flight # 0 => n.in_flight = -1
        BY <2>2, NotedFacts
    <2> HIDE DEF n
    <2>4. /\ httpSlots' \in Seq(HttpSlot) /\ Len(httpSlots') = Len(httpSlots)
          /\ httpSlots'[i] = n
          /\ \A j \in 1 .. Len(httpSlots) : j # i => httpSlots'[j] = httpSlots[j]
        BY <1>1, <2>1, <2>2, <2>3 DEF n
    <2>. QED  BY <1>1, <2>2, <2>3, <2>4
<1>5. CASE NoteNew(f, r)
    <2>1. /\ httpSlots' = Append(httpSlots, fresh) /\ Len(httpSlots) < HttpFlowMax
          /\ \A j \in 1 .. Len(httpSlots) : httpSlots[j].flow # f
        BY <1>1, <1>5 DEF NoteNew, SlotsOf, fresh
    <2>2. /\ httpSlots' \in Seq(HttpSlot) /\ Len(httpSlots') = Len(httpSlots) + 1
          /\ \A j \in 1 .. Len(httpSlots) : httpSlots'[j] = httpSlots[j]
          /\ httpSlots'[Len(httpSlots) + 1] = fresh
        BY <1>1, <1>3, <2>1
    <2>. QED  BY <1>1, <1>3, <2>1, <2>2, HttpAssumption
<1>6. CASE NoteEvicting(f, r)
    <2>1. PICK i \in DOMAIN httpSlots : httpSlots' = [httpSlots EXCEPT ![i] = fresh]
        BY <1>6, Zenon DEF NoteEvicting, fresh
    <2>2. \A j \in 1 .. Len(httpSlots) : httpSlots[j].flow # f
        BY <1>1, <1>6 DEF NoteEvicting, SlotsOf
    <2>3. /\ httpSlots' \in Seq(HttpSlot) /\ Len(httpSlots') = Len(httpSlots)
          /\ httpSlots'[i] = fresh /\ i \in 1 .. Len(httpSlots)
          /\ \A j \in 1 .. Len(httpSlots) : j # i => httpSlots'[j] = httpSlots[j]
        BY <1>1, <1>3, <2>1
    <2>. QED  BY <1>1, <1>3, <2>2, <2>3
<1>. QED  BY <1>4, <1>5, <1>6

LEMMA HttpRequestKeeps ==
    ASSUME HttpInv, NEW f \in HttpFlows, HttpRequest(f) PROVE HttpInv'
<1> DEFINE r == httpSent[f] + 1
<1>1. /\ r \in 1 .. HttpSends /\ httpSent[f] \in Nat
      /\ httpSent' = [httpSent EXCEPT ![f] = r]
      /\ httpWire' = [httpWire EXCEPT ![f] = Append(@, r)]
      /\ UNCHANGED <<httpClock, httpGiven, httpLast>>
    BY HttpAssumption DEF HttpRequest, HttpInv
<1> HIDE DEF r
<1>2. /\ httpSlots \in Seq(HttpSlot) /\ Len(httpSlots) \in Nat
      /\ DOMAIN httpSlots = 1 .. Len(httpSlots)
      /\ \A i \in 1 .. Len(httpSlots) : httpSlots[i] \in HttpSlot
      /\ \A i, j \in 1 .. Len(httpSlots) :
            httpSlots[i].flow = httpSlots[j].flow => i = j
      /\ \A g \in HttpFlows :
            httpWire[g] \in Seq(1 .. HttpSends) /\ Len(httpWire[g]) \in Nat
    BY HttpSlotFacts
<1>3. /\ httpWire'[f] = Append(httpWire[f], r)
      /\ \A g \in HttpFlows \ {f} : httpWire'[g] = httpWire[g]
      /\ httpWire' \in [HttpFlows -> Seq(1 .. HttpSends)]
    <2>1. Append(httpWire[f], r) \in Seq(1 .. HttpSends)
        BY <1>1, <1>2
    <2>. QED  BY <1>1, <2>1 DEF HttpInv, HttpTypeOK
<1>4. /\ Len(httpWire'[f]) = Len(httpWire[f]) + 1
      /\ Len(httpWire[f]) = 0 => httpWire'[f][1] = r
    BY <1>1, <1>2, <1>3
<1>5. /\ httpSent' \in [HttpFlows -> 0 .. HttpSends] /\ httpSent'[f] = r
      /\ \A g \in HttpFlows \ {f} : httpSent'[g] = httpSent[g]
      /\ httpSent[f] < r /\ r \in Nat
    <2>1. httpSent[f] < r
        BY <1>1 DEF r
    <2>. QED  BY <1>1, <2>1, HttpAssumption DEF HttpInv
<1>6. HttpTrueAttribution'
    BY <1>1 DEF HttpInv, HttpTrueAttribution
<1>7. /\ <<f, r>> \notin httpGiven
      /\ \A g \in HttpFlows, n \in Nat :
            <<g, n>> \in httpGiven' => n # NoRequest /\ n <= httpSent'[g]
    <2>1. \A g \in HttpFlows, n \in Nat :
             <<g, n>> \in httpGiven => n # NoRequest /\ n <= httpSent[g]
        BY DEF HttpInv, HttpUnpaired
    <2>2. \A g \in HttpFlows : httpSent[g] \in Nat /\ httpSent[g] <= httpSent'[g]
        BY <1>1, <1>5 DEF HttpInv
    <2>3. <<f, r>> \notin httpGiven
        BY <1>1, <1>5, <2>1
    <2>. QED  BY <1>1, <1>5, <2>1, <2>2, <2>3
<1>8. CASE /\ NoteKnown(f, r) \/ NoteNew(f, r) \/ NoteEvicting(f, r)
           /\ httpClean' = [httpClean EXCEPT ![f] = @ /\ httpWire[f] = <<>>]
    <2>1. PICK i \in 1 .. Len(httpSlots') :
             /\ httpSlots'[i].flow = f
             /\ \/ httpSlots'[i].in_flight = 1 /\ httpSlots'[i].req = r
                \/ httpSlots'[i].in_flight = -1
             /\ (\A j \in 1 .. Len(httpSlots) :
                    httpSlots[j].flow = f => httpSlots[j].in_flight = 0)
                   => httpSlots'[i].in_flight = 1
             /\ \A j \in 1 .. Len(httpSlots') :
                   j # i => /\ j \in 1 .. Len(httpSlots)
                            /\ httpSlots'[j] = httpSlots[j]
                            /\ httpSlots[j].flow # f
        BY <1>1, <1>8, HttpNoted
    <2>2. /\ httpSlots' \in Seq(HttpSlot) /\ Len(httpSlots') <= HttpFlowMax
          /\ Len(httpSlots') \in Nat /\ DOMAIN httpSlots' = 1 .. Len(httpSlots')
        BY <1>1, <1>8, HttpNoted
    <2>3. HttpTypeOK'
        BY <1>2, <1>3, <2>1, <2>2 DEF HttpTypeOK
    <2>4. /\ httpClean' \in [HttpFlows -> BOOLEAN]
          /\ httpClean'[f] => httpClean[f] /\ Len(httpWire[f]) = 0
          /\ \A g \in HttpFlows \ {f} : httpClean'[g] = httpClean[g]
        <3>1. /\ httpClean \in [HttpFlows -> BOOLEAN]
              /\ \A g \in HttpFlows : httpClean[g] \in BOOLEAN
            BY DEF HttpInv
        <3>2. Len(<<>>) = 0
            OBVIOUS
        <3>3. httpClean'[f] <=> httpClean[f] /\ httpWire[f] = <<>>
            BY <1>8, <3>1, Zenon
        <3>4. /\ httpClean' \in [HttpFlows -> BOOLEAN]
              /\ \A g \in HttpFlows \ {f} : httpClean'[g] = httpClean[g]
            BY <1>8, <3>1, Zenon
        <3>. QED  BY <3>2, <3>3, <3>4, Zenon
    <2>5. HttpCleanFlows'
        <3>1. ASSUME httpClean'[f]
              PROVE  /\ Len(httpWire'[f]) = 1 /\ httpWire'[f][1] = r
                     /\ httpSlots'[i].in_flight = 1 /\ httpSlots'[i].req = r
            <4>1. \A j \in 1 .. Len(httpSlots) :
                     httpSlots[j].flow = f => httpSlots[j].in_flight = 0
                BY <2>4, <3>1 DEF HttpInv, HttpCleanFlows
            <4>. QED  BY <1>4, <2>1, <2>4, <3>1, <4>1
        <3>2. ASSUME NEW g \in HttpFlows, g # f, httpClean'[g]
              PROVE  /\ httpClean[g] /\ httpWire'[g] = httpWire[g]
                     /\ \A j \in 1 .. Len(httpSlots') :
                           httpSlots'[j].flow = g =>
                              /\ j \in 1 .. Len(httpSlots)
                              /\ httpSlots'[j] = httpSlots[j]
            BY <1>3, <2>1, <2>4, <3>2
        <3>3. \A j \in 1 .. Len(httpSlots') : httpSlots'[j].flow = f => j = i
            BY <2>1
        <3>4. ASSUME NEW g \in HttpFlows, httpClean'[g]
              PROVE  /\ Len(httpWire'[g]) <= 1
                     /\ \A j \in 1 .. Len(httpSlots') :
                           httpSlots'[j].flow = g =>
                              \/ httpSlots'[j].in_flight = 0
                              \/ /\ httpSlots'[j].in_flight = 1
                                 /\ Len(httpWire'[g]) = 1
                                 /\ httpWire'[g][1] = httpSlots'[j].req
            <4>1. CASE g = f
                <5>1. httpClean'[f]
                    BY <3>4, <4>1, Zenon
                <5>2. /\ Len(httpWire'[f]) = 1 /\ httpWire'[f][1] = r
                      /\ httpSlots'[i].in_flight = 1 /\ httpSlots'[i].req = r
                    BY <3>1, <5>1, Zenon
                <5>. QED  BY <3>3, <4>1, <5>2
            <4>2. CASE g # f
                <5>1. /\ httpClean[g] /\ httpWire'[g] = httpWire[g]
                      /\ \A j \in 1 .. Len(httpSlots') :
                            httpSlots'[j].flow = g =>
                               /\ j \in 1 .. Len(httpSlots)
                               /\ httpSlots'[j] = httpSlots[j]
                    BY <3>2, <3>4, <4>2
                <5>2. /\ Len(httpWire[g]) <= 1
                      /\ \A j \in 1 .. Len(httpSlots) :
                            httpSlots[j].flow = g =>
                               \/ httpSlots[j].in_flight = 0
                               \/ /\ httpSlots[j].in_flight = 1
                                  /\ Len(httpWire[g]) = 1
                                  /\ httpWire[g][1] = httpSlots[j].req
                    BY <5>1 DEF HttpInv, HttpCleanFlows
                <5>. QED  BY <5>1, <5>2, Zenon
            <4>. QED  BY <4>1, <4>2
        <3>. QED  BY <3>4 DEF HttpCleanFlows
    <2>6. HttpUnpaired'
        <3>1. ASSUME NEW j \in 1 .. Len(httpSlots'), httpSlots'[j].in_flight = 1
              PROVE  /\ <<httpSlots'[j].flow, httpSlots'[j].req>> \notin httpGiven
                     /\ httpSlots'[j].req <= httpSent'[httpSlots'[j].flow]
            <4>1. CASE j = i
                BY <1>5, <1>7, <2>1, <3>1, <4>1
            <4>2. CASE j # i
                <5>1. /\ j \in 1 .. Len(httpSlots) /\ httpSlots'[j] = httpSlots[j]
                      /\ httpSlots[j].flow \in HttpFlows \ {f}
                    BY <2>1, <4>2, HttpSlotFacts
                <5>. QED  BY <1>5, <3>1, <5>1 DEF HttpInv, HttpUnpaired
            <4>. QED  BY <4>1, <4>2
        <3>. QED  BY <1>1, <1>7, <3>1 DEF HttpUnpaired
    <2>. QED  BY <1>1, <1>5, <1>6, <2>3, <2>4, <2>5, <2>6 DEF HttpInv
<1>9. CASE httpClean' = [httpClean EXCEPT ![f] = FALSE] /\ UNCHANGED httpSlots
    <2>1. HttpTypeOK'
        BY <1>3, <1>9 DEF HttpInv, HttpTypeOK
    <2>2. /\ httpClean' \in [HttpFlows -> BOOLEAN] /\ ~ httpClean'[f]
          /\ \A g \in HttpFlows \ {f} : httpClean'[g] = httpClean[g]
        BY <1>9 DEF HttpInv
    <2>3. HttpCleanFlows'
        BY <1>3, <1>9, <2>2 DEF HttpInv, HttpCleanFlows
    <2>4. HttpUnpaired'
        <3>1. ASSUME NEW j \in 1 .. Len(httpSlots), httpSlots[j].in_flight = 1
              PROVE  /\ <<httpSlots[j].flow, httpSlots[j].req>> \notin httpGiven
                     /\ httpSlots[j].req <= httpSent'[httpSlots[j].flow]
            <4>1. /\ httpSlots[j].flow \in HttpFlows /\ httpSlots[j].req \in Nat
                  /\ <<httpSlots[j].flow, httpSlots[j].req>> \notin httpGiven
                  /\ httpSlots[j].req <= httpSent[httpSlots[j].flow]
                BY <3>1, HttpSlotFacts DEF HttpInv, HttpUnpaired
            <4>. QED  BY <1>1, <1>5, <4>1
        <3>. QED  BY <1>1, <1>7, <1>9, <3>1 DEF HttpUnpaired
    <2>. QED  BY <1>1, <1>5, <1>6, <2>1, <2>2, <2>3, <2>4 DEF HttpInv
<1>. QED  BY <1>8, <1>9 DEF HttpRequest, r

\* The oldest request of a flow leaves the wire.
LEMMA HttpTail ==
    ASSUME NEW S, NEW s \in Seq(S), s # <<>>
    PROVE  /\ Tail(s) \in Seq(S) /\ Len(s) \in Nat \ {0}
           /\ Len(Tail(s)) = Len(s) - 1
OBVIOUS

LEMMA HttpTailFacts ==
    ASSUME HttpInv, NEW f \in HttpFlows, httpWire[f] # <<>>,
           httpWire' = [httpWire EXCEPT ![f] = Tail(@)]
    PROVE  /\ httpWire' \in [HttpFlows -> Seq(1 .. HttpSends)]
           /\ Len(httpWire'[f]) = Len(httpWire[f]) - 1
           /\ Len(httpWire[f]) \in Nat \ {0}
           /\ \A g \in HttpFlows \ {f} : httpWire'[g] = httpWire[g]
<1>1. httpWire[f] \in Seq(1 .. HttpSends)
    BY HttpSlotFacts
<1>2. /\ Tail(httpWire[f]) \in Seq(1 .. HttpSends)
      /\ Len(Tail(httpWire[f])) = Len(httpWire[f]) - 1
      /\ Len(httpWire[f]) \in Nat \ {0}
    BY <1>1, HttpTail
<1>. QED  BY <1>2 DEF HttpInv, HttpTypeOK

LEMMA HttpAttribution ==
    ASSUME HttpInv, NEW f \in HttpFlows
    PROVE  /\ Attribution(f) \in Nat
           /\ Attribution(f) # NoRequest =>
                 \E i \in 1 .. Len(httpSlots) :
                    /\ httpSlots[i].flow = f /\ httpSlots[i].in_flight = 1
                    /\ httpSlots[i].req = Attribution(f)
<1>1. /\ DOMAIN httpSlots = 1 .. Len(httpSlots)
      /\ \A i \in 1 .. Len(httpSlots) : httpSlots[i] \in HttpSlot
      /\ \A i, j \in 1 .. Len(httpSlots) :
            httpSlots[i].flow = httpSlots[j].flow => i = j
    BY HttpSlotFacts
<1>2. CASE \E i \in SlotsOf(f) : httpSlots[i].in_flight = 1
    <2>1. PICK i \in SlotsOf(f) : httpSlots[i].in_flight = 1
        BY <1>2
    <2>2. i \in 1 .. Len(httpSlots) /\ httpSlots[i].flow = f /\ SlotsOf(f) = {i}
        BY <1>1 DEF SlotsOf
    <2>3. Attribution(f) = httpSlots[i].req
        BY <1>2, <2>2 DEF Attribution
    <2>. QED  BY <1>1, <2>1, <2>2, <2>3, HttpAssumption DEF HttpSlot
<1>3. CASE ~ \E i \in SlotsOf(f) : httpSlots[i].in_flight = 1
    BY <1>3 DEF Attribution, NoRequest
<1>. QED  BY <1>2, <1>3

LEMMA HttpResponseKeeps ==
    ASSUME HttpInv, NEW f \in HttpFlows, HttpResponse(f) PROVE HttpInv'
<1> DEFINE got == Attribution(f)
           want == Head(httpWire[f])
<1>1. /\ httpWire[f] # <<>> /\ httpWire' = [httpWire EXCEPT ![f] = Tail(@)]
      /\ httpSlots' = Answered(f)
      /\ httpLast' = [want |-> want, got |-> got, clean |-> httpClean[f],
                      again |-> <<f, got>> \in httpGiven]
      /\ httpGiven' = httpGiven \cup ({<<f, got>>} \ {<<f, NoRequest>>})
      /\ httpClean' = [httpClean EXCEPT ![f] = @ \/ Len(httpWire[f]) = 1]
      /\ UNCHANGED <<httpClock, httpSent>>
    BY DEF HttpResponse
<1>2. /\ httpSlots \in Seq(HttpSlot) /\ Len(httpSlots) \in Nat
      /\ DOMAIN httpSlots = 1 .. Len(httpSlots)
      /\ \A i \in 1 .. Len(httpSlots) : httpSlots[i] \in HttpSlot
      /\ \A i, j \in 1 .. Len(httpSlots) :
            httpSlots[i].flow = httpSlots[j].flow => i = j
    BY HttpSlotFacts
<1>3. /\ httpWire' \in [HttpFlows -> Seq(1 .. HttpSends)]
      /\ Len(httpWire'[f]) = Len(httpWire[f]) - 1
      /\ Len(httpWire[f]) \in Nat \ {0}
      /\ \A g \in HttpFlows \ {f} : httpWire'[g] = httpWire[g]
    BY <1>1, HttpTailFacts
<1>4. /\ got \in Nat
      /\ got # NoRequest =>
            \E i \in 1 .. Len(httpSlots) :
               /\ httpSlots[i].flow = f /\ httpSlots[i].in_flight = 1
               /\ httpSlots[i].req = got
    BY HttpAttribution
<1>5. want = httpWire[f][1]
    BY <1>1, HttpSlotFacts
<1> HIDE DEF got, want
<1>6. /\ httpSlots' \in Seq(HttpSlot) /\ Len(httpSlots') = Len(httpSlots)
      /\ DOMAIN httpSlots' = 1 .. Len(httpSlots)
      /\ \A i \in 1 .. Len(httpSlots) :
            /\ httpSlots'[i].flow = httpSlots[i].flow
            /\ httpSlots'[i].req = httpSlots[i].req
            /\ httpSlots'[i].in_flight =
                  IF httpSlots[i].flow = f THEN 0 ELSE httpSlots[i].in_flight
    <2>1. /\ httpSlots' = [i \in 1 .. Len(httpSlots) |-> httpSlots'[i]]
          /\ \A i \in 1 .. Len(httpSlots) :
                /\ httpSlots'[i] \in HttpSlot
                /\ httpSlots'[i].flow = httpSlots[i].flow
                /\ httpSlots'[i].req = httpSlots[i].req
                /\ httpSlots'[i].in_flight =
                      IF httpSlots[i].flow = f THEN 0 ELSE httpSlots[i].in_flight
        BY <1>1, <1>2 DEF Answered, SlotsOf, HttpSlot
    <2>. QED  BY <1>2, <2>1
<1>7. HttpTypeOK'
    BY <1>2, <1>3, <1>6 DEF HttpInv, HttpTypeOK
<1>8. /\ httpClean' \in [HttpFlows -> BOOLEAN]
      /\ httpClean'[f] => httpClean[f] \/ Len(httpWire[f]) = 1
      /\ \A g \in HttpFlows \ {f} : httpClean'[g] = httpClean[g]
    BY <1>1 DEF HttpInv
<1>9. HttpCleanFlows'
    <2>1. httpClean'[f] => Len(httpWire'[f]) <= 1
        <3>1. httpClean[f] => Len(httpWire[f]) <= 1
            BY DEF HttpInv, HttpCleanFlows
        <3>2. Len(httpWire[f]) = 1 => Len(httpWire[f]) <= 1
            OBVIOUS
        <3>3. httpClean'[f] => Len(httpWire[f]) <= 1
            BY <1>8, <3>1, <3>2, Zenon
        <3>4. Len(httpWire[f]) <= 1 => Len(httpWire'[f]) <= 1
            BY <1>3
        <3>. QED  BY <3>3, <3>4, Zenon
    <2>2. ASSUME NEW g \in HttpFlows, g # f, httpClean'[g]
          PROVE  httpClean[g] /\ httpWire'[g] = httpWire[g]
        BY <1>3, <1>8, <2>2
    <2>3. ASSUME NEW i \in 1 .. Len(httpSlots'), httpSlots'[i].flow # f
          PROVE  /\ i \in 1 .. Len(httpSlots)
                 /\ httpSlots'[i].flow = httpSlots[i].flow
                 /\ httpSlots'[i].req = httpSlots[i].req
                 /\ httpSlots'[i].in_flight = httpSlots[i].in_flight
        BY <1>6, <2>3
    <2>4. \A i \in 1 .. Len(httpSlots') :
             httpSlots'[i].flow = f => httpSlots'[i].in_flight = 0
        BY <1>6
    <2>5. ASSUME NEW g \in HttpFlows, httpClean'[g]
          PROVE  /\ Len(httpWire'[g]) <= 1
                 /\ \A i \in 1 .. Len(httpSlots') :
                       httpSlots'[i].flow = g =>
                          \/ httpSlots'[i].in_flight = 0
                          \/ /\ httpSlots'[i].in_flight = 1
                             /\ Len(httpWire'[g]) = 1
                             /\ httpWire'[g][1] = httpSlots'[i].req
        <3>1. CASE g = f
            BY <2>1, <2>4, <2>5, <3>1
        <3>2. CASE g # f
            BY <2>2, <2>3, <2>5, <3>2 DEF HttpInv, HttpCleanFlows
        <3>. QED  BY <3>1, <3>2
    <2>. QED  BY <2>5 DEF HttpCleanFlows
<1>10. got # NoRequest => <<f, got>> \notin httpGiven /\ got <= httpSent[f]
    BY <1>4 DEF HttpInv, HttpUnpaired
<1>11. HttpUnpaired'
    <2>1. ASSUME NEW i \in 1 .. Len(httpSlots'), httpSlots'[i].in_flight = 1
          PROVE  /\ <<httpSlots'[i].flow, httpSlots'[i].req>> \notin httpGiven'
                 /\ httpSlots'[i].req <= httpSent'[httpSlots'[i].flow]
        <3>1. /\ i \in 1 .. Len(httpSlots) /\ httpSlots[i].flow # f
              /\ httpSlots'[i].flow = httpSlots[i].flow
              /\ httpSlots'[i].req = httpSlots[i].req
              /\ httpSlots[i].in_flight = 1
            BY <1>6, <2>1
        <3>. QED  BY <1>1, <3>1 DEF HttpInv, HttpUnpaired
    <2>2. ASSUME NEW g \in HttpFlows, NEW n \in Nat, <<g, n>> \in httpGiven'
          PROVE  n # NoRequest /\ n <= httpSent'[g]
        <3>1. CASE <<g, n>> \in httpGiven
            BY <1>1, <3>1 DEF HttpInv, HttpUnpaired
        <3>2. CASE <<g, n>> \notin httpGiven
            BY <1>1, <1>10, <2>2, <3>2
        <3>. QED  BY <3>1, <3>2
    <2>. QED  BY <2>1, <2>2 DEF HttpUnpaired
<1>12. HttpTrueAttribution'
    <2>1. <<f, NoRequest>> \notin httpGiven
        BY DEF HttpInv, HttpUnpaired, NoRequest
    <2>2. httpClean[f] => got \in {want, NoRequest}
        BY <1>4, <1>5 DEF HttpInv, HttpCleanFlows
    <2>. QED  BY <1>1, <1>10, <2>1, <2>2 DEF HttpTrueAttribution
<1>. QED  BY <1>1, <1>7, <1>8, <1>9, <1>11, <1>12 DEF HttpInv

LEMMA HttpOtherStepsKeep ==
    ASSUME HttpInv,
           \/ \E f \in HttpFlows : HttpMissResponse(f)
           \/ HttpClear \/ HttpTick \/ UNCHANGED httpVars
    PROVE  HttpInv'
<1>1. ASSUME NEW f \in HttpFlows, HttpMissResponse(f) PROVE HttpInv'
    <2>1. /\ httpWire[f] # <<>> /\ httpWire' = [httpWire EXCEPT ![f] = Tail(@)]
          /\ httpClean' = [httpClean EXCEPT ![f] = FALSE]
          /\ UNCHANGED <<httpSlots, httpClock, httpSent, httpGiven, httpLast>>
        BY <1>1 DEF HttpMissResponse
    <2>2. /\ httpWire' \in [HttpFlows -> Seq(1 .. HttpSends)]
          /\ \A g \in HttpFlows \ {f} : httpWire'[g] = httpWire[g]
        BY <2>1, HttpTailFacts
    <2>3. /\ httpClean' \in [HttpFlows -> BOOLEAN] /\ ~ httpClean'[f]
          /\ \A g \in HttpFlows \ {f} : httpClean'[g] = httpClean[g]
        BY <2>1 DEF HttpInv
    <2>4. HttpTypeOK' /\ HttpUnpaired' /\ HttpTrueAttribution'
        BY <2>1, <2>2 DEF HttpInv, HttpTypeOK, HttpUnpaired, HttpTrueAttribution
    <2>5. HttpCleanFlows'
        BY <2>1, <2>2, <2>3 DEF HttpInv, HttpCleanFlows
    <2>. QED  BY <2>1, <2>3, <2>4, <2>5 DEF HttpInv
<1>2. CASE HttpClear
    <2>1. /\ httpSlots' = <<>>
          /\ httpClean' = [f \in HttpFlows |-> httpClean[f] /\ httpWire[f] = <<>>]
          /\ UNCHANGED <<httpClock, httpSent, httpWire, httpGiven, httpLast>>
        BY <1>2 DEF HttpClear
    <2>2. httpSlots' \in Seq(HttpSlot) /\ Len(httpSlots') = 0 /\ DOMAIN httpSlots' = {}
        BY <2>1
    <2>3. HttpTypeOK'
        BY <2>1, <2>2, HttpAssumption DEF HttpInv, HttpTypeOK
    <2>4. /\ httpClean' \in [HttpFlows -> BOOLEAN]
          /\ \A f \in HttpFlows : httpClean'[f] => httpClean[f]
        BY <2>1 DEF HttpInv
    <2>5. HttpUnpaired' /\ HttpTrueAttribution'
        BY <2>1, <2>2 DEF HttpInv, HttpUnpaired, HttpTrueAttribution
    <2>6. HttpCleanFlows'
        BY <2>1, <2>2, <2>4 DEF HttpInv, HttpCleanFlows
    <2>. QED  BY <2>1, <2>3, <2>4, <2>5, <2>6 DEF HttpInv
<1>3. CASE HttpTick
    <2>1. httpClock' \in 0 .. HttpTicks
        BY <1>3, HttpAssumption DEF HttpInv, HttpTick
    <2>. QED  BY <1>3, <2>1 DEF HttpInv, HttpTypeOK, HttpCleanFlows, HttpUnpaired,
             HttpTrueAttribution, HttpTick
<1>4. CASE UNCHANGED httpVars
    BY <1>4 DEF HttpInv, HttpTypeOK, HttpCleanFlows, HttpUnpaired,
       HttpTrueAttribution, httpVars
<1>. QED  BY <1>1, <1>2, <1>3, <1>4

LEMMA HttpInitially == HttpInit => HttpInv
<1> SUFFICES ASSUME HttpInit PROVE HttpInv
    OBVIOUS
<1>1. httpSlots \in Seq(HttpSlot) /\ Len(httpSlots) = 0 /\ DOMAIN httpSlots = {}
    BY DEF HttpInit
<1>2. httpWire \in [HttpFlows -> Seq(1 .. HttpSends)]
      /\ \A f \in HttpFlows : Len(httpWire[f]) = 0
    <2>1. <<>> \in Seq(1 .. HttpSends) /\ Len(<<>>) = 0
        OBVIOUS
    <2>. QED  BY <2>1 DEF HttpInit
<1>3. HttpTypeOK
    BY <1>1, <1>2, HttpAssumption DEF HttpTypeOK
<1>4. /\ httpSent \in [HttpFlows -> 0 .. HttpSends] /\ httpClock \in 0 .. HttpTicks
      /\ httpClean \in [HttpFlows -> BOOLEAN]
    BY HttpAssumption DEF HttpInit
<1>5. HttpCleanFlows /\ HttpUnpaired /\ HttpTrueAttribution
    BY <1>1, <1>2 DEF HttpInit, HttpCleanFlows, HttpUnpaired, HttpTrueAttribution
<1>. QED  BY <1>3, <1>4, <1>5 DEF HttpInv

LEMMA HttpInvHolds == HttpSpec => []HttpInv
<1>1. HttpInv /\ [HttpNext]_httpVars => HttpInv'
    BY HttpRequestKeeps, HttpResponseKeeps, HttpOtherStepsKeep DEF HttpNext
<1>. QED  BY <1>1, HttpInitially, PTL DEF HttpSpec

\* A response on a connection that alternates and was wholly seen is filed
\* under its own request or under none, and no request answers twice, with any
\* number of flows competing for the table: a pipelined flow stays unpairable
\* until its answer, and a clear or an eviction forgets the request with its
\* slot (flow_note_request() and http_log_pair_response() in src/http_log.c).
THEOREM AttributionIsTrue == HttpSpec => []HttpTrueAttribution
<1>1. HttpInv => HttpTrueAttribution
    BY DEF HttpInv
<1>. QED  BY <1>1, HttpInvHolds, PTL

-----------------------------------------------------------------------------
(***************************************************************************)
(* Proofs about the incident rows of SQLite: what was announced reaches    *)
(* the file or is counted as dropped, a key keeps a bounded number of      *)
(* rows, and a row's lasting columns stand, for any keys, capacities and   *)
(* number of runs of the program.                                          *)
(*                                                                         *)
(* A flush folds the queue into the table one record at a time, so each    *)
(* fact about it is first one about a single upsert and is then carried    *)
(* along the fold by induction on the length of what was written.          *)
(***************************************************************************)

LEMMA LeastNat ==
    ASSUME NEW T \in SUBSET Nat, T # {}
    PROVE  \E m \in T : \A n \in T : m <= n
<1> DEFINE R == OpToRel(<, Nat)
<1>1. IsWellFoundedOn(R, Nat)
  BY NatLessThanWellFounded
<1>2. \A x, y \in Nat : y < x => <<y, x>> \in R
  BY DEF OpToRel
<1> HIDE DEF R
<1>3. PICK x \in T : \A y \in T : ~ (<<y, x>> \in R)
  BY <1>1, WFMin
<1>4. \A y \in T : x \in Nat /\ y \in Nat /\ ~ (y < x)
  BY <1>2, <1>3
<1> QED BY <1>4

LEMMA Induction ==
    ASSUME NEW T, 0 \in T, \A n \in Nat : n \in T => n + 1 \in T
    PROVE  \A n \in Nat : n \in T
<1> SUFFICES ASSUME NEW n \in Nat, n \notin T PROVE FALSE
  OBVIOUS
<1>1. PICK m \in Nat \ T : \A k \in Nat \ T : m <= k
  BY LeastNat
<1>2. m # 0 /\ m - 1 \in Nat /\ m - 1 \in T
  BY <1>1
<1> QED BY <1>1, <1>2

-----------------------------------------------------------------------------
(* Records and tables *)

\* A table's shape: rows of incidents, at most one of each.
Table(r) == r \subseteq IncRecord /\ \A x, y \in r : x.id = y.id => x = y

Later(y, x) == \/ y.first > x.first
               \/ y.first = x.first /\ y.id[2] > x.id[2]

LEMMA IncRecordFields ==
    ASSUME NEW x \in IncRecord
    PROVE  /\ x.id \in Incidents /\ x.id[1] \in IncKeys
           /\ x.id[2] \in 1 .. IncMax /\ x.id[2] \in Int
           /\ x.first \in 0 .. IncTicks /\ x.first \in Int
           /\ x.sev \in IncSevs /\ x.sev \in Int
           /\ x.peak \in IncSevs /\ x.peak \in Int
           /\ x.closed \in BOOLEAN
<1>1. /\ x.id \in Incidents /\ x.first \in 0 .. IncTicks
      /\ x.sev \in IncSevs /\ x.peak \in IncSevs /\ x.closed \in BOOLEAN
  BY DEF IncRecord
<1>2. x.id[1] \in IncKeys /\ x.id[2] \in 1 .. IncMax
  BY <1>1 DEF Incidents
<1>3. IncSevs \subseteq Int /\ 1 .. IncMax \subseteq Int /\ 0 .. IncTicks \subseteq Int
  BY IncAssumption DEF IncAssumption
<1> QED BY <1>1, <1>2, <1>3, Zenon

LEMMA SameIncident ==
    ASSUME NEW i \in Incidents, NEW j \in Incidents, i[1] = j[1], i[2] = j[2]
    PROVE  i = j
BY DEF Incidents

LEMMA MergedFields ==
    ASSUME NEW x \in IncRecord, NEW e \in IncRecord
    PROVE  /\ Merged(x, e) \in IncRecord
           /\ Merged(x, e).id = e.id /\ Merged(x, e).first = e.first
           /\ Merged(x, e).sev = e.sev
           /\ Merged(x, e).peak = Worse(e.peak, x.peak)
           /\ Merged(x, e).peak \in {e.peak, x.peak}
           /\ Merged(x, e).peak >= e.peak /\ Merged(x, e).peak >= x.peak
           /\ Merged(x, e).closed <=> (x.closed \/ e.closed)
<1>1. Worse(e.peak, x.peak) \in IncSevs
  BY DEF IncRecord, Worse
<1>2. /\ Worse(e.peak, x.peak) \in {e.peak, x.peak}
      /\ Worse(e.peak, x.peak) >= e.peak /\ Worse(e.peak, x.peak) >= x.peak
  BY IncRecordFields DEF Worse
<1>3. /\ Merged(x, e) \in IncRecord
      /\ Merged(x, e).id = e.id /\ Merged(x, e).first = e.first
      /\ Merged(x, e).sev = e.sev
      /\ Merged(x, e).peak = Worse(e.peak, x.peak)
      /\ Merged(x, e).closed = (e.closed \/ x.closed)
  BY <1>1 DEF IncRecord, Merged
<1> QED BY <1>2, <1>3

LEMMA RowFields ==
    ASSUME NEW r, Table(r), NEW e \in IncRecord
    PROVE  /\ Row(r, e) \in IncRecord
           /\ Row(r, e).id = e.id /\ Row(r, e).first = e.first
           /\ Row(r, e).sev = e.sev
           /\ \A x \in r : x.id = e.id => Row(r, e) = Merged(x, e)
           /\ e.id \notin Ids(r) => Row(r, e) = e
<1>1. CASE e.id \notin Ids(r)
  BY <1>1, IncRecordFields DEF Row, Ids
<1>2. CASE e.id \in Ids(r)
  <2>1. PICK x \in r : x.id = e.id
    BY <1>2 DEF Ids
  <2>2. (CHOOSE y \in r : y.id = e.id) = x
    BY <2>1 DEF Table
  <2>3. Row(r, e) = Merged(x, e) /\ x \in IncRecord
    BY <1>2, <2>2 DEF Row, Table
  <2>4. \A y \in r : y.id = e.id => y = x
    BY <2>1 DEF Table
  <2> QED BY <1>2, <2>3, <2>4, MergedFields
<1> QED BY <1>1, <1>2

LEMMA UpsertTable ==
    ASSUME NEW r, Table(r), NEW e \in IncRecord
    PROVE  /\ Table(Upsert(r, e))
           /\ Ids(Upsert(r, e)) = Ids(r) \cup {e.id}
           /\ Row(r, e) \in Upsert(r, e)
           /\ \A z \in Upsert(r, e) : z = Row(r, e) \/ (z \in r /\ z.id # e.id)
           /\ \A z \in r : z.id # e.id => z \in Upsert(r, e)
<1>1. /\ Row(r, e) \in Upsert(r, e)
      /\ \A z \in Upsert(r, e) : z = Row(r, e) \/ (z \in r /\ z.id # e.id)
      /\ \A z \in r : z.id # e.id => z \in Upsert(r, e)
  BY DEF Upsert
<1>2. Row(r, e) \in IncRecord /\ Row(r, e).id = e.id
  BY RowFields
<1>3. Table(Upsert(r, e))
  BY <1>1, <1>2 DEF Table
<1>4. Ids(Upsert(r, e)) \subseteq Ids(r) \cup {e.id}
  BY <1>1, <1>2 DEF Ids
<1>5. Ids(r) \cup {e.id} \subseteq Ids(Upsert(r, e))
  BY <1>1, <1>2 DEF Ids
<1> QED BY <1>1, <1>3, <1>4, <1>5

\* The rows of one key are finitely many: each has its own opening number.
LEMMA RowsOfFinite ==
    ASSUME NEW r, Table(r), NEW k
    PROVE  /\ IsFiniteSet(RowsOf(r, k)) /\ Cardinality(RowsOf(r, k)) \in Nat
           /\ \A S \in SUBSET RowsOf(r, k) :
                 /\ IsFiniteSet(S) /\ Cardinality(S) \in Nat
                 /\ Cardinality(S) <= Cardinality(RowsOf(r, k))
<1> DEFINE S == RowsOf(r, k)
           f == [x \in S |-> x.id[2]]
<1>1. S \subseteq r /\ \A x \in S : x \in IncRecord /\ x.id[1] = k
  BY DEF RowsOf, Table
<1>2. f \in [S -> 1 .. IncMax]
  BY <1>1, IncRecordFields
<1>3. \A x, y \in S : f[x] = f[y] => x = y
  <2> SUFFICES ASSUME NEW x \in S, NEW y \in S, x.id[2] = y.id[2] PROVE x = y
    OBVIOUS
  <2>1. /\ x.id \in Incidents /\ y.id \in Incidents
        /\ x.id[1] = y.id[1] /\ x.id[2] = y.id[2]
    BY <1>1, IncRecordFields
  <2>2. x.id = y.id
    BY <2>1, SameIncident
  <2> QED BY <1>1, <2>2 DEF Table
<1>4. f \in Injection(S, 1 .. IncMax)
  BY <1>2, <1>3 DEF Injection, IsInjective
<1>5. IsFiniteSet(1 .. IncMax)
  BY FS_Interval, IncAssumption DEF IncAssumption
<1>6. IsFiniteSet(S)
  <2> HIDE DEF f, S
  <2> QED BY <1>4, <1>5, FS_Injection
<1>7. \A U \in SUBSET S : IsFiniteSet(U) /\ Cardinality(U) <= Cardinality(S)
  BY <1>6, FS_Subset
<1> QED BY <1>6, <1>7, FS_CardinalityType

\* A key's rows never get fewer by a write, and another key's stay.
LEMMA UpsertRows ==
    ASSUME NEW r, Table(r), NEW e \in IncRecord
    PROVE  /\ \A k : k # e.id[1] => RowsOf(Upsert(r, e), k) = RowsOf(r, k)
           /\ Cardinality(RowsOf(Upsert(r, e), e.id[1])) =
                IF e.id \in Ids(r) THEN Cardinality(RowsOf(r, e.id[1]))
                ELSE Cardinality(RowsOf(r, e.id[1])) + 1
<1> DEFINE u == Upsert(r, e)
           k == e.id[1]
           S == RowsOf(r, k)
           O == {x \in S : x.id # e.id}
           y == Row(r, e)
<1>1. y \in IncRecord /\ y.id = e.id
  BY RowFields
<1>2. \A j : j # k => RowsOf(u, j) = RowsOf(r, j)
  <2> SUFFICES ASSUME NEW j, j # k PROVE RowsOf(u, j) = RowsOf(r, j)
    OBVIOUS
  <2>1. \A z \in RowsOf(u, j) : z \in RowsOf(r, j)
    BY <1>1, UpsertTable DEF RowsOf
  <2>2. \A z \in RowsOf(r, j) : z \in RowsOf(u, j)
    BY UpsertTable DEF RowsOf
  <2> QED BY <2>1, <2>2
<1>3. RowsOf(u, k) = O \cup {y}
  <2>1. \A z \in RowsOf(u, k) : z \in O \cup {y}
    BY UpsertTable DEF RowsOf
  <2>2. \A z \in O \cup {y} : z \in RowsOf(u, k)
    BY <1>1, UpsertTable DEF RowsOf
  <2> QED BY <2>1, <2>2
<1>4. IsFiniteSet(S) /\ Cardinality(S) \in Nat /\ IsFiniteSet(O)
  BY RowsOfFinite
<1>5. y \notin O
  BY <1>1
<1>6. Cardinality(O \cup {y}) = Cardinality(O) + 1
  <2> HIDE DEF O, y
  <2> QED BY <1>4, <1>5, FS_AddElement
<1>7. CASE e.id \notin Ids(r)
  <2>1. O = S
    BY <1>7 DEF Ids, RowsOf
  <2> QED BY <1>2, <1>3, <1>6, <1>7, <2>1
<1>8. CASE e.id \in Ids(r)
  <2>1. PICK x \in r : x.id = e.id
    BY <1>8 DEF Ids
  <2>2. x \in S /\ O = S \ {x}
    BY <2>1 DEF RowsOf, Table
  <2>3. Cardinality(O) = Cardinality(S) - 1
    BY <1>4, <2>2, FS_RemoveElement
  <2>4. Cardinality(RowsOf(u, k)) = Cardinality(S)
    BY <1>3, <1>4, <1>6, <2>3
  <2> QED BY <1>2, <1>8, <2>4
<1> QED BY <1>7, <1>8

-----------------------------------------------------------------------------
(* What the per-key bound takes, and what it leaves *)

LEMMA LaterOrders ==
    ASSUME NEW r, Table(r)
    PROVE  /\ \A x \in r : ~ Later(x, x)
           /\ \A x, y \in r : x.id[1] = y.id[1] => x = y \/ Later(x, y) \/ Later(y, x)
           /\ \A x, y, z \in r : Later(x, y) /\ Later(y, z) => Later(x, z)
           /\ \A x, y \in r : Later(y, x) => y.first >= x.first
<1>1. \A x \in r : x \in IncRecord /\ x.first \in Int /\ x.id[2] \in Int /\ x.id \in Incidents
  BY IncRecordFields DEF Table
<1>2. \A x, y \in r : x.id[1] = y.id[1] /\ x.id[2] = y.id[2] => x = y
  BY <1>1, SameIncident DEF Table
<1> QED BY <1>1, <1>2 DEF Later

\* A row has more rows newer than it than any newer row has.
LEMMA NewerGrows ==
    ASSUME NEW r, Table(r), NEW x \in r, NEW y \in r, x.id[1] = y.id[1], Later(x, y)
    PROVE  Cardinality(Newer(r, y)) > Cardinality(Newer(r, x))
<1>1. /\ Newer(r, x) = {z \in RowsOf(r, x.id[1]) : Later(z, x)}
      /\ Newer(r, y) = {z \in RowsOf(r, x.id[1]) : Later(z, y)}
  BY DEF Newer, Later
<1>2. /\ Newer(r, x) \subseteq RowsOf(r, x.id[1])
      /\ Newer(r, y) \subseteq RowsOf(r, x.id[1])
      /\ RowsOf(r, x.id[1]) \subseteq r
  BY <1>1 DEF RowsOf
<1>3. /\ IsFiniteSet(Newer(r, x)) /\ IsFiniteSet(Newer(r, y))
      /\ Cardinality(Newer(r, x)) \in Nat /\ Cardinality(Newer(r, y)) \in Nat
  BY <1>2, RowsOfFinite
<1>4. x \notin Newer(r, x) /\ x \in Newer(r, y)
  BY <1>1, LaterOrders DEF RowsOf
<1>5. Newer(r, x) \subseteq Newer(r, y)
  BY <1>1, <1>2, LaterOrders
<1>6. Cardinality(Newer(r, x)) <= Cardinality(Newer(r, y))
      /\ (Cardinality(Newer(r, y)) = Cardinality(Newer(r, x)) => Newer(r, y) = Newer(r, x))
  BY <1>3, <1>5, FS_Subset
<1> QED BY <1>3, <1>4, <1>6

LEMMA NewerCounts ==
    ASSUME NEW r, Table(r), NEW x \in r
    PROVE  /\ Newer(r, x) = {z \in RowsOf(r, x.id[1]) : Later(z, x)}
           /\ IsFiniteSet(Newer(r, x)) /\ Cardinality(Newer(r, x)) \in Nat
<1>1. Newer(r, x) = {z \in RowsOf(r, x.id[1]) : Later(z, x)}
  BY DEF Newer, Later
<1> QED BY <1>1, RowsOfFinite

LEMMA TrimKeeps ==
    ASSUME NEW r, Table(r), NEW k
    PROVE  /\ Trim(r, k) \subseteq r /\ Table(Trim(r, k))
           /\ \A x \in r : x.id[1] # k => x \in Trim(r, k)
           /\ \A j : j # k => RowsOf(Trim(r, k), j) = RowsOf(r, j)
           /\ \A x \in r : x.id[1] = k =>
                 (x \in Trim(r, k) <=> Cardinality(Newer(r, x)) < IncPerKey)
<1>1. Beyond(r, k) = {x \in RowsOf(r, k) : Cardinality(Newer(r, x)) >= IncPerKey}
  BY DEF Beyond
<1>2. IncPerKey \in Nat
  BY IncAssumption DEF IncAssumption
<1>3. Trim(r, k) \subseteq r /\ Table(Trim(r, k))
  BY DEF Trim, Table
<1>4. \A x \in r : x.id[1] # k => x \in Trim(r, k)
  BY <1>1 DEF Trim, RowsOf
<1>5. \A x \in r : x.id[1] = k =>
         (x \in Trim(r, k) <=> Cardinality(Newer(r, x)) < IncPerKey)
  BY <1>1, <1>2, NewerCounts DEF Trim, RowsOf
<1>6. \A j : j # k => RowsOf(Trim(r, k), j) = RowsOf(r, j)
  BY <1>3, <1>4 DEF RowsOf
<1> QED BY <1>3, <1>4, <1>5, <1>6

\* The bound holds of the key, and what it takes is older than what it leaves,
\* which is as many rows as the bound allows.
LEMMA TrimBounds ==
    ASSUME NEW r, Table(r), NEW k
    PROVE  /\ Cardinality(RowsOf(Trim(r, k), k)) <= IncPerKey
           /\ \A x \in r \ Trim(r, k) :
                 /\ x.id[1] = k
                 /\ Cardinality(RowsOf(Trim(r, k), k)) >= IncPerKey
                 /\ \A y \in RowsOf(Trim(r, k), k) : y.first >= x.first
<1> DEFINE K == RowsOf(Trim(r, k), k)
           c(x) == Cardinality(Newer(r, x))
<1>1. IncPerKey \in Nat
  BY IncAssumption DEF IncAssumption
<1>2. \A x \in K : x \in r /\ x.id[1] = k /\ c(x) \in Nat /\ c(x) < IncPerKey
  BY TrimKeeps, NewerCounts DEF RowsOf
<1>3. IsFiniteSet(K) /\ Cardinality(K) \in Nat
  BY TrimKeeps, RowsOfFinite
<1>4. Cardinality(K) <= IncPerKey
  <2>1. CASE K = {}
    BY <1>1, <2>1, FS_EmptySet
  <2>2. CASE K # {}
    <3> DEFINE T == {IncPerKey - c(x) : x \in K}
    <3>1. T \subseteq Nat /\ T # {}
      BY <1>1, <1>2, <2>2
    <3>2. PICK m \in T : \A n \in T : m <= n
      BY <3>1, LeastNat
    <3>3. PICK x \in K : \A y \in K : c(y) <= c(x)
      BY <1>1, <1>2, <3>2
    <3>4. \A y \in K : y # x => Later(y, x)
      BY <1>2, <3>3, LaterOrders, NewerGrows
    <3>5. K \ {x} \subseteq Newer(r, x)
      BY <1>2, <3>4, NewerCounts DEF RowsOf
    <3>6. Cardinality(K \ {x}) = Cardinality(K) - 1
      BY <1>3, <3>3, FS_RemoveElement
    <3>7. Cardinality(K \ {x}) <= c(x)
      BY <1>2, <3>3, <3>5, NewerCounts, FS_Subset
    <3> QED BY <1>1, <1>2, <1>3, <3>3, <3>6, <3>7
  <2> QED BY <2>1, <2>2
<1>5. ASSUME NEW x \in r \ Trim(r, k)
      PROVE  x.id[1] = k /\ Cardinality(K) >= IncPerKey
             /\ \A y \in K : y.first >= x.first
  <2> DEFINE G == r \ Trim(r, k)
             T == {c(y) : y \in G}
  <2>1. \A y \in G : y \in r /\ y.id[1] = k /\ c(y) \in Nat /\ c(y) >= IncPerKey
    BY <1>1, TrimKeeps, NewerCounts
  <2>2. PICK m \in T : \A n \in T : m <= n
    BY <1>5, <2>1, LeastNat
  <2>3. PICK g \in G : \A y \in G : c(g) <= c(y)
    BY <2>2
  <2>4. Newer(r, g) \subseteq K
    <3> SUFFICES ASSUME NEW y \in Newer(r, g) PROVE y \in K
      OBVIOUS
    <3>1. y \in r /\ y.id[1] = k /\ Later(y, g)
      BY <2>1, <2>3, NewerCounts DEF RowsOf
    <3>2. c(g) > c(y) /\ c(y) \in Nat
      BY <2>1, <2>3, <3>1, NewerGrows, NewerCounts
    <3>3. y \notin G
      BY <2>1, <2>3, <3>2
    <3> QED BY <3>1, <3>3 DEF RowsOf
  <2>5. c(g) <= Cardinality(K)
    BY <1>3, <2>4, FS_Subset
  <2>6. Cardinality(K) >= IncPerKey
    BY <1>1, <1>3, <2>1, <2>3, <2>5
  <2>7. ASSUME NEW y \in K PROVE y.first >= x.first
    <3>1. y \in r /\ y.id[1] = x.id[1] /\ c(y) < c(x) /\ c(y) \in Nat /\ c(x) \in Nat
      BY <1>1, <1>2, <2>1
    <3>2. ~ Later(x, y) /\ x # y
      BY <3>1, NewerGrows
    <3>3. Later(y, x)
      BY <3>1, <3>2, LaterOrders
    <3> QED BY <3>1, <3>3, LaterOrders
  <2> QED BY <2>1, <2>6, <2>7
<1> QED BY <1>4, <1>5

\* A full key stays full.
LEMMA TrimStaysFull ==
    ASSUME NEW r, Table(r), NEW k, NEW j, Cardinality(RowsOf(r, j)) >= IncPerKey
    PROVE  Cardinality(RowsOf(Trim(r, k), j)) >= IncPerKey
<1>1. CASE j # k
  BY <1>1, TrimKeeps
<1>2. CASE j = k /\ r = Trim(r, k)
  BY <1>2
<1>3. CASE j = k /\ r # Trim(r, k)
  BY <1>3, TrimKeeps, TrimBounds
<1> QED BY <1>1, <1>2, <1>3

-----------------------------------------------------------------------------
(* write_incident_queue(), event by event *)

\* table r after event n
AfterEvent(r, n) == Trim(Upsert(r, incQueue[n]), incQueue[n].id[1])

AreWritten(w, r) ==
    w = [n \in 0 .. Len(incQueue) |-> IF n = 0 THEN r ELSE AfterEvent(w[n - 1], n)]

LEMMA WrittenExists ==
    ASSUME NEW r, Len(incQueue) \in Nat PROVE \E w : AreWritten(w, r)
<1> DEFINE Up(w, n) == w[0] = r /\ \A i \in 1 .. n : w[i] = AfterEvent(w[i - 1], i)
           T == {n \in Nat : \E w : Up(w, n)}
<1>1. 0 \in T
  <2>1. Up([i \in 0 .. 0 |-> r], 0)
    OBVIOUS
  <2> QED BY <2>1
<1>2. ASSUME NEW n \in Nat, n \in T PROVE n + 1 \in T
  <2>1. PICK w : Up(w, n)
    BY <1>2
  <2> DEFINE f == [i \in 0 .. n + 1 |->
                     IF i <= n THEN w[i] ELSE AfterEvent(w[n], n + 1)]
  <2>2. \A i \in 0 .. n : f[i] = w[i]
    OBVIOUS
  <2>3. f[n + 1] = AfterEvent(f[n], n + 1)
    BY <2>2
  <2> HIDE DEF f
  <2>4. Up(f, n + 1)
    <3>1. f[0] = r
      BY <2>1, <2>2
    <3>2. \A i \in 1 .. n : f[i] = AfterEvent(f[i - 1], i)
      <4> SUFFICES ASSUME NEW i \in 1 .. n PROVE f[i] = AfterEvent(f[i - 1], i)
        OBVIOUS
      <4>1. i \in 0 .. n /\ i - 1 \in 0 .. n
        OBVIOUS
      <4> QED BY <2>1, <2>2, <4>1
    <3> QED BY <2>3, <3>1, <3>2
  <2> QED BY <2>4
<1> HIDE DEF T
<1>3. Len(incQueue) \in T
  BY <1>1, <1>2, Induction
<1>4. PICK w : Up(w, Len(incQueue))
  BY <1>3 DEF T
<1> DEFINE v == [n \in 0 .. Len(incQueue) |-> w[n]]
<1>5. \A n \in 0 .. Len(incQueue) :
         v[n] = IF n = 0 THEN r ELSE AfterEvent(v[n - 1], n)
  <2> SUFFICES ASSUME NEW n \in 0 .. Len(incQueue)
               PROVE  w[n] = IF n = 0 THEN r ELSE AfterEvent(w[n - 1], n)
    OBVIOUS
  <2> QED BY <1>4
<1>6. AreWritten(v, r)
  BY <1>5 DEF AreWritten
<1> QED BY <1>6

LEMMA WrittenSteps ==
    ASSUME NEW r, Len(incQueue) \in Nat
    PROVE  /\ Written(r)[0] = r
           /\ \A n \in 1 .. Len(incQueue) :
                 Written(r)[n] = AfterEvent(Written(r)[n - 1], n)
<1>1. Written(r) = CHOOSE w : AreWritten(w, r)
  BY DEF Written, AreWritten, AfterEvent
<1>2. AreWritten(Written(r), r)
  BY <1>1, WrittenExists
<1> HIDE <1>1
<1> DEFINE w == Written(r)
<1> HIDE DEF w
<1>3. w = [n \in 0 .. Len(incQueue) |-> IF n = 0 THEN r ELSE AfterEvent(w[n - 1], n)]
  BY <1>2 DEF AreWritten, w
<1>4. w[0] = r
  BY <1>3
<1>5. \A n \in 1 .. Len(incQueue) : w[n] = AfterEvent(w[n - 1], n)
  BY <1>3
<1> QED BY <1>4, <1>5 DEF w

\* What the queue and the table must be for the queue to be written: no
\* incident twice in either, and a key's events in the order its incidents
\* were opened, after their rows.
QueueInOrder ==
    /\ incQueue \in Seq(IncRecord) /\ Table(incRows)
    /\ \A m, n \in DOMAIN incQueue : incQueue[m].id = incQueue[n].id => m = n
    /\ \A x \in incRows, e \in Queue : x.id[1] = e.id[1] => x.id[2] <= e.id[2]
    /\ \A m, n \in DOMAIN incQueue :
          m < n /\ incQueue[m].id[1] = incQueue[n].id[1]
             => incQueue[m].id[2] < incQueue[n].id[2]

LEMMA QueueFacts ==
    ASSUME QueueInOrder
    PROVE  /\ Len(incQueue) \in Nat /\ DOMAIN incQueue = 1 .. Len(incQueue)
           /\ \A n \in 1 .. Len(incQueue) :
                 incQueue[n] \in IncRecord /\ incQueue[n] \in Queue
           /\ \A e \in Queue : e \in IncRecord
                                 /\ \E n \in 1 .. Len(incQueue) : e = incQueue[n]
           /\ \A e, f \in Queue : e.id = f.id => e = f
<1>1. incQueue \in Seq(IncRecord)
  BY DEF QueueInOrder
<1>2. Len(incQueue) \in Nat /\ DOMAIN incQueue = 1 .. Len(incQueue)
  BY <1>1
<1>3. \A n \in 1 .. Len(incQueue) : incQueue[n] \in IncRecord
  BY <1>1
<1>4. Queue = {incQueue[n] : n \in 1 .. Len(incQueue)}
  BY <1>2 DEF Queue
<1>5. \A e, f \in Queue : e.id = f.id => e = f
  BY <1>2, <1>4 DEF QueueInOrder
<1> QED BY <1>2, <1>3, <1>4, <1>5

\* What table v is once the first n events are written.
WrittenTo(v, n) ==
    /\ Table(v)
    /\ \A y \in v :
          \/ y \in incRows /\ \A m \in 1 .. n : incQueue[m].id # y.id
          \/ \E m \in 1 .. n : y.id = incQueue[m].id /\ y = Row(incRows, incQueue[m])
    /\ \A k : (\A m \in 1 .. n : incQueue[m].id[1] # k)
                 => RowsOf(v, k) = RowsOf(incRows, k)
    /\ \A i \in Ids(incRows) \cup {incQueue[m].id : m \in 1 .. n} :
          i \notin Ids(v) => Cardinality(RowsOf(v, i[1])) >= IncPerKey
    /\ \A m \in 1 .. n :
          /\ Cardinality(RowsOf(v, incQueue[m].id[1])) <= IncPerKey
          /\ (\A p \in m + 1 .. n : incQueue[p].id[1] # incQueue[m].id[1])
             /\ incQueue[m].id \notin Ids(v)
                => \A y \in RowsOf(v, incQueue[m].id[1]) : y.first >= incQueue[m].first

LEMMA EventWritten ==
    ASSUME QueueInOrder, NEW n \in Nat, n + 1 <= Len(incQueue), NEW v, WrittenTo(v, n)
    PROVE  WrittenTo(AfterEvent(v, n + 1), n + 1)
<1> DEFINE e == incQueue[n + 1]
           k == e.id[1]
           u == Upsert(v, e)
           t == Trim(u, k)
<1>1. /\ Len(incQueue) \in Nat /\ e \in IncRecord /\ e \in Queue
      /\ \A m \in 1 .. n : incQueue[m] \in IncRecord /\ incQueue[m] \in Queue
      /\ \A m \in 1 .. n : incQueue[m].id # e.id
  <2>1. n + 1 \in DOMAIN incQueue /\ \A m \in 1 .. n : m \in DOMAIN incQueue /\ m # n + 1
    BY QueueFacts
  <2> QED BY <2>1, QueueFacts DEF QueueInOrder
<1>2. Table(v) /\ Table(incRows)
  BY DEF WrittenTo, QueueInOrder
<1>3. Table(u) /\ Table(t) /\ t \subseteq u
  BY <1>1, <1>2, UpsertTable, TrimKeeps
<1>4. IncPerKey \in Nat
  BY IncAssumption DEF IncAssumption
<1>5. Row(v, e) = Row(incRows, e)
  <2>1. CASE e.id \in Ids(incRows)
    <3>1. PICK x \in incRows : x.id = e.id
      BY <2>1 DEF Ids
    <3>2. \A m \in 1 .. n : incQueue[m].id[1] # k
      <4> SUFFICES ASSUME NEW m \in 1 .. n, incQueue[m].id[1] = k PROVE FALSE
        OBVIOUS
      <4>1. m \in DOMAIN incQueue /\ n + 1 \in DOMAIN incQueue /\ m < n + 1
        BY QueueFacts
      <4>2. incQueue[m].id[2] < e.id[2]
        BY <4>1 DEF QueueInOrder
      <4>3. x.id[2] <= incQueue[m].id[2]
        BY <1>1, <3>1 DEF QueueInOrder
      <4> QED BY <1>1, <3>1, <4>2, <4>3, IncRecordFields
    <3>3. RowsOf(v, k) = RowsOf(incRows, k)
      BY <3>2 DEF WrittenTo
    <3>4. x \in v
      BY <3>1, <3>3 DEF RowsOf
    <3> QED BY <1>1, <1>2, <3>1, <3>4, RowFields
  <2>2. CASE e.id \notin Ids(incRows)
    <3>1. e.id \notin Ids(v)
      BY <1>1, <2>2 DEF WrittenTo, Ids
    <3> QED BY <1>1, <1>2, <2>2, <3>1, RowFields
  <2> QED BY <2>1, <2>2
<1>6. ASSUME NEW y \in t
      PROVE  \/ y \in incRows /\ \A m \in 1 .. n + 1 : incQueue[m].id # y.id
             \/ \E m \in 1 .. n + 1 : y.id = incQueue[m].id /\ y = Row(incRows, incQueue[m])
  <2>1. CASE y = Row(v, e)
    BY <1>1, <1>2, <1>5, <2>1, RowFields
  <2>2. CASE y \in v /\ y.id # e.id
    BY <2>2 DEF WrittenTo
  <2> QED BY <1>1, <1>2, <1>3, <2>1, <2>2, UpsertTable
<1>7. \A j : j # k => RowsOf(t, j) = RowsOf(v, j)
  BY <1>1, <1>2, <1>3, UpsertRows, TrimKeeps
<1>8. ASSUME NEW j, \A m \in 1 .. n + 1 : incQueue[m].id[1] # j
      PROVE  RowsOf(t, j) = RowsOf(incRows, j)
  <2>1. j # k /\ \A m \in 1 .. n : incQueue[m].id[1] # j
    BY <1>8
  <2> QED BY <1>7, <2>1 DEF WrittenTo
<1>9. \A i : i[1] # k => (i \in Ids(t) <=> i \in Ids(v))
  <2> SUFFICES ASSUME NEW i, i[1] # k PROVE i \in Ids(t) <=> i \in Ids(v)
    OBVIOUS
  <2>1. RowsOf(t, i[1]) = RowsOf(v, i[1])
    BY <1>7
  <2> QED BY <2>1 DEF Ids, RowsOf
<1>10. ASSUME NEW i \in Ids(incRows) \cup {incQueue[m].id : m \in 1 .. n + 1},
              i \notin Ids(t)
       PROVE  Cardinality(RowsOf(t, i[1])) >= IncPerKey
  <2>1. i = e.id \/ i \in Ids(incRows) \cup {incQueue[m].id : m \in 1 .. n}
    OBVIOUS
  <2>2. CASE i \in Ids(u)
    <3>1. PICK x \in u \ t : x.id = i
      BY <1>10, <2>2 DEF Ids
    <3> QED BY <1>3, <3>1, TrimBounds
  <2>3. CASE i \notin Ids(u)
    <3>1. i # e.id /\ i \notin Ids(v)
      BY <1>1, <1>2, <2>3, UpsertTable
    <3>2. Cardinality(RowsOf(v, i[1])) >= IncPerKey
      BY <2>1, <3>1 DEF WrittenTo
    <3>3. Cardinality(RowsOf(v, i[1])) \in Nat
      BY <1>2, RowsOfFinite
    <3>4. Cardinality(RowsOf(u, i[1])) >= IncPerKey
      BY <1>1, <1>2, <1>4, <3>2, <3>3, UpsertRows
    <3> QED BY <1>3, <3>4, TrimStaysFull
  <2> QED BY <2>2, <2>3
<1>11. ASSUME NEW m \in 1 .. n + 1
       PROVE  Cardinality(RowsOf(t, incQueue[m].id[1])) <= IncPerKey
  <2>1. CASE incQueue[m].id[1] = k
    BY <1>3, <2>1, TrimBounds
  <2>2. CASE incQueue[m].id[1] # k
    <3>1. m \in 1 .. n
      BY <2>2
    <3> QED BY <1>7, <2>2, <3>1 DEF WrittenTo
  <2> QED BY <2>1, <2>2
<1>12. ASSUME NEW m \in 1 .. n + 1, incQueue[m].id \notin Ids(t),
              \A p \in m + 1 .. n + 1 : incQueue[p].id[1] # incQueue[m].id[1],
              NEW y \in RowsOf(t, incQueue[m].id[1])
       PROVE  y.first >= incQueue[m].first
  <2>1. CASE m = n + 1
    <3>1. Row(v, e) \in u
      BY <1>1, <1>2, UpsertTable
    <3>2. Row(v, e).first = e.first /\ Row(v, e).id = e.id
      BY <1>1, <1>2, RowFields
    <3>3. Row(v, e) \in u \ t
      BY <1>12, <2>1, <3>1, <3>2 DEF Ids
    <3> QED BY <1>3, <1>12, <2>1, <3>2, <3>3, TrimBounds
  <2>2. CASE m # n + 1
    <3>1. m \in 1 .. n /\ n + 1 \in m + 1 .. n + 1 /\ m + 1 .. n \subseteq m + 1 .. n + 1
      BY <2>2
    <3>2. incQueue[m].id[1] # k
      BY <1>12, <3>1
    <3>3. incQueue[m].id \notin Ids(v) /\ y \in RowsOf(v, incQueue[m].id[1])
      BY <1>7, <1>9, <1>12, <3>2
    <3> QED BY <1>12, <3>1, <3>3 DEF WrittenTo
  <2> QED BY <2>1, <2>2
<1>13. AfterEvent(v, n + 1) = t
  BY DEF AfterEvent
<1> HIDE DEF t
<1>14. WrittenTo(t, n + 1)
  BY <1>3, <1>6, <1>8, <1>10, <1>11, <1>12 DEF WrittenTo
<1> QED BY <1>13, <1>14

\* What the table is once the queue is written: a row of an incident is the
\* event's, merged with the row it had, or as it was; a row is missing only
\* where its key is full, and then it was the oldest of its key.
LEMMA QueueWritten ==
    ASSUME QueueInOrder
    PROVE  LET t == WriteQueue(incRows) IN
           /\ Table(t)
           /\ \A y \in t : \/ y \in incRows /\ y.id \notin Ids(Queue)
                           \/ \E e \in Queue : y.id = e.id /\ y = Row(incRows, e)
           /\ \A i \in Ids(incRows) \cup Ids(Queue) :
                 i \notin Ids(t) => Cardinality(RowsOf(t, i[1])) >= IncPerKey
           /\ \A k : (\A e \in Queue : e.id[1] # k) => RowsOf(t, k) = RowsOf(incRows, k)
           /\ \A e \in Queue :
                 /\ Cardinality(RowsOf(t, e.id[1])) <= IncPerKey
                 /\ (\A f \in Queue : f.id[1] = e.id[1] => f.id[2] <= e.id[2])
                    /\ e.id \notin Ids(t)
                       => \A y \in RowsOf(t, e.id[1]) : y.first >= e.first
<1> DEFINE w == Written(incRows)
           q == incQueue
           T == {n \in Nat : n <= Len(q) => WrittenTo(w[n], n)}
<1>1. /\ Len(q) \in Nat /\ w[0] = incRows
      /\ \A n \in 1 .. Len(q) : w[n] = AfterEvent(w[n - 1], n)
  BY QueueFacts, WrittenSteps
<1>2. 0 \in T
  <2>1. WrittenTo(incRows, 0)
    BY DEF WrittenTo, QueueInOrder
  <2> QED BY <1>1, <2>1
<1>3. ASSUME NEW n \in Nat, n \in T PROVE n + 1 \in T
  <2>1. ASSUME n + 1 <= Len(q) PROVE WrittenTo(w[n + 1], n + 1)
    <3>1. WrittenTo(w[n], n)
      BY <1>1, <1>3, <2>1
    <3>2. n + 1 \in 1 .. Len(q) /\ (n + 1) - 1 = n
      BY <1>1, <2>1
    <3>3. w[n + 1] = AfterEvent(w[n], n + 1)
      BY <1>1, <3>2
    <3> HIDE DEF w
    <3> QED BY <2>1, <3>1, <3>3, EventWritten
  <2> QED BY <2>1
<1> DEFINE t == w[Len(q)]
<1>4. WrittenTo(t, Len(q))
  <2> HIDE DEF T
  <2>1. Len(q) \in T
    BY <1>1, <1>2, <1>3, Induction
  <2> QED BY <1>1, <2>1 DEF T
<1>5. WriteQueue(incRows) = t
  BY DEF WriteQueue
<1> HIDE DEF w, t
<1>6. /\ \A e \in Queue : e \in IncRecord /\ \E m \in 1 .. Len(q) : e = q[m]
      /\ \A m \in 1 .. Len(q) : q[m] \in Queue
  BY QueueFacts
<1>7. Ids(Queue) = {q[m].id : m \in 1 .. Len(q)}
  BY <1>6 DEF Ids
<1>8. Table(t)
  BY <1>4 DEF WrittenTo
<1>9. ASSUME NEW y \in t
      PROVE  \/ y \in incRows /\ y.id \notin Ids(Queue)
             \/ \E e \in Queue : y.id = e.id /\ y = Row(incRows, e)
  <2>1. CASE y \in incRows /\ \A m \in 1 .. Len(q) : q[m].id # y.id
    BY <1>7, <2>1
  <2>2. CASE \E m \in 1 .. Len(q) : y.id = q[m].id /\ y = Row(incRows, q[m])
    BY <1>6, <2>2
  <2> QED BY <1>4, <2>1, <2>2 DEF WrittenTo
<1>10. \A i \in Ids(incRows) \cup Ids(Queue) :
          i \notin Ids(t) => Cardinality(RowsOf(t, i[1])) >= IncPerKey
  BY <1>4, <1>7 DEF WrittenTo
<1>11. \A k : (\A e \in Queue : e.id[1] # k) => RowsOf(t, k) = RowsOf(incRows, k)
  BY <1>4, <1>6 DEF WrittenTo
<1>12. ASSUME NEW e \in Queue
       PROVE  Cardinality(RowsOf(t, e.id[1])) <= IncPerKey
  BY <1>4, <1>6 DEF WrittenTo
<1>13. ASSUME NEW e \in Queue, e.id \notin Ids(t),
              \A f \in Queue : f.id[1] = e.id[1] => f.id[2] <= e.id[2],
              NEW y \in RowsOf(t, e.id[1])
       PROVE  y.first >= e.first
  <2>1. PICK m \in 1 .. Len(q) : e = q[m]
    BY <1>6
  <2>2. \A p \in m + 1 .. Len(q) : q[p].id[1] # q[m].id[1]
    <3> SUFFICES ASSUME NEW p \in m + 1 .. Len(q), q[p].id[1] = q[m].id[1] PROVE FALSE
      OBVIOUS
    <3>1. p \in DOMAIN q /\ m \in DOMAIN q /\ m < p /\ p \in 1 .. Len(q)
      BY QueueFacts
    <3>2. q[m].id[2] < q[p].id[2]
      BY <3>1 DEF QueueInOrder
    <3>3. q[p].id[2] <= q[m].id[2]
      BY <1>6, <1>13, <2>1, <3>1
    <3>4. q[m].id[2] \in Int /\ q[p].id[2] \in Int
      BY <1>6, <3>1, IncRecordFields
    <3> QED BY <3>2, <3>3, <3>4
  <2> QED BY <1>4, <1>13, <2>1, <2>2 DEF WrittenTo
<1> QED BY <1>5, <1>8, <1>9, <1>10, <1>11, <1>12, <1>13

\* write_events(): every live incident has its row afterwards, merged with the
\* row it had, and no other row changes.
LEMMA SnapshotWritten ==
    ASSUME NEW t, Table(t),
           \A i \in DOMAIN incLive : incLive[i] \in IncRecord /\ incLive[i].id = i,
           \A i, j \in DOMAIN incLive : i[1] = j[1] => i = j
    PROVE  LET s == WriteSnapshot(t) IN
           /\ Table(s) /\ Ids(s) = Ids(t) \cup DOMAIN incLive
           /\ \A y \in s : \/ y \in t /\ y.id \notin DOMAIN incLive
                           \/ y.id \in DOMAIN incLive /\ y = Row(t, incLive[y.id])
           /\ \A y \in t : y.id \notin DOMAIN incLive => y \in s
           /\ \A i \in DOMAIN incLive : Row(t, incLive[i]) \in s
           /\ \A k : (\A i \in DOMAIN incLive : i[1] # k) => RowsOf(s, k) = RowsOf(t, k)
           /\ \A i \in DOMAIN incLive :
                 RowsOf(s, i[1]) = RowsOf(Upsert(t, incLive[i]), i[1])
<1> DEFINE s == WriteSnapshot(t)
           L == DOMAIN incLive
<1>1. \A i \in L : /\ Row(t, incLive[i]) \in IncRecord
                   /\ Row(t, incLive[i]).id = i
  BY RowFields
<1>2. s = {x \in t : x.id \notin L} \cup {Row(t, incLive[i]) : i \in L}
  BY DEF WriteSnapshot
<1> HIDE DEF s
<1>3. /\ \A y \in s : \/ y \in t /\ y.id \notin L
                      \/ y.id \in L /\ y = Row(t, incLive[y.id])
      /\ \A y \in t : y.id \notin L => y \in s
      /\ \A i \in L : Row(t, incLive[i]) \in s
  BY <1>1, <1>2
<1>4. Table(s)
  BY <1>1, <1>3 DEF Table
<1>5. Ids(s) = Ids(t) \cup L
  <2>1. \A y \in s : y.id \in Ids(t) \cup L
    BY <1>3 DEF Ids
  <2>2. \A i \in Ids(t) \cup L : i \in Ids(s)
    <3> SUFFICES ASSUME NEW i \in Ids(t) \cup L PROVE \E y \in s : y.id = i
      BY DEF Ids
    <3>1. CASE i \in L
      BY <1>1, <1>3, <3>1
    <3>2. CASE i \notin L
      BY <1>3, <3>2 DEF Ids
    <3> QED BY <3>1, <3>2
  <2> QED BY <2>1, <2>2 DEF Ids
<1>6. ASSUME NEW k, \A i \in L : i[1] # k PROVE RowsOf(s, k) = RowsOf(t, k)
  <2>1. \A y \in RowsOf(s, k) : y \in RowsOf(t, k)
    BY <1>3, <1>6 DEF RowsOf
  <2>2. \A y \in RowsOf(t, k) : y \in RowsOf(s, k)
    BY <1>3, <1>6 DEF RowsOf
  <2> QED BY <2>1, <2>2
<1>7. ASSUME NEW i \in L PROVE RowsOf(s, i[1]) = RowsOf(Upsert(t, incLive[i]), i[1])
  <2>1. /\ Upsert(t, incLive[i]) = {x \in t : x.id # i} \cup {Row(t, incLive[i])}
        /\ Row(t, incLive[i]).id = i
    BY <1>1 DEF Upsert
  <2>2. ASSUME NEW y \in RowsOf(s, i[1])
        PROVE  y \in {x \in t : x.id # i} \cup {Row(t, incLive[i])}
    BY <1>3, <2>2 DEF RowsOf
  <2>3. ASSUME NEW y \in t, y.id # i, y.id[1] = i[1] PROVE y \in s
    BY <1>3, <2>3
  <2>4. \A y \in RowsOf(s, i[1]) : y \in RowsOf(Upsert(t, incLive[i]), i[1])
    BY <2>1, <2>2 DEF RowsOf
  <2>5. \A y \in RowsOf(Upsert(t, incLive[i]), i[1]) : y \in RowsOf(s, i[1])
    BY <1>3, <2>1, <2>3 DEF RowsOf
  <2> QED BY <2>4, <2>5
<1> QED BY <1>3, <1>4, <1>5, <1>6, <1>7 DEF s

-----------------------------------------------------------------------------
(* What table r and events q say of incident i, whose record is t *)

Knows(r, q, t, i) ==
    LET known  == {e \in r \cup q : e.id = i}
        newest == IF i \in Ids(q) THEN q ELSE r IN
    /\ \A e \in known : e.peak <= t.peak
    /\ \E e \in known : e.peak = t.peak
    /\ (\E e \in known : e.closed) <=> t.closed
    /\ \A e \in newest : e.id = i => e.sev = t.sev

LEMMA KnowsWritten ==
    ASSUME QueueInOrder, NEW t \in IncRecord, NEW i \in Ids(WriteQueue(incRows)),
           Knows(incRows, Queue, t, i)
    PROVE  Knows(WriteQueue(incRows), {}, t, i)
<1> DEFINE w == WriteQueue(incRows)
<1>1. PICK y \in w : y.id = i
  BY DEF Ids
<1>2. Table(w) /\ Table(incRows)
  BY QueueWritten DEF QueueInOrder
<1>3. {e \in w \cup {} : e.id = i} = {y} /\ i \notin Ids({}) /\ \A e \in w : e.id = i => e = y
  BY <1>1, <1>2 DEF Table, Ids
<1>4. y.peak = t.peak /\ (y.closed <=> t.closed) /\ y.sev = t.sev
  <2>1. CASE y \in incRows /\ y.id \notin Ids(Queue)
    <3>1. {e \in incRows \cup Queue : e.id = i} = {y}
      BY <1>1, <1>2, <2>1 DEF Table, Ids
    <3> QED BY <1>1, <2>1, <3>1 DEF Knows
  <2>2. CASE \E e \in Queue : y.id = e.id /\ y = Row(incRows, e)
    <3>1. PICK e \in Queue : y.id = e.id /\ y = Row(incRows, e)
      BY <2>2
    <3>2. e \in IncRecord /\ i \in Ids(Queue) /\ \A f \in Queue : f.id = i => f = e
      BY <1>1, <3>1, QueueFacts DEF Ids
    <3>3. y.sev = e.sev /\ e.sev = t.sev
      BY <1>1, <1>2, <3>1, <3>2, RowFields DEF Knows
    <3>4. CASE i \notin Ids(incRows)
      <4>1. y = e
        BY <1>1, <1>2, <3>1, <3>2, <3>4, RowFields
      <4>2. {f \in incRows \cup Queue : f.id = i} = {y}
        BY <1>1, <3>1, <3>2, <3>4, <4>1 DEF Ids
      <4> QED BY <3>3, <4>1, <4>2 DEF Knows
    <3>5. CASE i \in Ids(incRows)
      <4>1. PICK x \in incRows : x.id = i
        BY <3>5 DEF Ids
      <4>2. x \in IncRecord /\ \A f \in incRows : f.id = i => f = x
        BY <1>2, <4>1 DEF Table
      <4>3. {f \in incRows \cup Queue : f.id = i} = {x, e}
        BY <1>1, <3>1, <3>2, <4>1, <4>2
      <4>4. y = Merged(x, e)
        BY <1>1, <1>2, <3>1, <3>2, <4>1, RowFields
      <4>5. /\ y.peak \in {e.peak, x.peak} /\ y.peak >= e.peak /\ y.peak >= x.peak
            /\ y.closed <=> (x.closed \/ e.closed)
        BY <3>2, <4>2, <4>4, MergedFields
      <4>6. /\ x.peak <= t.peak /\ e.peak <= t.peak /\ (x.peak = t.peak \/ e.peak = t.peak)
            /\ (x.closed \/ e.closed) <=> t.closed
        BY <4>3 DEF Knows
      <4>7. x.peak \in Int /\ e.peak \in Int /\ t.peak \in Int
        BY <3>2, <4>2, IncRecordFields
      <4>8. y.peak = t.peak
        BY <4>5, <4>6, <4>7
      <4>9. y.closed <=> t.closed
        BY <4>5, <4>6
      <4> QED BY <3>3, <4>8, <4>9
    <3> QED BY <3>4, <3>5
  <2> QED BY <2>1, <2>2, QueueWritten
<1>5. t.peak \in Int
  BY IncRecordFields
<1> HIDE DEF w
<1>6. Knows(w, {}, t, i)
  BY <1>3, <1>4, <1>5 DEF Knows
<1> QED BY <1>6 DEF w

LEMMA KnowsSnapshot ==
    ASSUME NEW r, Table(r), NEW t \in IncRecord, NEW i \in Ids(r), Knows(r, {}, t, i),
           \A j \in DOMAIN incLive : incLive[j] \in IncRecord /\ incLive[j].id = j,
           \A j, k \in DOMAIN incLive : j[1] = k[1] => j = k,
           i \in DOMAIN incLive =>
              incLive[i].sev = t.sev /\ incLive[i].peak <= t.peak /\ ~ incLive[i].closed
    PROVE  Knows(WriteSnapshot(r), {}, t, i)
<1> DEFINE s == WriteSnapshot(r)
<1>1. Table(s) /\ i \in Ids(s)
  BY SnapshotWritten
<1>2. PICK y \in s : y.id = i
  BY <1>1 DEF Ids
<1>3. PICK x \in r : x.id = i
  BY DEF Ids
<1>4. x \in IncRecord /\ {e \in r \cup {} : e.id = i} = {x} /\ i \notin Ids({})
  BY <1>3 DEF Table, Ids
<1>5. x.peak = t.peak /\ (x.closed <=> t.closed) /\ x.sev = t.sev
  BY <1>3, <1>4 DEF Knows
<1>6. y.peak = t.peak /\ (y.closed <=> t.closed) /\ y.sev = t.sev
  <2>1. CASE i \notin DOMAIN incLive
    <3>1. y \in r
      BY <1>2, <2>1, SnapshotWritten
    <3>2. y = x
      BY <1>2, <1>3, <3>1 DEF Table
    <3> QED BY <1>5, <3>2
  <2>2. CASE i \in DOMAIN incLive
    <3>1. y = Row(r, incLive[i])
      BY <1>2, <2>2, SnapshotWritten
    <3>2. incLive[i] \in IncRecord /\ incLive[i].id = i
      BY <2>2
    <3>3. y = Merged(x, incLive[i])
      BY <1>3, <3>1, <3>2, RowFields
    <3>4. /\ y.sev = incLive[i].sev
          /\ y.peak \in {incLive[i].peak, x.peak} /\ y.peak >= x.peak
          /\ y.closed <=> (x.closed \/ incLive[i].closed)
      BY <1>4, <3>2, <3>3, MergedFields
    <3>5. x.peak \in Int /\ incLive[i].peak \in Int /\ t.peak \in Int
      BY <1>4, <3>2, IncRecordFields
    <3>6. y.peak = t.peak
      BY <1>5, <2>2, <3>4, <3>5
    <3> QED BY <1>5, <2>2, <3>4, <3>6
  <2> QED BY <2>1, <2>2
<1>7. {e \in s \cup {} : e.id = i} = {y} /\ \A e \in s : e.id = i => e = y
  BY <1>1, <1>2 DEF Table
<1>8. t.peak \in Int
  BY IncRecordFields
<1> HIDE DEF s
<1>9. Knows(s, {}, t, i)
  BY <1>4, <1>6, <1>7, <1>8 DEF Knows
<1> QED BY <1>9 DEF s

\* A new event of an incident still open, queued where none of it was.
LEMMA KnowsEvent ==
    ASSUME NEW r, NEW q, NEW t \in IncRecord, NEW u \in IncRecord, NEW e \in IncRecord,
           Table(r), q \subseteq IncRecord,
           Knows(r, q, t, e.id), e.id \notin Ids(q), ~ t.closed,
           u.sev = e.sev, u.peak = Worse(t.peak, e.peak), u.closed = e.closed
    PROVE  Knows(r, q \cup {e}, u, e.id)
<1> DEFINE K == {f \in r \cup q : f.id = e.id}
<1>1. {f \in r \cup (q \cup {e}) : f.id = e.id} = K \cup {e}
  OBVIOUS
<1>2. e.id \in Ids(q \cup {e}) /\ \A f \in q \cup {e} : f.id = e.id => f = e
  BY DEF Ids
<1>3. /\ \A f \in K : f.peak <= t.peak /\ ~ f.closed
      /\ \E f \in K : f.peak = t.peak
  BY DEF Knows
<1>4. /\ t.peak \in Int /\ e.peak \in Int /\ \A f \in K : f.peak \in Int
  <2>1. \A f \in K : f \in IncRecord
    BY DEF Table
  <2> QED BY <2>1, IncRecordFields
<1>5. /\ u.peak \in {t.peak, e.peak} /\ u.peak >= t.peak /\ u.peak >= e.peak
  BY <1>4 DEF Worse
<1> HIDE DEF K
<1>6. \A f \in K \cup {e} : f.peak <= u.peak
  BY <1>3, <1>4, <1>5
<1>7. \E f \in K \cup {e} : f.peak = u.peak
  BY <1>3, <1>5
<1>8. (\E f \in K \cup {e} : f.closed) <=> u.closed
  BY <1>3
<1> QED BY <1>1, <1>2, <1>6, <1>7, <1>8 DEF Knows

-----------------------------------------------------------------------------
(* The inductive invariant *)

IncShape ==
    /\ incRun \in {"up", "off", "saved", "gone"}
    /\ incClock \in 0 .. IncTicks /\ incOpened \in 0 .. IncMax
    /\ Len(incQueue) <= IncQueueMax
    /\ incTrimmed \subseteq Incidents
    /\ incRun # "up" => incQueue = <<>>
    /\ incRun \in {"saved", "gone"} => DOMAIN incLive = {}
    /\ DOMAIN incLive \subseteq DOMAIN incTruth
    /\ \A i \in DOMAIN incTruth : incTruth[i] \in IncRecord /\ incTruth[i].id = i
    /\ \A i \in DOMAIN incLive : incLive[i] \in IncRecord /\ incLive[i].id = i

\* A live record carries its severity and never more than the worst announced.
IncFigures ==
    \A i \in DOMAIN incLive :
       /\ incLive[i].first = incTruth[i].first /\ incLive[i].sev = incTruth[i].sev
       /\ incLive[i].peak = incLive[i].sev /\ incLive[i].peak <= incTruth[i].peak
       /\ ~ incLive[i].closed /\ ~ incTruth[i].closed

\* Row or event e says nothing of its incident the engine did not announce.
HonestOf(e, truth) ==
    e.id \in DOMAIN truth =>
       /\ e.first = truth[e.id].first
       /\ e.peak <= truth[e.id].peak
       /\ e.closed => truth[e.id].closed

IncHonest == \A e \in incRows \cup Queue : HonestOf(e, incTruth)

\* A live incident is the latest of its key, in the table and in the queue,
\* and is queued where anything of its key is.
IncLatest ==
    \A i \in DOMAIN incLive :
       /\ \A e \in incRows \cup Queue : e.id[1] = i[1] => e.id[2] <= i[2]
       /\ \A e \in Queue : e.id[1] = i[1] => i \in Ids(Queue)
       /\ \A j \in DOMAIN incLive : j[1] = i[1] => j = i

IncNumbered ==
    \A i \in Ids(incRows) \cup Ids(Queue) \cup DOMAIN incTruth \cup incTrimmed :
       i[2] <= incOpened

\* Where the live incident i of record e has been taken by the bound, the
\* table r has room for it and only rows that started no earlier.
TakenFor(e, r, i) ==
    /\ Cardinality(RowsOf(r, i[1])) <= IncPerKey
    /\ \A x \in RowsOf(r, i[1]) : e.first <= x.first

IncLiveKept ==
    incRun = "up" =>
       \A i \in DOMAIN incLive :
          \/ i \in Ids(Queue) \/ i \in Ids(incRows)
          \/ i \in incTrimmed /\ TakenFor(incLive[i], incRows, i)

BoundedIn(r, gone) ==
    \A k \in IncKeys :
       /\ Cardinality(RowsOf(r, k)) <= IncPerKey + 1
       /\ Cardinality(RowsOf(r, k)) > IncPerKey =>
             \E x \in RowsOf(r, k) : /\ \A y \in RowsOf(r, k) : x.first <= y.first
                                     /\ x.id \in gone

IncKnown ==
    incRun \in {"up", "saved"} =>
       \A i \in DOMAIN incTruth \ incTrimmed : Knows(incRows, Queue, incTruth[i], i)

IncInv ==
    /\ IncShape /\ QueueInOrder /\ IncFigures /\ IncHonest /\ IncLatest
    /\ IncNumbered /\ IncLiveKept /\ IncKnown /\ BoundedIn(incRows, incTrimmed)

LEMMA IncInitially == IncInit => IncInv
<1> SUFFICES ASSUME IncInit PROVE IncInv
  OBVIOUS
<1>1. /\ Queue = {} /\ Ids(Queue) = {} /\ Ids(incRows) = {} /\ incRows = {}
      /\ DOMAIN incLive = {} /\ DOMAIN incTruth = {}
  BY DEF IncInit, Queue, Ids, NoIncident
<1>2. IncShape
  BY <1>1, IncAssumption DEF IncInit, IncShape, IncAssumption
<1>3. QueueInOrder
  BY <1>1 DEF IncInit, QueueInOrder, Table
<1>4. BoundedIn(incRows, incTrimmed)
  <2>1. \A k : Cardinality(RowsOf(incRows, k)) = 0
    BY <1>1, FS_EmptySet DEF RowsOf
  <2> QED BY <2>1, IncAssumption DEF BoundedIn, IncAssumption
<1> QED BY <1>1, <1>2, <1>3, <1>4
     DEF IncInit, IncInv, IncFigures, IncHonest, IncLatest, IncNumbered, IncLiveKept, IncKnown

-----------------------------------------------------------------------------
(* What writing the queue, and the snapshot after it, keep *)

\* The live incidents are as the snapshot needs them.
LEMMA LiveFacts ==
    ASSUME IncInv
    PROVE  /\ \A i \in DOMAIN incLive : incLive[i] \in IncRecord /\ incLive[i].id = i
           /\ \A i, j \in DOMAIN incLive : i[1] = j[1] => i = j
           /\ \A i \in DOMAIN incLive : i \in DOMAIN incTruth
BY DEF IncInv, IncShape, IncLatest

\* Trimmed is what the two tables and the queue say it is.
LEMMA TrimmedFacts ==
    ASSUME IncInv, NEW i \in Ids(incRows) \cup Ids(Queue)
    PROVE  i \in Trimmed \/ i \in Ids(WriteQueue(incRows))
BY DEF Trimmed

LEMMA HonestMerged ==
    ASSUME NEW x \in IncRecord, NEW e \in IncRecord, x.id = e.id, NEW truth,
           \A i \in DOMAIN truth : truth[i] \in IncRecord,
           HonestOf(x, truth), HonestOf(e, truth)
    PROVE  HonestOf(Merged(x, e), truth)
<1>1. /\ Merged(x, e).id = e.id /\ Merged(x, e).first = e.first
      /\ Merged(x, e).peak \in {e.peak, x.peak}
      /\ Merged(x, e).closed <=> (x.closed \/ e.closed)
  BY MergedFields
<1> QED BY <1>1 DEF HonestOf

LEMMA HonestWritten ==
    ASSUME IncInv
    PROVE  \A y \in WriteQueue(incRows) : HonestOf(y, incTruth)
<1> SUFFICES ASSUME NEW y \in WriteQueue(incRows) PROVE HonestOf(y, incTruth)
  OBVIOUS
<1>1. QueueInOrder /\ Table(incRows)
  BY DEF IncInv, QueueInOrder
<1>2. CASE y \in incRows
  BY <1>2 DEF IncInv, IncHonest
<1>3. CASE \E e \in Queue : y.id = e.id /\ y = Row(incRows, e)
  <2>1. PICK e \in Queue : y.id = e.id /\ y = Row(incRows, e)
    BY <1>3
  <2>2. e \in IncRecord /\ HonestOf(e, incTruth)
    BY <1>1, <2>1, QueueFacts DEF IncInv, IncHonest
  <2>3. CASE e.id \notin Ids(incRows)
    BY <1>1, <2>1, <2>2, <2>3, RowFields
  <2>4. CASE e.id \in Ids(incRows)
    <3>1. PICK x \in incRows : x.id = e.id
      BY <2>4 DEF Ids
    <3>2. x \in IncRecord /\ HonestOf(x, incTruth) /\ y = Merged(x, e)
      BY <1>1, <2>1, <2>2, <3>1, RowFields DEF IncInv, IncHonest, Table
    <3> QED BY <2>2, <3>1, <3>2, HonestMerged DEF IncInv, IncShape
  <2> QED BY <2>3, <2>4
<1> QED BY <1>1, <1>2, <1>3, QueueWritten

\* A table's row is of an incident it held or that was queued.
LEMMA WrittenIds ==
    ASSUME IncInv
    PROVE  /\ Ids(WriteQueue(incRows)) \subseteq Ids(incRows) \cup Ids(Queue)
           /\ Trimmed \subseteq Ids(incRows) \cup Ids(Queue)
           /\ Ids(incRows) \cup Ids(Queue) \subseteq Incidents
<1>1. QueueInOrder /\ Table(incRows)
  BY DEF IncInv, QueueInOrder
<1>2. \A y \in WriteQueue(incRows) : y.id \in Ids(incRows) \cup Ids(Queue)
  BY <1>1, QueueWritten DEF Ids
<1>3. \A x \in incRows \cup Queue : x.id \in Incidents
  BY <1>1, QueueFacts, IncRecordFields DEF Table
<1> QED BY <1>2, <1>3 DEF Ids, Trimmed

\* A live incident is still there once the queue is written, or was taken as
\* the oldest of its key.
LEMMA LiveWritten ==
    ASSUME IncInv, incRun = "up", NEW i \in DOMAIN incLive
    PROVE  \/ i \in Ids(WriteQueue(incRows))
           \/ /\ i \in incTrimmed \cup Trimmed
              /\ TakenFor(incLive[i], WriteQueue(incRows), i)
<1> DEFINE w == WriteQueue(incRows)
<1>1. QueueInOrder
  BY DEF IncInv
<1>2. CASE i \in Ids(Queue)
  <2> SUFFICES ASSUME i \notin Ids(w) PROVE i \in Trimmed /\ TakenFor(incLive[i], w, i)
    OBVIOUS
  <2>1. PICK e \in Queue : e.id = i
    BY <1>2 DEF Ids
  <2>2. \A f \in Queue : f.id[1] = e.id[1] => f.id[2] <= e.id[2]
    BY <2>1 DEF IncInv, IncLatest
  <2>3. \A y \in RowsOf(w, i[1]) : y.first >= e.first
    BY <1>1, <2>1, <2>2, QueueWritten
  <2>4. Cardinality(RowsOf(w, i[1])) <= IncPerKey
    BY <1>1, <2>1, QueueWritten
  <2>5. HonestOf(e, incTruth) /\ i \in DOMAIN incTruth
    BY <2>1, LiveFacts DEF IncInv, IncHonest
  <2>6. e.first = incLive[i].first
    BY <2>1, <2>5 DEF HonestOf, IncInv, IncFigures
  <2>7. i \in Trimmed
    BY <1>2, TrimmedFacts
  <2>8. e.first \in Int /\ \A y \in RowsOf(w, i[1]) : y.first \in Int
    BY <1>1, <2>1, QueueFacts, QueueWritten, IncRecordFields DEF Table, RowsOf
  <2> QED BY <2>3, <2>4, <2>6, <2>7, <2>8 DEF TakenFor
<1>3. CASE i \notin Ids(Queue)
  <2>1. \A e \in Queue : e.id[1] # i[1]
    BY <1>3 DEF IncInv, IncLatest
  <2>2. RowsOf(w, i[1]) = RowsOf(incRows, i[1])
    BY <1>1, <2>1, QueueWritten
  <2>3. i \in Ids(incRows) => i \in Ids(w)
    BY <2>2 DEF Ids, RowsOf
  <2>4. TakenFor(incLive[i], incRows, i) => TakenFor(incLive[i], w, i)
    BY <2>2 DEF TakenFor
  <2> QED BY <1>3, <2>3, <2>4 DEF IncInv, IncLiveKept
<1> QED BY <1>2, <1>3

LEMMA BoundedWritten ==
    ASSUME IncInv
    PROVE  BoundedIn(WriteQueue(incRows), incTrimmed \cup Trimmed)
<1> DEFINE w == WriteQueue(incRows)
<1>1. QueueInOrder /\ Table(w) /\ IncPerKey \in Nat
  BY QueueWritten, IncAssumption DEF IncInv, IncAssumption
<1> SUFFICES ASSUME NEW k \in IncKeys
             PROVE  /\ Cardinality(RowsOf(w, k)) <= IncPerKey + 1
                    /\ Cardinality(RowsOf(w, k)) > IncPerKey =>
                          \E x \in RowsOf(w, k) :
                             /\ \A y \in RowsOf(w, k) : x.first <= y.first
                             /\ x.id \in incTrimmed \cup Trimmed
  BY DEF BoundedIn
<1>2. Cardinality(RowsOf(w, k)) \in Nat
  BY <1>1, RowsOfFinite
<1>3. CASE \E e \in Queue : e.id[1] = k
  <2>1. Cardinality(RowsOf(w, k)) <= IncPerKey
    BY <1>1, <1>3, QueueWritten
  <2> QED BY <1>1, <1>2, <2>1
<1>4. CASE \A e \in Queue : e.id[1] # k
  <2>1. RowsOf(w, k) = RowsOf(incRows, k)
    BY <1>1, <1>4, QueueWritten
  <2> QED BY <2>1 DEF IncInv, BoundedIn
<1> QED BY <1>3, <1>4

\* The snapshot brings back at most one row of a key, its live incident's.
LEMMA BoundedSnapshot ==
    ASSUME IncInv, incRun = "up"
    PROVE  BoundedIn(WriteSnapshot(WriteQueue(incRows)), incTrimmed \cup Trimmed)
<1> DEFINE w == WriteQueue(incRows)
           s == WriteSnapshot(w)
<1>1. Table(w) /\ IncPerKey \in Nat
  BY QueueWritten, IncAssumption DEF IncInv, IncAssumption
<1>2. Table(s)
  BY <1>1, LiveFacts, SnapshotWritten
<1> SUFFICES ASSUME NEW k \in IncKeys
             PROVE  /\ Cardinality(RowsOf(s, k)) <= IncPerKey + 1
                    /\ Cardinality(RowsOf(s, k)) > IncPerKey =>
                          \E x \in RowsOf(s, k) :
                             /\ \A y \in RowsOf(s, k) : x.first <= y.first
                             /\ x.id \in incTrimmed \cup Trimmed
  BY DEF BoundedIn
<1>3. /\ Cardinality(RowsOf(w, k)) \in Nat /\ Cardinality(RowsOf(w, k)) <= IncPerKey + 1
      /\ Cardinality(RowsOf(w, k)) > IncPerKey =>
            \E x \in RowsOf(w, k) : /\ \A y \in RowsOf(w, k) : x.first <= y.first
                                    /\ x.id \in incTrimmed \cup Trimmed
  BY <1>1, RowsOfFinite, BoundedWritten DEF BoundedIn
<1>4. CASE \A i \in DOMAIN incLive : i[1] # k
  <2>1. RowsOf(s, k) = RowsOf(w, k)
    BY <1>1, <1>4, LiveFacts, SnapshotWritten
  <2> QED BY <1>3, <2>1
<1>5. ASSUME NEW i \in DOMAIN incLive, i[1] = k
      PROVE  /\ Cardinality(RowsOf(s, k)) <= IncPerKey + 1
             /\ Cardinality(RowsOf(s, k)) > IncPerKey =>
                   \E x \in RowsOf(s, k) : /\ \A y \in RowsOf(s, k) : x.first <= y.first
                                           /\ x.id \in incTrimmed \cup Trimmed
  <2> DEFINE e == incLive[i]
             z == Row(w, e)
  <2>1. /\ e \in IncRecord /\ e.id = i /\ RowsOf(s, k) = RowsOf(Upsert(w, e), k)
        /\ e.first \in Int
    BY <1>1, <1>5, LiveFacts, SnapshotWritten, IncRecordFields
  <2>2. z.id = i /\ z.first = e.first
    BY <1>1, <2>1, RowFields
  <2>3. RowsOf(s, k) = {x \in RowsOf(w, k) : x.id # i} \cup {z}
    <3>1. Upsert(w, e) = {x \in w : x.id # i} \cup {z}
      BY <2>1 DEF Upsert
    <3> QED BY <1>5, <2>1, <2>2, <3>1 DEF RowsOf
  <2>4. CASE i \in Ids(w)
    <3>1. Cardinality(RowsOf(s, k)) = Cardinality(RowsOf(w, k))
      BY <1>1, <1>5, <2>1, <2>4, UpsertRows
    <3>2. PICK v \in w : v.id = i
      BY <2>4 DEF Ids
    <3>3. v \in RowsOf(w, k) /\ \A x \in w : x.id = i => x = v
      BY <1>1, <1>5, <3>2 DEF RowsOf, Table
    <3>4. v.first = e.first
      <4>1. HonestOf(v, incTruth) /\ i \in DOMAIN incTruth
        BY <1>5, <3>2, HonestWritten, LiveFacts
      <4> QED BY <1>5, <3>2, <4>1 DEF HonestOf, IncInv, IncFigures
    <3>5. ASSUME NEW x \in RowsOf(w, k), x.id \in incTrimmed \cup Trimmed,
                 \A y \in RowsOf(w, k) : x.first <= y.first
          PROVE  \E x1 \in RowsOf(s, k) : /\ \A y \in RowsOf(s, k) : x1.first <= y.first
                                          /\ x1.id \in incTrimmed \cup Trimmed
      <4>1. \A y \in RowsOf(s, k) : x.first <= y.first
        BY <2>2, <2>3, <3>3, <3>4, <3>5
      <4>2. CASE x.id # i
        BY <2>3, <3>5, <4>1, <4>2
      <4>3. CASE x.id = i
        <5>1. x = v
          BY <3>3, <3>5, <4>3 DEF RowsOf
        <5>2. z \in RowsOf(s, k) /\ z.first = x.first /\ z.id = x.id
          BY <2>2, <2>3, <3>4, <4>3, <5>1
        <5> QED BY <3>5, <4>1, <5>2
      <4> QED BY <4>2, <4>3
    <3> QED BY <1>3, <3>1, <3>5
  <2>5. CASE i \notin Ids(w)
    <3>1. Cardinality(RowsOf(s, k)) = Cardinality(RowsOf(w, k)) + 1
      BY <1>1, <1>5, <2>1, <2>5, UpsertRows
    <3>2. i \in incTrimmed \cup Trimmed /\ TakenFor(e, w, i)
      BY <1>5, <2>5, LiveWritten
    <3>3. \A y \in RowsOf(s, k) : z.first <= y.first
      BY <1>5, <2>1, <2>2, <2>3, <3>2 DEF TakenFor
    <3>4. z \in RowsOf(s, k)
      BY <2>3
    <3>5. Cardinality(RowsOf(s, k)) <= IncPerKey + 1
      BY <1>1, <1>3, <1>5, <3>1, <3>2 DEF TakenFor
    <3> QED BY <2>2, <3>2, <3>3, <3>4, <3>5
  <2> QED BY <2>4, <2>5
<1> QED BY <1>4, <1>5

LEMMA KnownWritten ==
    ASSUME IncInv, incRun = "up",
           NEW i \in DOMAIN incTruth, i \notin incTrimmed \cup Trimmed
    PROVE  /\ i \in Ids(WriteQueue(incRows))
           /\ Knows(WriteQueue(incRows), {}, incTruth[i], i)
<1>1. Knows(incRows, Queue, incTruth[i], i) /\ incTruth[i] \in IncRecord /\ QueueInOrder
  BY DEF IncInv, IncKnown, IncShape
<1>2. i \in Ids(incRows) \cup Ids(Queue)
  BY <1>1 DEF Knows, Ids
<1>3. i \in Ids(WriteQueue(incRows))
  BY <1>2, TrimmedFacts
<1> QED BY <1>1, <1>3, KnowsWritten

LEMMA KnownSnapshot ==
    ASSUME IncInv, incRun = "up",
           NEW i \in DOMAIN incTruth, i \notin incTrimmed \cup Trimmed
    PROVE  Knows(WriteSnapshot(WriteQueue(incRows)), {}, incTruth[i], i)
<1>1. /\ i \in Ids(WriteQueue(incRows))
      /\ Knows(WriteQueue(incRows), {}, incTruth[i], i)
  BY KnownWritten
<1>2. incTruth[i] \in IncRecord /\ Table(WriteQueue(incRows))
  BY QueueWritten DEF IncInv, IncShape
<1>3. i \in DOMAIN incLive =>
         /\ incLive[i].sev = incTruth[i].sev /\ incLive[i].peak <= incTruth[i].peak
         /\ ~ incLive[i].closed
  BY DEF IncInv, IncFigures
<1> QED BY <1>1, <1>2, <1>3, LiveFacts, KnowsSnapshot

-----------------------------------------------------------------------------
(* The steps of the database *)

LEMMA EmptyQueue ==
    ASSUME incQueue' = <<>>
    PROVE  /\ Queue' = {} /\ Ids(Queue)' = {} /\ Len(incQueue') = 0
           /\ incQueue' \in Seq(IncRecord) /\ DOMAIN incQueue' = {}
BY DEF Queue, Ids

\* The invariant's parts that speak of no figures, for a table the queue was
\* written into and any events still queued.
LEMMA StoredKeeps ==
    ASSUME IncInv, incQueue' = <<>>, Table(incRows'),
           \A x \in incRows' : x.id \in Ids(incRows) \cup Ids(Queue) \cup DOMAIN incLive,
           incTrimmed' \subseteq incTrimmed \cup Trimmed,
           incOpened' = incOpened, incTruth' = incTruth,
           incLive' = incLive \/ incLive' = NoIncident
    PROVE  QueueInOrder' /\ IncLatest' /\ IncNumbered' /\ IncFigures'
<1>1. Queue' = {} /\ Ids(Queue)' = {} /\ incQueue' \in Seq(IncRecord) /\ DOMAIN incQueue' = {}
  BY EmptyQueue
<1>2. DOMAIN NoIncident = {}
  BY DEF NoIncident
<1>3. QueueInOrder'
  BY <1>1 DEF QueueInOrder, Table
<1>4. IncFigures'
  BY <1>2 DEF IncInv, IncFigures
<1>5. IncNumbered'
  <2>1. Ids(incRows)' \subseteq Ids(incRows) \cup Ids(Queue) \cup DOMAIN incTruth
    BY LiveFacts DEF Ids
  <2>2. incTrimmed' \subseteq incTrimmed \cup Ids(incRows) \cup Ids(Queue)
    BY WrittenIds
  <2> QED BY <1>1, <2>1, <2>2 DEF IncInv, IncNumbered
<1>6. IncLatest'
  <2>1. CASE incLive' = NoIncident
    BY <1>2, <2>1 DEF IncLatest
  <2>2. CASE incLive' = incLive
    <3> SUFFICES ASSUME NEW i \in DOMAIN incLive, NEW x \in incRows', x.id[1] = i[1]
                 PROVE  x.id[2] <= i[2]
      BY <1>1, <2>2, LiveFacts DEF IncLatest
    <3>1. CASE x.id \in DOMAIN incLive
      <4>1. x.id = i
        BY <3>1, LiveFacts
      <4>2. x.id[2] \in Int
        BY <3>1, LiveFacts, IncRecordFields
      <4> QED BY <4>1, <4>2
    <3>2. CASE x.id \in Ids(incRows) \cup Ids(Queue)
      <4>1. PICK e \in incRows \cup Queue : e.id = x.id
        BY <3>2 DEF Ids
      <4> QED BY <4>1 DEF IncInv, IncLatest
    <3> QED BY <3>1, <3>2
  <2> QED BY <2>1, <2>2
<1> QED BY <1>3, <1>4, <1>5, <1>6

LEMMA HonestSnapshot ==
    ASSUME IncInv
    PROVE  \A y \in WriteSnapshot(WriteQueue(incRows)) : HonestOf(y, incTruth)
<1> DEFINE w == WriteQueue(incRows)
<1>1. Table(w)
  BY QueueWritten DEF IncInv
<1> SUFFICES ASSUME NEW y \in WriteSnapshot(w) PROVE HonestOf(y, incTruth)
  OBVIOUS
<1>2. CASE y \in w
  BY <1>2, HonestWritten
<1>3. CASE y.id \in DOMAIN incLive /\ y = Row(w, incLive[y.id])
  <2> DEFINE e == incLive[y.id]
  <2>1. e \in IncRecord /\ e.id = y.id
    BY <1>3, LiveFacts
  <2>2. HonestOf(e, incTruth)
    BY <1>3, <2>1 DEF HonestOf, IncInv, IncFigures
  <2>3. CASE e.id \notin Ids(w)
    <3>1. y = e
      BY <1>1, <1>3, <2>1, <2>3, RowFields
    <3> QED BY <2>2, <3>1
  <2>4. CASE e.id \in Ids(w)
    <3>1. PICK x \in w : x.id = e.id
      BY <2>4 DEF Ids
    <3>2. x \in IncRecord /\ HonestOf(x, incTruth)
      BY <1>1, <3>1, HonestWritten DEF Table
    <3>3. y = Merged(x, e)
      BY <1>1, <1>3, <2>1, <3>1, RowFields
    <3> QED BY <2>1, <2>2, <3>1, <3>2, <3>3, HonestMerged DEF IncInv, IncShape
  <2> QED BY <2>3, <2>4
<1> QED BY <1>1, <1>2, <1>3, LiveFacts, SnapshotWritten

LEMMA IncTickKeeps == ASSUME IncInv, IncTick PROVE IncInv'
<1> DEFINE w == WriteQueue(incRows)
           s == WriteSnapshot(w)
<1>1. /\ incRun = "up" /\ incQueue' = <<>>
      /\ UNCHANGED <<incRuns, incClock, incOpened, incLive, incTruth>>
      /\ \/ incRows' = s /\ incTrimmed' = incTrimmed \cup Trimmed /\ incRun' = "up"
         \/ UNCHANGED <<incRows, incTrimmed>> /\ incRun' = "off"
  BY DEF IncTick, Commit, Rollback
<1>2. Queue' = {} /\ Ids(Queue)' = {} /\ Len(incQueue') = 0
  BY <1>1, EmptyQueue
<1>3. Table(w) /\ Table(s) /\ Ids(s) = Ids(w) \cup DOMAIN incLive /\ Table(incRows)
  BY QueueWritten, LiveFacts, SnapshotWritten DEF IncInv, QueueInOrder
<1>4. IncShape'
  <2>1. incTrimmed' \subseteq Incidents
    BY <1>1, WrittenIds DEF IncInv, IncShape
  <2> QED BY <1>1, <1>2, <2>1, IncAssumption DEF IncInv, IncShape, IncAssumption
<1>5. QueueInOrder' /\ IncLatest' /\ IncNumbered' /\ IncFigures'
  <2>1. \A x \in incRows' : x.id \in Ids(incRows) \cup Ids(Queue) \cup DOMAIN incLive
    BY <1>1, <1>3, WrittenIds DEF Ids
  <2> HIDE DEF s
  <2>2. Table(incRows')
    BY <1>1, <1>3
  <2>3. incTrimmed' \subseteq incTrimmed \cup Trimmed
    BY <1>1
  <2> QED BY <1>1, <2>1, <2>2, <2>3, StoredKeeps
<1>6. CASE incRows' = s /\ incTrimmed' = incTrimmed \cup Trimmed /\ incRun' = "up"
  <2>1. IncHonest'
    BY <1>1, <1>2, <1>6, HonestSnapshot DEF IncHonest
  <2>2. IncLiveKept'
    <3>1. Ids(incRows)' = Ids(s)
      BY <1>6 DEF Ids
    <3> QED BY <1>1, <1>3, <3>1 DEF IncLiveKept
  <2>3. IncKnown'
    BY <1>1, <1>2, <1>6, KnownSnapshot DEF IncKnown
  <2>4. BoundedIn(incRows, incTrimmed)'
    BY <1>1, <1>6, BoundedSnapshot
  <2> QED BY <1>4, <1>5, <2>1, <2>2, <2>3, <2>4 DEF IncInv
<1>7. CASE UNCHANGED <<incRows, incTrimmed>> /\ incRun' = "off"
  BY <1>1, <1>2, <1>4, <1>5, <1>7 DEF IncInv, IncHonest, IncLiveKept, IncKnown
<1> QED BY <1>1, <1>6, <1>7

LEMMA IncStopKeeps == ASSUME IncInv, IncStop PROVE IncInv'
<1> DEFINE w == WriteQueue(incRows)
<1>1. /\ incRun \in {"up", "off"} /\ incQueue' = <<>> /\ incLive' = NoIncident
      /\ UNCHANGED <<incRuns, incClock, incOpened, incTruth>>
      /\ \/ /\ incRun = "up" /\ incRun' = "saved" /\ incRows' = w
            /\ incTrimmed' = incTrimmed \cup Trimmed
         \/ incRun' = "gone" /\ UNCHANGED <<incRows, incTrimmed>>
  BY DEF IncStop
<1>2. Queue' = {} /\ Ids(Queue)' = {} /\ Len(incQueue') = 0 /\ DOMAIN incLive' = {}
  BY <1>1, EmptyQueue DEF NoIncident
<1>3. Table(w) /\ Table(incRows)
  BY QueueWritten DEF IncInv, QueueInOrder
<1>4. IncShape'
  <2>1. incTrimmed' \subseteq Incidents
    BY <1>1, WrittenIds DEF IncInv, IncShape
  <2> QED BY <1>1, <1>2, <2>1, IncAssumption DEF IncInv, IncShape, IncAssumption
<1>5. QueueInOrder' /\ IncLatest' /\ IncNumbered' /\ IncFigures'
  <2>1. \A x \in incRows' : x.id \in Ids(incRows) \cup Ids(Queue) \cup DOMAIN incLive
    BY <1>1, <1>3, WrittenIds DEF Ids
  <2> HIDE DEF w
  <2>2. Table(incRows') /\ incTrimmed' \subseteq incTrimmed \cup Trimmed
    BY <1>1, <1>3
  <2> QED BY <1>1, <2>1, <2>2, StoredKeeps
<1>6. IncLiveKept'
  BY <1>2 DEF IncLiveKept
<1>7. CASE /\ incRun = "up" /\ incRun' = "saved" /\ incRows' = w
           /\ incTrimmed' = incTrimmed \cup Trimmed
  <2>1. IncHonest'
    BY <1>1, <1>2, <1>7, HonestWritten DEF IncHonest
  <2>2. IncKnown'
    BY <1>1, <1>2, <1>7, KnownWritten DEF IncKnown
  <2>3. BoundedIn(incRows, incTrimmed)'
    BY <1>1, <1>7, BoundedWritten
  <2> QED BY <1>4, <1>5, <1>6, <2>1, <2>2, <2>3 DEF IncInv
<1>8. CASE incRun' = "gone" /\ UNCHANGED <<incRows, incTrimmed>>
  BY <1>1, <1>2, <1>4, <1>5, <1>6, <1>8 DEF IncInv, IncHonest, IncKnown
<1> QED BY <1>1, <1>7, <1>8

LEMMA IncCrashKeeps == ASSUME IncInv, IncCrash PROVE IncInv'
<1>1. /\ incQueue' = <<>> /\ incLive' = NoIncident /\ incRun' = "gone"
      /\ UNCHANGED <<incRuns, incClock, incOpened, incRows, incTruth, incTrimmed>>
  BY DEF IncCrash
<1>2. Queue' = {} /\ Ids(Queue)' = {} /\ Len(incQueue') = 0 /\ DOMAIN incLive' = {}
  BY <1>1, EmptyQueue DEF NoIncident
<1>3. IncShape'
  BY <1>1, <1>2, IncAssumption DEF IncInv, IncShape, IncAssumption
<1>4. QueueInOrder' /\ IncLatest' /\ IncNumbered' /\ IncFigures'
  <2>1. \A x \in incRows' : x.id \in Ids(incRows) \cup Ids(Queue) \cup DOMAIN incLive
    BY <1>1 DEF Ids
  <2>2. Table(incRows')
    BY <1>1 DEF IncInv, QueueInOrder
  <2> QED BY <1>1, <2>1, <2>2, StoredKeeps
<1> QED BY <1>1, <1>2, <1>3, <1>4
     DEF IncInv, IncHonest, IncLiveKept, IncKnown

\* A start knows nothing of earlier runs' incidents; the clock is no figure.
LEMMA IncStartKeeps == ASSUME IncInv, IncStart PROVE IncInv'
<1>1. /\ incRun \in {"saved", "gone"} /\ incRun' = "up" /\ incTruth' = NoIncident
      /\ UNCHANGED <<incClock, incOpened, incLive, incQueue, incRows, incTrimmed>>
  BY DEF IncStart
<1>2. Queue' = Queue /\ DOMAIN incTruth' = {} /\ DOMAIN incLive = {} /\ incQueue = <<>>
  BY <1>1 DEF Queue, NoIncident, IncInv, IncShape
<1>3. IncShape' /\ IncFigures'
  BY <1>1, <1>2 DEF IncInv, IncShape, IncFigures
<1>4. QueueInOrder'
  BY <1>1, <1>2 DEF IncInv, QueueInOrder, Table
<1>5. IncLatest' /\ IncNumbered' /\ IncLiveKept' /\ IncKnown' /\ IncHonest'
  BY <1>1, <1>2 DEF IncInv, IncLatest, IncNumbered, IncLiveKept, IncKnown, IncHonest, HonestOf, Ids
<1>6. BoundedIn(incRows, incTrimmed)'
  BY <1>1 DEF IncInv
<1> QED BY <1>3, <1>4, <1>5, <1>6 DEF IncInv

LEMMA IncWallKeeps ==
    ASSUME IncInv, IncWall \/ UNCHANGED incVars PROVE IncInv'
<1>1. /\ incClock' \in 0 .. IncTicks
      /\ UNCHANGED <<incRun, incRuns, incOpened, incLive, incQueue, incRows,
                     incTruth, incTrimmed>>
  BY DEF IncWall, incVars, IncInv, IncShape
<1>2. Queue' = Queue /\ Ids(Queue)' = Ids(Queue) /\ Ids(incRows)' = Ids(incRows)
  BY <1>1 DEF Queue, Ids
<1>3. IncShape' /\ IncFigures'
  BY <1>1 DEF IncInv, IncShape, IncFigures
<1>4. QueueInOrder'
  BY <1>1, <1>2 DEF IncInv, QueueInOrder, Table
<1>5. IncLatest' /\ IncNumbered' /\ IncLiveKept' /\ IncHonest' /\ IncKnown'
  BY <1>1, <1>2 DEF IncInv, IncLatest, IncNumbered, IncLiveKept, IncKnown, IncHonest
<1>6. BoundedIn(incRows, incTrimmed)'
  BY <1>1 DEF IncInv
<1> QED BY <1>3, <1>4, <1>5, <1>6 DEF IncInv

-----------------------------------------------------------------------------
(* The engine's announcements *)

\* What the three kinds have in common: the record e of an incident newly
\* opened on a key with none live, or of a live one.
Announced(e) ==
    /\ IncAnnounce(e)
    /\ e \in IncRecord /\ e.peak = e.sev
    /\ incOpened' \in 0 .. IncMax /\ incOpened <= incOpened' /\ e.id[2] <= incOpened'
    /\ \/ /\ e.id[2] > incOpened /\ ~ e.closed
          /\ \A i \in DOMAIN incLive : i[1] # e.id[1]
       \/ e.id \in DOMAIN incLive /\ e.first = incLive[e.id].first

LEMMA OpenAnnounced ==
    ASSUME IncInv, NEW k \in IncKeys, NEW s \in IncSevs, IncOpen(k, s)
    PROVE  \E e : Announced(e)
<1> DEFINE e == [id |-> <<k, incOpened + 1>>, first |-> incClock,
                 sev |-> s, peak |-> s, closed |-> FALSE]
<1>1. /\ incOpened \in 0 .. IncMax /\ IncMax \in Nat /\ incClock \in 0 .. IncTicks
  BY IncAssumption DEF IncInv, IncShape, IncAssumption
<1>2. /\ incOpened < IncMax /\ incOpened' = incOpened + 1 /\ IncAnnounce(e)
      /\ \A i \in DOMAIN incLive : i[1] # k
  BY DEF IncOpen
<1>3. incOpened + 1 \in 1 .. IncMax
  BY <1>1, <1>2
<1>4. <<k, incOpened + 1>> \in Incidents
  BY <1>3 DEF Incidents
<1>5. e \in IncRecord
  BY <1>1, <1>4 DEF IncRecord
<1>6. /\ e.id[1] = k /\ e.id[2] = incOpened + 1 /\ e.peak = e.sev /\ ~ e.closed
  OBVIOUS
<1> HIDE DEF e
<1>7. Announced(e)
  BY <1>1, <1>2, <1>3, <1>5, <1>6 DEF Announced
<1> QED BY <1>7

LEMMA MoveAnnounced ==
    ASSUME IncInv, NEW i \in DOMAIN incLive, NEW s \in IncSevs, IncMove(i, s)
    PROVE  \E e : Announced(e)
<1> DEFINE e == [incLive[i] EXCEPT !.sev = s, !.peak = s]
<1>1. /\ incLive[i] \in IncRecord /\ incLive[i].id = i /\ i \in DOMAIN incTruth
      /\ incOpened \in 0 .. IncMax /\ IncMax \in Nat /\ i[2] <= incOpened
  BY IncAssumption, LiveFacts DEF IncInv, IncShape, IncNumbered, IncAssumption
<1>2. incOpened' = incOpened /\ IncAnnounce(e)
  BY DEF IncMove
<1>3. /\ e \in IncRecord /\ e.id = i /\ e.first = incLive[i].first /\ e.peak = e.sev
  BY <1>1 DEF IncRecord
<1> HIDE DEF e
<1>4. Announced(e)
  BY <1>1, <1>2, <1>3 DEF Announced
<1> QED BY <1>4

LEMMA CloseAnnounced ==
    ASSUME IncInv, NEW i \in DOMAIN incLive, IncClose(i)
    PROVE  \E e : Announced(e)
<1> DEFINE e == [incLive[i] EXCEPT !.closed = TRUE]
<1>1. /\ incLive[i] \in IncRecord /\ incLive[i].id = i /\ i \in DOMAIN incTruth
      /\ incLive[i].peak = incLive[i].sev
      /\ incOpened \in 0 .. IncMax /\ IncMax \in Nat /\ i[2] <= incOpened
  BY IncAssumption, LiveFacts DEF IncInv, IncShape, IncNumbered, IncFigures, IncAssumption
<1>2. incOpened' = incOpened /\ IncAnnounce(e)
  BY DEF IncClose
<1>3. /\ e \in IncRecord /\ e.id = i /\ e.first = incLive[i].first /\ e.peak = e.sev
  BY <1>1 DEF IncRecord
<1> HIDE DEF e
<1>4. Announced(e)
  BY <1>1, <1>2, <1>3 DEF Announced
<1> QED BY <1>4

\* The engine's side of an announcement.
LEMMA AnnouncedFigures ==
    ASSUME IncInv, NEW e, Announced(e)
    PROVE  /\ e.id \in DOMAIN incLive <=> e.id \in DOMAIN incTruth
           /\ DOMAIN incTruth' = DOMAIN incTruth \cup {e.id}
           /\ \A i \in DOMAIN incTruth : i # e.id => incTruth'[i] = incTruth[i]
           /\ incTruth'[e.id] \in IncRecord /\ incTruth'[e.id].id = e.id
           /\ incTruth'[e.id].first = e.first /\ incTruth'[e.id].sev = e.sev
           /\ incTruth'[e.id].peak >= e.peak
           /\ incTruth'[e.id].closed = e.closed
           /\ e.id \notin DOMAIN incTruth =>
                 /\ incTruth'[e.id].peak = e.peak
                 /\ e.id \notin Ids(incRows) \cup Ids(Queue) \cup incTrimmed
           /\ e.id \in DOMAIN incTruth =>
                 /\ incTruth'[e.id].peak = Worse(incTruth[e.id].peak, e.peak)
                 /\ incTruth'[e.id].peak >= incTruth[e.id].peak
                 /\ incTruth[e.id].first = e.first /\ ~ incTruth[e.id].closed
           /\ DOMAIN incLive' = IF e.closed THEN DOMAIN incLive \ {e.id}
                                ELSE DOMAIN incLive \cup {e.id}
           /\ \A i \in DOMAIN incLive' : incLive'[i] = IF i = e.id THEN e ELSE incLive[i]
<1> DEFINE worst == IF e.id \in DOMAIN incTruth
                    THEN Worse(incTruth[e.id].peak, e.sev) ELSE e.sev
<1>1. /\ e \in IncRecord /\ e.peak = e.sev /\ e.sev \in IncSevs /\ e.peak \in Int
      /\ e.sev \in Int
  BY IncRecordFields DEF Announced
<1>2. /\ incTruth' = [i \in DOMAIN incTruth \cup {e.id} |->
                        IF i = e.id THEN [e EXCEPT !.peak = worst] ELSE incTruth[i]]
      /\ incLive' = [i \in (DOMAIN incLive \cup {e.id}) \ {c \in {e.id} : e.closed} |->
                        IF i = e.id THEN e ELSE incLive[i]]
  BY DEF Announced, IncAnnounce
<1>3. DOMAIN incTruth' = DOMAIN incTruth \cup {e.id}
      /\ incTruth'[e.id] = [e EXCEPT !.peak = worst]
      /\ \A i \in DOMAIN incTruth : i # e.id => incTruth'[i] = incTruth[i]
  BY <1>2
<1>4. /\ DOMAIN incLive' = IF e.closed THEN DOMAIN incLive \ {e.id}
                           ELSE DOMAIN incLive \cup {e.id}
      /\ \A i \in DOMAIN incLive' : incLive'[i] = IF i = e.id THEN e ELSE incLive[i]
  BY <1>2
<1>5. \A i \in Ids(incRows) \cup Ids(Queue) \cup DOMAIN incTruth \cup incTrimmed :
         i[2] <= incOpened /\ i \in Incidents
  BY WrittenIds, IncRecordFields DEF IncInv, IncNumbered, IncShape
<1>6. CASE e.id \in DOMAIN incLive
  <2>1. /\ e.id \in DOMAIN incTruth /\ incTruth[e.id] \in IncRecord
        /\ incTruth[e.id].peak \in IncSevs /\ incTruth[e.id].peak \in Int
    BY <1>6, LiveFacts, IncRecordFields DEF IncInv, IncShape
  <2>2. /\ worst \in IncSevs /\ worst >= e.peak /\ worst >= incTruth[e.id].peak
        /\ worst = Worse(incTruth[e.id].peak, e.peak)
    BY <1>1, <2>1 DEF Worse
  <2>3. e.first = incLive[e.id].first
    <3>1. e.id[2] <= incOpened
      BY <1>5, <2>1
    <3>2. e.id[2] \in Int /\ incOpened \in Int
      BY <1>1, IncRecordFields DEF IncInv, IncShape
    <3> QED BY <3>1, <3>2 DEF Announced
  <2>4. incTruth[e.id].first = e.first /\ ~ incTruth[e.id].closed
    BY <1>6, <2>3 DEF IncInv, IncFigures
  <2> HIDE DEF worst
  <2>5. /\ incTruth'[e.id] \in IncRecord /\ incTruth'[e.id].id = e.id
        /\ incTruth'[e.id].first = e.first /\ incTruth'[e.id].sev = e.sev
        /\ incTruth'[e.id].peak = worst /\ incTruth'[e.id].closed = e.closed
    BY <1>1, <1>3, <2>2 DEF IncRecord
  <2> QED BY <1>3, <1>4, <1>6, <2>1, <2>2, <2>4, <2>5
<1>7. CASE e.id \notin DOMAIN incLive
  <2>1. e.id[2] > incOpened /\ e.id[2] \in Int /\ incOpened \in Int
    BY <1>1, <1>7, IncRecordFields DEF Announced, IncInv, IncShape
  <2>2. e.id \notin Ids(incRows) \cup Ids(Queue) \cup DOMAIN incTruth \cup incTrimmed
    <3> SUFFICES ASSUME e.id \in Ids(incRows) \cup Ids(Queue) \cup DOMAIN incTruth \cup incTrimmed
                 PROVE  FALSE
      OBVIOUS
    <3>1. e.id[2] <= incOpened
      BY <1>5
    <3> QED BY <2>1, <3>1
  <2>3. worst = e.peak /\ worst \in IncSevs
    BY <1>1, <2>2
  <2> HIDE DEF worst
  <2>4. /\ incTruth'[e.id] \in IncRecord /\ incTruth'[e.id].id = e.id
        /\ incTruth'[e.id].first = e.first /\ incTruth'[e.id].sev = e.sev
        /\ incTruth'[e.id].peak = worst /\ incTruth'[e.id].closed = e.closed
    BY <1>1, <1>3, <2>3 DEF IncRecord
  <2> QED BY <1>1, <1>3, <1>4, <1>7, <2>2, <2>3, <2>4
<1> QED BY <1>6, <1>7

LEMMA AnnouncedLive ==
    ASSUME IncInv, NEW e, Announced(e), NEW i \in DOMAIN incLive'
    PROVE  /\ i # e.id => i \in DOMAIN incLive /\ incLive'[i] = incLive[i]
           /\ i = e.id => ~ e.closed /\ incLive'[i] = e
<1>1. DOMAIN incLive' = IF e.closed THEN DOMAIN incLive \ {e.id}
                        ELSE DOMAIN incLive \cup {e.id}
  BY AnnouncedFigures
<1>2. incLive'[i] = IF i = e.id THEN e ELSE incLive[i]
  BY AnnouncedFigures
<1>3. CASE e.closed
  BY <1>1, <1>2, <1>3
<1>4. CASE ~ e.closed
  BY <1>1, <1>2, <1>4
<1> QED BY <1>3, <1>4

\* The three ways the hook takes an event, and the two it does not.
LEMMA Hooked ==
    ASSUME IncInv, NEW e, Announced(e)
    PROVE  \/ /\ incRun = "up" /\ e.id \in Ids(Queue) /\ incQueue' = Coalesced(e)
              /\ UNCHANGED <<incRun, incRows, incTrimmed>>
           \/ /\ incRun = "up" /\ e.id \notin Ids(Queue) /\ Len(incQueue) < IncQueueMax
              /\ incQueue' = Append(incQueue, e)
              /\ UNCHANGED <<incRun, incRows, incTrimmed>>
           \/ /\ incRun = "up" /\ incRun' = "up" /\ incQueue' = <<e>>
              /\ incRows' = WriteQueue(incRows) /\ incTrimmed' = incTrimmed \cup Trimmed
           \/ /\ incRun' = "off" /\ incQueue' = <<>> /\ UNCHANGED <<incRows, incTrimmed>>
BY DEF Announced, IncAnnounce, Hook, Commit, Rollback, IncInv, IncShape

LEMMA CoalescedQueue ==
    ASSUME QueueInOrder, NEW e \in IncRecord, incQueue' = Coalesced(e)
    PROVE  /\ incQueue' \in Seq(IncRecord) /\ Len(incQueue') = Len(incQueue)
           /\ DOMAIN incQueue' = DOMAIN incQueue
           /\ \A n \in DOMAIN incQueue : /\ incQueue'[n].id = incQueue[n].id
                                         /\ incQueue'[n] \in Queue'
           /\ \A x \in Queue' : \/ x \in Queue /\ x.id # e.id
                                \/ \E y \in Queue : y.id = e.id /\ x = Merged(y, e)
           /\ \A x \in Queue : x.id # e.id => x \in Queue'
           /\ \A x \in Queue : x.id = e.id => Merged(x, e) \in Queue'
           /\ Ids(Queue)' = Ids(Queue)
<1>1. /\ Len(incQueue) \in Nat /\ DOMAIN incQueue = 1 .. Len(incQueue)
      /\ \A n \in DOMAIN incQueue : incQueue[n] \in IncRecord /\ incQueue[n] \in Queue
      /\ \A x \in Queue : x \in IncRecord /\ \E n \in DOMAIN incQueue : x = incQueue[n]
  BY QueueFacts
<1>2. incQueue' = [n \in 1 .. Len(incQueue) |->
                     IF incQueue[n].id = e.id THEN Merged(incQueue[n], e) ELSE incQueue[n]]
  BY <1>1 DEF Coalesced
<1>3. /\ DOMAIN incQueue' = 1 .. Len(incQueue)
      /\ \A n \in 1 .. Len(incQueue) :
            incQueue'[n] = IF incQueue[n].id = e.id THEN Merged(incQueue[n], e)
                           ELSE incQueue[n]
  BY <1>2
<1>4. \A n \in 1 .. Len(incQueue) : incQueue'[n] \in IncRecord
                                      /\ incQueue'[n].id = incQueue[n].id
  BY <1>1, <1>3, MergedFields
<1>5. incQueue' \in [1 .. Len(incQueue) -> IncRecord]
  <2> HIDE DEF IncRecord
  <2> QED BY <1>1, <1>2, <1>4
<1>6. incQueue' \in Seq(IncRecord) /\ Len(incQueue') = Len(incQueue)
  BY <1>1, <1>5
<1>7. Queue' = {incQueue'[n] : n \in 1 .. Len(incQueue)}
  BY <1>3 DEF Queue
<1>8. \A x \in Queue' : \/ x \in Queue /\ x.id # e.id
                        \/ \E y \in Queue : y.id = e.id /\ x = Merged(y, e)
  BY <1>1, <1>3, <1>7
<1>9. /\ \A x \in Queue : x.id # e.id => x \in Queue'
      /\ \A x \in Queue : x.id = e.id => Merged(x, e) \in Queue'
  BY <1>1, <1>3, <1>7
<1>10. Ids(Queue)' = Ids(Queue)
  <2>1. Ids(Queue)' = {incQueue'[n].id : n \in 1 .. Len(incQueue)}
    BY <1>7 DEF Ids
  <2>2. Ids(Queue) = {incQueue[n].id : n \in 1 .. Len(incQueue)}
    BY <1>1 DEF Ids
  <2> QED BY <1>4, <2>1, <2>2
<1> QED BY <1>1, <1>3, <1>4, <1>6, <1>7, <1>8, <1>9, <1>10

LEMMA AppendedQueue ==
    ASSUME QueueInOrder, NEW e \in IncRecord, incQueue' = Append(incQueue, e)
    PROVE  /\ incQueue' \in Seq(IncRecord) /\ Len(incQueue') = Len(incQueue) + 1
           /\ DOMAIN incQueue' = 1 .. Len(incQueue) + 1
           /\ \A n \in 1 .. Len(incQueue) : incQueue'[n] = incQueue[n]
           /\ incQueue'[Len(incQueue) + 1] = e
           /\ Queue' = Queue \cup {e} /\ Ids(Queue)' = Ids(Queue) \cup {e.id}
<1>1. /\ Len(incQueue) \in Nat /\ incQueue \in Seq(IncRecord)
      /\ Queue = {incQueue[n] : n \in 1 .. Len(incQueue)}
  BY QueueFacts DEF QueueInOrder, Queue
<1>2. /\ incQueue' \in Seq(IncRecord) /\ Len(incQueue') = Len(incQueue) + 1
      /\ DOMAIN incQueue' = 1 .. Len(incQueue) + 1
      /\ \A n \in 1 .. Len(incQueue) : incQueue'[n] = incQueue[n]
      /\ incQueue'[Len(incQueue) + 1] = e
  BY <1>1
<1>3. Queue' = {incQueue'[n] : n \in 1 .. Len(incQueue) + 1}
  BY <1>2 DEF Queue
<1>4. Queue' = Queue \cup {e}
  <2>1. \A x \in Queue' : x \in Queue \cup {e}
    <3> SUFFICES ASSUME NEW n \in 1 .. Len(incQueue) + 1
                 PROVE  incQueue'[n] \in Queue \cup {e}
      BY <1>3
    <3>1. n \in 1 .. Len(incQueue) \/ n = Len(incQueue) + 1
      BY <1>1
    <3> QED BY <1>1, <1>2, <3>1
  <2>2. \A x \in Queue \cup {e} : x \in Queue'
    <3>1. 1 .. Len(incQueue) \subseteq 1 .. Len(incQueue) + 1
          /\ Len(incQueue) + 1 \in 1 .. Len(incQueue) + 1
      BY <1>1
    <3> QED BY <1>1, <1>2, <1>3, <3>1
  <2> QED BY <2>1, <2>2
<1>5. Ids(Queue)' = Ids(Queue) \cup {e.id}
  BY <1>4 DEF Ids
<1> QED BY <1>2, <1>4, <1>5

LEMMA SingleQueue ==
    ASSUME NEW e \in IncRecord, incQueue' = <<e>>
    PROVE  /\ incQueue' \in Seq(IncRecord) /\ Len(incQueue') = 1
           /\ DOMAIN incQueue' = {1} /\ incQueue'[1] = e
           /\ Queue' = {e} /\ Ids(Queue)' = {e.id}
<1>1. /\ incQueue' \in Seq(IncRecord) /\ Len(incQueue') = 1
      /\ DOMAIN incQueue' = {1} /\ incQueue'[1] = e
  OBVIOUS
<1> QED BY <1>1 DEF Queue, Ids

\* An announced incident is the latest of its key.
LEMMA AnnouncedLatest ==
    ASSUME IncInv, NEW e, Announced(e),
           NEW x \in incRows \cup Queue, x.id[1] = e.id[1]
    PROVE  /\ x.id[2] <= e.id[2] /\ (x.id # e.id => x.id[2] < e.id[2])
           /\ x \in Queue /\ e.id \notin Ids(Queue) => x.id[2] < e.id[2] /\ e.id \notin DOMAIN incLive
<1>1. x \in IncRecord /\ e \in IncRecord /\ incOpened \in Int
  BY QueueFacts DEF IncInv, QueueInOrder, Table, Announced, IncShape
<1>2. x.id[2] \in Int /\ e.id[2] \in Int /\ x.id \in Incidents /\ e.id \in Incidents
  BY <1>1, IncRecordFields
<1>3. x.id[2] <= incOpened
  BY DEF IncInv, IncNumbered, Ids
<1>4. x.id # e.id => x.id[2] # e.id[2]
  BY <1>2, SameIncident
<1>5. CASE e.id \in DOMAIN incLive
  <2>1. x.id[2] <= e.id[2] /\ (x \in Queue => e.id \in Ids(Queue))
    BY <1>5 DEF IncInv, IncLatest
  <2> QED BY <1>2, <1>4, <2>1
<1>6. CASE e.id \notin DOMAIN incLive
  <2>1. e.id[2] > incOpened
    BY <1>6 DEF Announced
  <2> QED BY <1>1, <1>2, <1>3, <1>6, <2>1
<1> QED BY <1>5, <1>6

LEMMA OffQueue ==
    ASSUME incQueue' = <<>>
    PROVE  QueueInOrder' <=> Table(incRows)'
BY EmptyQueue DEF QueueInOrder

LEMMA AnnouncedStored ==
    ASSUME IncInv, NEW e, Announced(e)
    PROVE  /\ QueueInOrder'
           /\ \A x \in incRows' \cup Queue' : x.id \in Ids(incRows) \cup Ids(Queue) \cup {e.id}
           /\ incTrimmed' \subseteq incTrimmed \cup Ids(incRows) \cup Ids(Queue)
           /\ Queue' = {} \/ e.id \in Ids(Queue)'
           /\ Ids(Queue) \subseteq Ids(Queue)' \/ Ids(Queue)' \subseteq {e.id}
           /\ Len(incQueue') <= IncQueueMax
<1>1. QueueInOrder /\ Table(incRows) /\ e \in IncRecord /\ Len(incQueue) <= IncQueueMax
      /\ Len(incQueue) \in Nat /\ IncQueueMax \in Nat \ {0}
  BY QueueFacts, IncAssumption DEF IncInv, QueueInOrder, Announced, IncShape, IncAssumption
<1>2. CASE /\ incRun = "up" /\ e.id \in Ids(Queue) /\ incQueue' = Coalesced(e)
           /\ UNCHANGED <<incRun, incRows, incTrimmed>>
  <2>1. /\ incQueue' \in Seq(IncRecord) /\ Len(incQueue') = Len(incQueue)
        /\ DOMAIN incQueue' = DOMAIN incQueue
        /\ \A n \in DOMAIN incQueue : incQueue'[n].id = incQueue[n].id
        /\ Ids(Queue)' = Ids(Queue)
    BY <1>1, <1>2, CoalescedQueue
  <2>2. \A x \in Queue' : \E y \in Queue : x.id = y.id
    BY <2>1 DEF Ids
  <2>3. QueueInOrder'
    BY <1>1, <1>2, <2>1, <2>2 DEF QueueInOrder, Table
  <2>4. \A x \in incRows' \cup Queue' : x.id \in Ids(incRows) \cup Ids(Queue)
    BY <1>2, <2>2 DEF Ids
  <2> QED BY <1>1, <1>2, <2>1, <2>3, <2>4
<1>3. CASE /\ incRun = "up" /\ e.id \notin Ids(Queue) /\ Len(incQueue) < IncQueueMax
           /\ incQueue' = Append(incQueue, e)
           /\ UNCHANGED <<incRun, incRows, incTrimmed>>
  <2>1. /\ incQueue' \in Seq(IncRecord) /\ Len(incQueue') = Len(incQueue) + 1
        /\ DOMAIN incQueue' = 1 .. Len(incQueue) + 1
        /\ DOMAIN incQueue = 1 .. Len(incQueue)
        /\ \A n \in 1 .. Len(incQueue) : incQueue'[n] = incQueue[n] /\ incQueue[n] \in Queue
        /\ incQueue'[Len(incQueue) + 1] = e
        /\ Queue' = Queue \cup {e} /\ Ids(Queue)' = Ids(Queue) \cup {e.id}
    BY <1>1, <1>3, AppendedQueue, QueueFacts
  <2>2. \A x \in incRows \cup Queue : x.id[1] = e.id[1] => x.id[2] <= e.id[2]
    BY AnnouncedLatest
  <2>3. \A x \in Queue : x.id # e.id /\ (x.id[1] = e.id[1] => x.id[2] < e.id[2])
    BY <1>3, AnnouncedLatest DEF Ids
  <2>4. \A x \in incRows', f \in Queue' : x.id[1] = f.id[1] => x.id[2] <= f.id[2]
    BY <1>1, <1>3, <2>1, <2>2 DEF QueueInOrder
  <2>5. \A m, n \in DOMAIN incQueue' :
           /\ incQueue'[m].id = incQueue'[n].id => m = n
           /\ m < n /\ incQueue'[m].id[1] = incQueue'[n].id[1]
                 => incQueue'[m].id[2] < incQueue'[n].id[2]
    <3> SUFFICES ASSUME NEW m \in 1 .. Len(incQueue) + 1, NEW n \in 1 .. Len(incQueue) + 1
                 PROVE  /\ incQueue'[m].id = incQueue'[n].id => m = n
                        /\ m < n /\ incQueue'[m].id[1] = incQueue'[n].id[1]
                              => incQueue'[m].id[2] < incQueue'[n].id[2]
      BY <2>1
    <3>1. CASE m \in 1 .. Len(incQueue) /\ n \in 1 .. Len(incQueue)
      BY <1>1, <2>1, <3>1 DEF QueueInOrder
    <3>2. CASE m \in 1 .. Len(incQueue) /\ n = Len(incQueue) + 1
      BY <2>1, <2>3, <3>2
    <3>3. CASE m = Len(incQueue) + 1 /\ n \in 1 .. Len(incQueue)
      BY <1>1, <2>1, <2>3, <3>3
    <3>4. CASE m = Len(incQueue) + 1 /\ n = Len(incQueue) + 1
      BY <1>1, <3>4
    <3> QED BY <1>1, <3>1, <3>2, <3>3, <3>4
  <2>6. QueueInOrder'
    BY <1>1, <1>3, <2>1, <2>4, <2>5 DEF QueueInOrder, Table
  <2>7. \A x \in incRows' \cup Queue' : x.id \in Ids(incRows) \cup Ids(Queue) \cup {e.id}
    BY <1>3, <2>1 DEF Ids
  <2>8. e.id \in Ids(Queue)' /\ Ids(Queue) \subseteq Ids(Queue)'
    BY <2>1
  <2>9. Len(incQueue') <= IncQueueMax /\ incTrimmed' = incTrimmed
    BY <1>1, <1>3, <2>1
  <2> QED BY <2>6, <2>7, <2>8, <2>9
<1>4. CASE /\ incRun = "up" /\ incRun' = "up" /\ incQueue' = <<e>>
           /\ incRows' = WriteQueue(incRows) /\ incTrimmed' = incTrimmed \cup Trimmed
  <2>1. /\ incQueue' \in Seq(IncRecord) /\ Len(incQueue') = 1
        /\ DOMAIN incQueue' = {1} /\ incQueue'[1] = e
        /\ Queue' = {e} /\ Ids(Queue)' = {e.id}
    BY <1>1, <1>4, SingleQueue
  <2>2. Table(incRows') /\ \A x \in incRows' : x.id \in Ids(incRows) \cup Ids(Queue)
    BY <1>1, <1>4, QueueWritten, WrittenIds DEF Ids
  <2>3. \A x \in incRows' : x.id[1] = e.id[1] => x.id[2] <= e.id[2]
    <3> SUFFICES ASSUME NEW x \in incRows', x.id[1] = e.id[1] PROVE x.id[2] <= e.id[2]
      OBVIOUS
    <3>1. PICK y \in incRows \cup Queue : y.id = x.id
      BY <2>2 DEF Ids
    <3> QED BY <3>1, AnnouncedLatest
  <2>4. QueueInOrder'
    BY <1>4, <2>1, <2>2, <2>3 DEF QueueInOrder, Table
  <2>5. incTrimmed' \subseteq incTrimmed \cup Ids(incRows) \cup Ids(Queue)
    BY <1>4, WrittenIds
  <2>6. \A x \in incRows' \cup Queue' : x.id \in Ids(incRows) \cup Ids(Queue) \cup {e.id}
    BY <2>1, <2>2
  <2>7. e.id \in Ids(Queue)' /\ Ids(Queue)' \subseteq {e.id}
    BY <2>1
  <2>8. Len(incQueue') <= IncQueueMax
    BY <1>1, <2>1
  <2> QED BY <2>4, <2>5, <2>6, <2>7, <2>8
<1>5. CASE incRun' = "off" /\ incQueue' = <<>> /\ UNCHANGED <<incRows, incTrimmed>>
  <2>1. Queue' = {} /\ Ids(Queue)' = {} /\ Len(incQueue') = 0
    BY <1>5, EmptyQueue
  <2>2. Table(incRows)'
    BY <1>1, <1>5 DEF Table
  <2>3. QueueInOrder'
    BY <1>5, <2>2, OffQueue
  <2> QED BY <1>1, <1>5, <2>1, <2>3 DEF Ids
<1> QED BY <1>2, <1>3, <1>4, <1>5, Hooked

LEMMA HonestEvent ==
    ASSUME IncInv, NEW e, Announced(e)
    PROVE  /\ HonestOf(e, incTruth')
           /\ \A i \in DOMAIN incTruth' : incTruth'[i] \in IncRecord
           /\ \A x \in IncRecord :
                 HonestOf(x, incTruth) /\ x.id \in Ids(incRows) \cup Ids(Queue)
                    => HonestOf(x, incTruth')
<1>1. HonestOf(e, incTruth')
  BY AnnouncedFigures, IncRecordFields DEF HonestOf, Announced
<1>2. \A i \in DOMAIN incTruth' : incTruth'[i] \in IncRecord
  <2>1. \A i \in DOMAIN incTruth : incTruth[i] \in IncRecord
    BY DEF IncInv, IncShape
  <2>2. /\ DOMAIN incTruth' = DOMAIN incTruth \cup {e.id} /\ incTruth'[e.id] \in IncRecord
        /\ \A i \in DOMAIN incTruth : i # e.id => incTruth'[i] = incTruth[i]
    BY AnnouncedFigures
  <2> QED BY <2>1, <2>2
<1>3. ASSUME NEW x \in IncRecord, HonestOf(x, incTruth), x.id \in Ids(incRows) \cup Ids(Queue)
      PROVE  HonestOf(x, incTruth')
  <2>1. CASE x.id # e.id
    BY <1>3, <2>1, AnnouncedFigures DEF HonestOf
  <2>2. CASE x.id = e.id
    <3>1. e.id \in DOMAIN incTruth
      BY <1>3, <2>2, AnnouncedFigures
    <3>2. /\ x.peak \in Int /\ incTruth[e.id].peak \in Int /\ incTruth'[e.id].peak \in Int
          /\ incTruth'[e.id].peak >= incTruth[e.id].peak
          /\ incTruth[e.id].first = incTruth'[e.id].first /\ ~ incTruth[e.id].closed
      BY <3>1, AnnouncedFigures, IncRecordFields DEF IncInv, IncShape
    <3> QED BY <1>3, <2>2, <3>1, <3>2 DEF HonestOf
  <2> QED BY <2>1, <2>2
<1> QED BY <1>1, <1>2, <1>3

LEMMA AnnouncedHonest ==
    ASSUME IncInv, NEW e, Announced(e)
    PROVE  IncHonest'
<1>1. QueueInOrder /\ Table(incRows) /\ e \in IncRecord
  BY DEF IncInv, QueueInOrder, Announced
<1>2. \A x \in incRows \cup Queue : /\ x \in IncRecord /\ HonestOf(x, incTruth)
                                    /\ x.id \in Ids(incRows) \cup Ids(Queue)
  BY <1>1, QueueFacts DEF IncInv, IncHonest, Table, Ids
<1>3. \A x \in incRows \cup Queue : HonestOf(x, incTruth')
  BY <1>2, HonestEvent
<1>4. \A x \in WriteQueue(incRows) : HonestOf(x, incTruth')
  <2>1. \A x \in WriteQueue(incRows) :
           /\ x \in IncRecord /\ HonestOf(x, incTruth)
           /\ x.id \in Ids(incRows) \cup Ids(Queue)
    BY <1>1, QueueWritten, HonestWritten, WrittenIds DEF Table, Ids
  <2> QED BY <2>1, HonestEvent
<1>5. HonestOf(e, incTruth') /\ \A i \in DOMAIN incTruth' : incTruth'[i] \in IncRecord
  BY HonestEvent
<1>6. \A y \in Queue : y.id = e.id => HonestOf(Merged(y, e), incTruth')
  BY <1>1, <1>2, <1>3, <1>5, HonestMerged
<1>7. CASE incQueue' = Coalesced(e) /\ incRows' = incRows
  <2>1. \A x \in Queue' : \/ x \in Queue
                          \/ \E y \in Queue : y.id = e.id /\ x = Merged(y, e)
    BY <1>1, <1>7, CoalescedQueue
  <2> QED BY <1>3, <1>6, <1>7, <2>1 DEF IncHonest
<1>8. CASE incQueue' = Append(incQueue, e) /\ incRows' = incRows
  <2>1. Queue' = Queue \cup {e}
    BY <1>1, <1>8, AppendedQueue
  <2> QED BY <1>3, <1>5, <1>8, <2>1 DEF IncHonest
<1>9. CASE incQueue' = <<e>> /\ incRows' = WriteQueue(incRows)
  <2>1. Queue' = {e}
    BY <1>1, <1>9, SingleQueue
  <2> QED BY <1>4, <1>5, <1>9, <2>1 DEF IncHonest
<1>10. CASE incQueue' = <<>> /\ incRows' = incRows
  <2>1. Queue' = {}
    BY <1>10, EmptyQueue
  <2> QED BY <1>3, <1>10, <2>1 DEF IncHonest
<1> QED BY <1>7, <1>8, <1>9, <1>10, Hooked

LEMMA AnnouncedShape ==
    ASSUME IncInv, NEW e, Announced(e)
    PROVE  IncShape' /\ IncFigures'
<1>1. /\ incRun \in {"up", "off"} /\ incRun' \in {"up", "off"}
      /\ incRun' # "up" => incQueue' = <<>>
  <2>1. incRun \in {"up", "off"}
    BY DEF Announced, IncAnnounce
  <2> QED BY <2>1, Hooked
<1>2. incClock' = incClock /\ incOpened' \in 0 .. IncMax
  BY DEF Announced, IncAnnounce
<1>3. Len(incQueue') <= IncQueueMax
  BY AnnouncedStored
<1>4. incTrimmed' \subseteq Incidents
  BY AnnouncedStored, WrittenIds DEF IncInv, IncShape
<1>5. e \in IncRecord /\ e.peak = e.sev
  BY DEF Announced
<1>6. /\ DOMAIN incTruth' = DOMAIN incTruth \cup {e.id}
      /\ \A i \in DOMAIN incTruth : i # e.id => incTruth'[i] = incTruth[i]
      /\ incTruth'[e.id] \in IncRecord /\ incTruth'[e.id].id = e.id
      /\ incTruth'[e.id].first = e.first /\ incTruth'[e.id].sev = e.sev
      /\ incTruth'[e.id].peak >= e.peak /\ incTruth'[e.id].closed = e.closed
  BY AnnouncedFigures
<1>7. /\ \A i \in DOMAIN incLive' : i \in DOMAIN incLive \cup {e.id}
      /\ e.id \in DOMAIN incLive' => ~ e.closed
      /\ \A i \in DOMAIN incLive' : incLive'[i] = IF i = e.id THEN e ELSE incLive[i]
  BY AnnouncedLive
<1>8. /\ incClock \in 0 .. IncTicks
      /\ \A i \in DOMAIN incTruth : incTruth[i] \in IncRecord /\ incTruth[i].id = i
      /\ \A i \in DOMAIN incLive : /\ incLive[i] \in IncRecord /\ incLive[i].id = i
                                   /\ i \in DOMAIN incTruth
  BY DEF IncInv, IncShape
<1>9. \A i \in DOMAIN incTruth' : incTruth'[i] \in IncRecord /\ incTruth'[i].id = i
  BY <1>6, <1>8
<1>10. \A i \in DOMAIN incLive' : /\ incLive'[i] \in IncRecord /\ incLive'[i].id = i
                                  /\ i \in DOMAIN incTruth'
  BY <1>5, <1>6, <1>7, <1>8
<1>11. IncShape'
  BY <1>1, <1>2, <1>3, <1>4, <1>8, <1>9, <1>10 DEF IncShape
<1>12. IncFigures'
  <2> SUFFICES ASSUME NEW i \in DOMAIN incLive'
               PROVE  /\ incLive'[i].first = incTruth'[i].first
                      /\ incLive'[i].sev = incTruth'[i].sev
                      /\ incLive'[i].peak = incLive'[i].sev
                      /\ incLive'[i].peak <= incTruth'[i].peak
                      /\ ~ incLive'[i].closed /\ ~ incTruth'[i].closed
    BY DEF IncFigures
  <2>1. CASE i = e.id
    <3>1. e.peak <= incTruth'[i].peak
      BY <1>5, <1>6, <2>1, IncRecordFields
    <3> QED BY <1>5, <1>6, <1>7, <2>1, <3>1
  <2>2. CASE i # e.id
    <3>1. i \in DOMAIN incLive /\ incLive'[i] = incLive[i] /\ incTruth'[i] = incTruth[i]
      BY <1>6, <1>7, <1>8, <2>2
    <3> QED BY <3>1 DEF IncInv, IncFigures
  <2> QED BY <2>1, <2>2
<1> QED BY <1>11, <1>12

LEMMA AnnouncedOrder ==
    ASSUME IncInv, NEW e, Announced(e)
    PROVE  IncLatest' /\ IncNumbered'
<1>1. /\ \A x \in incRows' \cup Queue' : x.id \in Ids(incRows) \cup Ids(Queue) \cup {e.id}
      /\ incTrimmed' \subseteq incTrimmed \cup Ids(incRows) \cup Ids(Queue)
      /\ Queue' = {} \/ e.id \in Ids(Queue)'
      /\ Ids(Queue) \subseteq Ids(Queue)' \/ Ids(Queue)' \subseteq {e.id}
  BY AnnouncedStored
<1>2. /\ e \in IncRecord /\ e.id[2] \in Int /\ e.id[2] <= incOpened'
      /\ incOpened \in Int /\ incOpened' \in Int /\ incOpened <= incOpened'
  BY IncRecordFields DEF Announced, IncInv, IncShape
<1>3. \A i \in Ids(incRows) \cup Ids(Queue) \cup DOMAIN incTruth \cup incTrimmed :
         i[2] <= incOpened /\ i[2] \in Int
  <2>1. \A i \in Ids(incRows) \cup Ids(Queue) \cup DOMAIN incTruth \cup incTrimmed : i \in Incidents
    BY WrittenIds, IncRecordFields DEF IncInv, IncShape
  <2>2. \A i \in Incidents : i[2] \in Int
    BY IncAssumption DEF Incidents, IncAssumption
  <2> QED BY <2>1, <2>2 DEF IncInv, IncNumbered
<1>4. IncNumbered'
  <2>1. DOMAIN incTruth' = DOMAIN incTruth \cup {e.id}
    BY AnnouncedFigures
  <2>2. Ids(incRows)' \cup Ids(Queue)' \subseteq Ids(incRows) \cup Ids(Queue) \cup {e.id}
    BY <1>1 DEF Ids
  <2>3. \A i \in Ids(incRows)' \cup Ids(Queue)' \cup DOMAIN incTruth' \cup incTrimmed' :
           i \in Ids(incRows) \cup Ids(Queue) \cup DOMAIN incTruth \cup incTrimmed \cup {e.id}
    BY <1>1, <2>1, <2>2
  <2>4. \A i \in Ids(incRows)' \cup Ids(Queue)' \cup DOMAIN incTruth' \cup incTrimmed' :
           i[2] <= incOpened'
    BY <1>2, <1>3, <2>3
  <2> QED BY <2>4 DEF IncNumbered
<1>5. ASSUME NEW i \in DOMAIN incLive', i[1] = e.id[1] PROVE i = e.id
  <2>1. i \in DOMAIN incLive \/ i = e.id
    BY AnnouncedLive
  <2>2. CASE i \in DOMAIN incLive
    BY <1>5, <2>2, LiveFacts DEF Announced
  <2> QED BY <2>1, <2>2
<1>6. \A x \in incRows' \cup Queue' : x.id[1] = e.id[1] => x.id[2] <= e.id[2]
  <2> SUFFICES ASSUME NEW x \in incRows' \cup Queue', x.id[1] = e.id[1] PROVE x.id[2] <= e.id[2]
    OBVIOUS
  <2>1. CASE x.id = e.id
    BY <1>2, <2>1
  <2>2. CASE x.id # e.id
    <3>1. PICK y \in incRows \cup Queue : y.id = x.id
      BY <1>1, <2>2 DEF Ids
    <3> QED BY <3>1, AnnouncedLatest
  <2> QED BY <2>1, <2>2
<1>7. IncLatest'
  <2> SUFFICES ASSUME NEW i \in DOMAIN incLive'
               PROVE  /\ \A x \in incRows' \cup Queue' : x.id[1] = i[1] => x.id[2] <= i[2]
                      /\ \A x \in Queue' : x.id[1] = i[1] => i \in Ids(Queue)'
                      /\ \A j \in DOMAIN incLive' : j[1] = i[1] => j = i
    BY DEF IncLatest
  <2>1. CASE i[1] = e.id[1]
    <3>1. i = e.id
      BY <1>5, <2>1
    <3>2. \A x \in Queue' : e.id \in Ids(Queue)'
      BY <1>1
    <3>3. \A j \in DOMAIN incLive' : j[1] = i[1] => j = i
      BY <1>5, <2>1, <3>1
    <3> QED BY <1>6, <3>1, <3>2, <3>3
  <2>2. CASE i[1] # e.id[1]
    <3>1. i \in DOMAIN incLive
      BY <2>2, AnnouncedLive
    <3>2. \A x \in incRows' \cup Queue' : x.id[1] = i[1] => x.id[2] <= i[2]
      <4> SUFFICES ASSUME NEW x \in incRows' \cup Queue', x.id[1] = i[1] PROVE x.id[2] <= i[2]
        OBVIOUS
      <4>1. PICK y \in incRows \cup Queue : y.id = x.id
        BY <1>1, <2>2 DEF Ids
      <4> QED BY <3>1, <4>1 DEF IncInv, IncLatest
    <3>3. ASSUME NEW x \in Queue', x.id[1] = i[1] PROVE i \in Ids(Queue)'
      <4>1. x.id \in Ids(Queue)' /\ x.id # e.id
        BY <2>2, <3>3 DEF Ids
      <4>2. Ids(Queue) \subseteq Ids(Queue)'
        BY <1>1, <4>1
      <4>3. CASE x.id \in Ids(Queue)
        <5>1. PICK y \in Queue : y.id = x.id
          BY <4>3 DEF Ids
        <5>2. i \in Ids(Queue)
          BY <3>1, <3>3, <5>1 DEF IncInv, IncLatest
        <5> QED BY <4>2, <5>2
      <4>4. x.id \in Ids(Queue)
        <5>1. CASE incQueue' = Coalesced(e)
          BY <1>2, <4>1, <5>1, CoalescedQueue DEF IncInv
        <5>2. CASE incQueue' = Append(incQueue, e)
          BY <1>2, <4>1, <5>2, AppendedQueue DEF IncInv
        <5>3. CASE incQueue' = <<e>>
          BY <1>2, <4>1, <5>3, SingleQueue
        <5>4. CASE incQueue' = <<>>
          BY <4>1, <5>4, EmptyQueue
        <5> QED BY <5>1, <5>2, <5>3, <5>4, Hooked
      <4> QED BY <4>3, <4>4
    <3>4. \A j \in DOMAIN incLive' : j[1] = i[1] => j = i
      <4>1. \A j \in DOMAIN incLive' : j[1] = i[1] => j \in DOMAIN incLive
        BY <2>2, AnnouncedLive
      <4> QED BY <3>1, <4>1, LiveFacts
    <3> QED BY <3>2, <3>3, <3>4
  <2> QED BY <2>1, <2>2
<1> QED BY <1>4, <1>7

LEMMA AnnouncedKept ==
    ASSUME IncInv, NEW e, Announced(e)
    PROVE  IncLiveKept' /\ BoundedIn(incRows, incTrimmed)'
<1>1. QueueInOrder /\ e \in IncRecord
  BY DEF IncInv, Announced
<1>2. \A i \in DOMAIN incLive' : i # e.id => i \in DOMAIN incLive /\ incLive'[i] = incLive[i]
  BY AnnouncedLive
<1>3. CASE /\ incRun = "up" /\ UNCHANGED <<incRows, incTrimmed>>
           /\ Ids(Queue)' = Ids(Queue) \cup {e.id}
  <2>1. Ids(incRows)' = Ids(incRows)
    BY <1>3 DEF Ids
  <2>2. IncLiveKept'
    BY <1>2, <1>3, <2>1 DEF IncInv, IncLiveKept
  <2>3. BoundedIn(incRows, incTrimmed)'
    BY <1>3 DEF IncInv
  <2> QED BY <2>2, <2>3
<1>4. CASE /\ incRun = "up" /\ incQueue' = <<e>>
           /\ incRows' = WriteQueue(incRows) /\ incTrimmed' = incTrimmed \cup Trimmed
  <2>1. Ids(Queue)' = {e.id}
    BY <1>1, <1>4, SingleQueue
  <2>2. Ids(incRows)' = Ids(WriteQueue(incRows))
    BY <1>4 DEF Ids
  <2>3. IncLiveKept'
    <3> SUFFICES ASSUME NEW i \in DOMAIN incLive', i # e.id
                 PROVE  \/ i \in Ids(incRows)'
                        \/ i \in incTrimmed' /\ TakenFor(incLive'[i], incRows', i)
      BY <2>1 DEF IncLiveKept
    <3>1. i \in DOMAIN incLive /\ incLive'[i] = incLive[i]
      BY <1>2
    <3> QED BY <1>4, <2>2, <3>1, LiveWritten
  <2>4. BoundedIn(incRows, incTrimmed)'
    BY <1>4, BoundedWritten
  <2> QED BY <2>3, <2>4
<1>5. CASE incRun' = "off" /\ UNCHANGED <<incRows, incTrimmed>>
  BY <1>5 DEF IncInv, IncLiveKept
<1>6. incQueue' = Coalesced(e) /\ e.id \in Ids(Queue) => Ids(Queue)' = Ids(Queue) \cup {e.id}
  BY <1>1, CoalescedQueue
<1>7. incQueue' = Append(incQueue, e) => Ids(Queue)' = Ids(Queue) \cup {e.id}
  BY <1>1, AppendedQueue
<1> QED BY <1>3, <1>4, <1>5, <1>6, <1>7, Hooked

\* An event of another incident changes nothing of what is known of i.
LEMMA KnowsOther ==
    ASSUME NEW r, NEW q, NEW p, NEW t, NEW i, Knows(r, q, t, i),
           \A f : f.id = i => (f \in p <=> f \in q)
    PROVE  Knows(r, p, t, i)
<1>1. {f \in r \cup p : f.id = i} = {f \in r \cup q : f.id = i}
  OBVIOUS
<1>2. i \in Ids(p) <=> i \in Ids(q)
  BY DEF Ids
<1>3. \A f \in p : f.id = i => f \in q
  OBVIOUS
<1> QED BY <1>1, <1>2, <1>3 DEF Knows

\* The first that is queued of an incident is all that is known of it.
LEMMA KnowsFirst ==
    ASSUME NEW r, NEW q, NEW u, NEW e \in IncRecord, e.id \notin Ids(r) \cup Ids(q),
           u.sev = e.sev, u.peak = e.peak, u.closed = e.closed
    PROVE  Knows(r, q \cup {e}, u, e.id)
<1>1. {f \in r \cup (q \cup {e}) : f.id = e.id} = {e}
  BY DEF Ids
<1>2. e.id \in Ids(q \cup {e}) /\ \A f \in q \cup {e} : f.id = e.id => f = e
  BY DEF Ids
<1>3. e.peak \in Int
  BY IncRecordFields
<1> QED BY <1>1, <1>2, <1>3 DEF Knows

LEMMA KnowsCoalesced ==
    ASSUME QueueInOrder, NEW t \in IncRecord, NEW u \in IncRecord, NEW e \in IncRecord,
           Knows(incRows, Queue, t, e.id), e.id \in Ids(Queue), incQueue' = Coalesced(e),
           ~ t.closed, u.sev = e.sev, u.peak = Worse(t.peak, e.peak), u.closed = e.closed
    PROVE  Knows(incRows, Queue', u, e.id)
<1> DEFINE A == {f \in incRows : f.id = e.id}
<1>1. PICK y \in Queue : y.id = e.id
  BY DEF Ids
<1>2. y \in IncRecord /\ \A f \in Queue : f.id = e.id => f = y
  BY <1>1, QueueFacts
<1> DEFINE m == Merged(y, e)
<1>3. /\ m.id = e.id /\ m.sev = e.sev /\ m.peak \in {e.peak, y.peak}
      /\ m.peak >= e.peak /\ m.peak >= y.peak /\ (m.closed <=> (y.closed \/ e.closed))
  BY <1>2, MergedFields
<1>4. /\ m \in Queue' /\ \A f \in Queue' : f.id = e.id => f = m
      /\ e.id \in Ids(Queue)'
  BY <1>1, <1>2, CoalescedQueue
<1> HIDE DEF m
<1>5. /\ {f \in incRows \cup Queue : f.id = e.id} = A \cup {y}
      /\ {f \in incRows \cup Queue' : f.id = e.id} = A \cup {m}
  <2>1. {f \in incRows \cup Queue : f.id = e.id} = A \cup {y}
    BY <1>1, <1>2
  <2>2. {f \in incRows \cup Queue' : f.id = e.id} = A \cup {m}
    BY <1>3, <1>4
  <2> QED BY <2>1, <2>2
<1>6. /\ \A f \in A \cup {y} : f.peak <= t.peak /\ ~ f.closed
      /\ \E f \in A \cup {y} : f.peak = t.peak
  <2> HIDE DEF A
  <2> QED BY <1>5 DEF Knows
<1>7. /\ t.peak \in Int /\ e.peak \in Int /\ y.peak \in Int
      /\ \A f \in A : f.peak \in Int
  <2>1. \A f \in A : f \in IncRecord
    BY DEF QueueInOrder, Table
  <2> QED BY <1>2, <2>1, IncRecordFields
<1>8. u.peak \in {t.peak, e.peak} /\ u.peak >= t.peak /\ u.peak >= e.peak
  BY <1>7 DEF Worse
<1> HIDE DEF A
<1>9. y.peak <= t.peak
  BY <1>6
<1>10. m.peak <= u.peak /\ m.peak \in Int
  BY <1>3, <1>7, <1>8, <1>9
<1>11. \A f \in A \cup {m} : f.peak <= u.peak
  BY <1>6, <1>7, <1>8, <1>10
<1>12. \E f \in A \cup {m} : f.peak = u.peak
  <2>1. CASE u.peak = e.peak
    <3>1. m.peak = u.peak
      BY <1>3, <1>7, <1>8, <1>10, <2>1
    <3> QED BY <3>1
  <2>2. CASE u.peak = t.peak
    <3>1. PICK f \in A \cup {y} : f.peak = t.peak
      BY <1>6
    <3>2. CASE f \in A
      BY <2>2, <3>1, <3>2
    <3>3. CASE f = y
      <4>1. m.peak = u.peak
        BY <1>3, <1>7, <1>8, <1>10, <2>2, <3>1, <3>3
      <4> QED BY <4>1
    <3> QED BY <3>1, <3>2, <3>3
  <2> QED BY <1>8, <2>1, <2>2
<1>13. (\E f \in A \cup {m} : f.closed) <=> u.closed
  BY <1>3, <1>6
<1>14. \A f \in Queue' : f.id = e.id => f.sev = u.sev
  BY <1>3, <1>4
<1>15. Ids(Queue)' = Ids(Queue')
  BY DEF Ids
<1> QED BY <1>4, <1>5, <1>11, <1>12, <1>13, <1>14, <1>15 DEF Knows

LEMMA AnnouncedKnown ==
    ASSUME IncInv, NEW e, Announced(e)
    PROVE  IncKnown'
<1>1. QueueInOrder /\ e \in IncRecord /\ Table(incRows) /\ Queue \subseteq IncRecord
  BY QueueFacts DEF IncInv, QueueInOrder, Announced
<1>2. incRun' = "saved" => FALSE
  BY Hooked DEF Announced, IncAnnounce
<1> SUFFICES ASSUME incRun' = "up", NEW i \in DOMAIN incTruth', i \notin incTrimmed'
             PROVE  Knows(incRows', Queue', incTruth'[i], i)
  BY <1>2 DEF IncKnown
<1> DEFINE u == incTruth'[e.id]
<1>3. /\ u \in IncRecord /\ u.sev = e.sev /\ u.closed = e.closed
      /\ e.id \notin DOMAIN incTruth =>
            u.peak = e.peak /\ e.id \notin Ids(incRows) \cup Ids(Queue)
      /\ e.id \in DOMAIN incTruth =>
            u.peak = Worse(incTruth[e.id].peak, e.peak) /\ ~ incTruth[e.id].closed
  BY AnnouncedFigures
<1>4. i # e.id => i \in DOMAIN incTruth /\ incTruth'[i] = incTruth[i]
  <2>1. /\ DOMAIN incTruth' = DOMAIN incTruth \cup {e.id}
        /\ \A j \in DOMAIN incTruth : j # e.id => incTruth'[j] = incTruth[j]
    BY AnnouncedFigures
  <2> QED BY <2>1
<1>5. \A j \in DOMAIN incTruth : incTruth[j] \in IncRecord
  BY DEF IncInv, IncShape
<1> HIDE DEF u
<1>6. i = e.id => incTruth'[i] = u
  BY DEF u
<1>7. CASE /\ incRun = "up" /\ e.id \in Ids(Queue) /\ incQueue' = Coalesced(e)
           /\ UNCHANGED <<incRun, incRows, incTrimmed>>
  <2>1. i \in DOMAIN incTruth => Knows(incRows, Queue, incTruth[i], i)
    BY <1>7 DEF IncInv, IncKnown
  <2>2. CASE i = e.id
    <3>1. e.id \in DOMAIN incTruth
      BY <1>3, <1>7
    <3> QED BY <1>1, <1>3, <1>5, <1>6, <1>7, <2>1, <2>2, <3>1, KnowsCoalesced
  <2>3. CASE i # e.id
    <3>1. \A f \in Queue' : f.id = i => f \in Queue
      BY <1>1, <1>7, <2>3, CoalescedQueue, MergedFields
    <3>2. \A f \in Queue : f.id = i => f \in Queue'
      BY <1>1, <1>7, <2>3, CoalescedQueue
    <3>3. \A f : f.id = i => (f \in Queue' <=> f \in Queue)
      BY <3>1, <3>2
    <3> QED BY <1>4, <1>7, <2>1, <2>3, <3>3, KnowsOther
  <2> QED BY <2>2, <2>3
<1>8. CASE /\ incRun = "up" /\ e.id \notin Ids(Queue) /\ incQueue' = Append(incQueue, e)
           /\ UNCHANGED <<incRun, incRows, incTrimmed>>
  <2>1. i \in DOMAIN incTruth => Knows(incRows, Queue, incTruth[i], i)
    BY <1>8 DEF IncInv, IncKnown
  <2>2. Queue' = Queue \cup {e}
    BY <1>1, <1>8, AppendedQueue
  <2>3. CASE i # e.id
    <3>1. \A f : f.id = i => (f \in Queue' <=> f \in Queue)
      BY <2>2, <2>3
    <3> QED BY <1>4, <1>8, <2>1, <2>3, <3>1, KnowsOther
  <2>4. CASE i = e.id /\ i \in DOMAIN incTruth
    <3>1. Knows(incRows, Queue \cup {e}, u, e.id)
      BY <1>1, <1>3, <1>5, <1>8, <2>1, <2>4, KnowsEvent
    <3> QED BY <1>6, <1>8, <2>2, <2>4, <3>1
  <2>5. CASE i = e.id /\ i \notin DOMAIN incTruth
    <3>1. Knows(incRows, Queue \cup {e}, u, e.id)
      BY <1>1, <1>3, <2>5, KnowsFirst
    <3> QED BY <1>6, <1>8, <2>2, <2>5, <3>1
  <2> QED BY <2>3, <2>4, <2>5
<1>9. CASE /\ incRun = "up" /\ incQueue' = <<e>>
           /\ incRows' = WriteQueue(incRows) /\ incTrimmed' = incTrimmed \cup Trimmed
  <2> DEFINE w == WriteQueue(incRows)
  <2>1. i \in DOMAIN incTruth => Knows(w, {}, incTruth[i], i)
    BY <1>9, KnownWritten
  <2>2. Queue' = {e} /\ Queue' = {} \cup {e} /\ Ids({}) = {}
    BY <1>1, <1>9, SingleQueue DEF Ids
  <2>3. Table(w)
    BY <1>1, QueueWritten
  <2>4. CASE i # e.id
    <3>1. \A f : f.id = i => (f \in Queue' <=> f \in {})
      BY <2>2, <2>4
    <3> HIDE DEF w
    <3>2. Knows(w, Queue', incTruth[i], i)
      BY <1>4, <2>1, <2>4, <3>1, KnowsOther
    <3> QED BY <1>4, <1>9, <2>4, <3>2 DEF w
  <2>5. CASE i = e.id /\ i \in DOMAIN incTruth
    <3> HIDE DEF w
    <3>1. Knows(w, {} \cup {e}, u, e.id)
      BY <1>1, <1>3, <1>5, <2>1, <2>2, <2>3, <2>5, KnowsEvent
    <3> QED BY <1>6, <1>9, <2>2, <2>5, <3>1 DEF w
  <2>6. CASE i = e.id /\ i \notin DOMAIN incTruth
    <3>1. e.id \notin Ids(w)
      BY <1>3, <2>6, WrittenIds
    <3> HIDE DEF w
    <3>2. Knows(w, {} \cup {e}, u, e.id)
      BY <1>1, <1>3, <2>2, <2>6, <3>1, KnowsFirst
    <3> QED BY <1>6, <1>9, <2>2, <2>6, <3>2 DEF w
  <2> QED BY <2>4, <2>5, <2>6
<1> QED BY <1>7, <1>8, <1>9, Hooked

-----------------------------------------------------------------------------

LEMMA IncStep == IncInv /\ [IncNext]_incVars => IncInv'
<1> SUFFICES ASSUME IncInv, [IncNext]_incVars PROVE IncInv'
  OBVIOUS
<1>1. ASSUME NEW e, Announced(e) PROVE IncInv'
  BY <1>1, AnnouncedShape, AnnouncedStored, AnnouncedHonest, AnnouncedOrder, AnnouncedKept,
     AnnouncedKnown DEF IncInv
<1>2. ASSUME NEW k \in IncKeys, NEW s \in IncSevs, IncOpen(k, s) PROVE IncInv'
  BY <1>1, <1>2, OpenAnnounced
<1>3. ASSUME NEW i \in DOMAIN incLive, NEW s \in IncSevs, IncMove(i, s) PROVE IncInv'
  BY <1>1, <1>3, MoveAnnounced
<1>4. ASSUME NEW i \in DOMAIN incLive, IncClose(i) PROVE IncInv'
  BY <1>1, <1>4, CloseAnnounced
<1>5. CASE IncTick
  BY <1>5, IncTickKeeps
<1>6. CASE IncStop
  BY <1>6, IncStopKeeps
<1>7. CASE IncCrash
  BY <1>7, IncCrashKeeps
<1>8. CASE IncStart
  BY <1>8, IncStartKeeps
<1>9. CASE IncWall \/ UNCHANGED incVars
  BY <1>9, IncWallKeeps
<1> QED BY <1>2, <1>3, <1>4, <1>5, <1>6, <1>7, <1>8, <1>9 DEF IncNext

LEMMA IncInvHolds == IncSpec => []IncInv
BY IncInitially, IncStep, PTL DEF IncSpec

\* The queue and the table hold records, an incident at most once in each, and
\* the queue stays within DB_INC_PENDING (db.c:1006-1035).
THEOREM IncShapeHolds == IncSpec => []IncTypeOK
<1>1. IncInv => IncTypeOK
  <2> SUFFICES ASSUME IncInv PROVE IncTypeOK
    OBVIOUS
  <2>1. DOMAIN incTruth \subseteq Incidents /\ DOMAIN incLive \subseteq Incidents
    <3>1. \A i \in DOMAIN incTruth : incTruth[i] \in IncRecord /\ incTruth[i].id = i
      BY DEF IncInv, IncShape
    <3>2. \A i \in DOMAIN incTruth : i \in Incidents
      BY <3>1, IncRecordFields
    <3> QED BY <3>2, LiveFacts
  <2> QED BY <2>1 DEF IncInv, IncShape, QueueInOrder, Table, IncTypeOK
<1> QED BY <1>1, IncInvHolds, PTL

\* Nothing announced is lost short of a database error: the file and the queue
\* know every incident as the engine announced it, whatever was merged in the
\* queue, flushed between ticks, written twice or trimmed (db.c:970-1035, 2229-2242).
THEOREM NothingAnnouncedIsLost == IncSpec => []IncNothingLost
<1>1. IncInv => IncNothingLost
  BY DEF IncInv, IncKnown, Knows, IncNothingLost
<1> QED BY <1>1, IncInvHolds, PTL

\* A key keeps its DB_INCIDENTS_PER_KEY rows and never more than one besides,
\* that of a live incident a clock set back made the oldest (db.c:765-768).
THEOREM KeysStayBounded == IncSpec => []IncKeyIsBounded
<1>1. IncInv => IncKeyIsBounded
  BY DEF IncInv, BoundedIn, IncKeyIsBounded
<1> QED BY <1>1, IncInvHolds, PTL

-----------------------------------------------------------------------------
(* What the file says is not taken back *)

Stands(x, r, gone) ==
    \/ \E y \in r : /\ y.id = x.id
                    /\ y.peak >= x.peak \/ x.id \in gone
                    /\ x.closed => y.closed
    \/ x.id \notin Ids(r) /\ IncPerKey <= Cardinality(RowsOf(r, x.id[1]))

LEMMA StandsSame ==
    ASSUME NEW r, Table(r), NEW x \in r, NEW gone PROVE Stands(x, r, gone)
<1>1. x.peak \in Int
  BY IncRecordFields DEF Table
<1> QED BY <1>1 DEF Stands

\* A row that the queue overwrites only rises.
LEMMA WrittenRises ==
    ASSUME QueueInOrder, NEW x \in incRows, NEW y \in WriteQueue(incRows), y.id = x.id
    PROVE  y.peak >= x.peak /\ (x.closed => y.closed)
<1>1. Table(incRows) /\ x \in IncRecord /\ x.peak \in Int
  BY IncRecordFields DEF QueueInOrder, Table
<1>2. CASE y \in incRows
  <2>1. y = x
    BY <1>1, <1>2 DEF Table
  <2> QED BY <1>1, <2>1
<1>3. CASE \E e \in Queue : y.id = e.id /\ y = Row(incRows, e)
  <2>1. PICK e \in Queue : y.id = e.id /\ y = Row(incRows, e)
    BY <1>3
  <2>2. e \in IncRecord
    BY <2>1, QueueFacts
  <2>3. y = Merged(x, e)
    BY <1>1, <2>1, <2>2, RowFields
  <2> QED BY <1>1, <2>2, <2>3, MergedFields
<1> QED BY <1>2, <1>3, QueueWritten

LEMMA StandsWritten ==
    ASSUME IncInv, NEW x \in incRows, NEW gone
    PROVE  Stands(x, WriteQueue(incRows), gone)
<1> DEFINE w == WriteQueue(incRows)
<1>1. QueueInOrder /\ x.id \in Ids(incRows)
  BY DEF IncInv, Ids
<1>2. CASE x.id \in Ids(w)
  <2>1. PICK y \in w : y.id = x.id
    BY <1>2 DEF Ids
  <2> QED BY <1>1, <2>1, WrittenRises DEF Stands
<1>3. CASE x.id \notin Ids(w)
  <2>1. Cardinality(RowsOf(w, x.id[1])) >= IncPerKey
    BY <1>1, <1>3, QueueWritten
  <2>2. Cardinality(RowsOf(w, x.id[1])) \in Nat /\ IncPerKey \in Nat
    BY <1>1, QueueWritten, RowsOfFinite, IncAssumption DEF IncAssumption
  <2> QED BY <1>3, <2>1, <2>2 DEF Stands
<1> QED BY <1>2, <1>3

\* The snapshot takes nothing back either: a live incident's row was not closed.
LEMMA StandsSnapshot ==
    ASSUME IncInv, NEW x \in incRows, NEW gone, Trimmed \subseteq gone
    PROVE  Stands(x, WriteSnapshot(WriteQueue(incRows)), gone)
<1> DEFINE w == WriteQueue(incRows)
           s == WriteSnapshot(w)
<1>1. QueueInOrder /\ Table(w) /\ x.id \in Ids(incRows) /\ x \in IncRecord /\ x.peak \in Int
  BY QueueWritten, IncRecordFields DEF IncInv, QueueInOrder, Table, Ids
<1>2. CASE x.id \in DOMAIN incLive
  <2> DEFINE e == incLive[x.id]
             y == Row(w, e)
  <2>1. e \in IncRecord /\ e.id = x.id /\ y \in s
    BY <1>1, <1>2, LiveFacts, SnapshotWritten
  <2>2. y.id = x.id
    BY <1>1, <2>1, RowFields
  <2>3. ~ x.closed
    <3>1. HonestOf(x, incTruth) /\ x.id \in DOMAIN incTruth /\ ~ incTruth[x.id].closed
      BY <1>2, LiveFacts DEF IncInv, IncHonest, IncFigures
    <3> QED BY <3>1 DEF HonestOf
  <2>4. CASE x.id \in Ids(w)
    <3>1. PICK z \in w : z.id = x.id
      BY <2>4 DEF Ids
    <3>2. z.peak >= x.peak /\ z \in IncRecord /\ z.peak \in Int
      BY <1>1, <3>1, WrittenRises, IncRecordFields DEF Table
    <3>3. y = Merged(z, e)
      BY <1>1, <2>1, <3>1, RowFields
    <3>4. y.peak >= z.peak /\ y.peak \in Int
      BY <2>1, <3>2, <3>3, MergedFields, IncRecordFields
    <3>5. y.peak >= x.peak
      BY <1>1, <3>2, <3>4
    <3> QED BY <2>1, <2>2, <2>3, <3>5 DEF Stands
  <2>5. CASE x.id \notin Ids(w)
    <3>1. x.id \in gone
      BY <1>1, <2>5, TrimmedFacts
    <3> QED BY <2>1, <2>2, <2>3, <3>1 DEF Stands
  <2> QED BY <2>4, <2>5
<1>3. CASE x.id \notin DOMAIN incLive
  <2>1. CASE x.id \in Ids(w)
    <3>1. PICK y \in w : y.id = x.id
      BY <2>1 DEF Ids
    <3>2. y \in s
      BY <1>1, <1>3, <3>1, LiveFacts, SnapshotWritten
    <3> QED BY <1>1, <3>1, <3>2, WrittenRises DEF Stands
  <2>2. CASE x.id \notin Ids(w)
    <3>1. x.id \notin Ids(s)
      BY <1>1, <1>3, <2>2, LiveFacts, SnapshotWritten
    <3>2. /\ Cardinality(RowsOf(w, x.id[1])) >= IncPerKey
          /\ Cardinality(RowsOf(w, x.id[1])) \in Nat /\ IncPerKey \in Nat
      BY <1>1, <2>2, QueueWritten, RowsOfFinite, IncAssumption DEF IncAssumption
    <3>3. Cardinality(RowsOf(s, x.id[1])) >= IncPerKey
      <4>1. CASE \A i \in DOMAIN incLive : i[1] # x.id[1]
        <5>1. RowsOf(s, x.id[1]) = RowsOf(w, x.id[1])
          BY <1>1, <4>1, LiveFacts, SnapshotWritten
        <5> QED BY <3>2, <5>1
      <4>2. ASSUME NEW i \in DOMAIN incLive, i[1] = x.id[1]
            PROVE  Cardinality(RowsOf(s, x.id[1])) >= IncPerKey
        <5>1. /\ incLive[i] \in IncRecord /\ incLive[i].id[1] = x.id[1]
              /\ RowsOf(s, x.id[1]) = RowsOf(Upsert(w, incLive[i]), x.id[1])
          BY <1>1, <4>2, LiveFacts, SnapshotWritten
        <5> QED BY <1>1, <3>2, <5>1, UpsertRows
      <4> QED BY <4>1, <4>2
    <3>4. Cardinality(RowsOf(s, x.id[1])) \in Nat
      BY <1>1, LiveFacts, SnapshotWritten, RowsOfFinite
    <3> QED BY <3>1, <3>2, <3>3, <3>4 DEF Stands
  <2> QED BY <2>1, <2>2
<1> QED BY <1>2, <1>3

\* What the file says of an incident stands, whatever step is next: a flush, a
\* tick, an end of the run, a crash or a start (db.c:748-768, 970-1004, 2229-2242).
THEOREM FileWordStands == IncSpec => IncFileKeepsItsWord
<1>1. ASSUME IncInv, [IncNext]_incVars, NEW x \in incRows
      PROVE  Stands(x, incRows', incTrimmed')
  <2>1. CASE incRows' = incRows
    <3>1. Table(incRows)
      BY <1>1 DEF IncInv, QueueInOrder
    <3> QED BY <2>1, <3>1, StandsSame
  <2>2. CASE incRows' = WriteQueue(incRows)
    BY <1>1, <2>2, StandsWritten
  <2>3. CASE /\ incRows' = WriteSnapshot(WriteQueue(incRows))
             /\ incTrimmed' = incTrimmed \cup Trimmed
    BY <1>1, <2>3, StandsSnapshot
  <2>4. \/ incRows' = incRows \/ incRows' = WriteQueue(incRows)
        \/ /\ incRows' = WriteSnapshot(WriteQueue(incRows))
           /\ incTrimmed' = incTrimmed \cup Trimmed
    <3>1. ASSUME NEW e, IncAnnounce(e)
          PROVE  incRows' = incRows \/ incRows' = WriteQueue(incRows)
      BY <3>1 DEF IncAnnounce, Hook, Commit, Rollback
    <3>2. CASE \/ \E k \in IncKeys, s \in IncSevs : IncOpen(k, s)
               \/ \E i \in DOMAIN incLive : IncClose(i) \/ \E s \in IncSevs : IncMove(i, s)
      BY <3>1, <3>2 DEF IncOpen, IncClose, IncMove
    <3>3. CASE IncTick
      BY <3>3 DEF IncTick, Commit, Rollback
    <3>4. CASE IncStop
      BY <3>4 DEF IncStop
    <3>5. CASE IncCrash \/ IncStart \/ IncWall \/ UNCHANGED incVars
      BY <3>5 DEF IncCrash, IncStart, IncWall, incVars
    <3> QED BY <1>1, <3>2, <3>3, <3>4, <3>5 DEF IncNext
  <2> QED BY <2>1, <2>2, <2>3, <2>4
<1>2. IncInv /\ [IncNext]_incVars =>
         [\A x \in incRows :
            \/ \E y \in incRows' :
                  /\ y.id = x.id
                  /\ y.peak >= x.peak \/ x.id \in incTrimmed'
                  /\ x.closed => y.closed
            \/ /\ x.id \notin Ids(incRows')
               /\ IncPerKey <= Cardinality(RowsOf(incRows', x.id[1]))]_incVars
  BY <1>1 DEF Stands
<1> QED BY <1>2, IncInvHolds, PTL DEF IncSpec, IncFileKeepsItsWord

-----------------------------------------------------------------------------
(***************************************************************************)
(* The shapes of all recorders, together                                   *)
(***************************************************************************)

\* A record for every evaluation, and one more for the resolve; the age of the
\* last event is part of the incident's.
EvaluationShape ==
    /\ TypeOK
    /\ eventAge <= age
    /\ seq <= IF resolved THEN evals + 1 ELSE evals

\* The number in an event_id is below its modulus.
LEMMA EventIdRange == \A n \in Nat : EventId(n) \in 0 .. IdMod - 1
BY EvaluationAssumption DEF EventId

\* Every evaluation, resolve and tick keeps the counters in their ranges.
LEMMA EvaluationStep == EvaluationShape /\ [Next]_vars => EvaluationShape'
<1> SUFFICES ASSUME EvaluationShape, [Next]_vars PROVE EvaluationShape'
    OBVIOUS
<1> USE EvaluationAssumption
<1>1. /\ eventAge \in Nat /\ age \in Nat /\ evals \in Nat /\ obs \in Nat
      /\ seq \in Nat /\ updates \in Nat
      /\ EventId(seq + 1) \in 0 .. IdMod - 1
    BY EventIdRange DEF EvaluationShape, TypeOK
<1>2. ASSUME NEW s \in Sevs, NEW d \in Details, EvalSeverity(s, d)
      PROVE  EvaluationShape'
    BY <1>1, <1>2 DEF EvaluationShape, TypeOK, EvalSeverity, Evaluate, Announce, Moved
<1>3. ASSUME NEW d \in Details, EvalUpdate(d) PROVE EvaluationShape'
    BY <1>1, <1>3 DEF EvaluationShape, TypeOK, EvalUpdate, Evaluate, Announce, Moved
<1>4. ASSUME NEW d \in Details, EvalQuiet(d) PROVE EvaluationShape'
    BY <1>1, <1>4 DEF EvaluationShape, TypeOK, EvalQuiet, Evaluate, Moved
<1>5. CASE Resolve
    BY <1>1, <1>5 DEF EvaluationShape, TypeOK, Resolve, Announce
<1>6. CASE Elapse
    BY <1>1, <1>6 DEF EvaluationShape, TypeOK, Elapse
<1>7. CASE UNCHANGED vars
    BY <1>7 DEF EvaluationShape, TypeOK, vars
<1>8. QED  BY <1>2, <1>3, <1>4, <1>5, <1>6, <1>7 DEF Next

LEMMA EvaluationShapeHolds == Spec => []EvaluationShape
<1>1. Init => EvaluationShape
  <2>1. EventId(1) \in 0 .. IdMod - 1
      BY EventIdRange
  <2>2. 0 \in 0 .. MaxAge /\ 1 \in 1 .. MaxEvals /\ 0 \in 0 .. 1 - 1
      BY EvaluationAssumption
  <2>3. 1 \in 1 .. 1 /\ 1 \in 1 .. 1 + 1 /\ 0 <= 0 /\ 1 <= 1
      OBVIOUS
  <2>4. Init => TypeOK
      BY <2>1, <2>2, <2>3 DEF Init, TypeOK
  <2>5. Init => eventAge <= age /\ seq <= IF resolved THEN evals + 1 ELSE evals
      BY DEF Init
  <2>6. QED
      BY <2>4, <2>5 DEF EvaluationShape
<1>2. QED  BY <1>1, EvaluationStep, PTL DEF Spec

-----------------------------------------------------------------------------
\* The table of pairs holds at most MAX_PENDING of them, each last heard from
\* at some reading of the capture clock.
EapolTable ==
    /\ eapolNow \in 0 .. EapolTicks
    /\ IsFiniteSet(DOMAIN eapolRows) /\ Cardinality(DOMAIN eapolRows) <= EapolMax
    /\ \A p \in DOMAIN eapolRows : eapolRows[p].last_seen \in 0 .. EapolTicks

\* A handler stamps the record it takes, and leaves the stamp alone.
LEMMA HandlersStamp ==
    ASSUME EapolInv, NEW p \in EapolPairs, NEW rc \in EapolCounters
    PROVE  /\ \A nonce \in EapolNonces :
                 AfterM1(Pending(p), nonce, rc).last_seen = eapolNow
           /\ AfterM2(Pending(p), rc).last_seen = eapolNow
           /\ AfterM3(Pending(p), rc).last_seen = eapolNow
           /\ AfterM4(Pending(p), rc).last_seen = eapolNow
<1> DEFINE row == IF p \in DOMAIN eapolRows THEN eapolRows[p] ELSE EmptyRow
           seen == [row EXCEPT !.last_seen = eapolNow]
           r == Pending(p)
<1>1. row \in EapolRow /\ eapolNow \in Int
    BY NoOfferAgrees DEF EapolInv, Agrees
<1>2. seen \in EapolRow /\ seen.last_seen = eapolNow
    BY <1>1 DEF EapolRow
<1>3. \A x : AttemptReset(x).last_seen = x.last_seen
    BY DEF AttemptReset, EmptyRow
<1>4. r \in EapolRow /\ r.last_seen = eapolNow
  <2>1. r \in EapolRow
      BY PendingAgrees DEF Agrees
  <2>2. r = AttemptExpire(seen)
      BY DEF Pending
  <2>3. r.last_seen = eapolNow
      BY <1>2, <1>3, <2>2 DEF AttemptExpire
  <2>4. QED  BY <2>1, <2>3
<1> HIDE DEF r
<1>5. ASSUME NEW x \in EapolRow, NEW m \in 1 .. 4
      PROVE  Buffered(x, m).last_seen = x.last_seen /\ Buffered(x, m) \in EapolRow
    BY <1>5, BufferedFields
<1>6. ASSUME NEW nonce \in EapolNonces
      PROVE  AfterM1(r, nonce, rc).last_seen = eapolNow
  <2>1. AttemptReset(r) \in EapolRow
    <3>1. AttemptReset(r) = [EmptyRow EXCEPT !.last_seen = r.last_seen]
        BY DEF AttemptReset
    <3>2. r.last_seen \in Int
        BY <1>1, <1>4
    <3>3. QED  BY <3>1, <3>2, NoOfferAgrees DEF Agrees, EapolInv
  <2> DEFINE a == IF Retransmitted(r, nonce, rc) THEN r ELSE AttemptReset(r)
  <2>2. a \in EapolRow /\ a.last_seen = eapolNow
      BY <1>3, <1>4, <2>1
  <2> HIDE DEF a
  <2>3. Buffered(a, 1) \in EapolRow /\ Buffered(a, 1).last_seen = eapolNow
      BY <1>5, <2>2
  <2>4. AfterM1(r, nonce, rc) =
          [Buffered(a, 1) EXCEPT !.anonce = nonce, !.m1_rc = rc, !.has_m1 = TRUE,
                           !.m1_ts = eapolNow,
                           !.progress = IF @ < 1 THEN 1 ELSE @]
      BY DEF AfterM1, a
  <2>5. QED  BY <2>3, <2>4 DEF EapolRow
<1>7. AfterM2(r, rc).last_seen = eapolNow
    BY <1>4, <1>5 DEF AfterM2, EapolRow
<1>8. AfterM3(r, rc).last_seen = eapolNow
    BY <1>4, <1>5 DEF AfterM3, EapolRow
<1>9. AfterM4(r, rc).last_seen = eapolNow
  <2> DEFINE b == Buffered(r, 4)
  <2>1. b \in EapolRow /\ b.last_seen = eapolNow
      BY <1>4, <1>5
  <2>2. AfterM4(r, rc) = [b EXCEPT !.progress =
                            IF @ = 3 /\ r.has_m3 /\ r.m3_rc = rc THEN 4 ELSE @]
      BY DEF AfterM4
  <2> HIDE DEF b
  <2>3. QED  BY <2>1, <2>2 DEF EapolRow
<1>10. QED  BY <1>6, <1>7, <1>8, <1>9 DEF r

\* A pair takes a free place or the place of the one that is displaced.
LEMMA StoreFits ==
    ASSUME EapolTable, NEW p \in EapolPairs, NEW gone \in Displaced(p),
           NEW row, row.last_seen = eapolNow, Store(p, row, gone),
           UNCHANGED <<eapolOut, eapolNow>>
    PROVE  EapolTable'
<1> DEFINE D == DOMAIN eapolRows
<1>1. IsFiniteSet(D) /\ Cardinality(D) \in Nat /\ EapolMax \in Nat \ {0}
    BY FS_CardinalityType, EapolAssumption DEF EapolTable
<1>2. DOMAIN eapolRows' = (D \cup {p}) \ gone
    BY DEF Store
<1>3. IsFiniteSet((D \cup {p}) \ gone) /\ Cardinality((D \cup {p}) \ gone) <= EapolMax
  <2>1. CASE p \in D
    <3>1. gone = {}
        BY <2>1 DEF Displaced
    <3>2. (D \cup {p}) \ gone = D
        BY <2>1, <3>1
    <3>3. QED  BY <1>1, <3>2 DEF EapolTable
  <2>2. CASE p \notin D /\ Cardinality(D) < EapolMax
    <3>1. gone = {}
        BY <2>2 DEF Displaced
    <3>2. (D \cup {p}) \ gone = D \cup {p}
        BY <3>1
    <3>3. IsFiniteSet(D \cup {p}) /\ Cardinality(D \cup {p}) = Cardinality(D) + 1
        BY <1>1, <2>2, FS_AddElement
    <3>4. Cardinality(D) + 1 <= EapolMax
        BY <1>1, <2>2
    <3>5. QED  BY <3>2, <3>3, <3>4
  <2>3. CASE p \notin D /\ ~ (Cardinality(D) < EapolMax)
    <3>1. PICK q \in D : gone = {q}
        BY <2>3 DEF Displaced
    <3>2. (D \cup {p}) \ gone = (D \ {q}) \cup {p} /\ p \notin D \ {q}
        BY <2>3, <3>1
    <3>3. IsFiniteSet(D \ {q}) /\ Cardinality(D \ {q}) = Cardinality(D) - 1
        BY <1>1, FS_RemoveElement
    <3>4. /\ IsFiniteSet((D \ {q}) \cup {p})
          /\ Cardinality((D \ {q}) \cup {p}) = Cardinality(D)
      <4>1. /\ IsFiniteSet((D \ {q}) \cup {p})
            /\ Cardinality((D \ {q}) \cup {p}) = Cardinality(D \ {q}) + 1
          BY <3>2, <3>3, FS_AddElement
      <4>2. QED  BY <1>1, <3>3, <4>1
    <3>5. QED  BY <3>2, <3>4 DEF EapolTable
  <2>4. QED  BY <2>1, <2>2, <2>3
<1>4. ASSUME NEW q \in DOMAIN eapolRows'
      PROVE  eapolRows'[q].last_seen \in 0 .. EapolTicks
  <2>1. eapolRows'[q] = IF q = p THEN row ELSE eapolRows[q]
      BY <1>2 DEF Store
  <2>2. QED  BY <1>2, <2>1 DEF EapolTable
<1>5. QED  BY <1>2, <1>3, <1>4 DEF EapolTable

\* Only the messages change the table, and each through one Store.
LEMMA EapolTableStep ==
    EapolInv /\ EapolTable /\ [EapolNext]_eapolVars => EapolTable'
<1> SUFFICES ASSUME EapolInv, EapolTable, [EapolNext]_eapolVars
             PROVE  EapolTable'
    OBVIOUS
<1>1. ASSUME NEW p \in EapolPairs, NEW rc \in EapolCounters,
             \/ \E nonce \in EapolNonces : EapolM1(p, nonce, rc)
             \/ EapolM2(p, rc) \/ EapolM3(p, rc) \/ EapolM4(p, rc)
      PROVE  EapolTable'
  <2>1. PICK gone \in Displaced(p) : \E row :
            /\ Store(p, row, gone) /\ row.last_seen = eapolNow
            /\ UNCHANGED <<eapolOut, eapolNow>>
    <3>1. CASE \E nonce \in EapolNonces : EapolM1(p, nonce, rc)
        BY <3>1, HandlersStamp DEF EapolM1
    <3>2. CASE EapolM2(p, rc)
        BY <3>2, HandlersStamp DEF EapolM2
    <3>3. CASE EapolM3(p, rc)
        BY <3>3, HandlersStamp DEF EapolM3
    <3>4. CASE EapolM4(p, rc)
        BY <3>4, HandlersStamp DEF EapolM4
    <3>5. QED  BY <1>1, <3>1, <3>2, <3>3, <3>4
  <2>2. QED  BY <2>1, StoreFits
<1>2. CASE EapolTick
    BY <1>2 DEF EapolTick, EapolTable
<1>3. CASE UNCHANGED eapolVars
    BY <1>3 DEF eapolVars, EapolTable
<1>4. QED  BY <1>1, <1>2, <1>3 DEF EapolNext

LEMMA EapolTableHolds == EapolSpec => []EapolTable
<1>1. EapolInit => EapolTable
  <2> SUFFICES ASSUME EapolInit PROVE EapolTable
      OBVIOUS
  <2>1. DOMAIN eapolRows = {}
      BY DEF EapolInit
  <2>2. IsFiniteSet({}) /\ Cardinality({}) = 0
      BY FS_EmptySet
  <2>3. QED
      BY <2>1, <2>2, EapolAssumption DEF EapolInit, EapolTable
<1>2. QED  BY <1>1, EapolTableStep, EapolInvHolds, PTL DEF EapolSpec

\* The rest of the shape is part of what Agrees says of a row.
LEMMA EapolShape == EapolInv /\ EapolTable => EapolTypeOK
<1> SUFFICES ASSUME EapolInv, EapolTable PROVE EapolTypeOK
    OBVIOUS
<1>1. ASSUME NEW p \in DOMAIN eapolRows
      PROVE  eapolRows[p].progress \in 0 .. 4 /\ eapolRows[p].m_frames \subseteq 1 .. 4
    BY DEF EapolInv, Agrees, EapolRow
<1>2. ASSUME NEW p \in EapolPairs
      PROVE  /\ eapolAir[p].heard \subseteq (1 .. 4) \X EapolCounters
             /\ eapolAir[p].lines \in 0 .. 1 /\ eapolAir[p].failed \in 0 .. 1
  <2>1. eapolAir[p] \in Offer
      BY DEF EapolInv
  <2>2. /\ eapolAir[p].heard \subseteq (1 .. 4) \X EapolCounters
        /\ eapolAir[p].lines \in Nat /\ eapolAir[p].failed \in Nat
      BY <2>1 DEF Offer
  <2>3. eapolAir[p].lines + eapolAir[p].failed <= 1
    <3>1. CASE p \in DOMAIN eapolRows
      <4>1. eapolAir[p].lines + eapolAir[p].failed
               = (IF eapolRows[p].paired /\ eapolOut THEN 1 ELSE 0)
          BY <3>1, Zenon DEF EapolInv, Agrees
      <4>2. QED  BY <4>1
    <3>2. CASE p \notin DOMAIN eapolRows
        BY <3>2 DEF EapolInv, NoOffer
    <3>3. QED  BY <3>1, <3>2
  <2>4. QED  BY <2>2, <2>3
<1>3. QED  BY <1>1, <1>2 DEF EapolInv, EapolTable, EapolTypeOK

-----------------------------------------------------------------------------
\* Side by side, each recorder behaves as it does alone.
LEMMA RecordsAreEach ==
    RecordsSpec => HttpSpec /\ EapolSpec /\ Spec /\ DedupSpec /\ IncSpec
<1> DEFINE v == <<recorder, httpVars, eapolVars, vars, dedupVars, incVars>>
<1>1. RecordsInit => HttpInit /\ EapolInit /\ Init /\ DedupInit /\ IncInit
    BY DEF RecordsInit
<1>2. [RecordsNext]_v => [HttpNext]_httpVars
    BY DEF RecordsNext
<1>3. [RecordsNext]_v => [EapolNext]_eapolVars
    BY DEF RecordsNext
<1>4. [RecordsNext]_v => [Next]_vars
    BY DEF RecordsNext
<1>5. [RecordsNext]_v => [DedupNext]_dedupVars
    BY DEF RecordsNext
<1>6. [RecordsNext]_v => [IncNext]_incVars
    BY DEF RecordsNext
<1>7. QED
    BY <1>1, <1>2, <1>3, <1>4, <1>5, <1>6, PTL
    DEF RecordsSpec, HttpSpec, EapolSpec, Spec, DedupSpec, IncSpec

\* The recorders side by side keep the shape of their tables, slots, ways and
\* queues, however their steps interleave.
THEOREM RecordsKeepTheirShape == RecordsSpec => []RecordsTypeOK
<1>1. HttpInv => HttpTypeOK
    BY DEF HttpInv
<1>2. DedupInv => DedupTypeOK
    BY DEF DedupInv
<1>3. EvaluationShape => TypeOK
    BY DEF EvaluationShape
<1>4. HttpTypeOK /\ EapolTypeOK /\ TypeOK /\ DedupTypeOK /\ IncTypeOK
         => RecordsTypeOK
    BY DEF RecordsTypeOK
<1>5. QED
    BY <1>1, <1>2, <1>3, <1>4, RecordsAreEach, EapolShape, EapolTableHolds,
       HttpInvHolds, EapolInvHolds, EvaluationShapeHolds, DedupInvHolds,
       IncShapeHolds, PTL
=============================================================================
