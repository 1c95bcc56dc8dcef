--------------------------- MODULE EapolAttempts ---------------------------
(***************************************************************************)
(* Handshake attempts of the EAPOL tracker (src/eapol_log.c, #97): per     *)
(* (BSSID, STA) pair one record and in it at most one attempt, opened by   *)
(* an M1, paired by the M2 that echoes its replay counter within           *)
(* EAPOL_PAIR_WINDOW_S, exported once.  The monitor thread hands it the    *)
(* frames that travel in their message's direction, each under g_mu.       *)
(*                                                                         *)
(* The air is unconstrained: any message of any exchange, in any order and *)
(* any number of times, at any reading of the clock.  That covers what the *)
(* radio misses, an AP that starts over, a retransmission and a replay.    *)
(*                                                                         *)
(* `eapolAir` is what an observer of the air knows of a pair: the M1 being *)
(* offered, what was heard in time under it, and what sloth wrote of it.   *)
(*                                                                         *)
(* Names ending in _m and a number are defective forms of the definition   *)
(* that follows; no action uses them.                                      *)
(***************************************************************************)
EXTENDS Integers, FiniteSets

CONSTANTS
    EapolPairs,     \* (BSSID, STA)
    EapolMax,       \* MAX_PENDING
    EapolNonces,    \* ANonces
    EapolRcMod,     \* 2^64: replay counters
    EapolWindow,    \* EAPOL_PAIR_WINDOW_S
    EapolTicks,     \* bound: the capture clock
    EapolNone       \* no nonce

ASSUME EapolAssumption ==
    /\ EapolMax \in Nat \ {0} /\ EapolRcMod \in Nat \ {0, 1}
    /\ EapolWindow \in Nat /\ EapolTicks \in Nat
    /\ EapolNone \notin EapolNonces

VARIABLES
    eapolOut,     \* --collect-handshakes and a directory to export to
    eapolNow,     \* capture time of the newest frame
    eapolRows,    \* g_pending: pair -> its record (pending_t), if it has one
    eapolAir      \* history: pair -> the offer and what became of it

eapolVars == <<eapolOut, eapolNow, eapolRows, eapolAir>>

EapolCounters == 0 .. EapolRcMod - 1
Successor(rc) == (rc + 1) % EapolRcMod    \* rc_is_successor()

EmptyRow ==
    [last_seen |-> 0, progress |-> 0, has_m1 |-> FALSE, has_m3 |-> FALSE,
     m1_rc |-> 0, m3_rc |-> 0, anonce |-> EapolNone, m1_ts |-> 0,
     paired |-> FALSE, exported |-> FALSE, m_frames |-> {}]
NoOffer ==
    [nonce |-> EapolNone, rc |-> 0, at |-> 0, heard |-> {},
     lines |-> 0, failed |-> 0]

EapolInit ==
    /\ eapolOut \in BOOLEAN
    /\ eapolNow = 0
    /\ eapolRows = [p \in {} |-> EmptyRow]
    /\ eapolAir = [p \in EapolPairs |-> NoOffer]

-----------------------------------------------------------------------------
(* attempt_reset(), attempt_expire(), pending_get()                        *)

AttemptReset_m2(r) == [EmptyRow EXCEPT !.last_seen = r.last_seen,
                                       !.exported = r.exported]
AttemptReset(r) == [EmptyRow EXCEPT !.last_seen = r.last_seen]

AttemptExpire(r) ==
    IF r.has_m1 /\ eapolNow - r.m1_ts > EapolWindow THEN AttemptReset(r)
    ELSE r

\* whom the table displaces for p: nobody, or one heard from least recently
Displaced(p) ==
    IF p \in DOMAIN eapolRows \/ Cardinality(DOMAIN eapolRows) < EapolMax
    THEN {{}}
    ELSE {{q} : q \in {q \in DOMAIN eapolRows : \A o \in DOMAIN eapolRows :
                          eapolRows[q].last_seen <= eapolRows[o].last_seen}}

\* p's record as the message handlers find it
Pending(p) ==
    LET row == IF p \in DOMAIN eapolRows THEN eapolRows[p] ELSE EmptyRow IN
    AttemptExpire([row EXCEPT !.last_seen = eapolNow])

Buffered(r, m) == [r EXCEPT !.m_frames = @ \cup {m}]

\* the table with p's record as the handler leaves it
Store(p, row, gone) ==
    eapolRows' = [q \in (DOMAIN eapolRows \cup {p}) \ gone |->
                     IF q = p THEN row ELSE eapolRows[q]]

-----------------------------------------------------------------------------
(* The observer                                                            *)

OfferOf(p) ==
    IF eapolNow - eapolAir[p].at > EapolWindow THEN NoOffer ELSE eapolAir[p]

Hear(p, offer, gone) ==
    eapolAir' = [q \in EapolPairs |-> IF q = p THEN offer
                                      ELSE IF q \in gone THEN NoOffer
                                      ELSE eapolAir[q]]

\* messages before any M1 are heard under no offer
Heard(p, m, rc) ==
    LET o == OfferOf(p) IN
    IF o.nonce = EapolNone THEN o ELSE [o EXCEPT !.heard = @ \cup {<<m, rc>>}]

-----------------------------------------------------------------------------
(* eapol_observe_frame(), a message each                                   *)

Retransmitted(r, nonce, rc) == r.has_m1 /\ r.m1_rc = rc /\ r.anonce = nonce

AfterM1(r, nonce, rc) ==
    LET a == IF Retransmitted(r, nonce, rc) THEN r ELSE AttemptReset(r) IN
    [Buffered(a, 1) EXCEPT !.anonce = nonce, !.m1_rc = rc, !.has_m1 = TRUE,
                           !.m1_ts = eapolNow,
                           !.progress = IF @ < 1 THEN 1 ELSE @]

Pairs_m1(r, rc) == r.has_m1
Pairs(r, rc) == r.has_m1 /\ r.m1_rc = rc

AfterM2(r, rc) ==
    IF ~ Pairs(r, rc) THEN Buffered(r, 2)
    ELSE [Buffered(r, 2) EXCEPT !.paired = TRUE,
                                !.progress = IF @ < 2 THEN 2 ELSE @,
                                !.exported = @ \/ eapolOut]

\* an M3 that continues the attempt puts it at 3, from 4 as well
AfterM3(r, rc) ==
    [Buffered(r, 3) EXCEPT !.m3_rc = rc, !.has_m3 = TRUE,
        !.progress = IF r.paired /\ rc = Successor(r.m1_rc) THEN 3 ELSE @]

AfterM4(r, rc) ==
    [Buffered(r, 4) EXCEPT !.progress =
        IF @ = 3 /\ r.has_m3 /\ r.m3_rc = rc THEN 4 ELSE @]

EapolM1(p, nonce, rc) ==
    LET o == OfferOf(p)
        again == o.nonce = nonce /\ o.rc = rc IN
    \E gone \in Displaced(p) :
       /\ Store(p, AfterM1(Pending(p), nonce, rc), gone)
       /\ Hear(p, [(IF again THEN o ELSE NoOffer) EXCEPT
                      !.nonce = nonce, !.rc = rc, !.at = eapolNow,
                      !.heard = @ \cup {<<1, rc>>}], gone)
       /\ UNCHANGED <<eapolOut, eapolNow>>

\* The line is appended or the write fails; either way the attempt counts
\* as exported.
EapolM2(p, rc) ==
    LET r == Pending(p)
        o == Heard(p, 2, rc)
        export == Pairs(r, rc) /\ ~ r.exported /\ eapolOut IN
    \E gone \in Displaced(p) :
       /\ Store(p, AfterM2(r, rc), gone)
       /\ IF export
          THEN \/ Hear(p, [o EXCEPT !.lines = @ + 1], gone)
               \/ Hear(p, [o EXCEPT !.failed = @ + 1], gone)
          ELSE Hear(p, o, gone)
       /\ UNCHANGED <<eapolOut, eapolNow>>

EapolM3(p, rc) ==
    \E gone \in Displaced(p) :
       /\ Store(p, AfterM3(Pending(p), rc), gone)
       /\ Hear(p, Heard(p, 3, rc), gone)
       /\ UNCHANGED <<eapolOut, eapolNow>>

EapolM4(p, rc) ==
    \E gone \in Displaced(p) :
       /\ Store(p, AfterM4(Pending(p), rc), gone)
       /\ Hear(p, Heard(p, 4, rc), gone)
       /\ UNCHANGED <<eapolOut, eapolNow>>

\* the next frame's time, which a stepped clock may put before the last
EapolTick ==
    /\ eapolNow' \in 0 .. EapolTicks \ {eapolNow}
    /\ UNCHANGED <<eapolOut, eapolRows, eapolAir>>

EapolNext ==
    \/ \E p \in EapolPairs, rc \in EapolCounters :
          \/ \E nonce \in EapolNonces : EapolM1(p, nonce, rc)
          \/ EapolM2(p, rc) \/ EapolM3(p, rc) \/ EapolM4(p, rc)
    \/ EapolTick

EapolSpec == EapolInit /\ [][EapolNext]_eapolVars

-----------------------------------------------------------------------------
\* Shape of the pending table (pending_t) and of the observer's record.
EapolTypeOK ==
    /\ DOMAIN eapolRows \subseteq EapolPairs
    /\ Cardinality(DOMAIN eapolRows) <= EapolMax
    /\ \A p \in DOMAIN eapolRows :
          /\ eapolRows[p].progress \in 0 .. 4
          /\ eapolRows[p].m_frames \subseteq 1 .. 4
          /\ eapolRows[p].last_seen \in 0 .. EapolTicks
    /\ \A p \in EapolPairs :
          /\ eapolAir[p].heard \subseteq (1 .. 4) \X EapolCounters
          /\ eapolAir[p].lines \in 0 .. 1 /\ eapolAir[p].failed \in 0 .. 1

\* An attempt claims no more than the air showed of the exchange on offer
\* (the T12 defect is a claim put together from two of them): what it calls
\* paired, and each step of its progress, was heard in order under the very
\* M1 it holds, inside the pairing window, and so was each frame that
\* write_handshake_pcap() would write.
EapolAttemptBacked ==
    \A p \in DOMAIN eapolRows :
       LET r == eapolRows[p]
           o == eapolAir[p] IN
       /\ r.has_m1 => r.anonce = o.nonce /\ r.m1_rc = o.rc
       /\ r.progress >= 1 => r.has_m1 /\ <<1, o.rc>> \in o.heard
       /\ r.paired \/ r.progress >= 2 => <<2, o.rc>> \in o.heard
       /\ r.progress >= 3 => <<3, Successor(o.rc)>> \in o.heard
       /\ r.progress = 4 =>
             \E rc \in EapolCounters : {<<3, rc>>, <<4, rc>>} \subseteq o.heard
       /\ r.has_m1 => r.m_frames \subseteq {h[1] : h \in o.heard}

\* "One 22000 record per attempt" (eapol_log.c:869): a paired offer was
\* written exactly once, or its one write failed; retransmissions add
\* nothing, and the next attempt of the pair is written again.
EapolOneLinePerOffer ==
    \A p \in DOMAIN eapolRows :
       eapolAir[p].lines + eapolAir[p].failed =
          (IF eapolRows[p].paired /\ eapolOut THEN 1 ELSE 0)
=============================================================================
