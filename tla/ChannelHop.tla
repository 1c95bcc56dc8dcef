----------------------------- MODULE ChannelHop -----------------------------
(***************************************************************************)
(* The channel rotation of the monitor radio (src/wifi_chanhop.c), driven  *)
(* once per poll: frames counted since the last poll are credited to the   *)
(* current channel, then, when its dwell is over, the radio is asked to    *)
(* retune and the rotation moves on by what the radio answers.             *)
(*                                                                         *)
(* `hopRadio` is where the radio really is.  The capture worker counts     *)
(* frames at any moment, so also between the count being read and the      *)
(* retune taking effect; and an answer may be lost (ETIMEDOUT), whether    *)
(* or not the radio moved.                                                 *)
(*                                                                         *)
(* Names ending in _m and a number are defective forms of the definition   *)
(* that follows; no action uses them.                                      *)
(***************************************************************************)
EXTENDS Integers

CONSTANTS
    HopCount,    \* h->count: slots in the rotation
    HopBase,     \* base_dwell_ms
    HopPerObs,   \* ms_per_obs
    HopMin,      \* min_dwell_ms
    HopMaxDwell, \* max_dwell_ms
    HopFrames,   \* bound: frames heard at one slot or in doubt
    HopLosses    \* bound: answers lost

ASSUME HopAssumption ==
    /\ HopCount \in Nat \ {0} /\ HopBase \in Nat /\ HopPerObs \in Nat
    /\ HopMin \in Nat /\ HopMaxDwell \in Nat /\ HopMin <= HopMaxDwell
    /\ HopFrames \in Nat /\ HopLosses \in Nat

VARIABLES
    hopCur,      \* h->cur
    hopTuned,    \* h->tuned: some retune was acknowledged
    hopStarted,  \* h->started
    hopPending,  \* h->pending, -1 for none
    hopNext,     \* h->next
    hopLeft,     \* dwell_until_ms - now_ms, from 0
    hopActivity, \* slot -> activity
    hopCredit,   \* slot -> frames
    hopVisited,  \* slots with visits > 0
    hopDelta,    \* mon_frame_total() - last_total
    hopRadio,    \* the slot the radio is tuned to, -1 for elsewhere
    hopRefusing, \* slots the radio refuses
    hopHeard,    \* slot -> frames heard there
    hopStray,    \* frames heard as a retune was under way, or after a lost answer
    hopLost      \* answers lost

hopVars == <<hopCur, hopTuned, hopStarted, hopPending, hopNext, hopLeft,
             hopActivity, hopCredit, hopVisited, hopDelta, hopRadio,
             hopRefusing, hopHeard, hopStray, hopLost>>

HopSlots == 0 .. HopCount - 1
Elsewhere == -1

\* chanhop_init(); the radio may be on a channel of the rotation or not
HopInit ==
    /\ hopCur = 0 /\ hopTuned = FALSE /\ hopStarted = FALSE
    /\ hopPending = -1 /\ hopNext = 0 /\ hopLeft = 0
    /\ hopActivity = [i \in HopSlots |-> 0]
    /\ hopCredit = [i \in HopSlots |-> 0]
    /\ hopVisited = {} /\ hopDelta = 0
    /\ hopRadio \in HopSlots \cup {Elsewhere}
    /\ hopRefusing \in SUBSET HopSlots
    /\ hopHeard = [i \in HopSlots |-> 0] /\ hopStray = 0 /\ hopLost = 0

After(i) == (i + 1) % HopCount
Halved(f) == [f EXCEPT ![hopCur] = @ \div 2]

\* dwell_for()
DwellFor(activity) ==
    LET d == HopBase + activity * HopPerObs IN
    IF d < HopMin THEN HopMin ELSE IF d > HopMaxDwell THEN HopMaxDwell ELSE d

-----------------------------------------------------------------------------
\* the capture worker counts a frame of the channel the radio is on; before
\* the first acknowledged retune nobody is credited with it
HopHear ==
    /\ \A i \in HopSlots : hopHeard[i] + hopStray < HopFrames
    /\ hopDelta' = hopDelta + 1
    /\ IF hopPending >= 0 \/ hopLost > 0 \/ ~ hopTuned
       THEN hopStray' = hopStray + 1 /\ UNCHANGED hopHeard
       ELSE /\ hopHeard' = [hopHeard EXCEPT ![hopRadio] = @ + 1]
            /\ UNCHANGED hopStray
    /\ UNCHANGED <<hopCur, hopTuned, hopStarted, hopPending, hopNext, hopLeft,
                   hopActivity, hopCredit, hopVisited, hopRadio, hopRefusing,
                   hopLost>>

\* chanhop_observe() with what was counted since the last poll
Observed_m1 ==
    /\ hopCredit' = [hopCredit EXCEPT ![hopCur] = @ + hopDelta]
    /\ hopActivity' = [hopActivity EXCEPT ![hopCur] = @ + hopDelta]
Observed ==
    IF hopTuned
    THEN /\ hopCredit' = [hopCredit EXCEPT ![hopCur] = @ + hopDelta]
         /\ hopActivity' = [hopActivity EXCEPT ![hopCur] = @ + hopDelta]
    ELSE UNCHANGED <<hopCredit, hopActivity>>

\* chanhop_service() up to the retune: observe, then chanhop_tick()
HopPoll ==
    /\ hopPending = -1
    /\ Observed /\ hopDelta' = 0
    /\ hopStarted' = TRUE
    /\ hopPending' = IF ~ hopStarted THEN 0
                     ELSE IF hopLeft = 0 THEN hopNext ELSE -1
    /\ UNCHANGED <<hopCur, hopTuned, hopNext, hopLeft, hopVisited, hopRadio,
                   hopRefusing, hopHeard, hopStray, hopLost>>

\* chanhop_confirm_retune(), refused or unanswered: the rotation goes on
Refused_m1 ==
    /\ hopLeft' = HopMin
    /\ UNCHANGED <<hopNext, hopCur, hopTuned, hopActivity, hopVisited>>
Refused ==
    /\ hopNext' = After(hopPending) /\ hopLeft' = HopMin
    /\ UNCHANGED <<hopCur, hopTuned, hopActivity, hopVisited>>

\* acknowledged: the channel left decays, the new one's dwell begins
Retuned ==
    LET t == hopPending
        activity == IF hopTuned THEN Halved(hopActivity) ELSE hopActivity IN
    /\ hopCur' = t /\ hopTuned' = TRUE /\ hopNext' = After(t)
    /\ hopActivity' = activity /\ hopLeft' = DwellFor(activity[t])
    /\ hopVisited' = hopVisited \cup {t}

\* the rest of chanhop_service(): the radio acknowledges, refuses, or its
\* answer is lost
HopRetune ==
    /\ hopPending >= 0 /\ hopPending' = -1
    /\ \/ /\ hopPending \notin hopRefusing /\ Retuned
          /\ hopRadio' = hopPending /\ UNCHANGED hopLost
       \/ hopPending \in hopRefusing /\ Refused /\ UNCHANGED <<hopRadio, hopLost>>
       \/ /\ hopPending \notin hopRefusing /\ hopLost < HopLosses /\ Refused
          /\ hopLost' = hopLost + 1
          /\ hopRadio' \in {hopRadio, hopPending}
    /\ UNCHANGED <<hopStarted, hopCredit, hopDelta, hopRefusing, hopHeard,
                   hopStray>>

\* a millisecond
HopWait ==
    /\ hopLeft > 0
    /\ hopLeft' = hopLeft - 1
    /\ UNCHANGED <<hopCur, hopTuned, hopStarted, hopPending, hopNext,
                   hopActivity, hopCredit, hopVisited, hopDelta, hopRadio,
                   hopRefusing, hopHeard, hopStray, hopLost>>

HopNext == HopHear \/ HopPoll \/ HopRetune \/ HopWait

HopSpec == HopInit /\ [][HopNext]_hopVars

\* the poll loop comes round, the platform answers or times out, time passes
HopFairSpec == /\ HopSpec /\ WF_hopVars(HopPoll) /\ WF_hopVars(HopRetune)
               /\ WF_hopVars(HopWait)

-----------------------------------------------------------------------------
\* Shape of the scheduler (chanhop_t).
HopTypeOK ==
    /\ hopCur \in HopSlots /\ hopNext \in HopSlots
    /\ hopPending \in HopSlots \cup {-1}
    /\ hopLeft \in 0 .. HopMaxDwell
    /\ hopActivity \in [HopSlots -> 0 .. HopFrames]
    /\ hopCredit \in [HopSlots -> 0 .. HopFrames]
    /\ hopHeard \in [HopSlots -> 0 .. HopFrames]

\* A channel is credited with the frames heard on it and not with another's
\* (chanhop_observe(), chanhop_confirm_retune()), across refusals and the
\* wait before the first acknowledged retune: the counts can differ by no
\* more than the frames heard while a retune was in progress or after an
\* answer was lost, and one that was never visited has none.
HopCreditIsTrue ==
    \A i \in HopSlots :
       LET credit == hopCredit[i] + (IF i = hopCur THEN hopDelta ELSE 0) IN
       /\ credit \in hopHeard[i] .. hopHeard[i] + hopStray
       /\ hopCredit[i] > 0 => i \in hopVisited

\* Every channel the radio accepts is tuned to again and again, whichever
\* others it refuses.
HopRevisits ==
    \A i \in HopSlots : []<>(i \in hopRefusing \/ hopCur = i)
=============================================================================
