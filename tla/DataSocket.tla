----------------------------- MODULE DataSocket -----------------------------
(***************************************************************************)
(* The listener of the data socket (src/data_socket.c): client slots in an *)
(* array kept dense by swapping the last client into a freed place, the    *)
(* per-peer cap, the stall and idle timers, and the two walks over the     *)
(* array, one per poll (data_socket_tick) and one per record               *)
(* (data_socket_emit).  Both hold g_mu from end to end; the poll thread    *)
(* ticks and writes the snapshot rows, the capture threads write records   *)
(* of their own between any two walks.                                     *)
(*                                                                         *)
(* Of a client's queue only whether it is empty is kept: SocketQueue has   *)
(* the rest.  Of the change cache (jsonl.c) only whether one steady row is *)
(* in it, that is, would be suppressed: JsonlDedup has the rest.  The      *)
(* refusal counter and its warning line are left out.                      *)
(*                                                                         *)
(* Names ending in _m and a number are defective forms of the definition   *)
(* that follows; no action uses them.                                      *)
(***************************************************************************)
EXTENDS Integers, Sequences, FiniteSets

CONSTANTS
    Peers,          \* who may connect: uids or addresses
    Conns,          \* connections
    MaxClients,     \* MAX_CLIENTS
    PeerCap,        \* socket.max_per_peer
    StallSecs,      \* DATA_SOCKET_STALL_SECS, in units of elapsed time
    IdleSecs,       \* socket.idle_secs; 0 = never
    FileSink        \* whether -o FILE is open too

ASSUME SocketAssumption ==
    /\ MaxClients \in Nat \ {0} /\ PeerCap \in Nat \ {0}
    /\ StallSecs \in Nat \ {0} /\ IdleSecs \in Nat
    /\ FileSink \in BOOLEAN

VARIABLES
    listening,  \* g_listen_fd >= 0
    slots,      \* g_clients[0 .. g_client_n), see NewClient
    stuck,      \* connections the kernel takes no more bytes for
    walk,       \* what g_mu is held for: "none", "accept", "tick" or "emit"
    at,         \* the slot the walk has come to
    row,        \* the record being emitted is the steady row
    accepted,   \* this tick accepted a client
    owes,       \* the tick is over, its jsonl_dedup_reset() still to come
    cached      \* the steady row is in the change cache

vars == <<listening, slots, stuck, walk, at, row, accepted, owes, cached>>
poll == <<accepted, owes, cached>>

\* A client: connection and peer, whether bytes are queued, the time since
\* `progress`, whether the record being emitted is still to be offered to it,
\* and whether it was ever offered the steady row.
NewClient(c, p) ==
    [conn |-> c, peer |-> p, queued |-> FALSE, age |-> 0, owed |-> FALSE, based |-> FALSE]

MaxAge == IF IdleSecs > StallSecs THEN IdleSecs ELSE StallSecs

Held(p) == Cardinality({i \in 1 .. Len(slots) : slots[i].peer = p})
Connected == {slots[i].conn : i \in 1 .. Len(slots)}

-----------------------------------------------------------------------------
(* One client                                                              *)

\* drop_client(): the last client is swapped into place i
DropAt(s, i) == [j \in 1 .. Len(s) - 1 |-> IF j = i THEN s[Len(s)] ELSE s[j]]

\* What the sends of flush_client() may come to.  With nothing queued there is
\* no send, so a peer that is gone is not noticed.
Outcomes(c) ==
    IF ~ c.queued THEN {"empty"}
    ELSE IF c.conn \in stuck THEN {"blocked", "dead"}
    ELSE {"drained", "some", "blocked", "dead"}

Flushed(c, outcome) ==
    CASE outcome = "drained" -> [c EXCEPT !.queued = FALSE, !.age = 0]
      [] outcome = "some"    -> [c EXCEPT !.age = 0]
      [] OTHER               -> c

\* offer(): a record queued onto an empty queue restarts the progress mark,
\* one dropped or queued behind others does not
Offered_m1(c, fits) ==
    [c EXCEPT !.owed = FALSE, !.based = @ \/ row,
              !.queued = @ \/ fits,
              !.age = IF fits THEN 0 ELSE @]
Offered(c, fits) ==
    [c EXCEPT !.owed = FALSE, !.based = @ \/ row,
              !.queued = @ \/ fits,
              !.age = IF fits /\ ~ c.queued THEN 0 ELSE @]

TimedOut(c) ==
    \/ c.queued /\ c.age >= StallSecs
    \/ IdleSecs > 0 /\ c.age >= IdleSecs

-----------------------------------------------------------------------------
(* The poll thread: data_socket_tick()                                     *)

BeginTick ==
    /\ listening /\ walk = "none" /\ ~ owes
    /\ walk' = "accept"
    /\ accepted' = FALSE
    /\ UNCHANGED <<listening, slots, stuck, at, row, owes, cached>>

\* accept() returns a connection of peer p; one over the cap, or that cannot
\* be made non-blocking, is closed and the drain goes on
Accept_m1(c, p) ==
    /\ walk = "accept" /\ Len(slots) < MaxClients
    /\ c \notin Connected
    /\ Held(p) <= PeerCap
    /\ slots' = Append(slots, NewClient(c, p))
    /\ accepted' = TRUE
    /\ UNCHANGED <<listening, stuck, walk, at, row, owes, cached>>
Accept(c, p) ==
    /\ walk = "accept" /\ Len(slots) < MaxClients
    /\ c \notin Connected
    /\ Held(p) < PeerCap
    /\ slots' = Append(slots, NewClient(c, p))
    /\ accepted' = TRUE
    /\ UNCHANGED <<listening, stuck, walk, at, row, owes, cached>>

\* nothing more to accept, or no slot to accept it into
EndAccept ==
    /\ walk = "accept"
    /\ walk' = "tick"
    /\ at' = 1
    /\ UNCHANGED <<listening, slots, stuck, row, accepted, owes, cached>>

Close(i) ==
    /\ slots' = DropAt(slots, i)
    /\ stuck' = stuck \ {slots[i].conn}
    /\ UNCHANGED at

TickClient ==
    /\ walk = "tick" /\ at <= Len(slots)
    /\ \E outcome \in Outcomes(slots[at]) :
          LET c == Flushed(slots[at], outcome)
          IN \/ /\ outcome = "dead" \/ TimedOut(c)
                /\ Close(at)
             \/ /\ outcome # "dead" /\ ~ TimedOut(c)
                /\ slots' = [slots EXCEPT ![at] = c]
                /\ at' = at + 1
                /\ UNCHANGED stuck
    /\ UNCHANGED <<listening, walk, row, accepted, owes, cached>>

\* the lock is released before the change cache is cleared
EndTick_m1 ==
    /\ walk = "tick" /\ at > Len(slots)
    /\ walk' = "none"
    /\ owes' = (accepted /\ ~ FileSink)
    /\ UNCHANGED <<listening, slots, stuck, at, row, accepted, cached>>
EndTick ==
    /\ walk = "tick" /\ at > Len(slots)
    /\ walk' = "none"
    /\ owes' = accepted
    /\ UNCHANGED <<listening, slots, stuck, at, row, accepted, cached>>

DedupReset ==
    /\ owes
    /\ owes' = FALSE
    /\ cached' = FALSE
    /\ UNCHANGED <<listening, slots, stuck, walk, at, row, accepted>>

-----------------------------------------------------------------------------
(* data_socket_emit(), by either thread                                    *)

BeginEmit(steady) ==
    /\ walk = "none" /\ listening
    /\ walk' = "emit"
    /\ at' = 1
    /\ row' = steady
    /\ slots' = [i \in 1 .. Len(slots) |-> [slots[i] EXCEPT !.owed = TRUE]]
    /\ UNCHANGED <<listening, stuck>>

\* a capture thread writes a record
EmitRecord == BeginEmit(FALSE) /\ UNCHANGED poll

\* The poll thread comes to the steady row: it is written, and cached, when
\* any sink is there and the cache does not suppress it; the heartbeat lets
\* it through although it is cached.
AnySink == FileSink \/ (listening /\ slots # <<>>)

SnapshotRow ==
    /\ ~ owes /\ AnySink
    /\ \/ BeginEmit(TRUE)
       \/ ~ listening /\ UNCHANGED <<listening, slots, stuck, walk, at, row>>
    /\ cached' = TRUE
    /\ UNCHANGED <<accepted, owes>>

\* flush, offer, flush; a client dropped on the way is replaced by the last
\* one, which is then the next
EmitClient_m1 ==
    /\ walk = "emit" /\ at <= Len(slots)
    /\ \E outcome \in Outcomes(slots[at]) :
          IF outcome = "dead" THEN
             /\ slots' = DropAt(slots, at)
             /\ stuck' = stuck \ {slots[at].conn}
             /\ at' = at + 1
          ELSE
             /\ \E fits \in BOOLEAN :
                   slots' = [slots EXCEPT ![at] =
                               Offered(Flushed(slots[at], outcome), fits)]
             /\ at' = at + 1
             /\ UNCHANGED stuck
    /\ UNCHANGED <<listening, walk, row, poll>>
EmitClient ==
    /\ walk = "emit" /\ at <= Len(slots)
    /\ \E outcome \in Outcomes(slots[at]) :
          \/ outcome = "dead" /\ Close(at)
          \/ /\ outcome # "dead"
             /\ \E fits \in BOOLEAN :
                   LET c == Offered(Flushed(slots[at], outcome), fits)
                   IN \E then \in Outcomes(c) :
                         \/ then = "dead" /\ Close(at)
                         \/ /\ then # "dead"
                            /\ slots' = [slots EXCEPT ![at] = Flushed(c, then)]
                            /\ at' = at + 1
                            /\ UNCHANGED stuck
    /\ UNCHANGED <<listening, walk, row, poll>>

EndEmit ==
    /\ walk = "emit" /\ at > Len(slots)
    /\ walk' = "none"
    /\ UNCHANGED <<listening, slots, stuck, at, row, poll>>

-----------------------------------------------------------------------------
(* The listener, the peers and the clock                                   *)

\* install_listener(): clients of an earlier listener stay
Listen ==
    /\ ~ listening /\ walk = "none"
    /\ listening' = TRUE
    /\ UNCHANGED <<slots, stuck, walk, at, row, poll>>

\* data_socket_cleanup()
Cleanup ==
    /\ listening /\ walk = "none" /\ ~ owes
    /\ listening' = FALSE
    /\ slots' = <<>>
    /\ stuck' = {}
    /\ UNCHANGED <<walk, at, row, poll>>

\* a peer stops reading and its window closes
PeerStops(c) ==
    /\ walk = "none"
    /\ c \in Connected \ stuck
    /\ stuck' = stuck \cup {c}
    /\ UNCHANGED <<listening, slots, walk, at, row, poll>>

\* The walks read the clock once, so time passes between them.  Ages stop at
\* the longest the timers look at.
Elapse ==
    /\ walk = "none"
    /\ \E i \in 1 .. Len(slots) : slots[i].age < MaxAge
    /\ slots' = [i \in 1 .. Len(slots) |->
                   [slots[i] EXCEPT !.age = IF @ < MaxAge THEN @ + 1 ELSE @]]
    /\ UNCHANGED <<listening, stuck, walk, at, row, poll>>

Init ==
    /\ listening = FALSE /\ slots = <<>> /\ stuck = {}
    /\ walk = "none" /\ at = 1 /\ row = FALSE
    /\ accepted = FALSE /\ owes = FALSE /\ cached = FALSE

Next ==
    \/ BeginTick \/ EndAccept \/ TickClient \/ EndTick \/ DedupReset
    \/ \E c \in Conns, p \in Peers : Accept(c, p)
    \/ EmitRecord \/ SnapshotRow \/ EmitClient \/ EndEmit
    \/ Listen \/ Cleanup \/ Elapse
    \/ \E c \in Conns : PeerStops(c)

Spec == Init /\ [][Next]_vars

\* The walks end, the backlog runs dry, the poll loop comes round to its tick
\* although records keep coming, and time passes.
Fairness ==
    /\ WF_vars(EndAccept) /\ WF_vars(TickClient) /\ WF_vars(EndTick)
    /\ WF_vars(DedupReset) /\ WF_vars(EmitClient) /\ WF_vars(EndEmit)
    /\ SF_vars(BeginTick) /\ SF_vars(Elapse)

FairSpec == Spec /\ Fairness

-----------------------------------------------------------------------------
(* Properties                                                              *)

\* No peer ever holds more than its share of the slots (#135) and no
\* connection is in two of them, whatever drop_client() swaps about.
SlotsAreShared ==
    /\ \A p \in Peers : Held(p) <= PeerCap
    /\ \A i, j \in 1 .. Len(slots) : slots[i].conn = slots[j].conn => i = j

\* A record is offered to every client connected when it was emitted: the
\* client swapped into a dropped one's place is not passed over.
EveryClientIsOffered ==
    walk # "emit" => \A i \in 1 .. Len(slots) : ~ slots[i].owed

\* While the change cache suppresses a steady row, every client has been
\* offered it (#47): whoever connects gets the full baseline.
BaselineReachesAll ==
    (cached /\ ~ owes /\ walk = "none") =>
       \A i \in 1 .. Len(slots) : slots[i].based

\* A connection whose peer stopped reading is closed in the end and its slot
\* freed, however many records keep coming (#93, #135).
StuckConnectionsEnd == \A c \in Conns : c \in stuck ~> c \notin stuck
=============================================================================
