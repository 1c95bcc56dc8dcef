----------------------------- MODULE SocketQueue -----------------------------
(***************************************************************************)
(* The send queue of one data-socket client (ds_client_t, #93): records    *)
(* encoded into buf[off .. len), written to the kernel from a saved offset *)
(* a few bytes at a time, dropped whole when they do not fit, the loss     *)
(* declared by a socket_gap marker queued with the next record that does.  *)
(* DataSocket models the slots, peers and timers around it.                *)
(*                                                                         *)
(* A call of offer() is atomic under the socket's mutex; the sends around  *)
(* it (flush_client) are steps of their own, each taking any number of     *)
(* bytes, so EAGAIN is the absence of a step.                              *)
(*                                                                         *)
(* Names ending in _m and a number are defective forms of the definition   *)
(* that follows; no action uses them.                                      *)
(***************************************************************************)
EXTENDS Integers, Sequences

CONSTANTS
    QueueMax,   \* DATA_SOCKET_QUEUE_MAX
    FirstCap,   \* capacity of the first buffer (16384)
    Sizes,      \* possible record sizes, delimiter included
    MarkSize,   \* size of a socket_gap marker, delimiter included
    MaxOffered  \* bound: records offered to one connection

ASSUME QueueAssumption ==
    /\ QueueMax \in Nat /\ FirstCap \in 1 .. QueueMax
    /\ Sizes \subseteq Nat \ {0} /\ MarkSize \in Nat \ {0}
    /\ MaxOffered \in Nat

VARIABLES
    buf,        \* the buffer: capacity, and where unsent bytes start and end
    items,      \* the records and markers in buf[off .. len), oldest first
    part,       \* bytes of the oldest item already written
    seq, gap, dropped,          \* the counters of ds_client_t
    offered, got, told, newest  \* what really happened: see LossyFeed

vars == <<buf, items, part, seq, gap, dropped, offered, got, told, newest>>

\* An item: its number in the stream, the records a marker says were dropped
\* (0 in a record), and its size in bytes.  A record's number is which one of
\* those offered it is, a marker's is its `seq` field.
Rec(n)  == [num |-> offered + 1, dropped |-> 0, size |-> n]
Marker  == [num |-> seq, dropped |-> gap, size |-> MarkSize]

IsMarker(item) == item.dropped > 0

-----------------------------------------------------------------------------
(* enqueue()                                                               *)

Room(n) == (buf.len - buf.off) + n <= QueueMax

\* written bytes are given back when the new item does not fit behind the rest
Compacted(b, n) ==
    IF b.len + n > b.cap /\ b.off > 0
    THEN [b EXCEPT !.len = b.len - b.off, !.off = 0] ELSE b

\* the capacity doubles until it is enough, and never exceeds the queue's
Doubled(cap) ==
    LET c[i \in 0 .. QueueMax] ==
            IF i = 0 THEN IF cap = 0 THEN FirstCap ELSE cap ELSE 2 * c[i - 1]
    IN c
Doublings(cap) == {Doubled(cap)[i] : i \in 0 .. QueueMax}

Grown(cap, want) ==
    LET enough == {c \in Doublings(cap) : c >= want}
        least  == CHOOSE c \in enough : \A d \in enough : c <= d
    IN IF least > QueueMax THEN QueueMax ELSE least

NeedsMemory(b, n) == LET c == Compacted(b, n) IN c.len + n > c.cap

Enqueued(b, n) ==
    LET c == Compacted(b, n)
    IN [c EXCEPT !.cap = IF NeedsMemory(b, n) THEN Grown(c.cap, c.len + n) ELSE c.cap,
                 !.len = c.len + n]

-----------------------------------------------------------------------------
(* offer()                                                                 *)

Queued ==
    /\ offered' = offered + 1
    /\ seq' = seq + 1
    /\ UNCHANGED <<part, dropped, got, told, newest>>

Lost_m1 ==
    /\ offered' = offered + 1
    /\ gap' = gap + 1
    /\ dropped' = dropped + 1
    /\ UNCHANGED <<seq, items, part, got, told, newest>>
Lost ==
    /\ offered' = offered + 1
    /\ seq' = seq + 1
    /\ gap' = gap + 1
    /\ dropped' = dropped + 1
    /\ UNCHANGED <<items, part, got, told, newest>>

\* nothing was dropped since the last marker
OfferRecord(n) ==
    /\ gap = 0
    /\ Room(n)
    /\ buf' = Enqueued(buf, n)
    /\ items' = Append(items, Rec(n))
    /\ Queued
    /\ UNCHANGED gap

\* marker and record go in together
OfferMarked_m1(n) ==
    /\ gap > 0
    /\ Room(MarkSize + n)
    /\ buf' = Enqueued(Enqueued(buf, MarkSize), n)
    /\ items' = Append(Append(items, Marker), Rec(n))
    /\ Queued
    /\ UNCHANGED gap
OfferMarked(n) ==
    /\ gap > 0
    /\ Room(MarkSize + n)
    /\ buf' = Enqueued(Enqueued(buf, MarkSize), n)
    /\ items' = Append(Append(items, Marker), Rec(n))
    /\ gap' = 0
    /\ Queued

\* the incoming record is the one dropped, never one already queued
OfferFull(n) ==
    /\ ~ Room(IF gap > 0 THEN MarkSize + n ELSE n)
    /\ Lost
    /\ UNCHANGED buf

\* realloc fails: for the record, for the marker, or for the record behind a
\* marker, which is then taken back
Unwound_m1(b) == b
Unwound(b) == [b EXCEPT !.len = b.len - MarkSize]

OfferNoMemory(n) ==
    /\ Room(IF gap > 0 THEN MarkSize + n ELSE n)
    /\ \/ /\ gap = 0
          /\ NeedsMemory(buf, n)
          /\ buf' = Compacted(buf, n)
       \/ /\ gap > 0
          /\ NeedsMemory(buf, MarkSize)
          /\ buf' = Compacted(buf, MarkSize)
       \/ /\ gap > 0
          /\ NeedsMemory(Enqueued(buf, MarkSize), n)
          /\ buf' = Unwound(Compacted(Enqueued(buf, MarkSize), n))
    /\ Lost

Offer ==
    /\ offered < MaxOffered
    /\ \E n \in Sizes :
          OfferRecord(n) \/ OfferMarked(n) \/ OfferFull(n) \/ OfferNoMemory(n)

-----------------------------------------------------------------------------
(* flush_client() and the end of a connection                              *)

\* the consumer receives an item, having received all of its bytes
Received(item) ==
    IF IsMarker(item)
    THEN told' = told + item.dropped /\ UNCHANGED <<got, newest>>
    ELSE got' = got + 1 /\ newest' = item.num /\ UNCHANGED told

\* send() takes k bytes, none beyond the end of the oldest item; a longer
\* write is several of these.  A drained queue starts over at the front.
Sent(k) ==
    buf' = IF buf.off + k = buf.len THEN [buf EXCEPT !.off = 0, !.len = 0]
                                    ELSE [buf EXCEPT !.off = buf.off + k]

WriteSome(k) ==
    /\ items # <<>>
    /\ part + k < Head(items).size
    /\ part' = part + k
    /\ Sent(k)
    /\ UNCHANGED <<items, seq, gap, dropped, offered, got, told, newest>>

WriteRest ==
    /\ items # <<>>
    /\ Sent(Head(items).size - part)
    /\ Received(Head(items))
    /\ items' = Tail(items)
    /\ part' = 0
    /\ UNCHANGED <<seq, gap, dropped, offered>>

\* drop_client(), and the memset of the slot when the peer is accepted again
NoBuffer == [cap |-> 0, len |-> 0, off |-> 0]

Reconnect ==
    /\ buf' = NoBuffer /\ items' = <<>> /\ part' = 0
    /\ seq' = 0 /\ gap' = 0 /\ dropped' = 0
    /\ offered' = 0 /\ got' = 0 /\ told' = 0 /\ newest' = 0

Init ==
    /\ buf = NoBuffer /\ items = <<>> /\ part = 0
    /\ seq = 0 /\ gap = 0 /\ dropped = 0
    /\ offered = 0 /\ got = 0 /\ told = 0 /\ newest = 0

Next ==
    \/ Offer
    \/ \E k \in 1 .. QueueMax : WriteSome(k)
    \/ WriteRest
    \/ Reconnect

Spec == Init /\ [][Next]_vars

-----------------------------------------------------------------------------
(* Properties                                                              *)

\* The buffer's offsets stay in the queue's maximum (ds_client_t).
TypeOK ==
    /\ buf \in [cap : 0 .. QueueMax, len : 0 .. QueueMax, off : 0 .. QueueMax]
    /\ buf.off <= buf.len /\ buf.len <= buf.cap
    /\ items \in Seq([num : Nat, dropped : Nat, size : Nat \ {0}])
    /\ part \in Nat
    /\ seq \in Nat /\ gap \in Nat /\ dropped \in Nat
    /\ offered \in Nat /\ got \in Nat /\ told \in Nat /\ newest \in Nat

\* Where each item of a queue q ends, in bytes after the start of the oldest.
Ends(q) ==
    LET e[n \in 0 .. Len(q)] == IF n = 0 THEN 0 ELSE e[n - 1] + q[n].size IN e

\* The bytes between the offsets are the items less what is written of the
\* oldest.
BytesAreItems ==
    /\ buf.len - buf.off = Ends(items)[Len(items)] - part
    /\ part < IF items = <<>> THEN 1 ELSE Head(items).size

\* The buffer never outgrows DATA_SOCKET_QUEUE_MAX, the copies of enqueue() are
\* inside it, and what is between its offsets is exactly what was queued and not
\* yet received (#93), after any mix of partial writes, compaction, doubling and
\* taken-back markers: no record is glued to the next, cut short or sent twice,
\* and the oldest item is never finished by another one.
BufferHoldsQueue ==
    /\ 0 <= buf.off /\ buf.off <= buf.len
    /\ buf.len <= buf.cap /\ buf.cap <= QueueMax
    /\ BytesAreItems

\* Where the consumer's count stands before it receives item i.
Before(i) == IF i = 1 THEN got + told ELSE items[i - 1].num

\* No loss is silent (offer): every queued record is the one that follows what
\* the consumer will have received and been told of by then, every marker is
\* followed by a record and its `seq` is the consumer's count with the loss
\* added, and what is lost behind the queue is what the next marker will say.
NoSilentGap ==
    /\ seq = offered
    /\ \A i \in 1 .. Len(items) :
          /\ items[i].num = Before(i) + (IF IsMarker(items[i]) THEN items[i].dropped
                                                              ELSE 1)
          /\ IsMarker(items[i]) =>
                i < Len(items) /\ ~ IsMarker(items[i + 1])
    /\ Before(Len(items) + 1) = seq - gap

\* The queue is a feed that may lose records and never lies about it: whatever
\* is dropped, unwound or cut off, each record heard is the one the consumer's
\* own count says it is (#93).
Feed == INSTANCE LossyFeed
ImplementsFeed == Feed!Spec
=============================================================================
