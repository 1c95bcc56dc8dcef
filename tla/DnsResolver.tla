---------------------------- MODULE DnsResolver ----------------------------
(***************************************************************************)
(* The name cache and its resolver worker (src/dns.c).  The main thread    *)
(* asks for names as it draws, the capture thread stores names it saw on   *)
(* the wire, and the worker resolves queued addresses outside g_mu, which  *)
(* may take seconds; every step below is one critical section.             *)
(*                                                                         *)
(* A host name is <<address it was learnt for, how>>.  The clock is the    *)
(* wall clock and may step.                                                *)
(*                                                                         *)
(* Names ending in _m and a number are defective forms of the definition   *)
(* that follows; no action uses them.                                      *)
(***************************************************************************)
EXTENDS Integers, Sequences

CONSTANTS
    DnsIps,       \* addresses
    DnsSlots,     \* DNS_CACHE_SIZE
    DnsQueueMax,  \* DNS_QUEUE_SIZE
    DnsTtl,       \* DNS_TTL_SEC
    DnsTicks,     \* bound: the wall clock
    DnsNobody     \* no address

ASSUME DnsAssumption ==
    /\ DnsSlots \in Nat \ {0} /\ DnsQueueMax \in Nat \ {0}
    /\ DnsTtl \in Nat /\ DnsTicks \in Nat /\ DnsNobody \notin DnsIps

VARIABLES
    dnsEnabled,   \* g_resolver_enabled: --allow-active, fixed at startup
    dnsRunning,   \* g_running
    dnsWorker,    \* the thread: "none", "idle", "busy" or "ended"
    dnsJob,       \* the address it is resolving
    dnsCache,     \* g_cache: slot -> ip, host, state, ts
    dnsQueue,     \* g_queue from g_queue_head, g_queue_len long
    dnsClock,     \* sloth_wall()
    dnsStopping,  \* the main thread is in dns_cleanup(), or past it
    dnsRefused    \* history: entries whose request met a full queue

dnsVars == <<dnsEnabled, dnsRunning, dnsWorker, dnsJob, dnsCache, dnsQueue,
             dnsClock, dnsStopping, dnsRefused>>

EmptyEntry ==
    [ip |-> DnsNobody, host |-> <<>>, state |-> "empty", ts |-> 0]

\* dns_init(): a worker only where policy allows one, if it can be created
DnsInit ==
    /\ dnsEnabled \in BOOLEAN
    /\ \/ dnsEnabled /\ dnsRunning = TRUE /\ dnsWorker = "idle"
       \/ dnsRunning = FALSE /\ dnsWorker = "none"
    /\ dnsJob = DnsNobody
    /\ dnsCache = [i \in 1 .. DnsSlots |-> EmptyEntry]
    /\ dnsQueue = <<>> /\ dnsClock = 0
    /\ dnsStopping = FALSE /\ dnsRefused = {}

-----------------------------------------------------------------------------
(* The cache and the queue                                                 *)

EntriesOf(ip) == {i \in 1 .. DnsSlots : dnsCache[i].ip = ip}   \* cache_find()
Foremost(i, S) == i \in S /\ \A j \in S : i <= j

\* cache_evict(): an empty slot, else an expired one that nobody waits for,
\* else the oldest, waited for or not
Reusable(i) ==
    LET empty   == {j \in 1 .. DnsSlots : dnsCache[j].state = "empty"}
        expired == {j \in 1 .. DnsSlots :
                       /\ dnsCache[j].state # "pending"
                       /\ dnsClock - dnsCache[j].ts > DnsTtl}
        oldest  == {j \in 1 .. DnsSlots :
                       \A n \in 1 .. DnsSlots :
                          dnsCache[j].ts <= dnsCache[n].ts} IN
    Foremost(i, IF empty # {} THEN empty
                ELSE IF expired # {} THEN expired ELSE oldest)

Fill(i, ip, host, state) ==
    dnsCache' = [dnsCache EXCEPT ![i] =
        [ip |-> ip, host |-> host, state |-> state, ts |-> dnsClock]]

\* enqueue(): slot i waits for ip's answer; a full queue drops the request
Ask_m1(i, ip) ==
    /\ Fill(i, ip, <<>>, "pending")
    /\ dnsQueue' = Append(dnsQueue, ip) /\ UNCHANGED dnsRefused
Ask(i, ip) ==
    LET others == dnsRefused \ {dnsCache[i].ip, ip} IN
    /\ Fill(i, ip, <<>>, "pending")
    /\ IF Len(dnsQueue) < DnsQueueMax
       THEN dnsQueue' = Append(dnsQueue, ip) /\ dnsRefused' = others
       ELSE UNCHANGED dnsQueue /\ dnsRefused' = others \cup {ip}

-----------------------------------------------------------------------------
(* The main thread: dns_resolve(), dns_cleanup()                           *)

Unknown(ip) == EntriesOf(ip) = {}
Outdated(i) == /\ dnsCache[i].state = "resolved"
               /\ dnsClock - dnsCache[i].ts >= DnsTtl

\* a name not cached, or cached too long ago, is asked for
DnsResolve(ip) ==
    /\ ~ dnsStopping /\ dnsEnabled
    /\ \/ Unknown(ip) /\ \E i \in 1 .. DnsSlots : Reusable(i) /\ Ask(i, ip)
       \/ \E i \in EntriesOf(ip) : Outdated(i) /\ Ask(i, ip)
    /\ UNCHANGED <<dnsEnabled, dnsRunning, dnsWorker, dnsJob, dnsClock,
                   dnsStopping>>

\* dns_cleanup() to the join, which returns once the worker has ended
DnsCleanup ==
    /\ ~ dnsStopping
    /\ dnsStopping' = TRUE /\ dnsRunning' = FALSE
    /\ UNCHANGED <<dnsEnabled, dnsWorker, dnsJob, dnsCache, dnsQueue,
                   dnsClock, dnsRefused>>

-----------------------------------------------------------------------------
(* The capture thread: dns_set_resolved()                                  *)

DnsSetResolved(ip) ==
    /\ \E i \in 1 .. DnsSlots :
          /\ IF Unknown(ip) THEN Reusable(i) ELSE Foremost(i, EntriesOf(ip))
          /\ Fill(i, ip, <<ip, "seen">>, "resolved")
          /\ dnsRefused' = dnsRefused \ {dnsCache[i].ip}
    /\ UNCHANGED <<dnsEnabled, dnsRunning, dnsWorker, dnsJob, dnsQueue,
                   dnsClock, dnsStopping>>

-----------------------------------------------------------------------------
(* dns_worker()                                                            *)

DnsTake ==
    /\ dnsWorker = "idle" /\ dnsRunning /\ dnsQueue # <<>>
    /\ dnsWorker' = "busy" /\ dnsJob' = Head(dnsQueue)
    /\ dnsQueue' = Tail(dnsQueue)
    /\ UNCHANGED <<dnsEnabled, dnsRunning, dnsCache, dnsClock, dnsStopping,
                   dnsRefused>>

\* the entries an answer for dnsJob is stored in
Awaiting_m1 == {i \in 1 .. DnsSlots : dnsCache[i].state = "pending"}
Awaiting == {i \in EntriesOf(dnsJob) : dnsCache[i].state = "pending"}

\* the answer, a name or none, goes to the entry if one still waits for it
DnsAnswer_m1 ==
    /\ dnsWorker = "busy"
    /\ \/ \E i \in Awaiting :
             /\ Fill(i, dnsCache[i].ip, <<dnsJob, "ptr">>, "resolved")
             /\ dnsRefused' = dnsRefused \ {dnsCache[i].ip}
       \/ UNCHANGED <<dnsCache, dnsRefused>>
    /\ dnsWorker' = "idle" /\ dnsJob' = DnsNobody
    /\ UNCHANGED <<dnsEnabled, dnsRunning, dnsQueue, dnsClock, dnsStopping>>
DnsAnswer ==
    /\ dnsWorker = "busy"
    /\ \/ \E i \in Awaiting :
             /\ \/ Fill(i, dnsCache[i].ip, <<dnsJob, "ptr">>, "resolved")
                \/ Fill(i, dnsCache[i].ip, <<>>, "failed")
             /\ dnsRefused' = dnsRefused \ {dnsCache[i].ip}
       \/ Awaiting = {} /\ UNCHANGED <<dnsCache, dnsRefused>>
    /\ dnsWorker' = "idle" /\ dnsJob' = DnsNobody
    /\ UNCHANGED <<dnsEnabled, dnsRunning, dnsQueue, dnsClock, dnsStopping>>

DnsExit_m1 ==
    /\ dnsWorker = "idle" /\ ~ dnsRunning /\ dnsQueue = <<>>
    /\ dnsWorker' = "ended"
    /\ UNCHANGED <<dnsEnabled, dnsRunning, dnsJob, dnsCache, dnsQueue,
                   dnsClock, dnsStopping, dnsRefused>>
DnsExit ==
    /\ dnsWorker = "idle" /\ ~ dnsRunning
    /\ dnsWorker' = "ended"
    /\ UNCHANGED <<dnsEnabled, dnsRunning, dnsJob, dnsCache, dnsQueue,
                   dnsClock, dnsStopping, dnsRefused>>

DnsTick ==
    /\ dnsClock' \in 0 .. DnsTicks \ {dnsClock}
    /\ UNCHANGED <<dnsEnabled, dnsRunning, dnsWorker, dnsJob, dnsCache,
                   dnsQueue, dnsStopping, dnsRefused>>

DnsWork == DnsTake \/ DnsAnswer \/ DnsExit

DnsNext ==
    \/ \E ip \in DnsIps : DnsResolve(ip) \/ DnsSetResolved(ip)
    \/ DnsCleanup \/ DnsWork \/ DnsTick

DnsSpec == DnsInit /\ [][DnsNext]_dnsVars

\* getnameinfo() returns and the worker is scheduled
DnsFairSpec == DnsSpec /\ WF_dnsVars(DnsWork)

-----------------------------------------------------------------------------
DnsEntry == [ip : DnsIps \cup {DnsNobody},
             host : {<<>>} \cup (DnsIps \X {"seen", "ptr"}),
             state : {"empty", "pending", "resolved", "failed"},
             ts : 0 .. DnsTicks]

\* Shape of the cache (dns_entry_t), the queue and the worker's state.
DnsTypeOK ==
    /\ dnsCache \in [1 .. DnsSlots -> DnsEntry]
    /\ dnsQueue \in Seq(DnsIps) /\ Len(dnsQueue) <= DnsQueueMax
    /\ dnsClock \in 0 .. DnsTicks
    /\ dnsWorker \in {"none", "idle", "busy", "ended"}
    /\ dnsJob \in DnsIps \cup {DnsNobody}
    /\ dnsWorker = "busy" <=> dnsJob # DnsNobody

Owed(ip) == ip = dnsJob \/ \E n \in DOMAIN dnsQueue : dnsQueue[n] = ip

\* An address has one entry and a name is shown for no address but the one
\* it was learnt for, however the cache was reused while the worker was out
\* of the lock (dns_worker() looks its entry up again).
DnsNamesOwn ==
    \A i, j \in 1 .. DnsSlots :
       /\ dnsCache[i].state # "empty" /\ dnsCache[i].ip = dnsCache[j].ip
             => i = j
       /\ dnsCache[i].host # <<>> => dnsCache[i].host[1] = dnsCache[i].ip

\* An entry that says an answer is coming has one coming, but for those
\* whose request met a full queue, which enqueue() drops: a name that could
\* not be resolved, an eviction and a late answer leave no such entry.  Under
\* strict observation (#84, the default) there is none, nor a queue or a
\* worker, whatever was cached from the wire and has gone stale since.
DnsPromisesKept ==
    \A i \in 1 .. DnsSlots :
       /\ dnsCache[i].state = "pending" =>
             Owed(dnsCache[i].ip) \/ dnsCache[i].ip \in dnsRefused
       /\ ~ dnsEnabled =>
             /\ dnsWorker = "none" /\ dnsQueue = <<>> /\ ~ dnsRunning
             /\ dnsCache[i].state \in {"empty", "resolved"}

\* While the worker runs every queued address is answered, and the join of
\* dns_cleanup() returns with requests still queued or one in flight.
DnsWorkerServes ==
    /\ \A ip \in DnsIps :
          (dnsRunning /\ Owed(ip)) ~> (dnsStopping \/ dnsJob = ip)
    /\ dnsStopping ~> (dnsWorker \in {"none", "ended"})
=============================================================================
