--------------------------- MODULE WorkersProofs ----------------------------
(***************************************************************************)
(* Proofs about the components that have a thread, or a device, of their   *)
(* own to wait for: the name resolver, the monitor radio's worker and the  *)
(* channel rotation.  They share nothing; each part below speaks of one of *)
(* them only, and the last puts them side by side.                         *)
(***************************************************************************)
EXTENDS MCWorkers, TLAPS

-----------------------------------------------------------------------------
(***************************************************************************)
(* Proofs about the name cache and its worker, for any number of           *)
(* addresses, slots and queued requests and any steps of the wall clock.   *)
(*                                                                         *)
(* The worker looks its entry up again after it was out of the lock; that  *)
(* what it finds is the one entry owed an answer rests on an address       *)
(* having one entry only, so both properties are proved together.          *)
(***************************************************************************)

\* The empty slots, and only they, belong to no address.
EmptyIsNobody ==
    \A i \in 1 .. DnsSlots :
       dnsCache[i].state = "empty" <=> dnsCache[i].ip = DnsNobody

\* What holds of the cache alone.
CacheInv ==
    /\ dnsCache \in [1 .. DnsSlots -> DnsEntry]
    /\ EmptyIsNobody
    /\ DnsNamesOwn

DnsInv == DnsTypeOK /\ CacheInv /\ DnsPromisesKept

LEMMA EntryShape ==
    ASSUME dnsCache \in [1 .. DnsSlots -> DnsEntry], NEW i \in 1 .. DnsSlots
    PROVE  /\ dnsCache[i].ip \in DnsIps \cup {DnsNobody}
           /\ dnsCache[i].state \in {"empty", "pending", "resolved", "failed"}
BY DEF DnsEntry

\* A slot filled for an address that no other slot holds.
LEMMA FillKeeps ==
    ASSUME DnsInv, NEW i \in 1 .. DnsSlots, NEW ip \in DnsIps,
           NEW host \in {<<>>} \cup ({ip} \X {"seen", "ptr"}),
           NEW state \in {"pending", "resolved", "failed"},
           \A j \in 1 .. DnsSlots : j # i => dnsCache[j].ip # ip,
           Fill(i, ip, host, state)
    PROVE  /\ CacheInv'
           /\ dnsCache'[i].ip = ip /\ dnsCache'[i].state = state
           /\ \A j \in 1 .. DnsSlots : j # i => dnsCache'[j] = dnsCache[j]
<1> DEFINE e == [ip |-> ip, host |-> host, state |-> state, ts |-> dnsClock]
<1>1. dnsCache \in [1 .. DnsSlots -> DnsEntry]
  BY DEF DnsInv, CacheInv
<1>2. dnsClock \in 0 .. DnsTicks
  BY DEF DnsInv, DnsTypeOK
<1>3. host \in {<<>>} \cup (DnsIps \X {"seen", "ptr"})
  OBVIOUS
<1>4. e \in DnsEntry
  BY <1>2, <1>3 DEF DnsEntry
<1>5. dnsCache' = [dnsCache EXCEPT ![i] = e]
  BY DEF Fill
<1>6. /\ dnsCache'[i] = e
      /\ \A j \in 1 .. DnsSlots : j # i => dnsCache'[j] = dnsCache[j]
  BY <1>1, <1>5
<1>7. (dnsCache \in [1 .. DnsSlots -> DnsEntry])'
  BY <1>1, <1>4, <1>5
<1>8. EmptyIsNobody'
  BY <1>6, DnsAssumption DEF DnsInv, CacheInv, EmptyIsNobody
<1>9. DnsNamesOwn'
  <2> SUFFICES ASSUME NEW m \in 1 .. DnsSlots, NEW n \in 1 .. DnsSlots
               PROVE  /\ dnsCache'[m].state # "empty" /\ dnsCache'[m].ip = dnsCache'[n].ip
                            => m = n
                      /\ dnsCache'[m].host # <<>> => dnsCache'[m].host[1] = dnsCache'[m].ip
    BY DEF DnsNamesOwn
  <2>1. dnsCache'[m].state # "empty" /\ dnsCache'[m].ip = dnsCache'[n].ip => m = n
    BY <1>6 DEF DnsInv, CacheInv, DnsNamesOwn
  <2>2. CASE m = i
    <3>1. host # <<>> => host[1] = ip
      OBVIOUS
    <3> QED BY <1>6, <2>1, <2>2, <3>1
  <2>3. CASE m # i
    BY <1>6, <2>1, <2>3 DEF DnsInv, CacheInv, DnsNamesOwn
  <2> QED BY <2>2, <2>3
<1> QED BY <1>6, <1>7, <1>8, <1>9 DEF CacheInv

\* Who is owed an answer when the queue grows, or its head becomes the job.
LEMMA AppendOwes ==
    ASSUME dnsQueue \in Seq(DnsIps), NEW ip \in DnsIps,
           dnsQueue' = Append(dnsQueue, ip), dnsJob' = dnsJob
    PROVE  /\ dnsQueue' \in Seq(DnsIps) /\ Len(dnsQueue') = Len(dnsQueue) + 1
           /\ Owed(ip)'
           /\ \A a \in DnsIps : Owed(a) => Owed(a)'
<1>1. /\ dnsQueue' \in Seq(DnsIps) /\ Len(dnsQueue') = Len(dnsQueue) + 1
      /\ dnsQueue'[Len(dnsQueue) + 1] = ip
      /\ \A n \in 1 .. Len(dnsQueue) : dnsQueue'[n] = dnsQueue[n]
  OBVIOUS
<1>2. DOMAIN dnsQueue' = 1 .. Len(dnsQueue) + 1 /\ DOMAIN dnsQueue = 1 .. Len(dnsQueue)
  BY <1>1
<1>3. Len(dnsQueue) \in Nat
  OBVIOUS
<1> QED BY <1>1, <1>2, <1>3 DEF Owed

LEMMA TakeOwes ==
    ASSUME dnsQueue \in Seq(DnsIps), dnsQueue # <<>>, dnsJob = DnsNobody,
           dnsQueue' = Tail(dnsQueue), dnsJob' = Head(dnsQueue)
    PROVE  /\ dnsQueue' \in Seq(DnsIps) /\ dnsJob' \in DnsIps
           /\ Len(dnsQueue') = Len(dnsQueue) - 1
           /\ \A a \in DnsIps : Owed(a) => Owed(a)'
<1>1. /\ dnsQueue' \in Seq(DnsIps) /\ Len(dnsQueue') = Len(dnsQueue) - 1
      /\ Len(dnsQueue) \in Nat \ {0} /\ dnsJob' = dnsQueue[1] /\ dnsJob' \in DnsIps
      /\ \A n \in 1 .. Len(dnsQueue) - 1 : dnsQueue'[n] = dnsQueue[n + 1]
  OBVIOUS
<1>2. DOMAIN dnsQueue' = 1 .. Len(dnsQueue) - 1 /\ DOMAIN dnsQueue = 1 .. Len(dnsQueue)
  BY <1>1
<1>3. ASSUME NEW a \in DnsIps, Owed(a) PROVE Owed(a)'
  <2>1. PICK n \in 1 .. Len(dnsQueue) : dnsQueue[n] = a
    BY <1>2, <1>3, DnsAssumption DEF Owed
  <2>2. CASE n = 1
    BY <1>1, <2>1, <2>2 DEF Owed
  <2>3. CASE n # 1
    <3>1. n - 1 \in 1 .. Len(dnsQueue) - 1 /\ dnsQueue'[n - 1] = a
      BY <1>1, <2>1, <2>3
    <3> QED BY <1>2, <3>1 DEF Owed
  <2> QED BY <2>2, <2>3
<1> QED BY <1>1, <1>3


\* A step that leaves the cache alone and forgets nobody who is owed.
LEMMA QuietKeeps ==
    ASSUME DnsInv, DnsTypeOK', UNCHANGED <<dnsCache, dnsRefused, dnsEnabled>>,
           \A a \in DnsIps : Owed(a) => Owed(a)',
           ~ dnsEnabled => dnsWorker' = "none" /\ dnsQueue' = <<>> /\ ~ dnsRunning'
    PROVE  DnsInv'
<1>1. CacheInv'
  BY DEF DnsInv, CacheInv, EmptyIsNobody, DnsNamesOwn
<1>2. DnsPromisesKept'
  <2> SUFFICES ASSUME NEW i \in 1 .. DnsSlots
               PROVE  /\ dnsCache[i].state = "pending" =>
                            Owed(dnsCache[i].ip)' \/ dnsCache[i].ip \in dnsRefused
                      /\ ~ dnsEnabled =>
                            /\ dnsWorker' = "none" /\ dnsQueue' = <<>> /\ ~ dnsRunning'
                            /\ dnsCache[i].state \in {"empty", "resolved"}
    BY DEF DnsPromisesKept, Owed
  <2>1. dnsCache[i].state = "pending" => dnsCache[i].ip \in DnsIps
    BY EntryShape DEF DnsInv, CacheInv, EmptyIsNobody
  <2> QED BY <2>1 DEF DnsInv, DnsPromisesKept
<1> QED BY <1>1, <1>2 DEF DnsInv


\* A step that fills slot i for ip: what the others are promised stays, and
\* slot i is either promised something itself or says nothing is coming.
LEMMA FillKeepsPromises ==
    ASSUME DnsInv, DnsTypeOK', NEW i \in 1 .. DnsSlots, NEW ip \in DnsIps,
           NEW host \in {<<>>} \cup ({ip} \X {"seen", "ptr"}),
           NEW state \in {"pending", "resolved", "failed"},
           \A j \in 1 .. DnsSlots : j # i => dnsCache[j].ip # ip,
           Fill(i, ip, host, state), dnsEnabled' = dnsEnabled,
           dnsRefused \ {dnsCache[i].ip, ip} \subseteq dnsRefused',
           \A a \in DnsIps \ {ip} : Owed(a) => Owed(a)',
           state = "pending" => Owed(ip)' \/ ip \in dnsRefused',
           ~ dnsEnabled => /\ dnsWorker' = "none" /\ dnsQueue' = <<>> /\ ~ dnsRunning'
                           /\ state = "resolved"
    PROVE  DnsInv'
<1>1. /\ CacheInv'
      /\ dnsCache'[i].ip = ip /\ dnsCache'[i].state = state
      /\ \A j \in 1 .. DnsSlots : j # i => dnsCache'[j] = dnsCache[j]
  BY FillKeeps
<1>2. DnsPromisesKept'
  <2> SUFFICES ASSUME NEW j \in 1 .. DnsSlots
               PROVE  /\ dnsCache'[j].state = "pending" =>
                            Owed(dnsCache[j].ip)' \/ dnsCache'[j].ip \in dnsRefused'
                      /\ ~ dnsEnabled =>
                            /\ dnsWorker' = "none" /\ dnsQueue' = <<>> /\ ~ dnsRunning'
                            /\ dnsCache'[j].state \in {"empty", "resolved"}
    BY DEF DnsPromisesKept, Owed
  <2>1. CASE j = i
    BY <1>1, <2>1 DEF Owed
  <2>2. CASE j # i
    <3>1. dnsCache'[j] = dnsCache[j]
      BY <1>1, <2>2
    <3>2. dnsCache[j].state = "pending" =>
             /\ dnsCache[j].ip \in DnsIps \ {ip} /\ dnsCache[j].ip # dnsCache[i].ip
             /\ Owed(dnsCache[j].ip) \/ dnsCache[j].ip \in dnsRefused
      <4>1. dnsCache[j].state = "pending" => dnsCache[j].ip \in DnsIps
        BY EntryShape DEF DnsInv, CacheInv, EmptyIsNobody
      <4>2. dnsCache[j].state = "pending" => dnsCache[j].ip # dnsCache[i].ip
        BY <2>2 DEF DnsInv, CacheInv, DnsNamesOwn
      <4> QED BY <2>2, <4>1, <4>2 DEF DnsInv, DnsPromisesKept
    <3>3. dnsCache[j].state = "pending" =>
             Owed(dnsCache[j].ip)' \/ dnsCache[j].ip \in dnsRefused'
      <4>1. ASSUME dnsCache[j].state = "pending", Owed(dnsCache[j].ip)
            PROVE  Owed(dnsCache[j].ip)'
        <5> DEFINE a == dnsCache[j].ip
        <5>1. a \in DnsIps \ {ip} /\ dnsCache'[j].ip = a
          BY <3>1, <3>2, <4>1
        <5> HIDE DEF a
        <5> QED BY <4>1, <5>1 DEF Owed, a
      <4> QED BY <3>2, <4>1
    <3>4. ~ dnsEnabled => dnsCache[j].state \in {"empty", "resolved"}
      BY DEF DnsInv, DnsPromisesKept
    <3> QED BY <3>1, <3>3, <3>4
  <2> QED BY <2>1, <2>2
<1> QED BY <1>1, <1>2 DEF DnsInv


\* enqueue() for an address that has slot i, or is about to get it.
LEMMA AskKeeps ==
    ASSUME DnsInv, NEW ip \in DnsIps, NEW i \in 1 .. DnsSlots, dnsEnabled,
           \A j \in 1 .. DnsSlots : j # i => dnsCache[j].ip # ip,
           Ask(i, ip),
           UNCHANGED <<dnsEnabled, dnsRunning, dnsWorker, dnsJob, dnsClock,
                       dnsStopping>>
    PROVE  DnsInv'
<1>1. DnsTypeOK /\ dnsQueue \in Seq(DnsIps) /\ Len(dnsQueue) \in Nat
  BY DEF DnsInv, DnsTypeOK
<1>2. Fill(i, ip, <<>>, "pending")
  BY DEF Ask
<1>3. CacheInv'
  BY <1>2, FillKeeps
<1>4. CASE Len(dnsQueue) < DnsQueueMax
  <2>1. dnsQueue' = Append(dnsQueue, ip) /\ dnsRefused' = dnsRefused \ {dnsCache[i].ip, ip}
    BY <1>4 DEF Ask
  <2>2. /\ dnsQueue' \in Seq(DnsIps) /\ Len(dnsQueue') = Len(dnsQueue) + 1
        /\ Owed(ip)' /\ \A a \in DnsIps : Owed(a) => Owed(a)'
    BY <1>1, <2>1, AppendOwes
  <2>3. DnsTypeOK'
    BY <1>1, <1>3, <1>4, <2>2, DnsAssumption DEF DnsTypeOK, CacheInv
  <2> QED BY <1>2, <2>1, <2>2, <2>3, FillKeepsPromises
<1>5. CASE ~ (Len(dnsQueue) < DnsQueueMax)
  <2>1. dnsQueue' = dnsQueue /\ dnsRefused' = (dnsRefused \ {dnsCache[i].ip, ip}) \cup {ip}
    BY <1>5 DEF Ask
  <2>2. \A a \in DnsIps : Owed(a) => Owed(a)'
    BY <2>1 DEF Owed
  <2>3. DnsTypeOK'
    BY <1>1, <1>3, <2>1 DEF DnsTypeOK, CacheInv
  <2>4. ip \in dnsRefused' /\ dnsRefused \ {dnsCache[i].ip, ip} \subseteq dnsRefused'
    BY <2>1
  <2> QED BY <1>2, <2>2, <2>3, <2>4, FillKeepsPromises
<1> QED BY <1>4, <1>5

LEMMA ResolveKeeps ==
    ASSUME DnsInv, NEW ip \in DnsIps, DnsResolve(ip)
    PROVE  DnsInv'
<1>1. PICK i \in 1 .. DnsSlots :
         /\ \A j \in 1 .. DnsSlots : j # i => dnsCache[j].ip # ip
         /\ Ask(i, ip)
  <2>1. CASE Unknown(ip) /\ \E i \in 1 .. DnsSlots : Reusable(i) /\ Ask(i, ip)
    BY <2>1 DEF Unknown, EntriesOf
  <2>2. CASE \E i \in EntriesOf(ip) : Outdated(i) /\ Ask(i, ip)
    BY <2>2 DEF EntriesOf, Outdated, DnsInv, CacheInv, DnsNamesOwn
  <2> QED BY <2>1, <2>2 DEF DnsResolve
<1> QED BY <1>1, AskKeeps DEF DnsResolve

LEMMA SetResolvedKeeps ==
    ASSUME DnsInv, NEW ip \in DnsIps, DnsSetResolved(ip)
    PROVE  DnsInv'
<1>1. PICK i \in 1 .. DnsSlots :
         /\ IF Unknown(ip) THEN Reusable(i) ELSE Foremost(i, EntriesOf(ip))
         /\ Fill(i, ip, <<ip, "seen">>, "resolved")
         /\ dnsRefused' = dnsRefused \ {dnsCache[i].ip}
  BY DEF DnsSetResolved
<1>2. \A j \in 1 .. DnsSlots : j # i => dnsCache[j].ip # ip
  <2>1. CASE Unknown(ip)
    BY <2>1 DEF Unknown, EntriesOf
  <2>2. CASE ~ Unknown(ip)
    <3>1. dnsCache[i].ip = ip
      BY <1>1, <2>2 DEF Foremost, EntriesOf
    <3>2. dnsCache[i].state # "empty"
      BY <3>1, DnsAssumption DEF DnsInv, CacheInv, EmptyIsNobody
    <3> QED BY <3>1, <3>2 DEF DnsInv, CacheInv, DnsNamesOwn
  <2> QED BY <2>1, <2>2
<1>3. <<ip, "seen">> \in {ip} \X {"seen", "ptr"}
  OBVIOUS
<1>4. CacheInv'
  BY <1>1, <1>2, <1>3, FillKeeps
<1>5. DnsTypeOK'
  BY <1>4 DEF DnsInv, DnsTypeOK, CacheInv, DnsSetResolved
<1>6. /\ \A a \in DnsIps : Owed(a) => Owed(a)'
      /\ ~ dnsEnabled => dnsWorker' = "none" /\ dnsQueue' = <<>> /\ ~ dnsRunning'
  BY DnsAssumption DEF DnsSetResolved, Owed, DnsInv, DnsPromisesKept
<1>7. dnsEnabled' = dnsEnabled
  BY DEF DnsSetResolved
<1>8. dnsRefused \ {dnsCache[i].ip, ip} \subseteq dnsRefused'
  BY <1>1
<1> QED BY <1>1, <1>2, <1>3, <1>5, <1>6, <1>7, <1>8, FillKeepsPromises

LEMMA AnswerKeeps ==
    ASSUME DnsInv, DnsAnswer
    PROVE  DnsInv'
<1>1. /\ dnsWorker = "busy" /\ dnsWorker' = "idle" /\ dnsJob' = DnsNobody
      /\ UNCHANGED <<dnsEnabled, dnsRunning, dnsQueue, dnsClock, dnsStopping>>
  BY DEF DnsAnswer
<1>2. dnsJob \in DnsIps /\ dnsEnabled
  <2>1. dnsEnabled
    BY <1>1, DnsAssumption DEF DnsInv, DnsPromisesKept
  <2>2. dnsJob \in DnsIps
    BY <1>1 DEF DnsInv, DnsTypeOK
  <2> QED BY <2>1, <2>2
<1>3. \A a \in DnsIps \ {dnsJob} : Owed(a) => Owed(a)'
  BY <1>1 DEF Owed
<1>4. ASSUME NEW i \in Awaiting, NEW host \in {<<>>, <<dnsJob, "ptr">>},
             NEW state \in {"resolved", "failed"},
             Fill(i, dnsCache[i].ip, host, state),
             dnsRefused' = dnsRefused \ {dnsCache[i].ip}
      PROVE  DnsInv'
  <2>1. /\ i \in 1 .. DnsSlots /\ dnsCache[i].ip = dnsJob
        /\ \A j \in 1 .. DnsSlots : j # i => dnsCache[j].ip # dnsJob
    BY <1>4 DEF Awaiting, EntriesOf, DnsInv, CacheInv, DnsNamesOwn
  <2>2. host \in {<<>>} \cup ({dnsJob} \X {"seen", "ptr"})
    BY <1>4
  <2>3. CacheInv'
    BY <1>2, <1>4, <2>1, <2>2, FillKeeps
  <2>4. DnsTypeOK'
    BY <1>1, <2>3, DnsAssumption DEF DnsInv, DnsTypeOK, CacheInv
  <2>5. Fill(i, dnsJob, host, state)
    BY <1>4, <2>1
  <2>6. dnsRefused \ {dnsCache[i].ip, dnsJob} \subseteq dnsRefused'
    BY <1>4
  <2> QED BY <1>1, <1>2, <1>3, <2>1, <2>2, <2>4, <2>5, <2>6, FillKeepsPromises
<1>5. ASSUME Awaiting = {}, UNCHANGED <<dnsCache, dnsRefused>>
      PROVE  DnsInv'
  <2>1. DnsTypeOK'
    BY <1>1, <1>5, DnsAssumption DEF DnsInv, DnsTypeOK
  <2>2. CacheInv'
    BY <1>5 DEF DnsInv, CacheInv, EmptyIsNobody, DnsNamesOwn
  <2>3. DnsPromisesKept'
    <3> SUFFICES ASSUME NEW i \in 1 .. DnsSlots, dnsCache[i].state = "pending"
                 PROVE  Owed(dnsCache[i].ip)' \/ dnsCache[i].ip \in dnsRefused
      BY <1>1, <1>2, <1>5 DEF DnsPromisesKept, Owed
    <3>1. dnsCache[i].ip \in DnsIps \ {dnsJob}
      BY <1>5, EntryShape DEF Awaiting, EntriesOf, DnsInv, CacheInv, EmptyIsNobody
    <3>2. Owed(dnsCache[i].ip) \/ dnsCache[i].ip \in dnsRefused
      BY DEF DnsInv, DnsPromisesKept
    <3>3. Owed(dnsCache[i].ip) => Owed(dnsCache[i].ip)'
      BY <1>1, <1>5, <3>1 DEF Owed
    <3> QED BY <3>2, <3>3
  <2> QED BY <2>1, <2>2, <2>3 DEF DnsInv
<1> QED BY <1>4, <1>5 DEF DnsAnswer

LEMMA DnsInvHolds == DnsSpec => []DnsInv
<1>1. DnsInit => DnsInv
  <2> SUFFICES ASSUME DnsInit PROVE DnsInv
    OBVIOUS
  <2>1. EmptyEntry \in DnsEntry
    BY DnsAssumption DEF EmptyEntry, DnsEntry
  <2>2. /\ dnsCache \in [1 .. DnsSlots -> DnsEntry]
        /\ \A i \in 1 .. DnsSlots : dnsCache[i] = EmptyEntry
    BY <2>1 DEF DnsInit
  <2>3. CacheInv
    BY <2>2 DEF CacheInv, EmptyIsNobody, DnsNamesOwn, EmptyEntry
  <2>4. DnsTypeOK
    <3>1. dnsQueue \in Seq(DnsIps) /\ Len(dnsQueue) <= DnsQueueMax
      BY DnsAssumption DEF DnsInit
    <3>2. dnsClock \in 0 .. DnsTicks
      BY DnsAssumption DEF DnsInit
    <3> QED BY <2>2, <3>1, <3>2 DEF DnsInit, DnsTypeOK
  <2>5. DnsPromisesKept
    BY <2>2 DEF DnsInit, DnsPromisesKept, EmptyEntry
  <2> QED BY <2>3, <2>4, <2>5 DEF DnsInv
<1>2. DnsInv /\ [DnsNext]_dnsVars => DnsInv'
  <2> SUFFICES ASSUME DnsInv, [DnsNext]_dnsVars PROVE DnsInv'
    OBVIOUS
  <2>1. DnsTypeOK
    BY DEF DnsInv
  <2>2. \A i \in 1 .. DnsSlots :
           ~ dnsEnabled => dnsWorker = "none" /\ dnsQueue = <<>> /\ ~ dnsRunning
    BY DEF DnsInv, DnsPromisesKept
  <2>3. ~ dnsEnabled => dnsWorker = "none" /\ dnsQueue = <<>> /\ ~ dnsRunning
    BY <2>2, DnsAssumption
  <2>4. CASE DnsCleanup
    <3>1. DnsTypeOK' /\ \A a \in DnsIps : Owed(a) => Owed(a)'
      BY <2>1, <2>4 DEF DnsCleanup, DnsTypeOK, Owed
    <3> QED BY <2>3, <2>4, <3>1, QuietKeeps DEF DnsCleanup
  <2>5. CASE DnsTake
    <3>1. dnsJob = DnsNobody
      BY <2>1, <2>5 DEF DnsTake, DnsTypeOK
    <3>2. /\ dnsQueue' \in Seq(DnsIps) /\ dnsJob' \in DnsIps
          /\ Len(dnsQueue') = Len(dnsQueue) - 1
          /\ \A a \in DnsIps : Owed(a) => Owed(a)'
      BY <2>1, <2>5, <3>1, TakeOwes DEF DnsTake, DnsTypeOK
    <3>3. Len(dnsQueue) \in Nat
      BY <2>1 DEF DnsTypeOK
    <3>4. DnsTypeOK'
      BY <2>1, <2>5, <3>2, <3>3, DnsAssumption DEF DnsTake, DnsTypeOK
    <3> QED BY <2>3, <2>5, <3>2, <3>4, QuietKeeps DEF DnsTake
  <2>6. CASE DnsExit
    <3>1. DnsTypeOK' /\ \A a \in DnsIps : Owed(a) => Owed(a)'
      BY <2>1, <2>6 DEF DnsExit, DnsTypeOK, Owed
    <3> QED BY <2>3, <2>6, <3>1, QuietKeeps DEF DnsExit
  <2>7. CASE DnsTick
    <3>1. DnsTypeOK' /\ \A a \in DnsIps : Owed(a) => Owed(a)'
      BY <2>1, <2>7 DEF DnsTick, DnsTypeOK, Owed
    <3> QED BY <2>3, <2>7, <3>1, QuietKeeps DEF DnsTick
  <2>8. CASE UNCHANGED dnsVars
    <3>1. DnsTypeOK' /\ \A a \in DnsIps : Owed(a) => Owed(a)'
      BY <2>1, <2>8 DEF dnsVars, DnsTypeOK, Owed
    <3> QED BY <2>3, <2>8, <3>1, QuietKeeps DEF dnsVars
  <2> QED
    BY <2>4, <2>5, <2>6, <2>7, <2>8, ResolveKeeps, SetResolvedKeeps, AnswerKeeps
       DEF DnsNext, DnsWork
<1> QED BY <1>1, <1>2, PTL DEF DnsSpec

\* No address ever has two entries, nor is a name shown for another address,
\* whatever was evicted or stored while the worker was out of the lock.
THEOREM NamesAreOwn == DnsSpec => []DnsNamesOwn
<1>1. DnsInv => DnsNamesOwn
  BY DEF DnsInv, CacheInv
<1> QED BY <1>1, DnsInvHolds, PTL

\* An entry waits only for an answer that is queued, under way, or was refused
\* by a full queue, and strict observation (#84) asks nothing of anybody.
THEOREM PromisesAreKept == DnsSpec => []DnsPromisesKept
<1>1. DnsInv => DnsPromisesKept
  BY DEF DnsInv
<1> QED BY <1>1, DnsInvHolds, PTL

-----------------------------------------------------------------------------
(***************************************************************************)
(* Proofs about the monitor radio's worker, for any set of interfaces.     *)
(*                                                                         *)
(* Neither property is inductive: that the verdict is true rests on what   *)
(* the worker knew when it left its loop, and that on the run flag having  *)
(* only one way up, through Launch, which waits for the join.              *)
(***************************************************************************)

MonActive == {"loop", "dispatch", "left", "read"}

\* What the main thread's doings leave true of the handle and the flag.
MonHandleInv ==
    /\ monHandle # MonNone => monHandle = monIface
    /\ monMain = "retarget" => monTarget \in MonIfaces
    /\ monMain # "run" => ~ monFlag
    /\ MonHandleHeld

\* What the worker knows once it is out of its loop.
MonCauseInv ==
    /\ monThread \in {"left", "read"} /\ monFlag => monCause \in Faults
    /\ monCause = "break" => ~ monFlag
    /\ monAsked => ~ monFlag
    /\ MonVerdictIsTrue

MonInv == MonTypeOK /\ MonHandleInv /\ MonCauseInv

LEMMA MonInvHolds == MonSpec => []MonInv
<1>1. MonInit => MonInv
  <2> SUFFICES ASSUME MonInit PROVE MonInv
    OBVIOUS
  <2>1. MonTypeOK
    BY DEF MonInit, MonTypeOK, Reasons, Faults
  <2>2. MonHandleInv
    BY DEF MonInit, MonHandleInv, MonHandleHeld
  <2>3. MonCauseInv
    BY DEF MonInit, MonCauseInv, MonVerdictIsTrue, Faults
  <2> QED BY <2>1, <2>2, <2>3 DEF MonInv
<1>2. MonInv /\ [MonNext]_monVars => MonInv'
  <2> SUFFICES ASSUME MonInv, [MonNext]_monVars PROVE MonInv'
    OBVIOUS
  <2> USE MonAssumption DEF MonInv, MonTypeOK, MonHandleInv, MonCauseInv,
          MonHandleHeld, MonVerdictIsTrue, Reasons, Faults
  <2>1. CASE MonCheck
    BY <2>1 DEF MonCheck
  <2>2. CASE MonDispatch
    BY <2>2 DEF MonDispatch
  <2>3. CASE MonAskWhy
    BY <2>3 DEF MonAskWhy
  <2>4. CASE MonPublish
    BY <2>4 DEF MonPublish, Classified
  <2>5. CASE MonRun
    BY <2>5 DEF MonRun, Launch
  <2>6. CASE \E i \in MonIfaces : MonRetarget(i)
    BY <2>6 DEF MonRetarget
  <2>7. CASE MonSwitch
    BY <2>7 DEF MonSwitch, Launch, Joined
  <2>8. CASE MonStop
    BY <2>8 DEF MonStop
  <2>9. CASE MonClose
    BY <2>9 DEF MonClose, Joined
  <2>10. CASE MonPoll
    BY <2>10 DEF MonPoll, Alive
  <2>11. CASE UNCHANGED monVars
    BY <2>11 DEF monVars
  <2> QED
    BY <2>1, <2>2, <2>3, <2>4, <2>5, <2>6, <2>7, <2>8, <2>9, <2>10, <2>11
       DEF MonNext, MonWork, MonFinish
<1> QED BY <1>1, <1>2, PTL DEF MonSpec

\* Whatever the order of stops, retargets, failures and restarts, no handle is
\* closed or replaced under the worker that dispatches on it (probe_stop(),
\* probe_set_iface()) and no thread is started beside one not yet joined.
THEOREM HandleIsAlwaysHeld == MonSpec => []MonHandleHeld
<1>1. MonInv => MonHandleHeld
  BY DEF MonInv, MonHandleInv
<1> QED BY <1>1, MonInvHolds, PTL

\* The verdict probe_health_poll() reads is always this worker's own: a fault
\* only for the failure it met, "stopped" only where a stop was asked for.
THEOREM VerdictIsAlwaysTrue == MonSpec => []MonVerdictIsTrue
<1>1. MonInv => MonVerdictIsTrue
  BY DEF MonInv, MonCauseInv
<1> QED BY <1>1, MonInvHolds, PTL
-----------------------------------------------------------------------------
(***************************************************************************)
(* Proofs about the channel rotation, for any number of slots, any dwell   *)
(* times and any number of frames, refusals and lost answers.              *)
(*                                                                         *)
(* A frame is counted into the difference of two readings of one counter,  *)
(* credited a poll later to the slot that is current by then.  The credit  *)
(* is the right slot's because a retune starts with nothing left to credit *)
(* and what is counted during it is all in doubt (HopInDoubt).             *)
(***************************************************************************)

HopTypes ==
    /\ hopCur \in HopSlots /\ hopNext \in HopSlots
    /\ hopPending \in HopSlots \cup {-1}
    /\ hopTuned \in BOOLEAN
    /\ hopCredit \in [HopSlots -> Nat] /\ hopHeard \in [HopSlots -> Nat]
    /\ hopDelta \in Nat /\ hopStray \in Nat /\ hopLost \in Nat

\* While every answer has arrived, the radio is where it last said it was.
HopRadioKnown ==
    /\ hopTuned => hopCur \in hopVisited
    /\ hopTuned /\ hopLost = 0 => hopRadio = hopCur

\* While a retune is under way, and before the first is acknowledged, the
\* frames not yet credited are all in doubt.
HopInDoubt ==
    /\ hopPending >= 0 =>
          /\ hopDelta <= hopStray
          /\ \A i \in HopSlots :
                hopCredit[i] \in hopHeard[i] .. hopHeard[i] + (hopStray - hopDelta)
    /\ ~ hopTuned =>
          /\ hopDelta <= hopStray
          /\ \A i \in HopSlots : hopCredit[i] = 0 /\ hopHeard[i] = 0

HopInv == HopTypes /\ HopRadioKnown /\ HopInDoubt /\ HopCreditIsTrue

\* The next slot of the rotation is a slot.
LEMMA AfterIsASlot ==
    ASSUME NEW i \in HopSlots PROVE After(i) \in HopSlots
BY HopAssumption DEF After, HopSlots

LEMMA HopHearKeeps == HopInv /\ HopHear => HopInv'
<1> SUFFICES ASSUME HopInv, HopHear PROVE HopInv'
    OBVIOUS
<1>1. /\ hopDelta' = hopDelta + 1
      /\ UNCHANGED <<hopCur, hopTuned, hopPending, hopNext, hopCredit,
                     hopVisited, hopRadio, hopLost>>
    BY DEF HopHear
<1>2. CASE /\ hopPending >= 0 \/ hopLost > 0 \/ ~ hopTuned
           /\ hopStray' = hopStray + 1 /\ UNCHANGED hopHeard
    <2>1. HopTypes' /\ HopRadioKnown'
        BY <1>1, <1>2 DEF HopInv, HopTypes, HopRadioKnown
    <2>2. HopInDoubt'
        BY <1>1, <1>2 DEF HopInv, HopTypes, HopInDoubt
    <2>3. HopCreditIsTrue'
        BY <1>1, <1>2 DEF HopInv, HopTypes, HopCreditIsTrue
    <2>. QED  BY <2>1, <2>2, <2>3 DEF HopInv
<1>3. CASE /\ ~ (hopPending >= 0 \/ hopLost > 0 \/ ~ hopTuned)
           /\ hopHeard' = [hopHeard EXCEPT ![hopRadio] = @ + 1]
           /\ UNCHANGED hopStray
    <2>1. /\ ~ (hopPending >= 0) /\ hopTuned /\ hopRadio = hopCur
          /\ hopCur \in HopSlots
        BY <1>3 DEF HopInv, HopTypes, HopRadioKnown
    <2>2. /\ hopHeard' \in [HopSlots -> Nat]
          /\ hopHeard'[hopCur] = hopHeard[hopCur] + 1
          /\ \A i \in HopSlots \ {hopCur} : hopHeard'[i] = hopHeard[i]
        BY <1>3, <2>1 DEF HopInv, HopTypes
    <2>3. HopTypes' /\ HopRadioKnown'
        BY <1>1, <1>3, <2>2 DEF HopInv, HopTypes, HopRadioKnown
    <2>4. HopInDoubt'
        BY <1>1, <2>1 DEF HopInDoubt
    <2>5. HopCreditIsTrue'
        BY <1>1, <1>3, <2>1, <2>2 DEF HopInv, HopTypes, HopCreditIsTrue
    <2>. QED  BY <2>3, <2>4, <2>5 DEF HopInv
<1>. QED  BY <1>2, <1>3 DEF HopHear

LEMMA HopPollKeeps == HopInv /\ HopPoll => HopInv'
<1> SUFFICES ASSUME HopInv, HopPoll PROVE HopInv'
    OBVIOUS
<1>1. /\ hopPending = -1 /\ Observed /\ hopDelta' = 0
      /\ UNCHANGED <<hopCur, hopTuned, hopNext, hopVisited, hopRadio, hopHeard,
                     hopStray, hopLost>>
    BY DEF HopPoll
<1>2. hopPending' \in HopSlots \cup {-1}
    BY HopAssumption DEF HopPoll, HopInv, HopTypes, HopSlots
<1>3. /\ hopCredit' \in [HopSlots -> Nat]
      /\ \A i \in HopSlots :
            hopCredit'[i] = hopCredit[i]
                            + (IF i = hopCur /\ hopTuned THEN hopDelta ELSE 0)
    BY <1>1 DEF HopInv, HopTypes, Observed
<1>4. HopTypes' /\ HopRadioKnown'
    BY <1>1, <1>2, <1>3 DEF HopInv, HopTypes, HopRadioKnown
<1>5. \A i \in HopSlots :
         /\ hopCredit'[i] \in hopHeard[i] .. hopHeard[i] + hopStray
         /\ hopCredit'[i] > 0 => i \in hopVisited
    BY <1>3 DEF HopInv, HopTypes, HopRadioKnown, HopInDoubt, HopCreditIsTrue
<1>6. HopInDoubt'
    BY <1>1, <1>3, <1>5 DEF HopInv, HopTypes, HopInDoubt
<1>7. HopCreditIsTrue'
    BY <1>1, <1>3, <1>5 DEF HopInv, HopTypes, HopCreditIsTrue
<1>. QED  BY <1>4, <1>6, <1>7 DEF HopInv

LEMMA HopRetuneKeeps == HopInv /\ HopRetune => HopInv'
<1> SUFFICES ASSUME HopInv, HopRetune PROVE HopInv'
    OBVIOUS
<1>1. /\ hopPending >= 0 /\ hopPending' = -1 /\ hopPending \in HopSlots
      /\ UNCHANGED <<hopCredit, hopDelta, hopHeard, hopStray>>
    BY DEF HopRetune, HopInv, HopTypes
<1>2. After(hopPending) \in HopSlots
    BY <1>1, AfterIsASlot
<1>3. \A i \in HopSlots :
         /\ hopCredit[i] \in hopHeard[i] .. hopHeard[i] + hopStray
         /\ hopCredit[i] + hopDelta \in hopHeard[i] .. hopHeard[i] + hopStray
         /\ hopCredit[i] > 0 => i \in hopVisited
    BY <1>1 DEF HopInv, HopTypes, HopInDoubt, HopCreditIsTrue
<1>4. CASE Retuned /\ hopRadio' = hopPending /\ UNCHANGED hopLost
    <2>1. /\ hopCur' = hopPending /\ hopTuned' = TRUE
          /\ hopNext' = After(hopPending)
          /\ hopVisited' = hopVisited \cup {hopPending}
        BY <1>4 DEF Retuned
    <2>2. HopTypes' /\ HopRadioKnown' /\ HopInDoubt'
        BY <1>1, <1>2, <1>4, <2>1
           DEF HopInv, HopTypes, HopRadioKnown, HopInDoubt
    <2>3. HopCreditIsTrue'
        BY <1>1, <1>3, <2>1 DEF HopInv, HopTypes, HopCreditIsTrue
    <2>. QED  BY <2>2, <2>3 DEF HopInv
<1>5. CASE /\ Refused
           /\ \/ UNCHANGED hopRadio /\ UNCHANGED hopLost
              \/ hopLost' = hopLost + 1
    <2>1. /\ hopNext' = After(hopPending)
          /\ UNCHANGED <<hopCur, hopTuned, hopVisited>>
        BY <1>5 DEF Refused
    <2>2. HopTypes' /\ HopRadioKnown' /\ HopInDoubt'
        BY <1>1, <1>2, <1>5, <2>1
           DEF HopInv, HopTypes, HopRadioKnown, HopInDoubt
    <2>3. HopCreditIsTrue'
        BY <1>1, <1>3, <2>1 DEF HopInv, HopTypes, HopCreditIsTrue
    <2>. QED  BY <2>2, <2>3 DEF HopInv
<1>. QED  BY <1>4, <1>5 DEF HopRetune

LEMMA HopWaitKeeps == HopInv /\ (HopWait \/ UNCHANGED hopVars) => HopInv'
<1> SUFFICES ASSUME HopInv, HopWait \/ UNCHANGED hopVars PROVE HopInv'
    OBVIOUS
<1>1. UNCHANGED <<hopCur, hopTuned, hopPending, hopNext, hopCredit, hopVisited,
                  hopDelta, hopRadio, hopHeard, hopStray, hopLost>>
    BY DEF HopWait, hopVars
<1>2. HopTypes' /\ HopRadioKnown'
    BY <1>1 DEF HopInv, HopTypes, HopRadioKnown
<1>3. HopInDoubt'
    BY <1>1 DEF HopInv, HopInDoubt
<1>4. HopCreditIsTrue'
    BY <1>1 DEF HopInv, HopCreditIsTrue
<1>. QED  BY <1>2, <1>3, <1>4 DEF HopInv

LEMMA HopInitially == HopInit => HopInv
<1> SUFFICES ASSUME HopInit PROVE HopInv
    OBVIOUS
<1>1. HopTypes
    <2>1. 0 \in HopSlots
        BY HopAssumption DEF HopSlots
    <2>2. [i \in HopSlots |-> 0] \in [HopSlots -> Nat]
        OBVIOUS
    <2>. QED  BY <2>1, <2>2 DEF HopInit, HopTypes
<1>2. HopRadioKnown
    BY DEF HopInit, HopRadioKnown
<1>3. HopInDoubt
    BY DEF HopInit, HopInDoubt
<1>4. HopCreditIsTrue
    BY HopAssumption DEF HopInit, HopCreditIsTrue, HopSlots
<1>. QED  BY <1>1, <1>2, <1>3, <1>4 DEF HopInv

\* A slot is credited with the frames heard on it and at most those in doubt
\* besides, and one never tuned to with none, however often the radio refuses
\* a retune or its answer is lost (chanhop_observe() and
\* chanhop_confirm_retune() in src/wifi_chanhop.c).
THEOREM CreditStaysTrue == HopSpec => []HopCreditIsTrue
<1>1. HopInv /\ [HopNext]_hopVars => HopInv'
    BY HopHearKeeps, HopPollKeeps, HopRetuneKeeps, HopWaitKeeps DEF HopNext
<1>2. HopInv => HopCreditIsTrue
    BY DEF HopInv
<1>. QED  BY <1>1, <1>2, HopInitially, PTL DEF HopSpec

-----------------------------------------------------------------------------
(***************************************************************************)
(* The shapes of all workers, together                                     *)
(***************************************************************************)

\* A slot decays from what it was credited with, and a dwell is never longer
\* than the longest.
HopBounded ==
    /\ hopLeft \in 0 .. HopMaxDwell
    /\ hopActivity \in [HopSlots -> Nat]
    /\ \A i \in HopSlots :
          /\ hopActivity[i] <= hopCredit[i]
          /\ hopHeard[i] + hopStray <= HopFrames

\* dwell_for() clamps, whatever a slot's activity.
LEMMA DwellRange ==
    ASSUME NEW a \in Nat PROVE DwellFor(a) \in 0 .. HopMaxDwell
<1> DEFINE d == HopBase + a * HopPerObs
<1>1. d \in Int
    BY HopAssumption
<1> HIDE DEF d
<1>2. DwellFor(a) = IF d < HopMin THEN HopMin
                    ELSE IF d > HopMaxDwell THEN HopMaxDwell ELSE d
    BY DEF DwellFor, d
<1>. QED  BY <1>1, <1>2, HopAssumption

\* A poll adds the same to activity and credit; a retune only halves activity.
LEMMA HopBoundedStep == HopInv /\ HopBounded /\ [HopNext]_hopVars => HopBounded'
<1> SUFFICES ASSUME HopInv, HopBounded, [HopNext]_hopVars PROVE HopBounded'
    OBVIOUS
<1> USE HopAssumption
<1>1. /\ hopCur \in HopSlots /\ hopDelta \in Nat /\ hopStray \in Nat
      /\ hopCredit \in [HopSlots -> Nat] /\ hopHeard \in [HopSlots -> Nat]
      /\ hopActivity \in [HopSlots -> Nat]
    BY DEF HopInv, HopTypes, HopBounded
<1>2. CASE HopHear
  <2>1. UNCHANGED <<hopLeft, hopActivity, hopCredit>>
      BY <1>2 DEF HopHear
  <2>2. \A i \in HopSlots : hopHeard[i] + hopStray + 1 <= HopFrames
      BY <1>1, <1>2 DEF HopHear
  <2>3. \A i \in HopSlots : hopHeard'[i] + hopStray' <= hopHeard[i] + hopStray + 1
    <3>1. CASE hopStray' = hopStray + 1 /\ UNCHANGED hopHeard
        BY <1>1, <3>1
    <3>2. CASE /\ hopHeard' = [hopHeard EXCEPT ![hopRadio] = @ + 1]
               /\ UNCHANGED hopStray
        BY <1>1, <3>2
    <3>. QED  BY <1>2, <3>1, <3>2 DEF HopHear
  <2>4. hopHeard' \in [HopSlots -> Nat] /\ hopStray' \in Nat
    <3>1. HopInv'
        BY <1>2, HopHearKeeps
    <3>. QED  BY <3>1 DEF HopInv, HopTypes
  <2>. QED  BY <1>1, <2>1, <2>2, <2>3, <2>4 DEF HopBounded
<1>3. CASE HopPoll
  <2>1. UNCHANGED <<hopLeft, hopHeard, hopStray>> /\ Observed
      BY <1>3 DEF HopPoll
  <2>2. /\ hopActivity' \in [HopSlots -> Nat]
        /\ \A i \in HopSlots : hopActivity'[i] <= hopCredit'[i]
      BY <1>1, <2>1 DEF Observed, HopBounded
  <2>. QED  BY <2>1, <2>2 DEF HopBounded
<1>4. CASE HopRetune
  <2>1. UNCHANGED <<hopCredit, hopHeard, hopStray>>
      BY <1>4 DEF HopRetune
  <2>2. CASE hopPending \in HopSlots /\ Retuned
    <3> DEFINE activity == IF hopTuned THEN Halved(hopActivity) ELSE hopActivity
    <3>1. /\ Halved(hopActivity) \in [HopSlots -> Nat]
          /\ \A i \in HopSlots : Halved(hopActivity)[i] <= hopActivity[i]
        BY <1>1 DEF Halved
    <3>2. /\ activity \in [HopSlots -> Nat]
          /\ \A i \in HopSlots : activity[i] <= hopCredit[i]
        BY <1>1, <3>1 DEF HopBounded
    <3>3. hopActivity' = activity /\ hopLeft' = DwellFor(activity[hopPending])
        BY <2>2 DEF Retuned
    <3> HIDE DEF activity
    <3>4. activity[hopPending] \in Nat
        BY <2>2, <3>2
    <3>5. hopLeft' \in 0 .. HopMaxDwell
        BY <3>3, <3>4, DwellRange
    <3>. QED  BY <2>1, <3>2, <3>3, <3>5 DEF HopBounded
  <2>3. CASE Refused
      BY <2>1, <2>3 DEF Refused, HopBounded
  <2>4. hopPending \in HopSlots
      BY <1>4 DEF HopRetune, HopInv, HopTypes
  <2>. QED  BY <1>4, <2>2, <2>3, <2>4 DEF HopRetune
<1>5. CASE HopWait
    BY <1>5 DEF HopWait, HopBounded
<1>6. CASE UNCHANGED hopVars
    BY <1>6 DEF hopVars, HopBounded
<1>. QED  BY <1>2, <1>3, <1>4, <1>5, <1>6 DEF HopNext

LEMMA HopBoundedHolds == HopSpec => [](HopInv /\ HopBounded)
<1>1. HopInit => HopBounded
    BY HopAssumption DEF HopInit, HopBounded
<1>2. HopInv /\ [HopNext]_hopVars => HopInv'
    BY HopHearKeeps, HopPollKeeps, HopRetuneKeeps, HopWaitKeeps DEF HopNext
<1>. QED  BY <1>1, <1>2, HopInitially, HopBoundedStep, PTL DEF HopSpec

\* A credit is at most the frames heard and those in doubt, which are bounded.
LEMMA HopShape == HopInv /\ HopBounded => HopTypeOK
<1> SUFFICES ASSUME HopInv, HopBounded PROVE HopTypeOK
    OBVIOUS
<1>1. /\ hopCredit \in [HopSlots -> Nat] /\ hopHeard \in [HopSlots -> Nat]
      /\ hopActivity \in [HopSlots -> Nat] /\ hopStray \in Nat /\ hopDelta \in Nat
    BY DEF HopInv, HopTypes, HopBounded
<1>2. \A i \in HopSlots : hopCredit[i] <= hopHeard[i] + hopStray
    BY <1>1 DEF HopInv, HopCreditIsTrue
<1>3. \A i \in HopSlots : /\ hopHeard[i] \in 0 .. HopFrames
                          /\ hopCredit[i] \in 0 .. HopFrames
                          /\ hopActivity[i] \in 0 .. HopFrames
    BY <1>1, <1>2, HopAssumption DEF HopBounded
<1>. QED  BY <1>1, <1>3 DEF HopInv, HopTypes, HopBounded, HopTypeOK

-----------------------------------------------------------------------------
\* Side by side, each worker behaves as it does alone.
LEMMA WorkersAreEach == Init /\ [][Next]_vars => DnsSpec /\ MonSpec /\ HopSpec
<1>1. Init => DnsInit /\ MonInit /\ HopInit
    BY DEF Init
<1>2. [Next]_vars => [DnsNext]_dnsVars
    BY DEF Next, DnsSteps, MonSteps, HopSteps, vars, Dns, Mon, Hop
<1>3. [Next]_vars => [MonNext]_monVars
    BY DEF Next, DnsSteps, MonSteps, HopSteps, vars, Dns, Mon, Hop
<1>4. [Next]_vars => [HopNext]_hopVars
    BY DEF Next, DnsSteps, MonSteps, HopSteps, vars, Dns, Mon, Hop
<1>. QED
    BY <1>1, <1>2, <1>3, <1>4, PTL DEF DnsSpec, MonSpec, HopSpec

\* The workers side by side keep the shape of the resolver's table and queue,
\* of the run flag and the verdict, and of the rotation, however their steps
\* interleave.
THEOREM WorkersKeepTheirShape == Spec => []WorkersTypeOK
<1>1. Spec => Init /\ [][Next]_vars
    BY PTL DEF Spec
<1>2. DnsInv => DnsTypeOK
    BY DEF DnsInv
<1>3. MonInv => MonTypeOK
    BY DEF MonInv
<1>4. DnsTypeOK /\ MonTypeOK /\ HopTypeOK => WorkersTypeOK
    BY DEF WorkersTypeOK
<1>. QED
    BY <1>1, <1>2, <1>3, <1>4, WorkersAreEach, DnsInvHolds, MonInvHolds,
       HopBoundedHolds, HopShape, PTL
=============================================================================
