----------------------------- MODULE MCWorkers -----------------------------
(***************************************************************************)
(* The components that have a thread, or a device, of their own to wait    *)
(* for, for TLC: the name resolver, the monitor radio's worker, and the    *)
(* channel rotation that retunes that radio.  They share no state and no   *)
(* lock, so one run checks them side by side: a behaviour is one of        *)
(* `worker`, and the others stay as they start, with nothing to do.        *)
(***************************************************************************)
EXTENDS DnsResolver, MonitorWorker, ChannelHop

VARIABLE worker

Dns == <<worker, dnsVars>>
Mon == <<worker, monVars>>
Hop == <<worker, hopVars>>
vars == <<worker, dnsVars, monVars, hopVars>>

Init ==
    /\ worker \in {"dns", "monitor", "hop"}
    /\ DnsInit /\ MonInit /\ HopInit
    /\ worker = "dns" \/ ~ dnsEnabled
    /\ worker = "monitor" \/ monHandle = MonNone
    /\ worker # "hop" => hopRadio = Elsewhere /\ hopRefusing = HopSlots

DnsSteps(A) == worker = "dns" /\ A /\ UNCHANGED <<Mon, Hop>>
MonSteps(A) == worker = "monitor" /\ A /\ UNCHANGED <<Dns, Hop>>
HopSteps(A) == worker = "hop" /\ A /\ UNCHANGED <<Dns, Mon>>

Next == DnsSteps(DnsNext) \/ MonSteps(MonNext) \/ HopSteps(HopNext)

\* the fairness of DnsFairSpec, MonFairSpec and HopFairSpec
Spec ==
    /\ Init /\ [][Next]_vars
    /\ WF_vars(DnsSteps(DnsWork))
    /\ WF_vars(MonSteps(MonWork)) /\ WF_vars(MonSteps(MonFinish))
    /\ WF_vars(MonSteps(MonPoll))
    /\ WF_vars(HopSteps(HopPoll)) /\ WF_vars(HopSteps(HopRetune))
    /\ WF_vars(HopSteps(HopWait))

\* The shape of every worker's state (dns_entry_t and the queue, the run flag
\* and the verdict, chanhop_t).
WorkersTypeOK == DnsTypeOK /\ MonTypeOK /\ HopTypeOK
=============================================================================
