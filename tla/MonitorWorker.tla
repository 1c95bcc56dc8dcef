--------------------------- MODULE MonitorWorker ---------------------------
(***************************************************************************)
(* The monitor radio's worker (src/capture/probe.c) and what the main      *)
(* thread does to it: start, the [m] retarget, stop, and the health poll   *)
(* that must not show a dead radio as a quiet one (#91).  The data stream's*)
(* worker (capture.c) is the same without the retarget.                    *)
(*                                                                         *)
(* The run flag and the exit reason have a lock each; a worker's last      *)
(* steps read one and then write the other, so the main thread may act in  *)
(* between.  pcap_dispatch() returns within its 100 ms timeout.            *)
(*                                                                         *)
(* Names ending in _m and a number are defective forms of the definition   *)
(* that follows; no action uses them.                                      *)
(***************************************************************************)
EXTENDS Naturals

CONSTANTS
    MonIfaces,   \* monitor-mode interfaces
    MonNone      \* no interface, no handle

ASSUME MonAssumption == MonNone \notin MonIfaces

VARIABLES
    monHandle,   \* g_ph: the interface it is open on
    monIface,    \* s->probe_iface
    monFlag,     \* g_running
    monReason,   \* g_exit_reason
    monThread,   \* the worker: "none"; "loop", "dispatch"; "left", "read"; "ended"
    monCause,    \* what broke its loop
    monAsked,    \* stop_requested, as it read the run flag
    monMain,     \* the main thread: "run", "retarget", "stop", "out"
    monTarget,   \* the interface being retargeted to
    monShown     \* mon_health: running, exit_reason

monVars == <<monHandle, monIface, monFlag, monReason, monThread, monCause,
             monAsked, monMain, monTarget, monShown>>

Faults == {"iface_gone", "perm_lost", "error"}

\* probe_open() found a monitor interface or did not
MonInit ==
    /\ monHandle \in MonIfaces \cup {MonNone} /\ monIface = monHandle
    /\ monFlag = FALSE /\ monReason = "none"
    /\ monThread = "none" /\ monCause = "none" /\ monAsked = FALSE
    /\ monMain = "run" /\ monTarget = MonNone
    /\ monShown = [running |-> FALSE, reason |-> "none"]

-----------------------------------------------------------------------------
(* probe_thread(), capture_classify_exit()                                 *)

\* the top of the loop
MonCheck ==
    /\ monThread = "loop"
    /\ monThread' = IF monFlag THEN "dispatch" ELSE "left"
    /\ UNCHANGED <<monHandle, monIface, monFlag, monReason, monCause,
                   monAsked, monMain, monTarget, monShown>>

\* a batch, nothing, or a failure; pcap_breakloop() shows as "break"
MonDispatch ==
    /\ monThread = "dispatch"
    /\ \/ monThread' = "loop" /\ UNCHANGED monCause
       \/ /\ monThread' = "left"
          /\ monCause' \in Faults \cup (IF monFlag THEN {} ELSE {"break"})
    /\ UNCHANGED <<monHandle, monIface, monFlag, monReason, monAsked,
                   monMain, monTarget, monShown>>

MonAskWhy ==
    /\ monThread = "left"
    /\ monThread' = "read" /\ monAsked' = ~ monFlag
    /\ UNCHANGED <<monHandle, monIface, monFlag, monReason, monCause,
                   monMain, monTarget, monShown>>

\* a requested stop wins over everything else
Classified_m1 == IF monAsked THEN "stopped" ELSE "none"
Classified ==
    IF monAsked \/ monCause = "break" THEN "stopped" ELSE monCause

MonPublish ==
    /\ monThread = "read"
    /\ monThread' = "ended" /\ monReason' = Classified
    /\ UNCHANGED <<monHandle, monIface, monFlag, monCause, monAsked,
                   monMain, monTarget, monShown>>

-----------------------------------------------------------------------------
(* The main thread: probe_run(), probe_set_iface(), probe_stop()           *)

\* a worker for the open handle, or pthread_create() fails
Launch ==
    /\ monReason' = "none" /\ monCause' = "none" /\ monAsked' = FALSE
    /\ \/ monFlag' = TRUE /\ monThread' = "loop"
       \/ monFlag' = FALSE /\ monThread' = "none"

MonRun ==
    /\ monMain = "run" /\ monHandle # MonNone /\ ~ monFlag
    /\ Launch
    /\ UNCHANGED <<monHandle, monIface, monMain, monTarget, monShown>>

\* The new handle opens before the old worker is asked to stop; a refused
\* one changes nothing.  An interface whose run flag is up is left alone.
MonRetarget(i) ==
    /\ monMain = "run" /\ ~ (monFlag /\ monIface = i)
    /\ monMain' = "retarget" /\ monTarget' = i
    /\ monFlag' = FALSE
    /\ UNCHANGED <<monHandle, monIface, monReason, monThread, monCause,
                   monAsked, monShown>>

\* pthread_join() has returned, or there was no worker to join
Joined_m1 == TRUE
Joined == monThread \in {"none", "ended"}

MonSwitch ==
    /\ monMain = "retarget" /\ Joined
    /\ monMain' = "run" /\ monTarget' = MonNone
    /\ monHandle' = monTarget /\ monIface' = monTarget
    /\ Launch
    /\ UNCHANGED monShown

MonStop ==
    /\ monMain = "run"
    /\ monMain' = "stop" /\ monFlag' = FALSE
    /\ UNCHANGED <<monHandle, monIface, monReason, monThread, monCause,
                   monAsked, monTarget, monShown>>

MonClose ==
    /\ monMain = "stop" /\ Joined
    /\ monMain' = "out" /\ monHandle' = MonNone
    /\ monThread' = IF monThread = "ended" THEN "none" ELSE monThread
    /\ UNCHANGED <<monIface, monFlag, monReason, monCause, monAsked,
                   monTarget, monShown>>

\* probe_health_poll(): the worker's verdict, then the run flag, which only
\* this thread writes; a dead worker leaves the flag up
Alive_m1 == monFlag
Alive == monFlag /\ monReason = "none"

MonPoll ==
    /\ monMain = "run"
    /\ monShown' = [running |-> Alive, reason |-> monReason]
    /\ UNCHANGED <<monHandle, monIface, monFlag, monReason, monThread,
                   monCause, monAsked, monMain, monTarget>>

MonWork == MonCheck \/ MonDispatch \/ MonAskWhy \/ MonPublish
MonFinish == MonSwitch \/ MonClose

MonNext ==
    \/ MonWork \/ MonFinish \/ MonRun \/ MonStop \/ MonPoll
    \/ \E i \in MonIfaces : MonRetarget(i)

MonSpec == MonInit /\ [][MonNext]_monVars

\* both threads are scheduled and the poll loop comes round
MonFairSpec == /\ MonSpec /\ WF_monVars(MonWork) /\ WF_monVars(MonFinish)
               /\ WF_monVars(MonPoll)

-----------------------------------------------------------------------------
Reasons == {"none", "stopped"} \cup Faults

\* Shape of the worker's and the main thread's state.
MonTypeOK ==
    /\ monHandle \in MonIfaces \cup {MonNone}
    /\ monTarget \in MonIfaces \cup {MonNone}
    /\ monThread \in {"none", "loop", "dispatch", "left", "read", "ended"}
    /\ monCause \in Faults \cup {"none", "break"}
    /\ monReason \in Reasons /\ monShown.reason \in Reasons

\* No handle is closed or replaced under the worker that dispatches on it,
\* the run flag is up for no thread that has not been created, and while
\* the main thread is at its loop a flag that is down means there is no
\* thread to join: a second one would leave the first unjoined.
MonHandleHeld ==
    /\ monThread \in {"loop", "dispatch", "left", "read"} =>
          monHandle # MonNone /\ monHandle = monIface
    /\ monFlag => monThread # "none" /\ monHandle # MonNone
    /\ monMain = "run" /\ ~ monFlag => monThread = "none"

\* The published verdict is this worker's own (#91 slice 2): none while it
\* runs or after a restart, a fault only for the failure it met, "stopped"
\* only where a stop was asked for, even by a request that came between the
\* failure and the verdict.
MonVerdictIsTrue ==
    /\ monThread \in {"loop", "dispatch", "left", "read"} => monReason = "none"
    /\ monReason \in Faults => monReason = monCause
    /\ monThread = "ended" /\ monFlag => monReason \in Faults
    /\ monReason = "stopped" => ~ monFlag

\* A worker that dies is shown as dead, and a stop or a retarget gets its
\* join: capture is never silently over, nor does the program hang on it.
MonDeathIsShown ==
    /\ (monFlag /\ monThread = "left") ~>
          \/ ~ monShown.running /\ monShown.reason \in Faults
          \/ monMain # "run"
    /\ (monMain \in {"stop", "retarget"}) ~> (monMain \in {"out", "run"})
=============================================================================
