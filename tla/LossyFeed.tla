------------------------------ MODULE LossyFeed ------------------------------
(***************************************************************************)
(* What the data socket promises one connection (#93): records arrive      *)
(* whole and in the order they were offered; some may be left out, and     *)
(* then the consumer is told how many before the next one it gets, so it   *)
(* can number every record it hears.                                       *)
(***************************************************************************)
EXTENDS Integers

VARIABLES
    offered,    \* records offered to this connection
    got,        \* records the consumer received
    told,       \* records it was told it missed
    newest      \* which of the offered records it received last; 0 = none

Init == offered = 0 /\ got = 0 /\ told = 0 /\ newest = 0

Offer == offered' = offered + 1 /\ UNCHANGED <<got, told, newest>>

\* the record received is the one the consumer's own count says it is
Hear ==
    /\ got' = got + 1
    /\ newest' = got' + told
    /\ newest' <= offered
    /\ UNCHANGED <<offered, told>>

\* a loss is declared only in front of a record that was not lost
Miss(k) ==
    /\ told' = told + k
    /\ got + told' < offered
    /\ UNCHANGED <<offered, got, newest>>

\* a new connection starts on a record boundary with nothing offered
Restart == offered' = 0 /\ got' = 0 /\ told' = 0 /\ newest' = 0

Next == Offer \/ Hear \/ Restart \/ \E k \in 1 .. offered : Miss(k)

Spec == Init /\ [][Next]_<<offered, got, told, newest>>
=============================================================================
