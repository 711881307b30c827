---------------------------- MODULE WholeTransfer ---------------------------
(***************************************************************************)
(* What a transfer of save data promises: the peer receives the data of    *)
(* one transfer, whole, or nothing.                                        *)
(***************************************************************************)
EXTENDS Integers

CONSTANT Transfers   \* records with an id and a fragment count

VARIABLES
    sent,      \* the transfers begun
    received   \* the data received

\* The data of a transfer: each of its fragments in its place.
Data(t) ==
    [i \in 0 .. (t.count - 1) |-> [id |-> t.id, count |-> t.count, index |-> i]]

Init == sent = {} /\ received = {}

Send ==
    /\ \E t \in Transfers : sent' = sent \cup {t}
    /\ UNCHANGED received

Deliver ==
    /\ \E t \in sent : received' = received \cup {Data(t)}
    /\ UNCHANGED sent

Next == Send \/ Deliver

Spec == Init /\ [][Next]_<<sent, received>>
=============================================================================
