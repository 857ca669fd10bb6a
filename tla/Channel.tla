------------------------------ MODULE Channel ------------------------------
(***************************************************************************)
(* What a tunnel promises to the client at one end and the target at the   *)
(* other: a two-way stream of bytes with half-close.  No byte is lost or   *)
(* added; an end of data arrives after all of them, and nothing arrives    *)
(* after it.  Only when a connection on the way has broken may an end of   *)
(* data come too early.  Bytes are counted, not told apart.                *)
(***************************************************************************)
EXTENDS Integers

Ends == {"a", "b"}
Other(e) == IF e = "a" THEN "b" ELSE "a"

VARIABLES
    finished,   \* will the party at an end send no more?
    sent,       \* bytes it has sent
    got,        \* bytes it has received
    told,       \* has it received the end of the other's data?
    broken      \* has some connection on the way broken?

vars == <<finished, sent, got, told, broken>>

Init ==
    /\ finished = [e \in Ends |-> FALSE]
    /\ sent = [e \in Ends |-> 0] /\ got = [e \in Ends |-> 0]
    /\ told = [e \in Ends |-> FALSE]
    /\ broken = FALSE

Send(e) ==
    /\ ~finished[e]
    /\ sent' = [sent EXCEPT ![e] = @ + 1]
    /\ UNCHANGED <<finished, got, told, broken>>

Finish(e) ==
    /\ ~finished[e]
    /\ finished' = [finished EXCEPT ![e] = TRUE]
    /\ UNCHANGED <<sent, got, told, broken>>

(* A connection breaks: that of a party, who sends no more, or another. *)
Break ==
    /\ ~broken
    /\ broken' = TRUE
    /\ finished' \in {finished} \cup {[finished EXCEPT ![e] = TRUE] : e \in Ends}
    /\ UNCHANGED <<sent, got, told>>

(* A byte arrives, the end of data, or the last byte with the end. *)
Deliver(e) ==
    /\ ~told[e]
    /\ got' \in {got, [got EXCEPT ![e] = @ + 1]}
    /\ got'[e] <= sent[Other(e)]
    /\ told' \in {told, [told EXCEPT ![e] = TRUE]}
    /\ told'[e] => broken \/ (finished[Other(e)] /\ got'[e] = sent[Other(e)])
    /\ UNCHANGED <<finished, sent, broken>>

Next == Break \/ \E e \in Ends : Send(e) \/ Finish(e) \/ Deliver(e)

Spec == Init /\ [][Next]_vars
=============================================================================
