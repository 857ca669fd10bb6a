------------------------------- MODULE MCFrame -------------------------------
(***************************************************************************)
(* An instance of Frame for TLC: bytes below 5, a limit of 16, which three *)
(* string bytes reach, and lengths up to 24 in a header.                   *)
(***************************************************************************)
EXTENDS Frame

Strings == {<< >>, <<1>>, <<0, 2>>, <<4, 3, 1>>}

(* At most two of the five strings are not empty. *)
StringTuples ==
    {[k \in 1..5 |-> IF k = i THEN s ELSE IF k = j THEN t ELSE << >>] :
       i \in 1..5, j \in 1..5, s \in Strings, t \in Strings}

(* One string alone longer than any frame. *)
TooLong == [NoStrings EXCEPT ![4] = [i \in 1..17 |-> 1]]

SomeFrames ==
    {[NoFrame EXCEPT !.type = ty, !.dir = d, !.strings = ss] :
       ty \in {TypeOpen, TypeProbe}, d \in 0..2, ss \in StringTuples \cup {TooLong}}
    \cup {[NoFrame EXCEPT !.type = TypeError, !.code = c] : c \in 1..4}
    \cup {[NoFrame EXCEPT !.type = TypeOK_]}

TwoBytes == <<2, 4>>
==============================================================================
