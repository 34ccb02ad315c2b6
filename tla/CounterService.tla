--------------------------- MODULE CounterService ---------------------------
(***************************************************************************)
(* What the replicated system promises its callers: each client sees one   *)
(* counter that never fails.  A call is outstanding while asked exceeds    *)
(* the number of answers; the n-th call that returns, returns n, however   *)
(* often the client had to write the request and whichever replica's reply *)
(* came first.                                                             *)
(***************************************************************************)
EXTENDS Naturals, Sequences

CONSTANT Clients

VARIABLES
    asked,      \* the number of requests the client has made
    answers     \* the values it was given, in order

vars == <<asked, answers>>

Init ==
    /\ asked = [c \in Clients |-> 0]
    /\ answers = [c \in Clients |-> <<>>]

\* A client has at most one request outstanding.
Ask(c) ==
    /\ asked[c] = Len(answers[c])
    /\ asked' = [asked EXCEPT ![c] = @ + 1]
    /\ UNCHANGED answers

Answer(c) ==
    /\ asked[c] > Len(answers[c])
    /\ answers' = [answers EXCEPT ![c] = Append(@, Len(@) + 1)]
    /\ UNCHANGED asked

Next == \E c \in Clients : Ask(c) \/ Answer(c)

Spec == Init /\ [][Next]_vars
=============================================================================
