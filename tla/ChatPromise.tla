--------------------------- MODULE ChatPromise ---------------------------
(***************************************************************************)
(* What the platform promises its user, without any of its parts: the user *)
(* asks, one question at a time, and is shown the answer to that question. *)
(***************************************************************************)
EXTENDS Naturals, Sequences

CONSTANTS Conv, MaxTurns

VARIABLES
  asked,      \* questions asked so far, per conversation
  answered    \* which question each displayed answer was for

vars == <<asked, answered>>

Init == /\ asked = [c \in Conv |-> 0]
        /\ answered = [c \in Conv |-> << >>]

AskQuestion(c) ==
  /\ Len(answered[c]) = asked[c] /\ asked[c] < MaxTurns
  /\ asked' = [asked EXCEPT ![c] = @ + 1]
  /\ UNCHANGED answered

ShowAnswer(c) ==
  /\ Len(answered[c]) < asked[c]
  /\ answered' = [answered EXCEPT ![c] = Append(@, asked[c])]
  /\ UNCHANGED asked

Next == \E c \in Conv : AskQuestion(c) \/ ShowAnswer(c)

Spec     == Init /\ [][Next]_vars
FairSpec == Spec /\ \A c \in Conv : WF_vars(ShowAnswer(c))
=============================================================================
