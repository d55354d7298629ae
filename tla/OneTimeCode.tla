----------------------------- MODULE OneTimeCode -----------------------------
(***************************************************************************)
(* What a one-time code promises to its owner: it can be tried wrongly     *)
(* MaxAttempts times, accepted once, and ends only by being accepted, by   *)
(* its last wrong try, after its deadline, or by the next code.            *)
(***************************************************************************)
EXTENDS Integers

CONSTANTS Codes, MaxAttempts, Expiry, NoCode

VARIABLES
    live,       \* the code that can be used, or NoCode
    left,       \* wrong tries it still allows
    deadline,   \* the time until which it can be used
    time,
    accepted    \* the codes that have been accepted

state == <<live, left, deadline, time, accepted>>

Init ==
    live = NoCode /\ left = 0 /\ deadline = 0 /\ time = 0 /\ accepted = {}

End == live' = NoCode /\ left' = 0 /\ deadline' = 0

Issue(c) ==
    /\ c \notin accepted \cup {live}
    /\ live' = c
    /\ left' = MaxAttempts
    /\ deadline' \in 0 .. time + Expiry
    /\ UNCHANGED <<time, accepted>>

WrongTry ==
    /\ left > 1
    /\ left' = left - 1
    /\ UNCHANGED <<live, deadline, time, accepted>>

LastTry == left = 1 /\ End /\ UNCHANGED <<time, accepted>>

Accept ==
    /\ live # NoCode
    /\ live \notin accepted
    /\ accepted' = accepted \cup {live}
    /\ End
    /\ UNCHANGED time

Lapse == live # NoCode /\ time > deadline /\ End /\ UNCHANGED <<time, accepted>>

Pass == time' = time + 1 /\ UNCHANGED <<live, left, deadline, accepted>>

Next ==
    \/ \E c \in Codes : Issue(c)
    \/ WrongTry \/ LastTry \/ Accept \/ Lapse \/ Pass

Spec == Init /\ [][Next]_state

=============================================================================
