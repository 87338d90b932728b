---------------------------- MODULE MessageLedger ----------------------------
(* What the resident core promises a sender, whatever becomes of the turns: *)
(* a message it takes over is served exactly once, in the order of arrival, *)
(* alone or together with the messages right behind it.                     *)
EXTENDS Naturals, Sequences

CONSTANT Letters        \* the messages senders write

VARIABLES
    taken,      \* messages taken over, in order
    waiting,    \* messages not served yet
    served      \* messages that opened a turn or joined one

ledger == <<taken, waiting, served>>

Init == taken = <<>> /\ waiting = <<>> /\ served = <<>>

\* A message is taken over and waits its turn.
Take(m) ==
    /\ taken' = Append(taken, m)
    /\ waiting' = Append(waiting, m)
    /\ UNCHANGED served

\* A message that finds nobody waiting is served on arrival.
TakeAndServe(m) ==
    /\ waiting = <<>>
    /\ taken' = Append(taken, m)
    /\ served' = Append(served, m)
    /\ UNCHANGED waiting

\* The first n waiting messages are served.
Serve ==
    \E n \in 1..Len(waiting) :
        /\ served' = served \o SubSeq(waiting, 1, n)
        /\ waiting' = SubSeq(waiting, n + 1, Len(waiting))
        /\ UNCHANGED taken

Next == Serve \/ \E m \in Letters : Take(m) \/ TakeAndServe(m)

Spec == Init /\ [][Next]_ledger

\* A waiting message does not wait for ever.
FairSpec == Spec /\ WF_ledger(Serve)
=============================================================================
