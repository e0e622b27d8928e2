------------------------------ MODULE OneCall ------------------------------
(* What one call to a friend promises whatever carries it: the friend says  *)
(* some of what it means to say, stops, and the runner reports exactly once *)
(* -- a usable answer only when the friend had finished saying it, a failure *)
(* at any time -- and never leaves the call unreported.                      *)
EXTENDS Naturals

CONSTANT Most       \* the units a friend may say

VARIABLES said,     \* how much the friend itself has said
          finished, \* the friend stopped of its own accord, or said it was done
          verdict   \* "pending", "answer" or "failure"

Init == said = 0 /\ finished = FALSE /\ verdict = "pending"

\* What a friend says after finishing changes nothing that was promised.
Say == /\ said < Most
       /\ said' = said + 1
       /\ UNCHANGED verdict
       /\ finished' \in {finished, TRUE}

Finish == finished' = TRUE /\ UNCHANGED <<said, verdict>>

Answer == /\ verdict = "pending" /\ finished
          /\ verdict' = "answer"
          /\ UNCHANGED <<said, finished>>

Fail == /\ verdict = "pending"
        /\ verdict' = "failure"
        /\ UNCHANGED <<said, finished>>

Next == Say \/ Finish \/ Answer \/ Fail

Steps == Init /\ [][Next]_<<said, finished, verdict>>

Spec == Steps /\ <>(verdict # "pending")
=============================================================================
