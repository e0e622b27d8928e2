--------------------------- MODULE JudgingRecord ---------------------------
(***************************************************************************)
(* What judgebatch.py and the ledger together promise of the judging       *)
(* record of a run, whatever process writes it and however often it dies:  *)
(* a judge's answer of a round is captured whole and once, and the ledger  *)
(* only ever publishes votes of captured answers.  JudgeRecovery           *)
(* implements this.                                                        *)
(***************************************************************************)
EXTENDS Integers

CONSTANTS Judges, Rounds

VARIABLES
    captured,   \* the <<judge, round>> whose answer is on disk
    answers,    \* <<judge, round>> -> the votes of that answer
    published   \* the votes claims.jsonl holds

vars == <<captured, answers, published>>

Init ==
    /\ captured = {}
    /\ answers = [x \in Judges \X Rounds |-> {}]
    /\ published = {}

\* An answer may be of any votes, at most one per claim, of its own judge
\* and round; once there it is never touched again.
Capture(j, r) ==
    /\ <<j, r>> \notin captured
    /\ captured' = captured \union {<<j, r>>}
    /\ \A v \in answers'[<<j, r>>] : v.judge = j /\ v.round = r
    /\ \A v, w \in answers'[<<j, r>>] : v.claim = w.claim => v = w
    /\ answers' = [answers EXCEPT ![<<j, r>>] = answers'[<<j, r>>]]
    /\ UNCHANGED published

Publish(v) ==
    /\ <<v.judge, v.round>> \in captured
    /\ v \in answers[<<v.judge, v.round>>]
    /\ published' = published \union {v}
    /\ UNCHANGED <<captured, answers>>

Next ==
    \/ \E j \in Judges, r \in Rounds : Capture(j, r)
    \/ \E v \in published' : Publish(v)

Spec == Init /\ [][Next]_vars
=============================================================================
