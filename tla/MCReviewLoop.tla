---------------------------- MODULE MCReviewLoop ----------------------------
(***************************************************************************)
(* Small instances of ReviewLoop: two friends, so every claim of one has   *)
(* the other for its judge, and as many iterations as it takes for a round *)
(* that failed to come between two dry ones.                               *)
(***************************************************************************)
EXTENDS ReviewLoop, TLC

NoClaims == <<>>

Vote(kind, evidence, text) ==
    [kind |-> kind, evidence |-> evidence, wording |-> <<text, "lf">>,
     counter |-> <<NoText, "plain">>]

Upheld  == Vote("upheld", "confirmed", NoText)
Abstain == Vote("out-of-scope", "none", NoText)

LoopBallots == {Upheld, Abstain}
OneBallot   == {Upheld}
=============================================================================
