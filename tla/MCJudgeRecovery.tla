-------------------------- MODULE MCJudgeRecovery --------------------------
(***************************************************************************)
(* Small instances of JudgeRecovery for TLC.                               *)
(***************************************************************************)
EXTENDS JudgeRecovery, TLC

Vote(kind, text) ==
    [kind |-> kind, evidence |-> IF kind = "out-of-scope" THEN "none" ELSE "confirmed",
     wording |-> <<text, "lf">>, counter |-> <<NoText, "plain">>]

OneClaim  == <<1, 1>> :> {"author"}
TwoClaims == (<<1, 1>> :> {"author"}) @@ (<<2, 1>> :> {"author"})

Upheld   == Vote("upheld", NoText)
Abstain  == Vote("out-of-scope", NoText)
Rewrite  == Vote("amended", "narrower")

MixedBallots  == {Upheld, Abstain, Rewrite}
PlainBallots  == {Upheld}
=============================================================================
