---------------------------- MODULE MCCrossexam ----------------------------
(***************************************************************************)
(* A small instance of Crossexam for TLC: two independent friends and an   *)
(* advisory one, with a claim of each kind of author.                      *)
(***************************************************************************)
EXTENDS Crossexam, TLC

Vote(kind, evidence, text) ==
    [kind |-> kind, evidence |-> evidence, wording |-> <<text, "lf">>,
     counter |-> <<NoText, "plain">>]

Refuted == Vote("refuted", "confirmed", NoText)
Abstain == Vote("out-of-scope", "none", NoText)
Rewrite == Vote("amended", "confirmed", "narrower")

\* One claim is an advisory friend's, the other one an independent friend's.
TwoClaims == (<<1, 1>> :> {"host"}) @@ (<<2, 1>> :> {"ann"})

SomeBallots == {Refuted, Abstain, Rewrite}
=============================================================================
