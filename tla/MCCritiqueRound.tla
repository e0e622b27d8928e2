-------------------------- MODULE MCCritiqueRound --------------------------
(***************************************************************************)
(* A small instance of CritiqueRound for TLC: two friends.                 *)
(***************************************************************************)
EXTENDS CritiqueRound

Keys == [n \in Names |-> IF n = "codex-ops-0" THEN "codex/ops" ELSE "claude/ops"]

Leak  == <<"leak", "lf">>
LeakB == <<"leak", "crlf">>
Race  == <<"race", "lf">>
Huge  == <<"huge", "lf">>

\* Nothing; one finding; two; the same one twice; two the ledger refuses.
SmallReports == {<<>>, <<Leak>>, <<Race>>, <<Race, LeakB>>, <<LeakB, Leak>>, <<Huge, Huge>>}
OneReport    == {<<Leak>>}

RefusedFindings == {Huge}
=============================================================================
