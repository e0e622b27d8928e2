-------------------------- MODULE MCResponseApply --------------------------
(***************************************************************************)
(* A small instance of ResponseApply for TLC: a halt that asks for merges  *)
(* among three claims, or for the findings of one output.                  *)
(***************************************************************************)
EXTENDS ResponseApply

\* Nothing; one merge; two, of two orders; a chain; one claim merged twice;
\* a claim the run does not have.
Merges ==
    {<<>>, <<<<1, 2>>>>, <<<<1, 2>>, <<1, 3>>>>, <<<<1, 3>>, <<1, 2>>>>,
     <<<<1, 2>>, <<2, 3>>>>, <<<<1, 3>>, <<2, 3>>>>, <<<<1, 9>>>>}

First  == <<1, 1>>
Second == <<1, 2>>
Huge   == <<1, 8>>
Bare   == <<1, 9>>

\* Findings read out of the output, in two orders, a repeated one, one too
\* large for the ledger, and one that does not pass the claim schema.
Findings ==
    {<<>>, <<First>>, <<First, Second>>, <<Second, First>>, <<First, First>>, <<First, Huge>>,
     <<Huge, First>>, <<First, Bare>>}

UnfoundedFindings == {Bare}
OversizedFindings == {Huge}
=============================================================================
