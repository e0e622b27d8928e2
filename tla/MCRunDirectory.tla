--------------------------- MODULE MCRunDirectory ---------------------------
(* Small instances of RunDirectory. *)
EXTENDS RunDirectory, TLC

CONSTANTS fresh, again, late, pruner, nobody, c1, c2

ResumesMC == {again, late}
NoResumes == {}

\* One claim that counts and one raised under an advisory lens.
ClaimsMC   == {c1, c2}
AdvisoryMC == {c2}
OneClaim   == {c1}
NoClaims   == {}

Ending(mode) ==
    [mode |-> mode, signalled |-> FALSE, error |-> FALSE, budget |-> "none", exhausted |-> FALSE,
     converged |-> TRUE, auth |-> FALSE, success |-> TRUE, quorumFailed |-> FALSE,
     incomplete |-> FALSE]

\* A clean end, and ends where two causes hold at once.
GateEndings ==
    LET e == Ending("gate")
    IN  {e,
         [e EXCEPT !.signalled = TRUE, !.error = TRUE],
         [e EXCEPT !.error = TRUE, !.budget = "max-calls"],
         [e EXCEPT !.budget = "max-calls", !.quorumFailed = TRUE],
         [e EXCEPT !.auth = TRUE, !.success = FALSE],
         [e EXCEPT !.success = FALSE, !.quorumFailed = TRUE],
         [e EXCEPT !.quorumFailed = TRUE, !.incomplete = TRUE],
         [e EXCEPT !.incomplete = TRUE]}
CleanEnding == {Ending("gate")}

Site(facts) == [f \in SiteFields |-> f \in facts]
SitesMC ==
    {Site({"artifact", "frozen", "now", "differs"}),
     Site({"artifact", "frozen", "now"}),
     Site({"inRepo", "commit", "before", "now"}),
     Site({"inRepo", "commit", "now"}),
     Site({"inRepo", "commit", "now", "ignored"}),
     Site({"inRepo", "now"})}
OneSite == {Site({"artifact", "frozen", "now", "differs"})}
=============================================================================
