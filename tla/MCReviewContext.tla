-------------------------- MODULE MCReviewContext --------------------------
(* Two composers of one output: one takes the plan and the working tree,   *)
(* the other the plan, the prior review and a range whose ends may move.   *)
EXTENDS ReviewContext

OnesInputs  == [worktree |-> <<"plan">>, range |-> <<"plan", "review">>]
OnesChanges == [worktree |-> <<"tracked", "untracked">>, range |-> <<"start", "end">>]
=============================================================================
