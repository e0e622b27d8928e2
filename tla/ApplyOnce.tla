----------------------------- MODULE ApplyOnce -----------------------------
(***************************************************************************)
(* What the response checkpoint of src/afriend/commands/resume.py promises *)
(* of an orchestrator's answer, whatever process applies it and however    *)
(* often it dies: one answer is chosen for the halt, once, and its records *)
(* enter the ledger in order and once each.  ResponseApply implements it.  *)
(***************************************************************************)
EXTENDS Naturals, Sequences

CONSTANTS Answers, NoFile

VARIABLES
    chosen,   \* the answer the halt is bound to, NoFile before
    ledger    \* its records in claims.jsonl

vars == <<chosen, ledger>>

Init == chosen = NoFile /\ ledger = <<>>

Choose ==
    /\ chosen = NoFile
    /\ chosen' \in Answers
    /\ UNCHANGED ledger

Record ==
    /\ chosen # NoFile
    /\ Len(ledger) < Len(chosen)
    /\ ledger' = Append(ledger, chosen[Len(ledger) + 1])
    /\ UNCHANGED chosen

Next == Choose \/ Record

Spec == Init /\ [][Next]_vars
=============================================================================
