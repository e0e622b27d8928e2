--------------------------- MODULE ResponseApply ---------------------------
(***************************************************************************)
(* Resuming a run that halted for its orchestrator: resume_round_one of    *)
(* src/afriend/commands/resume.py up to the judging.  The operator writes  *)
(* RESPONSE.json beside the REQUEST; every --resume validates it, binds    *)
(* the halt to it in run.json, freezes it as RESPONSE.json.applied,        *)
(* appends its records to the ledger, and unlinks the live file.  The      *)
(* process may die between any two writes, and the operator may rewrite or *)
(* remove RESPONSE.json at any moment.                                     *)
(*                                                                         *)
(* An answer is a sequence of records: findings <<output, position>> read  *)
(* out of what could not be parsed, or merge decisions <<canonical,        *)
(* duplicate>>.  A digest is the answer it is the digest of.               *)
(***************************************************************************)
EXTENDS Integers, Sequences, FiniteSets

CONSTANTS
    ClaimIds,        \* the claims of the halted round that are no duplicates
    MergeAnswers,    \* what an operator may write when asked for merges,
    ExtractAnswers,  \* and when asked for findings
    Unfounded,       \* the findings that do not pass the claim schema
    Oversized,       \* the findings whose ledger record would be refused
    NoFile,          \* the file is not there
    MaxEdits,        \* bound on the operator's writes
    MaxCrashes       \* bound on the crashes

AllAnswers == MergeAnswers \union ExtractAnswers

ASSUME AnswersAssumption ==
    /\ NoFile \notin AllAnswers
    /\ \A a \in AllAnswers : a \in Seq({a[i] : i \in DOMAIN a})
ASSUME EffortAssumption  == MaxEdits \in Nat /\ MaxCrashes \in Nat

VARIABLES
    question,    \* "merge" or "extract": what REQUEST.json asks
    live,        \* RESPONSE.json
    applied,     \* RESPONSE.json.applied
    checkpoint,  \* lifecycle_state and applied_response of run.json
    ledger,      \* the response's records in claims.jsonl
    pc,          \* where the resuming process stands
    prepared,    \* PreparedResponse.payload, the bytes it validated
    disturbed,   \* history: RESPONSE.json was touched after a checkpoint, or a read
    edits,       \* history: the operator's writes
    crashes      \* history: the deaths

files == <<live, applied, checkpoint, ledger>>
vars  == <<question, files, pc, prepared, disturbed, edits, crashes>>

Waiting == [phase |-> "waiting-for-orchestrator", answer |-> NoFile, records |-> 0]
Bound   == checkpoint # Waiting

Answers == IF question = "merge" THEN MergeAnswers ELSE ExtractAnswers

Init ==
    /\ question \in {"merge", "extract"}
    /\ live = NoFile /\ applied = NoFile
    /\ checkpoint = Waiting
    /\ ledger = <<>>
    /\ pc = "halted" /\ prepared = NoFile
    /\ disturbed = FALSE /\ edits = 0 /\ crashes = 0

-----------------------------------------------------------------------------
(* Validating an answer; nothing is written before it passes.              *)

Members(s)      == {s[i] : i \in 1 .. Len(s)}
Canonicals(s)   == {d[1] : d \in Members(s)}
Duplicates(s)   == {d[2] : d \in Members(s)}
LiveClaims      == ClaimIds \ Duplicates(ledger)

\* validate_merge_response is told of the duplicates an interrupted attempt
\* has merged away already.
KnownIds == LiveClaims \union Duplicates(ledger)

WellFormedMerges(a) ==
    /\ \A d \in Members(a) : d[1] \in KnownIds /\ d[2] \in KnownIds /\ d[1] # d[2]
    /\ Cardinality(Duplicates(a)) = Len(a)
    /\ Canonicals(a) \intersect Duplicates(a) = {}

WellFormed(a) ==
    IF question = "merge" THEN WellFormedMerges(a)
                          ELSE Members(a) \intersect Unfounded = {}

\* _validate_partial_merges, _validate_partial_extraction: what the ledger
\* holds already is the beginning of the answer.
Continues(a) ==
    /\ Len(ledger) <= Len(a)
    /\ \A i \in 1 .. Len(ledger) : ledger[i] = a[i]

\* _prepare_response
Selected == IF Bound /\ applied # NoFile THEN applied ELSE live
Sibling  == IF Bound /\ applied # NoFile THEN live ELSE applied

\* Slip: the digest in the checkpoint is not compared.
AcceptableUnbound ==
    /\ Selected # NoFile
    /\ WellFormed(Selected)
    /\ Continues(Selected)

Acceptable ==
    /\ Selected # NoFile
    /\ Bound => Selected = checkpoint.answer /\ checkpoint.records = Len(Selected)
    /\ Sibling \in {NoFile, Selected}
    /\ WellFormed(Selected)
    /\ Continues(Selected)

Resumable == pc \in {"halted", "refused"}

\* --resume reads and validates everything first.
Prepare ==
    /\ Resumable /\ Acceptable
    /\ prepared' = Selected
    /\ pc' = IF Bound THEN "append" ELSE "bind"
    /\ UNCHANGED <<question, files, disturbed, edits, crashes>>

Refuse ==
    /\ pc' = "refused" /\ prepared' = NoFile
    /\ UNCHANGED <<question, files, disturbed, edits, crashes>>

RefuseResponse == Resumable /\ ~Acceptable /\ Refuse

-----------------------------------------------------------------------------
(* The durable steps, in the order the process takes them.                 *)

Goto(where) == pc' = where /\ UNCHANGED <<question, prepared, disturbed, edits, crashes>>

\* _checkpoint_response_preparation
BindResponse ==
    /\ pc = "bind"
    /\ checkpoint' = [phase |-> "response-applying", answer |-> prepared,
                      records |-> Len(prepared)]
    /\ Goto("freeze")
    /\ UNCHANGED <<live, applied, ledger>>

\* _materialize_response; a file that is there already must agree.
Freeze ==
    /\ pc = "freeze" /\ applied \in {NoFile, prepared}
    /\ applied' = prepared
    /\ Goto("append")
    /\ UNCHANGED <<live, checkpoint, ledger>>

NextRecord == prepared[Len(ledger) + 1]

AppendRecord ==
    /\ pc = "append" /\ Len(ledger) < Len(prepared)
    /\ NextRecord \notin Oversized
    /\ ledger' = Append(ledger, NextRecord)
    /\ Goto("append")
    /\ UNCHANGED <<live, applied, checkpoint>>

\* Slip: applied is written before the last record is.
MarkAppliedEarly ==
    /\ pc = "append"
    /\ checkpoint' = [phase |-> "response-applied", answer |-> prepared,
                      records |-> Len(ledger)]
    /\ Goto("retain")
    /\ UNCHANGED <<live, applied, ledger>>

\* _checkpoint_response_application
MarkApplied ==
    /\ pc = "append" /\ Len(ledger) = Len(prepared)
    /\ checkpoint' = [phase |-> "response-applied", answer |-> prepared,
                      records |-> Len(ledger)]
    /\ Goto("retain")
    /\ UNCHANGED <<live, applied, ledger>>

\* _mark_response_consumed: keep the validated bytes, then unlink the live
\* file if it still holds them.
Retain ==
    /\ pc = "retain" /\ applied \in {NoFile, prepared}
    /\ applied' = prepared
    /\ Goto("unlink")
    /\ UNCHANGED <<live, checkpoint, ledger>>

\* Slip: the live file must be there to be unlinked.
UnlinkPresent ==
    /\ pc = "unlink" /\ live = prepared
    /\ live' = NoFile
    /\ Goto("judging")
    /\ UNCHANGED <<applied, checkpoint, ledger>>

Unlink ==
    /\ pc = "unlink" /\ live \in {NoFile, prepared}
    /\ live' = NoFile
    /\ Goto("judging")
    /\ UNCHANGED <<applied, checkpoint, ledger>>

\* Ledger.append refuses a line it could not read back; nobody catches it.
RefuseRecord ==
    /\ pc = "append" /\ Len(ledger) < Len(prepared)
    /\ NextRecord \in Oversized
    /\ Refuse

RefuseChanged ==
    /\ \/ pc \in {"freeze", "retain"} /\ applied \notin {NoFile, prepared}
       \/ pc = "unlink" /\ live \notin {NoFile, prepared}
    /\ Refuse

FinishRun ==
    /\ pc = "judging"
    /\ Goto("finished")
    /\ UNCHANGED files

-----------------------------------------------------------------------------

\* The operator saves, changes or removes RESPONSE.json.
WriteResponse(a) ==
    /\ edits < MaxEdits /\ pc # "finished"
    /\ a # live
    /\ live' = a
    /\ edits' = edits + 1
    /\ disturbed' = (disturbed \/ Bound \/ ~Resumable)
    /\ UNCHANGED <<question, applied, checkpoint, ledger, pc, prepared, crashes>>

Crash ==
    /\ ~Resumable /\ pc # "finished"
    /\ crashes < MaxCrashes
    /\ crashes' = crashes + 1
    /\ pc' = "halted" /\ prepared' = NoFile
    /\ UNCHANGED <<question, files, disturbed, edits>>

Progress ==
    \/ Prepare
    \/ BindResponse
    \/ Freeze
    \/ AppendRecord
    \/ MarkApplied
    \/ Retain
    \/ Unlink
    \/ FinishRun

Next ==
    \/ Progress
    \/ RefuseResponse
    \/ RefuseChanged
    \/ RefuseRecord
    \/ \E a \in Answers \union {NoFile} : WriteResponse(a)
    \/ Crash

Spec == Init /\ [][Next]_vars

\* The process runs on, and after a death or a refusal the operator tries
\* --resume again.
FairSpec == Spec /\ WF_vars(Progress)

-----------------------------------------------------------------------------
(* Properties.                                                             *)

\* One answer per halt, its records once each and in order: whatever dies and
\* whatever the operator rewrites, resume_round_one implements ApplyOnce.
Once == INSTANCE ApplyOnce WITH Answers <- AllAnswers, chosen <- checkpoint.answer
ImplementsApplyOnce == Once!Spec

\* The judging starts on a whole answer: everything of it is in the ledger
\* and the very bytes that were validated are kept beside the request.
JudgedOnTheWholeAnswer ==
    pc \in {"judging", "finished"} =>
        /\ checkpoint.phase = "response-applied"
        /\ ledger = checkpoint.answer
        /\ applied = checkpoint.answer

\* An answer with a record the ledger refuses.
Unwritable(a) == a # NoFile /\ Members(a) \intersect Oversized # {}

\* And then an answer the ledger can hold is applied to the end.
UndisturbedFinishes ==
    Bound ~> (pc = "finished" \/ disturbed \/ Unwritable(checkpoint.answer))

\* tests/test_ledger_oversized_round.py: "One oversized claim must cost one
\* claim, not the whole round."
OneBadRecordCostsOneRecord == Bound /\ ~disturbed => pc # "refused"
=============================================================================
