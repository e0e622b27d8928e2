--------------------------- MODULE JudgeRecovery ---------------------------
(***************************************************************************)
(* Judging that survives the death of its process: the durable side of     *)
(* run_rounds, with src/afriend/judgebatch.py and the recovery half of     *)
(* src/afriend/commands/crossexam.py.  The memory of the process is        *)
(* Crossexam's state and is lost in a crash; on disk remain the audit of   *)
(* every judge's result, upgraded to a replayable batch when its answer    *)
(* was understood, and the append-only ledger.  A resumed process judges   *)
(* again from the first round, takes from disk what is already there and   *)
(* asks the other judges again.                                            *)
(*                                                                         *)
(* An abort is a normal end of the run, not a crash (Crossexam has it), so *)
(* interrupted stays FALSE here.                                           *)
(***************************************************************************)
EXTENDS Crossexam

CONSTANT
    MaxCrashes     \* bound on the crashes explored

ASSUME CrashAssumption == MaxCrashes \in Nat
\* The critique round numbers its claims: none of them is a later version.
ASSUME NumberingAssumption == \A c, d \in DOMAIN Critique : c[1] = d[1] => c = d

VARIABLES
    audits,        \* <<friend, round>> -> the audit file of that result
    ledger,        \* the verdict records of claims.jsonl
    ledgerClaims,  \* its claim records: id -> claim
    pending,       \* captured votes not appended to the ledger yet
    prompts,       \* prompt_text_for: the prompts built for this round
    inHand,        \* the answer being persisted
    refusal,       \* the UsageError a resume ended with, "none" if none
    asked,         \* history: every <<judge, round, prompt>> a process was started with
    crashes        \* history: how often the process died

durable  == <<audits, ledger, ledgerClaims>>
memory   == <<pending, prompts, inHand>>
history  == <<asked, crashes>>
allVars  == <<vars, durable, memory, refusal, history>>

Rounds  == 2 .. MaxRounds
NoAudit == [version |-> 0, prompt |-> <<{}, {}>>, votes |-> {}, omitted |-> {}, failure |-> NoFailure]
NoPayload == <<>>

RInit ==
    /\ Init
    /\ audits = [x \in Friends \X Rounds |-> NoAudit]
    /\ ledger = {}
    /\ ledgerClaims = claims
    /\ pending = {} /\ prompts = NoPayload /\ inHand = NoPayload /\ refusal = "none"
    /\ asked = {} /\ crashes = 0

-----------------------------------------------------------------------------
(* Reading the disk back.                                                  *)

\* Slip: the prompt is built from the ledger, this round's votes included.
PromptOfLedger(f) ==
    <<Slice(f), UNION {LatestPerJudge({w \in ledger : w.claim = c /\ w.judge # f}) : c \in Slice(f)}>>

\* The claims shown and, of each, the newest vote of every other judge.
Prompt(f) ==
    <<Slice(f), UNION {LatestPerJudge({w \in VotesOn(c) : w.judge # f}) : c \in Slice(f)}>>

AskedNow      == {f \in Dispatchable : Slice(f) # {}}
Audit(f)      == audits[<<f, round>>]

\* Slip: a batch counts once all of its votes are in the ledger.
PublishedBatches == {f \in AskedNow : Audit(f).version = 2 /\ Audit(f).votes \subseteq ledger}

Captured      == {f \in AskedNow : Audit(f).version = 2}
NotCaptured   == AskedNow \ Captured

\* Slip: a vote of any round is taken for one of this round.
DurableOnce(f) == {c \in Slice(f) : \E v \in ledger : v.claim = c /\ v.judge = f}

DurableFor(f) == {c \in Slice(f) : \E v \in ledger : v.claim = c /\ v.judge = f /\ v.round = round}

\* durable_batch_claim_ids: the claims a complete batch of this judge records
\* a vote on; an older or a missing audit corroborates nothing.
BatchClaims(f) == IF Audit(f).version = 2 THEN {v.claim : v \in Audit(f).votes} ELSE {}

\* recover_judging_batch and require_corroborated_verdicts: why this judge's
\* files cannot be taken over, "none" if they can.
Objection(f) ==
    CASE Audit(f).version = 1 /\ DurableFor(f) # Slice(f) -> "no complete batch"
      [] Audit(f).version = 2 /\ Audit(f).prompt # Prompt(f) -> "prompt disagrees"
      [] /\ Audit(f).version = 0 \/ (Audit(f).version = 1 /\ DurableFor(f) = Slice(f))
         /\ ~(DurableFor(f) \subseteq BatchClaims(f)) -> "uncorroborated"
      [] OTHER -> "none"

Conflicts(f) ==
    \E v \in Audit(f).votes, w \in ledger :
        w.claim = v.claim /\ w.judge = v.judge /\ w.round = v.round /\ w # v

CapturedVotes   == UNION {Audit(f).votes : f \in Captured}
CapturedMissing == UNION {Audit(f).omitted \X {f} : f \in Captured}

Refuse(why) ==
    /\ pc' = "refused" /\ refusal' = why
    /\ UNCHANGED <<iteration, round, stop, recordVars, tracker, calls, incomplete, roundVars,
                   interrupted, durable, memory, history>>

\* The round is opened: what the disk holds of it is taken over.
Recover ==
    /\ Judging
    /\ \A f \in AskedNow : Objection(f) = "none"
    /\ \A f \in Captured : ~Conflicts(f)
    /\ pc' = "restore"
    /\ active' = Dispatchable
    /\ queue' = NotCaptured
    /\ missing' = CapturedMissing
    /\ prompts' = [f \in NotCaptured |-> Prompt(f)]
    /\ pending' = CapturedVotes \ ledger
    /\ calls' = calls + Cardinality(Captured)
    /\ UNCHANGED <<iteration, round, stop, recordVars, tracker, incomplete, unsettled,
                   interrupted, durable, inHand, refusal, history>>

NextPending == CHOOSE v \in pending : TRUE

\* Slip: an appended vote stays pending.
AppendForever == ledger' = ledger \union {NextPending} /\ pending' = pending

Append ==
    /\ ledger' = ledger \union {NextPending}
    /\ pending' = pending \ {NextPending}

RestoreVote ==
    /\ pc = "restore" /\ pending # {}
    /\ Append
    /\ UNCHANGED <<vars, audits, ledgerClaims, prompts, inHand, refusal, history>>

\* Slip: the votes of later rounds become visible at once.
WholeLedger == ledger

\* Every prompt of the round is built before the round's recovered votes
\* become visible: the judges of a round never saw each other's answers.
RecoveredVotes == {v \in ledger : v.round = round /\ v.claim \in OpenClaims}

Dispatched ==
    /\ queue # {} /\ ~WouldExceedCalls(Cardinality(queue))
    /\ pc' = "collect"
    /\ asked' = asked \union {<<f, round, prompts[f]>> : f \in queue}
    /\ UNCHANGED <<stop, unsettled>>

\* Either ceiling: the calls do not fit, or there is no time left.
OutOfBudget ==
    /\ queue # {}
    /\ pc' = "stopped" /\ stop' = "budget-exhausted"
    /\ UNCHANGED <<asked, unsettled>>

NothingToAsk ==
    /\ queue = {}
    /\ pc' = "settle"
    /\ stop' = IF \E f \in active : Slice(f) # {} THEN "none" ELSE "unjudgeable"
    /\ unsettled' = OpenClaims
    /\ UNCHANGED asked

Restored ==
    /\ pc = "restore" /\ pending = {}
    /\ verdicts' = verdicts \union RecoveredVotes
    /\ Dispatched \/ OutOfBudget \/ NothingToAsk
    /\ UNCHANGED <<iteration, round, claims, states, signatures, tracker, calls, incomplete,
                   active, queue, missing, interrupted, durable, memory, refusal, crashes>>

-----------------------------------------------------------------------------
(* Persisting the results of the round, one friend after the other.        *)

WriteAudit(f, audit) == audits' = [audits EXCEPT ![<<f, round>>] = audit]

\* persist_result writes a version-1 audit, whatever became of the friend.
PersistAnswer(f, payload) ==
    /\ pc = "collect" /\ f = NextResult
    /\ WriteAudit(f, [NoAudit EXCEPT !.version = 1, !.prompt = prompts[f]])
    /\ inHand' = payload
    /\ pc' = "upgrade"
    /\ UNCHANGED <<iteration, round, stop, recordVars, tracker, calls, incomplete, roundVars,
                   interrupted, ledger, ledgerClaims, pending, prompts, refusal, history>>

\* The last result persisted, the round's votes go to the ledger.
Persisted(f) ==
    /\ queue' = queue \ {f}
    /\ pc' = IF queue = {f} THEN "append" ELSE "collect"

\* persist_judging_batch replaces it with the answer itself.
PersistBatch(f) ==
    LET accepted == Accepted(f, inHand)
        omitted  == Slice(f) \ DOMAIN inHand IN
    /\ pc = "upgrade" /\ f = NextResult
    /\ WriteAudit(f, [version |-> 2, prompt |-> prompts[f], votes |-> accepted, omitted |-> omitted,
                      failure |-> NoFailure])
    /\ pending' = pending \union accepted
    /\ NeverReported(f, omitted)
    /\ incomplete' = (incomplete \/ (omitted # {} /\ f \in Independent))
    /\ tracker' = [tracker EXCEPT ![f] = Recorded(@, NoFailure)]
    /\ calls' = calls + 1
    /\ inHand' = NoPayload
    /\ Persisted(f)
    /\ UNCHANGED <<iteration, round, stop, recordVars, active, unsettled, interrupted,
                   ledger, ledgerClaims, prompts, refusal, history>>

\* A failed friend leaves its version-1 audit, whose row names the failure.
PersistFailure(f, reason) ==
    /\ pc = "collect" /\ f = NextResult
    /\ WriteAudit(f, [NoAudit EXCEPT !.version = 1, !.prompt = prompts[f], !.failure = reason])
    /\ NeverReported(f, Slice(f))
    /\ incomplete' = (incomplete \/ f \in Independent)
    /\ tracker' = [tracker EXCEPT ![f] = Recorded(@, reason)]
    /\ calls' = calls + 1
    /\ stop' = StopAfter(f, reason)
    /\ Persisted(f)
    /\ UNCHANGED <<iteration, round, recordVars, active, unsettled, interrupted, ledger,
                   ledgerClaims, memory, refusal, history>>

AppendVote ==
    /\ pc = "append" /\ pending # {}
    /\ Append
    /\ UNCHANGED <<vars, audits, ledgerClaims, prompts, inHand, refusal, history>>

\* Prompts are built from outcome.verdicts, which grows only now.
Appended ==
    /\ pc = "append" /\ pending = {}
    /\ verdicts' = verdicts \union {v \in ledger : v.round = round}
    /\ pc' = "settle"
    /\ unsettled' = OpenClaims
    /\ UNCHANGED <<iteration, round, stop, claims, states, signatures, tracker, calls, incomplete,
                   active, queue, missing, interrupted, durable, memory, refusal, history>>

-----------------------------------------------------------------------------
(* Settling: a successor is a ledger record too, and may already be there. *)

Persistent(c) == {s \in DOMAIN ledgerClaims : ledgerClaims[s].supersedes = c
                                              /\ ledgerClaims[s].round = round}

ExpectedSuccessor(c) == Successor(c, claims[c].origin, Amendments(c), round)

SuccessorAgrees(c) ==
    \/ SettledState(c) # Superseded
    \/ Persistent(c) = {}
    \/ \E s \in Persistent(c) :
         /\ Persistent(c) = {s}
         /\ s = FreeSuccessorId(c, DOMAIN claims \ {s})
         /\ ledgerClaims[s] = ExpectedSuccessor(c)

\* The successor goes to the ledger like any claim, once.
RecordSuccessor(c) ==
    ledgerClaims' = IF SettledState(c) = Superseded /\ Persistent(c) = {}
                    THEN With(ledgerClaims, FreeSuccessorId(c, DOMAIN claims), ExpectedSuccessor(c))
                    ELSE ledgerClaims

RecoverableSettle ==
    /\ pc = "settle"
    /\ SuccessorAgrees(NextUnsettled)
    /\ SettleClaim
    /\ RecordSuccessor(NextUnsettled)
    /\ UNCHANGED <<audits, ledger, memory, refusal, history>>

\* Everything a resume can refuse: files of a judge it cannot take over, and
\* a successor in the ledger that is not the one the votes produce.
RecoveryRefusals ==
    IF ~Judging THEN {}
    ELSE ({Objection(f) : f \in AskedNow} \ {"none"}) \union
         {"captured batch conflicts with ledger" : f \in {g \in Captured : Conflicts(g)}}
SuccessorRefusals ==
    IF pc = "settle" /\ ~SuccessorAgrees(NextUnsettled)
    THEN {"persisted successor disagrees"} ELSE {}

RefuseRecovery == \E why \in RecoveryRefusals \union SuccessorRefusals : Refuse(why)

-----------------------------------------------------------------------------

StopOrFinish ==
    /\ \/ RoundsOver
       \/ AllTerminal
    /\ UNCHANGED <<durable, memory, refusal, history>>

\* finish_run writes the terminal artifacts; the run cannot be resumed then.
Finish ==
    /\ pc = "stopped"
    /\ pc' = "finished"
    /\ UNCHANGED <<iteration, round, stop, recordVars, tracker, calls, incomplete, roundVars,
                   interrupted, durable, memory, refusal, history>>

\* The process dies, and the operator runs --resume: the checkpoint of the
\* halt is all it starts from, so its memory is that of Init.
CrashAndResume ==
    /\ pc \notin {"finished", "refused"}
    /\ crashes < MaxCrashes
    /\ crashes' = crashes + 1
    /\ round' = 2 /\ pc' = "round" /\ stop' = "none"
    /\ claims' = [c \in DOMAIN Critique |-> claims[c]]
    /\ states' = [c \in DOMAIN Critique |-> Contested]
    /\ signatures' = [c \in DOMAIN Critique |-> {}]
    /\ verdicts' = {}
    /\ tracker' = [f \in Friends |-> [last |-> NoFailure, count |-> 0, disabled |-> FALSE]]
    /\ calls' = 0
    /\ incomplete' = FALSE
    /\ active' = Friends /\ queue' = {} /\ missing' = {} /\ unsettled' = {}
    /\ pending' = {} /\ prompts' = NoPayload /\ inHand' = NoPayload
    /\ UNCHANGED <<iteration, interrupted, durable, refusal, asked>>

RProgress ==
    \/ RefuseRecovery
    \/ Recover
    \/ RestoreVote
    \/ Restored
    \/ \E f \in Friends : \/ \E payload \in Payloads : PersistAnswer(f, payload)
                          \/ \E reason \in Reasons : PersistFailure(f, reason)
                          \/ PersistBatch(f)
    \/ AppendVote
    \/ Appended
    \/ RecoverableSettle
    \/ StopOrFinish
    \/ Finish

RNext == RProgress \/ CrashAndResume

RSpec == RInit /\ [][RNext]_allVars

\* Friends are killed at their timeout and the operator resumes until it is
\* over; the crashes themselves are nobody's duty.
RFairSpec == RSpec /\ WF_allVars(RProgress)

-----------------------------------------------------------------------------
(* Properties.                                                             *)

\* The judging record is a JudgingRecord: answers are captured whole, once,
\* and only votes of a captured answer reach the ledger.
Record == INSTANCE JudgingRecord WITH
    Judges    <- Friends,
    captured  <- {x \in Friends \X Rounds : audits[x].version = 2},
    answers   <- [x \in Friends \X Rounds |-> audits[x].votes],
    published <- ledger
ImplementsRecord == Record!Spec

\* However many processes took part, a judge is asked the same question in
\* a round: the claims, and the others' votes of the earlier rounds only.
SameQuestionEveryTime ==
    \A a, b \in asked :
        /\ a[1] = b[1] /\ a[2] = b[2] => a[3] = b[3]
        /\ \A v \in a[3][2] : v.round < a[2]

\* A resume refuses files afriend itself has written for one reason only, a
\* result whose batch was never completed.  "A ledger verdict with no batch
\* behind it is not a state any real run reaches" (judgebatch.py); nor is a
\* prompt that disagrees, a batch the ledger contradicts, or a successor
\* other than the one the votes produce.
OwnFilesAreAccepted == pc = "refused" => refusal = "no complete batch"

\* What a process knows at the top of a round, and what follows from it.
Memory == [claims |-> claims, states |-> states, signatures |-> signatures,
           verdicts |-> verdicts, tracker |-> tracker]

BenchIn(o)     == {f \in Friends : ~o.tracker[f].disabled}
RosterIn(o)    == BenchIn(o) \intersect Independent
OpenIn(o)      == {c \in DOMAIN o.states : o.states[c] \notin TerminalStates}
SliceIn(o, f)  == {c \in OpenIn(o) : f \notin o.claims[c].origin}
JudgesIn(o)    == {f \in BenchIn(o) : SliceIn(o, f) # {}}

\* One round of it: k holds the votes of this round and of all so far.
CountedIn(o, k, c) == {v \in k.votes : v.claim = c /\ v.judge \in RosterIn(o)}
SaidIn(o, k, c)    == Signature(CountedIn(o, k, c))
RewordedIn(o, k, c) == {v \in LatestPerJudge(CountedIn(o, k, c)) : v.kind = "amended"}
DecidedIn(o, k, c) ==
    StateFor(o.claims[c].origin, {v \in k.votes : v.claim = c}, RosterIn(o), k.round, MaxRounds,
             \E f \in RosterIn(o) \ o.claims[c].origin :
                ~\E v \in k.fresh : v.claim = c /\ v.judge = f)
SettledIn(o, k, c) ==
    IF DecidedIn(o, k, c) = Unproven /\ ShouldDiscard(o.signatures[c], SaidIn(o, k, c))
    THEN Discarded ELSE DecidedIn(o, k, c)

Later(c)   == <<c[1], c[2] + 1>>
Earlier(c) == <<c[1], c[2] - 1>>

\* An uninterrupted run, from the answers on disk: round r takes the memory
\* o to the next, all open claims at once.
ReplayRound(files, o, r) ==
    LET fresh == UNION {files[<<f, r>>].votes : f \in Friends}
        k     == [round |-> r, fresh |-> fresh, votes |-> o.verdicts \union fresh]
        born  == {Later(c) : c \in {d \in OpenIn(o) : SettledIn(o, k, d) = Superseded}}
        all   == DOMAIN o.states \union born
    IN  [claims     |-> [c \in all |->
            IF c \in DOMAIN o.states THEN o.claims[c]
            ELSE Successor(Earlier(c), o.claims[Earlier(c)].origin, RewordedIn(o, k, Earlier(c)), r)],
         states     |-> [c \in all |->
            IF c \in OpenIn(o) THEN SettledIn(o, k, c)
            ELSE IF c \in DOMAIN o.states THEN o.states[c]
            ELSE IF r >= MaxRounds /\ MaxIterations = 1 THEN Incomplete ELSE Contested],
         signatures |-> [c \in all |->
            IF c \in OpenIn(o) THEN IF DecidedIn(o, k, c) = Unproven THEN SaidIn(o, k, c) ELSE {}
            ELSE IF c \in DOMAIN o.states THEN o.signatures[c] ELSE {}],
         verdicts   |-> k.votes,
         tracker    |-> [f \in Friends |->
            IF f \in JudgesIn(o) THEN Recorded(o.tracker[f], files[<<f, r>>].failure)
            ELSE o.tracker[f]]]

Opening ==
    [claims     |-> [c \in DOMAIN Critique |->
                       [origin |-> Critique[c], supersedes |-> NoClaim, round |-> 1, text |-> AsRaised]],
     states     |-> [c \in DOMAIN Critique |-> Contested],
     signatures |-> [c \in DOMAIN Critique |-> {}],
     verdicts   |-> {},
     tracker    |-> [f \in Friends |-> [last |-> NoFailure, count |-> 0, disabled |-> FALSE]]]

Replay(files) ==
    LET course[r \in 2 .. MaxRounds + 1] ==
            IF r = 2 THEN Opening ELSE ReplayRound(files, course[r - 1], r - 1)
    IN  course

\* At the top of every round the memory of a process - the first, or one
\* resumed after any crashes - is what an uninterrupted run would hold.
OutcomeIsReplay == pc = "round" => Memory = Replay(audits)[round]

\* However the run is killed and resumed, it ends: with its report, or
\* refused.
Ends == <>(pc \in {"finished", "refused"})

\* crossexam.py on a judge that leaves out a claim it was shown: "Recorded,
\* and the round is marked incomplete".
OmissionMarksRun ==
    pc = "finished" =>
        \A f \in Independent, r \in Rounds :
            r < round /\ audits[<<f, r>>].omitted # {} => incomplete
=============================================================================
