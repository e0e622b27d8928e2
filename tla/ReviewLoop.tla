------------------------------ MODULE ReviewLoop ------------------------------
(***************************************************************************)
(* A run in --mode loop: the iterations of cmd_run                         *)
(* (src/afriend/commands/run.py), what a halt for the orchestrator leaves  *)
(* in run.json, and what the process of a --resume starts from             *)
(* (commands/haltstate.py).  Every iteration is one critique round and one *)
(* block of judging rounds; the block is Crossexam's, step by step.        *)
(*                                                                         *)
(* A critique round is one step here, summarised by what each friend came  *)
(* back with: CritiqueRound reads it finding by finding.  Applying the     *)
(* orchestrator's answer is one step too (ResponseApply), and a process    *)
(* dies only by halting (JudgeRecovery has the crashes).                   *)
(***************************************************************************)
EXTENDS Crossexam, Sequences

CONSTANTS
    MergeModes,     \* the values of --merge explored
    Unparseable,    \* the failures whose output an orchestrator could read
    MaxClaims,      \* bound on the claims friends raise
    MaxRevisions    \* bound on the edits of the artifact

ASSUME LoopAssumption ==
    /\ MergeModes \subseteq {"exact", "orchestrator"}
    /\ Unparseable \subseteq Reasons
    /\ MaxClaims \in Nat /\ MaxRevisions \in Nat

VARIABLES
    merge,      \* --merge
    at,         \* "top" of the loop, "judging", "halted" or "ended"
    ended,      \* why the loop was left, "no" before
    resuming,   \* resume_dir is not None
    streak,     \* dry rounds in a row
    dry,        \* halted_dry
    failed,     \* halted_failed
    carried,    \* carry_over is not None; it is Crossexam's record then
    exhausted,  \* which ceiling budget.exhausted_by names, "none" before
    saved,      \* what write_halt put in run.json
    ledger,     \* the verdict records of claims.jsonl
    rounds,     \* history: what every critique round came to
    edition,    \* history: which edit of the artifact each iteration read
    paid        \* history: the results paid for, by all processes

loopVars == <<merge, at, ended, resuming, streak, dry, failed, carried, exhausted, saved, ledger,
              rounds, edition, paid>>
allVars  == <<vars, loopVars>>

NotHalted == [iteration |-> 0]

LoopInit ==
    /\ Init
    /\ merge \in MergeModes
    /\ at = "top" /\ ended = "no" /\ resuming = FALSE
    /\ streak = 0 /\ dry = FALSE /\ failed = TRUE
    /\ carried = FALSE
    /\ exhausted = "none"
    /\ saved = NotHalted
    /\ ledger = {} /\ rounds = <<>> /\ edition = <<>> /\ paid = 0

-----------------------------------------------------------------------------
(* The arithmetic of convergence (verdicts.py, runmeta.py).                *)

RoundIsDry(allAliases, allOk) == allOk /\ allAliases

\* Slip: a failed round is passed over.
StreakKept(previous, roundFailed, roundDry) ==
    IF roundDry /\ ~roundFailed THEN previous + 1 ELSE IF roundFailed THEN previous ELSE 0

NextStreak(previous, roundFailed, roundDry) ==
    IF roundDry /\ ~roundFailed THEN previous + 1 ELSE 0

\* A claim nobody is left to judge is not what a loop waits for.
Unresolved ==
    {c \in DOMAIN states : /\ JudgesFor(claims[c].origin, Dispatchable \intersect Independent) # {}
                           /\ states[c] \notin TerminalStates}

LoopIsDone(n) == n >= 2 /\ Unresolved = {}

-----------------------------------------------------------------------------
(* One critique round, summarised.                                         *)

\* Nothing; a finding of a new theme, or of a known one in new words; a
\* finding merged into a known claim; or no payload.
Findings ==
    ({"nothing", "novel", "reworded"} \union Reasons) \X {NoClaim} \union {"again"} \X DOMAIN claims

HasFailed(finding)  == finding[1] \in Reasons
IsNew(finding)      == finding[1] \in {"novel", "reworded"}

\* The friends of a round that came back with a finding of some kind.
Those(results, Kind(_)) == {f \in DOMAIN results : Kind(results[f])}

Auth(results)     == \E f \in Independent \intersect DOMAIN results : results[f][1] \in AuthReasons
Aborted(results)  == \E f \in DOMAIN results : results[f][1] \in StopReasons
Unparsed(results) ==
    IF merge = "orchestrator" THEN {f \in DOMAIN results : results[f][1] \in Unparseable} ELSE {}

AnyFailed(results)  == Those(results, HasFailed) \intersect Independent # {}
AnySuccess(results) == (DOMAIN results \ Those(results, HasFailed)) \intersect Independent # {}
NoNovelty(results)  == ~\E f \in Independent \intersect DOMAIN results : results[f][1] = "novel"

IsDry(results)    == RoundIsDry(NoNovelty(results), AnySuccess(results) /\ ~AnyFailed(results))
DidFail(results)  == AnyFailed(results) \/ ~AnySuccess(results)

BaseRound     == (iteration - 1) * MaxRounds + 1
LastNumber    == IF DOMAIN claims = {} THEN 0
                 ELSE CHOOSE n \in {c[1] : c \in DOMAIN claims} : \A c \in DOMAIN claims : c[1] <= n

\* The friends of a set, counted through.
Numbering(friends) ==
    CHOOSE n \in [friends -> 1 .. Cardinality(friends)] :
        \A f, g \in friends : n[f] = n[g] => f = g

\* The claims there are, and one more for each of these friends.
WithClaimsOf(friends, known) ==
    LET number == Numbering(friends)
        id(f)  == <<LastNumber + number[f], 1>>
        new    == {id(f) : f \in friends}
    IN  [c \in DOMAIN known \union new |->
            IF c \in new
            THEN [origin |-> {f \in friends : id(f) = c}, supersedes |-> NoClaim,
                  round |-> BaseRound, text |-> AsRaised]
            ELSE known[c]]

\* Raising a known claim again makes one of its authors.
Corroborated(results) ==
    [c \in DOMAIN claims |->
        [claims[c] EXCEPT !.origin = @ \union {f \in DOMAIN results : results[f] = <<"again", c>>}]]

ClaimsAfter(results) == WithClaimsOf(Those(results, IsNew), Corroborated(results))

Fits(known) == Cardinality({c[1] : c \in DOMAIN known}) <= MaxClaims

\* dispatch_round tells the tracker of every result.
TrackerAfter(results) ==
    [f \in Friends |->
        IF f \in DOMAIN results
        THEN Recorded(tracker[f], IF HasFailed(results[f]) THEN results[f][1] ELSE NoFailure)
        ELSE tracker[f]]

\* What a reader of the run would call the round; "cut" when a signal kept a
\* friend from answering.
Came(results) ==
    IF Unparsed(results) # {} THEN "unparsed"
    ELSE IF DidFail(results) THEN "failed"
    ELSE IF ~NoNovelty(results) THEN "novel"
    ELSE IF DOMAIN results # Dispatchable THEN "cut" ELSE "dry"

-----------------------------------------------------------------------------
(* Starting a block of judging rounds: run_rounds and its prior.           *)

StartBlock(known, prior) ==
    LET carry(c) == c \in DOMAIN prior.states IN
    /\ claims' = known
    /\ states' = [c \in DOMAIN known |-> IF carry(c) THEN prior.states[c] ELSE Contested]
    /\ signatures' = [c \in DOMAIN known |-> IF carry(c) THEN prior.signatures[c] ELSE {}]
    /\ verdicts' = prior.verdicts
    /\ incomplete' = prior.incomplete
    /\ stop' = "none"
    /\ active' = Friends /\ queue' = {} /\ missing' = {} /\ unsettled' = {}
    /\ at' = "judging" /\ pc' = "round"

NothingCarried == [states |-> <<>>, signatures |-> <<>>, verdicts |-> {}, incomplete |-> FALSE]

CarryOver ==
    [states |-> states, signatures |-> signatures, verdicts |-> verdicts, incomplete |-> incomplete]

-----------------------------------------------------------------------------
(* Halting for the orchestrator, and resuming.                             *)

Halt(roundDry, roundFailed, results, kept) ==
    /\ at' = "halted"
    /\ saved' = [iteration |-> iteration, streak |-> streak, dry |-> roundDry,
                 failed |-> roundFailed, calls |-> calls', tracker |-> tracker',
                 states |-> IF kept THEN states ELSE <<>>, incomplete |-> kept /\ incomplete,
                 asks |-> Unparsed(results)]
    /\ claims' = ClaimsAfter(results)
    /\ UNCHANGED <<pc, stop, states, signatures, verdicts, incomplete, roundVars, ended>>

\* carried_outcome
CarriedSignature(c) ==
    IF saved.states[c] = Unproven
    THEN Signature({v \in ledger : v.claim = c /\ v.judge \in Independent}) ELSE {}

\* Slip: nothing an earlier iteration decided is read back.
JudgeAfresh == NothingCarried

CarriedOutcome ==
    IF saved.states = <<>> THEN NothingCarried
    ELSE [states |-> saved.states,
          signatures |-> [c \in DOMAIN saved.states |-> CarriedSignature(c)],
          verdicts |-> ledger,
          incomplete |-> saved.incomplete]

\* Slips: a resumed process has spent nothing, starts the loop over, or takes
\* the halted iteration for a finished one.
NothingSpent   == 0

SpentCalls  == saved.calls
ReentryPoint == saved.iteration

\* Slip: a resumed process has seen no failure.
FreshTracker == [f \in Friends |-> [last |-> NoFailure, count |-> 0, disabled |-> FALSE]]

SavedTracker == saved.tracker

\* extracted: the friends the answer reads a finding of a new wording from.
Resume(extracted) ==
    /\ at = "halted"
    /\ extracted \subseteq saved.asks
    /\ Fits(WithClaimsOf(extracted, claims))
    /\ StartBlock(WithClaimsOf(extracted, claims), CarriedOutcome)
    /\ iteration' = ReentryPoint
    /\ round' = (ReentryPoint - 1) * MaxRounds + 2
    /\ tracker' = SavedTracker
    /\ calls' = SpentCalls
    /\ streak' = saved.streak
    /\ dry' = FALSE /\ failed' = TRUE
    /\ carried' = (claims' # <<>>)
    /\ resuming' = TRUE
    /\ exhausted' = "none"
    /\ interrupted' = FALSE
    /\ UNCHANGED <<merge, ended, saved, ledger, rounds, edition, paid>>

-----------------------------------------------------------------------------
(* The loop.                                                               *)

End(why) == at' = "ended" /\ ended' = why

FirstHit(ceiling) == IF exhausted = "none" THEN ceiling ELSE exhausted

CritiqueFits == ~WouldExceedCalls(Cardinality(Dispatchable))

\* The top of the loop: an abort, or no budget for another critique round.
StopAtTop ==
    /\ at = "top"
    /\ \/ interrupted /\ End("interrupted") /\ UNCHANGED exhausted
       \/ ~interrupted /\ ~CritiqueFits /\ End("budget") /\ exhausted' = FirstHit("calls")
       \/ ~interrupted /\ CritiqueFits /\ End("budget") /\ exhausted' = FirstHit("time")
    /\ UNCHANGED <<vars, merge, resuming, streak, dry, failed, carried, saved, ledger, rounds,
                   edition, paid>>

\* The artifact is frozen again; what was decided of an earlier edition is
\* not carried on.
EditionRead(revised) ==
    IF edition = <<>> THEN 1 ELSE edition[Len(edition)] + IF revised THEN 1 ELSE 0

Conclude(results, kept) ==
    \/ /\ ~Auth(results) /\ Unparsed(results) # {}
       /\ Halt(dry, failed, results, kept)
       /\ UNCHANGED <<dry, failed, round>>
       /\ carried' = kept
    \/ /\ Auth(results) \/ Unparsed(results) = {}
       /\ dry' = IsDry(results) /\ failed' = DidFail(results)
       /\ \/ /\ Aborted(results) \/ Auth(results)
             /\ End(IF Aborted(results) THEN "dispatch-error" ELSE "auth")
             /\ claims' = ClaimsAfter(results)
             /\ UNCHANGED <<pc, stop, states, signatures, verdicts, incomplete, roundVars, round,
                            saved>>
             /\ carried' = kept
          \/ /\ ~Aborted(results) /\ ~Auth(results)
             /\ merge = "orchestrator" /\ ClaimsAfter(results) # <<>>
             /\ Halt(IsDry(results), DidFail(results), results, kept)
             /\ carried' = kept
             /\ UNCHANGED round
          \/ /\ ~Aborted(results) /\ ~Auth(results)
             /\ merge = "exact" \/ ClaimsAfter(results) = <<>>
             /\ StartBlock(ClaimsAfter(results), IF kept THEN CarryOver ELSE NothingCarried)
             /\ round' = BaseRound + 1
             /\ carried' = (ClaimsAfter(results) # <<>>)
             /\ UNCHANGED <<ended, saved>>

\* A signal leaves the friends that had not started without a result.
CritiqueRound(results, revised) ==
    /\ at = "top" /\ ~interrupted /\ CritiqueFits /\ exhausted # "time"
    /\ Fits(ClaimsAfter(results))
    /\ EditionRead(revised) <= MaxRevisions + 1
    /\ edition' = Append(edition, EditionRead(revised))
    /\ rounds' = Append(rounds, Came(results))
    /\ interrupted' = (DOMAIN results # Dispatchable \/ Aborted(results))
    /\ tracker' = TrackerAfter(results)
    /\ calls' = calls + Cardinality(DOMAIN results)
    /\ paid' = paid + Cardinality(DOMAIN results)
    /\ Conclude(results, carried /\ ~revised)
    /\ UNCHANGED <<iteration, merge, resuming, streak, exhausted, ledger>>

Judge ==
    \/ ExhaustCalls /\ exhausted' = FirstHit("calls")
    \/ ExhaustTime  /\ exhausted' = FirstHit("time")
    \/ /\ \/ RoundsOver \/ Interrupted \/ AllTerminal \/ Unjudgeable
          \/ Dispatch
          \/ \E f \in Friends : \/ \E payload \in Payloads : Answer(f, payload)
                                \/ \E reason \in Reasons : Fail(f, reason)
                                \/ Withhold(f)
          \/ SettleClaim
          \/ Interrupt
       /\ UNCHANGED exhausted

JudgingStep ==
    /\ at = "judging"
    /\ Judge
    /\ ledger' = ledger \union verdicts'
    /\ paid' = paid + calls' - calls
    /\ UNCHANGED <<merge, at, ended, resuming, streak, dry, failed, carried, saved, rounds, edition>>

BlockOver == at = "judging" /\ pc = "stopped"
Broken    == stop \in {"auth", "dispatch-error"}

StreakAfter ==
    IF resuming
    THEN NextStreak(streak, saved.failed, RoundIsDry(saved.dry, ~saved.failed))
    ELSE NextStreak(streak, failed, dry)

\* The block is judged: converged, out of budget, or another iteration.
EndIteration ==
    /\ BlockOver
    /\ streak' = IF Broken /\ ~resuming THEN streak ELSE StreakAfter
    /\ \/ Broken /\ End(stop) /\ UNCHANGED <<iteration, resuming>>
       \/ ~Broken /\ LoopIsDone(StreakAfter) /\ End("converged") /\ UNCHANGED <<iteration, resuming>>
       \/ /\ ~Broken /\ ~LoopIsDone(StreakAfter)
          /\ ~resuming /\ exhausted # "none"
          /\ End("budget") /\ UNCHANGED <<iteration, resuming>>
       \/ /\ ~Broken /\ ~LoopIsDone(StreakAfter)
          /\ resuming \/ exhausted = "none"
          /\ IF iteration = MaxIterations
             THEN End(IF interrupted THEN "interrupted" ELSE "iterations") /\ UNCHANGED <<iteration, resuming>>
             ELSE /\ iteration' = iteration + 1 /\ at' = "top" /\ resuming' = FALSE
                  /\ UNCHANGED ended
    /\ UNCHANGED <<round, pc, stop, recordVars, tracker, calls, incomplete, roundVars, interrupted,
                   merge, dry, failed, carried, exhausted, saved, ledger, rounds, edition, paid>>

\* Only a resumed iteration looks at the clock before it looks at the streak.
LateAfterResume ==
    /\ BlockOver /\ resuming /\ ~Broken
    /\ streak' = StreakAfter
    /\ exhausted' = FirstHit("time")
    /\ End("budget")
    /\ UNCHANGED <<vars, merge, resuming, dry, failed, carried, saved, ledger, rounds, edition, paid>>

LoopNext ==
    \/ StopAtTop
    \/ \E reported \in SUBSET Dispatchable, revised \in BOOLEAN :
          \E results \in [reported -> Findings] : CritiqueRound(results, revised)
    \/ \E extracted \in SUBSET Friends : Resume(extracted)
    \/ JudgingStep
    \/ EndIteration
    \/ LateAfterResume

LoopSpec == LoopInit /\ [][LoopNext]_allVars

-----------------------------------------------------------------------------
(* Properties.                                                             *)

Edition     == edition[Len(edition)]
LastTwo(kinds) ==
    /\ Len(rounds) >= 2
    /\ \A i \in {Len(rounds) - 1, Len(rounds)} : rounds[i] \in kinds

\* A loop converges on two critique rounds in a row in which every friend
\* that answered succeeded and none said anything new - over halts and
\* processes - and with every claim somebody could still judge settled.  (A
\* round a signal cut short counts as the friends that answered in it say;
\* of a round that could not be parsed see UnparsedIsNoEvidence.)
ConvergedOnDryRounds ==
    ended = "converged" => Unresolved = {} /\ LastTwo({"dry", "cut", "unparsed"})

\* run.py of what a halt for claim extraction saves: "a round whose output
\* could not be parsed is not evidence of convergence".
UnparsedIsNoEvidence == ended = "converged" => LastTwo({"dry", "cut"})

\* --max-calls bounds what all the processes of a run pay for together.
PaidWithinMaxCalls == paid <= MaxCalls

\* A settled claim stays as it is over iterations, halts and processes, as
\* long as the artifact it was settled against is not edited.
SettledUntilRevised ==
    [][\A c \in DOMAIN states :
          carried /\ Edition' = Edition /\ states[c] \in TerminalStates =>
              states'[c] = states[c]]_allVars

\* A friend that failed twice the same way stays out in every later process.
OutInEveryProcess ==
    [][\A f \in Friends : Disabled(f) =>
          /\ tracker'[f].disabled
          /\ {v \in ledger' : v.judge = f} = {v \in ledger : v.judge = f}]_allVars

\* environment.py: "Terminal states decided against the old text are not
\* decisions about the new one" - a claim upheld was upheld by a judge that
\* read the edition the state is about.
IterationOf(v) == ((v.round - 1) \div MaxRounds) + 1
SettledOnThisText ==
    at = "judging" =>
        \A c \in DOMAIN states : states[c] = SettledUpheld =>
            \E v \in VotesOn(c) : v.kind = "upheld" /\ edition[IterationOf(v)] = Edition
===============================================================================
