------------------------------ MODULE Crossexam ------------------------------
(***************************************************************************)
(* The judging rounds of a run: run_rounds and _settle_round of            *)
(* src/afriend/commands/crossexam.py, with the repeat tracker and the call *)
(* budget they consult.  Each round asks every friend about the open       *)
(* claims it did not author, reads the answers in roster order, and then   *)
(* settles the open claims one after the other.                            *)
(*                                                                         *)
(* pc is where the loop stands: at the top of it ("round"), reading the    *)
(* results of a dispatched round ("collect"), in _settle_round ("settle"), *)
(* or out of it ("stopped").  What a crash does to the files behind these  *)
(* steps is JudgeRecovery's subject, not this module's.                    *)
(***************************************************************************)
EXTENDS Verdicts

CONSTANTS
    Friends,        \* the roster's friend keys
    Independent,    \* the friends whose votes count (the others are advisory)
    Critique,       \* what the critique round left: claim id -> set of authors
    MaxRounds,      \* rounds of one iteration, the critique round included
    MaxIterations,  \* 1 except in loop mode
    MaxCalls,       \* --max-calls
    Ballots,        \* the votes a judge may return on a claim
    Reasons,        \* the ways a friend may fail
    AuthReasons,    \* those an adapter declares an authentication failure
    StopReasons     \* those that abort the dispatch (an AfError)

BallotType == [kind : Kinds, evidence : {"none", "confirmed", "disputed", "unverifiable"},
               wording : STRING \X STRING, counter : STRING \X STRING]

ASSUME RosterAssumption ==
    /\ Independent \subseteq Friends
    /\ IsFiniteSet(Friends)
ASSUME CritiqueAssumption ==
    /\ DOMAIN Critique \subseteq Nat \X Nat /\ IsFiniteSet(DOMAIN Critique)
    /\ \A c \in DOMAIN Critique : Critique[c] \subseteq Friends
ASSUME BoundsAssumption ==
    /\ MaxRounds \in Nat \ {0, 1}  \* a judging mode with --max-rounds 1 is refused
    /\ MaxIterations \in Nat \ {0}
    /\ MaxCalls \in Nat
ASSUME AnswerAssumption ==
    /\ Ballots \subseteq BallotType
    /\ AuthReasons \subseteq Reasons
    /\ StopReasons \subseteq Reasons

NoFailure == "no-failure"
NoClaim   == <<0, 0>>

\* The wording a claim has from its author.
AsRaised == "as-raised"

ASSUME SentinelAssumption == NoFailure \notin Reasons /\ NoClaim \notin DOMAIN Critique

VARIABLES
    iteration,    \* the loop iteration this block of rounds belongs to
    round,        \* round_no
    pc,           \* "round", "collect", "settle" or "stopped"
    stop,         \* why the loop was or will be left; "none" while it goes on
    claims,       \* outcome.claims: id -> [origin, supersedes, round, text]
    states,       \* outcome.states: id -> state
    signatures,   \* outcome.signatures; {} where the code holds none
    verdicts,     \* outcome.verdicts
    tracker,      \* RepeatTracker: friend -> [last, count, disabled]
    calls,        \* budget.calls
    incomplete,   \* outcome.incomplete
    active,       \* the friends partition_dispatchable let through this round
    queue,        \* judges dispatched this round whose result is not yet read
    missing,      \* <<claim, judge>>: the judge did not report on it this round
    unsettled,    \* open claims _settle_round has not reached yet
    interrupted   \* abort_event

roundVars  == <<active, queue, missing, unsettled>>
recordVars == <<claims, states, signatures, verdicts>>
vars == <<iteration, round, pc, stop, recordVars, tracker, calls, incomplete,
          roundVars, interrupted>>

-----------------------------------------------------------------------------
(* The block of rounds run.py hands to run_rounds.                         *)

LastRound  == iteration * MaxRounds
FinalBlock == iteration = MaxIterations

VotesOn(c)    == {v \in verdicts : v.claim = c}

\* Slip: a deadlocked or discarded claim is taken up again.
OpenUnsettled == {c \in DOMAIN states : states[c] \notin {SettledUpheld, SettledRefuted, Superseded}}

OpenClaims    == {c \in DOMAIN states : states[c] \notin TerminalStates}
Disabled(f)   == tracker[f].disabled

\* Slip: the repeat tracker is not consulted.
EveryFriend == Friends

Dispatchable  == {f \in Friends : ~Disabled(f)}
Slice(f)      == {c \in OpenClaims : f \notin claims[c].origin}

\* Slip: a friend dropped from the round is still asked.
AskDropped == {f \in Friends : Slice(f) # {}}

JudgesToAsk   == {f \in Dispatchable : Slice(f) # {}}

Roster        == active \intersect Independent
NextResult    == CHOOSE f \in queue : TRUE

\* outcome.claims is walked in the order its claims were made; only the
\* order of two versions of one claim is visible, the older first.
NextUnsettled ==
    CHOOSE c \in unsettled :
        \A d \in unsettled : c[1] < d[1] \/ (c[1] = d[1] /\ c[2] <= d[2])

Init ==
    /\ iteration = 1
    /\ round = 2
    /\ pc = "round" /\ stop = "none"
    /\ claims = [c \in DOMAIN Critique |->
                   [origin |-> Critique[c], supersedes |-> NoClaim, round |-> 1, text |-> AsRaised]]
    /\ states = [c \in DOMAIN Critique |-> Contested]
    /\ signatures = [c \in DOMAIN Critique |-> {}]
    /\ verdicts = {}
    /\ tracker = [f \in Friends |-> [last |-> NoFailure, count |-> 0, disabled |-> FALSE]]
    /\ calls = 0
    /\ incomplete = FALSE
    /\ active = Friends /\ queue = {} /\ missing = {} /\ unsettled = {}
    /\ interrupted = FALSE

-----------------------------------------------------------------------------
(* The top of the loop.                                                    *)

Leave(why) ==
    /\ pc' = "stopped" /\ stop' = why
    /\ UNCHANGED <<iteration, round, recordVars, tracker, calls, incomplete,
                   roundVars, interrupted>>

RoundsOver  == pc = "round" /\ round > LastRound /\ Leave("rounds")
Interrupted == pc = "round" /\ round <= LastRound /\ interrupted /\ Leave("interrupted")
AllTerminal ==
    /\ pc = "round" /\ round <= LastRound /\ ~interrupted
    /\ OpenClaims = {}
    /\ Leave("resolved")

Judging == pc = "round" /\ round <= LastRound /\ ~interrupted /\ OpenClaims # {}

\* Every open claim was written by every friend still active: settle them
\* (as claims without a judge) and leave.
Unjudgeable ==
    /\ Judging
    /\ JudgesToAsk = {}
    /\ pc' = "settle" /\ stop' = "unjudgeable"
    /\ active' = Dispatchable
    /\ unsettled' = OpenClaims
    /\ missing' = {}
    /\ UNCHANGED <<iteration, round, recordVars, tracker, calls, incomplete, queue, interrupted>>

WouldExceedCalls(n) == calls + n > MaxCalls

ExhaustCalls ==
    /\ Judging
    /\ JudgesToAsk # {}
    /\ WouldExceedCalls(Cardinality(JudgesToAsk))
    /\ Leave("budget-exhausted")

\* out_of_time, or within_deadline leaving no judge a whole second.
ExhaustTime ==
    /\ Judging
    /\ JudgesToAsk # {}
    /\ ~WouldExceedCalls(Cardinality(JudgesToAsk))
    /\ Leave("budget-exhausted")

Dispatch ==
    /\ Judging
    /\ JudgesToAsk # {}
    /\ ~WouldExceedCalls(Cardinality(JudgesToAsk))
    /\ pc' = "collect"
    /\ active' = Dispatchable
    /\ queue' = JudgesToAsk
    /\ missing' = {}
    /\ UNCHANGED <<iteration, round, stop, recordVars, tracker, calls, incomplete,
                   unsettled, interrupted>>

-----------------------------------------------------------------------------
(* Reading the results of the round, one friend after the other.           *)

\* The last result read, _settle_round begins.
Read(f) ==
    /\ queue' = queue \ {f}
    /\ pc' = IF queue = {f} THEN "settle" ELSE "collect"
    /\ unsettled' = IF queue = {f} THEN OpenClaims ELSE {}

NeverReported(f, cs) == missing' = missing \union (cs \X {f})

\* RepeatTracker.record
Recorded(t, failure) ==
    IF failure = NoFailure
    THEN [last |-> NoFailure, count |-> 0, disabled |-> FALSE]
    ELSE IF failure # t.last
    THEN [t EXCEPT !.last = failure, !.count = 1]
    ELSE [t EXCEPT !.count = t.count + 1, !.disabled = @ \/ t.count + 1 >= 2]

\* What a payload that passed the verdict contract holds: at most one vote
\* per claim id, and nothing keeps the ids to the claims the judge was shown.
Payloads == UNION {[cs -> Ballots] : cs \in (SUBSET DOMAIN claims) \ {{}}}

\* Slip: a vote on any claim is taken.
AcceptedUnshown(f, payload) ==
    {Downgraded([claim |-> c, judge |-> f, round |-> round, kind |-> payload[c].kind,
                 evidence |-> payload[c].evidence, wording |-> payload[c].wording,
                 counter |-> payload[c].counter]) :
        c \in DOMAIN payload}

\* A judge may only rule on what it was shown; the rest is thrown away.
Accepted(f, payload) ==
    {Downgraded([claim |-> c, judge |-> f, round |-> round, kind |-> payload[c].kind,
                 evidence |-> payload[c].evidence, wording |-> payload[c].wording,
                 counter |-> payload[c].counter]) :
        c \in (DOMAIN payload) \intersect Slice(f)}

Answer(f, payload) ==
    LET omitted == Slice(f) \ DOMAIN payload IN
    /\ pc = "collect" /\ f = NextResult
    /\ Read(f)
    /\ verdicts' = verdicts \union Accepted(f, payload)
    /\ NeverReported(f, omitted)
    /\ incomplete' = (incomplete \/ (omitted # {} /\ f \in Independent))
    /\ tracker' = [tracker EXCEPT ![f] = Recorded(@, NoFailure)]
    /\ calls' = calls + 1
    /\ UNCHANGED <<iteration, round, stop, claims, states, signatures, active, interrupted>>

\* auth_abort (looked at first when the round is over) and dispatch_error.
StopAfter(f, reason) ==
    IF stop = "auth" \/ (reason \in AuthReasons /\ f \in Independent) THEN "auth"
    ELSE IF reason \in StopReasons THEN "dispatch-error" ELSE stop

Fail(f, reason) ==
    /\ pc = "collect" /\ f = NextResult
    /\ Read(f)
    /\ NeverReported(f, Slice(f))
    /\ incomplete' = (incomplete \/ f \in Independent)
    /\ tracker' = [tracker EXCEPT ![f] = Recorded(@, reason)]
    /\ calls' = calls + 1
    /\ stop' = StopAfter(f, reason)
    /\ interrupted' = (interrupted \/ reason \in StopReasons)
    /\ UNCHANGED <<iteration, round, recordVars, active>>

\* The abort reached the queued friend before it started: no process, no
\* result, and a judge that never reported.
Withhold(f) ==
    /\ pc = "collect" /\ f = NextResult
    /\ interrupted
    /\ Read(f)
    /\ NeverReported(f, Slice(f))
    /\ incomplete' = (incomplete \/ f \in Independent)
    /\ UNCHANGED <<iteration, round, stop, recordVars, tracker, calls, active, interrupted>>

\* A signal handler, or the operator, sets abort_event.
Interrupt ==
    /\ pc \in {"round", "collect"} /\ ~interrupted
    /\ interrupted' = TRUE
    /\ UNCHANGED <<iteration, round, pc, stop, recordVars, tracker, calls, incomplete, roundVars>>

-----------------------------------------------------------------------------
(* _settle_round: one open claim after the other.                          *)

CurrentSignature(c) == Signature({v \in VotesOn(c) : v.judge \in Roster})

DecidedState(c) ==
    StateFor(claims[c].origin, VotesOn(c), Roster, round, LastRound,
             \E f \in Roster : <<c, f>> \in missing)

SettledState(c) ==
    IF DecidedState(c) = Unproven /\ ShouldDiscard(signatures[c], CurrentSignature(c))
    THEN Discarded
    ELSE DecidedState(c)

\* Slip: the signature survives a round in which the judges engaged.
StickySignature(c) == IF DecidedState(c) = Unproven THEN CurrentSignature(c) ELSE signatures[c]

RememberedSignature(c) == IF DecidedState(c) = Unproven THEN CurrentSignature(c) ELSE {}

Amendments(c) ==
    {v \in LatestPerJudge({w \in VotesOn(c) : w.judge \in Roster}) : v.kind = "amended"}

\* A successor born in the last round of the last block will never be judged.
SuccessorState == IF round >= LastRound /\ FinalBlock THEN Incomplete ELSE Contested

With(f, x, y) == [z \in DOMAIN f \union {x} |-> IF z = x THEN y ELSE f[z]]

Settle(c) ==
    LET s == FreeSuccessorId(c, DOMAIN claims) IN
    IF SettledState(c) = Superseded
    THEN /\ claims' = With(claims, s, Successor(c, claims[c].origin, Amendments(c), round))
         /\ states' = With([states EXCEPT ![c] = Superseded], s, SuccessorState)
         /\ signatures' = With([signatures EXCEPT ![c] = RememberedSignature(c)], s, {})
    ELSE /\ states' = [states EXCEPT ![c] = SettledState(c)]
         /\ signatures' = [signatures EXCEPT ![c] = RememberedSignature(c)]
         /\ UNCHANGED claims

SettleClaim ==
    LET c == NextUnsettled IN
    /\ pc = "settle"
    /\ Settle(c)
    /\ unsettled' = unsettled \ {c}
    /\ IF unsettled # {c}
       THEN UNCHANGED <<round, pc, missing>>
       ELSE /\ missing' = {}
            /\ IF stop = "none" THEN pc' = "round" /\ round' = round + 1
                            ELSE pc' = "stopped" /\ round' = round
    /\ UNCHANGED <<iteration, stop, verdicts, tracker, calls, incomplete, active, queue, interrupted>>

-----------------------------------------------------------------------------

Next ==
    \/ RoundsOver
    \/ Interrupted
    \/ AllTerminal
    \/ Unjudgeable
    \/ ExhaustCalls
    \/ ExhaustTime
    \/ Dispatch
    \/ \E f \in Friends : \/ \E payload \in Payloads : Answer(f, payload)
                          \/ \E reason \in Reasons : Fail(f, reason)
                          \/ Withhold(f)
    \/ SettleClaim
    \/ Interrupt

Spec == Init /\ [][Next]_vars

-----------------------------------------------------------------------------
(* Properties.                                                             *)

Ids      == Nat \X Nat
ClaimType == [origin : SUBSET Friends, supersedes : Ids, round : Nat,
              text : STRING \union {AsRaised}]
VoteType == [claim : Ids, judge : Friends, round : Nat, kind : Kinds,
             evidence : {"none", "confirmed", "disputed", "unverifiable"},
             wording : STRING \X STRING, counter : STRING \X STRING]

TypeOK ==
    /\ iteration \in 1 .. MaxIterations
    /\ round \in Nat
    /\ pc \in {"round", "collect", "settle", "stopped"}
    /\ stop \in {"none", "rounds", "interrupted", "resolved", "unjudgeable",
                 "budget-exhausted", "auth", "dispatch-error"}
    /\ DOMAIN claims \subseteq Ids
    /\ \A c \in DOMAIN claims : claims[c] \in ClaimType
    /\ states \in [DOMAIN claims -> ClaimStates]
    /\ DOMAIN signatures = DOMAIN claims
    /\ verdicts \subseteq VoteType
    /\ tracker \in [Friends -> [last : Reasons \union {NoFailure}, count : Nat, disabled : BOOLEAN]]
    /\ calls \in Nat
    /\ incomplete \in BOOLEAN
    /\ active \subseteq Friends /\ queue \subseteq active
    /\ missing \subseteq (DOMAIN claims) \X Friends
    /\ unsettled \subseteq DOMAIN claims
    /\ interrupted \in BOOLEAN

LatestOn(c) == LatestPerJudge(VotesOn(c))
Voters(c, kind) ==
    {v.judge : v \in {w \in LatestOn(c) : w.kind = kind /\ w.judge \in Independent}}
StillEligible(c) == (Dispatchable \intersect Independent) \ claims[c].origin

\* No vote is ever counted, or even recorded, on a claim by one of its own
\* authors: the judge's slice and the discarding of votes outside it
\* (run_rounds), and the origin a successor inherits (build_successor).
AuthorsNeverJudge == \A v \in verdicts : v.judge \notin claims[v.claim].origin

\* One judge is one vote, however many rounds it spoke in: a claim settles
\* as refuted - the only state that clears a gate - only on two different
\* independent judges, and as upheld only on a quorum of those that can
\* still vote, none of whom says otherwise.
SettledByQuorum ==
    \A c \in DOMAIN states :
        /\ states[c] = SettledRefuted => Cardinality(Voters(c, "refuted")) >= 2
        /\ states[c] = SettledUpheld =>
             /\ Voters(c, "upheld") # {}
             /\ Cardinality(Voters(c, "upheld")) >= QuorumFor(StillEligible(c))
             /\ (Voters(c, "refuted") \union Voters(c, "amended")) \intersect StillEligible(c) = {}

\* A superseded claim has exactly one successor and nothing else has any,
\* so no defect is counted twice or lost between two versions.
OneSuccessor ==
    \A c \in DOMAIN claims :
        Cardinality({s \in DOMAIN claims : claims[s].supersedes = c}) =
            IF states[c] = Superseded THEN 1 ELSE 0

\* The calls made never pass --max-calls, interrupted and failing friends
\* included.  (PaidWithinMaxCalls of ReviewLoop says it of all processes.)
CallsWithinBudget == calls <= MaxCalls

\* Terminal is terminal: a settled claim keeps its state, and no further
\* vote on it is bought.
TerminalIsFinal ==
    [][\A c \in DOMAIN states : states[c] \in TerminalStates =>
          /\ states'[c] = states[c]
          /\ {v \in verdicts' : v.claim = c} = VotesOn(c)]_vars

SameVote(v, w) ==
    /\ v.kind = w.kind /\ v.evidence = w.evidence
    /\ Normalized(v.wording) = Normalized(w.wording) /\ Normalized(v.counter) = Normalized(w.counter)

\* A claim is discarded only when it was already unproven the round before,
\* and every judge that can still vote on it (there is one) voted this round
\* and says what it said before; a silent judge keeps the claim open.
DiscardedOnlyUnchanged ==
    [][\A c \in DOMAIN states : states[c] # Discarded /\ states'[c] = Discarded =>
          /\ states[c] = Unproven
          /\ Roster \ claims[c].origin # {}
          /\ \A f \in Roster \ claims[c].origin :
               \E v, w \in VotesOn(c) :
                   /\ v.judge = f /\ v.round = round
                   /\ w.judge = f /\ w.round < round
                   /\ \A u \in VotesOn(c) : u.judge = f => u.round <= w.round \/ u.round = round
                   /\ SameVote(v, w)]_vars

\* A friend that failed twice the same way is out for the rest of the run:
\* nothing re-enables it, and no vote of its is added.
DisabledStaysOut ==
    [][\A f \in Friends : Disabled(f) =>
          /\ tracker'[f].disabled
          /\ {v \in verdicts' : v.judge = f} = {v \in verdicts : v.judge = f}]_vars
=============================================================================
