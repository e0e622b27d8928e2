# Verification of afriend

afriend asks several coding agents ("friends") to criticise one artifact, has
them judge each other's claims, and reports what survived. This directory holds
TLA+ models of the parts that decide and the parts that keep what was decided -
who may judge, when a claim is settled, when a review is over, what one friend's
process may do to a call, what a run directory looks like when a process dies,
halts or meets another one, and what text all of it was about - with TLC runs
over small instances and proofs, checked by TLAPS, for every value of the
constants. Paths below are relative to `src/src/afriend/`.

## 1. Inventory

| Component | State | Operations | Models |
|---|---|---|---|
| Verdict arithmetic, `verdicts.py` | none (pure) | eligibility, quorum, `state_for`, signatures and discard, rewrites, streak | `Verdicts`, `ReviewLoop` (streak) |
| Cross-examination, `commands/crossexam.py`, `commands/judging.py` | `CrossexamOutcome`: claims, states, signatures, verdicts, `incomplete`, dropped friends | `run_rounds`, `_settle_round` | `Crossexam` |
| Judging batches, `judgebatch.py` and the recovery half of `crossexam.py` | per judge and round: audit, batch; ledger lines | capture, publish, recover, refuse | `JudgeRecovery` implements `JudgingRecord` |
| Orchestrator answers, `commands/resume.py`, `orchestrator.py` | `RESPONSE.json`, its frozen copy, the checkpoint in `run.json`, the ledger | bind, freeze, append, mark, unlink, refuse | `ResponseApply` implements `ApplyOnce` |
| Critique round, `commands/critique.py`, `merge.py`, `reviewstate.py`, `ledger.py` | ledger, claim counter, what could not be parsed | read results, exact merge, reduce the ledger, extraction and merge halts | `CritiqueRound` |
| Review loop and halts, `commands/run.py`, `commands/haltstate.py` | iteration, dry streak, carried outcome, flags of the last critique round | iterate, halt, resume, converge | `ReviewLoop` |
| Repeat failures and ceilings, `failures.py`, `ceilings.py` | tracker, `Budget` | record, disable, snapshot, spend, exhaust | `FriendRound`, `Crossexam`, `ReviewLoop` |
| Round dispatch, `rounds.py`, `dispatch.py` | thread pool, futures, working directories, audit rows, prompts on disk | isolate, submit, work, read, abort, drain, recover, persist | `FriendRound` |
| Confinement, `sandbox.py`, `authority.py`, `trust.py` | none (a decision per friend) | authorise, confine, refuse, claim write protection | `Confinement` |
| Process supervision, `spawn.py`, `procio.py`, `procgroup.py`, `wingroup.py` | child, pump threads, stop event, counters | start, pump, time out, overflow, sweep the group, join, classify | `FriendProcess` implements `OneCall` |
| HTTP transport, `http_transport.py` | helper process, its pipe | ask, poll, stop | `HttpCall` implements `OneCall` |
| Run store, locks, pruning, `runstore.py`, `filelock.py`, `commands/runs.py` | the run directory and `.lock` | create, lock, publish, roll back, prune | `RunDirectory` |
| Events and status, `events.py`, `progress.py`, `commands/status.py` | `events.jsonl` | append, give up, anchor, project | `RunDirectory` |
| Outcomes and gates, `outcomes.py`, `resolutions.py`, `commands/resolve.py` | outcome in `run.json`, resolutions in the ledger | name the end, decide the gate, verify and record a resolution | `Outcomes`, `RunDirectory` |
| Frozen input, `snapshots.py`, `isolation.py`, `commands/environment.py`, `commands/scopeanchor.py` | the copy of the artifact, throwaway commits, snapshot identity and history | copy, commit, bind, re-freeze, record, verify | `FrozenInput` |
| Review context, `reviewcontext.py`, `commands/reviewcontext.py` | composite and sidecar | compose, publish, capture | `ReviewContext` |
| Descriptor-level I/O, roster files, schemas, prompts, reports, CLI | configuration, text | selection, validation, rendering | constants and payload sets of the models above |

How they interact. `cmd_run` (`run.py`) captures the artifact - plain, or a
composite with its sidecar - freezes a copy and a commit of the repository, and
runs iterations: `run_critique` dispatches every friend in a pool of threads,
each thread one call over a process or an HTTP helper, and turns findings into
claims; unless that raises a halt, `run_rounds` dispatches every eligible judge
once per round, reads the results in roster order and settles the open claims.
All share the repeat tracker, the budget, the ledger and an abort event that a
signal handler sets from outside. A halt (`NeedsOrchestrator`) writes the loop's
position to `run.json` and ends the process; `--resume` is a new process that
validates the operator's `RESPONSE.json`, checks that copy and commit are the
ones attested, applies the answer, and continues. The ledger only grows;
`run.json` and the report are replaced atomically one after the other; the event
stream is only appended to; `.lock` keeps writers apart, and status, prune,
resolve and `doctor --gc` look at all of it from outside.

What is hard about it:

- votes of several rounds, of friends that fail, abstain, drop out or author a
  rewrite while the claim is being settled;
- a process that dies between any two writes, and files that cannot be replaced
  together;
- an operator who edits the answer, the artifact, the code or the evidence of a
  context while it is being read;
- a friend that answers, hangs, floods, forks and dies in any order around its
  deadline, and a signal at any moment of a round;
- state that lives in one process and is needed by the next (budget, tracker,
  streak, verdicts, frozen copy), for as many processes as a loop has halts;
- checks made before a lock is taken, and ceilings looked at in several places.

PROJECT.json lists each hazard at its line, with the properties that would
notice it going wrong.

## 2. Modules

**Judging.** `Verdicts` translates the decision table. A claim id is a number
and a version, a vote a record; a wording - of a claim or of the counter-evidence against it -
is a pair of text and layout, because normalisation strips the layout and
agreement compares the text. `Crossexam` is
`run_rounds`: `pc` is `"round"` at the top of the loop, `"collect"` while
results are read, `"settle"` in `_settle_round`, `"stopped"` after. The ways out
of the loop are actions of their own, then come `Dispatch`, the results
(`Answer`, `Fail`, `Withhold`), `SettleClaim` for one claim at a time, and
`Interrupt`, the signal. A payload may vote on any claim, since nothing in its
schema keeps it to the judge's slice. Time is a choice: `ExhaustTime` may happen
wherever the code reads the clock.

**Judging that dies.** `JudgeRecovery` extends it with the files. An audit is
`version` 0 (absent), 1 (written, no batch) or 2 (a complete batch with the
prompt it answers); ledger lines are appended one at a time; `CrashAndResume`
may happen in any state that is not the end and restores memory from the halt
checkpoint. (A run that never halted has no `run.json` and cannot be resumed, so
the runs start from a checkpoint.) `JudgingRecord` is its abstract
specification: an answer is captured whole and once, and only votes of captured
answers are published.

**Answers.** `ResponseApply` is `resume_round_one` up to the judging: choose
which of the two files to read, validate it, bind the halt to it, freeze,
append, mark, retain, unlink; `Crash` between any two, `WriteResponse` for the
operator. `ApplyOnce` is its abstract specification.

**Critique.** `CritiqueRound` reads the results of a critique round friend by
friend. `ReadFindings` numbers the findings, drops what the ledger would refuse
and computes the aliases (`ExactAliases`); `AppendClaim` and `AppendAlias` append
the records one by one, each applied to `review`, the `ReviewState`, as it is
written. Both halts are phases, the answers to them (`ApplyExtraction`,
`ApplyMerges`) hand over records in the same way. `KeyOf` separates a friend's
display name from its identity, and the history variable `home` says which claim
each finding has become part of.

**Loop.** `ReviewLoop` extends `Crossexam` with the iterations: `at` is `"top"`,
`"judging"`, `"halted"` or `"ended"`. `CritiqueRound(results, revised)` is one
critique round, summarised by what each friend came back with (nothing, a claim
of a new theme, a known theme in new words, a known claim, or a failure; a
friend a signal withheld is not in the domain) and by whether the artifact was
edited before it. `Halt` stores what `write_halt` stores, `Resume` starts from
nothing else, `JudgingStep` is any step of `Crossexam`, and `EndIteration` and
`LateAfterResume` are the two tails of an iteration, which check different
things in a different order. A claim of a new theme takes a number of its own
(`Numbering`), whatever the order the friends are read in. The history variables
`rounds`, `edition` and `paid` remember across processes what no process knows.

**One call.** `OneCall` is what a call to a friend promises: one report, an
answer only from a friend that had finished giving it, and no silence. Two
modules implement it. `FriendProcess` is `run_process`: the friend, a child in
its group that may have redirected any of its streams (`hold` is what it kept),
and a descendant outside that kept some pipes (`grip`) are the world; on Windows
a Job Object (`job`) stands for the group, or nothing does; `Hear`,
`Chatter`, `EndOfStream`, `PipeFails`, `Stopped` are the pump threads;
`FriendExited`, `TimesOut`, `Aborted`, `Floods`, `Answered` are the five ways out
of the wait loop in the order the code tests them; then the sweep (`Term`,
`Kill`, `Reap` and their grace periods, or `CaptureKiller` and `WindowsSweep`), `Join`, `Rejoin` and
`Classify`. `HttpCall` is `run_request` with its helper process, polling and
`StopHelper`. Output is counted in units: `Whole` makes an answer, `Ceiling` is
kept, `Parses` says which prefixes `normalize` takes. `Calls` puts the two behind
the choice `_dispatch` makes.

**One round.** `FriendRound` is `dispatch_round` with its caller: the main thread
(`Open`, `Isolate`, `Announce`, `Submit`, `Read`, `Interrupted`, `Recover`,
`Close`, `Classify`, `Persist`) and the workers (`Pick`, `Dispatch`, `Finish`)
over several rounds, with the repeat tracker between them. A friend's call is
one step: `OneCall` is why. `Confinement` is the decision `_dispatch` takes before
the call: an adapter and a host are records of what they declare, and the
operators say who is refused, who is bound by the OS, which flag is dropped and
what the audit row may claim.

**The run directory.** `RunDirectory` has one directory and everybody who touches
it: the run that creates it, resumes, `runs prune`, `resolve`, and (under
`GCSpec`) `doctor --gc`. Each replace, append, lock and unlink is a step; events
may tear, a failed event write makes the reporter give up events for good, a
failed replace of `run.json` rolls the report back, and any process may die
holding the lock. `seen` is what a resume read before it took the lock.
`Outcomes` is the pure part: the precedence of causes, blockers, the gate, and
what a resolution may claim about the place it names.

**The input.** `FrozenInput` follows copy, commit, identity and history of the
artifact through the iterations and processes of one run while the operator
edits the text, retargets the link that names it, and edits the code, and git
collects the throwaway commits. A text is a number. `ReviewContext` is `compose`:
every composer looks at each piece of evidence twice, stages two files and puts
them in place one by one; `Read` and `Take` are a run's two reads. A piece is a
number that every edit makes new, so an edit that restores old bytes between two
looks is not there: two looks at equal bytes cannot tell, and `PublishedIsACut` is
about the bytes only under that assumption. Unfit evidence, an output that names
an input included, is the nondeterministic `Unfit`.

The theorems are in `ReviewLoop_proofs` (about `Crossexam`, `Verdicts` and
`ReviewLoop`), `JudgeRecovery_proofs`, `Intake_proofs` (about `ResponseApply` and
`CritiqueRound`), `Calls_proofs`, `FriendRound_proofs`, `RunDirectory_proofs`,
`ReviewContext_proofs` and `FrozenInput_proofs`; the `MC` modules hold the small
instances. Definitions marked "Slip" are the plausible mistakes the mutation list
of PROJECT.json puts in the place of the definition after them: each property of
a passing run is violated by one of them.

## 3. Runs

| Run | Instance | Shows |
|---|---|---|
| `judging` | two independent friends and an advisory one, a claim of each kind of author, three judging rounds, `MaxCalls` 7 | `TypeOK`, `SettledByQuorum`, `OneSuccessor`, `AuthorsNeverJudge`, `TerminalIsFinal`, `DiscardedOnlyUnchanged`, `DisabledStaysOut` |
| `crash` | two judges, three judging rounds, two deaths anywhere | `SameQuestionEveryTime`, `OutcomeIsReplay`, `OwnFilesAreAccepted`, `ImplementsRecord`, `Ends` |
| `answers` | merges of three claims or extracted findings, two deaths, three edits | `JudgedOnTheWholeAnswer`, `ImplementsApplyOnce`, `UndisturbedFinishes` |
| `merge` | two friends, two iterations, both merge modes | `RaisersAreAuthors`, `OneClaimPerWording` |
| `loop` | two friends, one claim, three iterations of two judging rounds, `MaxCalls` 6, one edit | `ConvergedOnDryRounds`, `PaidWithinMaxCalls`, `SettledUntilRevised`, `OutInEveryProcess` |
| `store` | a run, two resumes, a pruner, one claim; a halt, a death and a failed write | `TerminalMetaHasItsReport`, `HaltsStayAnchored`, `LastEventIsOnDisk`, `ClearGateIsEarned`, `PruneSparesReopenedRuns` |
| `calls` | answers of two units, floods of three, a failing pipe, a child with its streams inherited or redirected, POSIX, Windows with and without a Job Object, HTTP | `SurvivorsAreReported`, `AnAnswerInHandIsKept`, `NoHelperSurvives`, `KeepsThePromise` |
| `round` | three friends of three kinds of adapter, two workers, three rounds, three hosts, a signal or an error | `EveryDispatchIsAudited`, `OnlyTheBrokenAreBenched`, `ProtectionIsReal`, `RoundsEnd` |
| `context` | two composers, six pieces of evidence, three edits, a failure, two runs | `PublishedIsACut`, `SidecarFollowsComposite`, `TakenIsAttested` |
| `frozen` | a loop of three iterations, three edits, two resumes, every scope | `ShownIsOneRevision`, `RevisionsAreRecordable`, `HaltsAreAcceptable` |
| `unparsed`, `reverted` | as small as the case allows | a violation each, see below |

Why the bounds are enough to meet the interesting cases. A quorum is two, so two
judges and an author settle, dispute and rewrite a claim; discarding compares two
consecutive rounds and needs a third to be wrong about it; disabling takes two
failures in a row and a round after them; the ceiling is hit in that third
round, and in `crash` the third has a bench that two failures have shortened. Two
deaths cover a death during the recovery from another. A streak takes
two dry rounds, and a third iteration puts a failed or an unparseable one between
or after them; a text that comes back takes three iterations too. In `store` two
resumes are what it takes to act on one halt twice, and every end is chosen so
that two causes hold at once. In `calls` an answer is two units so that it can be
cut short, and one unit more passes the ceiling; a child has kept all of its pipes or
none, and the one outside the group an output pipe, because each pump is judged
by itself. In `judging` the ballots bring one text of counter-evidence and none
upholds: a fourth ballot takes the run past its time, and `DiscardNeedsRepetition`
and `SettledNeedsQuorum` are proved for every ballot. In `round` two workers and three
friends leave one queued. Every other bound (`MaxCrashes`, `MaxEdits`,
`MaxFaults`, `MaxFailures`, `MaxErrors`, `MaxClaims`, `MaxRevisions`,
`MaxMerges`, `Patience`) is a constant that only limits how much TLC explores.

Deadlock is not checked where the system stops for good: a finished review, a
halt nobody answers, a refused resume, a call that has returned.

Fairness. `JudgeRecovery` assumes `WF(RProgress)`: a friend that does not answer
is killed at its timeout, so every step of a living process is eventually taken,
and whoever runs afriend re-runs `--resume` after a death; crashes and refusals
are no part of it. `ResponseApply` assumes the same of `Progress`, and its
liveness property excepts an operator who edits the file behind the checkpoint.
`Calls` assumes that the thread in `run_process` goes on (its waits are all
bounded by the deadline or a grace period, whose passing is such a step), that a
pump hears what is there, sees the end of a stream or the stop event, and the
same of the HTTP caller; nothing at all is assumed of the friend, its
descendants or the server. `FriendRound` assumes that the main thread and every
worker go on, which is what `Calls` shows of a call. No other run uses fairness.

### Where the code and its own words part

Two are runs of the project:

- `unparsed`: the flags a halt saves are reset before the loop and not in it; a
  dry iteration followed by one whose output cannot be parsed converges
  (`run.py:332-338`).
- `reverted`: a loop over a document that reviews a text, another, and the first
  again cannot write its `run.json` (`snapshots.py:518`), because only an
  explicit scope may name a revision twice; the run ends without a report.

Further configurations, whose properties TLC finds violated; they are kept beside
the runs and started the same way (`MCCalls_words`, which has three, with
`-continue`):

| Configuration | Property | What the code does |
|---|---|---|
| `MCJudgeRecovery_omission` | `OmissionMarksRun` | an omission read back from a batch does not mark the run incomplete, though the same omission read live does (`crossexam.py:341`, `561`) |
| `MCResponseApply_oversized` | `OneBadRecordCostsOneRecord` | one extracted finding over the ledger's line limit blocks the whole answer in every later resume (`resume.py:527`) |
| `MCCritiqueRound_extracted` | `ExtractedKeepAuthorship` | the claim an orchestrator extracts is credited to the friend's display name, judges are excluded by `friend_key` (`critique.py:265`, `resume.py:512-515`) |
| `MCReviewLoop_revised` | `SettledOnThisText` | a resumed loop takes back votes given on an earlier edition of the artifact, which the loop had put aside (`haltstate.py:58`, `environment.py:265`) |
| `MCRunDirectory_reopened` | `FinishedStaysFinished` | `restore_args` reads `run.json` before the lock is taken; a second resume that waited writes its stale copy over a finished run (`run.py:158`, `resume.py:270`), while the design says that the second is refused |
| `MCRunDirectory_gc` | `CollectedMeansDied` | `doctor --gc` collects a directory without a report, also one a process is still working in (`doctor.py:41-64`) |
| `MCCalls_words` | `NoSurvivorIsSilent` | without a Job Object, a child that redirected its output outlives a friend that has exited and nobody says so: `taskkill` no longer finds the friend, which counts as the ordinary end (`wingroup.py:327`, from `spawn.py:471`), and no pipe is held. The design (14.1) says "The runner verifies no descendants survive and records orphans" |
| `MCCalls_words` | `StoppedFriendIsNotJudged` | a friend stopped after answering that exits with a status of its own is reported as a failed exit (`spawn.py:625`, `662`) |
| `MCCalls_words` | `TimeoutLimitsTheRequest` | a server that keeps sending resets the socket's timeout, so a request may outlast its own |
| `MCFrozenInput_refrozen` | `TheCopyIsTheOneAttested` | the iteration after a resumed one overwrites the copy `run.json` attests; a death or a refusal there leaves a run no resume accepts (`run.py:508`, `environment.py:274`) |

Smaller ones met on the way: `should_discard` looks only at unchanged
signatures, while `verdicts.py:56-57` says that discarded means nobody could
check; calls of a judging round lost to a crash are made again uncounted, while
the design (7.4) counts re-invocations; the answer's digest is checkpointed
before its bytes are frozen, while `resume.py:259` says the opposite; a critique
round a signal cut short counts as dry if the friends that did answer said
nothing new, though the run then ends as interrupted; `resolve` prints "gate
clear" from the list of blockers alone (`resolve.py:339-351`), which
`outcomes.py:416` warns against; the terminal event of a ceiling offers "resume",
which a terminal run refuses; a `--resume` refused after its `run_started` leaves
`status` at "live" (`progress.py:210`); the row of a friend refused for want of
confinement still carries its declared write protection; a group that cannot be
killed for lack of permission ends as "exit None"; in `_run_worker` a result
delivered between the poll and the check that the helper lives is discarded; a
revision that is no UTF-8 leaves the old hash in `run.json` beside the new bytes;
and an artifact edited between copy and commit strands a loop without a report.

## 4. Proofs

Every theorem is for all values of its module's constants, from the assumptions
those modules name: rosters are finite, authors are friends, ids are pairs of
naturals of which a critique makes no two versions, sentinels are no data, an
answer is a sequence, a host is POSIX or Windows, a budget is used up by one of
its two ceilings or by none. Two theorems assume more, each said where it is
used: `AnswersAreKept` that a whole answer parses, `RevisionsAreRecorded` that a
document is not restored. No property below is inductive as it stands; what
makes it so is the column "rests on". Every strengthening was checked by TLC on
the run of its module before it was proved.

### Judging and the loop (`ReviewLoop_proofs`)

Settling a claim indexes the functions by a claim that must exist, and building
a successor must extend their domains by an id that is new. So `Inv` adds
`Bookkeeping` to `TypeOK`: the claims are finitely many (a free successor id
exists: `FreeSuccessorIsFree`, by `LeastNatural`), the queue is non-empty exactly
while results are read, the unsettled claims are open, votes are on claims.
`SettleFacts` says what settling one claim does, `StateForType` and
`SupersededOnARewrite` what the decision table returns. `InvHolds` is the
inductive theorem.

| Theorem | States | Rests on |
|---|---|---|
| `TypeCorrect` | `TypeOK` | conjunct of `Inv` |
| `NoAuthorJudges` | `AuthorsNeverJudge` | origins never change, votes come only from slices |
| `SettledForGood` | `TerminalIsFinal` | only open claims are voted on or settled, and a successor's id is new |
| `SettledNeedsQuorum` | `SettledByQuorum` | `Bench`: nobody speaks twice in a round, and nobody joins those it was opened with; then the newest votes the table counted are still the newest, of judges who may vote |
| `DiscardNeedsRepetition` | `DiscardedOnlyUnchanged` | `EveryJudgeReports`: who has neither voted nor still runs is on record as silent; `SignaturesAreVotes`: a remembered entry is the judge's newest vote but this round's |
| `BudgetKept` | `CallsWithinBudget`, which `loop` checks of all processes as `PaidWithinMaxCalls` | `PaidFor`: calls made and still running fit the ceiling |
| `DisabledForGood` | `DisabledStaysOut` | `QueueDispatchable` |
| `SuccessorUnique` | `OneSuccessor` | `Lineage`: who succeeds whom, without counting |

`LoopInv` says that every block of judging rounds starts in `Inv`
(`StartBlockInv`), that the ledger's votes are on claims there are, and that what
a halt leaves in `run.json` is what was in memory (`HaltTyped`). A step of a block
is then a step the first half has spoken about, and only the critique, the halt,
the resume and the two tails of an iteration need a proof of their own.

| Theorem | States | Rests on |
|---|---|---|
| `BudgetKeptOverProcesses` | `PaidWithinMaxCalls` | `PaidAsCounted`: the process' counter is what all processes have paid, because a halt stores it before it dies |
| `SettledOverProcesses` | `SettledUntilRevised` | a critique adds claims and keeps states, a resume carries them or starts a new edition |
| `OutOverProcesses` | `OutInEveryProcess` | the tracker is stored and restored whole |
| `ConvergenceIsEarned` | `ConvergedOnDryRounds` | `StreakCounts`: a streak is that of the rounds just read, by what this process saw or what the halted one stored; `LeftOnce` |

Rounds that could not be parsed count as dry in it, since the code counts them:
that is what the run `unparsed` is about.

### Judging that dies (`JudgeRecovery_proofs`)

`AnswersAreCapturedOnce` is the refinement to `JudgingRecord`, from `FileInv`
alone: a batch is never written again, and every vote in the ledger or on its way
there is in the batch of its judge and round (`Published`).

The other three compare the process and the disk with the replay of the disk:
`Replay(audits)[r]` is the memory an uninterrupted run begins round `r` with, if
its judges give the answers on disk. It is a recursive function over rounds, so
what it returns is proved for every round by the round before: `ReplayUnfolds`
that it satisfies its recursion (`RoundAfterRound` stands in for an induction),
`ReplayLooksBack` that it reads no later answer, `CourseShaped` that a claim has
one open version, its newest - which is where `NumberingAssumption` is needed:
the critique round numbers its claims, and makes no later versions.

| Theorem | States | Rests on |
|---|---|---|
| `ResumedAsReplayed` | `OutcomeIsReplay` | `Here`: at every point of a round the process holds what the replay gives for that point; settled so far, a memory is `Midway` between two of the replay's |
| `SameQuestion` | `SameQuestionEveryTime` | `Posed`: a question asked is that of the replay, and its round began with something final |
| `OwnFilesAccepted` | `OwnFilesAreAccepted` | `Filed`, `Rewrites`: prompts, omissions and successors on disk are the replay's too, so a process on the replay finds what it would write itself |

`Kept` is inductive: `FileInv`, `Claimed` (the critique's claims are as they were
raised), `Disk` and `Here`. It needs two observations. What a round begins with is
final once the rounds before it are over (`Frozen`): a process in a later round
has read every judge of the earlier ones, a batch is never written again, and so
no step changes the replay up to the first round still open (`FrozenStays`). And a
process that begins again with empty repeat counts has those of the replay,
although it does not see failures: a failure on disk makes a resume refuse, so
where there are files of the round or of a later one nobody has failed
(`AheadOf => NobodyFailed`).

### What comes in (`Intake_proofs`)

| Theorem | States | Rests on |
|---|---|---|
| `WholeAnswersAreJudged` | `JudgedOnTheWholeAnswer` | `Binding`, `Keeping`: whoever works on an answer works on the bytes the halt is bound to, and each place was reached with everything before it done |
| `AnswersAreAppliedOnce` | `ImplementsApplyOnce`, the refinement | `Beginning`: the ledger is the beginning of that answer |
| `RaisersStayAuthors` | `RaisersAreAuthors` | `Numbered`: a number is given once, also after a resume takes the highest in the ledger for the last; `Pointing`: an alias on its way points at what stays; `AtHome`, `Authored` |
| `WordingsAreJudgedOnce` | `OneClaimPerWording` | `Single`: of the claims that are not going away, recorded or on their way, no two are worded alike |

### One call and one round (`Calls_proofs`, `FriendRound_proofs`)

| Theorem | States | Rests on |
|---|---|---|
| `NobodyIsPassedOver` | `SurvivorsAreReported` | `Sweeping`: the sweep looks at a tracked group once more before it is over, and nothing joins a group whose friend is gone; `Pumps`: a pump ends only if nobody is at the other end of its pipe, it failed, or it was told to stop, which is reported. A child nobody tracks and that holds no pipe is not covered: `NoSurvivorIsSilent` above |
| `HelpersAreStopped` | `NoHelperSurvives` | `Helping`: every way out of the loop goes through the stop |
| `AnswersAreKept` | `AnAnswerInHandIsKept` | `Hearing`; assumes `Whole .. Ceiling \subseteq Parses`: what a friend says after a complete answer, up to the ceiling, leaves it readable. That is the contract of the envelopes that can tell: under `json_path` stdout is exactly one object, under `ndjson` a terminal event ends it; a friend that breaks it loses its answer |
| `CallsReportOnce` | the safety half of `KeepsThePromise` | a step of either transport is a step of `OneCall` or none, and nothing moves after the report (`Still`) |
| `DispatchesAreAudited` | `EveryDispatchIsAudited` | `Pool`: when the pool is down, what crossed the dispatch boundary has been read; `Files`: who did not cross was stopped by the abort |
| `BenchedForAStreak` | `OnlyTheBrokenAreBenched` | `Streaks`: a counter of the tracker counts rows of consecutive rounds |
| `RowsClaimWhatHeld` | `ProtectionIsReal` | `Guarded`: a friend that ran had passed the decision of `Confinement` |

### The run directory (`RunDirectory_proofs`)

What is on disk depends on what some process is about to do. `Inv` has `Shape`;
`Holding`, whoever is past the lock holds it, so that one process at a time
replaces files; `Pairing`, what is about to be written goes with what is there;
and `Anchoring`, the first line of the stream, once written, stays, and nobody but
the fresh run goes on without it. `Alone` says that two processes are never past
the lock together.

| Theorem | States | Rests on |
|---|---|---|
| `TerminalRunsAreReported` | `TerminalMetaHasItsReport` | `Pairing` |
| `HaltsAreResumable` | `HaltsStayAnchored` | `Anchoring` |
| `PruneIsSafe` | `PruneSparesReopenedRuns` | the pruner checks again under the lock, and `Alone` |
| `LastEventIsTrue` | `LastEventIsOnDisk` | `Saying`: who works under the lock has announced itself and says nothing before it is on disk |
| `ClearGatesAreEarned` | `ClearGateIsEarned` | `Gating`: the ledger grows only while `run.json` claims nothing, and "completed" is named only when no cause before it holds (`CompletedIsLast`) |

### The input (`ReviewContext_proofs`, `FrozenInput_proofs`)

A composite was all there at one moment: the end of the first look. `Between` says
that nothing was newer then than what was captured, nor older than what has been
compared since; `EveryPieceIsLookedAt` says of the sequences that both looks take
every piece; `SecondLookCompares` keeps the moment and `ConfirmedIsACut` uses it
up. The argument needs that a piece never returns to an earlier value, which is
the assumption named in section 2.

| Theorem | States | Rests on |
|---|---|---|
| `CompositesAreCuts` | `PublishedIsACut` | what is staged passed both looks |
| `SidecarsFollow` | `SidecarFollowsComposite` | a composer that has placed its composite still holds it |
| `FrozenPairsAgree` | `TakenIsAttested` | the sidecar in hand was published, whatever has been replaced |
| `PromptAndCommitAgree` | `ShownIsOneRevision` | identities hold the text they were taken with, and the copy is the identity's near a dispatch (`Settled`): `Check` compares commit with copy, a resume compares copy with identity |
| `HaltsAreTaken` | `HaltsAreAcceptable` | `Record`: from a halt to its answer nothing writes the copy or the sidecar |
| `RevisionsAreRecorded` | `RevisionsAreRecordable` | `Chained`: commits only grow, and a text without a commit is either the one under review or new; assumes that no edit brings an old text of a plain document back - the run `reverted` shows what happens then |

### Only model-checked

Every invariant and every action property of the runs is a theorem. Liveness -
`Ends`, `RoundsEnd`, `UndisturbedFinishes` and that a call is eventually
reported - is out of the prover's reach, which knows neither fairness nor
ENABLED.

## 5. Not modelled

Text and I/O: prompts, reports, schemas, roster and provider files, the CLI.
Their effect on the review is a payload, a friend's key, a capability or a
failure, all enumerated. Atomic replacement of one file (`secureio.py`) is taken
as a step. Left out of what is modelled: torn ledger lines (the code refuses
them), advisory-lens claims in the loop's termination test, successors in
`CritiqueRound`, follow mode of `status`, the assembly of worktrees, the text of
sandbox policies.

## 6. Plan

1. `ReviewLoop`: advisory claims, and a refinement to an abstract loop that knows
   one process only.
2. `CritiqueRound`: successors, and its refinement from `FriendRound`'s results.
3. `Follow`: `status --follow` reading the stream while it is appended to.
4. `Roster`: selection of friends, qualification and readiness as a decision
   table like `Confinement`.
