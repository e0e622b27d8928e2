---------------------------- MODULE RunDirectory ----------------------------
(***************************************************************************)
(* One run directory and every process that touches it: the run that makes *)
(* it, the resumes, a pruner, the collector of doctor --gc, and afriend    *)
(* resolve.  Files are replaced atomically one by one, the event stream is *)
(* appended to and may tear, the lock is released by whatever ends its     *)
(* holder, and restore_args reads run.json before the lock is taken.       *)
(* Code: src/afriend/runstore.py, events.py, progress.py, commands/run.py, *)
(* runmeta.py, haltstate.py, runs.py, resolve.py, doctor.py, status.py.    *)
(***************************************************************************)
EXTENDS Outcomes

CONSTANTS
    Fresh,        \* the run that makes the directory
    Resumes,      \* the invocations of --resume
    Pruner,       \* the invocation of runs prune --confirm
    Nobody,       \* holds the lock
    Claims,       \* what the friends may find
    Mode,         \* --mode
    Endings,      \* what an end may have observed
    Sites,        \* the places a resolution may name
    MaxHalts,     \* bound on the halts
    MaxCrashes,   \* bound on the deaths
    MaxFaults     \* bound on the failed event writes and replaces

Runs == {Fresh} \union Resumes

ASSUME ActorsAssumption ==
    /\ Fresh \notin Resumes /\ Pruner \notin Runs /\ Nobody \notin Runs \union {Pruner}
ASSUME RecordsAssumption ==
    /\ Advisory \subseteq Claims /\ Mode \in {"report", "crossexam", "gate", "loop"}
    /\ MaxHalts \in Nat /\ MaxCrashes \in Nat /\ MaxFaults \in Nat
\* Budget.exhausted_by names one of the two ceilings or nothing.
ASSUME EndingsAssumption ==
    Endings \subseteq [mode : {Mode}, signalled : BOOLEAN, error : BOOLEAN,
                      budget : {"none", "max-calls", "max-wall-clock"}, exhausted : BOOLEAN,
                      converged : BOOLEAN, auth : BOOLEAN, success : BOOLEAN,
                      quorumFailed : BOOLEAN, incomplete : BOOLEAN]

VARIABLES
    dir,       \* the directory: "none", "here", "staged" by a prune, "gone"
    meta,      \* run.json; halt counts the halts it has been through
    answers,   \* for each halt: RESPONSE.json ("live"), RESPONSE.json.applied
    report,    \* report.md: "none", "halt", "final"
    events,    \* events.jsonl: its complete lines, and whether a torn one follows
    rounds,    \* a round directory is there
    ledger,    \* the claims of claims.jsonl
    resolved,  \* the claims with a Resolution in claims.jsonl
    lock,      \* who holds .lock
    pc,        \* where each process stands
    seen,      \* _resume_meta: the run.json a resume read, with what it wrote since
    writing,   \* reporter.event_writer is not None
    closing,   \* the outcome and the prior report a finishing run holds
    reopened,  \* history: a resume has written over what it had not read
    fixes,     \* history: the sites of accepted "fixed" resolutions
    faults,    \* history: the failed writes
    crashes    \* history: the deaths

disk == <<dir, meta, answers, report, events, rounds, ledger, resolved>>
hist == <<reopened, fixes, faults, crashes>>
mem  == <<seen, writing, closing>>
vars == <<disk, lock, pc, mem, hist>>

NoStates == [c \in Claims |-> "contested"]
NoEnding == [mode |-> Mode]
NoMeta   == [life |-> "none", halt |-> 0, reason |-> "none", exit |-> 0, gate |-> "none",
             states |-> NoStates, ending |-> NoEnding]
NotClosing == [outcome |-> NoMeta, prior |-> "none"]

Init ==
    /\ dir = "none" /\ meta = NoMeta /\ report = "none"
    /\ answers = [h \in 1 .. MaxHalts |-> {}]
    /\ events = [lines |-> <<>>, torn |-> FALSE]
    /\ rounds = FALSE /\ ledger = {} /\ resolved = {}
    /\ lock = Nobody
    /\ pc = [p \in Runs \union {Pruner} |-> "idle"]
    /\ seen = [p \in Runs |-> NoMeta]
    /\ writing = [p \in Runs |-> TRUE]
    /\ closing = [p \in Runs |-> NotClosing]
    /\ reopened = FALSE /\ fixes = {} /\ faults = 0 /\ crashes = 0

-----------------------------------------------------------------------------
(* The event stream.                                                       *)

\* EventWriter.append: whole lines, but behind a torn one the line it writes
\* and the fragment are one line, complete and unreadable.
Appended(log, line) ==
    [lines |-> Append(log.lines, IF log.torn THEN "broken" ELSE line), torn |-> FALSE]
Tearing(log) == {log, [log EXCEPT !.torn = TRUE]}

\* read_events
Readable(log) == \A i \in DOMAIN log.lines : log.lines[i] # "broken"

\* read_first_event and _validate_repository_scope_anchor
Anchored(log) == log.lines # <<>> /\ log.lines[1] = "run_started"

\* _latest_invocation
Latest(log) ==
    LET starts == {i \in DOMAIN log.lines : log.lines[i] = "run_started"}
        from   == IF starts = {} THEN 1 ELSE CHOOSE i \in starts : \A j \in starts : j <= i
    IN  SubSeq(log.lines, from, Len(log.lines))

\* _state of commands/status.py
Status ==
    LET latest == Latest(events)
    IN  CASE \E i \in DOMAIN latest : latest[i] \in {"finished", "halted"} -> "terminal"
          [] latest # <<>>                         -> "live"
          [] meta.life = "terminal"                -> "terminal"
          [] meta.life = "waiting-for-orchestrator" -> "halted"
          [] OTHER                                 -> "unknown"

\* _eligible; a run whose stream cannot be read is skipped with a warning.
Eligible == Readable(events) /\ Status = "terminal" /\ meta.life = "terminal"

-----------------------------------------------------------------------------
(* Leaving.                                                                *)

Free(p) == IF lock = p THEN Nobody ELSE lock

Leave(p) ==
    /\ pc' = [pc EXCEPT ![p] = "out"]
    /\ lock' = Free(p)
    /\ closing' = [closing EXCEPT ![p] = NotClosing]
    /\ UNCHANGED <<seen, writing>>

\* holds_durable_work
DurableWork == rounds \/ ledger # {}

\* cmd_run's outer except, and remove_partial_run
RemovesPartialRun(p) == p = Fresh /\ dir = "here" /\ meta = NoMeta /\ ~DurableWork

\* An error nobody handles ends the process; no event says so.
Fail(p) ==
    /\ dir' = IF RemovesPartialRun(p) THEN "gone" ELSE dir
    /\ Leave(p)
    /\ UNCHANGED <<meta, answers, report, rounds, ledger, resolved, reopened, fixes, crashes>>

-----------------------------------------------------------------------------
(* Getting hold of the directory.                                          *)

Step(p, from, to) == pc[p] = from /\ pc' = [pc EXCEPT ![p] = to]

\* RunStore.__init__ of a fresh run, and its copy of the artifact.
Create ==
    /\ Step(Fresh, "idle", "ready")
    /\ dir = "none" /\ dir' = "here"
    /\ UNCHANGED <<meta, answers, report, events, rounds, ledger, resolved, lock, mem, hist>>

\* validate_lifecycle_and_snapshot
Resumable(life) ==
    life \in {"waiting-for-orchestrator", "response-applying", "response-applied"}

\* restore_args: everything the resume goes by is read here, before the lock.
Restore(p) ==
    /\ p \in Resumes /\ Step(p, "idle", "ready")
    /\ dir = "here" /\ Resumable(meta.life)
    /\ seen' = [seen EXCEPT ![p] = meta]
    /\ UNCHANGED <<disk, lock, writing, closing, hist>>

\* RunStore.lock
TakeLock(p) ==
    /\ Step(p, "ready", "locked")
    /\ dir = "here" /\ lock = Nobody
    /\ lock' = p
    /\ UNCHANGED <<disk, mem, hist>>

\* RunLocked, or the directory is no longer there.
LoseLock(p) ==
    /\ pc[p] = "ready" /\ (lock # Nobody \/ dir # "here")
    /\ Fail(p)
    /\ UNCHANGED <<events, faults>>

\* Slip: no run needs its first event on disk.
NobodyRequires(p) == FALSE

\* run_started(required = resume_meta is None)
Requires(p) == p = Fresh

\* A resume turns to the answer it was called for, a fresh run to its friends.
Begin(p) == IF p = Fresh THEN "running" ELSE "answering"

\* A resume validates the anchor first; then the invocation announces itself.
Announce(p) ==
    /\ Step(p, "locked", Begin(p))
    /\ p \in Resumes => Anchored(events)
    /\ events' = Appended(events, "run_started")
    /\ UNCHANGED <<dir, meta, answers, report, rounds, ledger, resolved, lock, mem, hist>>

\* The append fails, perhaps half way: fatal for a fresh run, and for any
\* other the end of its events.
AnnounceFails(p) ==
    /\ pc[p] = "locked" /\ faults < MaxFaults
    /\ p \in Resumes => Anchored(events)
    /\ faults' = faults + 1
    /\ events' \in Tearing(events)
    /\ IF Requires(p)
       THEN Fail(p)
       ELSE /\ pc' = [pc EXCEPT ![p] = Begin(p)]
            /\ writing' = [writing EXCEPT ![p] = FALSE]
            /\ UNCHANGED <<dir, meta, answers, report, rounds, ledger, resolved, lock, seen, closing,
                           reopened, fixes, crashes>>

-----------------------------------------------------------------------------
(* The review, seen from its directory.                                    *)

\* A round is dispatched; its friends' claims reach the ledger.
Dispatch(p) ==
    /\ pc[p] = "running" /\ dir = "here" /\ rounds = FALSE
    /\ rounds' = TRUE
    /\ UNCHANGED <<dir, meta, answers, report, events, ledger, resolved, lock, pc, mem, hist>>

Record(p) ==
    /\ pc[p] = "running" /\ dir = "here" /\ rounds
    /\ \E c \in Claims \ ledger : ledger' = ledger \union {c}
    /\ UNCHANGED <<dir, meta, answers, report, events, rounds, resolved, lock, pc, mem, hist>>

\* _validated_response_checkpoint: the run.json the resume read says that this
\* answer has been bound.
Checkpointed(p) == seen[p].life # "waiting-for-orchestrator"

\* _prepare_response: without a checkpoint only a live answer will do; with one
\* either file will.
Answerable(p) ==
    IF Checkpointed(p) THEN answers[seen[p].halt] # {} ELSE "live" \in answers[seen[p].halt]

\* What a resume writes is the run.json it holds in memory, changed.
Rewrite(p, life) ==
    /\ seen' = [seen EXCEPT ![p].life = life]
    /\ meta' = [seen[p] EXCEPT !.life = life]

\* _checkpoint_response_preparation; a bound answer is not bound again.
BindResponse(p) ==
    /\ Step(p, "answering", IF Checkpointed(p) THEN "applying" ELSE "bound")
    /\ dir = "here" /\ Answerable(p)
    /\ IF Checkpointed(p) THEN UNCHANGED <<seen, meta>> ELSE Rewrite(p, "response-applying")
    /\ UNCHANGED <<dir, answers, report, events, rounds, ledger, resolved, lock, writing,
                   closing, hist>>

\* _materialize_response
Materialize(p) ==
    /\ Step(p, "bound", "applying") /\ dir = "here"
    /\ answers' = [answers EXCEPT ![seen[p].halt] = @ \union {"applied"}]
    /\ UNCHANGED <<dir, meta, report, events, rounds, ledger, resolved, lock, mem, hist>>

\* The records are in the ledger: _checkpoint_response_application
ApplyResponse(p) ==
    /\ Step(p, "applying", "applied") /\ dir = "here"
    /\ Rewrite(p, "response-applied")
    /\ reopened' = (reopened \/ meta.life = "terminal" \/ meta.halt # seen[p].halt)
    /\ UNCHANGED <<dir, answers, report, events, rounds, ledger, resolved, lock, writing,
                   closing, fixes, faults, crashes>>

\* _mark_response_consumed
ConsumeResponse(p) ==
    /\ Step(p, "applied", "running") /\ dir = "here"
    /\ answers' = [answers EXCEPT ![seen[p].halt] = {"applied"}]
    /\ UNCHANGED <<dir, meta, report, events, rounds, ledger, resolved, lock, mem, hist>>

\* An AfError: there is no anchor, the snapshot is gone, the answer is missing
\* or spent, the roster is unusable, ...
Refuse(p) ==
    /\ pc[p] \in {"locked", "answering", "running"}
    /\ Fail(p)
    /\ UNCHANGED <<events, faults>>

\* write_halt: run.json, then report.md, then the event.
HaltMeta(p) ==
    /\ Step(p, "running", "halting") /\ dir = "here"
    /\ seen[p].halt < MaxHalts
    /\ meta' = [NoMeta EXCEPT !.life = "waiting-for-orchestrator", !.halt = seen[p].halt + 1,
                             !.states = meta.states]
    /\ UNCHANGED <<dir, answers, report, events, rounds, ledger, resolved, lock, mem, hist>>

HaltReport(p) ==
    /\ Step(p, "halting", "halted") /\ dir = "here"
    /\ report' = "halt"
    /\ UNCHANGED <<dir, meta, answers, events, rounds, ledger, resolved, lock, mem, hist>>

\* finish_run replays the ledger and decides the outcome.
Conclude(p) ==
    /\ Step(p, "running", "closing") /\ dir = "here"
    /\ \E e \in Endings, verdicts \in [ledger -> ClaimStates] :
         LET states == [c \in Claims |-> IF c \in ledger THEN verdicts[c] ELSE "contested"]
         IN  closing' = [closing EXCEPT ![p] =
                           [outcome |-> Outcome(e, ledger, states, resolved), prior |-> report]]
    /\ UNCHANGED <<disk, lock, seen, writing, hist>>

\* The run.json of a finished run.
Final(p) ==
    [f \in DOMAIN NoMeta |-> IF f = "halt" THEN seen[p].halt ELSE closing[p].outcome[f]]

\* Slip: the last event is written before the last file.
CloseSaying(p) ==
    /\ Step(p, "closing", "reported") /\ dir = "here"
    /\ report' = "final" /\ events' = Appended(events, "finished")
    /\ UNCHANGED <<dir, meta, answers, rounds, ledger, resolved, lock, mem, hist>>

\* Slip: run.json is replaced first.
CloseBackwards(p) ==
    /\ Step(p, "closing", "reported") /\ dir = "here"
    /\ meta' = Final(p)
    /\ UNCHANGED <<dir, answers, report, events, rounds, ledger, resolved, lock, mem, hist>>

\* write_terminal_artifacts: the report first, run.json second.
CloseReport(p) ==
    /\ Step(p, "closing", "reported") /\ dir = "here"
    /\ report' = "final"
    /\ UNCHANGED <<dir, meta, answers, events, rounds, ledger, resolved, lock, mem, hist>>

CloseMeta(p) ==
    /\ Step(p, "reported", "closed") /\ dir = "here"
    /\ meta' = Final(p)
    /\ UNCHANGED <<dir, answers, report, events, rounds, ledger, resolved, lock, mem, hist>>

\* The second replace fails: the old report is put back.
RollBack(p) ==
    /\ pc[p] = "reported" /\ dir = "here" /\ faults < MaxFaults
    /\ faults' = faults + 1
    /\ report' = closing[p].prior
    /\ Leave(p)
    /\ UNCHANGED <<dir, meta, answers, events, rounds, ledger, resolved, reopened, fixes, crashes>>

\* run_finished, then the process ends.
LastWord(p) == IF pc[p] = "halted" THEN "halted" ELSE "finished"

SayFinished(p) ==
    /\ pc[p] \in {"halted", "closed"}
    /\ events' = IF writing[p] /\ dir = "here" THEN Appended(events, LastWord(p)) ELSE events
    /\ Leave(p)
    /\ UNCHANGED <<dir, meta, answers, report, rounds, ledger, resolved, hist>>

SayFinishedFails(p) ==
    /\ pc[p] \in {"halted", "closed"} /\ writing[p] /\ faults < MaxFaults
    /\ faults' = faults + 1
    /\ events' \in Tearing(events)
    /\ Leave(p)
    /\ UNCHANGED <<dir, meta, answers, report, rounds, ledger, resolved, reopened, fixes, crashes>>

\* The directory went from under a writer.
Stranded(p) ==
    /\ pc[p] \notin {"idle", "ready", "out", "halted", "closed"} /\ dir # "here"
    /\ Fail(p)
    /\ UNCHANGED <<events, faults>>

\* A kill, at any point; in the middle of an append it tears the line.
Crash(p) ==
    /\ pc[p] \notin {"idle", "out"} /\ crashes < MaxCrashes
    /\ crashes' = crashes + 1
    /\ events' \in IF pc[p] \in {"locked", "halted", "closed"} /\ dir = "here"
                   THEN Tearing(events) ELSE {events}
    /\ Leave(p)
    /\ UNCHANGED <<dir, meta, answers, report, rounds, ledger, resolved, reopened, fixes, faults>>

-----------------------------------------------------------------------------
(* Everybody else.                                                         *)

\* _candidates: the probe takes the lock for an instant.
Probe ==
    /\ Step(Pruner, "idle", "probing") /\ dir = "here"
    /\ lock = Nobody /\ lock' = Pruner /\ Eligible
    /\ UNCHANGED <<disk, mem, hist>>

ProbeEnds ==
    /\ Step(Pruner, "probing", "picked") /\ lock' = Nobody
    /\ UNCHANGED <<disk, mem, hist>>

\* _delete
PruneLock ==
    /\ Step(Pruner, "picked", "checking") /\ dir = "here"
    /\ lock = Nobody /\ lock' = Pruner
    /\ UNCHANGED <<disk, mem, hist>>

\* Slip: the preview's selection is trusted.
StageAtOnce ==
    /\ Step(Pruner, "checking", "staged")
    /\ dir' = "staged"
    /\ UNCHANGED <<meta, answers, report, events, rounds, ledger, resolved, lock, mem, hist>>

\* Under the lock everything is read again before the rename.
Stage ==
    /\ Step(Pruner, "checking", "staged") /\ Eligible
    /\ dir' = "staged"
    /\ UNCHANGED <<meta, answers, report, events, rounds, ledger, resolved, lock, mem, hist>>

GiveUpPrune ==
    /\ \/ pc[Pruner] = "picked" /\ (lock # Nobody \/ dir # "here")
       \/ pc[Pruner] = "checking" /\ ~Eligible
    /\ pc' = [pc EXCEPT ![Pruner] = "out"] /\ lock' = Free(Pruner)
    /\ UNCHANGED <<disk, mem, hist>>

RemoveTree ==
    /\ Step(Pruner, "staged", "out")
    /\ dir' = "gone" /\ lock' = Free(Pruner)
    /\ UNCHANGED <<meta, answers, report, events, rounds, ledger, resolved, mem, hist>>

\* _gc of doctor: what has no report.md is abandoned.
CollectGarbage ==
    /\ dir = "here" /\ report = "none"
    /\ dir' = "gone"
    /\ UNCHANGED <<meta, answers, report, events, rounds, ledger, resolved, lock, pc, mem, hist>>

\* The operator writes RESPONSE.json for the halt run.json waits at.
Respond ==
    /\ dir = "here" /\ meta.life = "waiting-for-orchestrator" /\ answers[meta.halt] = {}
    /\ answers' = [answers EXCEPT ![meta.halt] = {"live"}]
    /\ UNCHANGED <<dir, meta, report, events, rounds, ledger, resolved, lock, pc, mem, hist>>

\* afriend resolve takes no lock; it needs a run.json and a claim it knows, also
\* one that has a resolution already.
Resolve(c, disposition, site) ==
    /\ dir = "here" /\ meta # NoMeta /\ c \in ledger
    /\ Supported(disposition, site)
    /\ resolved' = resolved \union {c}
    /\ fixes' = IF disposition = "fixed" THEN fixes \union {site} ELSE fixes
    /\ UNCHANGED <<dir, meta, answers, report, events, rounds, ledger, lock, pc, mem, reopened,
                   faults, crashes>>

-----------------------------------------------------------------------------

Run(p) ==
    \/ Restore(p)
    \/ TakeLock(p)
    \/ LoseLock(p)
    \/ Announce(p)
    \/ AnnounceFails(p)
    \/ Dispatch(p)
    \/ Record(p)
    \/ BindResponse(p)
    \/ Materialize(p)
    \/ ApplyResponse(p)
    \/ ConsumeResponse(p)
    \/ Refuse(p)
    \/ HaltMeta(p)
    \/ HaltReport(p)
    \/ Conclude(p)
    \/ CloseReport(p)
    \/ CloseMeta(p)
    \/ RollBack(p)
    \/ SayFinished(p)
    \/ SayFinishedFails(p)
    \/ Crash(p)

Prune ==
    \/ Probe
    \/ ProbeEnds
    \/ PruneLock
    \/ Stage
    \/ GiveUpPrune
    \/ RemoveTree

Next ==
    \/ Create
    \/ \E p \in Runs : Run(p)
    \/ Prune
    \/ Respond
    \/ \E c \in Claims, d \in {"fixed", "rejected", "accepted-risk"}, s \in Sites : Resolve(c, d, s)

Spec == Init /\ [][Next]_vars

\* With afriend doctor --gc run at any time: only it takes a directory from
\* under its writer.
GCSpec == Init /\ [][Next \/ CollectGarbage \/ \E p \in Runs : Stranded(p)]_vars

-----------------------------------------------------------------------------
(* Properties.                                                             *)

Active(p) == pc[p] \notin {"idle", "ready", "out"}

\* A terminal run.json is never beside an older report, whichever of two
\* replaces a crash, a failed write or another invocation falls between.
TerminalMetaHasItsReport == meta.life = "terminal" => report = "final"

\* Whatever a run.json says is waiting can be resumed: its stream begins with
\* the anchor a resume asks for, however many writes of it have failed.
HaltsStayAnchored == dir = "here" /\ Resumable(meta.life) => Anchored(events)

\* What the last complete event says of the run, run.json and the report say
\* too, as long as no invocation has given up writing events: a watcher that
\* stops there reads no older state.
LastEventIsOnDisk ==
    dir = "here" /\ (\A p \in Runs : writing[p]) /\ Readable(events) /\ events.lines # <<>> =>
        LET last == events.lines[Len(events.lines)]
        IN  /\ last = "finished" => meta.life = "terminal" /\ report = "final"
            /\ last = "halted"   => meta.life = "waiting-for-orchestrator" /\ report = "halt"

\* Prune takes away only what has finished: not a run a process holds, and
\* not one that was reopened, or halted again, since it was selected.
PruneSparesReopenedRuns ==
    [][dir = "here" /\ dir' = "staged" =>
         /\ meta.life = "terminal" /\ Status = "terminal"
         /\ \A p \in Runs : ~Active(p)]_vars

\* A clear gate is a statement about a review that happened: somebody
\* answered, enough of them, nothing was cut short, and every claim that
\* counts was refuted, superseded or resolved.
ClearGateIsEarned ==
    meta.gate = "clear" =>
        /\ meta.ending.success /\ ~meta.ending.quorumFailed /\ ~meta.ending.incomplete
        /\ ~meta.ending.signalled /\ ~meta.ending.error /\ meta.ending.budget = "none"
        /\ \A c \in ledger \ (Advisory \union resolved) :
             meta.states[c] \in GateClearing \union GateExempt

\* modes.md:475: "GC removes run directories with no report.md -- every path
\* out of a run writes one, so its absence means the process died."
CollectedMeansDied == [][dir = "here" /\ dir' = "gone" => \A p \in Runs : ~Active(p)']_vars

\* design.md:1288: "two workers acting on the same halt could dispatch the same
\* round twice and append duplicate records to one ledger. The second is
\* refused".  A resume that read a half applied answer before the lock is not.
FinishedStaysFinished == [][meta.life = "terminal" => meta'.life = "terminal"]_vars
=============================================================================
