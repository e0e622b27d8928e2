----------------------------- MODULE FriendRound -----------------------------
(* Rounds of friends: rounds.dispatch_round with its thread pool, the caller  *)
(* that persists what came back (critique.run_critique, crossexam), and the   *)
(* RepeatTracker that benches a friend failing the same way every round.      *)
(*                                                                           *)
(* Each friend's call is one OneCall: it returns a SpawnResult reason, or     *)
(* raises. The main thread isolates, submits, reads the futures in roster      *)
(* order, and on any error of its own drains the pool and recovers what        *)
(* finished.                                                                 *)
EXTENDS Confinement, Sequences, SequencesExt

CONSTANTS Order,        \* the roster, a sequence of friends
          Adapter,      \* the adapter of each friend
          Settings,     \* the hosts and options a run may have
          Independent,  \* friends whose answers count as independent
          Says,         \* bound: the reasons each friend's call may return
          Workers,      \* max_concurrency
          RepeatLimit,  \* REPEAT_LIMIT
          MaxRounds,    \* bound: rounds a run dispatches
          MaxErrors     \* bound: errors of the runner's own in one run

Friends == ToSet(Order)

\* The reasons of a SpawnResult a call may return, and the two ways to raise.
Answers == {"ok", "exit", "auth", "quota", "timeout"}
Raises == {"stop", "crash"}     \* AfError or an interrupt; any other exception
Outcomes == Answers \cup Raises \cup {"aborted", "refused", "access"}

ASSUME RoundAssumption == /\ IsInjective(Order) /\ Independent \subseteq Friends
                          /\ Says \in [Friends -> SUBSET (Answers \cup Raises)]
                          /\ Workers \in Nat \ {0} /\ RepeatLimit \in Nat \ {0}

VARIABLES setting, round, pc,
          aborted,      \* abort_event
          isolated,     \* friends with a working directory (cwd_for)
          job,          \* future of each friend
          attempt,      \* what its worker returned: an outcome, "withheld" (None), or "none"
          inFlight,     \* friends the progress display waits for
          results,      \* friends whose attempts were read
          error,        \* round_error
          errors,
          authAbort,
          prompts,      \* <<round, friend>> whose prompt artifact is on disk
          rows,         \* <<round, friend>> -> audited status
          last, count, disabled     \* the RepeatTracker

poolvars == <<isolated, job, attempt, inFlight>>
trackervars == <<last, count, disabled>>
vars == <<setting, round, pc, aborted, poolvars, results, error, errors, authAbort, prompts, rows,
          trackervars>>

A(f) == Adapter[f]

Init == /\ setting \in Settings /\ round = 1 /\ pc = "open"
        /\ aborted = FALSE /\ isolated = {} /\ inFlight = {}
        /\ job = [f \in Friends |-> "none"] /\ attempt = [f \in Friends |-> "none"]
        /\ results = {} /\ error = FALSE /\ errors = 0 /\ authAbort = FALSE
        /\ prompts = {} /\ rows = [p \in {} |-> "ok"]
        /\ last = [f \in Friends |-> "none"] /\ count = [f \in Friends |-> 0] /\ disabled = {}

-----------------------------------------------------------------------------
(* The main thread. *)

MainStep == UNCHANGED <<setting, aborted, trackervars>>

\* partition_dispatchable, persist_skip and build_prompts.
Ready == {f \in Friends : f \notin disabled}

Open == /\ pc = "open"
        /\ rows' = [p \in DOMAIN rows \cup {<<round, f>> : f \in disabled} |->
                      IF p \in DOMAIN rows THEN rows[p] ELSE "skipped"]
        /\ prompts' = prompts \cup {<<round, f>> : f \in Ready}
        /\ isolated' = {} /\ inFlight' = {} /\ results' = {} /\ error' = FALSE
        /\ job' = [f \in Friends |-> "none"] /\ attempt' = [f \in Friends |-> "none"]
        /\ pc' = "isolating"
        /\ UNCHANGED <<round, errors, authAbort>> /\ MainStep

\* Friends are taken one by one, in roster order.
Place(f) == CHOOSE i \in DOMAIN Order : Order[i] = f
First(f, set) == f \in set /\ \A g \in set : Place(f) <= Place(g)

Unisolated == Ready \ isolated

\* The next friend's private working directory; an abort stops the setup.
Isolate == /\ pc = "isolating" /\ ~aborted
           /\ \E f \in Unisolated : First(f, Unisolated) /\ isolated' = isolated \cup {f}
           /\ UNCHANGED <<round, pc, job, attempt, inFlight, results, error, errors, authAbort,
                          prompts, rows>>
           /\ MainStep

\* With nobody isolated there is no round to announce.
Announce == /\ pc = "isolating"
            /\ aborted \/ Unisolated = {}
            /\ pc' = IF isolated = {} THEN "recording" ELSE "submitting"
            /\ UNCHANGED <<round, poolvars, results, error, errors, authAbort, prompts, rows>>
            /\ MainStep

\* A worktree that cannot be made raises through dispatch_round: nothing was
\* dispatched and every prompt is pruned.
IsolationFails == /\ pc = "isolating" /\ ~aborted /\ Unisolated # {} /\ errors < MaxErrors
                  /\ errors' = errors + 1
                  /\ prompts' = {p \in prompts : p[1] # round}
                  /\ pc' = "failed"
                  /\ UNCHANGED <<round, poolvars, results, error, authAbort, rows>> /\ MainStep

Unsubmitted == {f \in isolated : job[f] = "none"}

Submit == /\ pc = "submitting"
          /\ \E f \in Unsubmitted : First(f, Unsubmitted) /\ job' = [job EXCEPT ![f] = "queued"]
          /\ UNCHANGED <<round, pc, isolated, attempt, inFlight, results, error, errors, authAbort,
                         prompts, rows>>
          /\ MainStep

\* The futures are read in roster order; one a worker withheld adds nothing.
ToRead == {f \in isolated : attempt[f] # "none" \/ job[f] \in {"queued", "picked", "running"}}
Unread == {f \in ToRead \ results : attempt[f] # "withheld"}

Read == /\ pc \in {"submitting", "reading"} /\ Unsubmitted = {}
        /\ \/ Unread = {} /\ pc' = "closing" /\ UNCHANGED <<results, error>>
           \/ \E f \in Unread : /\ First(f, Unread) /\ job[f] = "done"
                                /\ results' = results \cup {f}
                                /\ error' = (error \/ attempt[f] = "stop")
                                /\ pc' = "reading"
        /\ UNCHANGED <<round, poolvars, errors, authAbort, prompts, rows>> /\ MainStep

\* The main thread's own error, between any two of those steps: queued work is
\* cancelled and what runs is left to see the abort.
Interrupted == /\ pc \in {"submitting", "reading"} /\ errors < MaxErrors
               /\ errors' = errors + 1 /\ error' = TRUE /\ aborted' = TRUE
               /\ job' = [f \in Friends |-> IF job[f] = "queued" THEN "cancelled" ELSE job[f]]
               /\ pc' = "draining"
               /\ UNCHANGED <<setting, round, isolated, attempt, inFlight, results, authAbort, prompts,
                              rows, trackervars>>

PoolDown == \A f \in Friends : job[f] \in {"none", "done", "cancelled"}

\* A finished future that was not withheld holds an attempt.
Finished == {f \in Friends : job[f] = "done" /\ attempt[f] # "withheld"}

\* Slip: the futures the shutdown cancelled are waited for as well.
RecoverEveryFuture == /\ pc = "draining"
                      /\ \A f \in Friends : job[f] \in {"none", "done"}
                      /\ results' = results \cup Finished
                      /\ pc' = "closing"
                      /\ UNCHANGED <<round, poolvars, error, errors, authAbort, prompts, rows>>
                      /\ MainStep

\* Once the pool is down, every finished attempt not yet read is recovered.
Recover == /\ pc = "draining" /\ PoolDown
           /\ results' = results \cup Finished
           /\ pc' = "closing"
           /\ UNCHANGED <<round, poolvars, error, errors, authAbort, prompts, rows>> /\ MainStep

\* round_finished, then isolation is torn down.
Close == /\ pc = "closing" /\ pc' = "recording"
         /\ isolated' = {}
         /\ UNCHANGED <<round, job, attempt, inFlight, results, error, errors, authAbort, prompts, rows>>
         /\ MainStep

-----------------------------------------------------------------------------
(* failures.py: what the round's results say about each friend. *)

\* failure_signature: the reason and exit status, none for an answer.
Signature(o) == IF o = "ok" THEN "none" ELSE o

Repeats(f, o) == Signature(o) # "none" /\ Signature(o) = last[f]

\* Slip: a different failure counts towards the same streak.
RecordAnyFailure(f, o) ==
  [last |-> Signature(o), count |-> IF o = "ok" THEN 0 ELSE count[f] + 1,
   disabled |-> o # "ok" /\ count[f] + 1 >= RepeatLimit]

\* RepeatTracker.record
Record(f, o) ==
  IF Repeats(f, o) THEN [last |-> last[f], count |-> count[f] + 1,
                         disabled |-> f \in disabled \/ count[f] + 1 >= RepeatLimit]
  ELSE [last |-> Signature(o), count |-> IF o = "ok" THEN 0 ELSE 1,
        disabled |-> f \in disabled /\ o # "ok"]

\* classify: only a declared marker, quota before auth, never after a timeout.
Unauthenticated(f) == f \in Independent /\ attempt[f] = "auth"

Classify == /\ pc = "recording" /\ pc' = "persisting"
            /\ LET noted == [f \in results |-> Record(f, attempt[f])]
               IN /\ last' = [f \in Friends |-> IF f \in results THEN noted[f].last ELSE last[f]]
                  /\ count' = [f \in Friends |-> IF f \in results THEN noted[f].count ELSE count[f]]
                  /\ disabled' = (disabled \ results) \cup {f \in results : noted[f].disabled}
                  /\ authAbort' = (authAbort \/ \E f \in results : Unauthenticated(f))
            /\ UNCHANGED <<setting, round, aborted, poolvars, results, error, errors, prompts, rows>>

-----------------------------------------------------------------------------
(* The caller: prune_undispatched_prompts, then persist_result per result. *)

\* Slip: a prompt is kept for whoever was submitted.
PersistSubmitted == /\ pc = "persisting"
                    /\ rows' = [p \in DOMAIN rows \cup {<<round, f>> : f \in results} |->
                                  IF p \in DOMAIN rows THEN rows[p] ELSE attempt[p[2]]]
                    /\ pc' = IF error \/ authAbort \/ aborted \/ round = MaxRounds THEN "done" ELSE "open"
                    /\ round' = IF pc' = "open" THEN round + 1 ELSE round
                    /\ UNCHANGED <<poolvars, results, error, errors, authAbort, prompts>> /\ MainStep

Persist == /\ pc = "persisting"
           /\ prompts' = {p \in prompts : p[1] = round => p[2] \in results}
           /\ rows' = [p \in DOMAIN rows \cup {<<round, f>> : f \in results} |->
                         IF p \in DOMAIN rows THEN rows[p] ELSE attempt[p[2]]]
           /\ pc' = IF error \/ authAbort \/ aborted \/ round = MaxRounds THEN "done" ELSE "open"
           /\ round' = IF pc' = "open" THEN round + 1 ELSE round
           /\ UNCHANGED <<poolvars, results, error, errors, authAbort>> /\ MainStep

-----------------------------------------------------------------------------
(* The workers of the pool. *)

WorkerStep == UNCHANGED <<setting, round, pc, isolated, results, error, errors, authAbort, prompts,
                          rows, trackervars>>

Busy == {f \in Friends : job[f] \in {"picked", "running"}}

\* A free worker takes the oldest queued future; a stop seen before it begins
\* withholds the friend.
Pick(f) == /\ Cardinality(Busy) < Workers
           /\ First(f, {g \in Friends : job[g] = "queued"})
           /\ IF aborted THEN /\ job' = [job EXCEPT ![f] = "done"]
                              /\ attempt' = [attempt EXCEPT ![f] = "withheld"]
                         ELSE job' = [job EXCEPT ![f] = "picked"] /\ UNCHANGED attempt
           /\ UNCHANGED <<inFlight, aborted>> /\ WorkerStep

\* friend_dispatched: the friend has crossed the dispatch boundary.
Dispatch(f) == /\ job[f] = "picked"
               /\ job' = [job EXCEPT ![f] = "running"]
               /\ inFlight' = inFlight \cup {f}
               /\ UNCHANGED <<attempt, aborted>> /\ WorkerStep

\* What its call may return under this run's setting: a policy refusal raises
\* AfError, an unconfinable friend is a failed row, and a confined friend's
\* denied access outranks whatever else it reported.
Returns(f, o) ==
  IF ~Authorised(A(f), setting) \/ ~ArgvAccepted(A(f), setting) THEN o = "stop"
  ELSE IF Refused(A(f), setting) THEN o = "refused"
  ELSE IF ~ExtraArgsAccepted(A(f), setting) THEN o = "stop"
  ELSE \/ o \in Says[f]
       \/ o = "aborted" /\ aborted
       \/ o = "access" /\ Binds(A(f), setting)

\* friend_finished. A deliberate stop, or an interrupt, also stops the peers.
Finish(f, o) == /\ job[f] = "running" /\ Returns(f, o)
                /\ job' = [job EXCEPT ![f] = "done"]
                /\ attempt' = [attempt EXCEPT ![f] = o]
                /\ inFlight' = inFlight \ {f}
                /\ aborted' = (aborted \/ o = "stop")
                /\ WorkerStep

\* A signal handler sets the abort flag.
Signalled == /\ pc # "done" /\ ~aborted /\ errors < MaxErrors
             /\ aborted' = TRUE /\ errors' = errors + 1
             /\ UNCHANGED <<setting, round, pc, poolvars, results, error, authAbort, prompts, rows,
                            trackervars>>

Main == \/ Open \/ Isolate \/ Announce \/ IsolationFails \/ Submit \/ Read \/ Interrupted \/ Recover
        \/ Close \/ Classify \/ Persist

Work(f) == Pick(f) \/ Dispatch(f) \/ (\E o \in Outcomes : Finish(f, o))

Next == Main \/ (\E f \in Friends : Work(f)) \/ Signalled

\* Every call returns (OneCall), so a worker always gets on; so does the main
\* thread.
Spec == /\ Init /\ [][Next]_vars
        /\ WF_vars(Main) /\ \A f \in Friends : WF_vars(Work(f))

-----------------------------------------------------------------------------
(* PROPERTIES *)

\* The round whose files are all written, 0 before the first.
Written == CASE pc = "open" -> round - 1 [] pc = "done" -> round [] OTHER -> 0

\* A friend has a row in a round exactly when it crossed the dispatch boundary,
\* or was benched; its prompt is kept exactly when it crossed it. A friend that
\* crossed it never loses its row to another's failure (rounds.py:265-345,
\* 440-505, 125-135).
EveryDispatchIsAudited ==
  Written # 0 =>
    \A f \in Friends :
      LET crossed == attempt[f] \notin {"none", "withheld"}
          audited == <<Written, f>> \in DOMAIN rows
      IN /\ crossed => audited /\ rows[<<Written, f>>] = attempt[f]
         /\ audited /\ ~crossed => rows[<<Written, f>>] = "skipped"
         /\ <<Written, f>> \in prompts <=> crossed

\* A friend is benched only for failing the same way in its last RepeatLimit
\* rounds, and a benched friend is not dispatched again (failures.py:132-203).
OnlyTheBrokenAreBenched ==
  \A f \in disabled :
    \E r \in 1..round, o \in Outcomes \ {"ok"} :
      /\ \A k \in 0..(RepeatLimit - 1) :
           \/ <<r - k, f>> \in DOMAIN rows /\ rows[<<r - k, f>>] = o
           \/ r - k = round /\ pc = "persisting" /\ attempt[f] = o
      /\ \A later \in (r + 1)..round : <<later, f>> \in DOMAIN rows => rows[<<later, f>>] = "skipped"

\* Nothing is claimed or emitted on the strength of a policy that did not bind:
\* a row's write protection is one that held, and a CLI's own sandbox is dropped
\* only inside the outer one (dispatch.py:355-590).
ProtectionIsReal ==
  \A p \in DOMAIN rows :
    rows[p] \notin {"skipped", "refused", "stop", "crash"} =>
      /\ ClaimsWriteProtection(A(p[2]), setting) => WritesStopped(A(p[2]), setting)
      /\ EmitsWeakening(A(p[2]), setting) => Binds(A(p[2]), setting)
      /\ RunsFree(A(p[2]), setting) => setting.allow

\* Every run of rounds comes to an end, whoever fails and whenever it is stopped.
RoundsEnd == <>(pc \in {"done", "failed"})
=============================================================================
