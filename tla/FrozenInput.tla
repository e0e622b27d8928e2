---------------------------- MODULE FrozenInput ----------------------------
(***************************************************************************)
(* What a run reviews, from one process to the next: the copy of the       *)
(* artifact in the run directory, the commit of the repository taken with  *)
(* it, and the history of both that run.json keeps.  cmd_run of            *)
(* src/afriend/commands/run.py freezes them, a loop freezes them again     *)
(* before every iteration, a --resume must find them as they were left.    *)
(*                                                                         *)
(* Meanwhile the operator edits the artifact and the code, and points the  *)
(* link the artifact is into the repository and out of it.  The bytes of a *)
(* text are a number, and so is the rest of the repository.                *)
(***************************************************************************)
EXTENDS Naturals, Sequences, FiniteSets

CONSTANTS
    Loop,           \* --mode loop
    MaxIterations,  \* --max-loop-iterations
    Undecodable,    \* the texts that are not UTF-8
    Restores,       \* the scopes in which an edit may bring old bytes back
    MaxEdits,       \* bound on the operator's edits of artifact, link and code
    MaxResumes      \* bound on the invocations of --resume

ASSUME LoopAssumption == Loop \in BOOLEAN /\ MaxIterations \in Nat \ {0}
ASSUME FreezeBounds   == MaxEdits \in Nat /\ MaxResumes \in Nat
ASSUME FreezeScopes   == Restores \subseteq {"explicit", "repository", "document"}

VARIABLES
    live,       \* the bytes behind the path of the artifact
    inside,     \* that path leads into the repository it is named in
    code,       \* the rest of the repository
    commits,    \* the throwaway commits made of it, by number
    lost,       \* those git has collected
    explicit,   \* --repo was given
    composed,   \* the artifact is a composed review context
    frozen,     \* the copy in the run directory
    manifest,   \* the copy of a composed context's sidecar: the text it attests
    identity,   \* snapshot: the SnapshotIdentity under review
    history,    \* snapshot_history
    meta,       \* run.json
    pc,         \* where the process stands
    root,       \* the repository the next identity is to be taken from, if any
    iteration,
    resuming,   \* resume_dir is not None: this iteration was begun by a process before
    shown,      \* history: what each dispatch put before the friends
    edits, resumes

world   == <<live, inside, code>>
objects == <<commits, lost>>
asked   == <<explicit, composed>>
bounds  == <<edits, resumes>>
vars    == <<world, objects, asked, frozen, manifest, identity, history, meta, pc, root,
             iteration, resuming, shown, bounds>>

Nothing == [commit |-> 0, art |-> 0, pred |-> <<>>, bound |-> FALSE]
NoMeta  == [life |-> "none", identity |-> Nothing, history |-> <<>>, iteration |-> 0]

Commits == 1 .. Len(commits)

\* Commits and hashes name revisions; the two are never confused.
CommitToken(id) == IF id.commit # 0 THEN <<"commit", id.commit>> ELSE <<"hash", id.art>>
HashToken(id)   == <<"hash", id.art>>

\* _identity_token
Token(id) == IF explicit /\ ~id.bound THEN HashToken(id) ELSE CommitToken(id)

Init ==
    /\ live = 1 /\ inside \in BOOLEAN /\ code = 1
    /\ commits = <<>> /\ lost = {}
    /\ explicit \in BOOLEAN /\ composed \in BOOLEAN
    /\ frozen = 0 /\ manifest = 0 /\ identity = Nothing /\ history = <<>>
    /\ meta = NoMeta /\ pc = "new" /\ root = FALSE
    /\ iteration = 0 /\ resuming = FALSE
    /\ shown = {} /\ edits = 0 /\ resumes = 0

-----------------------------------------------------------------------------
(* The operator, and git.                                                  *)

Scope == IF explicit THEN "explicit" ELSE IF identity.commit # 0 THEN "repository" ELSE "document"

Edit ==
    /\ edits < MaxEdits /\ edits' = edits + 1
    /\ \/ live' = edits + 2 /\ UNCHANGED <<inside, code>>
       \/ Scope \in Restores /\ live' \in 1 .. edits + 1 /\ live' # live
          /\ UNCHANGED <<inside, code>>
       \/ inside' = ~inside /\ UNCHANGED <<live, code>>
       \/ code' = edits + 2 /\ UNCHANGED <<live, inside>>
    /\ UNCHANGED <<objects, asked, manifest, frozen, identity, history, meta, pc, root,
                   iteration, resuming, shown, resumes>>

\* No reference holds a throwaway commit.
Collect ==
    /\ pc = "off"
    /\ lost' = Commits /\ lost' # lost
    /\ UNCHANGED <<world, commits, asked, manifest, frozen, identity, history, meta, pc,
                   root, iteration, resuming, shown, bounds>>

-----------------------------------------------------------------------------
(* A fresh run reads its input before it sets anything up.                 *)

Refuse == pc' = "refused" /\ UNCHANGED <<frozen, root>>

\* capture_artifact_input.  Of a composed context these are the bytes to freeze.
Capture ==
    /\ pc = "new"
    /\ \/ live \in Undecodable /\ Refuse
       \/ live \notin Undecodable /\ frozen' = live /\ pc' = "scope" /\ UNCHANGED root
    /\ UNCHANGED <<world, objects, asked, manifest, identity, history, meta, iteration,
                   resuming, shown, bounds>>

\* resolve_run_repo
ResolveScope ==
    /\ pc = "scope"
    /\ root' = (explicit \/ inside)
    /\ pc' = "copy"
    /\ UNCHANGED <<world, objects, asked, manifest, frozen, identity, history, meta,
                   iteration, resuming, shown, bounds>>

\* artifact_copy_bytes, artifact_copy; a copy that is no text is refused.
Copied == IF composed THEN frozen ELSE live

Copy ==
    /\ pc = "copy"
    /\ \/ Copied \in Undecodable /\ Refuse
       \/ Copied \notin Undecodable /\ frozen' = Copied /\ pc' = "bind" /\ UNCHANGED root
    /\ manifest' = IF composed THEN frozen ELSE 0
    /\ UNCHANGED <<world, objects, asked, identity, history, meta, iteration, resuming,
                   shown, bounds>>

-----------------------------------------------------------------------------
(* SnapshotIdentity.create: the commit is made of the working tree as it   *)
(* is then, and must hold the bytes that were copied before.               *)

\* Slip: a revision of an explicit scope is named by its commit.
PredecessorByCommit == IF history = <<>> THEN <<>> ELSE CommitToken(identity)

\* predecessor_uses_artifact_hash
Predecessor ==
    IF history = <<>> THEN <<>>
    ELSE IF explicit THEN HashToken(identity) ELSE CommitToken(identity)

Adopt(commit, bound) ==
    LET next == [commit |-> commit, art |-> frozen, pred |-> Predecessor, bound |-> bound] IN
    /\ identity' = next
    /\ history' = Append(history, next)
    /\ pc' = IF iteration = 0 THEN "top" ELSE "dispatch"

\* Outside of every repository, or with a link that leads out of the one it
\* is in, a run reviews the document alone.
BindDocument ==
    /\ pc = "bind"
    /\ ~root \/ (~explicit /\ ~inside)
    /\ Adopt(0, FALSE)
    /\ UNCHANGED <<world, objects, asked, manifest, frozen, meta, root, iteration, resuming,
                   shown, bounds>>

BindRepository ==
    /\ pc = "bind"
    /\ root /\ (explicit \/ inside)
    /\ pc' = "snapshot"
    /\ UNCHANGED <<world, objects, asked, manifest, frozen, identity, history, meta, root,
                   iteration, resuming, shown, bounds>>

\* isolation.snapshot_commit
Snapshot ==
    /\ pc = "snapshot"
    /\ commits' = Append(commits, [art |-> IF inside THEN live ELSE 0, code |-> code])
    /\ pc' = "check"
    /\ UNCHANGED <<world, lost, asked, manifest, frozen, identity, history, meta, root,
                   iteration, resuming, shown, bounds>>

\* Slip: the link still leads where it led, so the bytes must be the same.
SameTarget == explicit \/ inside

\* _verify_source_target, _commit_blob.  An explicit scope binds no blob.
CommitHoldsCopy == explicit \/ (inside /\ commits[Len(commits)].art = frozen)

\* A fresh run that is refused here leaves nothing behind.  A loop is past
\* its first rounds, and ends without a report and without a run.json.
Check ==
    /\ pc = "check"
    /\ \/ CommitHoldsCopy /\ Adopt(Len(commits), ~explicit)
       \/ /\ ~CommitHoldsCopy
          /\ pc' = IF iteration = 0 THEN "refused" ELSE "off"
          /\ UNCHANGED <<identity, history>>
    /\ UNCHANGED <<world, objects, asked, manifest, frozen, meta, root, iteration, resuming,
                   shown, bounds>>

-----------------------------------------------------------------------------
(* Iterations: freeze_revision, then the friends.                          *)

\* Slip: a composed context is followed like any artifact.
KeepsCopyIfResumed == resuming

\* resuming, as cmd_run passes it: only the iteration that was resumed, and
\* every iteration over a composed context.
KeepsCopy == resuming \/ composed

Keep ==
    /\ pc = "top" /\ KeepsCopy
    /\ iteration' = iteration + 1
    /\ pc' = "dispatch"
    /\ UNCHANGED <<world, objects, asked, manifest, frozen, identity, history, meta, root,
                   resuming, shown, bounds>>

\* The comparison is with last_digest, which is the hash of the identity
\* under review; resolve_run_repo is asked again for a revision.
Refreeze ==
    /\ pc = "top" /\ ~KeepsCopy
    /\ iteration' = iteration + 1
    /\ frozen' = live
    /\ IF live \in Undecodable THEN pc' = "failed" /\ UNCHANGED root
       ELSE IF live = identity.art THEN pc' = "dispatch" /\ UNCHANGED root
       ELSE pc' = "bind" /\ root' = (identity.commit # 0 /\ (explicit \/ inside))
    /\ UNCHANGED <<world, objects, asked, manifest, identity, history, meta, resuming, shown,
                   bounds>>

\* reconcile_snapshot_scope: without a repository every friend gets the
\* document alone, whatever scope it was given.
CheckedOut == identity.commit

\* The friends of a resumed iteration judge, once the answer it was waiting
\* for is applied and run.json says so.
Dispatch ==
    /\ pc = "dispatch"
    /\ shown' = shown \union {[iteration |-> iteration, text |-> frozen,
                               commit |-> CheckedOut, bound |-> identity.bound,
                               resumed |-> resuming]}
    /\ meta' = IF resuming THEN [meta EXCEPT !.life = "response-applied"] ELSE meta
    /\ pc' = "dispatched"
    /\ UNCHANGED <<world, objects, asked, manifest, frozen, identity, history, root,
                   iteration, resuming, bounds>>

Continue ==
    /\ pc = "dispatched"
    /\ Loop /\ iteration < MaxIterations
    /\ pc' = "top" /\ resuming' = FALSE
    /\ UNCHANGED <<world, objects, asked, manifest, frozen, identity, history, meta, root,
                   iteration, shown, bounds>>

-----------------------------------------------------------------------------
(* run_meta: every write of run.json goes through record_snapshot.         *)

\* _validate_history_chain, validate_repository_scope
Recordable(h, current) ==
    /\ h # <<>> /\ h[Len(h)] = current
    /\ \A i \in 1 .. Len(h) : h[i].pred = (IF i = 1 THEN <<>> ELSE Token(h[i - 1]))
    /\ \A i, j \in 1 .. Len(h) : i # j /\ Token(h[i]) = Token(h[j]) => explicit /\ ~h[j].bound
    /\ \A i \in 1 .. Len(h) :
         IF explicit THEN h[i].commit # 0 /\ ~h[i].bound ELSE h[i].commit # 0 => h[i].bound

\* A history that is refused is an AfError, and cmd_run lets those pass.
Write(life) ==
    IF Recordable(history, identity)
    THEN /\ meta' = [life |-> life, identity |-> identity, history |-> history,
                     iteration |-> iteration]
         /\ pc' = "off"
    ELSE pc' = "unrecorded" /\ UNCHANGED meta

Halt ==
    /\ pc = "dispatched" /\ ~resuming
    /\ Write("waiting-for-orchestrator")
    /\ UNCHANGED <<world, objects, asked, manifest, frozen, identity, history, root,
                   iteration, resuming, shown, bounds>>

\* finish_run, of a run that is done or that failed.
Finish ==
    /\ pc \in {"dispatched", "failed"}
    /\ Write("terminal")
    /\ UNCHANGED <<world, objects, asked, manifest, frozen, identity, history, root,
                   iteration, resuming, shown, bounds>>

Crash ==
    /\ pc \notin {"off", "refused", "unrecorded"}
    /\ pc' = "off"
    /\ UNCHANGED <<world, objects, asked, manifest, frozen, identity, history, meta, root,
                   iteration, resuming, shown, bounds>>

-----------------------------------------------------------------------------
(* --resume                                                                *)

\* What _from_dict takes for an identity: a blob is bound in a repository only.
WellFormed(id) == id.art # 0 /\ (id.bound => id.commit # 0)

\* resume_review_context: the copied manifest attests the copied artifact.
ContextIsBound == composed => manifest = frozen

\* SnapshotIdentity.verify: the copy has the recorded hash, the commit is there
\* and holds the same bytes.
CopyIsVerified(id) ==
    /\ frozen = id.art
    /\ id.commit # 0 => id.commit \notin lost
    /\ id.bound => commits[id.commit].art = id.art

\* validate_lifecycle_and_snapshot, history_from_meta, and the checks above.
Acceptable ==
    /\ meta.life \in {"waiting-for-orchestrator", "response-applied"}
    /\ \A i \in 1 .. Len(meta.history) : WellFormed(meta.history[i])
    /\ Recordable(meta.history, meta.identity)
    /\ ContextIsBound
    /\ CopyIsVerified(meta.identity)

Resume ==
    /\ pc = "off" /\ resumes < MaxResumes
    /\ Acceptable
    /\ identity' = meta.identity /\ history' = meta.history
    /\ iteration' = meta.iteration - 1
    /\ resuming' = TRUE
    /\ pc' = "top" /\ resumes' = resumes + 1
    /\ UNCHANGED <<world, objects, asked, manifest, frozen, meta, root, shown, edits>>

Next ==
    \/ Edit \/ Collect
    \/ Capture \/ ResolveScope \/ Copy
    \/ BindDocument \/ BindRepository \/ Snapshot \/ Check
    \/ Keep \/ Refreeze \/ Dispatch \/ Continue
    \/ Halt \/ Finish \/ Crash \/ Resume

Spec == Init /\ [][Next]_vars

-----------------------------------------------------------------------------
\* Text and code are of one revision: whatever the operator does between the
\* copy and the commit, friends with a repository are checked out at a commit
\* that holds the very text their prompt quotes.
ShownIsOneRevision ==
    \A s \in shown : s.bound => commits[s.commit].art = s.text

\* What a loop has reviewed it can record: record_snapshot refuses no history of
\* editions, so the identity of none costs a run its report and its run.json.
\* (An artifact edited between copy and commit still does: Check.)
RevisionsAreRecordable == pc # "unrecorded"

\* A halt is left so that a resume takes it, unless git has collected the
\* commit: the checks a resume makes are none that a halt may fail.
HaltsAreAcceptable ==
    pc = "off" /\ meta.life = "waiting-for-orchestrator" /\ meta.identity.commit \notin lost
        => Acceptable

\* "keeping the copy, the hash and what friends read identical": when no
\* process is at work, a run.json that can be resumed attests the copy.
TheCopyIsTheOneAttested ==
    pc = "off" /\ meta.life \in {"waiting-for-orchestrator", "response-applied"}
        => frozen = meta.identity.art
=============================================================================
