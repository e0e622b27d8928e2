------------------------- MODULE FrozenInput_proofs -------------------------
(***************************************************************************)
(* Three theorems about FrozenInput, for any number of edits, iterations   *)
(* and resumes and any texts.                                              *)
(*                                                                         *)
(* PromptAndCommitAgree: the friends' prompt and the commit they are       *)
(* checked out at are of one revision.  The commit is made after the copy, *)
(* of a working tree that may have changed since, so the argument is that  *)
(* of the two checks: a new identity is taken only with the commit's bytes *)
(* compared to the copy (Check), and an old one only with the copy         *)
(* compared to it (Resume).  Between them the copy changes only on its way *)
(* to another Check.                                                       *)
(*                                                                         *)
(* HaltsAreTaken: from the halt until it is answered nothing writes the    *)
(* copy or the sidecar, so they stay what run.json says (Record).          *)
(*                                                                         *)
(* RevisionsAreRecorded: a revision is never taken for an earlier one.     *)
(* Commits only grow; a text without a commit is new to the history, which *)
(* is so at the next freeze only because the text at the path is either    *)
(* the one under review or one that no revision had (Lasting), whatever    *)
(* was edited in between.                                                  *)
(***************************************************************************)
EXTENDS FrozenInput, TLAPS

Trees      == [art : Nat, code : Nat]
MetaFields == {"life", "identity", "history", "iteration"}

FTypeOK ==
    /\ live \in Nat /\ code \in Nat /\ edits \in Nat
    /\ commits \in Seq(Trees)
    /\ DOMAIN meta = MetaFields

\* An identity's commit holds the text it was taken with.
Holds(id) == id.bound => id.commit \in Commits /\ commits[id.commit].art = id.art

\* The copy is that of the identity under review.
Settled == pc \in {"top", "dispatch", "dispatched"}

Inv ==
    /\ FTypeOK
    /\ Holds(identity) /\ Holds(meta.identity)
    /\ Settled => frozen = identity.art
    /\ pc = "check" => commits # <<>>
    /\ \A s \in shown : s.bound => s.commit \in Commits /\ commits[s.commit].art = s.text

LEMMA InitInv == Init => Inv
BY DEF Init, Inv, FTypeOK, Holds, Settled, Nothing, NoMeta, MetaFields

\* Another commit leaves the ones before it as they are.
LEMMA CommitsOnlyGrow ==
    ASSUME FTypeOK, NEW tree \in Trees, commits' = Append(commits, tree)
    PROVE  /\ commits' \in Seq(Trees) /\ commits' # <<>>
           /\ \A i \in Commits : i \in Commits' /\ commits'[i] = commits[i]
BY DEF FTypeOK, Commits

\* Steps that make no commit and take no new identity.
LEMMA IdentitiesStay ==
    ASSUME Inv, UNCHANGED <<commits, identity, shown>>,
           live' \in Nat /\ code' \in Nat /\ edits' \in Nat,
           meta' = meta \/ (DOMAIN meta' = MetaFields /\ meta'.identity \in {identity, meta.identity}),
           Settled' => frozen' = identity.art,
           pc' = "check" => pc = "check"
    PROVE  Inv'
BY DEF Inv, FTypeOK, Holds, Commits

\* What a run.json says of the review is the identity under review, or nothing new.
LEMMA WritesTheIdentity ==
    ASSUME NEW life, Write(life)
    PROVE  /\ pc' \in {"off", "unrecorded"}
           /\ meta' = meta \/ (DOMAIN meta' = MetaFields /\ meta'.identity = identity)
<1>1. CASE Recordable(history, identity)
  <2>1. /\ pc' = "off"
        /\ meta' = [life |-> life, identity |-> identity, history |-> history,
                    iteration |-> iteration]
    BY <1>1, Zenon DEF Write
  <2> QED
    BY <2>1 DEF MetaFields
<1>2. CASE ~Recordable(history, identity)
  <2>1. pc' = "unrecorded" /\ meta' = meta
    BY <1>2, Zenon DEF Write
  <2> QED
    BY <2>1
<1> QED
  BY <1>1, <1>2

LEMMA AdoptKeepsInv ==
    ASSUME Inv, UNCHANGED <<commits, shown, frozen, live, code, edits, meta>>,
           NEW commit, NEW bound \in BOOLEAN, Adopt(commit, bound),
           bound => commit \in Commits /\ commits[commit].art = frozen
    PROVE  Inv'
<1>1. identity'.commit = commit /\ identity'.bound = bound /\ identity'.art = frozen
  BY DEF Adopt
<1>2. pc' \in {"top", "dispatch"}
  BY DEF Adopt
<1> QED
  BY <1>1, <1>2 DEF Inv, FTypeOK, Holds, Commits, Settled

LEMMA NextInv == Inv /\ [Next]_vars => Inv'
<1> SUFFICES ASSUME Inv, [Next]_vars PROVE Inv'
  OBVIOUS
<1> USE DEF world, objects, asked, bounds
<1>1. CASE Edit
  <2>1. /\ live' \in Nat /\ code' \in Nat /\ edits' \in Nat
        /\ UNCHANGED <<commits, identity, shown, meta, frozen, pc>>
    BY <1>1 DEF Edit, Inv, FTypeOK
  <2> QED
    BY <2>1, IdentitiesStay DEF Inv, Settled
<1>2. CASE Collect \/ Capture \/ ResolveScope \/ Copy
  <2>1. /\ UNCHANGED <<commits, identity, shown, meta, live, code, edits>>
        /\ pc' \in {"off", "scope", "copy", "bind", "refused"}
    BY <1>2 DEF Collect, Capture, ResolveScope, Copy, Refuse
  <2> QED
    BY <2>1, IdentitiesStay DEF Inv, FTypeOK, Settled
<1>3. CASE BindDocument
  BY <1>3, AdoptKeepsInv DEF BindDocument
<1>4. CASE BindRepository
  <2>1. /\ UNCHANGED <<commits, identity, shown, meta, live, code, edits>>
        /\ pc' = "snapshot"
    BY <1>4 DEF BindRepository
  <2> QED
    BY <2>1, IdentitiesStay DEF Inv, FTypeOK, Settled
<1>5. CASE Snapshot
  <2>1. PICK tree \in Trees : commits' = Append(commits, tree)
    BY <1>5 DEF Snapshot, Inv, FTypeOK, Trees
  <2>2. /\ UNCHANGED <<identity, shown, meta, live, code, edits, frozen>> /\ pc' = "check"
    BY <1>5 DEF Snapshot
  <2>3. /\ commits' \in Seq(Trees) /\ commits' # <<>>
        /\ \A i \in Commits : i \in Commits' /\ commits'[i] = commits[i]
    BY <2>1, CommitsOnlyGrow DEF Inv
  <2> QED
    BY <2>2, <2>3 DEF Inv, FTypeOK, Holds, Settled
<1>6. CASE Check
  <2>1. UNCHANGED <<commits, shown, meta, live, code, edits, frozen>>
    BY <1>6 DEF Check
  <2>2. CASE CommitHoldsCopy /\ Adopt(Len(commits), ~explicit)
    <3>1. ~explicit => commits[Len(commits)].art = frozen
      BY <2>2 DEF CommitHoldsCopy
    <3>2. Len(commits) \in Commits
      BY <1>6 DEF Check, Inv, FTypeOK, Commits
    <3> QED
      BY <2>1, <2>2, <3>1, <3>2, AdoptKeepsInv
  <2>3. CASE UNCHANGED identity /\ pc' \in {"refused", "off"}
    BY <2>1, <2>3, IdentitiesStay DEF Inv, FTypeOK, Settled
  <2> QED
    BY <1>6, <2>2, <2>3 DEF Check
<1>7. CASE Keep \/ Continue
  <2>1. /\ UNCHANGED <<commits, identity, shown, meta, live, code, edits, frozen>>
        /\ Settled /\ pc' \in {"top", "dispatch"}
    BY <1>7 DEF Keep, Continue, Settled
  <2> QED
    BY <2>1, IdentitiesStay DEF Inv, FTypeOK
<1>8. CASE Refreeze
  <2>1. /\ UNCHANGED <<commits, identity, shown, meta, live, code, edits>>
        /\ \/ pc' = "dispatch" /\ frozen' = identity.art
           \/ pc' \in {"failed", "bind"}
    BY <1>8 DEF Refreeze
  <2> QED
    BY <2>1, IdentitiesStay DEF Inv, FTypeOK, Settled
<1>9. CASE Dispatch
  <2>1. /\ UNCHANGED <<commits, identity, live, code, edits, frozen>>
        /\ pc = "dispatch" /\ pc' = "dispatched"
        /\ meta' = meta \/ (DOMAIN meta' = MetaFields /\ meta'.identity = meta.identity)
    BY <1>9 DEF Dispatch, Inv, FTypeOK, MetaFields
  <2>2. \A s \in shown' :
        \/ s \in shown
        \/ (s.bound => identity.bound) /\ s.commit = identity.commit /\ s.text = frozen
    <3>1. shown' = shown \union {[iteration |-> iteration, text |-> frozen,
                                  commit |-> identity.commit, bound |-> identity.bound,
                                  resumed |-> resuming]}
      BY <1>9, Zenon DEF Dispatch, CheckedOut
    <3>2. ASSUME NEW s \in shown', s \notin shown
          PROVE  s = [iteration |-> iteration, text |-> frozen, commit |-> identity.commit,
                      bound |-> identity.bound, resumed |-> resuming]
      BY <3>1, <3>2, Zenon
    <3> QED
      BY <3>2
  <2>3. frozen = identity.art
    BY <2>1 DEF Inv, Settled
  <2> QED
    BY <2>1, <2>2, <2>3 DEF Inv, FTypeOK, Holds, Commits, Settled
<1>10. CASE Halt \/ Finish
  <2>1. /\ UNCHANGED <<commits, identity, shown, live, code, edits, frozen>>
        /\ \E life \in {"waiting-for-orchestrator", "terminal"} : Write(life)
    BY <1>10 DEF Halt, Finish
  <2> QED
    BY <2>1, WritesTheIdentity, IdentitiesStay DEF Inv, FTypeOK, Settled
<1>11. CASE Crash
  <2>1. /\ UNCHANGED <<commits, identity, shown, meta, live, code, edits, frozen>>
        /\ pc' = "off"
    BY <1>11 DEF Crash
  <2> QED
    BY <2>1, IdentitiesStay DEF Inv, FTypeOK, Settled
<1>12. CASE Resume
  <2>1. /\ UNCHANGED <<commits, shown, meta, live, code, edits, frozen>>
        /\ identity' = meta.identity /\ pc' = "top" /\ frozen = meta.identity.art
    BY <1>12 DEF Resume, Acceptable, CopyIsVerified
  <2> QED
    BY <2>1 DEF Inv, FTypeOK, Holds, Commits, Settled
<1>13. CASE UNCHANGED vars
  BY <1>13, IdentitiesStay DEF vars, Inv, FTypeOK, Settled
<1> QED
  BY <1>1, <1>2, <1>3, <1>4, <1>5, <1>6, <1>7, <1>8, <1>9, <1>10, <1>11, <1>12, <1>13 DEF Next

\* Friends with a repository are checked out at a commit that holds the very
\* text their prompt quotes, in every iteration and in every process of a run
\* (freeze_revision, SnapshotIdentity.create and verify).
THEOREM PromptAndCommitAgree == Spec => []ShownIsOneRevision
<1>1. Inv => ShownIsOneRevision
  BY DEF Inv, ShownIsOneRevision
<1>2. Spec => []Inv
  BY InitInv, NextInv, PTL DEF Spec
<1> QED
  BY <1>1, <1>2, PTL

-----------------------------------------------------------------------------
(* What a halt leaves, a resume takes.                                     *)

Tokens     == {<<>>} \union ({"commit", "hash"} \X Nat)
Identities == [commit : Nat, art : Nat, pred : Tokens, bound : BOOLEAN]
Lives      == {"none", "waiting-for-orchestrator", "response-applied", "terminal"}

ITypeOK ==
    /\ frozen \in Nat /\ manifest \in Nat
    /\ explicit \in BOOLEAN /\ inside \in BOOLEAN /\ root \in BOOLEAN
    /\ identity \in Identities /\ history \in Seq(Identities)
    /\ meta.identity \in Identities /\ meta.history \in Seq(Identities) /\ meta.life \in Lives

AllWellFormed(h) == \A i \in 1 .. Len(h) : WellFormed(h[i])

\* The process has its copy.
HasCopy == pc \in {"bind", "snapshot", "check", "top", "dispatch", "dispatched", "failed"}

\* What run.json says stays true of the copy until the halt is answered.
Record ==
    /\ live # 0
    /\ pc \in {"scope", "copy", "bind", "snapshot", "check"} => frozen # 0
    /\ AllWellFormed(history) /\ AllWellFormed(meta.history)
    /\ composed /\ (HasCopy \/ meta.life # "none") => manifest = frozen
    /\ meta.life # "none" => /\ Recordable(meta.history, meta.identity)
                             /\ pc \notin {"new", "scope", "copy"}
    /\ resuming => meta.life # "none"
    /\ meta.life = "waiting-for-orchestrator" =>
         /\ frozen = meta.identity.art
         /\ pc = "off" \/ (pc \in {"top", "dispatch"} /\ resuming)

LEMMA TokensAreTokens ==
    ASSUME NEW id \in Identities
    PROVE  CommitToken(id) \in Tokens /\ HashToken(id) \in Tokens
BY DEF CommitToken, HashToken, Tokens, Identities

LEMMA InitRecord == Init => ITypeOK /\ Record
<1> SUFFICES ASSUME Init PROVE ITypeOK /\ Record
  OBVIOUS
<1>1. Nothing \in Identities
  BY DEF Nothing, Identities, Tokens
<1>2. <<>> \in Seq(Identities)
  OBVIOUS
<1>3. ITypeOK
  BY <1>1, <1>2 DEF Init, NoMeta, ITypeOK, Lives
<1>4. AllWellFormed(<<>>)
  BY DEF AllWellFormed
<1> QED
  BY <1>3, <1>4 DEF Init, NoMeta, Record, HasCopy

LEMMA AdoptExtendsHistory ==
    ASSUME ITypeOK, NEW commit \in Nat, NEW bound \in BOOLEAN, Adopt(commit, bound),
           frozen # 0, bound => commit # 0, AllWellFormed(history)
    PROVE  /\ identity' \in Identities /\ history' \in Seq(Identities)
           /\ AllWellFormed(history')
           /\ pc' \in {"top", "dispatch"}
<1> DEFINE next == [commit |-> commit, art |-> frozen, pred |-> Predecessor, bound |-> bound]
<1>1. identity' = next /\ history' = Append(history, next) /\ pc' \in {"top", "dispatch"}
  BY DEF Adopt
<1>2. Predecessor \in Tokens
  <2>1. <<>> \in Tokens
    BY DEF Tokens
  <2> QED
    BY <2>1, TokensAreTokens DEF Predecessor, ITypeOK
<1>3. next \in Identities
  BY <1>2 DEF Identities, ITypeOK
<1>4. WellFormed(next)
  BY DEF WellFormed
<1> HIDE DEF next
<1>5. \A i \in 1 .. Len(history') : history'[i] = next \/ (i \in 1 .. Len(history) /\ history'[i] = history[i])
  BY <1>1, <1>3 DEF ITypeOK
<1> QED
  BY <1>1, <1>3, <1>4, <1>5 DEF ITypeOK, AllWellFormed

LEMMA NextRecord == Inv /\ ITypeOK /\ Record /\ [Next]_vars => ITypeOK' /\ Record'
<1> SUFFICES ASSUME Inv, ITypeOK, Record, [Next]_vars PROVE ITypeOK' /\ Record'
  OBVIOUS
<1> USE DEF world, objects, asked, bounds
<1>1. CASE Edit
  <2>0. live \in Nat /\ live # 0 /\ edits \in Nat /\ inside \in BOOLEAN
    BY DEF Inv, FTypeOK, ITypeOK, Record
  <2>1. /\ live' \in Nat /\ live' # 0 /\ inside' \in BOOLEAN
        /\ UNCHANGED <<asked, manifest, frozen, identity, history, meta, pc, root, resuming>>
    <3>1. inside' \in {inside, ~inside} /\ live' \in {live, edits + 2} \union 1 .. edits + 1
      BY <1>1 DEF Edit
    <3>2. UNCHANGED <<asked, manifest, frozen, identity, history, meta, pc, root, resuming>>
      BY <1>1 DEF Edit
    <3>3. inside' \in BOOLEAN
      BY <2>0, <3>1
    <3>4. live' \in Nat /\ live' # 0
      BY <2>0, <3>1
    <3> QED
      BY <3>2, <3>3, <3>4
  <2> QED
    BY <2>1 DEF ITypeOK, Record, HasCopy, AllWellFormed, Recordable, Token
<1>2. CASE Collect \/ Capture \/ ResolveScope \/ Copy
  <2>1. /\ UNCHANGED <<live, inside, asked, identity, history, meta, resuming>>
        /\ frozen' \in Nat /\ manifest' \in Nat /\ root' \in BOOLEAN
    BY <1>2 DEF Collect, Capture, ResolveScope, Copy, Refuse, Copied, Inv, FTypeOK, ITypeOK
  <2>2. \/ pc = "off" /\ UNCHANGED <<frozen, manifest, pc>>
        \/ pc \in {"new", "scope", "copy"} /\ pc' \in {"refused", "scope", "copy"}
           /\ (pc' # "refused" => frozen' # 0)
        \/ pc = "copy" /\ pc' = "bind" /\ frozen' # 0
           /\ (composed => frozen' = frozen /\ manifest' = frozen)
    BY <1>2 DEF Collect, Capture, ResolveScope, Copy, Refuse, Copied, Record
  <2> QED
    BY <2>1, <2>2 DEF ITypeOK, Record, HasCopy, AllWellFormed, Recordable, Token
<1>3. CASE BindDocument \/ Check
  <2>1. UNCHANGED <<live, inside, asked, frozen, manifest, meta, resuming, root>>
    BY <1>3 DEF BindDocument, Check
  <2>2. /\ pc \in {"bind", "check"}
        /\ \/ pc' \in {"refused", "off"} /\ UNCHANGED <<identity, history>>
           \/ \E commit \in Nat, bound \in BOOLEAN :
                Adopt(commit, bound) /\ (bound => commit # 0)
    <3>1. CASE BindDocument
      BY <3>1 DEF BindDocument
    <3>2. CASE Check
      <4>1. Len(commits) \in Nat /\ Len(commits) # 0 /\ (~explicit) \in BOOLEAN
        BY <3>2 DEF Check, Inv, FTypeOK
      <4> QED
        BY <3>2, <4>1 DEF Check
    <3> QED
      BY <1>3, <3>1, <3>2
  <2>3. /\ identity' \in Identities /\ history' \in Seq(Identities) /\ AllWellFormed(history')
        /\ pc' \in {"refused", "off", "top", "dispatch"}
    BY <2>2, AdoptExtendsHistory DEF Record, ITypeOK
  <2> QED
    BY <2>1, <2>2, <2>3 DEF ITypeOK, Record, HasCopy, AllWellFormed, Recordable, Token
<1>4. CASE BindRepository \/ Snapshot \/ Crash
  <2>1. /\ UNCHANGED <<live, inside, asked, frozen, manifest, identity, history, meta, resuming,
                       root>>
        /\ \/ pc \in {"bind", "snapshot"} /\ pc' \in {"snapshot", "check"}
           \/ pc' = "off"
    BY <1>4 DEF BindRepository, Snapshot, Crash
  <2> QED
    BY <2>1 DEF ITypeOK, Record, HasCopy, AllWellFormed, Recordable, Token
<1>5. CASE Keep \/ Continue
  <2>1. /\ UNCHANGED <<live, inside, asked, frozen, manifest, identity, history, meta, root>>
        /\ \/ pc = "top" /\ pc' = "dispatch" /\ resuming' = resuming
           \/ pc = "dispatched" /\ pc' = "top" /\ ~resuming'
    BY <1>5 DEF Keep, Continue
  <2> QED
    BY <2>1 DEF ITypeOK, Record, HasCopy, AllWellFormed, Recordable, Token
<1>6. CASE Refreeze
  <2>1. /\ UNCHANGED <<live, inside, asked, manifest, identity, history, meta, resuming>>
        /\ pc = "top" /\ ~resuming /\ ~composed
        /\ pc' \in {"failed", "dispatch", "bind"}
        /\ frozen' = live /\ root' \in BOOLEAN
    BY <1>6 DEF Refreeze, KeepsCopy, ITypeOK, Identities
  <2> QED
    BY <2>1 DEF Inv, FTypeOK, ITypeOK, Record, HasCopy, AllWellFormed, Recordable, Token
<1>7. CASE Dispatch
  <2>1. /\ UNCHANGED <<live, inside, asked, frozen, manifest, identity, history, resuming, root>>
        /\ pc = "dispatch" /\ pc' = "dispatched"
        /\ \/ ~resuming /\ UNCHANGED meta
           \/ /\ meta'.life = "response-applied"
              /\ meta'.identity = meta.identity /\ meta'.history = meta.history
              /\ resuming
    BY <1>7 DEF Dispatch, Inv, FTypeOK, MetaFields
  <2>2. CASE UNCHANGED meta /\ ~resuming
    BY <2>1, <2>2 DEF ITypeOK, Record, HasCopy, AllWellFormed, Recordable, Token
  <2>3. CASE resuming
    BY <2>1, <2>3 DEF ITypeOK, Record, HasCopy, AllWellFormed, Recordable, Token, Lives
  <2> QED
    BY <2>1, <2>2, <2>3
<1>8. CASE Halt \/ Finish
  <2>1. /\ UNCHANGED <<live, inside, asked, frozen, manifest, identity, history, resuming, root>>
        /\ pc \in {"dispatched", "failed"}
        /\ \E life \in {"waiting-for-orchestrator", "terminal"} :
             /\ Write(life)
             /\ life = "waiting-for-orchestrator" => pc = "dispatched" /\ ~resuming
    BY <1>8 DEF Halt, Finish
  <2>2. \/ pc' = "unrecorded" /\ meta' = meta
        \/ /\ pc' = "off" /\ Recordable(history, identity)
           /\ meta'.identity = identity /\ meta'.history = history
           /\ meta'.life \in {"waiting-for-orchestrator", "terminal"}
           /\ meta'.life = "waiting-for-orchestrator" => pc = "dispatched"
    <3>1. CASE Recordable(history, identity)
      BY <2>1, <3>1 DEF Write
    <3>2. CASE ~Recordable(history, identity)
      BY <2>1, <3>2 DEF Write
    <3> QED
      BY <3>1, <3>2
  <2>3. CASE pc' = "unrecorded" /\ meta' = meta
    BY <2>1, <2>3 DEF ITypeOK, Record, HasCopy, AllWellFormed, Recordable, Token
  <2>4. CASE pc' # "unrecorded"
    BY <2>1, <2>2, <2>4 DEF Inv, Settled, ITypeOK, Record, HasCopy, AllWellFormed, Recordable,
                            Token, Lives
  <2> QED
    BY <2>3, <2>4, <2>2
<1>9. CASE Resume
  <2>1. /\ UNCHANGED <<live, inside, asked, frozen, manifest, meta, root>>
        /\ identity' = meta.identity /\ history' = meta.history /\ resuming'
        /\ pc' = "top" /\ frozen = meta.identity.art
        /\ meta.life \in {"waiting-for-orchestrator", "response-applied"}
    BY <1>9 DEF Resume, Acceptable, CopyIsVerified
  <2> QED
    BY <2>1 DEF ITypeOK, Record, HasCopy, AllWellFormed, Recordable, Token
<1>10. CASE UNCHANGED vars
  BY <1>10 DEF vars, ITypeOK, Record, HasCopy, AllWellFormed, Recordable, Token
<1> QED
  BY <1>1, <1>2, <1>3, <1>4, <1>5, <1>6, <1>7, <1>8, <1>9, <1>10 DEF Next

\* A run that halts for its orchestrator leaves a run.json, a copy and a
\* sidecar that --resume takes: none of the checks of
\* validate_lifecycle_and_snapshot, history_from_meta, resume_review_context
\* and SnapshotIdentity.verify fails on what the code itself wrote, however
\* the artifact, its link and the code are edited before and after, unless
\* git has collected the commit.
THEOREM HaltsAreTaken == Spec => []HaltsAreAcceptable
<1>1. Inv /\ ITypeOK /\ Record => HaltsAreAcceptable
  <2> SUFFICES ASSUME Inv, ITypeOK, Record, pc = "off",
                      meta.life = "waiting-for-orchestrator", meta.identity.commit \notin lost
               PROVE  Acceptable
    BY DEF HaltsAreAcceptable
  <2>1. ContextIsBound
    BY DEF Record, ContextIsBound
  <2>2. CopyIsVerified(meta.identity)
    BY DEF Inv, Holds, Record, CopyIsVerified
  <2> QED
    BY <2>1, <2>2 DEF Acceptable, Record, AllWellFormed
<1>2. Spec => [](Inv /\ ITypeOK /\ Record)
  BY InitInv, NextInv, InitRecord, NextRecord, PTL DEF Spec
<1> QED
  BY <1>1, <1>2, PTL

-----------------------------------------------------------------------------
(* What was reviewed, run.json takes.                                      *)

\* A history that an edit cannot bring into conflict with itself: outside of
\* a repository, the text at the path is either the one under review or one
\* no revision had.
Lasting(h, id) ==
    /\ \A i \in 1 .. Len(h) : h[i].commit <= Len(commits) /\ h[i].art <= edits + 1
    /\ ~explicit =>
         /\ id.commit # 0 => \A i \in 1 .. Len(h) : h[i].commit # 0
         /\ \A i \in 1 .. Len(h) : h[i].commit = 0 /\ h[i].art = live => i = Len(h)

HistoryLasts ==
    history # <<>> => Recordable(history, identity) /\ Lasting(history, identity)

\* A document on record is still a document: scopes get no repository later.
RecordLasts ==
    meta.life # "none" => /\ history # <<>> /\ Lasting(meta.history, meta.identity)
                          /\ meta.identity.commit = 0 => identity.commit = 0

Chained ==
    /\ live <= edits + 1 /\ frozen <= edits + 1
    /\ HistoryLasts /\ RecordLasts
    /\ pc \in {"top", "dispatch", "dispatched", "failed"} => history # <<>>
    /\ pc \in {"new", "scope", "copy"} => history = <<>>
    /\ pc \in {"copy", "bind", "snapshot", "check"} /\ explicit => root
    /\ pc \in {"snapshot", "check"} => root
    /\ pc \in {"bind", "snapshot", "check"} /\ history # <<>> /\ root => identity.commit # 0
    /\ pc = "bind" /\ ~explicit =>
         \A i \in 1 .. Len(history) : history[i].commit = 0 => history[i].art \notin {frozen, live}
    /\ pc = "check" => \A i \in 1 .. Len(history) : history[i].commit < Len(commits)
    /\ pc # "unrecorded"

LEMMA InitChained == Init => Chained
BY DEF Init, NoMeta, Nothing, Chained, HistoryLasts, RecordLasts

\* Outside of an explicit scope, another commit is another revision, and so is
\* another text where there is no commit.
LEMMA TokensDiffer ==
    ASSUME ~explicit, NEW a \in Identities, NEW b \in Identities,
           a.commit # b.commit \/ (a.commit = 0 /\ a.art # b.art)
    PROVE  Token(a) # Token(b)
<1>1. \A id \in Identities : Token(id) = CommitToken(id)
  BY DEF Token
<1>2. CASE a.commit # 0
  BY <1>1, <1>2 DEF CommitToken, Identities
<1>3. CASE a.commit = 0
  BY <1>1, <1>3 DEF CommitToken, Identities
<1> QED
  BY <1>2, <1>3

\* A revision that none of the history is taken for continues it.
LEMMA RecordableExtends ==
    ASSUME ITypeOK, NEW id \in Identities,
           history # <<>> => Recordable(history, identity),
           id.pred = (IF history = <<>> THEN <<>> ELSE Token(identity)),
           IF explicit THEN id.commit # 0 /\ ~id.bound ELSE id.commit # 0 => id.bound,
           ~explicit => \A i \in 1 .. Len(history) : Token(history[i]) # Token(id)
    PROVE  Recordable(Append(history, id), id)
<1> DEFINE h == Append(history, id)
           n == Len(history)
<1>1. /\ n \in Nat /\ h \in Seq(Identities) /\ Len(h) = n + 1 /\ h[n + 1] = id /\ h # <<>>
      /\ \A i \in 1 .. n : h[i] = history[i]
  <2>1. history \in Seq(Identities)
    BY DEF ITypeOK
  <2>2. n \in Nat /\ h \in Seq(Identities) /\ Len(h) = n + 1
    BY <2>1
  <2>3. h[n + 1] = id /\ \A i \in 1 .. n : h[i] = history[i]
    BY <2>1
  <2> QED
    BY <2>2, <2>3
<1>2. history # <<>> => n > 0 /\ history[n] = identity
  BY DEF Recordable, ITypeOK
<1>3. history = <<>> => n = 0
  OBVIOUS
<1>4. history # <<>> =>
        /\ \A i \in 1 .. n : history[i].pred = (IF i = 1 THEN <<>> ELSE Token(history[i - 1]))
        /\ \A i, j \in 1 .. n : i # j /\ Token(history[i]) = Token(history[j])
                                  => explicit /\ ~history[j].bound
        /\ \A i \in 1 .. n : IF explicit THEN history[i].commit # 0 /\ ~history[i].bound
                             ELSE history[i].commit # 0 => history[i].bound
  BY DEF Recordable
<1> HIDE DEF h, n
<1>5. \A i \in 1 .. Len(h) : h[i].pred = (IF i = 1 THEN <<>> ELSE Token(h[i - 1]))
  <2> TAKE i \in 1 .. Len(h)
  <2>1. CASE i = n + 1
    <3>1. CASE history = <<>>
      BY <1>1, <1>3, <2>1, <3>1
    <3>2. CASE history # <<>>
      <4>1. i # 1 /\ i - 1 = n /\ h[i - 1] = identity
        BY <1>1, <1>2, <2>1, <3>2
      <4> QED
        BY <1>1, <2>1, <3>2, <4>1
    <3> QED
      BY <3>1, <3>2
  <2>2. CASE i \in 1 .. n
    <3>1. history # <<>> /\ h[i] = history[i] /\ (i # 1 => h[i - 1] = history[i - 1])
      BY <1>1, <1>3, <2>2
    <3> QED
      BY <1>4, <2>2, <3>1
  <2> QED
    BY <1>1, <2>1, <2>2
<1>6. \A i \in 1 .. Len(h) : IF explicit THEN h[i].commit # 0 /\ ~h[i].bound
                             ELSE h[i].commit # 0 => h[i].bound
  <2> TAKE i \in 1 .. Len(h)
  <2>1. CASE i = n + 1
    BY <1>1, <2>1
  <2>2. CASE i \in 1 .. n
    BY <1>1, <1>3, <1>4, <2>2
  <2> QED
    BY <1>1, <2>1, <2>2
<1>7. \A i, j \in 1 .. Len(h) : i # j /\ Token(h[i]) = Token(h[j]) => explicit /\ ~h[j].bound
  <2> SUFFICES ASSUME NEW i \in 1 .. Len(h), NEW j \in 1 .. Len(h), i # j,
                      Token(h[i]) = Token(h[j])
               PROVE  explicit /\ ~h[j].bound
    OBVIOUS
  <2>1. CASE explicit
    BY <1>6, <2>1
  <2>2. CASE ~explicit
    <3>1. CASE i \in 1 .. n /\ j \in 1 .. n
      BY <1>1, <1>3, <1>4, <3>1
    <3>2. CASE i = n + 1 \/ j = n + 1
      BY <1>1, <2>2, <3>2 DEF n
    <3> QED
      BY <1>1, <3>1, <3>2
  <2> QED
    BY <2>1, <2>2
<1>8. Recordable(h, id)
  BY <1>1, <1>5, <1>6, <1>7 DEF Recordable
<1> QED
  BY <1>8 DEF h


\* The steps that take no identity, write nothing and leave the artifact.
LEMMA ChainedStays ==
    ASSUME Inv, ITypeOK, Chained, UNCHANGED <<live, explicit, identity, history, meta, edits>>,
           commits' = commits \/ \E tree \in Trees : commits' = Append(commits, tree)
    PROVE  live' <= edits' + 1 /\ HistoryLasts' /\ RecordLasts'
<1>1. Len(commits) \in Nat /\ Len(commits') \in Nat /\ Len(commits') >= Len(commits)
  BY DEF Inv, FTypeOK
<1>2. ASSUME NEW h \in Seq(Identities), NEW id, Lasting(h, id)
      PROVE  /\ \A i \in 1 .. Len(h) : h[i].commit <= Len(commits') /\ h[i].art <= edits' + 1
             /\ ~explicit' =>
                  /\ id.commit # 0 => \A i \in 1 .. Len(h) : h[i].commit # 0
                  /\ \A i \in 1 .. Len(h) : h[i].commit = 0 /\ h[i].art = live' => i = Len(h)
  <2>1. \A i \in 1 .. Len(h) : h[i].commit \in Nat
    <3>1. \A i \in 1 .. Len(h) : h[i] \in Identities
      BY <1>2
    <3> QED
      BY <3>1 DEF Identities
  <2> QED
    BY <1>1, <1>2, <2>1 DEF Lasting
<1>3. HistoryLasts'
  <2> SUFFICES ASSUME history # <<>> PROVE Recordable(history, identity)' /\ Lasting(history, identity)'
    BY DEF HistoryLasts
  <2>1. Recordable(history, identity)'
    BY DEF Chained, HistoryLasts, Recordable, Token
  <2>2. Lasting(history, identity)'
    BY <1>2 DEF Chained, HistoryLasts, ITypeOK, Lasting
  <2> QED
    BY <2>1, <2>2
<1>4. RecordLasts'
  <2>1. meta.life # "none" => Lasting(meta.history, meta.identity)'
    BY <1>2 DEF Chained, RecordLasts, ITypeOK, Lasting
  <2> QED
    BY <2>1 DEF Chained, RecordLasts
<1> QED
  BY <1>3, <1>4 DEF Chained

\* A new identity, of a commit that no revision had or of a text that none had.
LEMMA AdoptKeepsChained ==
    ASSUME Inv, ITypeOK, Record, Chained,
           UNCHANGED <<live, commits, explicit, frozen, meta, root, edits>>,
           NEW commit \in Nat, NEW bound \in BOOLEAN, Adopt(commit, bound),
           pc \in {"bind", "check"}, commit <= Len(commits),
           IF explicit THEN commit # 0 /\ ~bound ELSE bound <=> commit # 0,
           commit # 0 =>
             /\ \A i \in 1 .. Len(history) : history[i].commit < commit
             /\ history # <<>> => identity.commit # 0,
           commit = 0 =>
             \A i \in 1 .. Len(history) : history[i].commit = 0 => history[i].art \notin {frozen, live}
    PROVE  Chained'
<1> DEFINE id == [commit |-> commit, art |-> frozen, pred |-> Predecessor, bound |-> bound]
           n  == Len(history)
<1>1. identity' = id /\ history' = Append(history, id) /\ pc' \in {"top", "dispatch"}
  BY DEF Adopt
<1>2. id.commit = commit /\ id.art = frozen /\ id.bound = bound /\ id.pred = Predecessor
  OBVIOUS
<1>3. id \in Identities
  BY <1>1, AdoptExtendsHistory DEF Record, Inv
<1> HIDE DEF id
<1>4. history \in Seq(Identities) /\ frozen \in Nat /\ live \in Nat /\ edits \in Nat
  BY DEF ITypeOK, Inv, FTypeOK
<1>5. id.pred = (IF history = <<>> THEN <<>> ELSE Token(identity))
  <2>1. history # <<>> => n \in 1 .. n /\ history[n] = identity
    BY <1>4 DEF Chained, HistoryLasts, Recordable
  <2>2. history # <<>> /\ explicit => ~identity.bound
    BY <2>1 DEF Chained, HistoryLasts, Recordable
  <2> QED
    BY <1>2, <2>2 DEF Predecessor, Token
<1>6. ~explicit => \A i \in 1 .. Len(history) : Token(history[i]) # Token(id)
  <2> SUFFICES ASSUME ~explicit, NEW i \in 1 .. Len(history) PROVE Token(history[i]) # Token(id)
    OBVIOUS
  <2>1. history[i] \in Identities
    BY <1>4
  <2>2. history[i].commit # id.commit \/ (history[i].commit = 0 /\ history[i].art # id.art)
    BY <1>2, <2>1 DEF Identities
  <2> QED
    BY <1>3, <2>1, <2>2, TokensDiffer
<1>7. Recordable(history', identity')
  <2>1. IF explicit THEN id.commit # 0 /\ ~id.bound ELSE id.commit # 0 => id.bound
    BY <1>2
  <2>2. history # <<>> => Recordable(history, identity)
    BY DEF Chained, HistoryLasts
  <2> QED
    BY <1>1, <1>3, <1>5, <1>6, <2>1, <2>2, RecordableExtends
<1>8. /\ history' # <<>> /\ n \in Nat /\ Len(history') = n + 1 /\ history'[n + 1] = id
      /\ \A i \in 1 .. n : history'[i] = history[i] /\ history[i] \in Identities
  BY <1>1, <1>3, <1>4
<1>9. Lasting(history, identity)'
  <2>1. \A i \in 1 .. Len(history') : history'[i].commit <= Len(commits) /\ history'[i].art <= edits + 1
    <3> TAKE i \in 1 .. Len(history')
    <3>1. CASE i = n + 1
      BY <1>2, <1>8, <3>1 DEF Chained
    <3>2. CASE i \in 1 .. n
      <4>1. Lasting(history, identity)
        BY <1>4, <3>2 DEF Chained, HistoryLasts
      <4> QED
        BY <1>8, <3>2, <4>1 DEF Lasting
    <3> QED
      BY <1>8, <3>1, <3>2
  <2>2. ASSUME ~explicit, id.commit # 0, NEW i \in 1 .. Len(history')
        PROVE  history'[i].commit # 0
    <3>1. CASE i = n + 1
      BY <1>8, <2>2, <3>1
    <3>2. CASE i \in 1 .. n
      BY <1>2, <1>4, <1>8, <2>2, <3>2 DEF Chained, HistoryLasts, Lasting
    <3> QED
      BY <1>8, <3>1, <3>2
  <2>3. ASSUME ~explicit, NEW i \in 1 .. Len(history'), history'[i].commit = 0, history'[i].art = live
        PROVE  i = Len(history')
    <3>1. CASE id.commit # 0
      BY <2>2, <2>3, <3>1
    <3>2. CASE id.commit = 0 /\ i \in 1 .. n
      BY <1>2, <1>8, <2>3, <3>2
    <3> QED
      BY <1>8, <3>1, <3>2
  <2> QED
    BY <1>1, <2>1, <2>2, <2>3 DEF Lasting
<1>10. Recordable(history, identity)'
  BY <1>7 DEF Recordable, Token
<1>11. HistoryLasts' /\ RecordLasts'
  <2>1. meta.life # "none" => Lasting(meta.history, meta.identity)'
    BY DEF Chained, RecordLasts, Lasting
  <2>2. RecordLasts'
    BY <1>1, <1>2, <1>8, <2>1 DEF Chained, RecordLasts
  <2>3. HistoryLasts'
    BY <1>9, <1>10 DEF HistoryLasts
  <2> QED
    BY <2>2, <2>3
<1> QED
  BY <1>1, <1>8, <1>11 DEF Chained

LEMMA NextChained ==
    ASSUME "document" \notin Restores, Inv, ITypeOK, Record, Chained, [Next]_vars
    PROVE  Chained'
<1> USE DEF world, objects, asked, bounds
<1> DEFINE n == Len(history)
<1>0. /\ history \in Seq(Identities) /\ n \in Nat
      /\ meta.history \in Seq(Identities)
      /\ \A i \in 1 .. n : history[i].commit \in Nat /\ history[i].art \in Nat
      /\ history # <<>> => n \in 1 .. n /\ history[n] = identity /\ identity.art \in Nat
      /\ Len(commits) \in Nat /\ live \in Nat /\ edits \in Nat /\ frozen \in Nat
  <2>1. \A i \in 1 .. n : history[i] \in Identities
    BY DEF ITypeOK
  <2>2. \A i \in 1 .. n : history[i].commit \in Nat /\ history[i].art \in Nat
    BY <2>1 DEF Identities
  <2>3. history # <<>> => n \in 1 .. n /\ history[n] = identity
    BY DEF ITypeOK, Chained, HistoryLasts, Recordable
  <2>4. history # <<>> => identity.art \in Nat
    BY <2>2, <2>3
  <2> QED
    BY <2>2, <2>3, <2>4 DEF ITypeOK, Inv, FTypeOK
<1>1. CASE Edit
  <2>1. /\ UNCHANGED <<commits, explicit, frozen, identity, history, meta, pc, root>>
        /\ edits' = edits + 1
        /\ \/ live' = live
           \/ live' = edits + 2
           \/ live' \in 1 .. edits + 1 /\ Scope \in Restores
    BY <1>1 DEF Edit
  <2>2. explicit \/ identity.commit # 0 \/ live' \in {live, edits + 2}
    BY <2>1 DEF Scope
  <2>3. live' <= edits' + 1 /\ frozen' <= edits' + 1
    BY <1>0, <2>1 DEF Chained
  <2>4. ASSUME NEW h \in Seq(Identities), NEW id, Lasting(h, id),
               explicit \/ id.commit # 0 \/ live' \in {live, edits + 2}
        PROVE  /\ \A i \in 1 .. Len(h) : h[i].commit <= Len(commits) /\ h[i].art <= edits' + 1
               /\ ~explicit =>
                    /\ id.commit # 0 => \A i \in 1 .. Len(h) : h[i].commit # 0
                    /\ \A i \in 1 .. Len(h) : h[i].commit = 0 /\ h[i].art = live' => i = Len(h)
    <3>1. \A i \in 1 .. Len(h) : h[i] \in Identities
      BY <2>4
    <3>2. \A i \in 1 .. Len(h) : h[i].art \in Nat
      BY <3>1 DEF Identities
    <3> QED
      BY <1>0, <2>1, <2>4, <3>2 DEF Lasting
  <2>5. HistoryLasts'
    <3> SUFFICES ASSUME history # <<>>
                 PROVE  Recordable(history, identity)' /\ Lasting(history, identity)'
      BY <2>1 DEF HistoryLasts
    <3>1. Recordable(history, identity)'
      BY <2>1 DEF Chained, HistoryLasts, Recordable, Token
    <3>2. Lasting(history, identity)
      BY DEF Chained, HistoryLasts
    <3>3. Lasting(history, identity)'
      BY <1>0, <2>1, <2>2, <2>4, <3>2 DEF Lasting
    <3> QED
      BY <3>1, <3>3
  <2>6. RecordLasts'
    <3> SUFFICES ASSUME meta.life # "none"
                 PROVE  Lasting(meta.history, meta.identity)'
      BY <2>1 DEF Chained, RecordLasts
    <3>1. /\ Lasting(meta.history, meta.identity)
          /\ meta.identity.commit = 0 => identity.commit = 0
      BY DEF Chained, RecordLasts
    <3> QED
      BY <1>0, <2>1, <2>2, <2>4, <3>1 DEF Lasting
  <2>7. pc = "bind" /\ ~explicit =>
          \A i \in 1 .. n : history[i].commit = 0 => history[i].art \notin {frozen, live'}
    <3> SUFFICES ASSUME pc = "bind", ~explicit, NEW i \in 1 .. n, history[i].commit = 0
                 PROVE  history[i].art \notin {frozen, live'}
      OBVIOUS
    <3>1. history # <<>> /\ Lasting(history, identity)
      BY <1>0 DEF Chained, HistoryLasts
    <3> QED
      BY <1>0, <2>1, <2>2, <3>1 DEF Chained, Lasting
  <2> QED
    BY <2>1, <2>3, <2>5, <2>6, <2>7 DEF Chained
<1>2. CASE Collect \/ Capture \/ ResolveScope \/ Copy \/ BindRepository \/ Crash
  <2>1. UNCHANGED <<live, explicit, identity, history, meta, edits, commits>>
    BY <1>2 DEF Collect, Capture, ResolveScope, Copy, BindRepository, Crash
  <2>2. live' <= edits' + 1 /\ HistoryLasts' /\ RecordLasts'
    BY <2>1, ChainedStays
  <2>3. /\ frozen' \in {frozen, live}
        /\ \/ pc = "off" /\ UNCHANGED <<pc, root>>
           \/ pc' \in {"off", "refused"} /\ UNCHANGED root
           \/ pc = "new" /\ pc' = "scope" /\ UNCHANGED root
           \/ pc = "scope" /\ pc' = "copy" /\ root' = (explicit \/ inside)
           \/ pc = "copy" /\ pc' = "bind" /\ UNCHANGED root
           \/ pc = "bind" /\ pc' = "snapshot" /\ root /\ UNCHANGED root
    BY <1>2 DEF Collect, Capture, ResolveScope, Copy, Copied, Refuse, BindRepository, Crash
  <2>4. live <= edits + 1 /\ frozen' <= edits' + 1
    BY <2>1, <2>3 DEF Chained
  <2>5. pc' = "bind" => history = <<>> /\ n = 0
    BY <2>3 DEF Chained
  <2>6. pc' \in {"off", "refused", "scope", "copy", "bind", "snapshot"}
    BY <2>3
  <2>7. CASE pc' \in {"off", "refused"}
    BY <2>1, <2>2, <2>4, <2>7 DEF Chained
  <2>8. CASE pc' \in {"scope", "copy", "bind"}
    <3>1. pc' \in {"copy", "bind"} /\ explicit => root'
      <4>1. CASE pc' = "copy"
        BY <2>3, <4>1, Zenon
      <4>2. CASE pc' = "bind"
        <5>1. pc = "copy" /\ root' = root
          BY <2>3, <4>2
        <5> QED
          BY <5>1 DEF Chained
      <4> QED
        BY <4>1, <4>2
    <3>2. history = <<>>
      BY <2>3, <2>8 DEF Chained
    <3> QED
      BY <2>1, <2>2, <2>4, <2>5, <2>8, <3>1, <3>2 DEF Chained
  <2>9. CASE pc' = "snapshot"
    BY <2>1, <2>2, <2>3, <2>4, <2>9 DEF Chained
  <2> QED
    BY <2>6, <2>7, <2>8, <2>9
<1>3. CASE BindDocument
  <2>1. ~explicit /\ pc = "bind"
    BY <1>3 DEF BindDocument, Chained
  <2>2. Adopt(0, FALSE) /\ UNCHANGED <<live, commits, explicit, frozen, meta, root, edits>>
    BY <1>3 DEF BindDocument
  <2>3. \A i \in 1 .. n : history[i].commit = 0 => history[i].art \notin {frozen, live}
    BY <2>1 DEF Chained
  <2>4. 0 <= Len(commits)
    BY <1>0
  <2> QED
    BY <2>1, <2>2, <2>3, <2>4, AdoptKeepsChained
<1>4. CASE Snapshot
  <2>1. PICK tree \in Trees : commits' = Append(commits, tree)
    BY <1>4 DEF Snapshot, Inv, FTypeOK, Trees
  <2>2. /\ UNCHANGED <<live, explicit, identity, history, meta, edits, frozen, root>>
        /\ pc = "snapshot" /\ pc' = "check"
    BY <1>4 DEF Snapshot
  <2>3. live' <= edits' + 1 /\ HistoryLasts' /\ RecordLasts'
    BY <2>1, <2>2, ChainedStays
  <2>4. Len(commits') = Len(commits) + 1
    BY <2>1 DEF Inv, FTypeOK
  <2>5. \A i \in 1 .. n : history[i].commit <= Len(commits)
    BY <1>0 DEF Chained, HistoryLasts, Lasting
  <2> QED
    BY <1>0, <2>2, <2>3, <2>4, <2>5 DEF Chained
<1>5. CASE Check
  <2>1. pc = "check" /\ UNCHANGED <<live, commits, explicit, frozen, meta, root, edits>>
    BY <1>5 DEF Check
  <2>2. CASE Adopt(Len(commits), ~explicit)
    <3>1. /\ Len(commits) # 0 /\ (~explicit) \in BOOLEAN
          /\ \A i \in 1 .. n : history[i].commit < Len(commits)
          /\ history # <<>> => identity.commit # 0
      BY <2>1 DEF Inv, FTypeOK, Chained
    <3>2. IF explicit THEN Len(commits) # 0 /\ ~(~explicit) ELSE (~explicit) <=> Len(commits) # 0
      BY <3>1
    <3>3. Len(commits) \in Nat /\ Len(commits) <= Len(commits)
      BY <1>0
    <3> QED
      BY <2>1, <2>2, <3>1, <3>2, <3>3, AdoptKeepsChained
  <2>3. CASE UNCHANGED <<identity, history>> /\ pc' \in {"refused", "off"}
    <3>1. live' <= edits' + 1 /\ HistoryLasts' /\ RecordLasts'
      BY <2>1, <2>3, ChainedStays
    <3> QED
      BY <2>1, <2>3, <3>1 DEF Chained
  <2> QED
    BY <1>5, <2>2, <2>3 DEF Check
<1>6. CASE Keep \/ Dispatch \/ Continue
  <2>1. /\ UNCHANGED <<live, explicit, identity, history, edits, commits, frozen, root>>
        /\ pc \in {"top", "dispatch", "dispatched"} /\ pc' \in {"top", "dispatch", "dispatched"}
    BY <1>6 DEF Keep, Dispatch, Continue
  <2>2. /\ meta'.identity = meta.identity /\ meta'.history = meta.history
        /\ meta'.life # "none" => meta.life # "none"
    BY <1>6 DEF Keep, Dispatch, Continue, Inv, FTypeOK, MetaFields, Record
  <2>3. HistoryLasts'
    BY <2>1 DEF Chained, HistoryLasts, Recordable, Lasting, Token
  <2>4. RecordLasts'
    BY <2>1, <2>2 DEF Chained, RecordLasts, Lasting
  <2> QED
    BY <2>1, <2>3, <2>4 DEF Chained
<1>7. CASE Refreeze
  <2>1. /\ UNCHANGED <<live, explicit, identity, history, meta, edits, commits>>
        /\ pc = "top" /\ frozen' = live
        /\ \/ pc' \in {"failed", "dispatch"} /\ UNCHANGED root
           \/ /\ pc' = "bind" /\ live # identity.art
              /\ root' = (identity.commit # 0 /\ (explicit \/ inside))
    BY <1>7 DEF Refreeze
  <2>2. live' <= edits' + 1 /\ HistoryLasts' /\ RecordLasts'
    BY <2>1, ChainedStays
  <2>3. history # <<>> /\ Recordable(history, identity) /\ Lasting(history, identity)
    BY <2>1 DEF Chained, HistoryLasts
  <2>4. explicit => identity.commit # 0
    BY <1>0, <2>3 DEF Recordable
  <2>5. ~explicit /\ live # identity.art =>
          \A i \in 1 .. n : history[i].commit = 0 => history[i].art # live
    BY <1>0, <2>3 DEF Lasting
  <2> QED
    BY <2>1, <2>2, <2>3, <2>4, <2>5 DEF Chained
<1>8. CASE Halt \/ Finish
  <2>1. /\ UNCHANGED <<live, explicit, identity, history, edits, commits, frozen, root>>
        /\ pc \in {"dispatched", "failed"}
        /\ \E life \in {"waiting-for-orchestrator", "terminal"} : Write(life)
    BY <1>8 DEF Halt, Finish
  <2>2. history # <<>> /\ Recordable(history, identity)
    BY <2>1 DEF Chained, HistoryLasts
  <2>3. pc' = "off" /\ meta'.identity = identity /\ meta'.history = history
    BY <2>1, <2>2 DEF Write
  <2>4. HistoryLasts'
    BY <2>1 DEF Chained, HistoryLasts, Recordable, Lasting, Token
  <2>5. RecordLasts'
    BY <2>1, <2>2, <2>3 DEF Chained, HistoryLasts, RecordLasts, Lasting
  <2> QED
    BY <2>1, <2>3, <2>4, <2>5 DEF Chained
<1>9. CASE Resume
  <2>1. /\ UNCHANGED <<live, explicit, edits, commits, frozen, root, meta>>
        /\ pc' = "top" /\ identity' = meta.identity /\ history' = meta.history
        /\ meta.life # "none" /\ Recordable(meta.history, meta.identity)
    BY <1>9 DEF Resume, Acceptable
  <2>2. Lasting(meta.history, meta.identity) /\ meta.history # <<>>
    BY <2>1 DEF Chained, RecordLasts, Recordable
  <2>3. HistoryLasts'
    BY <2>1, <2>2 DEF HistoryLasts, Recordable, Lasting, Token
  <2>4. RecordLasts'
    BY <2>1, <2>2 DEF RecordLasts, Lasting
  <2> QED
    BY <2>1, <2>2, <2>3, <2>4 DEF Chained
<1>10. CASE UNCHANGED vars
  <2>1. UNCHANGED <<live, explicit, identity, history, meta, edits, commits, pc, root, frozen>>
    BY <1>10 DEF vars
  <2>2. live' <= edits' + 1 /\ HistoryLasts' /\ RecordLasts'
    BY <2>1, ChainedStays
  <2> QED
    BY <2>1, <2>2 DEF Chained
<1> QED
  BY <1>1, <1>2, <1>3, <1>4, <1>5, <1>6, <1>7, <1>8, <1>9, <1>10 DEF Next

\* Whatever a loop has reviewed, record_snapshot takes: no sequence of edits,
\* links moved, halts, crashes and resumes gives a history that
\* _validate_history_chain refuses, in a scope that was given, in a repository
\* that was found, or over a document whose text never returns to an earlier
\* revision.  Where a document's text does return the code itself refuses the
\* history, as the run MCFrozenInput_reverted shows: the assumption is that
\* the operator does not do this, and leaves every other edit.
THEOREM RevisionsAreRecorded ==
    ASSUME "document" \notin Restores PROVE Spec => []RevisionsAreRecordable
<1> DEFINE IInv == Inv /\ ITypeOK /\ Record /\ Chained
<1>1. Init => IInv
  BY InitInv, InitRecord, InitChained
<1>2. IInv /\ [Next]_vars => IInv'
  BY NextInv, NextRecord, NextChained
<1>3. IInv => RevisionsAreRecordable
  BY DEF Chained, RevisionsAreRecordable
<1> HIDE DEF IInv
<1> QED
  BY <1>1, <1>2, <1>3, PTL DEF Spec
=============================================================================
