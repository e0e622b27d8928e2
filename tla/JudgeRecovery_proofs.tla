------------------------ MODULE JudgeRecovery_proofs ------------------------
(***************************************************************************)
(* Theorems about JudgeRecovery, for any roster, claims, answers, failures *)
(* and number of deaths.                                                   *)
(*                                                                         *)
(* AnswersAreCapturedOnce rests on the files alone (FileInv): an audit     *)
(* that is a batch is never written again, and every vote in the ledger or *)
(* on its way there is in the batch of its judge and round.                *)
(*                                                                         *)
(* The others compare the process that runs, and the disk, with the replay *)
(* of the disk (Course).  Their invariant says                             *)
(*   - what a round that is over (Answered) left behind is final, so the   *)
(*     replay up to the first round still open does not change             *)
(*     (FrozenStays);                                                      *)
(*   - whatever is on disk of a round - prompts, omissions, successors -   *)
(*     is what the replay of the rounds before it gives (Disk);            *)
(*   - the process is in a round whose predecessors are over, and holds    *)
(*     at every point of it what the replay gives for that point (Here).   *)
(* A process that begins again keeps to the replay because a failure left  *)
(* on disk makes it refuse: where files of a later round exist, nobody it  *)
(* takes over has failed, and its repeat counts are those of the replay.   *)
(***************************************************************************)
EXTENDS JudgeRecovery, FiniteSetTheorems, WellFoundedInduction, TLAPS

-----------------------------------------------------------------------------
(* Least elements.                                                         *)

\* Every set of naturals that is not empty has a least element.
LEMMA LeastNatural ==
    ASSUME NEW S \in SUBSET Nat, S # {}
    PROVE  \E n \in S : \A m \in S : n <= m
<1>1. PICK n \in S : \A m \in S : <<m, n>> \notin OpToRel(<, Nat)
  BY NatLessThanWellFounded, WFMin
<1>2. \A m \in S : ~(m < n)
  BY <1>1 DEF OpToRel
<1> QED
  BY <1>2

\* The claims of a run have a first one: the order _settle_round walks.
LEMMA FirstClaim ==
    ASSUME NEW S \in SUBSET (Nat \X Nat), S # {}
    PROVE  \E c \in S : \A d \in S : c[1] < d[1] \/ (c[1] = d[1] /\ c[2] <= d[2])
<1> DEFINE numbers == {c[1] : c \in S}
<1>1. numbers \in SUBSET Nat /\ numbers # {}
  OBVIOUS
<1>2. PICK n \in numbers : \A m \in numbers : n <= m
  <2> HIDE DEF numbers
  <2> QED BY <1>1, LeastNatural
<1> DEFINE versions == {c[2] : c \in {d \in S : d[1] = n}}
<1>3. versions \in SUBSET Nat /\ versions # {}
  BY <1>2
<1>4. PICK k \in versions : \A m \in versions : k <= m
  <2> HIDE DEF versions
  <2> QED BY <1>3, LeastNatural
<1>5. PICK c \in S : c[1] = n /\ c[2] = k
  BY <1>4
<1>6. \A d \in S : n <= d[1] /\ (d[1] = n => k <= d[2])
  BY <1>2, <1>4
<1>7. \A d \in S : c[1] < d[1] \/ (c[1] = d[1] /\ c[2] <= d[2])
  BY <1>5, <1>6
<1> QED
  BY <1>5, <1>7

-----------------------------------------------------------------------------
(* The id of a successor.                                                  *)

\* _free_successor_id: whatever ids are taken, it finds one that is not, and
\* it is a version of the same claim.
LEMMA FreeSuccessorIsFree ==
    ASSUME NEW id \in Nat \X Nat, NEW taken, IsFiniteSet(taken)
    PROVE  /\ FreeSuccessorId(id, taken) \in Nat \X Nat
           /\ FreeSuccessorId(id, taken) \notin taken
           /\ FreeSuccessorId(id, taken)[1] = id[1]
           /\ FreeSuccessorId(id, taken)[2] > id[2]
<1> DEFINE range == (id[2] + 1) .. (id[2] + 1 + Cardinality(taken))
           free  == {n \in range : <<id[1], n>> \notin taken}
<1>1. Cardinality(taken) \in Nat
  BY FS_CardinalityType
<1>2. free # {}
  <2>1. SUFFICES ASSUME free = {} PROVE FALSE
    OBVIOUS
  <2> DEFINE f == [n \in range |-> <<id[1], n>>]
  <2>2. f \in [range -> taken]
    BY <2>1
  <2>3. IsFiniteSet(range) /\ Cardinality(range) = Cardinality(taken) + 1
    <3>1. id[2] + 1 \in Int /\ id[2] + 1 + Cardinality(taken) \in Int
      BY <1>1
    <3>2. (id[2] + 1 + Cardinality(taken)) - (id[2] + 1) + 1 = Cardinality(taken) + 1
          /\ ~(id[2] + 1 > id[2] + 1 + Cardinality(taken))
      BY <1>1
    <3> QED
      BY <3>1, <3>2, FS_Interval
  <2>4. \E x, y \in range : x # y /\ f[x] = f[y]
    <3> HIDE DEF f, range
    <3> QED BY <1>1, <2>2, <2>3, FS_PigeonHole
  <2> QED
    BY <2>4
<1>3. free \in SUBSET Nat
  BY <1>1
<1>4. \E n \in free : \A m \in free : n <= m
  <2> HIDE DEF free
  <2> QED BY <1>2, <1>3, LeastNatural
<1> DEFINE n == CHOOSE n \in free : \A m \in free : n <= m
<1>5. n \in free
  <2> HIDE DEF free
  <2> QED BY <1>4
<1>6. FreeSuccessorId(id, taken) = <<id[1], n>>
  BY DEF FreeSuccessorId
<1>7. n \in Nat /\ n > id[2] /\ <<id[1], n>> \notin taken
  BY <1>1, <1>5
<1> QED
  <2> HIDE DEF n
  <2> QED BY <1>6, <1>7

-----------------------------------------------------------------------------
(* Where a process stands.                                                 *)

\* Places inside a round.
Mid    == {"restore", "collect", "upgrade", "append", "settle"}
Places == Mid \cup {"round", "stopped", "finished", "refused"}

\* Where a process stands, and whom it is still to read.
Standing ==
    /\ pc \in Places /\ iteration = 1
    /\ round \in Nat /\ round >= 2
    /\ pc \in Mid => round \in Rounds
    /\ queue \subseteq Friends
    /\ pc \in {"collect", "upgrade"} => queue # {}
    /\ pc \in {"append", "settle"} => queue = {}

\* What an audit may be, and how far the one in hand is.
Audits ==
    /\ audits = [x \in Friends \X Rounds |-> audits[x]]
    /\ \A x \in Friends \X Rounds :
         /\ audits[x].version \in {0, 1, 2}
         /\ audits[x].version # 2 => audits[x].votes = {} /\ audits[x].omitted = {}
         /\ audits[x].version # 1 => audits[x].failure = NoFailure
         /\ \A v \in audits[x].votes : v.judge = x[1] /\ v.round = x[2]
         /\ \A v, w \in audits[x].votes : v.claim = w.claim => v = w
    /\ pc \in {"restore", "collect"} => \A f \in queue : Audit(f).version = 0
    /\ pc = "upgrade" =>
         /\ Audit(NextResult).version = 1
         /\ \A f \in queue \ {NextResult} : Audit(f).version = 0

\* Votes reach the ledger from a batch, and stay in it.
Traced(v) ==
    /\ <<v.judge, v.round>> \in Friends \X Rounds
    /\ audits[<<v.judge, v.round>>].version = 2
    /\ v \in audits[<<v.judge, v.round>>].votes

Published == \A v \in ledger \cup pending : Traced(v)

FileInv == Standing /\ Audits /\ Published

-----------------------------------------------------------------------------
(* What the operators return. *)

\* The votes of an answer are of its judge and its round, on claims it was
\* shown, and at most one on each.
LEMMA AcceptedVotes ==
    ASSUME NEW f, NEW payload
    PROVE  /\ \A v \in Accepted(f, payload) : v.judge = f /\ v.round = round /\ v.claim \in Slice(f)
           /\ \A v, w \in Accepted(f, payload) : v.claim = w.claim => v = w
           /\ {v.claim : v \in Accepted(f, payload)} = (DOMAIN payload) \cap Slice(f)
<1> DEFINE vote(c) == Downgraded([claim |-> c, judge |-> f, round |-> round, kind |-> payload[c].kind,
                                  evidence |-> payload[c].evidence, wording |-> payload[c].wording,
                                  counter |-> payload[c].counter])
<1>1. Accepted(f, payload) = {vote(c) : c \in (DOMAIN payload) \cap Slice(f)}
  BY DEF Accepted
<1>2. \A c : vote(c).claim = c /\ vote(c).judge = f /\ vote(c).round = round
  BY DEF Downgraded
<1> HIDE DEF vote
<1> QED
  BY <1>1, <1>2

LEMMA ReadFirst ==
    ASSUME queue # {}
    PROVE  NextResult \in queue
BY DEF NextResult

LEMMA FirstPending ==
    ASSUME pending # {}
    PROVE  NextPending \in pending
BY DEF NextPending

\* A judge with a file that is no complete batch makes a resume refuse.
LEMMA IncompleteFilesAreRefused ==
    ASSUME NEW f, Slice(f) # {}, Audit(f).version = 1
    PROVE  Objection(f) # "none"
<1>1. CASE DurableFor(f) # Slice(f)
  BY <1>1 DEF Objection
<1>2. CASE DurableFor(f) = Slice(f)
  <2>1. BatchClaims(f) = {}
    BY DEF BatchClaims
  <2>2. ~(DurableFor(f) \subseteq BatchClaims(f))
    BY <1>2, <2>1
  <2> QED
    BY <1>2, <2>2 DEF Objection
<1> QED
  BY <1>1, <1>2

-----------------------------------------------------------------------------
(* The files. *)

LEMMA InitFiles == RInit => FileInv
<1> SUFFICES ASSUME RInit PROVE FileInv
  OBVIOUS
<1> USE DEF RInit, Init
<1>1. Standing
  BY DEF Standing, Places, Mid
<1>2. Audits
  BY DEF Audits, NoAudit, Audit
<1>3. Published
  BY DEF Published
<1> QED
  BY <1>1, <1>2, <1>3 DEF FileInv

\* What a step does to the place of the process and to the queue.
LEMMA StandingKept == Standing /\ [RNext]_allVars => Standing'
<1> SUFFICES ASSUME Standing, [RNext]_allVars PROVE Standing'
  OBVIOUS
<1> USE DEF Standing, Places, Mid
<1>1. ASSUME NEW why, Refuse(why) PROVE Standing'
  BY <1>1 DEF Refuse, roundVars
<1>2. CASE Recover
  <2>1. round <= LastRound
    BY <1>2 DEF Recover, Judging
  <2>2. round \in Rounds
    BY <2>1, BoundsAssumption DEF LastRound, Rounds
  <2> QED
    BY <1>2, <2>2 DEF Recover, NotCaptured, AskedNow, Dispatchable
<1>3. CASE RestoreVote
  BY <1>3 DEF RestoreVote, vars, roundVars
<1>4. CASE Restored
  BY <1>4 DEF Restored, Dispatched, OutOfBudget, NothingToAsk
<1>5. ASSUME NEW f \in Friends, NEW payload, PersistAnswer(f, payload) PROVE Standing'
  BY <1>5 DEF PersistAnswer, roundVars
<1>6. ASSUME NEW f \in Friends, PersistBatch(f) PROVE Standing'
  BY <1>6 DEF PersistBatch, Persisted
<1>7. ASSUME NEW f \in Friends, NEW reason, PersistFailure(f, reason) PROVE Standing'
  BY <1>7 DEF PersistFailure, Persisted
<1>8. CASE AppendVote
  BY <1>8 DEF AppendVote, vars, roundVars
<1>9. CASE Appended
  BY <1>9 DEF Appended
<1>10. CASE RecoverableSettle
  BY <1>10 DEF RecoverableSettle, SettleClaim
<1>11. CASE StopOrFinish
  BY <1>11 DEF StopOrFinish, RoundsOver, AllTerminal, Leave, roundVars
<1>12. CASE Finish
  BY <1>12 DEF Finish, roundVars
<1>13. CASE CrashAndResume
  BY <1>13 DEF CrashAndResume
<1>14. CASE UNCHANGED allVars
  BY <1>14 DEF allVars, vars, roundVars
<1> QED
  BY <1>1, <1>2, <1>3, <1>4, <1>5, <1>6, <1>7, <1>8, <1>9, <1>10, <1>11, <1>12, <1>13, <1>14
     DEF RNext, RProgress, RefuseRecovery

\* The round's judges without a batch have no file at all.
LEMMA NothingHalfDone ==
    ASSUME Standing, Audits, Recover
    PROVE  /\ \A f \in NotCaptured : Audit(f).version = 0
           /\ \A f \in AskedNow : Audit(f).version # 1
           /\ round \in Rounds
<1>1. \A f \in AskedNow : Objection(f) = "none" /\ Slice(f) # {} /\ f \in Friends
  BY DEF Recover, AskedNow, Dispatchable
<1>2. \A f \in AskedNow : Audit(f).version # 1
  BY <1>1, IncompleteFilesAreRefused
<1>3. round \in Rounds
  BY BoundsAssumption DEF Recover, Judging, LastRound, Rounds, Standing
<1>4. \A f \in AskedNow : Audit(f).version \in {0, 1, 2}
  BY <1>1, <1>3 DEF Audits, Audit
<1> QED
  BY <1>2, <1>3, <1>4 DEF NotCaptured, Captured

\* What writing one audit leaves of the others.
LEMMA AuditWritten ==
    ASSUME Audits, NEW f \in Friends, round \in Rounds, NEW audit, WriteAudit(f, audit)
    PROVE  /\ audits' = [x \in Friends \X Rounds |-> audits'[x]]
           /\ audits'[<<f, round>>] = audit
           /\ \A x \in Friends \X Rounds : x # <<f, round>> => audits'[x] = audits[x]
           /\ \A g \in Friends \ {f} : audits'[<<g, round>>] = audits[<<g, round>>]
BY DEF Audits, WriteAudit

LEMMA AuditsKept == FileInv /\ [RNext]_allVars => Audits'
<1> SUFFICES ASSUME FileInv, [RNext]_allVars PROVE Audits'
  OBVIOUS
<1>0. Standing' /\ Standing /\ Audits
  BY StandingKept DEF FileInv
<1> USE DEF Audits, Audit, NextResult
<1>a. ASSUME audits' = audits, pc' \notin {"restore", "collect", "upgrade"} PROVE Audits'
  BY <1>0, <1>a
<1>1. ASSUME NEW why, Refuse(why) PROVE Audits'
  BY <1>1, <1>a DEF Refuse, durable
<1>2. CASE Recover
  <2>1. \A f \in NotCaptured : Audit(f).version = 0
    BY <1>0, <1>2, NothingHalfDone
  <2>2. audits' = audits /\ pc' = "restore" /\ queue' = NotCaptured /\ round' = round
    BY <1>2 DEF Recover, durable
  <2> QED
    BY <1>0, <2>1, <2>2
<1>3. CASE RestoreVote
  BY <1>0, <1>3 DEF RestoreVote, vars, roundVars
<1>4. CASE Restored
  <2>1. audits' = audits /\ queue' = queue /\ round' = round /\ pc = "restore"
    BY <1>4 DEF Restored, durable
  <2>2. pc' \in {"collect", "stopped", "settle"}
    BY <1>4 DEF Restored, Dispatched, OutOfBudget, NothingToAsk
  <2> QED
    BY <1>0, <2>1, <2>2
<1>5. ASSUME NEW f \in Friends, NEW payload, PersistAnswer(f, payload) PROVE Audits'
  <2> DEFINE audit == [NoAudit EXCEPT !.version = 1, !.prompt = prompts[f]]
  <2>1. audit.version = 1 /\ audit.votes = {} /\ audit.omitted = {}
    BY DEF NoAudit
  <2>2. /\ WriteAudit(f, audit) /\ pc = "collect" /\ pc' = "upgrade" /\ f = NextResult
        /\ queue' = queue /\ round' = round /\ round \in Rounds /\ queue \subseteq Friends
    BY <1>0, <1>5 DEF PersistAnswer, roundVars, Standing, Mid
  <2> HIDE DEF audit
  <2>3. /\ audits' = [x \in Friends \X Rounds |-> audits'[x]]
        /\ audits'[<<f, round>>] = audit
        /\ \A x \in Friends \X Rounds : x # <<f, round>> => audits'[x] = audits[x]
        /\ \A g \in Friends \ {f} : audits'[<<g, round>>] = audits[<<g, round>>]
    BY <1>0, <2>2, AuditWritten
  <2>4. NextResult' = f
    BY <2>2
  <2>5. \A x \in Friends \X Rounds :
          /\ audits'[x].version \in {0, 1, 2}
          /\ audits'[x].version # 2 => audits'[x].votes = {} /\ audits'[x].omitted = {}
          /\ audits'[x].version # 1 => audits'[x].failure = NoFailure
          /\ \A v \in audits'[x].votes : v.judge = x[1] /\ v.round = x[2]
          /\ \A v, w \in audits'[x].votes : v.claim = w.claim => v = w
    BY <1>0, <2>1, <2>3
  <2>6. \A g \in queue' \ {f} : audits'[<<g, round'>>].version = 0
    BY <1>0, <2>2, <2>3
  <2> QED
    BY <2>1, <2>2, <2>3, <2>4, <2>5, <2>6
<1>6. ASSUME NEW f \in Friends, PersistBatch(f) PROVE Audits'
  <2> DEFINE audit == [version |-> 2, prompt |-> prompts[f], votes |-> Accepted(f, inHand),
                       omitted |-> Slice(f) \ DOMAIN inHand, failure |-> NoFailure]
  <2>1. /\ audit.version = 2 /\ audit.failure = NoFailure
        /\ \A v \in audit.votes : v.judge = f /\ v.round = round
        /\ \A v, w \in audit.votes : v.claim = w.claim => v = w
    BY AcceptedVotes
  <2>2. /\ WriteAudit(f, audit) /\ pc = "upgrade" /\ pc' \in {"append", "collect"} /\ f = NextResult
        /\ queue' = queue \ {f} /\ round' = round /\ round \in Rounds /\ queue \subseteq Friends
    BY <1>0, <1>6 DEF PersistBatch, Persisted, Standing, Mid
  <2> HIDE DEF audit
  <2>3. /\ audits' = [x \in Friends \X Rounds |-> audits'[x]]
        /\ audits'[<<f, round>>] = audit
        /\ \A x \in Friends \X Rounds : x # <<f, round>> => audits'[x] = audits[x]
        /\ \A g \in Friends \ {f} : audits'[<<g, round>>] = audits[<<g, round>>]
    BY <1>0, <2>2, AuditWritten
  <2>5. \A x \in Friends \X Rounds :
          /\ audits'[x].version \in {0, 1, 2}
          /\ audits'[x].version # 2 => audits'[x].votes = {} /\ audits'[x].omitted = {}
          /\ audits'[x].version # 1 => audits'[x].failure = NoFailure
          /\ \A v \in audits'[x].votes : v.judge = x[1] /\ v.round = x[2]
          /\ \A v, w \in audits'[x].votes : v.claim = w.claim => v = w
    BY <1>0, <2>1, <2>3
  <2>6. \A g \in queue' : audits'[<<g, round'>>].version = 0
    BY <1>0, <2>2, <2>3
  <2> QED
    BY <2>2, <2>3, <2>5, <2>6
<1>7. ASSUME NEW f \in Friends, NEW reason, PersistFailure(f, reason) PROVE Audits'
  <2> DEFINE audit == [NoAudit EXCEPT !.version = 1, !.prompt = prompts[f], !.failure = reason]
  <2>1. audit.version = 1 /\ audit.votes = {} /\ audit.omitted = {}
    BY DEF NoAudit
  <2>2. /\ WriteAudit(f, audit) /\ pc = "collect" /\ pc' \in {"append", "collect"}
        /\ queue' = queue \ {f} /\ round' = round /\ round \in Rounds /\ queue \subseteq Friends
    BY <1>0, <1>7 DEF PersistFailure, Persisted, Standing, Mid
  <2> HIDE DEF audit
  <2>3. /\ audits' = [x \in Friends \X Rounds |-> audits'[x]]
        /\ audits'[<<f, round>>] = audit
        /\ \A x \in Friends \X Rounds : x # <<f, round>> => audits'[x] = audits[x]
        /\ \A g \in Friends \ {f} : audits'[<<g, round>>] = audits[<<g, round>>]
    BY <1>0, <2>2, AuditWritten
  <2>5. \A x \in Friends \X Rounds :
          /\ audits'[x].version \in {0, 1, 2}
          /\ audits'[x].version # 2 => audits'[x].votes = {} /\ audits'[x].omitted = {}
          /\ audits'[x].version # 1 => audits'[x].failure = NoFailure
          /\ \A v \in audits'[x].votes : v.judge = x[1] /\ v.round = x[2]
          /\ \A v, w \in audits'[x].votes : v.claim = w.claim => v = w
    BY <1>0, <2>1, <2>3
  <2>6. \A g \in queue' : audits'[<<g, round'>>].version = 0
    BY <1>0, <2>2, <2>3
  <2> QED
    BY <2>2, <2>3, <2>5, <2>6
<1>8. CASE AppendVote
  BY <1>0, <1>8, <1>a DEF AppendVote, vars, roundVars
<1>9. CASE Appended
  BY <1>9, <1>a DEF Appended, durable
<1>10. CASE RecoverableSettle
  BY <1>10, <1>a DEF RecoverableSettle, SettleClaim
<1>11. CASE StopOrFinish
  BY <1>11, <1>a DEF StopOrFinish, RoundsOver, AllTerminal, Leave, durable
<1>12. CASE Finish
  BY <1>12, <1>a DEF Finish, durable
<1>13. CASE CrashAndResume
  BY <1>13, <1>a DEF CrashAndResume, durable
<1>14. CASE UNCHANGED allVars
  BY <1>0, <1>14 DEF allVars, vars, roundVars, durable
<1> QED
  BY <1>1, <1>2, <1>3, <1>4, <1>5, <1>6, <1>7, <1>8, <1>9, <1>10, <1>11, <1>12, <1>13, <1>14
     DEF RNext, RProgress, RefuseRecovery

-----------------------------------------------------------------------------
(* What is on disk, and the record it is. *)

\* A step writes the audit of a judge that has no batch, or none.
LEMMA BatchesStay ==
    ASSUME FileInv, [RNext]_allVars
    PROVE  \A x \in Friends \X Rounds : audits[x].version = 2 => audits'[x] = audits[x]
<1>0. Standing /\ Audits
  BY DEF FileInv
<1>a. ASSUME audits' = audits
      PROVE  \A x \in Friends \X Rounds : audits[x].version = 2 => audits'[x] = audits[x]
  BY <1>a
<1>b. ASSUME NEW f \in Friends, NEW audit, WriteAudit(f, audit), round \in Rounds, Audit(f).version # 2
      PROVE  \A x \in Friends \X Rounds : audits[x].version = 2 => audits'[x] = audits[x]
  BY <1>0, <1>b, AuditWritten DEF Audit
<1>1. ASSUME NEW why, Refuse(why) PROVE audits' = audits
  BY <1>1 DEF Refuse, durable
<1>2. CASE Recover
  BY <1>2, <1>a DEF Recover, durable
<1>3. CASE RestoreVote
  BY <1>3, <1>a DEF RestoreVote
<1>4. CASE Restored
  BY <1>4, <1>a DEF Restored, durable
<1>5. ASSUME NEW f \in Friends, NEW payload, PersistAnswer(f, payload)
      PROVE  \A x \in Friends \X Rounds : audits[x].version = 2 => audits'[x] = audits[x]
  <2>1. f \in queue /\ pc = "collect" /\ round \in Rounds
    BY <1>0, <1>5, ReadFirst DEF PersistAnswer, Standing, Mid
  <2>2. Audit(f).version # 2
    BY <1>0, <2>1 DEF Audits
  <2> QED
    BY <1>5, <1>b, <2>1, <2>2 DEF PersistAnswer
<1>6. ASSUME NEW f \in Friends, PersistBatch(f)
      PROVE  \A x \in Friends \X Rounds : audits[x].version = 2 => audits'[x] = audits[x]
  <2>1. f = NextResult /\ pc = "upgrade" /\ round \in Rounds
    BY <1>0, <1>6 DEF PersistBatch, Standing, Mid
  <2>2. Audit(f).version # 2
    BY <1>0, <2>1 DEF Audits
  <2> QED
    BY <1>6, <1>b, <2>1, <2>2 DEF PersistBatch
<1>7. ASSUME NEW f \in Friends, NEW reason, PersistFailure(f, reason)
      PROVE  \A x \in Friends \X Rounds : audits[x].version = 2 => audits'[x] = audits[x]
  <2>1. f \in queue /\ pc = "collect" /\ round \in Rounds
    BY <1>0, <1>7, ReadFirst DEF PersistFailure, Standing, Mid
  <2>2. Audit(f).version # 2
    BY <1>0, <2>1 DEF Audits
  <2> QED
    BY <1>7, <1>b, <2>1, <2>2 DEF PersistFailure
<1>8. CASE AppendVote
  BY <1>8, <1>a DEF AppendVote
<1>9. CASE Appended
  BY <1>9, <1>a DEF Appended, durable
<1>10. CASE RecoverableSettle
  BY <1>10, <1>a DEF RecoverableSettle
<1>11. CASE StopOrFinish
  BY <1>11, <1>a DEF StopOrFinish, durable
<1>12. CASE Finish
  BY <1>12, <1>a DEF Finish, durable
<1>13. CASE CrashAndResume
  BY <1>13, <1>a DEF CrashAndResume, durable
<1>14. CASE UNCHANGED allVars
  BY <1>14, <1>a DEF allVars, durable
<1> QED
  BY <1>1, <1>2, <1>3, <1>4, <1>5, <1>6, <1>7, <1>8, <1>9, <1>10, <1>11, <1>12, <1>13, <1>14, <1>a
     DEF RNext, RProgress, RefuseRecovery

LEMMA PublishedKept == FileInv /\ [RNext]_allVars => Published'
<1> SUFFICES ASSUME FileInv, [RNext]_allVars PROVE Published'
  OBVIOUS
<1>0. Standing /\ Audits /\ Published
  BY DEF FileInv
<1>1. \A v : Traced(v) => Traced(v)'
  BY BatchesStay DEF Traced
<1>a. ASSUME ledger' \cup pending' \subseteq ledger \cup pending PROVE Published'
  BY <1>0, <1>1, <1>a DEF Published
<1>b. ASSUME Append, pending # {} PROVE Published'
  BY <1>a, <1>b, FirstPending DEF Append
<1>2. CASE Recover
  <2>1. \A v \in CapturedVotes : Traced(v)
    <3>1. round \in Rounds
      BY <1>0, <1>2, NothingHalfDone
    <3>2. \A f \in Captured : f \in Friends /\ audits[<<f, round>>].version = 2
      BY DEF Captured, AskedNow, Dispatchable, Audit
    <3>3. SUFFICES ASSUME NEW f \in Captured, NEW v \in audits[<<f, round>>].votes PROVE Traced(v)
      BY DEF CapturedVotes, Audit
    <3>4. <<f, round>> \in Friends \X Rounds
      BY <3>1, <3>2
    <3>5. v.judge = f /\ v.round = round
      BY <1>0, <3>4 DEF Audits
    <3> QED
      BY <3>2, <3>3, <3>4, <3>5 DEF Traced
  <2>2. pending' \subseteq CapturedVotes /\ ledger' = ledger
    BY <1>2 DEF Recover, durable
  <2> QED
    BY <1>0, <1>1, <2>1, <2>2 DEF Published
<1>3. CASE RestoreVote
  BY <1>3, <1>b DEF RestoreVote
<1>6. ASSUME NEW f \in Friends, PersistBatch(f) PROVE Published'
  <2> DEFINE audit == [version |-> 2, prompt |-> prompts[f], votes |-> Accepted(f, inHand),
                       omitted |-> Slice(f) \ DOMAIN inHand, failure |-> NoFailure]
  <2>1. WriteAudit(f, audit) /\ pending' = pending \cup Accepted(f, inHand) /\ ledger' = ledger
    BY <1>6 DEF PersistBatch
  <2>2. audit.version = 2 /\ audit.votes = Accepted(f, inHand)
    OBVIOUS
  <2>3. round \in Rounds
    BY <1>0, <1>6 DEF PersistBatch, Standing, Mid
  <2> HIDE DEF audit
  <2>4. audits'[<<f, round>>] = audit
    BY <1>0, <2>1, <2>3, AuditWritten
  <2>5. \A v \in Accepted(f, inHand) : v.judge = f /\ v.round = round
    BY AcceptedVotes
  <2>6. \A v \in Accepted(f, inHand) : Traced(v)'
    BY <2>2, <2>3, <2>4, <2>5 DEF Traced
  <2> QED
    BY <1>0, <1>1, <2>1, <2>6 DEF Published
<1>8. CASE AppendVote
  BY <1>8, <1>b DEF AppendVote
<1>9. CASE /\ ledger' = ledger /\ pending' \subseteq pending
  BY <1>9, <1>a
<1>10. ASSUME NEW why, Refuse(why) PROVE ledger' = ledger /\ pending' = pending
  BY <1>10 DEF Refuse, durable, memory
<1>11. ASSUME NEW f, NEW payload, PersistAnswer(f, payload) PROVE ledger' = ledger /\ pending' = pending
  BY <1>11 DEF PersistAnswer
<1>12. ASSUME NEW f, NEW reason, PersistFailure(f, reason) PROVE ledger' = ledger /\ pending' = pending
  BY <1>12 DEF PersistFailure, memory
<1>13. ASSUME Restored \/ Appended \/ RecoverableSettle \/ StopOrFinish \/ Finish \/ UNCHANGED allVars
       PROVE  ledger' = ledger /\ pending' = pending
  BY <1>13 DEF Restored, Appended, RecoverableSettle, StopOrFinish, Finish, allVars, durable, memory
<1>14. ASSUME CrashAndResume PROVE ledger' = ledger /\ pending' = {}
  BY <1>14 DEF CrashAndResume, durable
<1> QED
  BY <1>2, <1>3, <1>6, <1>8, <1>9, <1>10, <1>11, <1>12, <1>13, <1>14
     DEF RNext, RProgress, RefuseRecovery

\* The audits of every process are those of persist_result and
\* persist_judging_batch, and a vote in the ledger is in its judge's batch.
THEOREM FilesHold == RSpec => []FileInv
<1>1. FileInv /\ [RNext]_allVars => FileInv'
  BY StandingKept, AuditsKept, PublishedKept DEF FileInv
<1> QED
  BY <1>1, InitFiles, PTL DEF RSpec

LEMMA FirstIsARecord == RInit => Record!Init
<1> SUFFICES ASSUME RInit PROVE Record!Init
  OBVIOUS
<1>1. \A x \in Friends \X Rounds : audits[x].version = 0 /\ audits[x].votes = {}
  BY DEF RInit, NoAudit
<1>2. ledger = {}
  BY DEF RInit
<1> QED
  BY <1>1, <1>2 DEF Record!Init

\* A step that leaves the batches and the ledger alone is none of the record.
LEMMA NothingRecorded ==
    ASSUME ledger' = ledger,
           \A x \in Friends \X Rounds : (audits'[x].version = 2) <=> (audits[x].version = 2),
           \A x \in Friends \X Rounds : audits'[x].votes = audits[x].votes
    PROVE  UNCHANGED Record!vars
BY DEF Record!vars

\* A vote is published from the batch it is in.
LEMMA AppendPublishes ==
    ASSUME FileInv, Append, pending # {}, audits' = audits
    PROVE  Record!Next
<1>1. Traced(NextPending) /\ ledger' = ledger \cup {NextPending}
  BY FirstPending DEF FileInv, Published, Append
<1>2. Record!Publish(NextPending)
  BY <1>1 DEF Traced, Record!Publish
<1> QED
  BY <1>1, <1>2 DEF Record!Next

LEMMA StepOfTheRecord == FileInv /\ [RNext]_allVars => [Record!Next]_(Record!vars)
<1> SUFFICES ASSUME FileInv, [RNext]_allVars PROVE Record!Next \/ UNCHANGED Record!vars
  OBVIOUS
<1>0. Standing /\ Audits
  BY DEF FileInv
<1>a. ASSUME audits' = audits, ledger' = ledger PROVE UNCHANGED Record!vars
  BY <1>a, NothingRecorded
<1>b. ASSUME NEW f \in Friends, NEW audit, WriteAudit(f, audit), audit.version = 1, audit.votes = {},
             pc = "collect", f = NextResult, ledger' = ledger
      PROVE  UNCHANGED Record!vars
  <2>1. f \in queue /\ round \in Rounds
    BY <1>0, <1>b, ReadFirst DEF Standing, Mid
  <2>2. audits[<<f, round>>].version = 0 /\ audits[<<f, round>>].votes = {}
    <3>1. audits[<<f, round>>].version = 0 /\ <<f, round>> \in Friends \X Rounds
      BY <1>0, <1>b, <2>1 DEF Audits, Audit
    <3> QED
      BY <1>0, <3>1 DEF Audits
  <2>5. audits'[<<f, round>>] = audit
        /\ \A x \in Friends \X Rounds : x # <<f, round>> => audits'[x] = audits[x]
    BY <1>0, <1>b, <2>1, AuditWritten
  <2>6. ASSUME NEW x \in Friends \X Rounds
        PROVE  /\ audits'[x].version = 2 <=> audits[x].version = 2
               /\ audits'[x].votes = audits[x].votes
    <3>1. CASE x = <<f, round>>
      BY <3>1, <1>b, <2>2, <2>5
    <3>2. CASE x # <<f, round>>
      BY <3>2, <2>5
    <3> QED
      BY <3>1, <3>2
  <2> QED
    BY <1>b, <2>6, NothingRecorded
<1>1. ASSUME NEW why, Refuse(why) PROVE UNCHANGED Record!vars
  BY <1>1, <1>a DEF Refuse, durable
<1>2. CASE Recover
  BY <1>2, <1>a DEF Recover, durable
<1>3. CASE RestoreVote
  BY <1>3, AppendPublishes DEF RestoreVote
<1>4. CASE Restored
  BY <1>4, <1>a DEF Restored, durable
<1>5. ASSUME NEW f \in Friends, NEW payload, PersistAnswer(f, payload) PROVE UNCHANGED Record!vars
  <2> DEFINE audit == [NoAudit EXCEPT !.version = 1, !.prompt = prompts[f]]
  <2>1. audit.version = 1 /\ audit.votes = {}
    BY DEF NoAudit
  <2>2. WriteAudit(f, audit) /\ pc = "collect" /\ f = NextResult /\ ledger' = ledger
    BY <1>5 DEF PersistAnswer
  <2> HIDE DEF audit
  <2> QED
    BY <1>b, <2>1, <2>2
<1>6. ASSUME NEW f \in Friends, PersistBatch(f) PROVE Record!Next
  <2> DEFINE audit == [version |-> 2, prompt |-> prompts[f], votes |-> Accepted(f, inHand),
                       omitted |-> Slice(f) \ DOMAIN inHand, failure |-> NoFailure]
             x == <<f, round>>
  <2>1. WriteAudit(f, audit) /\ ledger' = ledger /\ f = NextResult /\ pc = "upgrade"
    BY <1>6 DEF PersistBatch
  <2>2. round \in Rounds /\ audits[x].version = 1
    BY <1>0, <2>1 DEF Standing, Mid, Audits, Audit
  <2>3. /\ audit.version = 2
        /\ \A v \in audit.votes : v.judge = f /\ v.round = round
        /\ \A v, w \in audit.votes : v.claim = w.claim => v = w
    BY AcceptedVotes
  <2> HIDE DEF audit
  <2>4. /\ audits'[x] = audit
        /\ \A y \in Friends \X Rounds : y # x => audits'[y] = audits[y]
    BY <1>0, <2>1, <2>2, AuditWritten
  <2>5. x \in Friends \X Rounds
    BY <2>2
  <2>. PICK r \in Rounds : r = round
    BY <2>2
  <2>6. Record!Capture(f, r)
    <3>1. {y \in Friends \X Rounds : audits'[y].version = 2}
            = {y \in Friends \X Rounds : audits[y].version = 2} \cup {x}
      BY <2>3, <2>4, <2>5
    <3>2. x \notin {y \in Friends \X Rounds : audits[y].version = 2}
      BY <2>2
    <3>3. [y \in Friends \X Rounds |-> audits'[y].votes]
            = [[y \in Friends \X Rounds |-> audits[y].votes]
                 EXCEPT ![x] = [y \in Friends \X Rounds |-> audits'[y].votes][x]]
      BY <2>4, <2>5
    <3>4. [y \in Friends \X Rounds |-> audits'[y].votes][x] = audit.votes
      BY <2>4, <2>5
    <3> QED
      BY <2>1, <2>3, <3>1, <3>2, <3>3, <3>4 DEF Record!Capture
  <2> QED
    BY <2>6 DEF Record!Next
<1>7. ASSUME NEW f \in Friends, NEW reason, PersistFailure(f, reason) PROVE UNCHANGED Record!vars
  <2> DEFINE audit == [NoAudit EXCEPT !.version = 1, !.prompt = prompts[f], !.failure = reason]
  <2>1. audit.version = 1 /\ audit.votes = {}
    BY DEF NoAudit
  <2>2. WriteAudit(f, audit) /\ pc = "collect" /\ f = NextResult /\ ledger' = ledger
    BY <1>7 DEF PersistFailure
  <2> HIDE DEF audit
  <2> QED
    BY <1>b, <2>1, <2>2
<1>8. CASE AppendVote
  BY <1>8, AppendPublishes DEF AppendVote
<1>9. CASE Appended \/ RecoverableSettle \/ StopOrFinish \/ Finish \/ CrashAndResume \/ UNCHANGED allVars
  BY <1>9, <1>a DEF Appended, RecoverableSettle, StopOrFinish, Finish, CrashAndResume, allVars, durable
<1> QED
  BY <1>1, <1>2, <1>3, <1>4, <1>5, <1>6, <1>7, <1>8, <1>9 DEF RNext, RProgress, RefuseRecovery

\* The files of a judging are a JudgingRecord: an answer is captured whole and
\* once, and nothing but votes of captured answers reaches the ledger, in
\* however many processes (persist_judging_batch and the appends of run_rounds).
THEOREM AnswersAreCapturedOnce == RSpec => ImplementsRecord
<1>1. RInit => Record!Init
  BY FirstIsARecord
<1>2. FileInv /\ [RNext]_allVars => [Record!Next]_(Record!vars)
  BY StepOfTheRecord
<1> QED
  BY <1>1, <1>2, FilesHold, PTL DEF RSpec, ImplementsRecord, Record!Spec


-----------------------------------------------------------------------------
(* The claims of a process: the ones of the critique round, as they were   *)
(* raised, and successors under ids of their own.                          *)

Raised(c) == [origin |-> Critique[c], supersedes |-> NoClaim, round |-> 1, text |-> AsRaised]

Claimed ==
    /\ DOMAIN claims \subseteq Nat \X Nat /\ IsFiniteSet(DOMAIN claims)
    /\ DOMAIN states = DOMAIN claims
    /\ \A c \in DOMAIN Critique : c \in DOMAIN claims /\ claims[c] = Raised(c)
    /\ pc \in Mid \ {"settle"} => OpenClaims # {}
    /\ pc = "settle" => unsettled # {} /\ unsettled \subseteq DOMAIN claims

LEMMA InitClaimed == RInit => Claimed
<1> SUFFICES ASSUME RInit PROVE Claimed
  OBVIOUS
<1>1. pc = "round" /\ DOMAIN claims = DOMAIN Critique /\ DOMAIN states = DOMAIN Critique
  BY DEF RInit, Init
<1>2. \A c \in DOMAIN Critique : claims[c] = Raised(c)
  BY DEF RInit, Init, Raised
<1> QED
  BY <1>1, <1>2, CritiqueAssumption DEF Claimed, Mid

LEMMA ClaimedKept == Standing /\ Claimed /\ [RNext]_allVars => Claimed'
<1> SUFFICES ASSUME Standing, Claimed, [RNext]_allVars PROVE Claimed'
  OBVIOUS
<1> USE DEF Mid
<1>0. OpenClaims \subseteq DOMAIN claims
  BY DEF OpenClaims, Claimed
<1>a. ASSUME UNCHANGED <<claims, states>>, pc' \notin Mid PROVE Claimed'
  BY <1>a DEF Claimed
<1>b. ASSUME UNCHANGED <<claims, states>>, pc' \in Mid \ {"settle"}, OpenClaims # {} PROVE Claimed'
  BY <1>b DEF Claimed, OpenClaims
<1>c. ASSUME UNCHANGED <<claims, states>>, pc' = "settle", unsettled' = OpenClaims, OpenClaims # {}
      PROVE  Claimed'
  BY <1>0, <1>c DEF Claimed
<1>1. ASSUME NEW why, Refuse(why) PROVE Claimed'
  BY <1>1, <1>a DEF Refuse, recordVars
<1>2. CASE Recover
  BY <1>2, <1>b DEF Recover, recordVars, Judging
<1>3. CASE RestoreVote
  BY <1>3 DEF RestoreVote, vars, roundVars, recordVars, Claimed, OpenClaims
<1>4. CASE Restored
  <2>1. UNCHANGED <<claims, states>> /\ OpenClaims # {}
    BY <1>4 DEF Restored, Claimed
  <2>2. CASE Dispatched
    BY <2>1, <2>2, <1>b DEF Dispatched
  <2>3. CASE OutOfBudget
    BY <2>1, <2>3, <1>a DEF OutOfBudget
  <2>4. CASE NothingToAsk
    BY <2>1, <2>4, <1>c DEF NothingToAsk
  <2> QED
    BY <1>4, <2>2, <2>3, <2>4 DEF Restored
<1>5. ASSUME NEW f \in Friends, NEW payload, PersistAnswer(f, payload) PROVE Claimed'
  BY <1>5, <1>b DEF PersistAnswer, recordVars, Claimed
<1>6. ASSUME NEW f \in Friends, PersistBatch(f) PROVE Claimed'
  BY <1>6, <1>b DEF PersistBatch, Persisted, recordVars, Claimed
<1>7. ASSUME NEW f \in Friends, NEW reason, PersistFailure(f, reason) PROVE Claimed'
  BY <1>7, <1>b DEF PersistFailure, Persisted, recordVars, Claimed
<1>8. CASE AppendVote
  BY <1>8 DEF AppendVote, vars, roundVars, recordVars, Claimed, OpenClaims
<1>9. CASE Appended
  BY <1>9, <1>c DEF Appended, Claimed
<1>10. CASE RecoverableSettle
  <2> DEFINE c == NextUnsettled
             s == FreeSuccessorId(c, DOMAIN claims)
  <2>1. Settle(c) /\ unsettled' = unsettled \ {c}
    BY <1>10 DEF RecoverableSettle, SettleClaim
  <2>2. pc = "settle" /\ ((pc' = "settle" /\ unsettled # {c}) \/ pc' \in {"round", "stopped"})
    BY <1>10 DEF RecoverableSettle, SettleClaim
  <2>3. c \in unsettled
    <3>1. unsettled \in SUBSET (Nat \X Nat) /\ unsettled # {}
      BY <2>2 DEF Claimed
    <3> QED
      BY <3>1, FirstClaim DEF NextUnsettled
  <2>4. c \in DOMAIN claims /\ c \in Nat \X Nat /\ IsFiniteSet(DOMAIN claims)
    BY <2>2, <2>3 DEF Claimed
  <2>5. s \in Nat \X Nat /\ s \notin DOMAIN claims
    BY <2>4, FreeSuccessorIsFree
  <2> HIDE DEF c, s
  <2>6. /\ DOMAIN claims' \in {DOMAIN claims, DOMAIN claims \cup {s}}
        /\ DOMAIN states' = DOMAIN claims'
        /\ \A d \in DOMAIN claims : claims'[d] = claims[d]
    <3>1. CASE SettledState(c) = Superseded
      <4>1. /\ claims' = With(claims, s, Successor(c, claims[c].origin, Amendments(c), round))
            /\ states' = With([states EXCEPT ![c] = Superseded], s, SuccessorState)
        BY <2>1, <3>1 DEF Settle, s
      <4> QED
        BY <4>1, <2>5 DEF With, Claimed
    <3>2. CASE SettledState(c) # Superseded
      BY <2>1, <3>2 DEF Settle, Claimed
    <3> QED
      BY <3>1, <3>2
  <2>7. IsFiniteSet(DOMAIN claims \cup {s})
    BY <2>4, FS_AddElement
  <2>8. IsFiniteSet(DOMAIN claims') /\ DOMAIN claims' \subseteq Nat \X Nat
    BY <2>4, <2>5, <2>6, <2>7 DEF Claimed
  <2>9. pc' = "settle" => unsettled' # {} /\ unsettled' \subseteq DOMAIN claims'
    BY <2>1, <2>2, <2>3, <2>6 DEF Claimed
  <2> QED
    BY <2>2, <2>6, <2>8, <2>9 DEF Claimed
<1>11. CASE StopOrFinish
  BY <1>11, <1>a DEF StopOrFinish, RoundsOver, AllTerminal, Leave, recordVars
<1>12. CASE Finish
  BY <1>12, <1>a DEF Finish, recordVars
<1>13. CASE CrashAndResume
  <2>1. /\ claims' = [c \in DOMAIN Critique |-> claims[c]] /\ pc' = "round"
        /\ states' = [c \in DOMAIN Critique |-> Contested]
    BY <1>13 DEF CrashAndResume
  <2> QED
    BY <2>1, CritiqueAssumption DEF Claimed
<1>14. CASE UNCHANGED allVars
  BY <1>14 DEF allVars, vars, roundVars, recordVars, Claimed, OpenClaims
<1> QED
  BY <1>1, <1>2, <1>3, <1>4, <1>5, <1>6, <1>7, <1>8, <1>9, <1>10, <1>11, <1>12, <1>13, <1>14
     DEF RNext, RProgress, RefuseRecovery


-----------------------------------------------------------------------------
(* The replay.                                                             *)

\* What holds of round 2, and with a round of the next one, holds of all.
LEMMA RoundAfterRound ==
    ASSUME NEW S, 2 \in S, \A r \in 2 .. MaxRounds : r \in S => r + 1 \in S
    PROVE  \A r \in 2 .. MaxRounds + 1 : r \in S
<1>0. MaxRounds \in Nat /\ MaxRounds >= 2
  BY BoundsAssumption
<1> DEFINE bad == {r \in 2 .. MaxRounds + 1 : r \notin S}
<1> SUFFICES ASSUME bad # {} PROVE FALSE
  BY <1>0
<1>1. PICK m \in bad : \A l \in bad : m <= l
  <2>1. bad \in SUBSET Nat
    BY <1>0
  <2> HIDE DEF bad
  <2> QED BY <2>1, LeastNatural
<1>2. m \in 2 .. MaxRounds + 1 /\ m \notin S /\ m # 2
  BY <1>1
<1>3. m - 1 \in 2 .. MaxRounds /\ (m - 1) + 1 = m /\ ~(m <= m - 1) /\ m - 1 \in 2 .. MaxRounds + 1
  BY <1>0, <1>2
<1>4. m - 1 \in S
  BY <1>1, <1>3
<1> QED
  BY <1>2, <1>3, <1>4

\* f is the replay of the rounds up to n.
ReplaysTo(files, f, n) ==
    f = [r \in 2 .. n |-> IF r = 2 THEN Opening ELSE ReplayRound(files, f[r - 1], r - 1)]

LEMMA OneRoundMore ==
    ASSUME NEW files, NEW m \in Nat, m >= 2, NEW f, ReplaysTo(files, f, m)
    PROVE  \E g : ReplaysTo(files, g, m + 1)
<1> DEFINE g == [r \in 2 .. m + 1 |-> IF r = 2 THEN Opening ELSE ReplayRound(files, f[r - 1], r - 1)]
<1>1. \A r \in 2 .. m : f[r] = IF r = 2 THEN Opening ELSE ReplayRound(files, f[r - 1], r - 1)
  BY Zenon DEF ReplaysTo
<1>2. \A r \in 2 .. m + 1 : g[r] = IF r = 2 THEN Opening ELSE ReplayRound(files, f[r - 1], r - 1)
  BY Zenon
<1>3. g = [r \in 2 .. m + 1 |-> g[r]]
  BY Zenon
<1> HIDE DEF g
<1>4. \A r \in 2 .. m : r \in 2 .. m + 1
  OBVIOUS
<1>5. \A r \in 2 .. m : g[r] = f[r]
  BY <1>1, <1>2, <1>4, Zenon
<1>6. \A r \in 2 .. m + 1 : r # 2 => r - 1 \in 2 .. m
  OBVIOUS
<1>7. \A r \in 2 .. m + 1 : g[r] = IF r = 2 THEN Opening ELSE ReplayRound(files, g[r - 1], r - 1)
  BY <1>2, <1>5, <1>6
<1>8. ReplaysTo(files, g, m + 1)
  BY <1>3, <1>7, Zenon DEF ReplaysTo
<1> QED
  BY <1>8

LEMMA SomethingReplays ==
    ASSUME NEW files
    PROVE  \E f : ReplaysTo(files, f, MaxRounds + 1)
<1>0. MaxRounds \in Nat /\ MaxRounds >= 2
  BY BoundsAssumption
<1> DEFINE S == {r \in Nat : \E f : ReplaysTo(files, f, r)}
<1>1. 2 \in S
  <2>1. ReplaysTo(files, [r \in 2 .. 2 |-> Opening], 2)
    BY DEF ReplaysTo
  <2> QED
    BY <2>1
<1>2. \A r \in 2 .. MaxRounds : r \in S => r + 1 \in S
  BY <1>0, OneRoundMore
<1>3. MaxRounds + 1 \in 2 .. MaxRounds + 1
  BY <1>0
<1>4. MaxRounds + 1 \in S
  <2> HIDE DEF S
  <2> QED
    BY <1>1, <1>2, <1>3, RoundAfterRound
<1> QED
  BY <1>4

\* The replay is what its recursion says.
LEMMA ReplayUnfolds ==
    ASSUME NEW files
    PROVE  /\ Replay(files)[2] = Opening
           /\ \A r \in 2 .. MaxRounds : Replay(files)[r + 1] = ReplayRound(files, Replay(files)[r], r)
<1>0. MaxRounds \in Nat /\ MaxRounds >= 2
  BY BoundsAssumption
<1>1. ReplaysTo(files, Replay(files), MaxRounds + 1)
  <2>1. \E f : ReplaysTo(files, f, MaxRounds + 1)
    BY SomethingReplays
  <2> QED
    BY <2>1, Zenon DEF ReplaysTo, Replay
<1>2. \A r \in 2 .. MaxRounds + 1 :
        Replay(files)[r] = IF r = 2 THEN Opening ELSE ReplayRound(files, Replay(files)[r - 1], r - 1)
  BY <1>1, Zenon DEF ReplaysTo
<1>3. ASSUME NEW r \in 2 .. MaxRounds
      PROVE Replay(files)[r + 1] = ReplayRound(files, Replay(files)[r], r)
  <2>1. r + 1 \in 2 .. MaxRounds + 1 /\ r + 1 # 2 /\ (r + 1) - 1 = r
    BY <1>0
  <2> QED
    BY <1>2, <2>1
<1> QED
  BY <1>0, <1>2, <1>3

\* It looks at no answer of a later round.
LEMMA ReplayLooksBack ==
    ASSUME NEW a, NEW b, NEW n \in 2 .. MaxRounds + 1,
           \A q \in 2 .. n - 1, f \in Friends : a[<<f, q>>] = b[<<f, q>>]
    PROVE  \A r \in 2 .. n : Replay(a)[r] = Replay(b)[r]
<1>0. MaxRounds \in Nat
  BY BoundsAssumption
<1> DEFINE S == {r \in 2 .. MaxRounds + 1 : r <= n => Replay(a)[r] = Replay(b)[r]}
<1>1. 2 \in S
  BY <1>0, ReplayUnfolds
<1>2. ASSUME NEW r \in 2 .. MaxRounds, r \in S PROVE r + 1 \in S
  <2> SUFFICES ASSUME r + 1 <= n PROVE Replay(a)[r + 1] = Replay(b)[r + 1]
    BY <1>0
  <2>1. r \in 2 .. n - 1 /\ r <= n
    BY <1>0
  <2>2. Replay(a)[r] = Replay(b)[r]
    BY <1>2, <2>1
  <2>3. ReplayRound(a, Replay(b)[r], r) = ReplayRound(b, Replay(b)[r], r)
    <3>1. \A f \in Friends : a[<<f, r>>] = b[<<f, r>>]
      BY <2>1
    <3>2. UNION {a[<<f, r>>].votes : f \in Friends} = UNION {b[<<f, r>>].votes : f \in Friends}
      BY <3>1
    <3> QED
      BY <3>1, <3>2 DEF ReplayRound
  <2>4. /\ Replay(a)[r + 1] = ReplayRound(a, Replay(a)[r], r)
        /\ Replay(b)[r + 1] = ReplayRound(b, Replay(b)[r], r)
    BY ReplayUnfolds
  <2> QED
    BY <2>2, <2>3, <2>4
<1>3. \A r \in 2 .. n : r \in 2 .. MaxRounds + 1 /\ r <= n
  BY <1>0
<1>4. \A r \in 2 .. MaxRounds + 1 : r \in S
  <2> HIDE DEF S
  <2> QED
    BY <1>1, <1>2, RoundAfterRound
<1> QED
  BY <1>3, <1>4

-----------------------------------------------------------------------------
(* What the replay of a round returns.                                     *)

NeverFailed == [last |-> NoFailure, count |-> 0, disabled |-> FALSE]

VotesAt(files, r) == UNION {files[<<f, r>>].votes : f \in Friends}
Votes(files, o, r) ==
    [round |-> r, fresh |-> VotesAt(files, r), votes |-> o.verdicts \cup VotesAt(files, r)]

\* The open claims of a memory that the round supersedes.
Replaced(files, o, r) == {c \in OpenIn(o) : SettledIn(o, Votes(files, o, r), c) = Superseded}

\* m is a function on S.
Maps(m, S) == m = [x \in S |-> m[x]]

\* Between two rounds a claim has one open version at most, its newest.
Shaped(o) ==
    /\ DOMAIN o.states \subseteq Nat \X Nat /\ IsFiniteSet(DOMAIN o.states)
    /\ Maps(o.claims, DOMAIN o.states) /\ Maps(o.states, DOMAIN o.states)
    /\ Maps(o.signatures, DOMAIN o.states) /\ Maps(o.tracker, Friends)
    /\ \A c \in OpenIn(o), d \in DOMAIN o.states : d[1] = c[1] => d[2] <= c[2]

LEMMA LaterIsNew ==
    ASSUME NEW o, Shaped(o)
    PROVE  /\ \A c \in OpenIn(o) : /\ c \in Nat \X Nat /\ Later(c) \in Nat \X Nat
                                   /\ Later(c) \notin DOMAIN o.states /\ Earlier(Later(c)) = c
                                   /\ Later(c)[1] = c[1] /\ Later(c)[2] = c[2] + 1
           /\ \A c, d \in OpenIn(o) : c[1] = d[1] => c = d
           /\ \A c, d \in OpenIn(o) : Later(c) = Later(d) => c = d
<1>1. ASSUME NEW c \in OpenIn(o)
      PROVE  /\ c \in DOMAIN o.states /\ c \in Nat \X Nat /\ Later(c) \in Nat \X Nat
             /\ Later(c) \notin DOMAIN o.states /\ Earlier(Later(c)) = c
             /\ Later(c)[1] = c[1] /\ Later(c)[2] = c[2] + 1
  <2>1. c \in DOMAIN o.states /\ c \in Nat \X Nat
    BY DEF Shaped, OpenIn
  <2>2. PICK n \in Nat, v \in Nat : c = <<n, v>>
    BY <2>1
  <2>3. Later(c) = <<n, v + 1>> /\ Earlier(Later(c)) = <<n, v>>
    BY <2>2 DEF Later, Earlier
  <2>4. ASSUME Later(c) \in DOMAIN o.states PROVE FALSE
    <3>1. v + 1 <= v
      BY <2>2, <2>3, <2>4 DEF Shaped
    <3> QED
      BY <3>1
  <2> QED
    BY <2>1, <2>2, <2>3, <2>4
<1>2. ASSUME NEW c \in OpenIn(o), NEW d \in OpenIn(o), c[1] = d[1] PROVE c = d
  <2>1. c \in DOMAIN o.states /\ d \in DOMAIN o.states /\ c \in Nat \X Nat /\ d \in Nat \X Nat
    BY <1>1
  <2>2. d[2] <= c[2] /\ c[2] <= d[2]
    BY <1>2, <2>1 DEF Shaped
  <2> QED
    BY <1>2, <2>1, <2>2
<1>3. ASSUME NEW c \in OpenIn(o), NEW d \in OpenIn(o), Later(c) = Later(d) PROVE c = d
  <2>1. c[1] = d[1]
    BY <1>1, <1>3
  <2> QED
    BY <1>2, <2>1
<1> QED
  BY <1>1, <1>2, <1>3

\* The claims after the round.
ClaimsAfter(files, o, r) == DOMAIN o.states \cup {Later(c) : c \in Replaced(files, o, r)}

ClaimAfter(files, o, r, c) ==
    IF c \in DOMAIN o.states THEN o.claims[c]
    ELSE Successor(Earlier(c), o.claims[Earlier(c)].origin,
                   RewordedIn(o, Votes(files, o, r), Earlier(c)), r)
StateAfter(files, o, r, c) ==
    IF c \in OpenIn(o) THEN SettledIn(o, Votes(files, o, r), c)
    ELSE IF c \in DOMAIN o.states THEN o.states[c]
    ELSE IF r >= MaxRounds /\ MaxIterations = 1 THEN Incomplete ELSE Contested
SignatureAfter(files, o, r, c) ==
    IF c \in OpenIn(o)
    THEN IF DecidedIn(o, Votes(files, o, r), c) = Unproven THEN SaidIn(o, Votes(files, o, r), c) ELSE {}
    ELSE IF c \in DOMAIN o.states THEN o.signatures[c] ELSE {}
TrackerAfter(files, o, r, f) ==
    IF f \in JudgesIn(o) THEN Recorded(o.tracker[f], files[<<f, r>>].failure) ELSE o.tracker[f]

LEMMA RoundReplayed ==
    ASSUME NEW files, NEW o, NEW r, NEW out, out = ReplayRound(files, o, r),
           NEW all, all = ClaimsAfter(files, o, r)
    PROVE  /\ Maps(out.claims, all) /\ Maps(out.states, all) /\ Maps(out.signatures, all)
           /\ Maps(out.tracker, Friends) /\ DOMAIN out.states = all
           /\ \A c \in all : /\ out.claims[c] = ClaimAfter(files, o, r, c)
                             /\ out.states[c] = StateAfter(files, o, r, c)
                             /\ out.signatures[c] = SignatureAfter(files, o, r, c)
           /\ \A f \in Friends : out.tracker[f] = TrackerAfter(files, o, r, f)
           /\ out.verdicts = o.verdicts \cup VotesAt(files, r)
<1>1. out = [claims     |-> [c \in all |-> ClaimAfter(files, o, r, c)],
             states     |-> [c \in all |-> StateAfter(files, o, r, c)],
             signatures |-> [c \in all |-> SignatureAfter(files, o, r, c)],
             verdicts   |-> o.verdicts \cup VotesAt(files, r),
             tracker    |-> [f \in Friends |-> TrackerAfter(files, o, r, f)]]
  BY DEF ReplayRound, Votes, VotesAt, Replaced, ClaimsAfter, ClaimAfter, StateAfter, SignatureAfter,
         TrackerAfter
<1> QED
  BY <1>1 DEF Maps

LEMMA RoundShaped ==
    ASSUME NEW files, NEW o, NEW r, Shaped(o)
    PROVE  Shaped(ReplayRound(files, o, r))
<1> DEFINE out  == ReplayRound(files, o, r)
           born == {Later(c) : c \in Replaced(files, o, r)}
           all  == ClaimsAfter(files, o, r)
<1>0. /\ Maps(out.claims, all) /\ Maps(out.states, all) /\ Maps(out.signatures, all)
      /\ Maps(out.tracker, Friends) /\ DOMAIN out.states = all
      /\ \A c \in all : out.states[c] = StateAfter(files, o, r, c)
  BY RoundReplayed
<1>1. /\ \A c \in DOMAIN o.states \ OpenIn(o) : out.states[c] = o.states[c]
      /\ \A c \in Replaced(files, o, r) : out.states[c] = Superseded
  <2>1. \A c \in Replaced(files, o, r) : c \in OpenIn(o) /\ c \in DOMAIN o.states
    BY DEF Replaced, OpenIn
  <2>2. \A c \in Replaced(files, o, r) : SettledIn(o, Votes(files, o, r), c) = Superseded
    BY DEF Replaced
  <2>3. DOMAIN o.states \subseteq all
    BY DEF ClaimsAfter
  <2> QED
    BY <1>0, <2>1, <2>2, <2>3 DEF StateAfter
<1>2. Replaced(files, o, r) \subseteq OpenIn(o) /\ OpenIn(o) \subseteq DOMAIN o.states
  BY DEF Replaced, OpenIn
<1>3. IsFiniteSet(all) /\ all \subseteq Nat \X Nat
  <2>1. IsFiniteSet(Replaced(files, o, r)) /\ IsFiniteSet(DOMAIN o.states)
    BY <1>2, FS_Subset DEF Shaped
  <2>2. IsFiniteSet(born)
    <3> DEFINE f == [c \in Replaced(files, o, r) |-> Later(c)]
    <3>1. f \in Surjection(Replaced(files, o, r), born)
      BY DEF Surjection
    <3> QED
      BY <2>1, <3>1, FS_Surjection
  <2>3. born \subseteq Nat \X Nat
    BY <1>2, LaterIsNew
  <2> QED
    BY <2>1, <2>2, <2>3, FS_Union DEF Shaped, ClaimsAfter
<1> HIDE DEF out
<1>4. \A c \in OpenIn(out) : c \in OpenIn(o) \ Replaced(files, o, r) \/ c \in born
  <2>0. all = DOMAIN o.states \cup born
    BY DEF ClaimsAfter
  <2> SUFFICES ASSUME NEW c \in OpenIn(out), c \notin born PROVE c \in OpenIn(o) \ Replaced(files, o, r)
    OBVIOUS
  <2>1. c \in DOMAIN o.states /\ out.states[c] \notin TerminalStates
    BY <1>0, <2>0 DEF OpenIn
  <2>2. c \in OpenIn(o)
    <3> SUFFICES ASSUME c \notin OpenIn(o) PROVE FALSE
      OBVIOUS
    <3> QED
      BY <1>1, <2>1 DEF OpenIn
  <2>3. c \notin Replaced(files, o, r)
    BY <1>1, <2>1 DEF TerminalStates
  <2> QED
    BY <2>2, <2>3
<1>5. ASSUME NEW c \in OpenIn(out), NEW d \in DOMAIN out.states, d[1] = c[1] PROVE d[2] <= c[2]
  <2>1. ASSUME NEW e \in OpenIn(o), NEW x \in DOMAIN o.states, x[1] = e[1]
        PROVE  x[2] <= e[2] /\ x[2] \in Nat /\ e[2] \in Nat
    BY <2>1, <1>2 DEF Shaped
  <2>2. \A e \in Replaced(files, o, r) : e \in OpenIn(o) /\ Later(e)[1] = e[1] /\ Later(e)[2] = e[2] + 1
                                         /\ e[2] \in Nat
    BY <1>2, LaterIsNew
  <2>3. CASE c \in OpenIn(o) \ Replaced(files, o, r)
    <3>1. CASE d \in DOMAIN o.states
      BY <1>5, <2>1, <2>3, <3>1
    <3>2. ASSUME NEW e \in Replaced(files, o, r), d = Later(e) PROVE FALSE
      <4>1. e[1] = c[1]
        BY <1>5, <2>2, <3>2
      <4>2. e = c
        BY <2>2, <2>3, <4>1, LaterIsNew
      <4> QED
        BY <2>3, <4>2
    <3> QED
      BY <1>0, <3>1, <3>2 DEF ClaimsAfter
  <2>4. ASSUME NEW e \in Replaced(files, o, r), c = Later(e) PROVE d[2] <= c[2]
    <3>1. CASE d \in DOMAIN o.states
      <4>1. d[2] <= e[2] /\ d[2] \in Nat
        BY <1>5, <2>1, <2>2, <2>4, <3>1
      <4> QED
        BY <2>2, <2>4, <4>1
    <3>2. ASSUME NEW g \in Replaced(files, o, r), d = Later(g) PROVE d[2] <= c[2]
      <4>1. g[1] = e[1]
        BY <1>5, <2>2, <2>4, <3>2
      <4>2. g = e
        BY <2>2, <4>1, LaterIsNew
      <4> QED
        BY <2>2, <2>4, <3>2, <4>2
    <3> QED
      BY <1>0, <3>1, <3>2 DEF ClaimsAfter
  <2> QED
    BY <1>4, <2>3, <2>4
<1> QED
  BY <1>0, <1>3, <1>5 DEF Shaped, out

LEMMA OpeningShaped == Shaped(Opening)
<1>1. DOMAIN Opening.states = DOMAIN Critique
  BY DEF Opening
<1>2. \A c \in DOMAIN Critique : c \in Nat \X Nat /\ c[2] <= c[2]
  BY CritiqueAssumption
<1>3. \A c, d \in DOMAIN Critique : d[1] = c[1] => d[2] <= c[2]
  BY <1>2, NumberingAssumption
<1>4. OpenIn(Opening) \subseteq DOMAIN Critique
  BY <1>1 DEF OpenIn
<1> QED
  BY <1>1, <1>3, <1>4, CritiqueAssumption DEF Shaped, Opening, Maps

\* Whatever the files hold.
LEMMA CourseShaped ==
    ASSUME NEW files, NEW r \in 2 .. MaxRounds + 1
    PROVE  Shaped(Replay(files)[r])
<1> DEFINE S == {q \in 2 .. MaxRounds + 1 : Shaped(Replay(files)[q])}
<1>0. MaxRounds \in Nat /\ MaxRounds >= 2
  BY BoundsAssumption
<1>1. 2 \in S
  BY <1>0, OpeningShaped, ReplayUnfolds
<1>2. ASSUME NEW q \in 2 .. MaxRounds, q \in S PROVE q + 1 \in S
  <2>1. Shaped(ReplayRound(files, Replay(files)[q], q))
    BY <1>2, RoundShaped
  <2>2. Replay(files)[q + 1] = ReplayRound(files, Replay(files)[q], q)
    BY ReplayUnfolds
  <2> QED
    BY <1>0, <2>1, <2>2
<1>3. r \in S
  <2> HIDE DEF S
  <2> QED
    BY <1>1, <1>2, RoundAfterRound
<1> QED
  BY <1>3

\* The votes a memory holds are of the rounds before it.
LEMMA CourseIsPast ==
    ASSUME NEW files, \A f \in Friends, q \in Rounds : \A v \in files[<<f, q>>].votes : v.round = q,
           NEW r \in 2 .. MaxRounds + 1
    PROVE  \A v \in Replay(files)[r].verdicts : v.round < r
<1> DEFINE S == {q \in 2 .. MaxRounds + 1 : \A v \in Replay(files)[q].verdicts : v.round \in Nat /\ v.round < q}
<1>0. MaxRounds \in Nat /\ MaxRounds >= 2
  BY BoundsAssumption
<1>1. 2 \in S
  <2>1. Opening.verdicts = {}
    BY DEF Opening
  <2>2. Replay(files)[2].verdicts = {}
    BY <2>1, ReplayUnfolds
  <2> QED
    BY <1>0, <2>2
<1>2. ASSUME NEW q \in 2 .. MaxRounds, q \in S PROVE q + 1 \in S
  <2>1. Replay(files)[q + 1].verdicts = Replay(files)[q].verdicts \cup VotesAt(files, q)
    <3>1. Replay(files)[q + 1] = ReplayRound(files, Replay(files)[q], q)
      BY ReplayUnfolds
    <3> QED
      BY <3>1, RoundReplayed
  <2>2. \A v \in VotesAt(files, q) : v.round = q
    BY DEF VotesAt, Rounds
  <2>3. \A v \in Replay(files)[q].verdicts : v.round \in Nat /\ v.round < q
    BY <1>2
  <2> QED
    BY <1>0, <2>1, <2>2, <2>3
<1>3. r \in S
  <2> HIDE DEF S
  <2> QED
    BY <1>1, <1>2, RoundAfterRound
<1> QED
  BY <1>3

-----------------------------------------------------------------------------
(* The invariant: the disk and the process against the replay.             *)

Course        == Replay(audits)
AnswersOf(r)  == VotesAt(audits, r)
InHand(f, r)  == pc = "upgrade" /\ r = round /\ f = NextResult

\* Round r is over: its judges' results are all on disk.
Answered(r) == \A f \in JudgesIn(Course[r]) : audits[<<f, r>>].version # 0 /\ ~InHand(f, r)

\* So are the rounds before r: what r begins with is final.
Frozen(r)   == \A q \in 2 .. r - 1 : Answered(q)

QuestionIn(o, f) ==
    <<SliceIn(o, f),
      UNION {LatestPerJudge({w \in {v \in o.verdicts : v.claim = c} : w.judge # f}) : c \in SliceIn(o, f)}>>

Ruled(f, r) == {v.claim : v \in audits[<<f, r>>].votes}

\* What is on disk of a judge and a round.
Filed(f, r) ==
    audits[<<f, r>>].version # 0 =>
      /\ Frozen(r) /\ f \in JudgesIn(Course[r])
      /\ audits[<<f, r>>].prompt = QuestionIn(Course[r], f)
      /\ audits[<<f, r>>].version = 2 => /\ Ruled(f, r) \subseteq SliceIn(Course[r], f)
                                         /\ audits[<<f, r>>].omitted = SliceIn(Course[r], f) \ Ruled(f, r)

Posed(a) == a[2] \in Rounds /\ Frozen(a[2]) /\ a[3] = QuestionIn(Course[a[2]], a[1])

\* The version s of the claim c that round r makes.
Rewrites(s, c, r) ==
    /\ Frozen(r + 1)
    /\ c \in Replaced(audits, Course[r], r)
    /\ s = Later(c)
    /\ ledgerClaims[s] = Successor(c, Course[r].claims[c].origin,
                                   RewordedIn(Course[r], Votes(audits, Course[r], r), c), r)

Produced(s) == ledgerClaims[s].round = 1 \/ \E r \in Rounds : \E c : Rewrites(s, c, r)

Disk ==
    /\ \A f \in Friends, r \in Rounds : Filed(f, r)
    /\ \A a \in asked : Posed(a)
    /\ \A s \in DOMAIN ledgerClaims : Produced(s)

\* There are files of round r or of a later one.
AheadOf(r)     == \E f \in Friends, q \in Rounds : q >= r /\ audits[<<f, q>>].version # 0
NobodyFailed   == \A f \in Friends : tracker[f] = NeverFailed

\* The claims there are while those of todo are not settled yet.
Made(o, r, todo) == DOMAIN o.states \cup {Later(c) : c \in Replaced(audits, o, r) \ todo}

Midway(o, r, todo) ==
    /\ todo \subseteq OpenIn(o)
    /\ Maps(claims, Made(o, r, todo)) /\ Maps(states, Made(o, r, todo))
    /\ Maps(signatures, Made(o, r, todo))
    /\ \A c \in Made(o, r, todo) :
         /\ claims[c] = ClaimAfter(audits, o, r, c)
         /\ states[c] = IF c \in todo THEN o.states[c] ELSE StateAfter(audits, o, r, c)
         /\ signatures[c] = IF c \in todo THEN o.signatures[c] ELSE SignatureAfter(audits, o, r, c)

\* The judges whose result this process has, or took over.
Done(o) == JudgesIn(o) \ queue

Unreported(o, r) ==
    {x \in OpenIn(o) \X Friends : x[2] \in Done(o) /\ x[1] \in SliceIn(o, x[2]) /\ x[1] \notin Ruled(x[2], r)}

Gathering == {"collect", "upgrade", "append"}

\* Inside the round that began with the memory o.
Roll(o) ==
    /\ active = BenchIn(o) /\ queue \subseteq JudgesIn(o)
    /\ \A f \in Done(o) : audits[<<f, round>>].version # 0
    /\ Maps(tracker, Friends)
    /\ \A f \in Friends :
         tracker[f] = IF f \in Done(o) THEN Recorded(o.tracker[f], audits[<<f, round>>].failure)
                      ELSE o.tracker[f]
    /\ missing = Unreported(o, round)
    /\ AheadOf(round + 1) => NobodyFailed
Papers(o) ==
    /\ pc # "settle" => /\ claims = o.claims /\ states = o.states /\ signatures = o.signatures
                        /\ AnswersOf(round) \subseteq ledger \cup pending
    /\ pc = "restore" => verdicts = o.verdicts
    /\ pc \in Gathering => o.verdicts \subseteq verdicts /\ verdicts \subseteq o.verdicts \cup AnswersOf(round)
    /\ pc \in {"restore", "collect", "upgrade"} => \A f \in queue : prompts[f] = QuestionIn(o, f)
    /\ pc = "settle" => verdicts = o.verdicts \cup AnswersOf(round) /\ Midway(o, round, unsettled)

Here ==
    /\ pc \in Mid \cup {"round"} => round \in 2 .. MaxRounds + 1 /\ Frozen(round)
    /\ pc = "round" => Memory = Course[round] /\ (AheadOf(round) => NobodyFailed)
    /\ pc \in Mid => Roll(Course[round]) /\ Papers(Course[round])
    /\ pc = "refused" => refusal = "no complete batch"

-----------------------------------------------------------------------------
(* What a memory asks.                                                     *)

LEMMA MemoryFits ==
    ASSUME NEW o, claims = o.claims, states = o.states
    PROVE  OpenClaims = OpenIn(o) /\ \A f : Slice(f) = SliceIn(o, f)
<1>1. OpenClaims = OpenIn(o)
  BY DEF OpenClaims, OpenIn
<1> QED
  BY <1>1 DEF Slice, SliceIn

LEMMA MemoryAsks ==
    ASSUME NEW o, Memory = o
    PROVE  /\ claims = o.claims /\ states = o.states /\ signatures = o.signatures
           /\ verdicts = o.verdicts /\ tracker = o.tracker
           /\ Dispatchable = BenchIn(o) /\ AskedNow = JudgesIn(o)
           /\ OpenClaims = OpenIn(o)
           /\ \A f : Slice(f) = SliceIn(o, f) /\ Prompt(f) = QuestionIn(o, f)
<1>1. /\ claims = o.claims /\ states = o.states /\ signatures = o.signatures
      /\ verdicts = o.verdicts /\ tracker = o.tracker
  BY DEF Memory
<1>2. OpenClaims = OpenIn(o) /\ \A f : Slice(f) = SliceIn(o, f)
  BY <1>1, MemoryFits
<1>3. Dispatchable = BenchIn(o)
  BY <1>1 DEF Dispatchable, Disabled, BenchIn
<1>4. AskedNow = JudgesIn(o)
  BY <1>2, <1>3 DEF AskedNow, JudgesIn
<1>5. ASSUME NEW f PROVE Prompt(f) = QuestionIn(o, f)
  BY <1>1, <1>2 DEF Prompt, QuestionIn, VotesOn
<1> QED
  BY <1>1, <1>2, <1>3, <1>4, <1>5

-----------------------------------------------------------------------------
(* Rounds that are over stay what they are.                                *)

\* A step that writes the audit of f, the next result.
Writes(f) ==
    /\ pc \in {"collect", "upgrade"} /\ f = NextResult /\ f \in queue /\ f \in Friends
    /\ round \in Rounds /\ round' = round
    /\ \A x \in Friends \X Rounds : x # <<f, round>> => audits'[x] = audits[x]
    /\ pc = "collect" => audits[<<f, round>>].version = 0
    /\ pc' = "upgrade" => pc = "collect"

LEMMA OneAuditAtATime ==
    ASSUME FileInv, [RNext]_allVars
    PROVE  \/ audits' = audits /\ (pc' = "upgrade" => UNCHANGED <<pc, round, queue>>)
           \/ \E f \in queue : Writes(f)
<1>0. Standing /\ Audits
  BY DEF FileInv
<1>a. ASSUME NEW f \in Friends, NEW audit, WriteAudit(f, audit), f = NextResult, round' = round,
             pc \in {"collect", "upgrade"}, pc' = "upgrade" => pc = "collect"
      PROVE  \E g \in queue : Writes(g)
  <2>1. f \in queue /\ round \in Rounds
    BY <1>0, <1>a, ReadFirst DEF Standing, Mid
  <2>2. pc = "collect" => audits[<<f, round>>].version = 0
    BY <1>0, <2>1 DEF Audits, Audit
  <2>3. \A x \in Friends \X Rounds : x # <<f, round>> => audits'[x] = audits[x]
    BY <1>0, <1>a, <2>1, AuditWritten
  <2> QED
    BY <1>a, <2>1, <2>2, <2>3 DEF Writes
<1>1. ASSUME NEW why, Refuse(why) PROVE audits' = audits /\ pc' # "upgrade"
  BY <1>1 DEF Refuse, durable
<1>2. CASE Recover
  BY <1>2 DEF Recover, durable
<1>3. CASE RestoreVote
  BY <1>3 DEF RestoreVote, vars, roundVars
<1>4. CASE Restored
  BY <1>4 DEF Restored, durable, Dispatched, OutOfBudget, NothingToAsk
<1>5. ASSUME NEW f \in Friends, NEW payload, PersistAnswer(f, payload) PROVE \E g \in queue : Writes(g)
  BY <1>5, <1>a DEF PersistAnswer
<1>6. ASSUME NEW f \in Friends, PersistBatch(f) PROVE \E g \in queue : Writes(g)
  BY <1>6, <1>a DEF PersistBatch, Persisted
<1>7. ASSUME NEW f \in Friends, NEW reason, PersistFailure(f, reason) PROVE \E g \in queue : Writes(g)
  BY <1>7, <1>a DEF PersistFailure, Persisted
<1>8. CASE AppendVote
  BY <1>8 DEF AppendVote, vars, roundVars
<1>9. CASE Appended
  BY <1>9 DEF Appended, durable
<1>10. CASE RecoverableSettle
  BY <1>10 DEF RecoverableSettle, SettleClaim
<1>11. CASE StopOrFinish
  BY <1>11 DEF StopOrFinish, durable, RoundsOver, AllTerminal, Leave
<1>12. CASE Finish
  BY <1>12 DEF Finish, durable
<1>13. CASE CrashAndResume
  BY <1>13 DEF CrashAndResume, durable
<1>14. CASE UNCHANGED allVars
  BY <1>14 DEF allVars, vars, roundVars, durable
<1> QED
  BY <1>1, <1>2, <1>3, <1>4, <1>5, <1>6, <1>7, <1>8, <1>9, <1>10, <1>11, <1>12, <1>13, <1>14
     DEF RNext, RProgress, RefuseRecovery

\* Where a result is still to be written, the round is not over.
LEMMA WritesInAnOpenRound ==
    ASSUME Here, NEW f, Writes(f)
    PROVE  ~Answered(round)
<1>1. f \in JudgesIn(Course[round])
  BY DEF Here, Roll, Mid, Writes
<1>2. audits[<<f, round>>].version = 0 \/ InHand(f, round)
  BY DEF Writes, InHand
<1> QED
  BY <1>1, <1>2 DEF Answered

LEMMA FrozenStays ==
    ASSUME FileInv, Here, [RNext]_allVars, NEW r \in 2 .. MaxRounds + 1, Frozen(r)
    PROVE  /\ Frozen(r)'
           /\ \A q \in 2 .. r : Course'[q] = Course[q]
           /\ \A q \in 2 .. r - 1, f \in Friends : audits'[<<f, q>>] = audits[<<f, q>>]
<1>0. MaxRounds \in Nat
  BY BoundsAssumption
<1>1. CASE audits' = audits /\ (pc' = "upgrade" => UNCHANGED <<pc, round, queue>>)
  <2>1. Course' = Course
    BY <1>1 DEF Course
  <2>2. \A f, q : InHand(f, q)' => InHand(f, q)
    BY <1>1 DEF InHand, NextResult
  <2>3. ASSUME NEW q, Answered(q) PROVE Answered(q)'
    BY <1>1, <2>1, <2>2, <2>3 DEF Answered
  <2>4. Frozen(r)'
    BY <2>3 DEF Frozen
  <2> QED
    BY <1>1, <2>1, <2>4
<1>2. ASSUME NEW f \in queue, Writes(f)
      PROVE  /\ Frozen(r)'
             /\ \A q \in 2 .. r : Course'[q] = Course[q]
             /\ \A q \in 2 .. r - 1, g \in Friends : audits'[<<g, q>>] = audits[<<g, q>>]
  <2>1. \A q \in 2 .. r - 1 : q # round /\ q \in Rounds /\ Answered(q)
    BY <1>0, <1>2, WritesInAnOpenRound DEF Frozen, Rounds
  <2>2. \A q \in 2 .. r - 1, g \in Friends : audits'[<<g, q>>] = audits[<<g, q>>]
    BY <1>2, <2>1 DEF Writes
  <2>3. \A q \in 2 .. r : Course'[q] = Course[q]
    BY <2>2, ReplayLooksBack DEF Course
  <2>4. ASSUME NEW q \in 2 .. r - 1 PROVE Answered(q)'
    <3>1. q \in 2 .. r
      BY <1>0
    <3>2. JudgesIn(Course[q])' = JudgesIn(Course[q])
      BY <2>3, <3>1
    <3>3. JudgesIn(Course[q]) \subseteq Friends
      BY DEF JudgesIn, BenchIn
    <3>4. \A g : ~InHand(g, q)'
      BY <1>2, <2>1 DEF InHand, Writes
    <3> QED
      BY <2>1, <2>2, <3>2, <3>3, <3>4 DEF Answered
  <2> QED
    BY <2>2, <2>3, <2>4 DEF Frozen
<1> QED
  BY <1>1, <1>2, OneAuditAtATime

-----------------------------------------------------------------------------
(* Settling, as the replay does it.                                        *)

\* The version that follows, when nothing holds it yet.
LEMMA NextVersionIsFree ==
    ASSUME NEW c \in Nat \X Nat, NEW taken, IsFiniteSet(taken), Later(c) \notin taken
    PROVE  FreeSuccessorId(c, taken) = Later(c)
<1> DEFINE free == {n \in (c[2] + 1) .. (c[2] + 1 + Cardinality(taken)) : <<c[1], n>> \notin taken}
<1>1. Cardinality(taken) \in Nat /\ c[2] \in Nat
  BY FS_CardinalityType
<1>2. c[2] + 1 \in free
  BY <1>1 DEF Later
<1>3. \A m \in free : c[2] + 1 <= m /\ m \in Nat
  BY <1>1
<1> DEFINE n == CHOOSE n \in free : \A m \in free : n <= m
<1>4. FreeSuccessorId(c, taken) = <<c[1], n>>
  BY DEF FreeSuccessorId
<1> HIDE DEF free
<1>5. n \in free /\ \A m \in free : n <= m
  BY <1>2, <1>3
<1>6. n = c[2] + 1
  <2> HIDE DEF n
  <2> QED
    BY <1>1, <1>2, <1>3, <1>5
<1> QED
  BY <1>4, <1>6 DEF Later

LEMMA CourseHere ==
    ASSUME Standing, Here, pc \in Mid \cup {"round"}
    PROVE  /\ round \in 2 .. MaxRounds + 1 /\ Frozen(round) /\ Shaped(Course[round])
           /\ pc \in Mid => round \in Rounds /\ round + 1 \in 2 .. MaxRounds + 1
<1>1. round \in 2 .. MaxRounds + 1 /\ Frozen(round)
  BY DEF Here
<1>2. Shaped(Course[round])
  BY <1>1, CourseShaped DEF Course
<1> QED
  BY <1>1, <1>2, BoundsAssumption DEF Standing, Rounds

\* Nobody left to read: the round is over.
LEMMA OverWhenSettled ==
    ASSUME Standing, Here, pc \in {"append", "settle"} \/ (pc = "restore" /\ queue = {})
    PROVE  Answered(round) /\ Frozen(round + 1) /\ Done(Course[round]) = JudgesIn(Course[round])
<1>1. pc \in Mid /\ queue = {}
  BY DEF Standing, Mid
<1>2. Roll(Course[round]) /\ round \in Rounds /\ Frozen(round)
  BY <1>1, CourseHere DEF Here
<1>3. Done(Course[round]) = JudgesIn(Course[round])
  BY <1>1 DEF Done
<1>4. Answered(round)
  BY <1>2, <1>3 DEF Answered, Roll, InHand
<1>5. \A q \in 2 .. (round + 1) - 1 : q \in 2 .. round - 1 \/ q = round
  BY <1>2, BoundsAssumption DEF Rounds
<1> QED
  BY <1>2, <1>3, <1>4, <1>5 DEF Frozen

LEMMA SettledAsReplayed ==
    ASSUME FileInv, Claimed, Here, pc = "settle", NEW c \in unsettled,
           NEW o, o = Course[round], NEW k, k = Votes(audits, o, round)
    PROVE  /\ c \in OpenIn(o) /\ claims[c] = o.claims[c] /\ states[c] = o.states[c]
           /\ DecidedState(c) = DecidedIn(o, k, c)
           /\ CurrentSignature(c) = SaidIn(o, k, c)
           /\ SettledState(c) = SettledIn(o, k, c)
           /\ RememberedSignature(c) = SignatureAfter(audits, o, round, c)
           /\ Amendments(c) = RewordedIn(o, k, c)
           /\ c \in Nat \X Nat
           /\ DOMAIN claims = Made(o, round, unsettled) /\ Later(c) \notin DOMAIN claims
           /\ FreeSuccessorId(c, DOMAIN claims) = Later(c)
           /\ SuccessorState = IF round >= MaxRounds /\ MaxIterations = 1 THEN Incomplete ELSE Contested
<1>1. /\ Standing /\ Audits /\ Roll(o) /\ Papers(o) /\ Shaped(o) /\ round \in Rounds /\ Midway(o, round, unsettled)
      /\ verdicts = o.verdicts \cup AnswersOf(round) /\ queue = {} /\ iteration = 1
  BY CourseHere DEF FileInv, Here, Mid, Papers, Standing
<1>2. c \in OpenIn(o) /\ c \in DOMAIN o.states /\ c \in Made(o, round, unsettled)
  BY <1>1 DEF Midway, OpenIn, Made
<1>3. claims[c] = o.claims[c] /\ states[c] = o.states[c] /\ signatures[c] = o.signatures[c]
  BY <1>1, <1>2 DEF Midway, ClaimAfter
<1>4. k.round = round /\ k.votes = verdicts /\ k.fresh = AnswersOf(round)
  BY <1>1 DEF Votes, AnswersOf
<1>5. Roster = RosterIn(o)
  BY <1>1 DEF Roll, Roster, RosterIn
<1>6. LastRound = MaxRounds /\ (FinalBlock <=> MaxIterations = 1)
  BY <1>1, BoundsAssumption DEF LastRound, FinalBlock
<1>7. VotesOn(c) = {v \in k.votes : v.claim = c}
  BY <1>4 DEF VotesOn
<1>8. {v \in VotesOn(c) : v.judge \in Roster} = CountedIn(o, k, c)
  BY <1>5, <1>7 DEF CountedIn
<1>9. CurrentSignature(c) = SaidIn(o, k, c) /\ Amendments(c) = RewordedIn(o, k, c)
  BY <1>8 DEF CurrentSignature, SaidIn, Amendments, RewordedIn
<1>10. (\E f \in Roster : <<c, f>> \in missing)
          <=> \E f \in RosterIn(o) \ o.claims[c].origin : ~\E v \in k.fresh : v.claim = c /\ v.judge = f
  <2>1. ASSUME NEW f \in RosterIn(o)
        PROVE  <<c, f>> \in missing
                 <=> f \notin o.claims[c].origin /\ ~\E v \in k.fresh : v.claim = c /\ v.judge = f
    <3>1. f \in BenchIn(o) /\ f \in Friends
      BY DEF RosterIn, BenchIn
    <3>2. c \in SliceIn(o, f) <=> f \notin o.claims[c].origin
      BY <1>2 DEF SliceIn
    <3>3. c \in SliceIn(o, f) => f \in Done(o)
      BY <1>1, <3>1 DEF Done, JudgesIn
    <3>4. c \in Ruled(f, round) <=> \E v \in k.fresh : v.claim = c /\ v.judge = f
      <4>1. \A g \in Friends : \A v \in audits[<<g, round>>].votes : v.judge = g
        BY <1>1 DEF Audits
      <4>2. \A v : v \in k.fresh /\ v.judge = f <=> v \in audits[<<f, round>>].votes
        <5>1. k.fresh = UNION {audits[<<g, round>>].votes : g \in Friends}
          BY <1>4 DEF AnswersOf, VotesAt
        <5>2. ASSUME NEW v \in k.fresh, v.judge = f PROVE v \in audits[<<f, round>>].votes
          <6>1. PICK g \in Friends : v \in audits[<<g, round>>].votes
            BY <5>1
          <6> QED
            BY <4>1, <5>2, <6>1
        <5> QED
          BY <3>1, <4>1, <5>1, <5>2
      <4> QED
        BY <4>2 DEF Ruled
    <3>5. <<c, f>> \in missing <=> c \in SliceIn(o, f) /\ c \notin Ruled(f, round)
      BY <1>1, <1>2, <3>1, <3>3 DEF Roll, Unreported
    <3> QED
      BY <3>2, <3>4, <3>5
  <2> QED
    BY <1>5, <2>1
<1>11. DecidedState(c) = DecidedIn(o, k, c)
  BY <1>3, <1>4, <1>5, <1>6, <1>7, <1>10, Zenon DEF DecidedState, DecidedIn
<1>12. SettledState(c) = SettledIn(o, k, c)
  BY <1>3, <1>9, <1>11 DEF SettledState, SettledIn
<1>13. RememberedSignature(c) = SignatureAfter(audits, o, round, c)
  BY <1>2, <1>9, <1>11 DEF RememberedSignature, SignatureAfter
<1>14. DOMAIN claims = Made(o, round, unsettled)
  BY <1>1 DEF Midway, Maps
<1>15. c \in Nat \X Nat /\ Later(c) \notin DOMAIN claims
  <2>1. c \in Nat \X Nat /\ Later(c) \notin DOMAIN o.states
    BY <1>1, <1>2, LaterIsNew
  <2>2. ASSUME NEW d \in Replaced(audits, o, round) \ unsettled, Later(c) = Later(d) PROVE FALSE
    <3>1. d \in OpenIn(o)
      BY DEF Replaced
    <3> QED
      BY <1>1, <1>2, <2>2, <3>1, LaterIsNew
  <2> QED
    BY <1>14, <2>1, <2>2 DEF Made
<1>16. FreeSuccessorId(c, DOMAIN claims) = Later(c)
  BY <1>15, NextVersionIsFree DEF Claimed
<1>17. SuccessorState = IF round >= MaxRounds /\ MaxIterations = 1 THEN Incomplete ELSE Contested
  BY <1>6 DEF SuccessorState
<1> QED
  BY <1>2, <1>3, <1>9, <1>11, <1>12, <1>13, <1>14, <1>15, <1>16, <1>17

LEMMA NextToSettle ==
    ASSUME Claimed, pc = "settle"
    PROVE  NextUnsettled \in unsettled
<1>1. unsettled \in SUBSET (Nat \X Nat) /\ unsettled # {}
  BY DEF Claimed
<1> QED
  BY <1>1, FirstClaim DEF NextUnsettled

-----------------------------------------------------------------------------
(* What is on disk is what the replay gives.                               *)

LEMMA FiledStays ==
    ASSUME FileInv, Here, [RNext]_allVars, NEW f \in Friends, NEW r \in Rounds, Filed(f, r),
           audits'[<<f, r>>] = audits[<<f, r>>]
    PROVE  Filed(f, r)'
<1> SUFFICES ASSUME audits[<<f, r>>].version # 0 PROVE Filed(f, r)'
  BY DEF Filed
<1>1. r \in 2 .. MaxRounds + 1 /\ r \in 2 .. r
  BY BoundsAssumption DEF Rounds
<1>2. Frozen(r)' /\ Course'[r] = Course[r]
  BY <1>1, FrozenStays DEF Filed
<1>3. Ruled(f, r)' = Ruled(f, r)
  BY DEF Ruled
<1> QED
  BY <1>2, <1>3 DEF Filed

LEMMA PosedStays ==
    ASSUME FileInv, Here, [RNext]_allVars, NEW a, Posed(a)
    PROVE  Posed(a)'
<1>1. a[2] \in Rounds /\ a[2] \in 2 .. MaxRounds + 1 /\ a[2] \in 2 .. a[2]
  BY BoundsAssumption DEF Rounds, Posed
<1>2. Frozen(a[2])' /\ Course'[a[2]] = Course[a[2]]
  BY <1>1, FrozenStays DEF Posed
<1> QED
  BY <1>1, <1>2 DEF Posed

LEMMA RewritesStays ==
    ASSUME FileInv, Here, [RNext]_allVars, NEW s, NEW c, NEW r \in Rounds, Rewrites(s, c, r),
           ledgerClaims'[s] = ledgerClaims[s]
    PROVE  Rewrites(s, c, r)'
<1>1. r + 1 \in 2 .. MaxRounds + 1 /\ r \in 2 .. r + 1 /\ r \in 2 .. (r + 1) - 1
  BY BoundsAssumption DEF Rounds
<1>2. /\ Frozen(r + 1)' /\ Course'[r] = Course[r]
      /\ \A f \in Friends : audits'[<<f, r>>] = audits[<<f, r>>]
  BY <1>1, FrozenStays DEF Rewrites
<1>3. VotesAt(audits', r) = VotesAt(audits, r)
  BY <1>2 DEF VotesAt
<1>4. Votes(audits', Course[r], r) = Votes(audits, Course[r], r)
  BY <1>3 DEF Votes
<1>5. Replaced(audits', Course[r], r) = Replaced(audits, Course[r], r)
  BY <1>4 DEF Replaced
<1> QED
  BY <1>2, <1>4, <1>5 DEF Rewrites

\* The result being written is of a judge of this round, to whom its prompt
\* was put.
LEMMA FiledNow ==
    ASSUME FileInv, Here, [RNext]_allVars, NEW f \in queue, Writes(f), NEW r, r = round,
           audits'[<<f, r>>].prompt = prompts[f],
           audits'[<<f, r>>].version = 2 =>
             /\ Ruled(f, r)' \subseteq Slice(f)
             /\ audits'[<<f, r>>].omitted = Slice(f) \ Ruled(f, r)'
    PROVE  Filed(f, r)'
<1>1. pc \in Mid /\ pc # "settle" /\ round \in Rounds /\ round' = round
  BY DEF Writes, Mid
<1>2. /\ f \in JudgesIn(Course[round]) /\ prompts[f] = QuestionIn(Course[round], f)
      /\ claims = Course[round].claims /\ states = Course[round].states
  BY <1>1 DEF Here, Roll, Papers, Writes
<1>3. Slice(f) = SliceIn(Course[round], f)
  BY <1>2, MemoryFits
<1>4. r \in 2 .. MaxRounds + 1 /\ r \in 2 .. r /\ Frozen(r)
  BY <1>1, CourseHere DEF FileInv, Rounds
<1>5. Frozen(r)' /\ Course'[r] = Course[r]
  BY <1>4, FrozenStays
<1> QED
  BY <1>2, <1>3, <1>5 DEF Filed

LEMMA AllFiled ==
    ASSUME FileInv, Disk, Here, [RNext]_allVars, NEW f \in queue, Writes(f), Filed(f, round)'
    PROVE  \A g \in Friends, r \in Rounds : Filed(g, r)'
<1> SUFFICES ASSUME NEW g \in Friends, NEW r \in Rounds PROVE Filed(g, r)'
  OBVIOUS
<1>1. round' = round
  BY DEF Writes
<1>2. CASE g = f /\ r = round
  BY <1>1, <1>2
<1>3. CASE ~(g = f /\ r = round)
  <2>1. audits'[<<g, r>>] = audits[<<g, r>>]
    BY <1>3 DEF Writes
  <2> QED
    BY <2>1, FiledStays DEF Disk
<1> QED
  BY <1>2, <1>3

LEMMA DiskKept == FileInv /\ Claimed /\ Disk /\ Here /\ [RNext]_allVars => Disk'
<1> SUFFICES ASSUME FileInv, Claimed, Disk, Here, [RNext]_allVars PROVE Disk'
  OBVIOUS
<1>0. Standing /\ Audits
  BY DEF FileInv
<1>a. ASSUME audits' = audits PROVE \A f \in Friends, r \in Rounds : Filed(f, r)'
  BY <1>a, FiledStays DEF Disk
<1>b. \A a \in asked : Posed(a)'
  BY PosedStays DEF Disk
<1>c. ASSUME NEW s \in DOMAIN ledgerClaims, ledgerClaims'[s] = ledgerClaims[s] PROVE Produced(s)'
  <2>1. CASE ledgerClaims[s].round = 1
    BY <1>c, <2>1 DEF Produced
  <2>2. ASSUME NEW r \in Rounds, NEW c, Rewrites(s, c, r) PROVE Produced(s)'
    <3>1. Rewrites(s, c, r)'
      BY <1>c, <2>2, RewritesStays
    <3> QED
      BY <3>1 DEF Produced
  <2> QED
    BY <2>1, <2>2 DEF Disk, Produced
<1>d. ASSUME UNCHANGED <<audits, asked, ledgerClaims>> PROVE Disk'
  BY <1>a, <1>b, <1>c, <1>d DEF Disk
<1>e. ASSUME NEW f \in queue, Writes(f), Filed(f, round)', UNCHANGED <<asked, ledgerClaims>> PROVE Disk'
  BY <1>e, <1>b, <1>c, AllFiled DEF Disk
<1>1. ASSUME NEW why, Refuse(why) PROVE Disk'
  BY <1>1, <1>d DEF Refuse, durable, history
<1>2. CASE Recover
  BY <1>2, <1>d DEF Recover, durable, history
<1>3. CASE RestoreVote
  BY <1>3, <1>d DEF RestoreVote, history
<1>4. CASE Restored
  <2>1. audits' = audits /\ ledgerClaims' = ledgerClaims /\ pc = "restore" /\ round' = round
    BY <1>4 DEF Restored, durable
  <2>2. CASE Dispatched
    <3>1. asked' = asked \cup {<<f, round, prompts[f]>> : f \in queue}
      BY <2>2 DEF Dispatched
    <3>2. PICK r \in Rounds : r = round
      BY <1>0, <2>1 DEF Standing, Mid
    <3>3. \A f \in queue : prompts[f] = QuestionIn(Course[r], f)
      BY <2>1, <3>2 DEF Here, Papers, Mid
    <3>4. r \in 2 .. MaxRounds + 1 /\ Frozen(r) /\ r \in 2 .. r
      BY <1>0, <2>1, <3>2, CourseHere DEF Mid, Rounds
    <3>5. Frozen(r)' /\ Course'[r] = Course[r]
      BY <3>4, FrozenStays
    <3>6. ASSUME NEW a, NEW f \in queue, a = <<f, r, prompts[f]>> PROVE Posed(a)'
      <4>1. a[1] = f /\ a[2] = r /\ a[3] = QuestionIn(Course[r], f)
        BY <3>3, <3>6
      <4> QED
        BY <3>5, <4>1 DEF Posed
    <3>7. ASSUME NEW a \in asked' PROVE Posed(a)'
      <4>1. a \in asked \/ \E f \in queue : a = <<f, r, prompts[f]>>
        BY <3>1, <3>2
      <4> QED
        BY <1>b, <3>6, <4>1
    <3> QED
      BY <1>a, <1>c, <2>1, <3>7 DEF Disk
  <2>3. CASE OutOfBudget
    BY <2>1, <2>3, <1>d DEF OutOfBudget
  <2>4. CASE NothingToAsk
    BY <2>1, <2>4, <1>d DEF NothingToAsk
  <2> QED
    BY <1>4, <2>2, <2>3, <2>4 DEF Restored
<1>f. ASSUME NEW f \in Friends, pc \in {"collect", "upgrade"}, f = NextResult, round' = round,
             NEW audit, WriteAudit(f, audit), pc' = "upgrade" => pc = "collect"
      PROVE  Writes(f) /\ f \in queue /\ round \in Rounds /\ audits'[<<f, round>>] = audit
  <2>1. f \in queue /\ round \in Rounds
    BY <1>0, <1>f, ReadFirst DEF Standing, Mid
  <2>2. pc = "collect" => audits[<<f, round>>].version = 0
    BY <1>0, <2>1 DEF Audits, Audit
  <2>3. /\ audits'[<<f, round>>] = audit
        /\ \A x \in Friends \X Rounds : x # <<f, round>> => audits'[x] = audits[x]
    BY <1>0, <1>f, <2>1, AuditWritten
  <2> QED
    BY <1>f, <2>1, <2>2, <2>3 DEF Writes
<1>5. ASSUME NEW f \in Friends, NEW payload, PersistAnswer(f, payload) PROVE Disk'
  <2> DEFINE audit == [NoAudit EXCEPT !.version = 1, !.prompt = prompts[f]]
  <2>1. audit.version = 1 /\ audit.prompt = prompts[f]
    BY DEF NoAudit
  <2>2. /\ WriteAudit(f, audit) /\ pc = "collect" /\ f = NextResult /\ round' = round
        /\ UNCHANGED <<asked, ledgerClaims>>
    BY <1>5 DEF PersistAnswer, history
  <2> HIDE DEF audit
  <2>3. Writes(f) /\ f \in queue /\ audits'[<<f, round>>] = audit
    BY <2>2, <1>f
  <2>4. PICK r : r = round
    OBVIOUS
  <2>5. Filed(f, r)'
    BY <2>1, <2>3, <2>4, FiledNow
  <2> QED
    BY <2>2, <2>3, <2>4, <2>5, <1>e
<1>6. ASSUME NEW f \in Friends, PersistBatch(f) PROVE Disk'
  <2> DEFINE audit == [version |-> 2, prompt |-> prompts[f], votes |-> Accepted(f, inHand),
                       omitted |-> Slice(f) \ DOMAIN inHand, failure |-> NoFailure]
  <2>1. /\ audit.version = 2 /\ audit.prompt = prompts[f]
        /\ audit.votes = Accepted(f, inHand) /\ audit.omitted = Slice(f) \ DOMAIN inHand
    OBVIOUS
  <2>2. /\ WriteAudit(f, audit) /\ pc = "upgrade" /\ f = NextResult /\ round' = round /\ pc' # "upgrade"
        /\ UNCHANGED <<asked, ledgerClaims>>
    BY <1>6 DEF PersistBatch, history, Persisted
  <2> HIDE DEF audit
  <2>3. Writes(f) /\ f \in queue /\ audits'[<<f, round>>] = audit
    BY <2>2, <1>f
  <2>4. PICK r : r = round
    OBVIOUS
  <2>5. Ruled(f, r)' = (DOMAIN inHand) \cap Slice(f)
    BY <2>1, <2>3, <2>4, AcceptedVotes DEF Ruled
  <2>6. Filed(f, r)'
    BY <2>1, <2>3, <2>4, <2>5, FiledNow
  <2> QED
    BY <2>2, <2>3, <2>4, <2>6, <1>e
<1>7. ASSUME NEW f \in Friends, NEW reason, PersistFailure(f, reason) PROVE Disk'
  <2> DEFINE audit == [NoAudit EXCEPT !.version = 1, !.prompt = prompts[f], !.failure = reason]
  <2>1. audit.version = 1 /\ audit.prompt = prompts[f]
    BY DEF NoAudit
  <2>2. /\ WriteAudit(f, audit) /\ pc = "collect" /\ f = NextResult /\ round' = round
        /\ UNCHANGED <<asked, ledgerClaims>>
    BY <1>7 DEF PersistFailure, history
  <2> HIDE DEF audit
  <2>3. Writes(f) /\ f \in queue /\ audits'[<<f, round>>] = audit
    BY <2>2, <1>f
  <2>4. PICK r : r = round
    OBVIOUS
  <2>5. Filed(f, r)'
    BY <2>1, <2>3, <2>4, FiledNow
  <2> QED
    BY <2>2, <2>3, <2>4, <2>5, <1>e
<1>8. CASE AppendVote
  BY <1>8, <1>d DEF AppendVote, history
<1>9. CASE Appended
  BY <1>9, <1>d DEF Appended, durable, history
<1>10. CASE RecoverableSettle
  <2>0. PICK c : c = NextUnsettled
    OBVIOUS
  <2>1. pc = "settle" /\ RecordSuccessor(c) /\ audits' = audits /\ asked' = asked
    BY <1>10, <2>0 DEF RecoverableSettle, history
  <2>2. c \in unsettled
    BY <2>0, <2>1, NextToSettle
  <2>3. PICK r \in Rounds : r = round
    BY <1>0, <2>1 DEF Standing, Mid
  <2>4. PICK o : o = Course[r]
    OBVIOUS
  <2>5. PICK k : k = Votes(audits, o, r)
    OBVIOUS
  <2>6. /\ c \in OpenIn(o) /\ claims[c] = o.claims[c] /\ SettledState(c) = SettledIn(o, k, c)
        /\ Amendments(c) = RewordedIn(o, k, c) /\ FreeSuccessorId(c, DOMAIN claims) = Later(c)
    BY <2>1, <2>2, <2>3, <2>4, <2>5, SettledAsReplayed
  <2>7. CASE SettledState(c) = Superseded /\ Persistent(c) = {}
    <3>1. ledgerClaims' = With(ledgerClaims, Later(c), Successor(c, o.claims[c].origin, RewordedIn(o, k, c), r))
      BY <2>1, <2>3, <2>6, <2>7 DEF RecordSuccessor, ExpectedSuccessor
    <3>2. /\ DOMAIN ledgerClaims' = DOMAIN ledgerClaims \cup {Later(c)}
          /\ ledgerClaims'[Later(c)] = Successor(c, o.claims[c].origin, RewordedIn(o, k, c), r)
          /\ \A s \in DOMAIN ledgerClaims : s # Later(c) => ledgerClaims'[s] = ledgerClaims[s]
      BY <3>1 DEF With
    <3>3. Frozen(r + 1)
      BY <1>0, <2>1, <2>3, OverWhenSettled
    <3>4. r + 1 \in 2 .. MaxRounds + 1 /\ r \in 2 .. r + 1
      BY <2>3, BoundsAssumption DEF Rounds
    <3>5. Frozen(r + 1)' /\ Course'[r] = Course[r]
      BY <3>3, <3>4, FrozenStays
    <3>6. c \in Replaced(audits, Course[r], r)
      BY <2>4, <2>5, <2>6, <2>7 DEF Replaced
    <3>7. PICK s : s = Later(c)
      OBVIOUS
    <3>8. Rewrites(s, c, r)'
      <4>1. c \in Replaced(audits', Course'[r], r)
        BY <2>1, <3>5, <3>6
      <4>2. ledgerClaims'[s] = Successor(c, o.claims[c].origin, RewordedIn(o, k, c), r)
        BY <3>2, <3>7
      <4>3. o = Course'[r] /\ k = Votes(audits', o, r)
        BY <2>1, <2>4, <2>5, <3>5
      <4>4. ledgerClaims'[s] = Successor(c, Course'[r].claims[c].origin,
                                         RewordedIn(Course'[r], Votes(audits', Course'[r], r), c), r)
        BY <4>2, <4>3
      <4> QED
        BY <3>5, <3>7, <4>1, <4>4 DEF Rewrites
    <3>9. Produced(s)'
      BY <3>8 DEF Produced
    <3>10. \A t \in DOMAIN ledgerClaims' : Produced(t)'
      BY <1>c, <3>2, <3>7, <3>9
    <3> QED
      BY <1>a, <1>b, <2>1, <3>10 DEF Disk
  <2>8. CASE ~(SettledState(c) = Superseded /\ Persistent(c) = {})
    BY <2>1, <2>8, <1>d DEF RecordSuccessor
  <2> QED
    BY <2>7, <2>8
<1>11. CASE StopOrFinish
  BY <1>11, <1>d DEF StopOrFinish, durable, history
<1>12. CASE Finish
  BY <1>12, <1>d DEF Finish, durable, history
<1>13. CASE CrashAndResume
  BY <1>13, <1>d DEF CrashAndResume, durable
<1>14. CASE UNCHANGED allVars
  BY <1>14, <1>d DEF allVars, durable, history
<1> QED
  BY <1>1, <1>2, <1>3, <1>4, <1>5, <1>6, <1>7, <1>8, <1>9, <1>10, <1>11, <1>12, <1>13, <1>14
     DEF RNext, RProgress, RefuseRecovery

-----------------------------------------------------------------------------
(* The process keeps to the replay.                                        *)

LEMMA RoundStays ==
    ASSUME FileInv, Here, [RNext]_allVars, pc \in Mid, NEW r, r = round, NEW o, o = Course[r]
    PROVE  /\ r \in Rounds /\ r \in 2 .. MaxRounds + 1 /\ Shaped(o)
           /\ Roll(o) /\ Papers(o)
           /\ Frozen(r)' /\ Course'[r] = o
<1>1. r \in Rounds /\ r \in 2 .. MaxRounds + 1 /\ Shaped(o) /\ Frozen(r)
  BY CourseHere DEF FileInv
<1>2. Roll(o) /\ Papers(o)
  BY DEF Here
<1>3. r \in 2 .. r
  BY <1>1
<1> QED
  BY <1>1, <1>2, <1>3, FrozenStays

LEMMA StillHere ==
    ASSUME NEW r, r \in 2 .. MaxRounds + 1, Frozen(r)', NEW o, Course'[r] = o,
           round' = r, pc' \in Mid, Roll(o)', Papers(o)'
    PROVE  Here'
BY DEF Here, Mid

LEMMA OutOfTheRounds ==
    ASSUME pc' \notin Mid \cup {"round", "refused"}
    PROVE  Here'
BY DEF Here

\* Nothing of the roll moves.
LEMMA RollStays ==
    ASSUME NEW o, Roll(o), UNCHANGED <<active, queue, audits, round, tracker, missing>>
    PROVE  Roll(o)'
BY DEF Roll, Done, Unreported, Ruled, AheadOf, NobodyFailed

\* A captured vote goes to the ledger.
LEMMA AppendKeepsHere ==
    ASSUME FileInv, Here, [RNext]_allVars, pc \in {"restore", "append"}, Append, pending # {},
           UNCHANGED <<vars, audits, prompts>>
    PROVE  Here'
<1>1. PICK r : r = round
  OBVIOUS
<1>2. PICK o : o = Course[r]
  OBVIOUS
<1>3. /\ r \in 2 .. MaxRounds + 1 /\ Roll(o) /\ Papers(o) /\ Frozen(r)' /\ Course'[r] = o
  BY <1>1, <1>2, RoundStays DEF Mid
<1>4. /\ UNCHANGED <<active, queue, missing, round, tracker, pc, claims, states, signatures, verdicts>>
      /\ pc \in Mid
  BY DEF vars, roundVars, recordVars, Mid
<1>5. Roll(o)'
  BY <1>3, <1>4, RollStays
<1>6. Papers(o)'
  <2>1. ledger' \cup pending' = ledger \cup pending
    BY FirstPending DEF Append
  <2>2. AnswersOf(round)' = AnswersOf(round)
    BY <1>4 DEF AnswersOf
  <2> QED
    BY <1>3, <1>4, <2>1, <2>2 DEF Papers
<1> QED
  BY <1>1, <1>3, <1>4, <1>5, <1>6, StillHere

\* What the disk holds of a round, when the process opens it.
LEMMA TakenOver ==
    ASSUME FileInv, Disk, Here, Recover, NEW r, r = round, NEW o, o = Course[r]
    PROVE  /\ r \in Rounds /\ Shaped(o) /\ Memory = o /\ AskedNow = JudgesIn(o)
           /\ \A f \in JudgesIn(o) : f \in Friends /\ (f \notin NotCaptured <=> audits[<<f, r>>].version = 2)
           /\ \A f \in JudgesIn(o) \ NotCaptured :
                /\ audits[<<f, r>>].failure = NoFailure /\ o.tracker[f] = NeverFailed
                /\ Ruled(f, r) \subseteq SliceIn(o, f)
                /\ audits[<<f, r>>].omitted = SliceIn(o, f) \ Ruled(f, r)
           /\ AnswersOf(r) \subseteq CapturedVotes
<1>1. r \in Rounds /\ Standing /\ Audits /\ pc = "round"
  BY NothingHalfDone DEF FileInv, Recover, Judging
<1>2. Memory = o /\ (AheadOf(r) => NobodyFailed) /\ Shaped(o)
  BY <1>1, CourseHere DEF Here
<1>3. AskedNow = JudgesIn(o) /\ tracker = o.tracker
  BY <1>2, MemoryAsks
<1>4. ASSUME NEW f \in JudgesIn(o)
      PROVE  f \in Friends /\ (f \notin NotCaptured <=> audits[<<f, r>>].version = 2)
  <2>1. f \in AskedNow /\ f \in Friends
    BY <1>3 DEF JudgesIn, BenchIn
  <2> QED
    BY <2>1 DEF NotCaptured, Captured, Audit
<1>5. ASSUME NEW f \in JudgesIn(o), f \notin NotCaptured
      PROVE  /\ audits[<<f, r>>].failure = NoFailure /\ o.tracker[f] = NeverFailed
             /\ Ruled(f, r) \subseteq SliceIn(o, f)
             /\ audits[<<f, r>>].omitted = SliceIn(o, f) \ Ruled(f, r)
  <2>1. f \in Friends /\ audits[<<f, r>>].version = 2 /\ <<f, r>> \in Friends \X Rounds
    BY <1>1, <1>4, <1>5
  <2>2. audits[<<f, r>>].failure = NoFailure
    BY <1>1, <2>1 DEF Audits
  <2>3. AheadOf(r)
    <3>1. r >= r
      BY <1>1 DEF Rounds
    <3> QED
      BY <1>1, <2>1, <3>1 DEF AheadOf
  <2>4. o.tracker[f] = NeverFailed
    BY <1>2, <1>3, <2>1, <2>3 DEF NobodyFailed
  <2>5. Filed(f, r)
    BY <1>1, <2>1 DEF Disk
  <2> QED
    BY <2>1, <2>2, <2>4, <2>5 DEF Filed
<1>6. ASSUME NEW v \in AnswersOf(r) PROVE v \in CapturedVotes
  <2>1. PICK f \in Friends : v \in audits[<<f, r>>].votes
    BY DEF AnswersOf, VotesAt
  <2>2. audits[<<f, r>>].version = 2 /\ Filed(f, r)
    BY <1>1, <2>1 DEF Audits, Disk
  <2>3. f \in AskedNow
    BY <1>3, <2>2 DEF Filed
  <2> QED
    BY <2>1, <2>2, <2>3 DEF CapturedVotes, Captured, Audit
<1> QED
  BY <1>1, <1>2, <1>3, <1>4, <1>5, <1>6

LEMMA RecoverKeepsHere ==
    ASSUME FileInv, Disk, Here, [RNext]_allVars, Recover
    PROVE  Here'
<1>0. /\ pc = "round" /\ pc' = "restore" /\ round' = round /\ active' = Dispatchable /\ queue' = NotCaptured
      /\ missing' = CapturedMissing /\ prompts' = [f \in NotCaptured |-> Prompt(f)]
      /\ pending' = CapturedVotes \ ledger
      /\ UNCHANGED <<claims, states, signatures, verdicts, tracker, audits, ledger>>
  BY DEF Recover, Judging, recordVars, durable
<1>1. PICK r : r = round
  OBVIOUS
<1>2. PICK o : o = Course[r]
  OBVIOUS
<1>3. /\ r \in Rounds /\ Shaped(o) /\ Memory = o /\ AskedNow = JudgesIn(o)
      /\ \A f \in JudgesIn(o) : f \in Friends /\ (f \notin NotCaptured <=> audits[<<f, r>>].version = 2)
      /\ \A f \in JudgesIn(o) \ NotCaptured :
           /\ audits[<<f, r>>].failure = NoFailure /\ o.tracker[f] = NeverFailed
           /\ Ruled(f, r) \subseteq SliceIn(o, f)
           /\ audits[<<f, r>>].omitted = SliceIn(o, f) \ Ruled(f, r)
      /\ AnswersOf(r) \subseteq CapturedVotes
  BY <1>1, <1>2, TakenOver
<1>4. /\ claims = o.claims /\ states = o.states /\ signatures = o.signatures
      /\ verdicts = o.verdicts /\ tracker = o.tracker /\ Dispatchable = BenchIn(o)
      /\ \A f : Prompt(f) = QuestionIn(o, f)
  BY <1>3, MemoryAsks
<1>5. r \in 2 .. MaxRounds + 1 /\ r \in 2 .. r /\ Frozen(r)
  BY <1>0, <1>1, <1>3, BoundsAssumption DEF Here, Rounds
<1>6. Frozen(r)' /\ Course'[r] = o
  BY <1>2, <1>5, FrozenStays
<1>7. NotCaptured \subseteq JudgesIn(o) /\ Captured = JudgesIn(o) \ NotCaptured
  BY <1>3 DEF NotCaptured, Captured
<1>8. Roll(o)'
  <2>1. Done(o)' = JudgesIn(o) \ NotCaptured
    BY <1>0 DEF Done
  <2>2. \A f \in Done(o)' : audits'[<<f, r>>].version # 0
    BY <1>0, <1>3, <2>1
  <2>3. Maps(tracker', Friends)
    BY <1>0, <1>3, <1>4 DEF Shaped
  <2>4. ASSUME NEW f \in Friends
        PROVE  tracker'[f] = IF f \in Done(o)' THEN Recorded(o.tracker[f], audits'[<<f, r>>].failure)
                             ELSE o.tracker[f]
    <3>1. CASE f \in Done(o)'
      <4>1. audits'[<<f, r>>].failure = NoFailure /\ o.tracker[f] = NeverFailed
        BY <1>0, <1>3, <2>1, <3>1
      <4> QED
        BY <1>0, <1>4, <3>1, <4>1 DEF Recorded, NeverFailed
    <3> QED
      BY <1>0, <1>4, <3>1
  <2>5. missing' = Unreported(o, r)'
    <3>1. \A x : x \in CapturedMissing <=> \E f \in Captured : \E c \in Audit(f).omitted : x = <<c, f>>
      BY DEF CapturedMissing
    <3>2. \A f \in Captured : f \in Friends /\ Audit(f).omitted = SliceIn(o, f) \ Ruled(f, r)
      BY <1>1, <1>3, <1>7 DEF Audit
    <3>3. \A x : x \in CapturedMissing
                   <=> \E f \in Captured : \E c \in SliceIn(o, f) \ Ruled(f, r) : x = <<c, f>>
      BY <3>1, <3>2
    <3>4. \A f : SliceIn(o, f) \subseteq OpenIn(o)
      BY DEF SliceIn
    <3>5. Unreported(o, r)' = {x \in OpenIn(o) \X Friends :
                                 x[2] \in Captured /\ x[1] \in SliceIn(o, x[2]) /\ x[1] \notin Ruled(x[2], r)}
      BY <1>0, <1>7, <2>1 DEF Unreported, Ruled
    <3>6. \A x : x \in Unreported(o, r)'
                   <=> \E f \in Captured : \E c \in SliceIn(o, f) \ Ruled(f, r) : x = <<c, f>>
      BY <3>2, <3>4, <3>5
    <3>7. \A x : x \in CapturedMissing <=> x \in Unreported(o, r)'
      BY <3>3, <3>6
    <3> QED
      BY <1>0, <3>7
  <2>6. AheadOf(r + 1)' => NobodyFailed'
    <3>1. AheadOf(r + 1)' => AheadOf(r)
      <4>1. \A q \in Rounds : q >= r + 1 => q >= r
        BY <1>3 DEF Rounds
      <4> QED
        BY <1>0, <4>1 DEF AheadOf
    <3> QED
      BY <1>0, <1>1, <3>1 DEF Here, NobodyFailed
  <2> QED
    BY <1>0, <1>1, <1>4, <1>7, <2>2, <2>3, <2>4, <2>5, <2>6 DEF Roll
<1>9. Papers(o)'
  <2>1. AnswersOf(r)' \subseteq ledger' \cup pending'
    BY <1>0, <1>3 DEF AnswersOf
  <2>2. \A f \in queue' : prompts'[f] = QuestionIn(o, f)
    BY <1>0, <1>4
  <2> QED
    BY <1>0, <1>1, <1>4, <2>1, <2>2 DEF Papers, Gathering
<1> QED
  BY <1>0, <1>1, <1>5, <1>6, <1>8, <1>9, StillHere DEF Mid

\* The votes the ledger has of an open round are answers of it.
LEMMA LedgerAnswers ==
    ASSUME FileInv, Disk, NEW r \in Rounds
    PROVE  /\ \A v \in ledger : v.round = r => v \in AnswersOf(r)
           /\ \A v \in AnswersOf(r) : v.round = r /\ v.claim \in OpenIn(Course[r])
<1>1. ASSUME NEW v \in ledger, v.round = r PROVE v \in AnswersOf(r)
  <2>1. Traced(v)
    BY DEF FileInv, Published
  <2> QED
    BY <1>1, <2>1 DEF Traced, AnswersOf, VotesAt
<1>2. ASSUME NEW v \in AnswersOf(r) PROVE v.round = r /\ v.claim \in OpenIn(Course[r])
  <2>1. PICK f \in Friends : v \in audits[<<f, r>>].votes
    BY DEF AnswersOf, VotesAt
  <2>2. v.round = r /\ audits[<<f, r>>].version = 2
    BY <2>1 DEF FileInv, Audits
  <2>3. v.claim \in SliceIn(Course[r], f)
    <3>1. v.claim \in Ruled(f, r)
      BY <2>1 DEF Ruled
    <3> QED
      BY <2>2, <3>1 DEF Disk, Filed
  <2> QED
    BY <2>2, <2>3 DEF SliceIn
<1> QED
  BY <1>1, <1>2

\* Nothing is settled yet.
LEMMA SettlingBegins ==
    ASSUME NEW o, Shaped(o), NEW r, claims' = o.claims, states' = o.states, signatures' = o.signatures
    PROVE  Midway(o, r, OpenIn(o))'
<1>1. Replaced(audits', o, r) \subseteq OpenIn(o) /\ OpenIn(o) \subseteq DOMAIN o.states
  BY DEF Replaced, OpenIn
<1>2. Made(o, r, OpenIn(o))' = DOMAIN o.states
  BY <1>1 DEF Made
<1>3. ASSUME NEW c \in DOMAIN o.states
      PROVE  /\ claims'[c] = ClaimAfter(audits', o, r, c)
             /\ states'[c] = IF c \in OpenIn(o) THEN o.states[c] ELSE StateAfter(audits', o, r, c)
             /\ signatures'[c] = IF c \in OpenIn(o) THEN o.signatures[c] ELSE SignatureAfter(audits', o, r, c)
  BY DEF ClaimAfter, StateAfter, SignatureAfter
<1>4. Maps(claims', DOMAIN o.states) /\ Maps(states', DOMAIN o.states) /\ Maps(signatures', DOMAIN o.states)
  BY DEF Shaped
<1> QED
  BY <1>2, <1>3, <1>4 DEF Midway

\* All the answers are known: the open claims are settled now.
LEMMA SettlingIsHere ==
    ASSUME FileInv, Here, [RNext]_allVars, pc \in {"restore", "append"}, pc' = "settle",
           UNCHANGED <<round, claims, states, signatures, tracker, active, queue, missing, audits>>,
           unsettled' = OpenClaims, verdicts' = Course[round].verdicts \cup AnswersOf(round)
    PROVE  Here'
<1>1. PICK r : r = round
  OBVIOUS
<1>2. PICK o : o = Course[r]
  OBVIOUS
<1>3. /\ r \in 2 .. MaxRounds + 1 /\ Roll(o) /\ Papers(o) /\ Shaped(o) /\ Frozen(r)' /\ Course'[r] = o
  BY <1>1, <1>2, RoundStays DEF Mid
<1>4. claims = o.claims /\ states = o.states /\ signatures = o.signatures
  BY <1>3 DEF Papers
<1>5. unsettled' = OpenIn(o)
  BY <1>4, MemoryFits
<1>6. Midway(o, r, OpenIn(o))'
  BY <1>3, <1>4, SettlingBegins
<1>7. Papers(o)'
  <2>1. AnswersOf(round)' = AnswersOf(round)
    BY DEF AnswersOf
  <2>2. Midway(o, round, unsettled)'
    BY <1>1, <1>5, <1>6
  <2> QED
    BY <1>1, <1>2, <2>1, <2>2 DEF Papers, Gathering
<1>8. Roll(o)'
  BY <1>3, RollStays
<1> QED
  BY <1>1, <1>3, <1>7, <1>8, StillHere DEF Mid

LEMMA RestoredKeepsHere ==
    ASSUME FileInv, Disk, Here, [RNext]_allVars, Restored
    PROVE  Here'
<1>0. /\ pc = "restore" /\ pending = {} /\ verdicts' = verdicts \cup RecoveredVotes
      /\ UNCHANGED <<round, claims, states, signatures, tracker, active, queue, missing, audits,
                     ledger, pending, prompts>>
  BY DEF Restored, durable, memory
<1>1. PICK r : r = round
  OBVIOUS
<1>2. PICK o : o = Course[r]
  OBVIOUS
<1>3. /\ r \in Rounds /\ r \in 2 .. MaxRounds + 1 /\ Roll(o) /\ Papers(o) /\ Shaped(o)
      /\ Frozen(r)' /\ Course'[r] = o
  BY <1>0, <1>1, <1>2, RoundStays DEF Mid
<1>4. /\ claims = o.claims /\ states = o.states /\ signatures = o.signatures /\ verdicts = o.verdicts
      /\ AnswersOf(r) \subseteq ledger
      /\ \A f \in queue : prompts[f] = QuestionIn(o, f)
  BY <1>0, <1>1, <1>3 DEF Papers
<1>5. RecoveredVotes = AnswersOf(r)
  <2>1. OpenClaims = OpenIn(o)
    BY <1>4, MemoryFits
  <2>2. /\ \A v \in ledger : v.round = r => v \in AnswersOf(r)
        /\ \A v \in AnswersOf(r) : v.round = r /\ v.claim \in OpenIn(o)
    BY <1>2, <1>3, LedgerAnswers
  <2> QED
    BY <1>1, <1>4, <2>1, <2>2 DEF RecoveredVotes
<1>6. CASE Dispatched
  <2>1. pc' = "collect"
    BY <1>6 DEF Dispatched
  <2>2. AnswersOf(round)' = AnswersOf(r)
    BY <1>0, <1>1 DEF AnswersOf
  <2>3. Papers(o)'
    BY <1>0, <1>4, <1>5, <2>1, <2>2 DEF Papers, Gathering
  <2>4. Roll(o)'
    BY <1>0, <1>3, RollStays
  <2> QED
    BY <1>0, <1>1, <1>3, <2>1, <2>3, <2>4, StillHere DEF Mid
<1>7. CASE OutOfBudget
  BY <1>7, OutOfTheRounds DEF OutOfBudget, Mid
<1>8. CASE NothingToAsk
  BY <1>0, <1>1, <1>2, <1>4, <1>5, <1>8, SettlingIsHere DEF NothingToAsk
<1> QED
  BY <1>6, <1>7, <1>8 DEF Restored

LEMMA AppendedKeepsHere ==
    ASSUME FileInv, Disk, Here, [RNext]_allVars, Appended
    PROVE  Here'
<1>0. /\ pc = "append" /\ pending = {} /\ verdicts' = verdicts \cup {v \in ledger : v.round = round}
      /\ pc' = "settle" /\ unsettled' = OpenClaims
      /\ UNCHANGED <<round, claims, states, signatures, tracker, active, queue, missing, audits>>
  BY DEF Appended, durable
<1>1. PICK r : r = round
  OBVIOUS
<1>2. PICK o : o = Course[r]
  OBVIOUS
<1>3. r \in Rounds /\ Papers(o)
  BY <1>0, <1>1, <1>2, RoundStays DEF Mid
<1>4. /\ o.verdicts \subseteq verdicts /\ verdicts \subseteq o.verdicts \cup AnswersOf(r)
      /\ AnswersOf(r) \subseteq ledger
  BY <1>0, <1>1, <1>3 DEF Papers, Gathering
<1>5. {v \in ledger : v.round = r} = AnswersOf(r)
  BY <1>2, <1>3, <1>4, LedgerAnswers
<1>6. verdicts' = o.verdicts \cup AnswersOf(r)
  BY <1>0, <1>1, <1>4, <1>5
<1> QED
  BY <1>0, <1>1, <1>2, <1>6, SettlingIsHere

-----------------------------------------------------------------------------
(* The results of the round.                                               *)

\* Where a result is still to be written, no later round has files.
LEMMA NothingAhead ==
    ASSUME Disk, Here, NEW f, Writes(f), NEW r, r = round
    PROVE  ~AheadOf(r + 1)
<1>1. r \in Rounds
  BY DEF Writes
<1>2. SUFFICES ASSUME NEW g \in Friends, NEW q \in Rounds, q >= r + 1, audits[<<g, q>>].version # 0
               PROVE  FALSE
  BY DEF AheadOf
<1>3. Frozen(q) /\ r \in 2 .. q - 1
  BY <1>1, <1>2 DEF Disk, Filed, Rounds
<1>4. Answered(r)
  BY <1>3 DEF Frozen
<1> QED
  BY <1>4, WritesInAnOpenRound

\* What of the files a written result leaves as it was.
LEMMA OtherFiles ==
    ASSUME NEW f, Writes(f), NEW r, r = round
    PROVE  /\ \A g \in Friends \ {f} : audits'[<<g, r>>] = audits[<<g, r>>] /\ Ruled(g, r)' = Ruled(g, r)
           /\ AheadOf(r + 1)' => AheadOf(r + 1)
<1>1. r \in Rounds
  BY DEF Writes
<1>2. \A g \in Friends \ {f} : audits'[<<g, r>>] = audits[<<g, r>>]
  BY <1>1 DEF Writes
<1>3. \A g \in Friends, q \in Rounds : q >= r + 1 => audits'[<<g, q>>] = audits[<<g, q>>]
  BY <1>1 DEF Writes, Rounds
<1> QED
  BY <1>2, <1>3 DEF Ruled, AheadOf

\* A result that is read in full: it is on disk, and counted.
LEMMA ReadResult ==
    ASSUME FileInv, Disk, Here, NEW f \in queue, Writes(f), NEW r, r = round, NEW o, Roll(o),
           o.claims = claims, o.states = states,
           queue' = queue \ {f}, active' = active,
           audits'[<<f, r>>].version # 0,
           tracker' = [tracker EXCEPT ![f] = Recorded(@, audits'[<<f, r>>].failure)],
           missing' = missing \cup ((Slice(f) \ Ruled(f, r)') \X {f})
    PROVE  Roll(o)'
<1>0. /\ f \in Friends /\ f \in JudgesIn(o) /\ f \notin Done(o) /\ round' = r
      /\ JudgesIn(o) \subseteq Friends
  BY DEF Writes, Roll, Done, JudgesIn, BenchIn
<1>1. /\ \A g \in Friends \ {f} : audits'[<<g, r>>] = audits[<<g, r>>] /\ Ruled(g, r)' = Ruled(g, r)
      /\ ~AheadOf(r + 1)'
  BY NothingAhead, OtherFiles
<1>2. Done(o)' = Done(o) \cup {f}
  BY <1>0 DEF Done
<1>3. \A g \in Done(o)' : audits'[<<g, r>>].version # 0
  <2>1. \A g \in Done(o) : audits[<<g, r>>].version # 0 /\ g \in Friends \ {f}
    BY <1>0 DEF Roll, Done
  <2> QED
    BY <1>1, <1>2, <2>1
<1>4. Maps(tracker, Friends)
  BY DEF Roll
<1>5. /\ Maps(tracker', Friends) /\ tracker'[f] = Recorded(tracker[f], audits'[<<f, r>>].failure)
      /\ \A g \in Friends \ {f} : tracker'[g] = tracker[g]
  BY <1>0, <1>4 DEF Maps
<1>6. ASSUME NEW g \in Friends
      PROVE  tracker'[g] = IF g \in Done(o)' THEN Recorded(o.tracker[g], audits'[<<g, r>>].failure)
                           ELSE o.tracker[g]
  <2>1. tracker[g] = IF g \in Done(o) THEN Recorded(o.tracker[g], audits[<<g, r>>].failure) ELSE o.tracker[g]
    BY DEF Roll
  <2>2. CASE g = f
    BY <1>0, <1>2, <1>5, <2>1, <2>2
  <2>3. CASE g # f
    BY <1>1, <1>2, <1>5, <2>1, <2>3
  <2> QED
    BY <2>2, <2>3
<1>7. missing' = Unreported(o, r)'
  <2>1. missing = Unreported(o, r)
    BY DEF Roll
  <2>2. Slice(f) = SliceIn(o, f) /\ SliceIn(o, f) \subseteq OpenIn(o)
    BY MemoryFits DEF SliceIn
  <2>3. ASSUME NEW c \in OpenIn(o), NEW g \in Friends
        PROVE  <<c, g>> \in missing' <=> <<c, g>> \in Unreported(o, r)'
    <3>1. <<c, g>> \in Unreported(o, r) <=> g \in Done(o) /\ c \in SliceIn(o, g) /\ c \notin Ruled(g, r)
      BY DEF Unreported
    <3>2. <<c, g>> \in Unreported(o, r)' <=> g \in Done(o)' /\ c \in SliceIn(o, g) /\ c \notin Ruled(g, r)'
      BY DEF Unreported
    <3>3. <<c, g>> \in missing' <=> <<c, g>> \in missing \/ (g = f /\ c \in SliceIn(o, f) /\ c \notin Ruled(f, r)')
      BY <2>2
    <3>4. CASE g = f
      BY <1>0, <1>2, <2>1, <3>1, <3>2, <3>3, <3>4
    <3>5. CASE g # f
      BY <1>1, <1>2, <2>1, <3>1, <3>2, <3>3, <3>5
    <3> QED
      BY <3>4, <3>5
  <2>4. missing' \subseteq OpenIn(o) \X Friends
    BY <1>0, <2>1, <2>2 DEF Unreported
  <2>5. Unreported(o, r)' \subseteq OpenIn(o) \X Friends
    BY DEF Unreported
  <2> QED
    BY <2>3, <2>4, <2>5
<1>8. active' = BenchIn(o) /\ queue' \subseteq JudgesIn(o)
  BY DEF Roll
<1> QED
  BY <1>0, <1>1, <1>3, <1>5, <1>6, <1>7, <1>8 DEF Roll

\* The papers, when a result is written and its votes wait for the ledger.
LEMMA PapersStay ==
    ASSUME FileInv, NEW f \in queue, Writes(f), NEW r, r = round, NEW o, Papers(o),
           pc' \in Gathering, queue' \subseteq queue,
           UNCHANGED <<claims, states, signatures, verdicts, prompts, ledger>>,
           pending' = pending \cup audits'[<<f, r>>].votes
    PROVE  Papers(o)'
<1>0. f \in Friends /\ r \in Rounds /\ round' = r /\ pc \in {"collect", "upgrade"}
  BY DEF Writes
<1>1. \A g \in Friends : g # f => audits'[<<g, r>>] = audits[<<g, r>>]
  BY OtherFiles
<1>2. audits[<<f, r>>].votes = {}
  <2>1. audits[<<f, r>>].version # 2
    BY <1>0 DEF FileInv, Audits, Audit, Writes
  <2> QED
    BY <1>0, <2>1 DEF FileInv, Audits
<1>3. AnswersOf(r)' = AnswersOf(r) \cup audits'[<<f, r>>].votes
  BY <1>0, <1>1, <1>2 DEF AnswersOf, VotesAt
<1>4. /\ claims = o.claims /\ states = o.states /\ signatures = o.signatures
      /\ AnswersOf(r) \subseteq ledger \cup pending
      /\ o.verdicts \subseteq verdicts /\ verdicts \subseteq o.verdicts \cup AnswersOf(r)
      /\ \A g \in queue : prompts[g] = QuestionIn(o, g)
  BY <1>0 DEF Papers, Gathering
<1> QED
  BY <1>0, <1>3, <1>4 DEF Papers, Gathering

LEMMA ResultsKeepHere ==
    ASSUME FileInv, Disk, Here, [RNext]_allVars, NEW f \in Friends,
           \/ \E payload \in Payloads : PersistAnswer(f, payload)
           \/ \E reason \in Reasons : PersistFailure(f, reason)
           \/ PersistBatch(f)
    PROVE  Here'
<1>0. Standing /\ Audits
  BY DEF FileInv
<1>1. PICK r : r = round
  OBVIOUS
<1>2. PICK o : o = Course[r]
  OBVIOUS
<1>3. pc \in {"collect", "upgrade"} /\ f = NextResult /\ round' = round /\ pc' \in Gathering
  BY DEF PersistAnswer, PersistFailure, PersistBatch, Persisted, Gathering
<1>4. /\ r \in Rounds /\ r \in 2 .. MaxRounds + 1 /\ Roll(o) /\ Papers(o) /\ Frozen(r)' /\ Course'[r] = o
  BY <1>1, <1>2, <1>3, RoundStays DEF Mid
<1>5. f \in queue /\ claims = o.claims /\ states = o.states
  BY <1>0, <1>3, <1>4, ReadFirst DEF Standing, Papers
<1>a. ASSUME NEW audit, WriteAudit(f, audit), pc' = "upgrade" => pc = "collect"
      PROVE  Writes(f) /\ audits'[<<f, r>>] = audit
  <2>1. pc = "collect" => audits[<<f, round>>].version = 0
    BY <1>0, <1>5 DEF Audits, Audit
  <2>2. /\ audits'[<<f, round>>] = audit
        /\ \A x \in Friends \X Rounds : x # <<f, round>> => audits'[x] = audits[x]
    BY <1>0, <1>1, <1>4, <1>a, AuditWritten
  <2> QED
    BY <1>1, <1>3, <1>4, <1>5, <1>a, <2>1, <2>2 DEF Writes
<1>b. ASSUME Roll(o)', Papers(o)' PROVE Here'
  BY <1>1, <1>3, <1>4, <1>b, StillHere DEF Mid, Gathering
<1>6. ASSUME NEW payload, PersistAnswer(f, payload) PROVE Here'
  <2> DEFINE audit == [NoAudit EXCEPT !.version = 1, !.prompt = prompts[f]]
  <2>1. audit.version = 1 /\ audit.votes = {}
    BY DEF NoAudit
  <2>2. /\ WriteAudit(f, audit) /\ pc = "collect"
        /\ UNCHANGED <<claims, states, signatures, verdicts, tracker, active, queue, missing,
                       ledger, pending, prompts>>
    BY <1>6 DEF PersistAnswer, recordVars, roundVars
  <2> HIDE DEF audit
  <2>3. Writes(f) /\ audits'[<<f, r>>].version # 0 /\ audits'[<<f, r>>].votes = {}
    BY <1>a, <2>1, <2>2
  <2>4. Papers(o)'
    BY <1>1, <1>3, <1>4, <1>5, <2>2, <2>3, PapersStay
  <2>5. Roll(o)'
    <3>1. /\ \A g \in Friends \ {f} : audits'[<<g, r>>] = audits[<<g, r>>] /\ Ruled(g, r)' = Ruled(g, r)
          /\ AheadOf(r + 1)' => AheadOf(r + 1)
      BY <1>1, <2>3, OtherFiles
    <3>2. Done(o)' = Done(o) /\ Done(o) \subseteq Friends \ {f}
      BY <1>5, <2>2 DEF Done, JudgesIn, BenchIn
    <3>3. \A g \in Done(o)' : audits'[<<g, r>>].version # 0
      BY <1>1, <1>4, <3>1, <3>2 DEF Roll
    <3>4. \A g \in Friends : tracker'[g] = IF g \in Done(o)' THEN Recorded(o.tracker[g], audits'[<<g, r>>].failure)
                                          ELSE o.tracker[g]
      BY <1>1, <1>4, <2>2, <3>1, <3>2 DEF Roll
    <3>5. Unreported(o, r)' = Unreported(o, r)
      BY <3>1, <3>2 DEF Unreported
    <3>6. (AheadOf(r + 1) => NobodyFailed)'
      BY <1>1, <1>4, <2>2, <3>1 DEF Roll, NobodyFailed
    <3> QED
      BY <1>1, <1>3, <1>4, <2>2, <3>3, <3>4, <3>5, <3>6 DEF Roll
  <2> QED
    BY <1>b, <2>4, <2>5
<1>7. ASSUME NEW reason, PersistFailure(f, reason) PROVE Here'
  <2> DEFINE audit == [NoAudit EXCEPT !.version = 1, !.prompt = prompts[f], !.failure = reason]
  <2>1. audit.version = 1 /\ audit.votes = {} /\ audit.failure = reason
    BY DEF NoAudit
  <2>2. /\ WriteAudit(f, audit) /\ pc = "collect" /\ pc' # "upgrade" /\ queue' = queue \ {f}
        /\ missing' = missing \cup (Slice(f) \X {f})
        /\ tracker' = [tracker EXCEPT ![f] = Recorded(@, reason)]
        /\ UNCHANGED <<claims, states, signatures, verdicts, active, ledger, pending, prompts>>
    BY <1>7 DEF PersistFailure, recordVars, memory, NeverReported, Persisted
  <2> HIDE DEF audit
  <2>3. Writes(f) /\ audits'[<<f, r>>] = audit
    BY <1>a, <2>2
  <2>4. Ruled(f, r)' = {}
    BY <2>1, <2>3 DEF Ruled
  <2>5. Papers(o)'
    BY <1>1, <1>3, <1>4, <1>5, <2>1, <2>2, <2>3, PapersStay
  <2>6. Slice(f) \ Ruled(f, r)' = Slice(f)
    BY <2>4
  <2>7. Roll(o)'
    <3>1. audits'[<<f, r>>].version # 0
      BY <2>1, <2>3
    <3>2. tracker' = [tracker EXCEPT ![f] = Recorded(@, audits'[<<f, r>>].failure)]
      BY <2>1, <2>2, <2>3
    <3>3. missing' = missing \cup ((Slice(f) \ Ruled(f, r)') \X {f})
      BY <2>2, <2>6
    <3>4. Writes(f) /\ Roll(o) /\ o.claims = claims /\ o.states = states /\ queue' = queue \ {f} /\ active' = active
      BY <1>4, <1>5, <2>2, <2>3
    <3> QED
      BY <1>1, <1>5, <3>1, <3>2, <3>3, <3>4, ReadResult
  <2> QED
    BY <1>b, <2>5, <2>7
<1>8. CASE PersistBatch(f)
  <2> DEFINE audit == [version |-> 2, prompt |-> prompts[f], votes |-> Accepted(f, inHand),
                       omitted |-> Slice(f) \ DOMAIN inHand, failure |-> NoFailure]
  <2>1. audit.version = 2 /\ audit.votes = Accepted(f, inHand) /\ audit.failure = NoFailure
    OBVIOUS
  <2>2. /\ WriteAudit(f, audit) /\ pc' # "upgrade" /\ queue' = queue \ {f}
        /\ missing' = missing \cup ((Slice(f) \ DOMAIN inHand) \X {f})
        /\ tracker' = [tracker EXCEPT ![f] = Recorded(@, NoFailure)]
        /\ pending' = pending \cup Accepted(f, inHand)
        /\ UNCHANGED <<claims, states, signatures, verdicts, active, ledger, prompts>>
    BY <1>8 DEF PersistBatch, recordVars, NeverReported, Persisted
  <2> HIDE DEF audit
  <2>3. Writes(f) /\ audits'[<<f, r>>] = audit
    BY <1>a, <2>2
  <2>4. Ruled(f, r)' = (DOMAIN inHand) \cap Slice(f)
    BY <2>1, <2>3, AcceptedVotes DEF Ruled
  <2>5. Papers(o)'
    BY <1>1, <1>3, <1>4, <1>5, <2>1, <2>2, <2>3, PapersStay
  <2>6. Slice(f) \ Ruled(f, r)' = Slice(f) \ DOMAIN inHand
    BY <2>4
  <2>7. Roll(o)'
    <3>1. audits'[<<f, r>>].version # 0
      BY <2>1, <2>3
    <3>2. tracker' = [tracker EXCEPT ![f] = Recorded(@, audits'[<<f, r>>].failure)]
      BY <2>1, <2>2, <2>3
    <3>3. missing' = missing \cup ((Slice(f) \ Ruled(f, r)') \X {f})
      BY <2>2, <2>6
    <3>4. Writes(f) /\ Roll(o) /\ o.claims = claims /\ o.states = states /\ queue' = queue \ {f} /\ active' = active
      BY <1>4, <1>5, <2>2, <2>3
    <3> QED
      BY <1>1, <1>5, <3>1, <3>2, <3>3, <3>4, ReadResult
  <2> QED
    BY <1>b, <2>5, <2>7
<1> QED
  BY <1>6, <1>7, <1>8

-----------------------------------------------------------------------------
(* Settling, and a process that begins again.                              *)

\* One more claim is settled.
LEMMA MidwayMoves ==
    ASSUME FileInv, Claimed, Here, pc = "settle", NEW c \in unsettled, NEW r, r = round,
           NEW o, o = Course[r], Settle(c), audits' = audits, NEW todo, todo = unsettled \ {c}
    PROVE  Midway(o, r, todo)'
<1> DEFINE k == Votes(audits, o, r)
<1>1. /\ c \in OpenIn(o) /\ claims[c] = o.claims[c]
      /\ SettledState(c) = SettledIn(o, k, c)
      /\ RememberedSignature(c) = SignatureAfter(audits, o, r, c)
      /\ Amendments(c) = RewordedIn(o, k, c)
      /\ FreeSuccessorId(c, DOMAIN claims) = Later(c)
      /\ SuccessorState = IF r >= MaxRounds /\ MaxIterations = 1 THEN Incomplete ELSE Contested
  BY SettledAsReplayed
<1>2. Shaped(o) /\ Midway(o, r, unsettled)
  BY CourseHere DEF FileInv, Here, Papers, Mid
<1>3. /\ c \in DOMAIN o.states /\ Later(c) \notin DOMAIN o.states /\ Earlier(Later(c)) = c
      /\ OpenIn(o) \subseteq DOMAIN o.states
  BY <1>1, <1>2, LaterIsNew DEF OpenIn
<1>4. /\ StateAfter(audits, o, r, c) = SettledState(c)
      /\ ClaimAfter(audits, o, r, c) = claims[c]
  BY <1>1, <1>3 DEF StateAfter, ClaimAfter
<1>5. /\ ClaimAfter(audits, o, r, Later(c)) = Successor(c, claims[c].origin, Amendments(c), r)
      /\ StateAfter(audits, o, r, Later(c)) = SuccessorState
      /\ SignatureAfter(audits, o, r, Later(c)) = {}
  <2>1. Later(c) \notin OpenIn(o)
    BY <1>3
  <2> QED
    BY <1>1, <1>3, <2>1 DEF ClaimAfter, StateAfter, SignatureAfter
<1>6. c \in Replaced(audits, o, r) <=> SettledState(c) = Superseded
  BY <1>1 DEF Replaced
<1> HIDE DEF k
<1> DEFINE old == Made(o, r, unsettled)
           new == Made(o, r, todo)
<1>7. /\ todo \subseteq OpenIn(o)
      /\ Maps(claims, old) /\ Maps(states, old) /\ Maps(signatures, old)
      /\ \A d \in old :
           /\ claims[d] = ClaimAfter(audits, o, r, d)
           /\ states[d] = IF d \in unsettled THEN o.states[d] ELSE StateAfter(audits, o, r, d)
           /\ signatures[d] = IF d \in unsettled THEN o.signatures[d] ELSE SignatureAfter(audits, o, r, d)
  BY <1>2 DEF Midway
<1>8. c \in old /\ Later(c) \notin unsettled
  BY <1>2, <1>3 DEF Made, Midway
<1>9. new = IF SettledState(c) = Superseded THEN old \cup {Later(c)} ELSE old
  <2>1. CASE SettledState(c) = Superseded
    <3>1. Replaced(audits, o, r) \ todo = (Replaced(audits, o, r) \ unsettled) \cup {c}
      BY <1>6, <2>1
    <3> QED
      BY <2>1, <3>1 DEF Made
  <2>2. CASE SettledState(c) # Superseded
    <3>1. Replaced(audits, o, r) \ todo = Replaced(audits, o, r) \ unsettled
      BY <1>6, <2>2
    <3> QED
      BY <2>2, <3>1 DEF Made
  <2> QED
    BY <2>1, <2>2
<1>10. new' = new
  BY DEF Made
<1>11. /\ Maps(claims', new) /\ Maps(states', new) /\ Maps(signatures', new)
       /\ \A d \in new :
            /\ claims'[d] = ClaimAfter(audits, o, r, d)
            /\ states'[d] = IF d \in todo THEN o.states[d] ELSE StateAfter(audits, o, r, d)
            /\ signatures'[d] = IF d \in todo THEN o.signatures[d] ELSE SignatureAfter(audits, o, r, d)
  <2> HIDE DEF old, new
  <2>1. CASE SettledState(c) = Superseded
    <3>1. /\ claims' = With(claims, Later(c), Successor(c, claims[c].origin, Amendments(c), r))
          /\ states' = With([states EXCEPT ![c] = Superseded], Later(c), SuccessorState)
          /\ signatures' = With([signatures EXCEPT ![c] = RememberedSignature(c)], Later(c), {})
      BY <1>1, <2>1 DEF Settle
    <3>2. DOMAIN claims = old /\ DOMAIN states = old /\ DOMAIN signatures = old
      BY <1>7 DEF Maps
    <3>3. Maps(claims', new) /\ Maps(states', new) /\ Maps(signatures', new)
      BY <1>9, <2>1, <3>1, <3>2 DEF With, Maps
    <3>4. /\ claims'[Later(c)] = ClaimAfter(audits, o, r, Later(c))
          /\ states'[Later(c)] = StateAfter(audits, o, r, Later(c))
          /\ signatures'[Later(c)] = SignatureAfter(audits, o, r, Later(c))
      BY <1>5, <3>1 DEF With
    <3>5. ASSUME NEW d \in old, d # Later(c)
          PROVE  /\ claims'[d] = claims[d]
                 /\ states'[d] = IF d = c THEN Superseded ELSE states[d]
                 /\ signatures'[d] = IF d = c THEN RememberedSignature(c) ELSE signatures[d]
      BY <3>1, <3>2, <3>5 DEF With
    <3>6. \A d : d \in todo <=> d \in unsettled /\ d # c
      OBVIOUS
    <3>7. ASSUME NEW d \in new
          PROVE  /\ claims'[d] = ClaimAfter(audits, o, r, d)
                 /\ states'[d] = IF d \in todo THEN o.states[d] ELSE StateAfter(audits, o, r, d)
                 /\ signatures'[d] = IF d \in todo THEN o.signatures[d] ELSE SignatureAfter(audits, o, r, d)
      <4>1. CASE d = Later(c)
        BY <1>8, <3>4, <3>6, <4>1
      <4>2. CASE d # Later(c)
        <5>1. d \in old
          BY <1>9, <2>1, <4>2
        <5> QED
          BY <1>1, <1>4, <1>7, <2>1, <3>5, <3>6, <4>2, <5>1
      <4> QED
        BY <4>1, <4>2
    <3> QED
      BY <3>3, <3>7
  <2>2. CASE SettledState(c) # Superseded
    <3>1. /\ claims' = claims
          /\ states' = [states EXCEPT ![c] = SettledState(c)]
          /\ signatures' = [signatures EXCEPT ![c] = RememberedSignature(c)]
      BY <2>2 DEF Settle
    <3>2. new = old
      BY <1>9, <2>2
    <3>3. Maps(claims', new) /\ Maps(states', new) /\ Maps(signatures', new)
      BY <1>7, <3>1, <3>2 DEF Maps
    <3>4. DOMAIN states = old /\ DOMAIN signatures = old
      BY <1>7 DEF Maps
    <3>5. \A d \in old : /\ states'[d] = IF d = c THEN SettledState(c) ELSE states[d]
                         /\ signatures'[d] = IF d = c THEN RememberedSignature(c) ELSE signatures[d]
      BY <3>1, <3>4
    <3>6. \A d : d \in todo <=> d \in unsettled /\ d # c
      OBVIOUS
    <3> QED
      BY <1>1, <1>4, <1>7, <3>1, <3>2, <3>3, <3>5, <3>6
  <2> QED
    BY <2>1, <2>2
<1> QED
  BY <1>7, <1>10, <1>11 DEF Midway

\* Nothing is left to settle: the memory is what the next round begins with.
LEMMA RoundDone ==
    ASSUME NEW r \in Rounds, NEW o, o = Course[r], Midway(o, r, {})', audits' = audits,
           verdicts' = o.verdicts \cup AnswersOf(r),
           Maps(tracker', Friends), \A f \in Friends : tracker'[f] = TrackerAfter(audits, o, r, f)
    PROVE  Memory' = Course[r + 1]
<1>1. PICK out : out = ReplayRound(audits, o, r)
  OBVIOUS
<1>2. Course[r + 1] = out
  BY <1>1, ReplayUnfolds DEF Course, Rounds
<1>3. PICK all : all = ClaimsAfter(audits, o, r)
  OBVIOUS
<1>4. /\ Maps(out.claims, all) /\ Maps(out.states, all) /\ Maps(out.signatures, all)
      /\ Maps(out.tracker, Friends)
      /\ \A c \in all : /\ out.claims[c] = ClaimAfter(audits, o, r, c)
                        /\ out.states[c] = StateAfter(audits, o, r, c)
                        /\ out.signatures[c] = SignatureAfter(audits, o, r, c)
      /\ \A f \in Friends : out.tracker[f] = TrackerAfter(audits, o, r, f)
      /\ out.verdicts = o.verdicts \cup VotesAt(audits, r)
  BY <1>1, <1>3, RoundReplayed
<1>5. Made(o, r, {})' = all
  BY <1>3 DEF Made, ClaimsAfter
<1>6. /\ Maps(claims', all) /\ Maps(states', all) /\ Maps(signatures', all)
      /\ \A c \in all : /\ claims'[c] = ClaimAfter(audits, o, r, c)
                        /\ states'[c] = StateAfter(audits, o, r, c)
                        /\ signatures'[c] = SignatureAfter(audits, o, r, c)
  BY <1>5 DEF Midway
<1>7. claims' = out.claims /\ states' = out.states /\ signatures' = out.signatures
  BY <1>4, <1>6 DEF Maps
<1>8. tracker' = out.tracker
  BY <1>4 DEF Maps
<1>9. verdicts' = out.verdicts
  BY <1>4 DEF AnswersOf
<1>10. out = [claims |-> out.claims, states |-> out.states, signatures |-> out.signatures,
              verdicts |-> out.verdicts, tracker |-> out.tracker]
  BY <1>1 DEF ReplayRound
<1> QED
  BY <1>2, <1>7, <1>8, <1>9, <1>10 DEF Memory

LEMMA SettleKeepsHere ==
    ASSUME FileInv, Claimed, Here, [RNext]_allVars, RecoverableSettle
    PROVE  Here'
<1>1. PICK r : r = round
  OBVIOUS
<1>2. PICK o : o = Course[r]
  OBVIOUS
<1>3. PICK c : c = NextUnsettled
  OBVIOUS
<1>4. PICK todo : todo = unsettled \ {c}
  OBVIOUS
<1>5. pc = "settle" /\ c \in unsettled
  BY <1>3, NextToSettle DEF RecoverableSettle
<1>6. /\ pc = "settle" /\ Settle(c) /\ unsettled' = todo
      /\ UNCHANGED <<audits, ledger, pending, prompts, verdicts, tracker, active, queue>>
      /\ \/ /\ todo # {} /\ UNCHANGED <<round, pc, missing>>
         \/ /\ todo = {} /\ \/ pc' = "round" /\ round' = round + 1
                            \/ pc' = "stopped"
  BY <1>3, <1>4, <1>5 DEF RecoverableSettle, SettleClaim, memory
<1>7. /\ r \in Rounds /\ r \in 2 .. MaxRounds + 1 /\ Roll(o) /\ Papers(o) /\ Frozen(r)' /\ Course'[r] = o
  BY <1>1, <1>2, <1>6, RoundStays DEF Mid
<1>8. Midway(o, r, todo)'
  BY <1>1, <1>2, <1>4, <1>6, <1>5, MidwayMoves
<1>9. verdicts = o.verdicts \cup AnswersOf(r)
  BY <1>1, <1>6, <1>7 DEF Papers
<1>10. CASE todo # {}
  <2>1. Roll(o)'
    BY <1>6, <1>7, <1>10, RollStays
  <2>2. AnswersOf(round)' = AnswersOf(r)
    BY <1>1, <1>6, <1>10 DEF AnswersOf
  <2>3. Midway(o, round, unsettled)'
    BY <1>1, <1>6, <1>8, <1>10
  <2>4. Papers(o)'
    BY <1>6, <1>9, <1>10, <2>2, <2>3 DEF Papers, Gathering
  <2> QED
    BY <1>1, <1>6, <1>7, <1>10, <2>1, <2>4, StillHere DEF Mid
<1>11. CASE todo = {} /\ pc' = "round" /\ round' = round + 1
  <2>1. Frozen(r + 1) /\ Done(o) = JudgesIn(o)
    BY <1>1, <1>2, <1>6, OverWhenSettled DEF FileInv
  <2>2. r + 1 \in 2 .. MaxRounds + 1
    BY <1>7, BoundsAssumption DEF Rounds
  <2>3. Frozen(r + 1)'
    BY <2>1, <2>2, FrozenStays
  <2>4. Course' = Course
    BY <1>6 DEF Course
  <2>5. Maps(tracker', Friends) /\ \A f \in Friends : tracker'[f] = TrackerAfter(audits, o, r, f)
    BY <1>1, <1>6, <1>7, <2>1 DEF Roll, TrackerAfter
  <2>6. Midway(o, r, {})'
    BY <1>8, <1>11
  <2>7. Memory' = Course[r + 1]
    BY <1>2, <1>6, <1>7, <1>9, <2>5, <2>6, RoundDone
  <2>8. (AheadOf(r + 1) => NobodyFailed)'
    BY <1>1, <1>6, <1>7 DEF Roll, AheadOf, NobodyFailed
  <2>9. round' = r + 1
    BY <1>1, <1>11
  <2> QED
    BY <1>11, <2>2, <2>3, <2>4, <2>7, <2>8, <2>9 DEF Here, Mid
<1>12. CASE pc' = "stopped"
  BY <1>12, OutOfTheRounds DEF Mid
<1> QED
  BY <1>6, <1>10, <1>11, <1>12

\* The memory of Init is the opening of the replay.
LEMMA CrashKeepsHere ==
    ASSUME Claimed, CrashAndResume
    PROVE  Here'
<1>1. /\ round' = 2 /\ pc' = "round" /\ verdicts' = {}
      /\ claims' = [c \in DOMAIN Critique |-> claims[c]]
      /\ states' = [c \in DOMAIN Critique |-> Contested]
      /\ signatures' = [c \in DOMAIN Critique |-> {}]
      /\ tracker' = [f \in Friends |-> [last |-> NoFailure, count |-> 0, disabled |-> FALSE]]
  BY DEF CrashAndResume
<1>2. claims' = [c \in DOMAIN Critique |->
                   [origin |-> Critique[c], supersedes |-> NoClaim, round |-> 1, text |-> AsRaised]]
  BY <1>1 DEF Claimed, Raised
<1>3. Memory' = Opening
  BY <1>1, <1>2 DEF Memory, Opening
<1>4. Course'[2] = Opening
  BY ReplayUnfolds DEF Course
<1>5. Frozen(2)' /\ 2 \in 2 .. MaxRounds + 1
  BY BoundsAssumption DEF Frozen
<1>6. NobodyFailed'
  BY <1>1 DEF NobodyFailed, NeverFailed
<1> QED
  BY <1>1, <1>3, <1>4, <1>5, <1>6 DEF Here, Mid

LEMMA InitHere == RInit => Disk /\ Here
<1> SUFFICES ASSUME RInit PROVE Disk /\ Here
  OBVIOUS
<1>1. /\ round = 2 /\ pc = "round" /\ verdicts = {}
      /\ claims = [c \in DOMAIN Critique |->
                     [origin |-> Critique[c], supersedes |-> NoClaim, round |-> 1, text |-> AsRaised]]
      /\ states = [c \in DOMAIN Critique |-> Contested]
      /\ signatures = [c \in DOMAIN Critique |-> {}]
      /\ tracker = [f \in Friends |-> [last |-> NoFailure, count |-> 0, disabled |-> FALSE]]
      /\ \A f \in Friends, r \in Rounds : audits[<<f, r>>].version = 0
      /\ ledgerClaims = claims /\ asked = {}
  BY DEF RInit, Init, NoAudit
<1>2. Disk
  BY <1>1 DEF Disk, Filed, Produced
<1>3. Memory = Opening
  BY <1>1 DEF Memory, Opening
<1>4. Course[2] = Opening
  BY ReplayUnfolds DEF Course
<1>5. Frozen(2) /\ 2 \in 2 .. MaxRounds + 1
  BY BoundsAssumption DEF Frozen
<1>6. NobodyFailed
  BY <1>1 DEF NobodyFailed, NeverFailed
<1> QED
  BY <1>1, <1>2, <1>3, <1>4, <1>5, <1>6 DEF Here, Mid

-----------------------------------------------------------------------------
(* What a resume makes of the files.                                       *)

\* A judge's files: an audit without its batch is all that stops a resume.
LEMMA FilesFit ==
    ASSUME FileInv, Disk, Here, Judging
    PROVE  /\ \A f \in AskedNow : Objection(f) \in {"none", "no complete batch"}
           /\ \A f \in Captured : ~Conflicts(f)
<1>1. PICK r : r = round
  OBVIOUS
<1>2. PICK o : o = Course[r]
  OBVIOUS
<1>3. r \in Rounds /\ Audits /\ Published
  BY <1>1, BoundsAssumption DEF FileInv, Standing, Judging, LastRound, Rounds
<1>4. Memory = o
  BY <1>1, <1>2 DEF Here, Judging
<1>5. \A f : Prompt(f) = QuestionIn(o, f)
  BY <1>4, MemoryAsks
<1>6. \A f \in AskedNow : f \in Friends /\ Slice(f) # {} /\ Audit(f) = audits[<<f, r>>]
  BY <1>1 DEF AskedNow, Dispatchable, Audit
<1>7. ASSUME NEW w \in ledger, w.round = r, NEW f, w.judge = f
      PROVE  w \in audits[<<f, r>>].votes /\ audits[<<f, r>>].version = 2
  BY <1>3, <1>7 DEF Published, Traced
<1>8. ASSUME NEW f \in AskedNow PROVE Objection(f) \in {"none", "no complete batch"}
  <2>1. CASE Audit(f).version = 2
    <3>1. audits[<<f, r>>].version # 0 /\ Filed(f, r)
      BY <1>3, <1>6, <2>1 DEF Disk
    <3>2. audits[<<f, r>>].prompt = QuestionIn(o, f)
      BY <1>2, <3>1 DEF Filed
    <3>3. Audit(f).prompt = Prompt(f)
      BY <1>5, <1>6, <3>2
    <3> QED
      BY <2>1, <3>3 DEF Objection
  <2>2. CASE Audit(f).version # 2
    <3>1. DurableFor(f) = {}
      BY <1>1, <1>6, <1>7, <2>2 DEF DurableFor
    <3> QED
      BY <1>6, <2>2, <3>1 DEF Objection
  <2> QED
    BY <2>1, <2>2
<1>9. ASSUME NEW f \in Captured PROVE ~Conflicts(f)
  <2>1. f \in Friends /\ <<f, r>> \in Friends \X Rounds /\ Audit(f) = audits[<<f, r>>]
    BY <1>3, <1>6 DEF Captured
  <2>2. \A v \in audits[<<f, r>>].votes : v.judge = f /\ v.round = r
    BY <1>3, <2>1 DEF Audits
  <2>3. \A v, w \in audits[<<f, r>>].votes : v.claim = w.claim => v = w
    BY <1>3, <2>1 DEF Audits
  <2> QED
    BY <1>7, <2>1, <2>2, <2>3 DEF Conflicts
<1> QED
  BY <1>8, <1>9

\* A successor in the ledger is the one the votes produce.
LEMMA SuccessorFits ==
    ASSUME FileInv, Claimed, Disk, Here, pc = "settle", NEW c \in unsettled
    PROVE  SuccessorAgrees(c)
<1>1. PICK r : r = round
  OBVIOUS
<1>2. PICK o : o = Course[r]
  OBVIOUS
<1>3. PICK k : k = Votes(audits, o, r)
  OBVIOUS
<1>4. /\ claims[c] = o.claims[c] /\ Amendments(c) = RewordedIn(o, k, c)
      /\ Later(c) \notin DOMAIN claims /\ FreeSuccessorId(c, DOMAIN claims) = Later(c)
  BY <1>1, <1>2, <1>3, SettledAsReplayed
<1>5. r \in Rounds /\ r # 1
  BY <1>1 DEF FileInv, Standing, Mid, Rounds
<1>6. ASSUME NEW s \in Persistent(c) PROVE s = Later(c) /\ ledgerClaims[s] = ExpectedSuccessor(c)
  <2>1. s \in DOMAIN ledgerClaims /\ ledgerClaims[s].supersedes = c /\ ledgerClaims[s].round = r
    BY <1>1 DEF Persistent
  <2>2. PICK q, d : q \in Rounds /\ Rewrites(s, d, q)
    BY <1>5, <2>1 DEF Disk, Produced
  <2>3. ledgerClaims[s].supersedes = d /\ ledgerClaims[s].round = q
    BY <2>2 DEF Rewrites, Successor
  <2>4. Rewrites(s, c, r)
    BY <2>1, <2>2, <2>3
  <2>5. ledgerClaims[s] = Successor(c, o.claims[c].origin, RewordedIn(o, k, c), r)
    BY <1>2, <1>3, <2>4 DEF Rewrites
  <2> QED
    BY <1>1, <1>4, <2>4, <2>5 DEF Rewrites, ExpectedSuccessor
<1>7. ASSUME NEW s \in Persistent(c) PROVE SuccessorAgrees(c)
  <2>1. Persistent(c) = {s}
    BY <1>6, <1>7
  <2>2. DOMAIN claims \ {s} = DOMAIN claims
    BY <1>4, <1>6, <1>7
  <2> QED
    BY <1>4, <1>6, <1>7, <2>1, <2>2 DEF SuccessorAgrees
<1> QED
  BY <1>7 DEF SuccessorAgrees

LEMMA RefuseKeepsHere ==
    ASSUME FileInv, Claimed, Disk, Here, RefuseRecovery
    PROVE  Here'
<1>1. PICK why \in RecoveryRefusals \cup SuccessorRefusals : Refuse(why)
  BY DEF RefuseRecovery
<1>2. SuccessorRefusals = {}
  BY NextToSettle, SuccessorFits DEF SuccessorRefusals
<1>3. why \in RecoveryRefusals /\ Judging
  BY <1>1, <1>2 DEF RecoveryRefusals
<1>4. why = "no complete batch"
  BY <1>3, FilesFit DEF RecoveryRefusals
<1> QED
  BY <1>1, <1>4 DEF Refuse, Here, Mid

LEMMA HereKept == FileInv /\ Claimed /\ Disk /\ Here /\ [RNext]_allVars => Here'
<1> SUFFICES ASSUME FileInv, Claimed, Disk, Here, [RNext]_allVars PROVE Here'
  OBVIOUS
<1>1. CASE RestoreVote
  BY <1>1, AppendKeepsHere DEF RestoreVote
<1>2. CASE AppendVote
  BY <1>2, AppendKeepsHere DEF AppendVote
<1>3. CASE StopOrFinish
  <2>1. pc' = "stopped"
    BY <1>3 DEF StopOrFinish, RoundsOver, AllTerminal, Leave
  <2> QED
    BY <2>1, OutOfTheRounds DEF Mid
<1>4. CASE Finish
  BY <1>4, OutOfTheRounds DEF Finish, Mid
<1>5. CASE UNCHANGED allVars
  <2>1. /\ UNCHANGED <<pc, round, queue, active, missing, unsettled, tracker, claims, states, signatures,
                       verdicts, audits, ledger, ledgerClaims, pending, prompts, refusal>>
    BY <1>5 DEF allVars, vars, durable, memory, roundVars, recordVars
  <2>2. Course' = Course
    BY <2>1 DEF Course
  <2>3. \A q : Frozen(q)' <=> Frozen(q)
    BY <2>1, <2>2 DEF Frozen, Answered, InHand, NextResult
  <2>4. \A q : AheadOf(q)' <=> AheadOf(q)
    BY <2>1 DEF AheadOf
  <2>5. Memory' = Memory /\ (NobodyFailed' <=> NobodyFailed)
    BY <2>1 DEF Memory, NobodyFailed
  <2>6. PICK o : o = Course[round]
    OBVIOUS
  <2>7. Roll(o) => Roll(o)'
    BY <2>1, RollStays
  <2>8. Papers(o) => Papers(o)'
    BY <2>1 DEF Papers, AnswersOf, Midway, Made
  <2> QED
    BY <2>1, <2>2, <2>3, <2>4, <2>5, <2>6, <2>7, <2>8 DEF Here
<1> QED
  BY <1>1, <1>2, <1>3, <1>4, <1>5, RefuseKeepsHere, RecoverKeepsHere, RestoredKeepsHere,
     ResultsKeepHere, AppendedKeepsHere, SettleKeepsHere, CrashKeepsHere DEF RNext, RProgress

-----------------------------------------------------------------------------
(* The theorems.                                                           *)

Kept == FileInv /\ Claimed /\ Disk /\ Here

\* The disk and the process agree with the replay of the disk in every state
\* of every process (run_rounds and judgebatch.py): the inductive invariant
\* the next three follow from.
THEOREM ProcessKeepsToTheReplay == RSpec => []Kept
<1>1. RInit => Kept
  BY InitFiles, InitClaimed, InitHere DEF Kept
<1>2. Kept /\ [RNext]_allVars => Kept'
  BY StandingKept, AuditsKept, PublishedKept, ClaimedKept, DiskKept, HereKept DEF Kept, FileInv
<1> QED
  BY <1>1, <1>2, PTL DEF RSpec

\* At the top of every round a process holds what an uninterrupted run would
\* hold, given the answers on disk: the verdicts, claims, states, signatures
\* and repeat counts run_rounds carries from round to round (crossexam.py)
\* do not depend on where the earlier processes died.
THEOREM ResumedAsReplayed == RSpec => []OutcomeIsReplay
<1>1. Kept => OutcomeIsReplay
  BY DEF Kept, Here, OutcomeIsReplay, Course
<1> QED
  BY <1>1, ProcessKeepsToTheReplay, PTL

\* A judge is asked in a round what it was asked before in that round, and is
\* shown no vote of that round (the prompts of run_rounds, crossexam.py).
THEOREM SameQuestion == RSpec => []SameQuestionEveryTime
<1>1. ASSUME Kept PROVE SameQuestionEveryTime
  <2>1. \A a \in asked : Posed(a)
    BY <1>1 DEF Kept, Disk
  <2>2. ASSUME NEW a \in asked, NEW b \in asked, a[1] = b[1], a[2] = b[2] PROVE a[3] = b[3]
    BY <2>1, <2>2 DEF Posed
  <2>3. ASSUME NEW a \in asked, NEW v \in a[3][2] PROVE v.round < a[2]
    <3>1. PICK r \in Rounds : r = a[2]
      BY <2>1 DEF Posed
    <3>2. PICK o : o = Course[r]
      OBVIOUS
    <3>3. a[3] = QuestionIn(o, a[1])
      BY <2>1, <3>1, <3>2 DEF Posed
    <3>4. v \in o.verdicts
      <4>1. PICK c : v \in LatestPerJudge({w \in {u \in o.verdicts : u.claim = c} : w.judge # a[1]})
        BY <2>3, <3>3 DEF QuestionIn
      <4> QED
        BY <4>1 DEF LatestPerJudge
    <3>5. r \in 2 .. MaxRounds + 1
      BY BoundsAssumption DEF Rounds
    <3>6. \A f \in Friends, q \in Rounds : \A w \in audits[<<f, q>>].votes : w.round = q
      BY <1>1 DEF Kept, FileInv, Audits
    <3> QED
      BY <3>1, <3>2, <3>4, <3>5, <3>6, CourseIsPast DEF Course
  <2> QED
    BY <2>2, <2>3 DEF SameQuestionEveryTime
<1> QED
  BY <1>1, ProcessKeepsToTheReplay, PTL

\* A resume refuses files of its own run for one reason only, a result whose
\* batch was never completed: no prompt, verdict, batch or successor it finds
\* is another than the one it would have written (recover_judging_batch and
\* require_corroborated_verdicts, judgebatch.py; _settle_round, crossexam.py).
THEOREM OwnFilesAccepted == RSpec => []OwnFilesAreAccepted
<1>1. Kept => OwnFilesAreAccepted
  BY DEF Kept, Here, OwnFilesAreAccepted
<1> QED
  BY <1>1, ProcessKeepsToTheReplay, PTL
=============================================================================
