------------------------- MODULE FriendRound_proofs -------------------------
(***************************************************************************)
(* Theorems about FriendRound, for any roster, adapters, grants, answers,  *)
(* number of workers, rounds and errors: every friend that crossed the     *)
(* dispatch boundary has its row and its prompt and nobody else has,       *)
(* whoever failed and whenever the pool was drained; a friend is benched   *)
(* only for a streak the rows show; and a row claims no protection that    *)
(* did not hold.                                                           *)
(*                                                                         *)
(* By the time a round closes the pool is down and what was read is what   *)
(* crossed (Pool): the loop over the futures ends only when no future is   *)
(* unread, and the drain recovers the rest.  A friend that had to be       *)
(* dispatched and was not was stopped by the abort (Files), so a run that  *)
(* goes on to another round has a row for everybody, and the counter of    *)
(* the RepeatTracker counts rounds without a gap (Streaks).                *)
(***************************************************************************)
EXTENDS FriendRound, TLAPS
Jobs   == {"none", "queued", "picked", "running", "done", "cancelled"}
Places == {"open", "isolating", "submitting", "reading", "draining", "closing", "recording",
           "persisting", "done", "failed"}

TypeOK ==
  /\ pc \in Places /\ round \in Nat \ {0} /\ aborted \in BOOLEAN
  /\ job \in [Friends -> Jobs] /\ attempt \in [Friends -> Outcomes \cup {"none", "withheld"}]
  /\ isolated \subseteq Friends /\ results \subseteq Friends /\ disabled \subseteq Friends
  /\ prompts \subseteq Nat \X Friends /\ DOMAIN rows \subseteq Nat \X Friends
  /\ last \in [Friends -> Outcomes \cup {"none"}] /\ count \in [Friends -> Nat]

\* The friend has crossed the dispatch boundary and come back.
Crossed(f) == attempt[f] \notin {"none", "withheld"}

Pooling == pc \in {"submitting", "reading", "draining"}
InRound == Pooling \/ pc \in {"isolating", "closing", "recording", "persisting"}

Pool ==
  /\ \A f \in Friends : attempt[f] # "none" <=> job[f] = "done"
  /\ \A f \in Friends : attempt[f] = "withheld" \/ job[f] = "cancelled" => aborted
  /\ \A f \in results : Crossed(f)
  /\ pc = "isolating" => \A f \in Friends : job[f] = "none"
  /\ Pooling => \A f \in Friends : job[f] # "none" => f \in isolated
  /\ pc \in {"submitting", "reading"} => \A f \in Friends : job[f] # "cancelled"
  /\ pc = "draining" => aborted
  /\ ~Pooling => PoolDown /\ \A f \in Friends : Crossed(f) => f \in results
  /\ ~Pooling /\ pc # "isolating" => isolated = {} \/ pc = "closing" \/ pc = "failed"

Files ==
  /\ \A p \in DOMAIN rows \cup prompts : p[1] <= round /\ (pc = "open" => p[1] < round)
  /\ InRound => \A f \in Friends :
       /\ f \in isolated \/ job[f] # "none" \/ (pc = "isolating" /\ f \notin disabled) =>
            <<round, f>> \in prompts /\ <<round, f>> \notin DOMAIN rows
       /\ <<round, f>> \in DOMAIN rows => rows[<<round, f>>] = "skipped"
       /\ pc # "persisting" => (<<round, f>> \in DOMAIN rows <=> f \in disabled)
       /\ pc # "isolating" /\ f \notin disabled =>
            f \in results \/ aborted \/ (Pooling /\ f \in isolated)
       /\ pc = "persisting" /\ f \in disabled \ results => <<round, f>> \in DOMAIN rows

LEMMA InitHolds == Init => TypeOK /\ Pool /\ Files
<1> SUFFICES ASSUME Init PROVE TypeOK /\ Pool /\ Files
  OBVIOUS
<1>1. DOMAIN rows = {}
  BY DEF Init
<1>2. TypeOK
  <2>1. job \in [Friends -> Jobs]
    BY DEF Init, Jobs
  <2>2. attempt \in [Friends -> Outcomes \cup {"none", "withheld"}]
    BY DEF Init
  <2>3. last \in [Friends -> Outcomes \cup {"none"}] /\ count \in [Friends -> Nat]
    BY DEF Init
  <2>4. prompts \subseteq Nat \X Friends /\ DOMAIN rows \subseteq Nat \X Friends
    BY <1>1 DEF Init
  <2>5. pc \in Places /\ round \in Nat \ {0}
    BY DEF Init, Places
  <2>6. aborted \in BOOLEAN
    BY DEF Init
  <2>7. isolated \subseteq Friends /\ results \subseteq Friends /\ disabled \subseteq Friends
    BY DEF Init
  <2> QED
    BY <2>1, <2>2, <2>3, <2>4, <2>5, <2>6, <2>7 DEF TypeOK
<1>3. Pool
  BY DEF Init, Pool, Pooling, PoolDown, Crossed
<1>4. Files
  BY <1>1 DEF Init, Files, Pooling, InRound
<1> QED
  BY <1>2, <1>3, <1>4

\* RepeatTracker.record, as classification uses it.
LEMMA RecordIsTyped ==
  ASSUME TypeOK, Pool, NEW f \in results
  PROVE  /\ attempt[f] \in Outcomes
         /\ Record(f, attempt[f]).last \in Outcomes \cup {"none"}
         /\ Record(f, attempt[f]).count \in Nat
<1>1. attempt[f] \in Outcomes
  BY DEF TypeOK, Pool, Crossed
<1>2. f \in Friends /\ last[f] \in Outcomes \cup {"none"} /\ count[f] \in Nat
  BY DEF TypeOK
<1>3. CASE Repeats(f, attempt[f])
  <2>1. count[f] + 1 \in Nat
    BY <1>2
  <2>2. /\ Record(f, attempt[f]).last = last[f]
        /\ Record(f, attempt[f]).count = count[f] + 1
    BY <1>3, Zenon DEF Record
  <2> QED
    BY <1>1, <1>2, <2>1, <2>2
<1>4. CASE ~Repeats(f, attempt[f])
  BY <1>1, <1>4 DEF Record, Signature
<1> QED
  BY <1>1, <1>3, <1>4

\* The rows and prompts a round adds are of that round.
LEMMA RowsAreOfTheRound ==
  ASSUME TypeOK, NEW set \in SUBSET Friends
  PROVE  /\ {<<round, f>> : f \in set} \subseteq Nat \X Friends
         /\ \A p \in {<<round, f>> : f \in set} : p[1] = round /\ p[2] \in set
         /\ \A f \in Friends : <<round, f>> \in {<<round, g>> : g \in set} <=> f \in set
<1>1. round \in Nat
  BY DEF TypeOK
<1>2. \A f \in set : <<round, f>> \in Nat \X Friends
  BY <1>1
<1>3. {<<round, f>> : f \in set} \subseteq Nat \X Friends
  BY <1>2
<1>4. ASSUME NEW p \in {<<round, f>> : f \in set} PROVE p[1] = round /\ p[2] \in set
  <2>1. PICK f \in set : p = <<round, f>>
    OBVIOUS
  <2> QED
    BY <2>1
<1>5. ASSUME NEW f \in Friends, <<round, f>> \in {<<round, g>> : g \in set} PROVE f \in set
  BY <1>5, <1>4
<1> QED
  BY <1>3, <1>4, <1>5

LEMMA TypeStep == TypeOK /\ Pool /\ [Next]_vars => TypeOK'
<1> SUFFICES ASSUME TypeOK, Pool, [Next]_vars PROVE TypeOK'
  OBVIOUS
<1> USE DEF TypeOK, Jobs, Places, MainStep, WorkerStep, poolvars, trackervars
<1>1. CASE Open
  <2>1. /\ DOMAIN rows' = DOMAIN rows \cup {<<round, f>> : f \in disabled}
        /\ prompts' = prompts \cup {<<round, f>> : f \in Ready}
    BY <1>1, Zenon DEF Open
  <2>2. Ready \in SUBSET Friends /\ disabled \in SUBSET Friends
    BY DEF Ready
  <2>3. prompts' \subseteq Nat \X Friends /\ DOMAIN rows' \subseteq Nat \X Friends
    BY <2>1, <2>2, RowsAreOfTheRound
  <2> QED
    BY <1>1, <2>3 DEF Open
<1>2. CASE Isolate
  BY <1>2 DEF Isolate, Unisolated, Ready
<1>3. CASE Announce
  BY <1>3 DEF Announce
<1>4. CASE IsolationFails
  BY <1>4 DEF IsolationFails
<1>5. CASE Submit
  BY <1>5 DEF Submit
<1>6. CASE Read
  BY <1>6 DEF Read, Unread, ToRead
<1>7. CASE Interrupted
  BY <1>7 DEF Interrupted
<1>8. CASE Recover
  BY <1>8 DEF Recover, Finished
<1>9. CASE Close
  BY <1>9 DEF Close
<1>10. CASE Classify
  <2>1. last' \in [Friends -> Outcomes \cup {"none"}]
    BY <1>10, RecordIsTyped DEF Classify
  <2>2. count' \in [Friends -> Nat]
    BY <1>10, RecordIsTyped DEF Classify
  <2>3. disabled' \subseteq Friends
    BY <1>10 DEF Classify
  <2> QED
    BY <1>10, <2>1, <2>2, <2>3 DEF Classify
<1>11. CASE Persist
  <2>1. /\ DOMAIN rows' = DOMAIN rows \cup {<<round, f>> : f \in results}
        /\ prompts' \subseteq prompts
    BY <1>11 DEF Persist
  <2>2. DOMAIN rows' \subseteq Nat \X Friends
    BY <2>1, RowsAreOfTheRound
  <2>4. pc' \in {"done", "open"} /\ round' = IF pc' = "open" THEN round + 1 ELSE round
    BY <1>11, Zenon DEF Persist
  <2>3. pc' \in {"done", "open"} /\ round' \in Nat \ {0}
    BY <2>4
  <2> QED
    BY <1>11, <2>1, <2>2, <2>3 DEF Persist
<1>12. ASSUME NEW f \in Friends, Pick(f) PROVE TypeOK'
  BY <1>12 DEF Pick
<1>13. ASSUME NEW f \in Friends, Dispatch(f) PROVE TypeOK'
  BY <1>13 DEF Dispatch
<1>14. ASSUME NEW f \in Friends, NEW o \in Outcomes, Finish(f, o) PROVE TypeOK'
  BY <1>14 DEF Finish
<1>15. CASE Signalled
  BY <1>15 DEF Signalled
<1>16. CASE UNCHANGED vars
  BY <1>16 DEF vars
<1> QED
  BY <1>1, <1>2, <1>3, <1>4, <1>5, <1>6, <1>7, <1>8, <1>9, <1>10, <1>11, <1>12, <1>13, <1>14,
     <1>15, <1>16 DEF Next, Main, Work

LEMMA PoolStep == TypeOK /\ Pool /\ [Next]_vars => Pool'
<1> SUFFICES ASSUME TypeOK, Pool, [Next]_vars PROVE Pool'
  OBVIOUS
<1> USE DEF TypeOK, Jobs, Places, MainStep, WorkerStep, poolvars, trackervars, Pool, Pooling,
            PoolDown, Crossed
<1>1. CASE Open
  BY <1>1 DEF Open
<1>2. CASE Isolate
  BY <1>2 DEF Isolate
<1>3. CASE Announce
  BY <1>3 DEF Announce
<1>4. CASE IsolationFails
  BY <1>4 DEF IsolationFails
<1>5. CASE Submit
  <2>1. PICK f \in isolated : job[f] = "none" /\ job' = [job EXCEPT ![f] = "queued"]
    BY <1>5 DEF Submit, Unsubmitted, First
  <2>2. job'[f] = "queued" /\ \A g \in Friends : g # f => job'[g] = job[g]
    BY <2>1
  <2>3. /\ pc = "submitting" /\ f \in Friends /\ f \in isolated
        /\ UNCHANGED <<pc, attempt, aborted, isolated, results>>
    BY <1>5, <2>1 DEF Submit
  <2> QED
    BY <2>1, <2>2, <2>3
<1>6. CASE Read
  BY <1>6 DEF Read, Unread, ToRead, Unsubmitted
<1>7. CASE Interrupted
  BY <1>7 DEF Interrupted
<1>8. CASE Recover
  BY <1>8 DEF Recover, Finished
<1>9. CASE Close
  BY <1>9 DEF Close
<1>10. CASE Classify
  BY <1>10 DEF Classify
<1>11. CASE Persist
  BY <1>11 DEF Persist
<1>12. ASSUME NEW f \in Friends, Pick(f) PROVE Pool'
  <2>1. CASE aborted
    BY <1>12, <2>1 DEF Pick, First
  <2>2. CASE ~aborted
    <3>1. /\ job[f] = "queued" /\ job' = [job EXCEPT ![f] = "picked"]
          /\ UNCHANGED <<pc, attempt, aborted, isolated, results>>
      BY <1>12, <2>2 DEF Pick, First
    <3>2. job'[f] = "picked" /\ \A g \in Friends : g # f => job'[g] = job[g]
      BY <3>1
    <3>3. Pooling
      BY <3>1
    <3> QED
      BY <3>1, <3>2, <3>3
  <2> QED
    BY <2>1, <2>2
<1>13. ASSUME NEW f \in Friends, Dispatch(f) PROVE Pool'
  BY <1>13 DEF Dispatch
<1>14. ASSUME NEW f \in Friends, NEW o \in Outcomes, Finish(f, o) PROVE Pool'
  BY <1>14 DEF Finish, Outcomes, Answers, Raises
<1>15. CASE Signalled
  BY <1>15 DEF Signalled
<1>16. CASE UNCHANGED vars
  BY <1>16 DEF vars
<1> QED
  BY <1>1, <1>2, <1>3, <1>4, <1>5, <1>6, <1>7, <1>8, <1>9, <1>10, <1>11, <1>12, <1>13, <1>14,
     <1>15, <1>16 DEF Next, Main, Work

LEMMA FilesStep == TypeOK /\ Pool /\ Files /\ [Next]_vars => Files'
<1> SUFFICES ASSUME TypeOK, Pool, Files, [Next]_vars PROVE Files'
  OBVIOUS
<1> USE DEF TypeOK, Jobs, Places, MainStep, WorkerStep, poolvars, trackervars, Files, Pooling,
            InRound
<1>1. CASE Open
  <2>1. /\ DOMAIN rows' = DOMAIN rows \cup {<<round, f>> : f \in disabled}
        /\ prompts' = prompts \cup {<<round, f>> : f \in Ready}
        /\ \A p \in DOMAIN rows' : p \notin DOMAIN rows => rows'[p] = "skipped"
    BY <1>1 DEF Open
  <2>2. Ready \in SUBSET Friends /\ disabled \in SUBSET Friends
    BY DEF Ready
  <2>3. \A p \in DOMAIN rows \cup prompts : p \in Nat \X Friends /\ p[1] < round
    BY <1>1 DEF Open
  <2>4. \A f \in Friends : <<round, f>> \notin DOMAIN rows \cup prompts
    <3>1. SUFFICES ASSUME NEW f \in Friends, <<round, f>> \in DOMAIN rows \cup prompts
                   PROVE  FALSE
      OBVIOUS
    <3>2. <<round, f>>[1] < round /\ <<round, f>>[1] = round
      BY <2>3, <3>1
    <3>3. round \in Nat /\ round < round
      BY <3>2
    <3> QED
      BY <3>3
  <2>5. \A p \in DOMAIN rows' \cup prompts' : p[1] <= round
    <3>1. ASSUME NEW p \in DOMAIN rows \cup prompts PROVE p[1] <= round
      <4>1. p[1] \in Nat /\ p[1] < round
        BY <2>3
      <4> QED
        BY <4>1
    <3>2. ASSUME NEW p \in {<<round, f>> : f \in disabled} \cup {<<round, f>> : f \in Ready}
          PROVE  p[1] <= round
      <4>1. p[1] = round /\ round \in Nat
        BY <3>2, <2>2, RowsAreOfTheRound
      <4> QED
        BY <4>1
    <3> QED
      BY <2>1, <3>1, <3>2
  <2>6. \A f \in Friends : /\ <<round, f>> \in DOMAIN rows' <=> f \in disabled
                           /\ <<round, f>> \in prompts' <=> f \notin disabled
    BY <2>1, <2>2, <2>4, RowsAreOfTheRound DEF Ready
  <2>7. /\ pc' = "isolating" /\ isolated' = {} /\ UNCHANGED <<round, disabled>>
        /\ \A f \in Friends : job'[f] = "none"
    BY <1>1 DEF Open
  <2> QED
    BY <2>1, <2>4, <2>5, <2>6, <2>7
<1>2. CASE Isolate
  <2>1. PICK f \in Friends \ disabled : isolated' = isolated \cup {f}
    BY <1>2 DEF Isolate, Unisolated, Ready, First
  <2>2. /\ pc = "isolating" /\ pc' = pc
        /\ UNCHANGED <<round, job, aborted, results, prompts, rows, disabled>>
    BY <1>2 DEF Isolate
  <2>3. <<round, f>> \in prompts /\ <<round, f>> \notin DOMAIN rows
    BY <2>1, <2>2
  <2> QED
    BY <2>1, <2>2, <2>3
<1>3. CASE Announce
  BY <1>3 DEF Announce, Unisolated, Ready, Pool
<1>4. CASE IsolationFails
  BY <1>4 DEF IsolationFails
<1>5. CASE Submit
  BY <1>5 DEF Submit, Unsubmitted
<1>6. CASE Read
  BY <1>6 DEF Read, Unread, ToRead, Unsubmitted, Pool
<1>7. CASE Interrupted
  BY <1>7 DEF Interrupted
<1>8. CASE Recover
  BY <1>8 DEF Recover, Finished, Pool
<1>9. CASE Close
  BY <1>9 DEF Close
<1>10. CASE Classify
  BY <1>10 DEF Classify, Record, Pool
<1>11. CASE Persist
  <2>1. /\ DOMAIN rows' = DOMAIN rows \cup {<<round, f>> : f \in results}
        /\ prompts' \subseteq prompts
        /\ pc' \in {"done", "open"} /\ round' = IF pc' = "open" THEN round + 1 ELSE round
    BY <1>11 DEF Persist
  <2>2. \A p \in DOMAIN rows' \cup prompts' : p[1] <= round
    BY <2>1, RowsAreOfTheRound
  <2> QED
    BY <2>1, <2>2
<1>12. ASSUME NEW f \in Friends, Pick(f) PROVE Files'
  BY <1>12 DEF Pick, First
<1>13. ASSUME NEW f \in Friends, Dispatch(f) PROVE Files'
  BY <1>13 DEF Dispatch
<1>14. ASSUME NEW f \in Friends, NEW o \in Outcomes, Finish(f, o) PROVE Files'
  BY <1>14 DEF Finish
<1>15. CASE Signalled
  BY <1>15 DEF Signalled
<1>16. CASE UNCHANGED vars
  BY <1>16 DEF vars
<1> QED
  BY <1>1, <1>2, <1>3, <1>4, <1>5, <1>6, <1>7, <1>8, <1>9, <1>10, <1>11, <1>12, <1>13, <1>14,
     <1>15, <1>16 DEF Next, Main, Work
-----------------------------------------------------------------------------
(* What a round leaves on disk. *)

\* What persisting adds: the row of everybody who was read, and nothing else;
\* the prompts it leaves are theirs.
LEMMA PersistWrites ==
  ASSUME TypeOK, Pool, Files, Persist
  PROVE  /\ pc' \in {"open", "done"} /\ round' = IF pc' = "open" THEN round + 1 ELSE round
         /\ \A f \in Friends : f \in results <=> Crossed(f)
         /\ \A p \in DOMAIN rows : p \in DOMAIN rows' /\ rows'[p] = rows[p]
         /\ \A f \in results : /\ <<round, f>> \in DOMAIN rows' /\ rows'[<<round, f>>] = attempt[f]
                               /\ <<round, f>> \notin DOMAIN rows /\ <<round, f>> \in prompts'
         /\ \A f \in Friends \ results :
              <<round, f>> \notin prompts' /\ (<<round, f>> \in DOMAIN rows' => <<round, f>> \in DOMAIN rows)
         /\ \A p \in DOMAIN rows' : p \in DOMAIN rows \/ (p[1] = round /\ p[2] \in results)
<1> USE DEF TypeOK
<1>1. /\ DOMAIN rows' = DOMAIN rows \cup {<<round, f>> : f \in results}
      /\ \A p \in DOMAIN rows' : rows'[p] = IF p \in DOMAIN rows THEN rows[p] ELSE attempt[p[2]]
      /\ prompts' = {p \in prompts : p[1] = round => p[2] \in results}
      /\ pc' \in {"open", "done"} /\ round' = IF pc' = "open" THEN round + 1 ELSE round
      /\ pc = "persisting"
  BY DEF Persist
<1>2. \A f \in Friends : f \in results <=> Crossed(f)
  BY <1>1 DEF Pool, Pooling
<1>3. \A f \in results : <<round, f>> \in prompts /\ <<round, f>> \notin DOMAIN rows
  BY <1>1 DEF Pool, Files, Pooling, InRound, Crossed
<1>4. ASSUME NEW f \in results
      PROVE  /\ <<round, f>> \in DOMAIN rows' /\ rows'[<<round, f>>] = attempt[f]
             /\ <<round, f>> \notin DOMAIN rows /\ <<round, f>> \in prompts'
  BY <1>1, <1>3
<1>5. ASSUME NEW f \in Friends \ results
      PROVE  /\ <<round, f>> \notin prompts'
             /\ <<round, f>> \in DOMAIN rows' => <<round, f>> \in DOMAIN rows
  BY <1>1, RowsAreOfTheRound
<1>6. \A p \in DOMAIN rows' : p \in DOMAIN rows \/ (p[1] = round /\ p[2] \in results)
  BY <1>1, RowsAreOfTheRound
<1> QED
  BY <1>1, <1>2, <1>4, <1>5, <1>6

\* Outside the pool's life the workers have nothing to do.
LEMMA IdleWorkers ==
  ASSUME TypeOK, Pool, ~Pooling, NEW f \in Friends, Work(f)
  PROVE  FALSE
BY DEF Pool, PoolDown, Work, Pick, Dispatch, Finish, First

LEMMA AuditStep ==
  TypeOK /\ Pool /\ Files /\ EveryDispatchIsAudited /\ [Next]_vars => EveryDispatchIsAudited'
<1> SUFFICES ASSUME TypeOK, Pool, Files, EveryDispatchIsAudited, [Next]_vars
             PROVE  EveryDispatchIsAudited'
  OBVIOUS
<1>1. CASE Persist
  <2>1. Written' = round
    BY <1>1, PersistWrites DEF Written, TypeOK
  <2>2. UNCHANGED attempt
    BY <1>1 DEF Persist, poolvars
  <2>3. ASSUME NEW f \in Friends
        PROVE  /\ Crossed(f) => <<round, f>> \in DOMAIN rows' /\ rows'[<<round, f>>] = attempt[f]
               /\ <<round, f>> \in DOMAIN rows' /\ ~Crossed(f) => rows'[<<round, f>>] = "skipped"
               /\ <<round, f>> \in prompts' <=> Crossed(f)
    BY <1>1, PersistWrites DEF Files, InRound, Pooling, Persist
  <2> QED
    BY <2>1, <2>2, <2>3 DEF EveryDispatchIsAudited, Crossed
<1>2. CASE Signalled \/ UNCHANGED vars
  BY <1>2 DEF Signalled, vars, poolvars, EveryDispatchIsAudited, Written
<1>3. CASE (Main \/ \E f \in Friends : Work(f)) /\ ~Persist
  <2>1. pc' \notin {"open", "done"} \/ UNCHANGED <<pc, round, attempt, rows, prompts>>
    <3>1. CASE Main
      BY <1>3, <3>1 DEF Main, Open, Isolate, Announce, IsolationFails, Submit, Read, Interrupted,
                        Recover, Close, Classify, poolvars
    <3>2. CASE \E f \in Friends : Work(f)
      BY <3>2, IdleWorkers DEF Pooling, Work, Pick, Dispatch, Finish, WorkerStep
    <3> QED
      BY <1>3, <3>1, <3>2
  <2>2. CASE pc' \notin {"open", "done"}
    BY <2>2 DEF EveryDispatchIsAudited, Written
  <2>3. CASE UNCHANGED <<pc, round, attempt, rows, prompts>>
    BY <2>3 DEF EveryDispatchIsAudited, Written
  <2> QED
    BY <2>1, <2>2, <2>3
<1> QED
  BY <1>1, <1>2, <1>3 DEF Next
-----------------------------------------------------------------------------
(* The RepeatTracker against the rows. *)

Entry(r, f, o) == <<r, f>> \in DOMAIN rows /\ rows[<<r, f>>] = o

\* A counted failure has a row in each of the rounds it was counted in.
StreakShown(f)  == \A k \in 0 .. count[f] - 1 : Entry(round - 1 - k, f, last[f])
StreakBehind(f) == /\ attempt[f] = last[f]
                   /\ \A k \in 1 .. count[f] - 1 : Entry(round - k, f, last[f])

Streaks ==
  /\ \A f \in Friends : count[f] > 0 => last[f] \in Outcomes \ {"ok"}
  /\ pc \notin {"persisting", "done", "failed"} =>
       \A f \in Friends \ disabled : StreakShown(f)
  /\ pc = "persisting" =>
       \A f \in results \ disabled : count[f] > 0 => StreakBehind(f)

\* The rounds f was benched for, up to r.
BenchedAt(f, r, o) ==
  /\ \A k \in 0 .. RepeatLimit - 1 :
       \/ Entry(r - k, f, o)
       \/ r - k = round /\ pc = "persisting" /\ attempt[f] = o
  /\ \A later \in r + 1 .. round : <<later, f>> \in DOMAIN rows => rows[<<later, f>>] = "skipped"
  /\ pc = "persisting" /\ f \in results => r = round

Benched == \A f \in disabled : \E r \in 1 .. round, o \in Outcomes \ {"ok"} : BenchedAt(f, r, o)

\* What every step but the three below leaves alone.
Tracked == <<round, rows, disabled, last, count>>

LEMMA TrackedStep ==
  ASSUME TypeOK, Pool, [Next]_vars, ~Open, ~Classify, ~Persist
  PROVE  /\ UNCHANGED Tracked
         /\ pc' \notin {"persisting", "done", "failed"} => pc \notin {"persisting", "done", "failed"}
         /\ pc = "persisting" <=> pc' = "persisting"
         /\ pc = "persisting" => UNCHANGED <<attempt, results>>
<1>1. CASE Signalled \/ UNCHANGED vars
  BY <1>1 DEF Signalled, vars, poolvars, trackervars, Tracked
<1>2. CASE Main
  BY <1>2 DEF Main, Isolate, Announce, IsolationFails, Submit, Read, Interrupted, Recover, Close,
              MainStep, poolvars, trackervars, Tracked
<1>3. CASE \E f \in Friends : Work(f)
  BY <1>3, IdleWorkers DEF Pooling, Work, Pick, Dispatch, Finish, WorkerStep, trackervars, Tracked
<1> QED
  BY <1>1, <1>2, <1>3 DEF Next

\* Opening a round adds only rows of that round, for the benched.
LEMMA OpenWrites ==
  ASSUME TypeOK, Files, Open
  PROVE  /\ \A p \in DOMAIN rows : p \in DOMAIN rows' /\ rows'[p] = rows[p]
         /\ \A p \in DOMAIN rows' : p \in DOMAIN rows \/ (p[1] = round /\ rows'[p] = "skipped")
         /\ pc = "open" /\ pc' = "isolating" /\ UNCHANGED <<round, disabled, last, count>>
<1>1. /\ DOMAIN rows' = DOMAIN rows \cup {<<round, f>> : f \in disabled}
      /\ \A p \in DOMAIN rows' : rows'[p] = IF p \in DOMAIN rows THEN rows[p] ELSE "skipped"
      /\ pc = "open" /\ pc' = "isolating" /\ UNCHANGED <<round, disabled, last, count>>
  BY DEF Open, MainStep, trackervars
<1>2. disabled \in SUBSET Friends
  BY DEF TypeOK
<1> QED
  BY <1>1, <1>2, RowsAreOfTheRound

\* A row stays.
LEMMA EntryStays ==
  ASSUME TypeOK, Pool, Files, [Next]_vars, NEW r, NEW f, NEW o, Entry(r, f, o)
  PROVE  Entry(r, f, o)'
<1>1. CASE Open
  BY <1>1, OpenWrites DEF Entry
<1>2. CASE Persist
  BY <1>2, PersistWrites DEF Entry
<1>3. CASE Classify
  BY <1>3 DEF Classify, Entry
<1>4. CASE ~Open /\ ~Classify /\ ~Persist
  BY <1>4, TrackedStep DEF Tracked, Entry
<1> QED
  BY <1>1, <1>2, <1>3, <1>4

\* Classification, friend by friend.
LEMMA Classified ==
  ASSUME TypeOK, Pool, Files, Streaks, Classify, NEW f \in Friends
  PROVE  /\ pc = "recording" /\ pc' = "persisting" /\ UNCHANGED <<round, rows, attempt, results>>
         /\ f \notin results => UNCHANGED <<last[f], count[f]>> /\ (f \in disabled' <=> f \in disabled)
         /\ f \in results =>
              /\ f \notin disabled
              /\ count'[f] > 0 => last'[f] = attempt[f] /\ attempt[f] \in Outcomes \ {"ok"}
              /\ \A k \in 1 .. count'[f] - 1 : Entry(round - k, f, attempt[f])
              /\ f \in disabled' => count'[f] > 0 /\ count'[f] >= RepeatLimit
<1> USE DEF TypeOK
<1>1. pc = "recording" /\ pc' = "persisting" /\ UNCHANGED <<round, rows, attempt, results>>
  BY DEF Classify, poolvars
<1>2. ASSUME f \notin results
      PROVE  UNCHANGED <<last[f], count[f]>> /\ (f \in disabled' <=> f \in disabled)
  BY <1>2 DEF Classify
<1>3. ASSUME f \in results
      PROVE  /\ f \notin disabled
             /\ count'[f] > 0 => last'[f] = attempt[f] /\ attempt[f] \in Outcomes \ {"ok"}
             /\ \A k \in 1 .. count'[f] - 1 : Entry(round - k, f, attempt[f])
             /\ f \in disabled' => count'[f] > 0 /\ count'[f] >= RepeatLimit
  <2>1. f \notin disabled /\ attempt[f] \in Outcomes
    BY <1>1, <1>3, RecordIsTyped DEF Files, Pool, Crossed, InRound, Pooling
  <2>2. /\ last'[f] = Record(f, attempt[f]).last /\ count'[f] = Record(f, attempt[f]).count
        /\ f \in disabled' <=> Record(f, attempt[f]).disabled
    BY <1>3, <2>1, Zenon DEF Classify
  <2>3. StreakShown(f)
    BY <1>1, <2>1 DEF Streaks
  <2>4. CASE Repeats(f, attempt[f])
    <3>1. attempt[f] # "ok" /\ attempt[f] = last[f]
      BY <2>4, <2>1 DEF Repeats, Signature, Outcomes, Answers, Raises
    <3>2. /\ last'[f] = last[f] /\ count'[f] = count[f] + 1
          /\ f \in disabled' <=> f \in disabled \/ count[f] + 1 >= RepeatLimit
      BY <2>2, <2>4, Zenon DEF Record
    <3>3. ASSUME NEW k \in 1 .. count'[f] - 1 PROVE Entry(round - k, f, attempt[f])
      <4>1. k - 1 \in 0 .. count[f] - 1 /\ round - 1 - (k - 1) = round - k
        BY <3>2
      <4> QED
        BY <4>1, <3>1, <2>3 DEF StreakShown
    <3>4. count'[f] > 0
      BY <3>2
    <3> QED
      BY <2>1, <3>1, <3>2, <3>3, <3>4
  <2>5. CASE ~Repeats(f, attempt[f])
    <3>1. /\ last'[f] = Signature(attempt[f]) /\ count'[f] = IF attempt[f] = "ok" THEN 0 ELSE 1
          /\ f \in disabled' <=> f \in disabled /\ attempt[f] # "ok"
      BY <2>2, <2>5, Zenon DEF Record
    <3> QED
      BY <3>1, <2>1 DEF Signature
  <2> QED
    BY <2>4, <2>5
<1> QED
  BY <1>1, <1>2, <1>3

LEMMA StreaksStep ==
  TypeOK /\ Pool /\ Files /\ Streaks /\ [Next]_vars => Streaks'
<1> SUFFICES ASSUME TypeOK, Pool, Files, Streaks, [Next]_vars PROVE Streaks'
  OBVIOUS
<1> USE DEF TypeOK
<1>1. CASE Open
  <2>1. ASSUME NEW f \in Friends \ disabled PROVE StreakShown(f)'
    BY <1>1, <2>1, OpenWrites, EntryStays DEF Streaks, StreakShown
  <2> QED
    BY <1>1, <2>1, OpenWrites DEF Streaks
<1>2. CASE Classify
  <2>1. ASSUME NEW f \in Friends, count'[f] > 0 PROVE last'[f] \in Outcomes \ {"ok"}
    BY <1>2, <2>1, Classified DEF Streaks
  <2>2. ASSUME NEW f \in (results \ disabled)', count'[f] > 0 PROVE StreakBehind(f)'
    <3>1. f \in results /\ f \in Friends /\ UNCHANGED <<round, rows, attempt, results>>
      BY <1>2, <2>2 DEF Classify, poolvars
    <3>2. /\ last'[f] = attempt[f]
          /\ \A k \in 1 .. count'[f] - 1 : Entry(round - k, f, attempt[f])
      BY <1>2, <2>2, <3>1, Classified
    <3> QED
      BY <3>1, <3>2 DEF StreakBehind, Entry
  <2> QED
    BY <1>2, <2>1, <2>2, Classified DEF Streaks
<1>3. CASE Persist
  <2>1. pc = "persisting" /\ UNCHANGED <<last, count, disabled>>
    BY <1>3 DEF Persist, MainStep, trackervars
  <2>2. ASSUME pc' = "open", NEW f \in Friends \ disabled PROVE StreakShown(f)'
    <3>1. f \in results /\ round' = round + 1
      BY <1>3, <2>1, <2>2, PersistWrites DEF Persist, Files, InRound, Pooling
    <3>2. ASSUME NEW k \in 0 .. count[f] - 1 
          PROVE  <<round - k, f>> \in DOMAIN rows' /\ rows'[<<round - k, f>>] = last[f]
      <4>1. attempt[f] = last[f] /\ \A i \in 1 .. count[f] - 1 : Entry(round - i, f, last[f])
        BY <2>1, <2>2, <3>1, <3>2 DEF Streaks, StreakBehind
      <4>2. CASE k = 0
        BY <1>3, <2>1, <3>1, <4>1, <4>2, PersistWrites DEF Entry
      <4>3. CASE k # 0
        <5>1. Entry(round - k, f, last[f])
          BY <3>2, <4>1, <4>3
        <5> QED
          BY <1>3, <2>1, <5>1, PersistWrites DEF Entry
      <4> QED
        BY <4>2, <4>3
    <3>3. ASSUME NEW k \in 0 .. count'[f] - 1 PROVE Entry(round - 1 - k, f, last[f])'
      <4>1. k \in 0 .. count[f] - 1 /\ round' - 1 - k = round - k
        BY <2>1, <3>1
      <4> QED
        BY <2>1, <3>2, <4>1 DEF Entry
    <3> QED
      BY <3>3 DEF StreakShown
  <2> QED
    BY <1>3, <2>1, <2>2, PersistWrites DEF Streaks
<1>4. CASE ~Open /\ ~Classify /\ ~Persist
  BY <1>4, TrackedStep DEF Tracked, Streaks, StreakShown, StreakBehind, Entry
<1> QED
  BY <1>1, <1>2, <1>3, <1>4

LEMMA BenchedStep ==
  TypeOK /\ Pool /\ Files /\ Streaks /\ Benched /\ [Next]_vars => Benched'
<1> SUFFICES ASSUME TypeOK, Pool, Files, Streaks, Benched, [Next]_vars, NEW f \in disabled'
             PROVE  \E r \in 1 .. round', o \in Outcomes \ {"ok"} : BenchedAt(f, r, o)'
  BY DEF Benched
<1> USE DEF TypeOK, RoundAssumption
<1>1. CASE Open
  <2>1. PICK r \in 1 .. round, o \in Outcomes \ {"ok"} : BenchedAt(f, r, o)
    BY <1>1, OpenWrites DEF Benched
  <2>2. ASSUME NEW k \in 0 .. RepeatLimit - 1 PROVE Entry(r - k, f, o)'
    BY <1>1, <2>1, <2>2, OpenWrites, EntryStays DEF BenchedAt
  <2>3. ASSUME NEW later \in r + 1 .. round, <<later, f>> \in DOMAIN rows'
        PROVE  rows'[<<later, f>>] = "skipped"
    BY <1>1, <2>1, <2>3, OpenWrites DEF BenchedAt
  <2>4. BenchedAt(f, r, o)'
    BY <1>1, <2>2, <2>3, OpenWrites DEF BenchedAt
  <2> QED
    BY <1>1, <2>4, OpenWrites
<1>2. CASE Classify
  <2>1. f \in Friends /\ pc = "recording" /\ pc' = "persisting"
        /\ UNCHANGED <<round, rows, attempt, results>>
    BY <1>2 DEF Classify, poolvars
  <2>2. CASE f \in results
    <3>1. /\ attempt[f] \in Outcomes \ {"ok"} /\ count'[f] >= RepeatLimit
          /\ \A k \in 1 .. count'[f] - 1 : Entry(round - k, f, attempt[f])
      BY <1>2, <2>1, <2>2, Classified
    <3>2. count'[f] \in Nat /\ RepeatLimit \in Nat \ {0}
      BY <1>2, <2>1, TypeStep, RoundAssumption
    <3>3. ASSUME NEW k \in 0 .. RepeatLimit - 1
          PROVE  \/ Entry(round - k, f, attempt[f])
                 \/ round - k = round
      <4>1. k = 0 \/ k \in 1 .. count'[f] - 1
        BY <3>1, <3>2
      <4> QED
        BY <3>1, <4>1
    <3>4. BenchedAt(f, round, attempt[f])'
      BY <2>1, <3>3 DEF BenchedAt, Entry
    <3> QED
      BY <2>1, <3>1, <3>4
  <2>3. CASE f \notin results
    <3>1. f \in disabled
      BY <1>2, <2>1, <2>3, Classified
    <3>2. PICK r \in 1 .. round, o \in Outcomes \ {"ok"} : BenchedAt(f, r, o)
      BY <3>1 DEF Benched
    <3>3. BenchedAt(f, r, o)'
      BY <2>1, <2>3, <3>2 DEF BenchedAt, Entry
    <3> QED
      BY <2>1, <3>3
  <2> QED
    BY <2>2, <2>3
<1>3. CASE Persist
  <2>1. /\ f \in disabled /\ f \in Friends /\ pc = "persisting" /\ pc' # "persisting"
        /\ UNCHANGED disabled /\ round' \in {round, round + 1}
    BY <1>3, PersistWrites DEF Persist, MainStep, trackervars
  <2>2. PICK r \in 1 .. round, o \in Outcomes \ {"ok"} : BenchedAt(f, r, o)
    BY <2>1 DEF Benched
  <2>3. ASSUME NEW k \in 0 .. RepeatLimit - 1 PROVE Entry(r - k, f, o)'
    <3>1. CASE Entry(r - k, f, o)
      BY <3>1, EntryStays
    <3>2. CASE r - k = round /\ attempt[f] = o
      <4>1. f \in results
        BY <1>3, <2>1, <3>2, PersistWrites DEF Crossed, Outcomes, Answers, Raises
      <4> QED
        BY <1>3, <3>2, <4>1, PersistWrites DEF Entry
    <3> QED
      BY <2>2, <2>3, <3>1, <3>2 DEF BenchedAt
  <2>4. ASSUME NEW later \in r + 1 .. round', <<later, f>> \in DOMAIN rows'
        PROVE  rows'[<<later, f>>] = "skipped"
    <3>1. <<later, f>>[1] = later /\ <<later, f>>[2] = f
      OBVIOUS
    <3>2. CASE <<later, f>> \in DOMAIN rows
      <4>1. later <= round
        BY <3>1, <3>2 DEF Files
      <4>2. rows[<<later, f>>] = "skipped"
        BY <2>1, <2>2, <3>2, <4>1 DEF BenchedAt
      <4> QED
        BY <1>3, <3>2, <4>2, PersistWrites
    <3>3. CASE <<later, f>> \notin DOMAIN rows
      <4>1. later = round /\ f \in results
        BY <1>3, <2>4, <3>1, <3>3, PersistWrites
      <4>2. r = round
        BY <2>1, <2>2, <4>1 DEF BenchedAt
      <4> QED
        BY <4>1, <4>2
    <3> QED
      BY <3>2, <3>3
  <2>5. BenchedAt(f, r, o)'
    BY <2>1, <2>3, <2>4 DEF BenchedAt
  <2> QED
    BY <2>1, <2>2, <2>5
<1>4. CASE ~Open /\ ~Classify /\ ~Persist
  <2>1. PICK r \in 1 .. round, o \in Outcomes \ {"ok"} : BenchedAt(f, r, o)
    BY <1>4, TrackedStep DEF Tracked, Benched
  <2>2. BenchedAt(f, r, o)'
    BY <1>4, <2>1, TrackedStep DEF Tracked, BenchedAt, Entry
  <2> QED
    BY <1>4, <2>2, TrackedStep DEF Tracked
<1> QED
  BY <1>1, <1>2, <1>3, <1>4
-----------------------------------------------------------------------------
(* What a row claims, and what held when its friend ran. *)

Sound(f) ==
  /\ ClaimsWriteProtection(A(f), setting) => WritesStopped(A(f), setting)
  /\ EmitsWeakening(A(f), setting) => Binds(A(f), setting)
  /\ RunsFree(A(f), setting) => setting.allow

\* Outcomes of a call that was not turned away.
Ran == Outcomes \ {"refused", "stop", "crash"}

Guarded == \A f \in Friends : attempt[f] \in Ran => Sound(f)

\* The screening of argv and the refusal are what a claim rests on, whatever
\* the adapter declares.
LEMMA Screened ==
  ASSUME NEW f \in Friends, NEW o \in Ran, Returns(f, o)
  PROVE  Sound(f)
<1>1. ArgvAccepted(A(f), setting) /\ ExtraArgsAccepted(A(f), setting) /\ ~Refused(A(f), setting)
  BY DEF Returns, Ran
<1>2. ClaimsWriteProtection(A(f), setting) => WritesStopped(A(f), setting)
  BY <1>1, Zenon DEF ClaimsWriteProtection, WritesStopped, ArgvAccepted, ExtraArgsAccepted,
                      DeclaresOuterReadonly
<1>3. EmitsWeakening(A(f), setting) => Binds(A(f), setting)
  BY <1>1, Zenon DEF EmitsWeakening, ArgvAccepted
<1>4. RunsFree(A(f), setting) => setting.allow
  BY <1>1, Zenon DEF RunsFree, Refused, Binds, NeedsConfinement
<1> QED
  BY <1>2, <1>3, <1>4 DEF Sound

LEMMA GuardedStep == TypeOK /\ Guarded /\ [Next]_vars => Guarded'
<1> SUFFICES ASSUME TypeOK, Guarded, [Next]_vars PROVE Guarded'
  OBVIOUS
<1>1. ASSUME UNCHANGED setting,
             \A g \in Friends : attempt'[g] = attempt[g] \/ attempt'[g] \notin Ran \/ Sound(g)
      PROVE  Guarded'
  BY <1>1, Zenon DEF Guarded, Sound
<1>2. UNCHANGED setting
  BY DEF Next, Main, Open, Isolate, Announce, IsolationFails, Submit, Read, Interrupted, Recover,
         Close, Classify, Persist, Work, Pick, Dispatch, Finish, Signalled, MainStep, WorkerStep, vars
<1>3. CASE (Main /\ ~Open) \/ Signalled \/ UNCHANGED vars
  <2>1. UNCHANGED attempt
    BY <1>3 DEF Main, Isolate, Announce, IsolationFails, Submit, Read, Interrupted, Recover, Close,
                Classify, Persist, Signalled, poolvars, vars
  <2> QED
    BY <1>1, <1>2, <2>1
<1>4. CASE Open
  <2>1. \A g \in Friends : attempt'[g] = "none"
    BY <1>4 DEF Open
  <2> QED
    BY <1>1, <1>2, <2>1 DEF Ran, Outcomes, Answers, Raises
<1>5. ASSUME NEW f \in Friends, Work(f) PROVE Guarded'
  <2>1. CASE Dispatch(f)
    BY <1>1, <1>2, <2>1 DEF Dispatch
  <2>2. CASE Pick(f)
    <3>1. \A g \in Friends : attempt'[g] = attempt[g] \/ attempt'[g] = "withheld"
      BY <2>2 DEF Pick, TypeOK
    <3> QED
      BY <1>1, <1>2, <3>1 DEF Ran, Outcomes, Answers, Raises
  <2>3. ASSUME NEW o \in Outcomes, Finish(f, o) PROVE Guarded'
    <3>1. Returns(f, o) /\ attempt' = [attempt EXCEPT ![f] = o]
      BY <2>3 DEF Finish
    <3>2. o \in Ran => Sound(f)
      BY <3>1, Screened
    <3> QED
      BY <1>1, <1>2, <3>1, <3>2 DEF TypeOK
  <2> QED
    BY <1>5, <2>1, <2>2, <2>3 DEF Work
<1> QED
  BY <1>3, <1>4, <1>5 DEF Next

LEMMA ProtectionStep ==
  TypeOK /\ Pool /\ Files /\ Guarded /\ ProtectionIsReal /\ [Next]_vars => ProtectionIsReal'
<1> SUFFICES ASSUME TypeOK, Pool, Files, Guarded, ProtectionIsReal, [Next]_vars,
                    NEW p \in DOMAIN rows', rows'[p] \notin {"skipped", "refused", "stop", "crash"}
             PROVE  Sound(p[2])'
  BY DEF ProtectionIsReal, Sound
<1>1. UNCHANGED setting
  BY DEF Next, Main, Open, Isolate, Announce, IsolationFails, Submit, Read, Interrupted, Recover,
         Close, Classify, Persist, Work, Pick, Dispatch, Finish, Signalled, MainStep, WorkerStep, vars
<1>2. CASE p \in DOMAIN rows
  <2>1. Entry(p[1], p[2], rows[p])
    BY <1>2 DEF Entry, TypeOK
  <2>2. rows'[p] = rows[p]
    BY <1>2, <2>1, EntryStays DEF Entry, TypeOK
  <2> QED
    BY <1>1, <1>2, <2>2 DEF ProtectionIsReal, Sound
<1>3. CASE p \notin DOMAIN rows
  <2>1. CASE Open
    BY <1>3, <2>1, OpenWrites
  <2>2. CASE Persist
    <3>1. p[2] \in results /\ p[1] = round
      BY <1>3, <2>2, PersistWrites
    <3>2. p = <<round, p[2]>>
      BY <1>3, <2>2, <3>1 DEF Persist, TypeOK
    <3>3. rows'[p] = attempt[p[2]] /\ p[2] \in Friends
      BY <2>2, <3>1, <3>2, PersistWrites DEF TypeOK
    <3>4. attempt[p[2]] \in Ran
      BY <3>1, <3>3, RecordIsTyped DEF Ran
    <3> QED
      BY <1>1, <3>3, <3>4 DEF Guarded, Sound
  <2>3. CASE ~Open /\ ~Persist
    <3>1. UNCHANGED rows
      BY <2>3, TrackedStep DEF Tracked, Classify
    <3> QED
      BY <1>3, <3>1
  <2> QED
    BY <2>1, <2>2, <2>3
<1> QED
  BY <1>2, <1>3
-----------------------------------------------------------------------------
(* The theorems. *)

Inv == /\ TypeOK /\ Pool /\ Files /\ EveryDispatchIsAudited
       /\ Streaks /\ Benched
       /\ Guarded /\ ProtectionIsReal

LEMMA StartsInv == Init => Inv
<1> SUFFICES ASSUME Init PROVE Inv
  OBVIOUS
<1>1. DOMAIN rows = {} /\ disabled = {} /\ pc = "open" /\ round = 1
  BY DEF Init
<1>2. EveryDispatchIsAudited
  BY <1>1 DEF EveryDispatchIsAudited, Written
<1>3. Streaks
  BY <1>1 DEF Init, Streaks, StreakShown
<1>4. Benched /\ ProtectionIsReal
  BY <1>1 DEF Benched, ProtectionIsReal
<1>5. Guarded
  BY DEF Init, Guarded, Ran, Outcomes, Answers, Raises
<1> QED
  BY InitHolds, <1>2, <1>3, <1>4, <1>5 DEF Inv

LEMMA KeepsInv == Inv /\ [Next]_vars => Inv'
BY TypeStep, PoolStep, FilesStep, AuditStep, StreaksStep, BenchedStep, GuardedStep, ProtectionStep
   DEF Inv

LEMMA Always == Spec => []Inv
BY StartsInv, KeepsInv, PTL DEF Spec

\* Whoever fails and whenever the round is stopped: a row and a prompt for
\* everybody who crossed the dispatch boundary, and for nobody else but the
\* benched (rounds.py:265-345, 440-505).
THEOREM DispatchesAreAudited == Spec => []EveryDispatchIsAudited
<1>1. Inv => EveryDispatchIsAudited
  BY DEF Inv
<1> QED
  BY Always, <1>1, PTL

\* A benched friend failed the same way in RepeatLimit rounds running, each of
\* them in its rows, and was not dispatched since (failures.py:132-203).
THEOREM BenchedForAStreak == Spec => []OnlyTheBrokenAreBenched
<1>1. Inv => OnlyTheBrokenAreBenched
  BY DEF Inv, Benched, BenchedAt, Entry, OnlyTheBrokenAreBenched
<1> QED
  BY Always, <1>1, PTL

\* For every adapter, host and option: a row claims no write protection that
\* did not hold, no CLI drops its own sandbox outside the outer one, and nobody
\* runs free unless the operator allowed it (dispatch.py:355-590).
THEOREM RowsClaimWhatHeld == Spec => []ProtectionIsReal
<1>1. Inv => ProtectionIsReal
  BY DEF Inv
<1> QED
  BY Always, <1>1, PTL
=============================================================================
