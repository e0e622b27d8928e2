------------------------------ MODULE Verdicts ------------------------------
(***************************************************************************)
(* The decision table of src/afriend/verdicts.py: who may judge a claim,   *)
(* what quorum it needs, how the votes cast on it decide its state, when   *)
(* an undecided claim is discarded and what a unanimous rewrite produces.  *)
(* Everything here is a pure function of its arguments; Crossexam and      *)
(* JudgeRecovery are the machines that call it.                            *)
(*                                                                         *)
(* A claim id is <<number, version>> (c-0007@2 is <<7, 2>>).  A vote is a  *)
(* record [claim, judge, round, kind, evidence, wording, counter].  A      *)
(* wording and a counter-evidence are pairs <<text, layout>>: the text is  *)
(* compared, and the layout (line endings, blanks) is what normalisation   *)
(* takes away.                                                             *)
(***************************************************************************)
EXTENDS Integers, FiniteSets

SettledUpheld  == "settled-upheld"
SettledRefuted == "settled-refuted"
Superseded     == "superseded"
Contested      == "contested"
Deadlocked     == "deadlocked"
Unproven       == "unproven"
Incomplete     == "incomplete"
Discarded      == "discarded"

\* Slip: a superseded claim is asked about again.
TerminalWithoutSuperseded == {SettledUpheld, SettledRefuted, Deadlocked, Discarded}

TerminalStates ==
    {SettledUpheld, SettledRefuted, Superseded, Deadlocked, Discarded}
ClaimStates == TerminalStates \union {Contested, Unproven, Incomplete}

DispositiveKinds    == {"upheld", "refuted", "amended"}
NonDispositiveKinds == {"unproven", "out-of-scope"}
Kinds               == DispositiveKinds \union NonDispositiveKinds

\* A wording that says nothing.
NoText == "blank"

-----------------------------------------------------------------------------

\* judges_for: the roster minus the claim's originators.
JudgesFor(origin, roster) == roster \ origin

\* quorum_for: min(2, |judges|).
QuorumFor(judges) == IF Cardinality(judges) < 2 THEN Cardinality(judges) ELSE 2

Dispositive(votes) == {v \in votes : v.kind \in DispositiveKinds}

\* _normalized_amendment, _normalized_optional: the layout does not count.
Normalized(wording) == wording[1]

\* _amendments_agree: one wording, and it says something.
AmendmentsAgree(votes) ==
    LET texts == {Normalized(v.wording) : v \in {w \in votes : w.kind = "amended"}}
    IN  Cardinality(texts) = 1 /\ NoText \notin texts

\* Slip: every vote ever cast counts.
EveryVote(votes) == votes

\* latest_per_judge: one vote per judge, of the newest round it spoke in.
LatestPerJudge(votes) ==
    {v \in votes : \A w \in votes : w.judge = v.judge => w.round <= v.round}

\* state_for: the claim's state at the end of a round.
StateFor(origin, votes, roster, round, maxRounds, silent) ==
    LET judges       == JudgesFor(origin, roster)
        decided      == Dispositive(LatestPerJudge({v \in votes : v.judge \in judges}))
        kinds        == {v.kind : v \in decided}
        belowQuorum  == judges = {} \/ Cardinality(decided) < QuorumFor(judges)
        disagreement == IF round >= maxRounds THEN Deadlocked ELSE Contested
    IN  CASE belowQuorum /\ silent  -> Incomplete
          [] belowQuorum /\ ~silent -> Unproven
          [] ~belowQuorum /\ kinds = {"upheld"} -> SettledUpheld
          [] ~belowQuorum /\ kinds = {"refuted"} /\ Cardinality(judges) > 1 -> SettledRefuted
          [] ~belowQuorum /\ kinds = {"amended"} /\ AmendmentsAgree(decided) -> Superseded
          [] OTHER -> disagreement

\* verdict_set_signature: what the judges say now, whenever they said it.
Signature(votes) ==
    {[judge    |-> v.judge,    kind    |-> v.kind,
      evidence |-> v.evidence, counter |-> Normalized(v.counter),
      wording  |-> Normalized(v.wording)] :
        v \in LatestPerJudge(votes)}

\* should_discard: an empty signature (nobody ever voted) discards nothing.
ShouldDiscard(previous, current) == previous # {} /\ previous = current

\* downgrade_unverifiable: a judge that could not check has not decided.
Downgraded(vote) ==
    IF vote.kind \in DispositiveKinds /\ vote.evidence = "unverifiable"
    THEN [vote EXCEPT !.kind = "unproven"]
    ELSE vote

\* _free_successor_id: the next version of the claim that nothing holds.
FreeSuccessorId(id, taken) ==
    LET free == {n \in (id[2] + 1) .. (id[2] + 1 + Cardinality(taken)) : <<id[1], n>> \notin taken}
    IN  <<id[1], CHOOSE n \in free : \A m \in free : n <= m>>

\* build_successor: the rewrite, whose authors are everyone behind the
\* original and everyone who worded the change.
Successor(id, origin, amendments, round) ==
    [origin     |-> origin \union {v.judge : v \in amendments},
     supersedes |-> id,
     round      |-> round,
     text       |-> Normalized((CHOOSE v \in amendments : TRUE).wording)]
=============================================================================
