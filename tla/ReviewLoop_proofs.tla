--------------------------- MODULE ReviewLoop_proofs ---------------------------
(***************************************************************************)
(* Theorems about Crossexam and about ReviewLoop, which goes through       *)
(* Crossexam's steps once an iteration, for every roster, every set of     *)
(* claims, every ballot and every bound.                                   *)
(*                                                                         *)
(* First the judging rounds by themselves (Spec): type correctness, that   *)
(* no author ever judges its own claim, that a settled claim stays settled *)
(* and was settled by a quorum, that a claim is discarded only when its    *)
(* judges repeat themselves, that the calls stay within --max-calls, that  *)
(* a friend that is out stays out, and that only a superseded claim has a  *)
(* successor, and just one.  All of them rest on the same two facts about  *)
(* the bookkeeping (Inv): the id of a successor is always new, so making   *)
(* one changes no other claim, and the claims a round settles are open     *)
(* ones.                                                                   *)
(*                                                                         *)
(* Then the loop around them (LoopSpec), over iterations, halts and        *)
(* processes.  LoopInv says that every block of rounds starts from a state *)
(* that satisfies Inv, whatever it carries over, and that what a halted    *)
(* process left in run.json is what it had in memory: so each step of a    *)
(* block is one the first part speaks of, and only the steps of the loop   *)
(* itself are left to look at.                                             *)
(***************************************************************************)
EXTENDS ReviewLoop, FiniteSetTheorems, WellFoundedInduction, TLAPS

-----------------------------------------------------------------------------
(* Least elements.                                                         *)

\* Every set of naturals that is not empty has a least element.
LEMMA LeastNatural ==
    ASSUME NEW S \in SUBSET Nat, S # {}
    PROVE  \E n \in S : \A m \in S : n <= m
<1>1. PICK n \in S : \A m \in S : <<m, n>> \notin OpToRel(<, Nat)
  BY NatLessThanWellFounded, WFMin
<1>2. \A m \in S : ~(m < n)
  BY <1>1 DEF OpToRel
<1> QED
  BY <1>2

\* The claims of a run have a first one: the order _settle_round walks.
LEMMA FirstClaim ==
    ASSUME NEW S \in SUBSET (Nat \X Nat), S # {}
    PROVE  \E c \in S : \A d \in S : c[1] < d[1] \/ (c[1] = d[1] /\ c[2] <= d[2])
<1> DEFINE numbers == {c[1] : c \in S}
<1>1. numbers \in SUBSET Nat /\ numbers # {}
  OBVIOUS
<1>2. PICK n \in numbers : \A m \in numbers : n <= m
  <2> HIDE DEF numbers
  <2> QED BY <1>1, LeastNatural
<1> DEFINE versions == {c[2] : c \in {d \in S : d[1] = n}}
<1>3. versions \in SUBSET Nat /\ versions # {}
  BY <1>2
<1>4. PICK k \in versions : \A m \in versions : k <= m
  <2> HIDE DEF versions
  <2> QED BY <1>3, LeastNatural
<1>5. PICK c \in S : c[1] = n /\ c[2] = k
  BY <1>4
<1>6. \A d \in S : n <= d[1] /\ (d[1] = n => k <= d[2])
  BY <1>2, <1>4
<1>7. \A d \in S : c[1] < d[1] \/ (c[1] = d[1] /\ c[2] <= d[2])
  BY <1>5, <1>6
<1> QED
  BY <1>5, <1>7

-----------------------------------------------------------------------------
(* The id of a successor.                                                  *)

\* _free_successor_id: whatever ids are taken, it finds one that is not, and
\* it is a version of the same claim.
LEMMA FreeSuccessorIsFree ==
    ASSUME NEW id \in Nat \X Nat, NEW taken, IsFiniteSet(taken)
    PROVE  /\ FreeSuccessorId(id, taken) \in Nat \X Nat
           /\ FreeSuccessorId(id, taken) \notin taken
           /\ FreeSuccessorId(id, taken)[1] = id[1]
           /\ FreeSuccessorId(id, taken)[2] > id[2]
<1> DEFINE range == (id[2] + 1) .. (id[2] + 1 + Cardinality(taken))
           free  == {n \in range : <<id[1], n>> \notin taken}
<1>1. Cardinality(taken) \in Nat
  BY FS_CardinalityType
<1>2. free # {}
  <2>1. SUFFICES ASSUME free = {} PROVE FALSE
    OBVIOUS
  <2> DEFINE f == [n \in range |-> <<id[1], n>>]
  <2>2. f \in [range -> taken]
    BY <2>1
  <2>3. IsFiniteSet(range) /\ Cardinality(range) = Cardinality(taken) + 1
    <3>1. id[2] + 1 \in Int /\ id[2] + 1 + Cardinality(taken) \in Int
      BY <1>1
    <3>2. (id[2] + 1 + Cardinality(taken)) - (id[2] + 1) + 1 = Cardinality(taken) + 1
          /\ ~(id[2] + 1 > id[2] + 1 + Cardinality(taken))
      BY <1>1
    <3> QED
      BY <3>1, <3>2, FS_Interval
  <2>4. \E x, y \in range : x # y /\ f[x] = f[y]
    <3> HIDE DEF f, range
    <3> QED BY <1>1, <2>2, <2>3, FS_PigeonHole
  <2> QED
    BY <2>4
<1>3. free \in SUBSET Nat
  BY <1>1
<1>4. \E n \in free : \A m \in free : n <= m
  <2> HIDE DEF free
  <2> QED BY <1>2, <1>3, LeastNatural
<1> DEFINE n == CHOOSE n \in free : \A m \in free : n <= m
<1>5. n \in free
  <2> HIDE DEF free
  <2> QED BY <1>4
<1>6. FreeSuccessorId(id, taken) = <<id[1], n>>
  BY DEF FreeSuccessorId
<1>7. n \in Nat /\ n > id[2] /\ <<id[1], n>> \notin taken
  BY <1>1, <1>5
<1> QED
  <2> HIDE DEF n
  <2> QED BY <1>6, <1>7

-----------------------------------------------------------------------------
(* The states a round can leave a claim in.                                *)

\* The decision table gives every claim one of the states a claim may be in,
\* and never discards: only the comparison with the round before does that.
LEMMA StateForType ==
    ASSUME NEW origin, NEW votes, NEW roster, NEW now, NEW maxRounds, NEW silent \in BOOLEAN
    PROVE  StateFor(origin, votes, roster, now, maxRounds, silent) \in ClaimStates \ {Discarded}
  BY DEF StateFor, ClaimStates, TerminalStates, SettledUpheld, SettledRefuted, Superseded,
         Contested, Deadlocked, Unproven, Incomplete, Discarded

\* A claim is superseded only on a rewrite: some friend of the roster worded
\* one, and it is that judge's newest word.
LEMMA SupersededOnARewrite ==
    ASSUME NEW origin, NEW votes, NEW roster, NEW now, NEW maxRounds, NEW silent \in BOOLEAN,
           StateFor(origin, votes, roster, now, maxRounds, silent) = Superseded
    PROVE  \E v \in LatestPerJudge({w \in votes : w.judge \in roster}) : v.kind = "amended"
<1> DEFINE judges  == JudgesFor(origin, roster)
           decided == Dispositive(LatestPerJudge({v \in votes : v.judge \in judges}))
<1>1. {v.kind : v \in decided} = {"amended"}
  BY DEF StateFor, SettledUpheld, SettledRefuted, Superseded, Contested, Deadlocked, Unproven,
         Incomplete
<1>2. PICK v \in decided : v.kind = "amended"
  BY <1>1
<1>3. v \in LatestPerJudge({w \in votes : w.judge \in roster})
  BY <1>2 DEF Dispositive, LatestPerJudge, JudgesFor
<1> QED
  BY <1>2, <1>3

-----------------------------------------------------------------------------
(* Votes and judges: counting the one counts the other.                    *)

\* The votes a claim is decided by, out of all the votes on it.
Deciding(origin, votes, roster) ==
    Dispositive(LatestPerJudge({v \in votes : v.judge \in JudgesFor(origin, roster)}))

\* A smaller bench never needs the larger quorum.
LEMMA QuorumMonotone ==
    ASSUME NEW T, IsFiniteSet(T), NEW S \in SUBSET T
    PROVE  QuorumFor(S) <= QuorumFor(T)
<1>1. Cardinality(S) \in Nat /\ Cardinality(T) \in Nat /\ Cardinality(S) <= Cardinality(T)
  BY FS_Subset, FS_CardinalityType
<1> QED
  BY <1>1 DEF QuorumFor

\* When no judge voted twice in a round, there are at least as many judges
\* behind the deciding votes as there are deciding votes.
LEMMA DecidingVotesAreJudges ==
    ASSUME NEW origin, NEW votes, NEW roster, IsFiniteSet(roster),
           \A v \in votes : v.round \in Nat,
           \A v, w \in votes : v.judge = w.judge /\ v.round = w.round => v = w
    PROVE  LET decided == Deciding(origin, votes, roster)
               behind  == {v.judge : v \in decided}
           IN  /\ behind \subseteq JudgesFor(origin, roster)
               /\ IsFiniteSet(behind)
               /\ Cardinality(decided) \in Nat /\ Cardinality(decided) <= Cardinality(behind)
<1> DEFINE decided == Deciding(origin, votes, roster)
           behind  == {v.judge : v \in decided}
           judgeOf == [v \in decided |-> v.judge]
<1>1. \A v \in decided : /\ v \in votes /\ v.judge \in JudgesFor(origin, roster)
                          /\ \A w \in decided : w.judge = v.judge => w.round <= v.round
  BY DEF Deciding, Dispositive, LatestPerJudge
<1>2. behind \in SUBSET roster
  BY <1>1 DEF JudgesFor
<1>3. IsFiniteSet(behind)
  <2> HIDE DEF behind
  <2> QED BY <1>2, FS_Subset
<1>4. \A v, w \in decided : v.judge = w.judge => v = w
  <2> SUFFICES ASSUME NEW v \in decided, NEW w \in decided, v.judge = w.judge PROVE v = w
    OBVIOUS
  <2>1. v \in votes /\ w \in votes /\ w.round <= v.round /\ v.round <= w.round
    BY <1>1
  <2>2. v.round = w.round
    BY <2>1
  <2> QED
    BY <2>1, <2>2
<1>5. judgeOf \in Injection(decided, behind)
  <2>1. judgeOf \in [decided -> behind]
    OBVIOUS
  <2>2. \A v, w \in decided : judgeOf[v] = judgeOf[w] => v = w
    BY <1>4
  <2> QED
    BY <2>1, <2>2 DEF Injection, IsInjective
<1>6. IsFiniteSet(decided) /\ Cardinality(decided) <= Cardinality(behind)
  <2> HIDE DEF decided, behind, judgeOf
  <2> QED BY <1>3, <1>5, FS_Injection
<1>7. Cardinality(decided) \in Nat
  <2> HIDE DEF decided
  <2> QED BY <1>6, FS_CardinalityType
<1> QED
  BY <1>1, <1>3, <1>6, <1>7

\* What settling a claim takes: a quorum of deciding votes that all say the
\* same, and for a refutation two judges that could have voted.
LEMMA SettledTakesAQuorum ==
    ASSUME NEW origin, NEW votes, NEW roster, NEW now, NEW maxRounds, NEW silent \in BOOLEAN,
           NEW state \in {SettledUpheld, SettledRefuted},
           StateFor(origin, votes, roster, now, maxRounds, silent) = state
    PROVE  LET decided == Deciding(origin, votes, roster)
               judges  == JudgesFor(origin, roster)
           IN  /\ ~(Cardinality(decided) < QuorumFor(judges))
               /\ {v.kind : v \in decided} = {IF state = SettledUpheld THEN "upheld" ELSE "refuted"}
               /\ state = SettledRefuted => Cardinality(judges) > 1
<1>1. state \in {SettledUpheld, SettledRefuted} /\ SettledUpheld # SettledRefuted
  BY DEF SettledUpheld, SettledRefuted
<1> QED
  BY <1>1 DEF StateFor, Deciding, SettledUpheld, SettledRefuted, Superseded, Contested, Deadlocked,
     Unproven, Incomplete

-----------------------------------------------------------------------------
(* The inductive invariant.                                                *)

\* What ties the variables together, and with TypeOK is inductive.
Bookkeeping ==
    /\ IsFiniteSet(DOMAIN claims)
    /\ NoClaim \notin DOMAIN claims
    /\ \A v \in verdicts : v.claim \in DOMAIN claims
    /\ unsettled \subseteq OpenClaims
    /\ pc = "collect" => queue # {} /\ OpenClaims # {}
    /\ pc = "settle" => unsettled # {}
    /\ pc # "collect" => queue = {}

Inv == TypeOK /\ Bookkeeping

-----------------------------------------------------------------------------
(* The value every step computes.                                          *)

\* The tracker of a friend stays a tracker, whatever it answers.
LEMMA RecordedType ==
    ASSUME NEW t \in [last : Reasons \union {NoFailure}, count : Nat, disabled : BOOLEAN],
           NEW failure \in Reasons \union {NoFailure}
    PROVE  Recorded(t, failure)
             \in [last : Reasons \union {NoFailure}, count : Nat, disabled : BOOLEAN]
<1>1. CASE failure = NoFailure
  BY <1>1 DEF Recorded
<1>2. CASE failure # NoFailure /\ failure # t.last
  BY <1>2 DEF Recorded
<1>3. CASE failure # NoFailure /\ failure = t.last
  <2>1. (t.disabled \/ t.count + 1 >= 2) \in BOOLEAN
    OBVIOUS
  <2>2. Recorded(t, failure) = [last |-> t.last, count |-> t.count + 1,
                                disabled |-> (t.disabled \/ t.count + 1 >= 2)]
    BY <1>3 DEF Recorded
  <2> QED
    BY <2>1, <2>2
<1> QED
  BY <1>1, <1>2, <1>3

\* A judge's accepted votes are its own, of this round, on claims it was shown.
LEMMA AcceptedType ==
    ASSUME TypeOK, NEW f \in Friends, NEW payload \in Payloads, NEW v \in Accepted(f, payload)
    PROVE  /\ v \in VoteType
           /\ v.claim \in Slice(f)
           /\ v.judge = f
           /\ v.round = round
<1>1. PICK c \in (DOMAIN payload) \intersect Slice(f) :
        v = Downgraded([claim |-> c, judge |-> f, round |-> round, kind |-> payload[c].kind,
                        evidence |-> payload[c].evidence, wording |-> payload[c].wording,
                        counter |-> payload[c].counter])
  BY DEF Accepted
<1>2. payload[c] \in BallotType
  BY AnswerAssumption DEF Payloads
<1>3. c \in Ids /\ c \in Slice(f) /\ round \in Nat
  BY DEF TypeOK, Slice, OpenClaims, Ids
<1> QED
  BY <1>1, <1>2, <1>3 DEF Downgraded, VoteType, BallotType, Kinds, DispositiveKinds,
     NonDispositiveKinds

\* The first unsettled claim is one of them.
LEMMA NextUnsettledIsUnsettled ==
    ASSUME TypeOK, unsettled # {}
    PROVE  NextUnsettled \in unsettled
<1>1. unsettled \in SUBSET (Nat \X Nat)
  BY DEF TypeOK, Ids
<1> QED
  BY <1>1, FirstClaim DEF NextUnsettled

\* What settling a claim does to the claims and the states, in one place:
\* it touches the state of that claim, adds at most a new one, and keeps the
\* rest.
LEMMA SettleFacts ==
    ASSUME Inv, NEW c \in unsettled, Settle(c)
    PROVE  /\ DOMAIN claims \subseteq DOMAIN claims'
           /\ \A d \in DOMAIN claims : claims'[d] = claims[d]
           /\ \A d \in DOMAIN claims \ {c} : states'[d] = states[d]
           /\ DOMAIN states' = DOMAIN claims'
           /\ DOMAIN signatures' = DOMAIN claims'
           /\ states' \in [DOMAIN claims' -> ClaimStates]
           /\ DOMAIN claims' \subseteq Ids
           /\ IsFiniteSet(DOMAIN claims') /\ NoClaim \notin DOMAIN claims'
           /\ \A d \in DOMAIN claims' :
                claims'[d] \in ClaimType
<1> DEFINE s == FreeSuccessorId(c, DOMAIN claims)
<1>1. c \in DOMAIN claims /\ c \in Nat \X Nat /\ DOMAIN states = DOMAIN claims
      /\ DOMAIN signatures = DOMAIN claims /\ IsFiniteSet(DOMAIN claims)
  BY DEF Inv, TypeOK, Bookkeeping, Ids
<1>2. s \in Nat \X Nat /\ s \notin DOMAIN claims /\ s[2] > c[2]
  BY <1>1, FreeSuccessorIsFree
<1>3. DecidedState(c) \in ClaimStates \ {Discarded}
  BY StateForType DEF DecidedState
<1>4. SettledState(c) \in ClaimStates
  BY <1>3 DEF SettledState, ClaimStates, TerminalStates
<1>5. CASE SettledState(c) # Superseded
  <2>1. states' = [states EXCEPT ![c] = SettledState(c)]
        /\ signatures' = [signatures EXCEPT ![c] = RememberedSignature(c)]
        /\ claims' = claims
    BY <1>5 DEF Settle
  <2> QED
    BY <1>1, <1>4, <2>1 DEF Inv, TypeOK, Bookkeeping
<1>6. CASE SettledState(c) = Superseded
  <2>1. /\ claims' = With(claims, s, Successor(c, claims[c].origin, Amendments(c), round))
        /\ states' = With([states EXCEPT ![c] = Superseded], s, SuccessorState)
        /\ signatures' = With([signatures EXCEPT ![c] = RememberedSignature(c)], s, {})
    BY <1>6 DEF Settle
  <2>2. /\ DOMAIN claims' = DOMAIN claims \union {s}
        /\ DOMAIN states' = DOMAIN claims \union {s}
        /\ DOMAIN signatures' = DOMAIN claims \union {s}
    BY <1>1, <2>1 DEF With
  <2>3. /\ \A d \in DOMAIN claims : claims'[d] = claims[d]
        /\ claims'[s] = Successor(c, claims[c].origin, Amendments(c), round)
        /\ \A d \in DOMAIN claims \ {c} : states'[d] = states[d]
        /\ states'[c] = Superseded
        /\ states'[s] = SuccessorState
    BY <1>1, <1>2, <2>1 DEF With
  <2>4. states' \in [DOMAIN claims' -> ClaimStates]
    <3>1. SuccessorState \in ClaimStates /\ Superseded \in ClaimStates
      BY DEF SuccessorState, ClaimStates, TerminalStates
    <3>2. states' = [d \in DOMAIN claims' |-> states'[d]]
      BY <1>1, <2>1, <2>2 DEF With
    <3>3. \A d \in DOMAIN claims' : states'[d] \in ClaimStates
      BY <1>1, <2>2, <2>3, <3>1 DEF Inv, TypeOK
    <3> QED
      BY <3>2, <3>3
  <2>5. DOMAIN claims' \subseteq Ids /\ NoClaim \notin DOMAIN claims'
    <3>1. s # NoClaim
      BY <1>1, <1>2 DEF NoClaim
    <3> QED
      BY <1>1, <1>2, <2>2, <3>1 DEF Inv, TypeOK, Bookkeeping, Ids
  <2>6. IsFiniteSet(DOMAIN claims')
    BY <1>1, <2>2, FS_AddElement
  <2>7. claims'[s] \in ClaimType
    <3>1. DecidedState(c) = Superseded
      BY <1>6 DEF SettledState, Discarded, Superseded
    <3>2. \E v \in Amendments(c) : TRUE
      <4> DEFINE silent == \E f \in Roster : <<c, f>> \in missing
      <4>1. silent \in BOOLEAN
        OBVIOUS
      <4>2. StateFor(claims[c].origin, VotesOn(c), Roster, round, LastRound, silent) = Superseded
        BY <3>1 DEF DecidedState
      <4>3. \E v \in LatestPerJudge({w \in VotesOn(c) : w.judge \in Roster}) : v.kind = "amended"
        <5> HIDE DEF silent
        <5> QED BY <4>1, <4>2, SupersededOnARewrite
      <4> QED
        BY <4>3 DEF Amendments
    <3>3. Amendments(c) \subseteq VoteType
      BY DEF Inv, TypeOK, Amendments, LatestPerJudge, VotesOn
    <3>4. Normalized((CHOOSE v \in Amendments(c) : TRUE).wording) \in STRING
      BY <3>2, <3>3 DEF Normalized, VoteType
    <3>5. {v.judge : v \in Amendments(c)} \subseteq Friends
      BY <3>3 DEF VoteType
    <3>6. claims[c].origin \subseteq Friends /\ round \in Nat /\ c \in Ids
      BY <1>1 DEF Inv, TypeOK, Ids, ClaimType
    <3> DEFINE text == Normalized((CHOOSE v \in Amendments(c) : TRUE).wording)
    <3>7. claims'[s] = [origin |-> claims[c].origin \union {v.judge : v \in Amendments(c)},
                        supersedes |-> c, round |-> round, text |-> text]
      BY <2>3 DEF Successor
    <3> HIDE DEF text
    <3>8. claims[c].origin \union {v.judge : v \in Amendments(c)} \in SUBSET Friends
      BY <3>5, <3>6
    <3>9. text \in STRING
      BY <3>4 DEF text
    <3> QED
      BY <3>6, <3>7, <3>8, <3>9 DEF ClaimType
  <2> QED
    BY <1>1, <2>2, <2>3, <2>4, <2>5, <2>6, <2>7 DEF Inv, TypeOK
<1> QED
  BY <1>5, <1>6

-----------------------------------------------------------------------------
(* The invariant is inductive.                                             *)

\* What the critique round leaves satisfies it.
LEMMA InitInv == Init => Inv
<1> SUFFICES ASSUME Init PROVE Inv
  OBVIOUS
<1>1. \A c \in DOMAIN claims :
        claims[c] \in ClaimType
  <2> SUFFICES ASSUME NEW c \in DOMAIN claims
               PROVE  claims[c] \in ClaimType
    OBVIOUS
  <2>1. c \in DOMAIN Critique /\ claims[c] = [origin |-> Critique[c], supersedes |-> NoClaim,
                                              round |-> 1, text |-> AsRaised]
    BY DEF Init
  <2>2. Critique[c] \subseteq Friends
    BY <2>1, CritiqueAssumption
  <2>3. NoClaim \in Ids
    BY DEF Ids, NoClaim
  <2> QED
    BY <2>1, <2>2, <2>3 DEF ClaimType
<1>2. states \in [DOMAIN claims -> ClaimStates]
  BY DEF Init, ClaimStates
<1>3. tracker \in [Friends -> [last : Reasons \union {NoFailure}, count : Nat, disabled : BOOLEAN]]
  BY DEF Init
<1>4. iteration \in 1 .. MaxIterations
  BY BoundsAssumption DEF Init
<1>5. DOMAIN claims \subseteq Ids /\ IsFiniteSet(DOMAIN claims) /\ NoClaim \notin DOMAIN claims
      /\ DOMAIN signatures = DOMAIN claims
  BY CritiqueAssumption, SentinelAssumption DEF Init, Ids
<1> QED
  BY <1>1, <1>2, <1>3, <1>4, <1>5 DEF Init, Inv, TypeOK, Bookkeeping

\* Leaving the loop, in any of its five ways.
LEMMA LeaveInv ==
    ASSUME Inv, pc = "round", NEW why,
           why \in {"rounds", "interrupted", "resolved", "budget-exhausted"}, Leave(why)
    PROVE  Inv'
  BY DEF Inv, TypeOK, Bookkeeping, Leave, recordVars, roundVars, OpenClaims

\* Reading a result: what is left of the round is consistent.
LEMMA ReadInv ==
    ASSUME Inv, NEW f \in Friends, pc = "collect", f = NextResult, Read(f),
           UNCHANGED <<claims, states, active>>
    PROVE  /\ f \in queue
           /\ queue' \subseteq active' /\ pc' \in {"collect", "settle"}
           /\ unsettled' \subseteq OpenClaims' /\ unsettled' \subseteq DOMAIN claims'
           /\ pc' = "collect" => queue' # {} /\ OpenClaims' # {}
           /\ pc' = "settle" => unsettled' # {} /\ queue' = {}
  BY DEF Inv, TypeOK, Bookkeeping, NextResult, Read, OpenClaims

\* Reading a judge's answer.
LEMMA AnswerInv ==
    ASSUME Inv, NEW f \in Friends, NEW payload \in Payloads, Answer(f, payload)
    PROVE  Inv'
<1>1. /\ pc = "collect" /\ f = NextResult /\ Read(f)
      /\ UNCHANGED <<iteration, round, stop, claims, states, signatures, active, interrupted>>
  BY DEF Answer
<1>2. verdicts' \subseteq VoteType /\ \A v \in verdicts' : v.claim \in DOMAIN claims'
  <2>1. \A v \in Accepted(f, payload) : v \in VoteType /\ v.claim \in DOMAIN claims
    BY AcceptedType DEF Inv, TypeOK, Slice, OpenClaims
  <2> QED
    BY <1>1, <2>1 DEF Answer, Inv, TypeOK, Bookkeeping
<1>3. tracker' \in [Friends -> [last : Reasons \union {NoFailure}, count : Nat, disabled : BOOLEAN]]
  <2>1. Recorded(tracker[f], NoFailure)
          \in [last : Reasons \union {NoFailure}, count : Nat, disabled : BOOLEAN]
    BY RecordedType DEF Inv, TypeOK
  <2> QED
    BY <2>1 DEF Answer, Inv, TypeOK
<1>4. missing' \subseteq (DOMAIN claims') \X Friends
  BY <1>1 DEF Answer, Inv, TypeOK, NeverReported, Slice, OpenClaims
<1>5. incomplete' \in BOOLEAN /\ calls' \in Nat
  BY DEF Answer, Inv, TypeOK
<1>6. /\ queue' \subseteq active' /\ pc' \in {"collect", "settle"}
      /\ unsettled' \subseteq OpenClaims' /\ unsettled' \subseteq DOMAIN claims'
      /\ pc' = "collect" => queue' # {} /\ OpenClaims' # {}
      /\ pc' = "settle" => unsettled' # {} /\ queue' = {}
  BY <1>1, ReadInv DEF recordVars
<1>7. TypeOK'
  BY <1>1, <1>2, <1>3, <1>4, <1>5, <1>6 DEF Inv, TypeOK
<1>8. Bookkeeping'
  BY <1>1, <1>2, <1>3, <1>4, <1>5, <1>6 DEF Inv, Bookkeeping
<1> QED
  BY <1>7, <1>8 DEF Inv

\* Reading a failure.
LEMMA FailInv ==
    ASSUME Inv, NEW f \in Friends, NEW reason \in Reasons, Fail(f, reason)
    PROVE  Inv'
<1>1. /\ pc = "collect" /\ f = NextResult /\ Read(f)
      /\ UNCHANGED <<iteration, round, recordVars, active>>
  BY DEF Fail
<1>2. tracker' \in [Friends -> [last : Reasons \union {NoFailure}, count : Nat, disabled : BOOLEAN]]
  <2>1. Recorded(tracker[f], reason)
          \in [last : Reasons \union {NoFailure}, count : Nat, disabled : BOOLEAN]
    BY RecordedType DEF Inv, TypeOK
  <2> QED
    BY <2>1 DEF Fail, Inv, TypeOK
<1>3. missing' \subseteq (DOMAIN claims') \X Friends
  BY <1>1 DEF Fail, Inv, TypeOK, NeverReported, Slice, OpenClaims, recordVars
<1>4. incomplete' \in BOOLEAN /\ calls' \in Nat /\ interrupted' \in BOOLEAN
      /\ stop' \in {"none", "rounds", "interrupted", "resolved", "unjudgeable",
                    "budget-exhausted", "auth", "dispatch-error"}
  BY DEF Fail, Inv, TypeOK, StopAfter
<1>5. /\ queue' \subseteq active' /\ pc' \in {"collect", "settle"}
      /\ unsettled' \subseteq OpenClaims' /\ unsettled' \subseteq DOMAIN claims'
      /\ pc' = "collect" => queue' # {} /\ OpenClaims' # {}
      /\ pc' = "settle" => unsettled' # {} /\ queue' = {}
  BY <1>1, ReadInv DEF recordVars
<1>6. TypeOK'
  BY <1>1, <1>2, <1>3, <1>4, <1>5 DEF Inv, TypeOK, recordVars
<1>7. Bookkeeping'
  BY <1>1, <1>2, <1>3, <1>4, <1>5 DEF Inv, Bookkeeping, recordVars
<1> QED
  BY <1>6, <1>7 DEF Inv

\* A friend the abort reached before it started.
LEMMA WithholdInv ==
    ASSUME Inv, NEW f \in Friends, Withhold(f)
    PROVE  Inv'
<1>1. /\ pc = "collect" /\ f = NextResult /\ Read(f)
      /\ UNCHANGED <<iteration, round, stop, recordVars, tracker, calls, active, interrupted>>
  BY DEF Withhold
<1>2. missing' \subseteq (DOMAIN claims') \X Friends
  BY <1>1 DEF Withhold, Inv, TypeOK, NeverReported, Slice, OpenClaims, recordVars
<1>3. incomplete' \in BOOLEAN
  BY DEF Withhold, Inv, TypeOK
<1>4. /\ queue' \subseteq active' /\ pc' \in {"collect", "settle"}
      /\ unsettled' \subseteq OpenClaims' /\ unsettled' \subseteq DOMAIN claims'
      /\ pc' = "collect" => queue' # {} /\ OpenClaims' # {}
      /\ pc' = "settle" => unsettled' # {} /\ queue' = {}
  BY <1>1, ReadInv DEF recordVars
<1>5. TypeOK'
  BY <1>1, <1>2, <1>3, <1>4 DEF Inv, TypeOK, recordVars
<1>6. Bookkeeping'
  BY <1>1, <1>2, <1>3, <1>4 DEF Inv, Bookkeeping, recordVars
<1> QED
  BY <1>5, <1>6 DEF Inv

\* Opening a round, to dispatch it or to settle what nobody can judge.
LEMMA OpenRoundInv ==
    ASSUME Inv, Dispatch \/ Unjudgeable
    PROVE  Inv'
<1>1. Dispatchable \subseteq Friends /\ JudgesToAsk \subseteq Dispatchable
  BY DEF Dispatchable, JudgesToAsk
<1>2. OpenClaims # {} /\ OpenClaims \subseteq DOMAIN claims /\ pc = "round"
  BY DEF Dispatch, Unjudgeable, Judging, OpenClaims, Inv, TypeOK
<1>3. CASE Dispatch
  BY <1>1, <1>2, <1>3 DEF Dispatch, Inv, TypeOK, Bookkeeping, OpenClaims, recordVars
<1>4. CASE Unjudgeable
  <2>1. queue' = queue /\ active' = Dispatchable /\ JudgesToAsk = {}
    BY <1>4 DEF Unjudgeable
  <2> QED
    BY <1>1, <1>2, <1>4, <2>1 DEF Unjudgeable, Inv, TypeOK, Bookkeeping, OpenClaims, recordVars
<1> QED
  BY <1>3, <1>4

\* Settling a claim, and with the last of them the round.
LEMMA SettleClaimInv ==
    ASSUME Inv, SettleClaim
    PROVE  Inv'
<1> DEFINE c == NextUnsettled
<1>1. /\ pc = "settle" /\ Settle(c) /\ unsettled' = unsettled \ {c}
      /\ UNCHANGED <<iteration, stop, verdicts, tracker, calls, incomplete, active, queue, interrupted>>
  BY DEF SettleClaim
<1>2. unsettled # {} /\ queue = {}
  BY <1>1 DEF Inv, Bookkeeping
<1>3. c \in unsettled
  BY <1>2, NextUnsettledIsUnsettled DEF Inv
<1> HIDE DEF c
<1>4. /\ DOMAIN claims \subseteq DOMAIN claims'
      /\ \A d \in DOMAIN claims : claims'[d] = claims[d]
      /\ \A d \in DOMAIN claims \ {c} : states'[d] = states[d]
      /\ DOMAIN states' = DOMAIN claims'
      /\ DOMAIN signatures' = DOMAIN claims'
      /\ states' \in [DOMAIN claims' -> ClaimStates]
      /\ DOMAIN claims' \subseteq Ids
      /\ IsFiniteSet(DOMAIN claims') /\ NoClaim \notin DOMAIN claims'
      /\ \A d \in DOMAIN claims' :
           claims'[d] \in ClaimType
  BY <1>1, <1>3, SettleFacts
<1>5. unsettled' \subseteq OpenClaims' /\ unsettled' \subseteq DOMAIN claims'
  <2> SUFFICES ASSUME NEW d \in unsettled'
               PROVE  d \in DOMAIN claims' /\ d \in DOMAIN states' /\ states'[d] \notin TerminalStates
    BY DEF OpenClaims
  <2>1. d \in unsettled /\ d # c
    BY <1>1
  <2>2. d \in DOMAIN claims /\ states[d] \notin TerminalStates
    BY <2>1 DEF Inv, TypeOK, Bookkeeping, OpenClaims
  <2> QED
    BY <1>4, <2>1, <2>2
<1>6. /\ round' \in Nat /\ pc' \in {"round", "settle", "stopped"}
      /\ pc' = "settle" => unsettled' # {}
      /\ missing' \subseteq missing
  <2>1. CASE unsettled # {c}
    <3>1. UNCHANGED <<round, pc, missing>>
      BY <2>1 DEF SettleClaim, c
    <3>2. unsettled' # {}
      BY <1>1, <1>2, <2>1
    <3> QED
      BY <1>1, <3>1, <3>2 DEF Inv, TypeOK
  <2>2. CASE unsettled = {c}
    <3>1. /\ missing' = {}
          /\ IF stop = "none" THEN pc' = "round" /\ round' = round + 1
             ELSE pc' = "stopped" /\ round' = round
      BY <2>2 DEF SettleClaim, c
    <3>2. round \in Nat
      BY DEF Inv, TypeOK
    <3> QED
      BY <3>1, <3>2
  <2> QED
    BY <2>1, <2>2
<1>7. missing' \subseteq (DOMAIN claims') \X Friends
  BY <1>4, <1>6 DEF Inv, TypeOK
<1>8. TypeOK'
  BY <1>1, <1>4, <1>5, <1>6, <1>7 DEF Inv, TypeOK
<1>9. Bookkeeping'
  BY <1>1, <1>2, <1>4, <1>5, <1>6 DEF Inv, Bookkeeping
<1> QED
  BY <1>8, <1>9 DEF Inv

\* Every step keeps the invariant.
LEMMA NextInv == Inv /\ [Next]_vars => Inv'
<1> SUFFICES ASSUME Inv, [Next]_vars PROVE Inv'
  OBVIOUS
<1>1. CASE RoundsOver
  BY <1>1, LeaveInv DEF RoundsOver
<1>2. CASE Interrupted
  BY <1>2, LeaveInv DEF Interrupted
<1>3. CASE AllTerminal
  BY <1>3, LeaveInv DEF AllTerminal
<1>4. CASE ExhaustCalls \/ ExhaustTime
  BY <1>4, LeaveInv DEF ExhaustCalls, ExhaustTime, Judging
<1>5. CASE Dispatch \/ Unjudgeable
  BY <1>5, OpenRoundInv
<1>6. CASE \E f \in Friends : \E payload \in Payloads : Answer(f, payload)
  BY <1>6, AnswerInv
<1>7. CASE \E f \in Friends : \E reason \in Reasons : Fail(f, reason)
  BY <1>7, FailInv
<1>8. CASE \E f \in Friends : Withhold(f)
  BY <1>8, WithholdInv
<1>9. CASE SettleClaim
  BY <1>9, SettleClaimInv
<1>10. CASE Interrupt
  BY <1>10 DEF Interrupt, Inv, TypeOK, Bookkeeping, OpenClaims, recordVars, roundVars
<1>11. CASE UNCHANGED vars
  BY <1>11 DEF vars, Inv, TypeOK, Bookkeeping, OpenClaims, recordVars, roundVars
<1> QED
  BY <1>1, <1>2, <1>3, <1>4, <1>5, <1>6, <1>7, <1>8, <1>9, <1>10, <1>11 DEF Next

\* The bookkeeping invariant holds of every state the rounds reach.
THEOREM InvHolds == Spec => []Inv
<1>1. Init => Inv
  BY InitInv
<1>2. Inv /\ [Next]_vars => Inv'
  BY NextInv
<1> QED
  BY <1>1, <1>2, PTL DEF Spec

\* Every variable of run_rounds keeps its type: in particular the id of a
\* successor is a well-formed claim id, and no vote, signature or silence is
\* ever recorded against a claim that does not exist.
THEOREM TypeCorrect == Spec => []TypeOK
<1>1. Inv => TypeOK
  BY DEF Inv
<1> QED
  BY <1>1, InvHolds, PTL

-----------------------------------------------------------------------------
(* No author judges its own claim.                                         *)

\* No step changes a claim, its origin included, or forgets one.
LEMMA OriginsKept ==
    ASSUME Inv, [Next]_vars
    PROVE  /\ DOMAIN claims \subseteq DOMAIN claims'
           /\ \A d \in DOMAIN claims : claims'[d] = claims[d]
<1>1. CASE SettleClaim
  <2>1. Settle(NextUnsettled) /\ unsettled # {}
    BY <1>1 DEF SettleClaim, Inv, Bookkeeping
  <2>2. NextUnsettled \in unsettled
    BY <2>1, NextUnsettledIsUnsettled DEF Inv
  <2> QED
    BY <2>1, <2>2, SettleFacts
<1>2. CASE ~SettleClaim
  <2>1. UNCHANGED claims
    BY <1>2 DEF Next, vars, recordVars, RoundsOver, Interrupted, AllTerminal, ExhaustCalls,
       ExhaustTime, Leave, Dispatch, Unjudgeable, Answer, Fail, Withhold, Interrupt
  <2> QED
    BY <2>1
<1> QED
  BY <1>1, <1>2

\* A new vote is on a claim of its judge's slice.
LEMMA VotesOnlyInSlices ==
    ASSUME Inv, [Next]_vars, NEW v \in verdicts', v \notin verdicts
    PROVE  \E f \in Friends : v.judge = f /\ v.claim \in Slice(f)
<1>1. PICK f \in Friends, payload \in Payloads : Answer(f, payload)
  BY DEF Next, vars, recordVars, RoundsOver, Interrupted, AllTerminal, ExhaustCalls,
     ExhaustTime, Leave, Dispatch, Unjudgeable, Fail, Withhold, Interrupt, SettleClaim
<1>2. v \in Accepted(f, payload)
  BY <1>1 DEF Answer
<1> QED
  BY <1>2, AcceptedType DEF Inv

\* For every roster and every set of claims, no vote is ever recorded on a
\* claim by one of its authors - those of a unanimous rewrite included.
THEOREM NoAuthorJudges == Spec => []AuthorsNeverJudge
<1>1. Init => AuthorsNeverJudge
  BY DEF Init, AuthorsNeverJudge
<1>2. Inv /\ AuthorsNeverJudge /\ [Next]_vars => AuthorsNeverJudge'
  <2> SUFFICES ASSUME Inv, AuthorsNeverJudge, [Next]_vars, NEW v \in verdicts'
               PROVE  v.judge \notin claims'[v.claim].origin
    BY DEF AuthorsNeverJudge
  <2>1. CASE v \in verdicts
    <3>1. v.claim \in DOMAIN claims /\ v.judge \notin claims[v.claim].origin
      BY <2>1 DEF AuthorsNeverJudge, Inv, Bookkeeping
    <3> QED
      BY <3>1, OriginsKept
  <2>2. CASE v \notin verdicts
    <3>1. PICK f \in Friends : v.judge = f /\ v.claim \in Slice(f)
      BY <2>2, VotesOnlyInSlices
    <3>2. v.claim \in DOMAIN claims /\ v.judge \notin claims[v.claim].origin
      BY <3>1 DEF Slice, OpenClaims, Inv, TypeOK
    <3> QED
      BY <3>2, OriginsKept
  <2> QED
    BY <2>1, <2>2
<1> QED
  BY <1>1, <1>2, InvHolds, PTL DEF Spec

-----------------------------------------------------------------------------
(* A settled claim stays settled.                                          *)

\* No step changes the state of a terminal claim or adds a vote on it.
LEMMA TerminalKept ==
    ASSUME Inv, [Next]_vars, NEW c \in DOMAIN states, states[c] \in TerminalStates
    PROVE  /\ states'[c] = states[c]
           /\ {v \in verdicts' : v.claim = c} = {v \in verdicts : v.claim = c}
<1>1. c \in DOMAIN claims /\ c \notin OpenClaims
  BY DEF Inv, TypeOK, OpenClaims
<1>2. states'[c] = states[c]
  <2>1. CASE SettleClaim
    <3>1. Settle(NextUnsettled) /\ unsettled # {}
      BY <2>1 DEF SettleClaim, Inv, Bookkeeping
    <3>2. NextUnsettled \in unsettled
      BY <3>1, NextUnsettledIsUnsettled DEF Inv
    <3>3. NextUnsettled # c
      BY <3>2, <1>1 DEF Inv, Bookkeeping
    <3> QED
      BY <1>1, <3>1, <3>2, <3>3, SettleFacts
  <2>2. CASE ~SettleClaim
    <3>1. UNCHANGED states
      BY <2>2 DEF Next, vars, recordVars, RoundsOver, Interrupted, AllTerminal, ExhaustCalls,
         ExhaustTime, Leave, Dispatch, Unjudgeable, Answer, Fail, Withhold, Interrupt
    <3> QED
      BY <3>1
  <2> QED
    BY <2>1, <2>2
<1>3. verdicts \subseteq verdicts'
  BY DEF Next, vars, recordVars, RoundsOver, Interrupted, AllTerminal, ExhaustCalls,
     ExhaustTime, Leave, Dispatch, Unjudgeable, Answer, Fail, Withhold, Interrupt, SettleClaim
<1>4. \A v \in verdicts' : v \notin verdicts => v.claim # c
  BY <1>1, VotesOnlyInSlices DEF Slice
<1> QED
  BY <1>2, <1>3, <1>4

\* For every instance, a claim in a terminal state keeps that state and gets
\* no further vote: only open claims are put to a judge or settled.
THEOREM SettledForGood == Spec => TerminalIsFinal
<1> DEFINE Final ==
      \A c \in DOMAIN states : states[c] \in TerminalStates =>
        /\ states'[c] = states[c]
        /\ {v \in verdicts' : v.claim = c} = VotesOn(c)
<1>1. Inv /\ [Next]_vars => Final
  BY TerminalKept DEF VotesOn
<1> QED
  BY <1>1, InvHolds, PTL DEF Spec, TerminalIsFinal

-----------------------------------------------------------------------------
(* The ceiling on calls.                                                   *)

\* Inductive form: the friends still running are already paid for.
PaidFor == calls + Cardinality(queue) <= MaxCalls

\* The friends still running can be counted.
LEMMA QueueFinite ==
    ASSUME Inv
    PROVE  IsFiniteSet(queue) /\ Cardinality(queue) \in Nat
<1>1. queue \subseteq Friends
  BY DEF Inv, TypeOK
<1> QED
  BY <1>1, RosterAssumption, FS_Subset, FS_CardinalityType

\* Reading a result takes one friend off the queue.
LEMMA ReadTakesOne ==
    ASSUME Inv, NEW f \in Friends, pc = "collect", f = NextResult, Read(f)
    PROVE  Cardinality(queue') = Cardinality(queue) - 1
<1>1. f \in queue
  BY DEF Inv, Bookkeeping, NextResult
<1> QED
  BY <1>1, QueueFinite, FS_RemoveElement DEF Read

\* Every step keeps it: what a round costs is counted before it starts.
LEMMA PaidForKept == Inv /\ PaidFor /\ [Next]_vars => PaidFor'
<1> SUFFICES ASSUME Inv, PaidFor, [Next]_vars PROVE PaidFor'
  OBVIOUS
<1>1. calls \in Nat /\ Cardinality(queue) \in Nat /\ MaxCalls \in Nat
  BY QueueFinite, BoundsAssumption DEF Inv, TypeOK
<1>2. CASE Dispatch
  <2>1. calls' = calls /\ queue' = JudgesToAsk
    BY <1>2 DEF Dispatch
  <2>2. ~(calls + Cardinality(JudgesToAsk) > MaxCalls)
    BY <1>2 DEF Dispatch, WouldExceedCalls
  <2>3. JudgesToAsk \subseteq Friends
    BY DEF JudgesToAsk, Dispatchable
  <2>4. Cardinality(JudgesToAsk) \in Nat
    BY <2>3, RosterAssumption, FS_Subset, FS_CardinalityType
  <2> QED
    BY <1>1, <2>1, <2>2, <2>4 DEF PaidFor
<1>3. ASSUME NEW f \in Friends, NEW payload \in Payloads, Answer(f, payload)
      PROVE  PaidFor'
  <2>1. pc = "collect" /\ f = NextResult /\ Read(f) /\ calls' = calls + 1
    BY <1>3 DEF Answer
  <2> QED
    BY <1>1, <2>1, ReadTakesOne DEF PaidFor
<1>4. ASSUME NEW f \in Friends, NEW reason \in Reasons, Fail(f, reason)
      PROVE  PaidFor'
  <2>1. pc = "collect" /\ f = NextResult /\ Read(f) /\ calls' = calls + 1
    BY <1>4 DEF Fail
  <2> QED
    BY <1>1, <2>1, ReadTakesOne DEF PaidFor
<1>5. ASSUME NEW f \in Friends, Withhold(f)
      PROVE  PaidFor'
  <2>1. pc = "collect" /\ f = NextResult /\ Read(f) /\ calls' = calls
    BY <1>5 DEF Withhold
  <2> QED
    BY <1>1, <2>1, ReadTakesOne DEF PaidFor
<1>6. CASE UNCHANGED <<calls, queue>>
  BY <1>6 DEF PaidFor
<1> QED
  BY <1>2, <1>3, <1>4, <1>5, <1>6 DEF Next, vars, roundVars, RoundsOver, Interrupted, AllTerminal,
     ExhaustCalls, ExhaustTime, Leave, Unjudgeable, SettleClaim, Interrupt

\* Whatever the friends answer, and whenever the run is interrupted, the
\* calls made never pass --max-calls: the round about to start is counted
\* whole before any friend of it is started.
THEOREM BudgetKept == Spec => []CallsWithinBudget
<1>1. Init => PaidFor
  BY FS_EmptySet, BoundsAssumption DEF Init, PaidFor
<1>2. Inv /\ PaidFor /\ [Next]_vars => PaidFor'
  BY PaidForKept
<1>3. Inv /\ PaidFor => CallsWithinBudget
  <2> SUFFICES ASSUME Inv, PaidFor PROVE CallsWithinBudget
    OBVIOUS
  <2>1. calls \in Nat /\ Cardinality(queue) \in Nat /\ MaxCalls \in Nat
    BY QueueFinite, BoundsAssumption DEF Inv, TypeOK
  <2> QED
    BY <2>1 DEF PaidFor, CallsWithinBudget
<1> QED
  BY <1>1, <1>2, <1>3, InvHolds, PTL DEF Spec

-----------------------------------------------------------------------------
(* A friend that is out stays out.                                         *)

\* Inductive form: nobody disabled is waiting to be read.
QueueDispatchable == \A f \in queue : ~Disabled(f)

\* What a step does to the tracker and the votes of a friend that is not
\* being read: nothing.
LEMMA OnlyTheReadFriendChanges ==
    ASSUME Inv, [Next]_vars, NEW f \in Friends, tracker'[f] # tracker[f] \/
           {v \in verdicts' : v.judge = f} # {v \in verdicts : v.judge = f}
    PROVE  f \in queue /\ f \notin queue'
<1>1. ASSUME NEW g \in Friends, pc = "collect", g = NextResult, Read(g), f = g
      PROVE  f \in queue /\ f \notin queue'
  BY <1>1 DEF Inv, Bookkeeping, NextResult, Read
<1>2. ASSUME NEW g \in Friends, NEW payload \in Payloads, Answer(g, payload)
      PROVE  f \in queue /\ f \notin queue'
  <2>1. pc = "collect" /\ g = NextResult /\ Read(g)
        /\ verdicts' = verdicts \union Accepted(g, payload)
        /\ tracker' = [tracker EXCEPT ![g] = Recorded(@, NoFailure)]
    BY <1>2 DEF Answer
  <2>2. \A v \in Accepted(g, payload) : v.judge = g
    BY AcceptedType DEF Inv
  <2>3. f = g
    BY <2>1, <2>2 DEF Inv, TypeOK
  <2> QED
    BY <1>1, <2>1, <2>3
<1>3. ASSUME NEW g \in Friends, NEW reason \in Reasons, Fail(g, reason)
      PROVE  f \in queue /\ f \notin queue'
  <2>1. pc = "collect" /\ g = NextResult /\ Read(g) /\ verdicts' = verdicts
        /\ tracker' = [tracker EXCEPT ![g] = Recorded(@, reason)]
    BY <1>3 DEF Fail, recordVars
  <2>2. f = g
    BY <2>1 DEF Inv, TypeOK
  <2> QED
    BY <1>1, <2>1, <2>2
<1>4. CASE UNCHANGED <<tracker, verdicts>>
  BY <1>4
<1> QED
  BY <1>2, <1>3, <1>4 DEF Next, vars, recordVars, RoundsOver, Interrupted, AllTerminal, ExhaustCalls,
     ExhaustTime, Leave, Dispatch, Unjudgeable, Withhold, SettleClaim, Interrupt

\* Only friends that are not disabled are asked, and none is disabled while it
\* waits to be read.
LEMMA QueueDispatchableKept == Inv /\ QueueDispatchable /\ [Next]_vars => QueueDispatchable'
<1> SUFFICES ASSUME Inv, QueueDispatchable, [Next]_vars, NEW f \in queue'
             PROVE  ~tracker'[f].disabled
  BY DEF QueueDispatchable, Disabled
<1>1. CASE Dispatch
  BY <1>1 DEF Dispatch, JudgesToAsk, Dispatchable, Disabled
<1>2. CASE ~Dispatch
  <2>1. queue' \subseteq queue
    BY <1>2 DEF Next, vars, roundVars, RoundsOver, Interrupted, AllTerminal, ExhaustCalls, ExhaustTime,
       Leave, Unjudgeable, Answer, Fail, Withhold, Read, SettleClaim, Interrupt
  <2>2. f \in Friends /\ ~tracker[f].disabled
    BY <2>1 DEF Inv, TypeOK, QueueDispatchable, Disabled
  <2>3. tracker'[f] = tracker[f]
    BY <2>2, OnlyTheReadFriendChanges
  <2> QED
    BY <2>2, <2>3
<1> QED
  BY <1>1, <1>2

\* A disabled friend stays disabled, and its votes are what they were.
LEMMA DisabledKept ==
    ASSUME Inv, QueueDispatchable, [Next]_vars, NEW f \in Friends, Disabled(f)
    PROVE  /\ tracker'[f].disabled
           /\ {v \in verdicts' : v.judge = f} = {v \in verdicts : v.judge = f}
<1>1. f \notin queue
  BY DEF QueueDispatchable
<1>2. tracker'[f] = tracker[f]
      /\ {v \in verdicts' : v.judge = f} = {v \in verdicts : v.judge = f}
  BY <1>1, OnlyTheReadFriendChanges
<1> QED
  BY <1>2 DEF Disabled

\* For every instance, a friend that failed twice the same way is never
\* enabled again and never votes again: what the repeat tracker says when a
\* round is opened still holds when the last result of it is read.
THEOREM DisabledForGood == Spec => DisabledStaysOut
<1>1. Init => QueueDispatchable
  BY DEF Init, QueueDispatchable
<1> DEFINE StaysOut == \A f \in Friends : Disabled(f) =>
      /\ tracker'[f].disabled
      /\ {v \in verdicts' : v.judge = f} = {v \in verdicts : v.judge = f}
<1>2. Inv /\ QueueDispatchable /\ [Next]_vars => StaysOut
  BY DisabledKept
<1> QED
  BY <1>1, <1>2, QueueDispatchableKept, InvHolds, PTL DEF Spec, DisabledStaysOut

-----------------------------------------------------------------------------
(* One successor for a superseded claim, and none for any other.           *)

\* Inductive form: who succeeds whom, without counting.
Lineage ==
    /\ \A s \in DOMAIN claims : claims[s].supersedes # NoClaim =>
         /\ claims[s].supersedes \in DOMAIN claims
         /\ states[claims[s].supersedes] = Superseded
    /\ \A s, t \in DOMAIN claims :
         claims[s].supersedes # NoClaim /\ claims[s].supersedes = claims[t].supersedes => s = t
    /\ \A c \in DOMAIN claims : states[c] = Superseded =>
         \E s \in DOMAIN claims : claims[s].supersedes = c

\* Settling a claim as superseded adds one claim, which names it and is not
\* itself superseded; settling it any other way adds none.
LEMMA SettleLineage ==
    ASSUME Inv, NEW c \in unsettled, Settle(c)
    PROVE  \/ claims' = claims /\ states'[c] # Superseded
           \/ \E s : /\ s \notin DOMAIN claims
                     /\ DOMAIN claims' = DOMAIN claims \union {s}
                     /\ claims'[s].supersedes = c
                     /\ states'[s] # Superseded
                     /\ states'[c] = Superseded
<1>1. c \in DOMAIN claims /\ c \in Nat \X Nat /\ DOMAIN states = DOMAIN claims
      /\ IsFiniteSet(DOMAIN claims)
  BY DEF Inv, TypeOK, Bookkeeping, Ids
<1>2. CASE SettledState(c) # Superseded
  BY <1>1, <1>2 DEF Settle
<1>3. CASE SettledState(c) = Superseded
  <2> DEFINE s == FreeSuccessorId(c, DOMAIN claims)
  <2>1. s \notin DOMAIN claims
    BY <1>1, FreeSuccessorIsFree
  <2>2. /\ claims' = With(claims, s, Successor(c, claims[c].origin, Amendments(c), round))
        /\ states' = With([states EXCEPT ![c] = Superseded], s, SuccessorState)
    BY <1>3 DEF Settle
  <2>3. DOMAIN claims' = DOMAIN claims \union {s}
    BY <2>2 DEF With
  <2>4. claims'[s].supersedes = c
    BY <2>2 DEF With, Successor
  <2>5. states'[s] = SuccessorState /\ states'[c] = Superseded
    BY <1>1, <2>1, <2>2 DEF With
  <2>6. SuccessorState # Superseded
    BY DEF SuccessorState, Superseded, Incomplete, Contested
  <2> QED
    BY <2>1, <2>3, <2>4, <2>5, <2>6
<1> QED
  BY <1>2, <1>3

\* The step that settles a claim keeps the lineage.
LEMMA SettleClaimLineage ==
    ASSUME Inv, Lineage, SettleClaim
    PROVE  Lineage'
<1>1. Settle(NextUnsettled) /\ unsettled # {}
  BY DEF SettleClaim, Inv, Bookkeeping
<1>2. PICK c \in unsettled : Settle(c)
  BY <1>1, NextUnsettledIsUnsettled DEF Inv
<1>3. c \in DOMAIN claims /\ states[c] # Superseded /\ c # NoClaim
  BY DEF Inv, TypeOK, Bookkeeping, OpenClaims, TerminalStates
<1>4. /\ DOMAIN claims \subseteq DOMAIN claims'
      /\ \A d \in DOMAIN claims : claims'[d] = claims[d]
      /\ \A d \in DOMAIN claims \ {c} : states'[d] = states[d]
  BY <1>2, SettleFacts
<1>5. \A s \in DOMAIN claims : claims[s].supersedes # c
  BY <1>3 DEF Lineage
<1>6. CASE claims' = claims /\ states'[c] # Superseded
  BY <1>3, <1>4, <1>5, <1>6 DEF Lineage
<1>7. ASSUME NEW s, s \notin DOMAIN claims, DOMAIN claims' = DOMAIN claims \union {s},
             claims'[s].supersedes = c, states'[s] # Superseded, states'[c] = Superseded
      PROVE  Lineage'
  <2>1. \A d \in DOMAIN claims' : claims'[d].supersedes # NoClaim =>
          /\ claims'[d].supersedes \in DOMAIN claims'
          /\ states'[claims'[d].supersedes] = Superseded
    <3> SUFFICES ASSUME NEW d \in DOMAIN claims', claims'[d].supersedes # NoClaim
                 PROVE  /\ claims'[d].supersedes \in DOMAIN claims'
                        /\ states'[claims'[d].supersedes] = Superseded
      OBVIOUS
    <3>1. CASE d = s
      BY <1>3, <1>7, <3>1
    <3>2. CASE d \in DOMAIN claims
      BY <1>4, <1>5, <3>2 DEF Lineage
    <3> QED
      BY <1>7, <3>1, <3>2
  <2>2. \A d, e \in DOMAIN claims' :
          claims'[d].supersedes # NoClaim /\ claims'[d].supersedes = claims'[e].supersedes => d = e
    BY <1>4, <1>5, <1>7 DEF Lineage
  <2>3. \A d \in DOMAIN claims' : states'[d] = Superseded =>
          \E t \in DOMAIN claims' : claims'[t].supersedes = d
    <3> SUFFICES ASSUME NEW d \in DOMAIN claims', states'[d] = Superseded
                 PROVE  \E t \in DOMAIN claims' : claims'[t].supersedes = d
      OBVIOUS
    <3>1. CASE d = c
      BY <1>7, <3>1
    <3>2. CASE d # c
      <4>1. d \in DOMAIN claims /\ states[d] = Superseded
        BY <1>4, <1>7, <3>2
      <4>2. PICK t \in DOMAIN claims : claims[t].supersedes = d
        BY <4>1 DEF Lineage
      <4> QED
        BY <1>4, <4>2
    <3> QED
      BY <3>1, <3>2
  <2> QED
    BY <2>1, <2>2, <2>3 DEF Lineage
<1> QED
  BY <1>2, <1>6, <1>7, SettleLineage

\* For every instance, a superseded claim has exactly one successor and no
\* other claim has one: a rewrite neither loses the defect nor counts it
\* twice, whatever ids the critique round already took.
THEOREM SuccessorUnique == Spec => []OneSuccessor
<1>1. Init => Lineage
  BY DEF Init, Lineage, Superseded, Contested
<1>2. Inv /\ Lineage /\ [Next]_vars => Lineage'
  <2> SUFFICES ASSUME Inv, Lineage, [Next]_vars PROVE Lineage'
    OBVIOUS
  <2>1. CASE SettleClaim
    BY <2>1, SettleClaimLineage
  <2>2. CASE ~SettleClaim
    <3>1. UNCHANGED <<claims, states>>
      BY <2>2 DEF Next, vars, recordVars, RoundsOver, Interrupted, AllTerminal, ExhaustCalls,
         ExhaustTime, Leave, Dispatch, Unjudgeable, Answer, Fail, Withhold, Interrupt
    <3> QED
      BY <3>1 DEF Lineage
  <2> QED
    BY <2>1, <2>2
<1>3. Inv /\ Lineage => OneSuccessor
  <2> SUFFICES ASSUME Inv, Lineage, NEW c \in DOMAIN claims
               PROVE  Cardinality({s \in DOMAIN claims : claims[s].supersedes = c}) =
                        IF states[c] = Superseded THEN 1 ELSE 0
    BY DEF OneSuccessor
  <2>1. c # NoClaim
    BY DEF Inv, Bookkeeping
  <2>2. CASE states[c] = Superseded
    <3>1. PICK s \in DOMAIN claims : claims[s].supersedes = c
      BY <2>2 DEF Lineage
    <3>2. {t \in DOMAIN claims : claims[t].supersedes = c} = {s}
      BY <2>1, <3>1 DEF Lineage
    <3> QED
      BY <2>2, <3>2, FS_Singleton
  <2>3. CASE states[c] # Superseded
    <3>1. {s \in DOMAIN claims : claims[s].supersedes = c} = {}
      BY <2>1, <2>3 DEF Lineage
    <3> QED
      BY <2>3, <3>1, FS_EmptySet
  <2> QED
    BY <2>2, <2>3
<1> QED
  BY <1>1, <1>2, <1>3, InvHolds, PTL DEF Spec

-----------------------------------------------------------------------------
(* A settled claim has its quorum.                                         *)
(*                                                                         *)
(* The votes are counted by judge, so a judge must not vote twice on one   *)
(* claim in a round; the quorum is that of the friends the round was       *)
(* opened with, so nobody may join the bench afterwards.                   *)

\* Inductive form: nobody speaks twice in a round, ...
OneVoteARound ==
    /\ \A v \in verdicts : v.round <= round /\ (pc = "round" => v.round < round)
    /\ \A v \in verdicts : v.judge \in queue => v.round < round
    /\ \A v, w \in verdicts :
         v.claim = w.claim /\ v.judge = w.judge /\ v.round = w.round => v = w

\* ... and whoever can vote now could when the round was opened.
BenchOnlyShrinks == pc \in {"collect", "settle"} => Dispatchable \subseteq active

Bench == QueueDispatchable /\ OneVoteARound /\ BenchOnlyShrinks

\* A step other than reading an answer adds no vote; one that reads an
\* answer adds votes of the friend it takes off the queue, of this round and
\* one to a claim.
LEMMA NewVotes ==
    ASSUME Inv, [Next]_vars
    PROVE  \/ verdicts' = verdicts
           \/ \E f \in queue : /\ f \notin queue' /\ queue' \subseteq queue
                               /\ round' = round /\ pc' \in {"collect", "settle"}
                               /\ \A v \in verdicts' \ verdicts :
                                    /\ v.judge = f /\ v.round = round
                                    /\ \A w \in verdicts' \ verdicts : v.claim = w.claim => v = w
<1>1. CASE verdicts' = verdicts
  BY <1>1
<1>2. ASSUME NEW f \in Friends, NEW payload \in Payloads, Answer(f, payload)
      PROVE  \E g \in queue : /\ g \notin queue' /\ queue' \subseteq queue
                              /\ round' = round /\ pc' \in {"collect", "settle"}
                              /\ \A v \in verdicts' \ verdicts :
                                   /\ v.judge = g /\ v.round = round
                                   /\ \A w \in verdicts' \ verdicts : v.claim = w.claim => v = w
  <2>1. /\ pc = "collect" /\ f = NextResult /\ Read(f) /\ round' = round
        /\ verdicts' = verdicts \union Accepted(f, payload)
    BY <1>2 DEF Answer
  <2>2. f \in queue /\ queue' = queue \ {f} /\ pc' \in {"collect", "settle"}
    BY <2>1 DEF Inv, Bookkeeping, NextResult, Read
  <2>3. \A v \in Accepted(f, payload) : v.judge = f /\ v.round = round
    BY AcceptedType DEF Inv
  <2>4. \A v, w \in Accepted(f, payload) : v.claim = w.claim => v = w
    <3> DEFINE cast(c) == [claim |-> c, judge |-> f, round |-> round, kind |-> payload[c].kind,
                           evidence |-> payload[c].evidence, wording |-> payload[c].wording,
                           counter |-> payload[c].counter]
    <3>1. \A c : Downgraded(cast(c)).claim = c
      BY DEF Downgraded
    <3>2. \A v \in Accepted(f, payload) : v = Downgraded(cast(v.claim))
      BY <3>1 DEF Accepted
    <3> QED
      BY <3>2
  <2> QED
    BY <2>1, <2>2, <2>3, <2>4
<1> QED
  BY <1>1, <1>2 DEF Next, vars, recordVars, RoundsOver, Interrupted, AllTerminal, ExhaustCalls,
     ExhaustTime, Leave, Dispatch, Unjudgeable, Fail, Withhold, SettleClaim, Interrupt

\* The queue is filled and the round advanced only from where all votes are
\* of an earlier round.
LEMMA RoundsAdvance ==
    ASSUME Inv, [Next]_vars
    PROVE  /\ queue' \subseteq queue \/ (pc = "round" /\ round' = round)
           /\ \/ round' = round /\ (pc' = "round" => pc = "round")
              \/ round' = round + 1 /\ queue' = {}
<1>1. CASE SettleClaim
  <2>1. queue = {} /\ queue' = queue
    BY <1>1 DEF SettleClaim, Inv, Bookkeeping
  <2>2. \/ round' = round /\ pc' # "round"
        \/ round' = round + 1
    BY <1>1 DEF SettleClaim
  <2> QED
    BY <2>1, <2>2
<1>2. CASE ~SettleClaim
  <2>1. round' = round /\ (pc' = "round" => pc = "round")
    BY <1>2 DEF Next, vars, roundVars, RoundsOver, Interrupted, AllTerminal, ExhaustCalls, ExhaustTime,
       Leave, Dispatch, Unjudgeable, Answer, Fail, Withhold, Read, Interrupt
  <2>2. queue' \subseteq queue \/ pc = "round"
    BY <1>2 DEF Next, vars, roundVars, RoundsOver, Interrupted, AllTerminal, ExhaustCalls, ExhaustTime,
       Leave, Dispatch, Judging, Unjudgeable, Answer, Fail, Withhold, Read, Interrupt
  <2> QED
    BY <2>1, <2>2
<1> QED
  BY <1>1, <1>2

\* Every step keeps it: one vote a round and claim for each judge.
LEMMA OneVoteARoundKept == Inv /\ OneVoteARound /\ [Next]_vars => OneVoteARound'
<1> SUFFICES ASSUME Inv, OneVoteARound, [Next]_vars PROVE OneVoteARound'
  OBVIOUS
<1>1. round \in Nat /\ \A v \in verdicts : v.round \in Nat
  BY DEF Inv, TypeOK, VoteType
<1>2. CASE verdicts' = verdicts
  BY <1>1, <1>2, RoundsAdvance DEF OneVoteARound
<1>3. ASSUME NEW f \in queue, f \notin queue', queue' \subseteq queue, round' = round,
             pc' \in {"collect", "settle"},
             \A v \in verdicts' \ verdicts :
               /\ v.judge = f /\ v.round = round
               /\ \A w \in verdicts' \ verdicts : v.claim = w.claim => v = w
      PROVE  OneVoteARound'
  <2>1. \A v \in verdicts : v.judge = f => v.round < round
    BY DEF OneVoteARound
  <2>2. \A v \in verdicts' : v.round <= round' /\ (v.judge \in queue' => v.round < round')
    BY <1>1, <1>3 DEF OneVoteARound
  <2>3. \A v, w \in verdicts' :
          v.claim = w.claim /\ v.judge = w.judge /\ v.round = w.round => v = w
    <3> SUFFICES ASSUME NEW v \in verdicts', NEW w \in verdicts',
                        v.claim = w.claim, v.judge = w.judge, v.round = w.round
                 PROVE  v = w
      OBVIOUS
    <3>1. CASE v \in verdicts /\ w \in verdicts
      BY <3>1 DEF OneVoteARound
    <3>2. CASE v \notin verdicts /\ w \notin verdicts
      BY <1>3, <3>2
    <3>3. CASE v \in verdicts /\ w \notin verdicts
      <4>1. w.judge = f /\ w.round = round /\ v.round < round
        BY <1>3, <2>1, <3>3
      <4> QED
        BY <1>1, <4>1
    <3>4. CASE v \notin verdicts /\ w \in verdicts
      <4>1. v.judge = f /\ v.round = round /\ w.round < round
        BY <1>3, <2>1, <3>4
      <4> QED
        BY <1>1, <4>1
    <3> QED
      BY <3>1, <3>2, <3>3, <3>4
  <2> QED
    BY <1>3, <2>2, <2>3 DEF OneVoteARound
<1> QED
  BY <1>2, <1>3, NewVotes

\* Every step keeps it: the bench of the round only shrinks.
LEMMA BenchOnlyShrinksKept ==
    Inv /\ QueueDispatchable /\ BenchOnlyShrinks /\ [Next]_vars => BenchOnlyShrinks'
<1> SUFFICES ASSUME Inv, QueueDispatchable, BenchOnlyShrinks, [Next]_vars PROVE BenchOnlyShrinks'
  OBVIOUS
<1>1. Dispatchable' \subseteq Dispatchable
  BY DisabledKept DEF Dispatchable, Disabled
<1>2. CASE Dispatch \/ Unjudgeable
  BY <1>1, <1>2 DEF Dispatch, Unjudgeable, BenchOnlyShrinks
<1>3. CASE ~(Dispatch \/ Unjudgeable)
  <2>1. active' = active /\ (pc' \in {"collect", "settle"} => pc \in {"collect", "settle"})
    BY <1>3 DEF Next, vars, roundVars, RoundsOver, Interrupted, AllTerminal, ExhaustCalls, ExhaustTime,
       Leave, Answer, Fail, Withhold, Read, SettleClaim, Interrupt
  <2> QED
    BY <1>1, <2>1 DEF BenchOnlyShrinks
<1> QED
  BY <1>2, <1>3

\* The bench is as described in every state the rounds reach.
THEOREM BenchHolds == Spec => []Bench
<1>1. Init => Bench
  BY DEF Init, Bench, QueueDispatchable, OneVoteARound, BenchOnlyShrinks
<1>2. Inv /\ Bench /\ [Next]_vars => Bench'
  BY QueueDispatchableKept, OneVoteARoundKept, BenchOnlyShrinksKept DEF Bench
<1> QED
  BY <1>1, <1>2, InvHolds, PTL DEF Spec

\* What SettledByQuorum asks of one claim.
HasQuorum(c) ==
    /\ states[c] = SettledRefuted => Cardinality(Voters(c, "refuted")) >= 2
    /\ states[c] = SettledUpheld =>
         /\ Voters(c, "upheld") # {}
         /\ Cardinality(Voters(c, "upheld")) >= QuorumFor(StillEligible(c))
         /\ (Voters(c, "refuted") \union Voters(c, "amended")) \intersect StillEligible(c) = {}

\* The judges whose newest vote is of a kind can be counted.
LEMMA VotersFinite ==
    ASSUME Inv, NEW c, NEW kind
    PROVE  IsFiniteSet(Voters(c, kind)) /\ Cardinality(Voters(c, kind)) \in Nat
<1>1. Voters(c, kind) \in SUBSET Friends
  BY DEF Inv, TypeOK, VoteType, Voters, LatestOn, LatestPerJudge, VotesOn
<1> QED
  BY <1>1, RosterAssumption, FS_Subset, FS_CardinalityType

\* A claim that has its quorum keeps it: its votes are final, and the bench
\* that could still contradict them only gets smaller.
LEMMA QuorumKept ==
    ASSUME Inv, Bench, [Next]_vars, NEW c \in DOMAIN states, states[c] \in TerminalStates, HasQuorum(c)
    PROVE  HasQuorum(c)'
<1>1. states'[c] = states[c] /\ VotesOn(c)' = VotesOn(c)
  BY TerminalKept DEF VotesOn
<1>2. \A kind : Voters(c, kind)' = Voters(c, kind)
  BY <1>1 DEF Voters, LatestOn
<1>3. StillEligible(c)' \in SUBSET StillEligible(c)
  <2>1. claims'[c] = claims[c]
    BY OriginsKept DEF Inv, TypeOK
  <2>2. Dispatchable' \subseteq Dispatchable
    BY DisabledKept DEF Bench, Dispatchable, Disabled
  <2> QED
    BY <2>1, <2>2 DEF StillEligible
<1>4. IsFiniteSet(StillEligible(c))
  <2>1. StillEligible(c) \in SUBSET Friends
    BY DEF StillEligible, Dispatchable
  <2> QED
    BY <2>1, RosterAssumption, FS_Subset
<1>5. QuorumFor(StillEligible(c)') <= QuorumFor(StillEligible(c))
  BY <1>3, <1>4, QuorumMonotone
<1>6. QuorumFor(StillEligible(c)) \in Nat /\ QuorumFor(StillEligible(c)') \in Nat
  BY <1>3, <1>4, FS_Subset, FS_CardinalityType DEF QuorumFor
<1> QED
  BY <1>1, <1>2, <1>3, <1>5, <1>6, VotersFinite DEF HasQuorum

\* The votes _settle_round decides by are the newest of their judges, and
\* every newest dispositive vote of an eligible judge is among them.
LEMMA DecidingVotesAreLatest ==
    ASSUME Inv, Bench, NEW c \in DOMAIN claims
    PROVE  LET decided == Deciding(claims[c].origin, VotesOn(c), Roster)
           IN  /\ \A v \in decided : v \in LatestOn(c) /\ v.judge \in Independent
               /\ pc = "settle" => \A v \in LatestOn(c) :
                    v.judge \in StillEligible(c) /\ v.kind \in DispositiveKinds => v \in decided
<1>1. pc = "settle" => StillEligible(c) \subseteq JudgesFor(claims[c].origin, Roster)
  BY DEF Bench, BenchOnlyShrinks, StillEligible, JudgesFor, Roster
<1> QED
  BY <1>1 DEF Deciding, Dispositive, LatestOn, LatestPerJudge, JudgesFor, Roster

\* Settling a claim gives it its quorum.
LEMMA SettleGivesQuorum ==
    ASSUME Inv, Bench, pc = "settle", NEW c \in DOMAIN claims,
           NEW state \in {SettledUpheld, SettledRefuted}, DecidedState(c) = state
    PROVE  /\ state = SettledRefuted => Cardinality(Voters(c, "refuted")) >= 2
           /\ state = SettledUpheld =>
                /\ Voters(c, "upheld") # {}
                /\ Cardinality(Voters(c, "upheld")) >= QuorumFor(StillEligible(c))
                /\ (Voters(c, "refuted") \union Voters(c, "amended")) \intersect StillEligible(c) = {}
<1> DEFINE decided == Deciding(claims[c].origin, VotesOn(c), Roster)
           behind  == {v.judge : v \in decided}
           judges  == JudgesFor(claims[c].origin, Roster)
           kind    == IF state = SettledUpheld THEN "upheld" ELSE "refuted"
<1>1. /\ ~(Cardinality(decided) < QuorumFor(judges))
      /\ {v.kind : v \in decided} = {kind}
      /\ state = SettledRefuted => Cardinality(judges) > 1
  <2> DEFINE silent == \E f \in Roster : <<c, f>> \in missing
  <2>1. silent \in BOOLEAN /\ StateFor(claims[c].origin, VotesOn(c), Roster, round, LastRound, silent) = state
    BY DEF DecidedState
  <2> HIDE DEF silent
  <2> QED
    BY <2>1, SettledTakesAQuorum
<1>2. IsFiniteSet(Roster) /\ IsFiniteSet(judges)
  <2>1. Roster \in SUBSET Friends /\ judges \in SUBSET Friends
    BY RosterAssumption DEF Roster, JudgesFor
  <2> QED
    BY <2>1, RosterAssumption, FS_Subset
<1>3. IsFiniteSet(behind) /\ Cardinality(decided) \in Nat /\ Cardinality(decided) <= Cardinality(behind)
  <2>1. /\ \A v \in VotesOn(c) : v.round \in Nat
        /\ \A v, w \in VotesOn(c) : v.judge = w.judge /\ v.round = w.round => v = w
    BY DEF VotesOn, Inv, TypeOK, VoteType, Bench, OneVoteARound
  <2> QED
    BY <1>2, <2>1, DecidingVotesAreJudges
<1>4. behind \in SUBSET Voters(c, kind)
  <2>1. \A v \in decided : v.kind = kind /\ v \in LatestOn(c) /\ v.judge \in Independent
    BY <1>1, DecidingVotesAreLatest
  <2> HIDE DEF decided, kind
  <2> QED
    BY <2>1 DEF Voters
<1> HIDE DEF decided, behind, judges, kind
<1>5. Cardinality(behind) \in Nat /\ Cardinality(behind) <= Cardinality(Voters(c, kind))
  BY <1>3, <1>4, VotersFinite, FS_Subset, FS_CardinalityType
<1>6. Cardinality(judges) \in Nat
  BY <1>2, FS_CardinalityType
<1>7. Cardinality(Voters(c, kind)) >= QuorumFor(judges)
  BY <1>1, <1>3, <1>5, <1>6, VotersFinite DEF QuorumFor
<1>8. CASE state = SettledRefuted
  <2>1. kind = "refuted"
    BY <1>8 DEF kind, SettledRefuted, SettledUpheld
  <2> QED
    BY <1>1, <1>6, <1>7, <1>8, <2>1 DEF QuorumFor, SettledRefuted, SettledUpheld
<1>9. CASE state = SettledUpheld
  <2>1. kind = "upheld"
    BY <1>9 DEF kind
  <2>2. decided # {} /\ \A v \in decided : v.kind = "upheld"
    BY <1>1, <2>1
  <2>3. Voters(c, "upheld") # {}
    BY <1>4, <2>1, <2>2 DEF behind
  <2>4. StillEligible(c) \in SUBSET judges
    BY DEF judges, Bench, BenchOnlyShrinks, StillEligible, JudgesFor, Roster
  <2>5. QuorumFor(StillEligible(c)) <= QuorumFor(judges) /\ QuorumFor(StillEligible(c)) \in Nat
    BY <1>2, <2>4, QuorumMonotone, FS_Subset, FS_CardinalityType DEF QuorumFor
  <2>6. Cardinality(Voters(c, "upheld")) >= QuorumFor(StillEligible(c))
    BY <1>6, <1>7, <2>1, <2>5, VotersFinite DEF QuorumFor
  <2>7. ASSUME NEW f \in (Voters(c, "refuted") \union Voters(c, "amended")) \intersect StillEligible(c)
        PROVE  FALSE
    <3>1. PICK v \in LatestOn(c) : v.judge = f /\ v.kind \in {"refuted", "amended"}
      BY <2>7 DEF Voters
    <3>2. v \in decided
      BY <2>7, <3>1, DecidingVotesAreLatest DEF decided, DispositiveKinds
    <3> QED
      BY <2>2, <3>1, <3>2
  <2> QED
    BY <1>9, <2>3, <2>6, <2>7 DEF SettledRefuted, SettledUpheld
<1> QED
  BY <1>8, <1>9

\* For every roster, every answer and every interleaving of failures: a
\* claim that settled has two different judges behind a refutation, and a
\* quorum of those that can still vote behind an upholding, none of whom
\* says otherwise - when it settled and for the rest of the run.
THEOREM SettledNeedsQuorum == Spec => []SettledByQuorum
<1>1. Init => SettledByQuorum
  BY DEF Init, SettledByQuorum, SettledRefuted, SettledUpheld, Contested
<1>2. Inv /\ Bench /\ SettledByQuorum /\ [Next]_vars => SettledByQuorum'
  <2> SUFFICES ASSUME Inv, Bench, SettledByQuorum, [Next]_vars, NEW c \in DOMAIN states'
               PROVE  HasQuorum(c)'
    BY DEF SettledByQuorum, HasQuorum
  <2>1. CASE c \in DOMAIN states /\ states[c] \in TerminalStates
    BY <2>1, QuorumKept DEF SettledByQuorum, HasQuorum
  <2>2. CASE SettleClaim /\ ~(c \in DOMAIN states /\ states[c] \in TerminalStates)
    <3>1. pc = "settle" /\ Settle(NextUnsettled) /\ unsettled # {}
      BY <2>2 DEF SettleClaim, Inv, Bookkeeping
    <3>2. PICK d \in unsettled : d \in DOMAIN claims /\ Settle(d)
      BY <3>1, NextUnsettledIsUnsettled DEF Inv, TypeOK
    <3>3. /\ UNCHANGED <<verdicts, tracker>> /\ claims'[d] = claims[d]
      BY <2>2, <3>2, SettleFacts DEF SettleClaim
    <3>4. CASE c = d /\ states'[c] \in {SettledUpheld, SettledRefuted}
      <4>1. DecidedState(c) = states'[c]
        <5>1. SettledState(c) = states'[c]
          <6>1. CASE SettledState(c) = Superseded
            <7>1. /\ states' = With([states EXCEPT ![c] = Superseded],
                                    FreeSuccessorId(c, DOMAIN claims), SuccessorState)
              BY <3>2, <3>4, <6>1 DEF Settle
            <7>2. c \in DOMAIN states /\ c # FreeSuccessorId(c, DOMAIN claims)
              <8>1. c \in Nat \X Nat /\ c \in DOMAIN claims /\ IsFiniteSet(DOMAIN claims)
                BY <3>2, <3>4 DEF Inv, TypeOK, Bookkeeping, Ids
              <8> QED
                BY <8>1, FreeSuccessorIsFree DEF Inv, TypeOK
            <7> QED
              BY <6>1, <7>1, <7>2 DEF With
          <6>2. CASE SettledState(c) # Superseded
            BY <3>2, <3>4, <6>2 DEF Settle, Inv, TypeOK
          <6> QED
            BY <6>1, <6>2
        <5> QED
          BY <3>4, <5>1 DEF SettledState, Discarded, SettledUpheld, SettledRefuted
      <4>2. /\ \A kind : Voters(c, kind)' = Voters(c, kind)
            /\ StillEligible(c)' = StillEligible(c)
        BY <3>3, <3>4 DEF Voters, LatestOn, VotesOn, StillEligible, Dispatchable, Disabled
      <4> DEFINE state == states'[c]
      <4>3. /\ state = SettledRefuted => Cardinality(Voters(c, "refuted")) >= 2
            /\ state = SettledUpheld =>
                 /\ Voters(c, "upheld") # {}
                 /\ Cardinality(Voters(c, "upheld")) >= QuorumFor(StillEligible(c))
                 /\ (Voters(c, "refuted") \union Voters(c, "amended")) \intersect StillEligible(c) = {}
        <5> HIDE DEF state
        <5> QED BY <3>1, <3>2, <3>4, <4>1, SettleGivesQuorum DEF state
      <4> QED
        BY <4>2, <4>3 DEF HasQuorum
    <3>5. CASE states'[c] \notin {SettledUpheld, SettledRefuted}
      BY <3>5 DEF HasQuorum
    <3>6. CASE c # d /\ states'[c] \in {SettledUpheld, SettledRefuted}
      <4>1. c \notin DOMAIN claims
        BY <2>2, <3>2, <3>6, SettleFacts DEF Inv, TypeOK, TerminalStates
      <4>2. states' = With([states EXCEPT ![d] = Superseded],
                           FreeSuccessorId(d, DOMAIN claims), SuccessorState)
        BY <3>2, <4>1 DEF Settle, Inv, TypeOK
      <4>3. states'[c] = SuccessorState
        BY <3>6, <4>1, <4>2 DEF With, Inv, TypeOK
      <4> QED
        BY <3>6, <4>3 DEF SuccessorState, Incomplete, Contested, SettledUpheld, SettledRefuted
    <3> QED
      BY <3>4, <3>5, <3>6
  <2>3. CASE ~SettleClaim /\ ~(c \in DOMAIN states /\ states[c] \in TerminalStates)
    <3>1. UNCHANGED states
      BY <2>3 DEF Next, vars, recordVars, RoundsOver, Interrupted, AllTerminal, ExhaustCalls,
         ExhaustTime, Leave, Dispatch, Unjudgeable, Answer, Fail, Withhold, Interrupt
    <3> QED
      BY <2>3, <3>1 DEF HasQuorum, TerminalStates
  <2> QED
    BY <2>1, <2>2, <2>3
<1> QED
  BY <1>1, <1>2, InvHolds, BenchHolds, PTL DEF Spec

-----------------------------------------------------------------------------
(* A claim is discarded only when its judges repeat themselves.            *)
(*                                                                         *)
(* The signature compared with is a set of records, not of votes: the      *)
(* invariant says which votes are behind it, and that a judge of the round *)
(* either answered or is held to have been silent.                         *)

\* The bench has reported on a claim: every judge of the round that did not
\* write it is still running, answered in this round, or is on record as
\* silent.
Reported(c) ==
    \A f \in active \ claims[c].origin :
        \/ f \in queue
        \/ <<c, f>> \in missing
        \/ \E v \in verdicts : v.claim = c /\ v.judge = f /\ v.round = round

EveryJudgeReports ==
    /\ pc = "collect" => \A c \in OpenClaims : Reported(c)
    /\ pc = "settle" => \A c \in unsettled : Reported(c)

\* An entry of a signature, as verdict_set_signature makes it of a vote.
Entry(v) == [judge    |-> v.judge,    kind    |-> v.kind,
             evidence |-> v.evidence, counter |-> Normalized(v.counter),
             wording  |-> Normalized(v.wording)]

\* The claim has not been settled in this round yet.
ToBeSettled(c) == pc # "settle" \/ c \in unsettled

\* Behind every entry remembered of an open claim is the newest vote of its
\* judge, apart from those of a round that is still to be settled.
EntryHasItsVote(c, s) ==
    \E w \in VotesOn(c) :
        /\ s = Entry(w)
        /\ ToBeSettled(c) => w.round < round
        /\ \A u \in VotesOn(c) :
             u.judge = w.judge => u.round <= w.round \/ (ToBeSettled(c) /\ u.round = round)

SignaturesAreVotes ==
    \A c \in OpenClaims : signatures[c] # {} =>
        /\ states[c] = Unproven
        /\ pc # "stopped" => \A s \in signatures[c] : EntryHasItsVote(c, s)

\* Reading the result of a friend leaves it heard or silent on its slice.
LEMMA ReadReports ==
    ASSUME Inv, NEW f \in Friends, pc = "collect", f = NextResult, Read(f),
           UNCHANGED <<claims, states, active, round>>,
           verdicts \subseteq verdicts', missing \subseteq missing',
           \A c \in Slice(f) : \/ <<c, f>> \in missing'
                               \/ \E v \in verdicts' : v.claim = c /\ v.judge = f /\ v.round = round,
           EveryJudgeReports
    PROVE  EveryJudgeReports'
<1>1. queue' = queue \ {f} /\ OpenClaims' = OpenClaims
      /\ unsettled' \subseteq OpenClaims
  BY DEF Read, OpenClaims
<1>2. ASSUME NEW c \in OpenClaims PROVE Reported(c)'
  <2> SUFFICES ASSUME NEW g \in active \ claims[c].origin
               PROVE  \/ g \in queue'
                      \/ <<c, g>> \in missing'
                      \/ \E v \in verdicts' : v.claim = c /\ v.judge = g /\ v.round = round
    BY DEF Reported
  <2>1. \/ g \in queue
        \/ <<c, g>> \in missing
        \/ \E v \in verdicts : v.claim = c /\ v.judge = g /\ v.round = round
    BY DEF EveryJudgeReports, Reported
  <2>2. CASE g = f
    BY <2>2 DEF Slice
  <2>3. CASE g # f
    BY <1>1, <2>1, <2>3
  <2> QED
    BY <2>2, <2>3
<1> QED
  BY <1>1, <1>2 DEF EveryJudgeReports

\* Every step keeps it: nobody of the bench is forgotten.
LEMMA EveryJudgeReportsKept == Inv /\ EveryJudgeReports /\ [Next]_vars => EveryJudgeReports'
<1> SUFFICES ASSUME Inv, EveryJudgeReports, [Next]_vars PROVE EveryJudgeReports'
  OBVIOUS
<1>1. ASSUME NEW f \in Friends, NEW payload \in Payloads, Answer(f, payload)
      PROVE  EveryJudgeReports'
  <2>1. /\ pc = "collect" /\ f = NextResult /\ Read(f)
        /\ UNCHANGED <<claims, states, active, round>>
        /\ verdicts' = verdicts \union Accepted(f, payload)
        /\ missing' = missing \union ((Slice(f) \ DOMAIN payload) \X {f})
    BY <1>1 DEF Answer, NeverReported
  <2>2. \A c \in Slice(f) \intersect DOMAIN payload :
          \E v \in verdicts' : v.claim = c /\ v.judge = f /\ v.round = round
    <3> SUFFICES ASSUME NEW c \in Slice(f) \intersect DOMAIN payload
                 PROVE  \E v \in Accepted(f, payload) : v.claim = c /\ v.judge = f /\ v.round = round
      BY <2>1
    <3> DEFINE v == Downgraded([claim |-> c, judge |-> f, round |-> round, kind |-> payload[c].kind,
                                evidence |-> payload[c].evidence, wording |-> payload[c].wording,
                                counter |-> payload[c].counter])
    <3>1. v \in Accepted(f, payload)
      BY DEF Accepted
    <3>2. v.claim = c /\ v.judge = f /\ v.round = round
      BY DEF Downgraded
    <3> QED
      BY <3>1, <3>2
  <2> QED
    BY <2>1, <2>2, ReadReports
<1>2. ASSUME NEW f \in Friends, NEW reason \in Reasons, Fail(f, reason)
      PROVE  EveryJudgeReports'
  BY <1>2, ReadReports DEF Fail, NeverReported, recordVars
<1>3. ASSUME NEW f \in Friends, Withhold(f)
      PROVE  EveryJudgeReports'
  BY <1>3, ReadReports DEF Withhold, NeverReported, recordVars
<1>4. CASE Dispatch
  BY <1>4 DEF Dispatch, EveryJudgeReports, Reported, JudgesToAsk, Slice, OpenClaims, recordVars
<1>5. CASE Unjudgeable
  BY <1>5 DEF Unjudgeable, EveryJudgeReports, Reported, JudgesToAsk, Slice, OpenClaims, recordVars
<1>6. CASE SettleClaim
  <2>1. pc = "settle" /\ Settle(NextUnsettled) /\ unsettled' = unsettled \ {NextUnsettled}
        /\ UNCHANGED <<verdicts, active, queue>> /\ pc' # "collect"
        /\ (pc' = "settle" => unsettled # {NextUnsettled} /\ missing' = missing /\ round' = round)
    BY <1>6 DEF SettleClaim
  <2>2. NextUnsettled \in unsettled
    BY <2>1, NextUnsettledIsUnsettled DEF Inv, Bookkeeping
  <2>3. \A d \in DOMAIN claims : claims'[d] = claims[d]
    BY <2>1, <2>2, SettleFacts
  <2>4. unsettled \subseteq DOMAIN claims
    BY DEF Inv, TypeOK
  <2> QED
    BY <2>1, <2>3, <2>4 DEF EveryJudgeReports, Reported
<1>7. CASE RoundsOver \/ Interrupted \/ AllTerminal \/ ExhaustCalls \/ ExhaustTime
  BY <1>7 DEF RoundsOver, Interrupted, AllTerminal, ExhaustCalls, ExhaustTime, Leave, EveryJudgeReports
<1>8. CASE Interrupt \/ UNCHANGED vars
  BY <1>8 DEF Interrupt, vars, roundVars, recordVars, EveryJudgeReports, Reported, OpenClaims
<1> QED
  BY <1>1, <1>2, <1>3, <1>4, <1>5, <1>6, <1>7, <1>8 DEF Next

\* What settling a claim remembers, and that it leaves the other signatures.
LEMMA SettleSignatures ==
    ASSUME Inv, NEW d \in unsettled, Settle(d)
    PROVE  /\ \A c \in DOMAIN claims \ {d} : signatures'[c] = signatures[c]
           /\ \A c \in DOMAIN claims' \ DOMAIN claims : signatures'[c] = {}
           /\ signatures'[d] = RememberedSignature(d)
           /\ states'[d] = SettledState(d)
<1> DEFINE s == FreeSuccessorId(d, DOMAIN claims)
<1>1. d \in DOMAIN claims /\ d \in Nat \X Nat /\ DOMAIN states = DOMAIN claims
      /\ DOMAIN signatures = DOMAIN claims /\ IsFiniteSet(DOMAIN claims)
  BY DEF Inv, TypeOK, Bookkeeping, Ids
<1>2. s \notin DOMAIN claims
  BY <1>1, FreeSuccessorIsFree
<1>3. CASE SettledState(d) # Superseded
  BY <1>1, <1>3 DEF Settle
<1>4. CASE SettledState(d) = Superseded
  <2>1. /\ claims' = With(claims, s, Successor(d, claims[d].origin, Amendments(d), round))
        /\ states' = With([states EXCEPT ![d] = Superseded], s, SuccessorState)
        /\ signatures' = With([signatures EXCEPT ![d] = RememberedSignature(d)], s, {})
    BY <1>4 DEF Settle
  <2> QED
    BY <1>1, <1>2, <1>4, <2>1 DEF With
<1> QED
  BY <1>3, <1>4

\* Outside _settle_round the signatures stand, and a new vote is of a round
\* that is still to be settled.
LEMMA OutsideSettling ==
    ASSUME Inv, [Next]_vars, ~SettleClaim
    PROVE  /\ UNCHANGED <<round, claims, states, signatures>>
           /\ verdicts \subseteq verdicts'
           /\ pc' # "stopped" => pc # "stopped"
           /\ \A c \in OpenClaims : ToBeSettled(c)' <=> ToBeSettled(c)
           /\ \A v \in verdicts' \ verdicts : v.round = round /\ pc = "collect"
<1>1. ASSUME NEW f \in Friends, NEW payload \in Payloads, Answer(f, payload)
      PROVE  /\ UNCHANGED <<round, claims, states, signatures>>
             /\ verdicts \subseteq verdicts'
             /\ pc' # "stopped" => pc # "stopped"
             /\ \A c \in OpenClaims : ToBeSettled(c)' <=> ToBeSettled(c)
             /\ \A v \in verdicts' \ verdicts : v.round = round /\ pc = "collect"
  BY <1>1, AcceptedType DEF Answer, Read, ToBeSettled, Inv
<1>2. CASE UNCHANGED vars
  BY <1>2 DEF vars, recordVars, roundVars, ToBeSettled
<1> QED
  BY <1>1, <1>2 DEF Next, recordVars, roundVars, RoundsOver, Interrupted, AllTerminal, ExhaustCalls,
     ExhaustTime, Leave, Dispatch, Unjudgeable, Judging, Fail, Withhold, Read, Interrupt, ToBeSettled

\* A vote behind an entry stays behind it while the claim waits for its round
\* to be settled.
LEMMA EntryKeepsItsVote ==
    ASSUME Inv, [Next]_vars, ~SettleClaim, NEW c \in OpenClaims, NEW s, EntryHasItsVote(c, s)
    PROVE  EntryHasItsVote(c, s)'
<1>1. /\ round' = round /\ verdicts \subseteq verdicts' /\ (ToBeSettled(c)' <=> ToBeSettled(c))
      /\ \A v \in verdicts' \ verdicts : v.round = round /\ pc = "collect"
  BY OutsideSettling
<1>2. PICK w \in VotesOn(c) :
        /\ s = Entry(w)
        /\ ToBeSettled(c) => w.round < round
        /\ \A u \in VotesOn(c) :
             u.judge = w.judge => u.round <= w.round \/ (ToBeSettled(c) /\ u.round = round)
  BY DEF EntryHasItsVote
<1>3. w \in VotesOn(c)'
  BY <1>1 DEF VotesOn
<1>4. \A u \in VotesOn(c)' :
        u.judge = w.judge => u.round <= w.round \/ (ToBeSettled(c)' /\ u.round = round')
  <2> SUFFICES ASSUME NEW u \in VotesOn(c)', u.judge = w.judge
               PROVE  u.round <= w.round \/ (ToBeSettled(c) /\ u.round = round)
    BY <1>1
  <2>1. CASE u \in verdicts
    BY <1>2, <2>1 DEF VotesOn
  <2>2. CASE u \notin verdicts
    <3>1. u.round = round /\ pc = "collect"
      BY <1>1, <2>2 DEF VotesOn
    <3> QED
      BY <3>1 DEF ToBeSettled
  <2> QED
    BY <2>1, <2>2
<1> QED
  BY <1>1, <1>2, <1>3, <1>4 DEF EntryHasItsVote

\* The entries of the signature a round computes are the newest votes.
LEMMA CurrentSignatureIsVotes ==
    ASSUME Inv, NEW c, NEW s \in CurrentSignature(c)
    PROVE  \E w \in VotesOn(c) : /\ s = Entry(w) /\ w.judge \in Roster
                                 /\ \A u \in VotesOn(c) : u.judge = w.judge => u.round <= w.round
  BY DEF CurrentSignature, Signature, LatestPerJudge, Entry

\* Settling a claim keeps the signatures what they are said to be.
LEMMA SettleKeepsSignatures ==
    ASSUME Inv, OneVoteARound, SignaturesAreVotes, SettleClaim
    PROVE  SignaturesAreVotes'
<1>1. /\ pc = "settle" /\ Settle(NextUnsettled) /\ unsettled' = unsettled \ {NextUnsettled}
      /\ verdicts' = verdicts
      /\ \/ pc' = "settle" /\ round' = round
         \/ pc' = "round" /\ round' = round + 1 /\ unsettled = {NextUnsettled}
         \/ pc' = "stopped"
  BY DEF SettleClaim
<1>2. PICK d \in unsettled : d = NextUnsettled
  BY <1>1, NextUnsettledIsUnsettled DEF Inv, Bookkeeping
<1>3. /\ \A c \in DOMAIN claims \ {d} : signatures'[c] = signatures[c] /\ states'[c] = states[c]
      /\ \A c \in DOMAIN claims' \ DOMAIN claims : signatures'[c] = {}
      /\ signatures'[d] = RememberedSignature(d)
      /\ states'[d] = SettledState(d)
      /\ DOMAIN states' = DOMAIN claims'
  BY <1>1, <1>2, SettleSignatures, SettleFacts
<1>4. round \in Nat /\ \A v \in verdicts : v.round \in Nat /\ v.round <= round
  BY DEF Inv, TypeOK, VoteType, OneVoteARound
<1> SUFFICES ASSUME NEW c \in OpenClaims', signatures'[c] # {}
             PROVE  /\ states'[c] = Unproven
                    /\ pc' # "stopped" => \A s \in signatures'[c] : EntryHasItsVote(c, s)'
  BY DEF SignaturesAreVotes
<1>5. c \in DOMAIN claims /\ states'[c] \notin TerminalStates
  BY <1>3 DEF OpenClaims
<1>6. VotesOn(c)' = VotesOn(c)
  BY <1>1 DEF VotesOn
<1>7. CASE c = d
  <2>1. DecidedState(c) = Unproven /\ signatures'[c] = CurrentSignature(c)
    BY <1>3, <1>7 DEF RememberedSignature
  <2>2. states'[c] = Unproven
    BY <1>3, <1>5, <1>7, <2>1 DEF SettledState, TerminalStates
  <2>3. ASSUME pc' # "stopped", NEW s \in CurrentSignature(c) PROVE EntryHasItsVote(c, s)'
    <3>1. PICK w \in VotesOn(c) : s = Entry(w) /\ \A u \in VotesOn(c) : u.judge = w.judge => u.round <= w.round
      BY <2>3, CurrentSignatureIsVotes
    <3>2. ToBeSettled(c)' => w.round < round'
      BY <1>1, <1>2, <1>4, <1>7, <2>3, <3>1 DEF ToBeSettled, VotesOn
    <3> QED
      BY <1>6, <3>1, <3>2 DEF EntryHasItsVote
  <2> QED
    BY <2>1, <2>2, <2>3
<1>8. CASE c # d
  <2>1. c \in OpenClaims /\ signatures'[c] = signatures[c] /\ states'[c] = states[c]
    BY <1>3, <1>5, <1>8 DEF OpenClaims, Inv, TypeOK
  <2>2. states[c] = Unproven /\ \A s \in signatures[c] : EntryHasItsVote(c, s)
    BY <1>1, <2>1 DEF SignaturesAreVotes
  <2>3. ASSUME pc' # "stopped", NEW s \in signatures[c] PROVE EntryHasItsVote(c, s)'
    <3>1. PICK w \in VotesOn(c) :
            /\ s = Entry(w)
            /\ ToBeSettled(c) => w.round < round
            /\ \A u \in VotesOn(c) :
                 u.judge = w.judge => u.round <= w.round \/ (ToBeSettled(c) /\ u.round = round)
      BY <2>2, <2>3 DEF EntryHasItsVote
    <3>2. CASE pc' = "settle" /\ round' = round
      <4>1. ToBeSettled(c)' <=> ToBeSettled(c)
        BY <1>1, <1>2, <1>8, <3>2 DEF ToBeSettled
      <4> QED
        BY <1>6, <3>1, <3>2, <4>1 DEF EntryHasItsVote
    <3>3. CASE pc' = "round" /\ round' = round + 1 /\ unsettled = {NextUnsettled}
      <4>1. ~ToBeSettled(c)
        BY <1>1, <1>2, <1>8, <3>3 DEF ToBeSettled
      <4>2. w.round < round'
        BY <1>4, <3>1, <3>3 DEF VotesOn
      <4> QED
        BY <1>6, <3>1, <4>1, <4>2 DEF EntryHasItsVote
    <3> QED
      BY <1>1, <2>3, <3>2, <3>3
  <2> QED
    BY <2>1, <2>2, <2>3
<1> QED
  BY <1>7, <1>8

\* Every step keeps it: the signatures are made of votes.
LEMMA SignaturesAreVotesKept ==
    Inv /\ OneVoteARound /\ SignaturesAreVotes /\ [Next]_vars => SignaturesAreVotes'
<1> SUFFICES ASSUME Inv, OneVoteARound, SignaturesAreVotes, [Next]_vars PROVE SignaturesAreVotes'
  OBVIOUS
<1>1. CASE SettleClaim
  BY <1>1, SettleKeepsSignatures
<1>2. CASE ~SettleClaim
  <2>1. UNCHANGED <<claims, states, signatures>> /\ OpenClaims' = OpenClaims
        /\ (pc' # "stopped" => pc # "stopped")
    BY <1>2, OutsideSettling DEF OpenClaims
  <2>2. \A c \in OpenClaims : \A s \in signatures[c] : EntryHasItsVote(c, s) => EntryHasItsVote(c, s)'
    BY <1>2, EntryKeepsItsVote
  <2> QED
    BY <2>1, <2>2 DEF SignaturesAreVotes
<1> QED
  BY <1>1, <1>2

\* A round without silence: the decision table says unproven only then.
LEMMA UnprovenIsNotSilent ==
    ASSUME NEW origin, NEW votes, NEW roster, NEW r, NEW last, NEW silent \in BOOLEAN,
           StateFor(origin, votes, roster, r, last, silent) = Unproven
    PROVE  ~silent
  BY DEF StateFor, SettledUpheld, SettledRefuted, Superseded, Contested, Deadlocked, Unproven, Incomplete

\* The step that discards a claim, seen from the votes.
LEMMA DiscardingStep ==
    ASSUME Inv, Bench, AuthorsNeverJudge, EveryJudgeReports, SignaturesAreVotes, [Next]_vars,
           NEW c \in DOMAIN states, states[c] # Discarded, states'[c] = Discarded
    PROVE  /\ states[c] = Unproven
           /\ Roster \ claims[c].origin # {}
           /\ \A f \in Roster \ claims[c].origin :
                \E v, w \in VotesOn(c) :
                    /\ v.judge = f /\ v.round = round
                    /\ w.judge = f /\ w.round < round
                    /\ \A u \in VotesOn(c) : u.judge = f => u.round <= w.round \/ u.round = round
                    /\ SameVote(v, w)
<1>1. SettleClaim
  BY OutsideSettling
<1>2. PICK d \in unsettled : Settle(d) /\ pc = "settle"
  BY <1>1, NextUnsettledIsUnsettled DEF SettleClaim, Inv, Bookkeeping
<1>3. c = d /\ SettledState(c) = Discarded
  BY <1>2, SettleFacts, SettleSignatures DEF Inv, TypeOK
<1>4. /\ DecidedState(c) = Unproven
      /\ signatures[c] # {} /\ signatures[c] = CurrentSignature(c)
  <2>1. DecidedState(c) # Discarded
    BY StateForType DEF DecidedState
  <2> QED
    BY <1>3, <2>1 DEF SettledState, ShouldDiscard
<1>5. /\ c \in OpenClaims /\ ToBeSettled(c) /\ states[c] = Unproven
      /\ \A s \in signatures[c] : EntryHasItsVote(c, s)
  BY <1>2, <1>3, <1>4 DEF Inv, Bookkeeping, ToBeSettled, SignaturesAreVotes
<1>6. Roster \ claims[c].origin # {}
  <2>1. PICK w \in VotesOn(c) : w.judge \in Roster
    BY <1>4, CurrentSignatureIsVotes
  <2>2. w.judge \notin claims[c].origin
    BY <2>1 DEF VotesOn, AuthorsNeverJudge
  <2> QED
    BY <2>1, <2>2
<1>7. ASSUME NEW f \in Roster \ claims[c].origin
      PROVE  \E v, w \in VotesOn(c) :
                 /\ v.judge = f /\ v.round = round
                 /\ w.judge = f /\ w.round < round
                 /\ \A u \in VotesOn(c) : u.judge = f => u.round <= w.round \/ u.round = round
                 /\ SameVote(v, w)
  <2>1. <<c, f>> \notin missing
    <3> DEFINE silent == \E g \in Roster : <<c, g>> \in missing
    <3>1. silent \in BOOLEAN /\ StateFor(claims[c].origin, VotesOn(c), Roster, round, LastRound, silent) = Unproven
      BY <1>4 DEF DecidedState
    <3>2. ~silent
      <4> HIDE DEF silent
      <4> QED BY <3>1, UnprovenIsNotSilent
    <3> QED
      BY <3>2
  <2>2. PICK v \in verdicts : v.claim = c /\ v.judge = f /\ v.round = round
    BY <1>2, <1>3, <2>1 DEF EveryJudgeReports, Reported, Roster, Inv, Bookkeeping
  <2>3. Entry(v) \in CurrentSignature(c)
    <3>1. \A u \in verdicts : u.round <= round
      BY DEF Bench, OneVoteARound
    <3> QED
      BY <2>2, <3>1 DEF CurrentSignature, Signature, LatestPerJudge, VotesOn, Entry
  <2>4. PICK w \in VotesOn(c) :
          /\ Entry(v) = Entry(w)
          /\ w.round < round
          /\ \A u \in VotesOn(c) : u.judge = w.judge => u.round <= w.round \/ u.round = round
    BY <1>4, <1>5, <2>3 DEF EntryHasItsVote
  <2>5. w.judge = v.judge /\ SameVote(v, w)
    BY <2>4 DEF Entry, SameVote
  <2> QED
    BY <2>2, <2>4, <2>5 DEF VotesOn
<1> QED
  BY <1>5, <1>6, <1>7

\* For every roster and every answer, a claim is discarded only on a repeated
\* conclusion: it was unproven the round before, somebody can still judge it,
\* and every judge that can spoke in this round and said what it said last.
THEOREM DiscardNeedsRepetition == Spec => DiscardedOnlyUnchanged
<1>1. Init => EveryJudgeReports /\ SignaturesAreVotes
  BY DEF Init, EveryJudgeReports, SignaturesAreVotes, OpenClaims
<1>2. Inv /\ Bench /\ EveryJudgeReports /\ SignaturesAreVotes /\ [Next]_vars
        => EveryJudgeReports' /\ SignaturesAreVotes'
  BY EveryJudgeReportsKept, SignaturesAreVotesKept DEF Bench
<1> DEFINE Repeated == \A c \in DOMAIN states : states[c] # Discarded /\ states'[c] = Discarded =>
          /\ states[c] = Unproven
          /\ Roster \ claims[c].origin # {}
          /\ \A f \in Roster \ claims[c].origin :
               \E v, w \in VotesOn(c) :
                   /\ v.judge = f /\ v.round = round
                   /\ w.judge = f /\ w.round < round
                   /\ \A u \in VotesOn(c) : u.judge = f => u.round <= w.round \/ u.round = round
                   /\ SameVote(v, w)
<1>3. Inv /\ Bench /\ AuthorsNeverJudge /\ EveryJudgeReports /\ SignaturesAreVotes /\ [Next]_vars
        => Repeated
  BY DiscardingStep
<1> QED
  BY <1>1, <1>2, <1>3, InvHolds, BenchHolds, NoAuthorJudges, PTL DEF Spec, DiscardedOnlyUnchanged

-----------------------------------------------------------------------------
(* Claims from a critique round.                                           *)

Trackers == [Friends -> [last : Reasons \union {NoFailure}, count : Nat, disabled : BOOLEAN]]

ClaimsTyped(cs) ==
    /\ DOMAIN cs \subseteq Ids /\ IsFiniteSet(DOMAIN cs) /\ NoClaim \notin DOMAIN cs
    /\ \A c \in DOMAIN cs : cs[c] \in ClaimType

\* Finitely many naturals have a bound.
LEMMA BoundOfSequence ==
    ASSUME NEW k \in Nat, NEW num \in [1 .. k -> Nat]
    PROVE  \E u \in Nat : \A j \in 1 .. k : num[j] <= u
<1> DEFINE Bounded(i) == \E u \in Nat : \A j \in 1 .. i : num[j] <= u
           Wild == {i \in 0 .. k : ~Bounded(i)}
<1>1. Wild = {}
  <2> SUFFICES ASSUME Wild # {} PROVE FALSE
    OBVIOUS
  <2> HIDE DEF Bounded
  <2>1. PICK i \in Wild : \A j \in Wild : i <= j
    <3>1. Wild \in SUBSET Nat
      OBVIOUS
    <3> HIDE DEF Wild
    <3> QED
      BY <3>1, LeastNatural
  <2>2. i \in 0 .. k /\ ~Bounded(i)
    BY <2>1
  <2>3. i # 0
    <3>1. 0 \in Nat /\ \A j \in 1 .. 0 : num[j] <= 0
      OBVIOUS
    <3>2. Bounded(0)
      BY <3>1 DEF Bounded
    <3> QED
      BY <2>2, <3>2
  <2>4. i - 1 \in 0 .. k /\ i \in 1 .. k
    BY <2>2, <2>3
  <2>5. Bounded(i - 1)
    <3>1. ~(i <= i - 1)
      BY <2>2
    <3> QED
      BY <2>1, <2>4, <3>1
  <2>6. PICK u \in Nat : \A j \in 1 .. i - 1 : num[j] <= u
    BY <2>5 DEF Bounded
  <2>7. PICK w \in Nat : u <= w /\ num[i] <= w
    <3>1. num[i] \in Nat
      BY <2>4
    <3>2. CASE u <= num[i]
      <4>1. u <= num[i] /\ num[i] <= num[i]
        BY <3>1, <3>2
      <4> QED
        BY <3>1, <4>1
    <3>3. CASE num[i] <= u
      <4>1. u <= u /\ num[i] <= u
        BY <3>3
      <4> QED
        BY <4>1
    <3> QED
      BY <3>1, <3>2, <3>3
  <2>8. \A j \in 1 .. i : num[j] <= w
    <3> SUFFICES ASSUME NEW j \in 1 .. i PROVE num[j] <= w
      OBVIOUS
    <3>1. CASE j = i
      BY <2>7, <3>1
    <3>2. CASE j # i
      <4>1. j \in 1 .. i - 1 /\ num[j] \in Nat
        BY <2>4, <3>2
      <4> QED
        BY <2>6, <2>7, <4>1
    <3> QED
      BY <3>1, <3>2
  <2>9. Bounded(i)
    BY <2>8 DEF Bounded
  <2> QED
    BY <2>2, <2>9
<1>2. k \in 0 .. k
  OBVIOUS
<1> QED
  BY <1>1, <1>2

\* Finitely many claims have a greatest number.
LEMMA GreatestNumber ==
    ASSUME NEW S \in SUBSET (Nat \X Nat), IsFiniteSet(S), S # {}
    PROVE  \E n \in {c[1] : c \in S} : \A c \in S : c[1] <= n
<1>1. PICK k \in Nat : \E f \in [1 .. k -> S] : \A c \in S : \E i \in 1 .. k : f[i] = c
  <2>1. Cardinality(S) \in Nat /\ ExistsBijection(1 .. Cardinality(S), S)
    BY FS_CardinalityType
  <2>2. PICK f \in Bijection(1 .. Cardinality(S), S) : TRUE
    BY <2>1 DEF ExistsBijection
  <2> QED
    BY <2>1, <2>2 DEF Bijection, Surjection
<1>2. PICK f \in [1 .. k -> S] : \A c \in S : \E i \in 1 .. k : f[i] = c
  BY <1>1
<1> DEFINE num == [i \in 1 .. k |-> f[i][1]]
<1>3. num \in [1 .. k -> Nat]
  BY <1>2
<1>4. \A c \in S : \E i \in 1 .. k : num[i] = c[1]
  BY <1>2
<1> HIDE DEF num
<1>5. PICK u \in Nat : \A j \in 1 .. k : num[j] <= u
  BY <1>3, BoundOfSequence
<1>6. \A c \in S : c[1] \in Nat
  OBVIOUS
<1> DEFINE Numbers == {c[1] : c \in S}
           Above == {m \in Nat : \A x \in Numbers : x <= m}
<1>7. Numbers \in SUBSET Nat /\ Numbers # {}
  BY <1>6
<1>8. Above # {}
  <2>1. \A x \in Numbers : x <= u
    BY <1>4, <1>5
  <2> QED
    BY <2>1
<1>9. \A x \in Numbers : \E c \in S : x = c[1]
  OBVIOUS
<1>10. \A c \in S : c[1] \in Numbers
  OBVIOUS
<1> HIDE DEF Numbers
<1>11. PICK n \in Above : \A m \in Above : n <= m
  <2>1. Above \in SUBSET Nat
    OBVIOUS
  <2> HIDE DEF Above
  <2> QED
    BY <1>8, <2>1, LeastNatural
<1>12. n \in Nat /\ \A x \in Numbers : x <= n
  BY <1>11
<1>13. n \in Numbers
  <2> SUFFICES ASSUME n \notin Numbers PROVE FALSE
    OBVIOUS
  <2>1. \A x \in Numbers : x \in Nat /\ x < n
    BY <1>7, <1>12
  <2>2. n - 1 \in Nat
    <3>1. PICK x \in Numbers : TRUE
      BY <1>7
    <3>2. x \in Nat /\ x < n
      BY <2>1, <3>1
    <3> QED
      BY <1>12, <3>2
  <2>3. n - 1 \in Above
    BY <1>12, <2>1, <2>2
  <2> QED
    BY <1>11, <1>12, <2>3
<1> QED
  BY <1>10, <1>12, <1>13 DEF Numbers

LEMMA LastNumberType ==
    ASSUME ClaimsTyped(claims)
    PROVE  LastNumber \in Nat
<1>1. CASE DOMAIN claims = {}
  BY <1>1 DEF LastNumber
<1>2. CASE DOMAIN claims # {}
  <2> DEFINE S == DOMAIN claims
  <2>1. S \in SUBSET (Nat \X Nat) /\ IsFiniteSet(S) /\ S # {}
    BY <1>2 DEF ClaimsTyped, Ids
  <2>2. LastNumber = CHOOSE n \in {c[1] : c \in S} : \A c \in S : c[1] <= n
    BY <1>2 DEF LastNumber
  <2> HIDE DEF S
  <2>3. \E n \in {c[1] : c \in S} : \A c \in S : c[1] <= n
    BY <2>1, GreatestNumber
  <2>4. LastNumber \in {c[1] : c \in S}
    BY <2>2, <2>3
  <2> QED
    BY <2>1, <2>4
<1> QED
  BY <1>1, <1>2

LEMMA NumberingType ==
    ASSUME NEW friends \in SUBSET Friends
    PROVE  Numbering(friends) \in [friends -> Nat]
<1> DEFINE n == Cardinality(friends)
           Counts(g) == \A f, h \in friends : g[f] = g[h] => f = h
<1>1. IsFiniteSet(friends) /\ n \in Nat
  BY RosterAssumption, FS_Subset, FS_CardinalityType
<1>2. IsFiniteSet(1 .. n) /\ Cardinality(1 .. n) = n
  BY <1>1, FS_Interval
<1>3. ExistsBijection(friends, 1 .. n)
  BY <1>1, <1>2, FS_SameCardinalityBij
<1>4. \E g \in [friends -> 1 .. n] : Counts(g)
  BY <1>3 DEF ExistsBijection, Bijection, Injection, IsInjective
<1>5. Numbering(friends) = CHOOSE g \in [friends -> 1 .. n] : Counts(g)
  BY DEF Numbering
<1> HIDE DEF n, Counts
<1>6. Numbering(friends) \in [friends -> 1 .. n]
  BY <1>4, <1>5
<1>7. 1 .. n \subseteq Nat
  BY <1>1
<1> QED
  BY <1>6, <1>7

\* The claims a round raises are claims, and the ones there are stay.
LEMMA WithClaimsOfTyped ==
    ASSUME ClaimsTyped(claims), NEW known, ClaimsTyped(known), NEW friends \in SUBSET Friends,
           iteration \in 1 .. MaxIterations
    PROVE  /\ ClaimsTyped(WithClaimsOf(friends, known))
           /\ DOMAIN known \subseteq DOMAIN WithClaimsOf(friends, known)
<1> DEFINE number == Numbering(friends)
           id(f)  == <<LastNumber + number[f], 1>>
           new    == {id(f) : f \in friends}
           born(c) == [origin |-> {f \in friends : id(f) = c}, supersedes |-> NoClaim,
                       round |-> BaseRound, text |-> AsRaised]
           all    == WithClaimsOf(friends, known)
<1>1. all = [c \in DOMAIN known \union new |-> IF c \in new THEN born(c) ELSE known[c]]
  BY DEF WithClaimsOf
<1>2. number \in [friends -> Nat] /\ LastNumber \in Nat
  BY NumberingType, LastNumberType
<1>3. \A f \in friends : id(f) \in Ids /\ id(f) # NoClaim
  <2>1. \A f \in friends : LastNumber + number[f] \in Nat
    BY <1>2
  <2> HIDE DEF number
  <2> QED
    BY <2>1 DEF Ids, NoClaim
<1>4. IsFiniteSet(new)
  <2>1. IsFiniteSet(friends)
    BY RosterAssumption, FS_Subset
  <2> HIDE DEF id
  <2>2. [f \in friends |-> id(f)] \in Surjection(friends, new)
    BY DEF Surjection
  <2> QED
    BY <2>1, <2>2, FS_Surjection
<1>5. BaseRound \in Nat
  <2>1. MaxRounds \in Nat /\ iteration - 1 \in Nat
    BY BoundsAssumption
  <2>2. (iteration - 1) * MaxRounds \in Nat
    BY <2>1
  <2> QED
    BY <2>2 DEF BaseRound
<1>6. \A c : born(c) \in ClaimType
  <2>1. NoClaim \in Ids /\ AsRaised \in {AsRaised}
    BY DEF Ids, NoClaim
  <2> HIDE DEF id
  <2> QED
    BY <1>5, <2>1 DEF ClaimType
<1> HIDE DEF new, born, all, id, number
<1>7. new \subseteq Ids /\ NoClaim \notin new
  BY <1>3 DEF new
<1>8. DOMAIN all = DOMAIN known \union new
  BY <1>1
<1>9. IsFiniteSet(DOMAIN known \union new)
  BY <1>4, FS_Union DEF ClaimsTyped
<1>10. \A c \in DOMAIN all : all[c] \in ClaimType
  BY <1>1, <1>6, <1>8 DEF ClaimsTyped
<1> QED
  BY <1>7, <1>8, <1>9, <1>10 DEF ClaimsTyped, all

LEMMA ClaimsAfterTyped ==
    ASSUME ClaimsTyped(claims), iteration \in 1 .. MaxIterations,
           NEW reported \in SUBSET Friends, NEW results \in [reported -> Findings]
    PROVE  /\ ClaimsTyped(ClaimsAfter(results))
           /\ DOMAIN claims \subseteq DOMAIN ClaimsAfter(results)
<1> DEFINE known == Corroborated(results)
<1>1. DOMAIN known = DOMAIN claims
  BY DEF Corroborated
<1>2. \A c \in DOMAIN claims : known[c] \in ClaimType
  <2> SUFFICES ASSUME NEW c \in DOMAIN claims PROVE known[c] \in ClaimType
    OBVIOUS
  <2> DEFINE more == {f \in DOMAIN results : results[f] = <<"again", c>>}
  <2>1. known[c] = [claims[c] EXCEPT !.origin = @ \union more]
    BY DEF Corroborated
  <2>2. more \subseteq Friends
    OBVIOUS
  <2> HIDE DEF more, known
  <2>3. claims[c] \in ClaimType
    BY DEF ClaimsTyped
  <2> QED
    BY <2>1, <2>2, <2>3 DEF ClaimType
<1>3. ClaimsTyped(known)
  BY <1>1, <1>2 DEF ClaimsTyped
<1>4. Those(results, IsNew) \in SUBSET Friends
  BY DEF Those
<1> HIDE DEF known
<1>5. /\ ClaimsTyped(WithClaimsOf(Those(results, IsNew), known))
      /\ DOMAIN known \subseteq DOMAIN WithClaimsOf(Those(results, IsNew), known)
  BY <1>3, <1>4, WithClaimsOfTyped
<1> QED
  BY <1>1, <1>5 DEF ClaimsAfter, known

-----------------------------------------------------------------------------
(* The inductive invariant of the loop.                                    *)

\* The votes on disk are votes on claims there are, and the ones in memory
\* are among them.
LedgerTyped ==
    /\ verdicts \subseteq ledger /\ ledger \subseteq VoteType
    /\ \A v \in ledger : v.claim \in DOMAIN claims

\* What the halted process left in run.json is what it had in memory; the
\* states only when they are to be carried over.
HaltTyped ==
    /\ iteration \in 1 .. MaxIterations /\ tracker \in Trackers /\ calls \in Nat
    /\ states \in [DOMAIN states -> ClaimStates] /\ DOMAIN states \subseteq DOMAIN claims
    /\ saved.iteration = iteration /\ saved.tracker = tracker /\ saved.calls = calls
    /\ saved.incomplete \in BOOLEAN
    /\ saved.states = IF carried THEN states ELSE <<>>

LoopInv ==
    /\ at \in {"top", "judging", "halted", "ended"}
    /\ at \in {"top", "judging"} => Inv
    /\ at # "judging" => queue = {}
    /\ at # "ended" => ClaimsTyped(claims) /\ LedgerTyped
    /\ at = "halted" => HaltTyped
    /\ carried \in BOOLEAN
    /\ edition \in Seq(Nat) /\ (carried \/ at = "halted" => edition # <<>>)

\* What a block of judging rounds starts from satisfies Crossexam's invariant.
LEMMA StartBlockInv ==
    ASSUME NEW known, ClaimsTyped(known), NEW prior, StartBlock(known, prior),
           prior.states \in [DOMAIN prior.states -> ClaimStates],
           prior.verdicts \subseteq VoteType, \A v \in prior.verdicts : v.claim \in DOMAIN known,
           prior.incomplete \in BOOLEAN,
           iteration' \in 1 .. MaxIterations, round' \in Nat, tracker' \in Trackers,
           calls' \in Nat, interrupted' \in BOOLEAN
    PROVE  Inv'
<1>1. /\ claims' = known /\ verdicts' = prior.verdicts /\ incomplete' = prior.incomplete
      /\ stop' = "none" /\ pc' = "round"
      /\ active' = Friends /\ queue' = {} /\ missing' = {} /\ unsettled' = {}
      /\ DOMAIN signatures' = DOMAIN known
  BY DEF StartBlock
<1>2. states' \in [DOMAIN known -> ClaimStates]
  BY DEF StartBlock, ClaimStates
<1>3. TypeOK'
  BY <1>1, <1>2 DEF TypeOK, ClaimsTyped, Trackers
<1>4. Bookkeeping'
  BY <1>1 DEF Bookkeeping, ClaimsTyped
<1> QED
  BY <1>3, <1>4 DEF Inv

\* A step of the judging rounds is Crossexam's.
LEMMA JudgingIsCrossexam ==
    ASSUME JudgingStep
    PROVE  Next /\ at = "judging" /\ at' = "judging"
  BY DEF JudgingStep, Judge, Next

\* The tracker after a critique round is one.
LEMMA TrackerAfterType ==
    ASSUME tracker \in Trackers, NEW reported \in SUBSET Friends, NEW results \in [reported -> Findings]
    PROVE  TrackerAfter(results) \in Trackers
<1> SUFFICES ASSUME NEW f \in Friends
             PROVE  TrackerAfter(results)[f] \in [last : Reasons \union {NoFailure}, count : Nat,
                                                  disabled : BOOLEAN]
  BY DEF TrackerAfter, Trackers
<1> DEFINE failure == IF HasFailed(results[f]) THEN results[f][1] ELSE NoFailure
<1>1. tracker[f] \in [last : Reasons \union {NoFailure}, count : Nat, disabled : BOOLEAN]
  BY DEF Trackers
<1>2. failure \in Reasons \union {NoFailure}
  BY DEF HasFailed
<1> HIDE DEF failure
<1>3. Recorded(tracker[f], failure) \in [last : Reasons \union {NoFailure}, count : Nat, disabled : BOOLEAN]
  BY <1>1, <1>2, RecordedType
<1> QED
  BY <1>1, <1>3 DEF TrackerAfter, failure

\* Before the first critique round.
LEMMA LoopInitInv == LoopInit => LoopInv
<1> SUFFICES ASSUME LoopInit PROVE LoopInv
  OBVIOUS
<1>1. Inv
  BY InitInv DEF LoopInit
<1>2. queue = {} /\ verdicts = {}
  BY DEF LoopInit, Init
<1>3. ClaimsTyped(claims)
  BY <1>1 DEF Inv, TypeOK, Bookkeeping, ClaimsTyped
<1>4. edition \in Seq(Nat)
  BY DEF LoopInit
<1> QED
  BY <1>1, <1>2, <1>3, <1>4 DEF LoopInit, LoopInv, LedgerTyped

\* A step of the judging rounds.
LEMMA JudgingLoopInv ==
    ASSUME LoopInv, JudgingStep
    PROVE  LoopInv'
<1>1. Inv /\ ClaimsTyped(claims) /\ LedgerTyped /\ at = "judging" /\ at' = "judging"
      /\ [Next]_vars
  BY JudgingIsCrossexam DEF LoopInv
<1>2. Inv'
  BY <1>1, NextInv
<1>3. ClaimsTyped(claims')
  BY <1>2 DEF Inv, TypeOK, Bookkeeping, ClaimsTyped
<1>4. ledger' = ledger \union verdicts'
  BY DEF JudgingStep
<1>5. DOMAIN claims \subseteq DOMAIN claims'
  BY <1>1, OriginsKept
<1>6. LedgerTyped'
  BY <1>1, <1>2, <1>4, <1>5 DEF LedgerTyped, Inv, TypeOK, Bookkeeping
<1>7. UNCHANGED <<carried, edition>>
  BY DEF JudgingStep
<1> QED
  BY <1>1, <1>2, <1>3, <1>6, <1>7 DEF LoopInv

\* Leaving the loop, or going round it once more.
LEMMA LeavingLoopInv ==
    ASSUME LoopInv, StopAtTop \/ EndIteration \/ LateAfterResume
    PROVE  LoopInv'
<1>1. CASE StopAtTop
  BY <1>1 DEF StopAtTop, End, LoopInv, vars, roundVars
<1>2. CASE LateAfterResume
  <2>1. queue = {}
    BY <1>2 DEF LateAfterResume, BlockOver, LoopInv, Inv, Bookkeeping
  <2> QED
    BY <1>2, <2>1 DEF LateAfterResume, End, LoopInv, vars, roundVars
<1>3. CASE EndIteration
  <2>1. Inv /\ pc = "stopped" /\ at = "judging" /\ queue = {}
    BY <1>3 DEF EndIteration, BlockOver, LoopInv, Inv, Bookkeeping
  <2>2. /\ UNCHANGED <<round, pc, stop, recordVars, tracker, calls, incomplete, roundVars, interrupted>>
        /\ UNCHANGED <<ledger, edition, carried>>
    BY <1>3 DEF EndIteration
  <2>3. CASE at' = "ended"
    BY <2>1, <2>2, <2>3 DEF LoopInv, roundVars
  <2>4. CASE at' = "top" /\ iteration # MaxIterations /\ iteration' = iteration + 1
    <3>1. TypeOK'
      <4>1. iteration' \in 1 .. MaxIterations
        BY <2>1, <2>4, BoundsAssumption DEF Inv, TypeOK
      <4> QED
        BY <2>1, <2>2, <4>1 DEF Inv, TypeOK, roundVars, recordVars
    <3>2. Bookkeeping'
      BY <2>1, <2>2 DEF Inv, Bookkeeping, OpenClaims, roundVars, recordVars
    <3>3. ClaimsTyped(claims') /\ LedgerTyped'
      BY <2>1, <2>2 DEF LoopInv, LedgerTyped, ClaimsTyped, recordVars
    <3> QED
      BY <2>1, <2>2, <2>4, <3>1, <3>2, <3>3 DEF LoopInv, Inv, roundVars
  <2> QED
    BY <1>3, <2>3, <2>4 DEF EndIteration, End
<1> QED
  BY <1>1, <1>2, <1>3

\* What is handed to a block of judging rounds that carries nothing, or what
\* the process itself decided before.
LEMMA PriorTyped ==
    ASSUME LoopInv, at = "top", NEW kept \in BOOLEAN, NEW known, DOMAIN claims \subseteq DOMAIN known,
           NEW prior, prior = IF kept THEN CarryOver ELSE NothingCarried
    PROVE  /\ prior.states \in [DOMAIN prior.states -> ClaimStates]
           /\ prior.verdicts \subseteq VoteType
           /\ \A v \in prior.verdicts : v.claim \in DOMAIN known
           /\ prior.incomplete \in BOOLEAN
<1>1. CASE kept
  <2>1. prior.states = states /\ prior.verdicts = verdicts /\ prior.incomplete = incomplete
    BY <1>1 DEF CarryOver
  <2>2. Inv
    BY DEF LoopInv
  <2>3. states \in [DOMAIN states -> ClaimStates]
    BY <2>2 DEF Inv, TypeOK
  <2> QED
    BY <2>1, <2>2, <2>3 DEF Inv, TypeOK, Bookkeeping
<1>2. CASE ~kept
  <2>1. prior.states = <<>> /\ prior.verdicts = {} /\ prior.incomplete = FALSE
    BY <1>2 DEF NothingCarried
  <2>2. <<>> \in [DOMAIN <<>> -> ClaimStates]
    OBVIOUS
  <2> QED
    BY <2>1, <2>2
<1> QED
  BY <1>1, <1>2

\* A critique round, in each of the four ways it may end.
LEMMA CritiqueLoopInv ==
    ASSUME LoopInv, NEW reported \in SUBSET Dispatchable, NEW revised \in BOOLEAN,
           NEW results \in [reported -> Findings], CritiqueRound(results, revised)
    PROVE  LoopInv'
<1> DEFINE known == ClaimsAfter(results)
           kept  == carried /\ ~revised
<1>1. Inv /\ at = "top" /\ ClaimsTyped(claims) /\ LedgerTyped /\ queue = {} /\ carried \in BOOLEAN
      /\ edition \in Seq(Nat) /\ kept \in BOOLEAN
  BY DEF LoopInv, CritiqueRound
<1>2. /\ iteration' = iteration /\ ledger' = ledger
      /\ iteration \in 1 .. MaxIterations /\ round \in Nat /\ tracker \in Trackers /\ calls \in Nat
      /\ states \in [DOMAIN claims -> ClaimStates]
  BY <1>1 DEF CritiqueRound, Inv, TypeOK, Trackers
<1>3. reported \in SUBSET Friends /\ DOMAIN results = reported
  BY DEF Dispatchable
<1>4. ClaimsTyped(known) /\ DOMAIN claims \subseteq DOMAIN known
  BY <1>1, <1>2, <1>3, ClaimsAfterTyped
<1>5. tracker' \in Trackers /\ interrupted' \in BOOLEAN /\ calls' \in Nat
  <2>1. IsFiniteSet(reported) /\ Cardinality(reported) \in Nat
    BY <1>3, RosterAssumption, FS_Subset, FS_CardinalityType
  <2>2. tracker' = TrackerAfter(results) /\ calls' = calls + Cardinality(reported)
        /\ interrupted' = (DOMAIN results # Dispatchable \/ Aborted(results))
    BY <1>3 DEF CritiqueRound
  <2>3. tracker' \in Trackers
    BY <1>2, <1>3, <2>2, TrackerAfterType
  <2>4. interrupted' \in BOOLEAN
    BY <2>2
  <2> QED
    BY <1>2, <2>1, <2>2, <2>3, <2>4
<1>6. edition' \in Seq(Nat) /\ edition' # <<>>
  <2>1. EditionRead(revised) \in Nat
    BY <1>1 DEF EditionRead
  <2>2. edition' = Append(edition, EditionRead(revised))
    BY DEF CritiqueRound
  <2> QED
    BY <1>1, <2>1, <2>2
<1> HIDE DEF known, kept
<1>7. ASSUME NEW roundDry, NEW roundFailed, Halt(roundDry, roundFailed, results, kept), carried' = kept
      PROVE  LoopInv'
  <2>1. /\ at' = "halted" /\ claims' = known /\ UNCHANGED <<states, verdicts, roundVars>>
        /\ saved'.iteration = iteration /\ saved'.calls = calls' /\ saved'.tracker = tracker'
        /\ saved'.states = IF kept THEN states ELSE <<>>
        /\ saved'.incomplete = (kept /\ incomplete)
    BY <1>7 DEF Halt, known
  <2>2. LedgerTyped'
    BY <1>1, <1>2, <1>4, <2>1 DEF LedgerTyped
  <2>3. HaltTyped'
    BY <1>2, <1>4, <1>5, <1>7, <2>1 DEF HaltTyped
  <2> QED
    BY <1>1, <1>4, <1>6, <1>7, <2>1, <2>2, <2>3 DEF LoopInv, roundVars
<1>8. ASSUME StartBlock(known, IF kept THEN CarryOver ELSE NothingCarried), round' = BaseRound + 1,
             carried' = (known # <<>>)
      PROVE  LoopInv'
  <2> DEFINE prior == IF kept THEN CarryOver ELSE NothingCarried
  <2>1. /\ prior.states \in [DOMAIN prior.states -> ClaimStates]
        /\ prior.verdicts \subseteq VoteType
        /\ \A v \in prior.verdicts : v.claim \in DOMAIN known
        /\ prior.incomplete \in BOOLEAN
    BY <1>1, <1>4, PriorTyped
  <2>2. round' \in Nat
    <3>1. MaxRounds \in Nat /\ iteration - 1 \in Nat
      BY <1>2, BoundsAssumption
    <3>2. (iteration - 1) * MaxRounds \in Nat
      BY <3>1
    <3> QED
      BY <1>8, <3>2 DEF BaseRound
  <2>3. at' = "judging" /\ claims' = known /\ verdicts' = prior.verdicts
    BY <1>8 DEF StartBlock
  <2>4. prior.verdicts \subseteq verdicts
    BY DEF CarryOver, NothingCarried
  <2>5. StartBlock(known, prior)
    BY <1>8
  <2> HIDE DEF prior
  <2>6. Inv'
    BY <1>2, <1>4, <1>5, <2>1, <2>2, <2>5, StartBlockInv
  <2>7. LedgerTyped'
    BY <1>1, <1>2, <1>4, <2>3, <2>4 DEF LedgerTyped
  <2>8. carried' \in BOOLEAN
    BY <1>8
  <2> QED
    BY <1>4, <1>6, <2>3, <2>6, <2>7, <2>8 DEF LoopInv
<1>9. ASSUME at' = "ended", UNCHANGED roundVars, carried' = kept
      PROVE  LoopInv'
  BY <1>1, <1>6, <1>9 DEF LoopInv, roundVars
<1> QED
  BY <1>7, <1>8, <1>9 DEF CritiqueRound, Conclude, End, known, kept

\* A resume: the process starts from what the halted one left.
LEMMA ResumeLoopInv ==
    ASSUME LoopInv, NEW extracted \in SUBSET Friends, Resume(extracted)
    PROVE  LoopInv'
<1> DEFINE known == WithClaimsOf(extracted, claims)
<1>1. HaltTyped /\ ClaimsTyped(claims) /\ LedgerTyped /\ edition \in Seq(Nat)
  BY DEF LoopInv, Resume
<1>2. ClaimsTyped(known) /\ DOMAIN claims \subseteq DOMAIN known
  BY <1>1, WithClaimsOfTyped DEF HaltTyped
<1> DEFINE prior == CarriedOutcome
<1>3. /\ prior.states \in [DOMAIN prior.states -> ClaimStates]
      /\ prior.verdicts \subseteq ledger
      /\ prior.incomplete \in BOOLEAN
  <2>1. CASE saved.states = <<>>
    BY <2>1 DEF CarriedOutcome, NothingCarried
  <2>2. CASE saved.states # <<>>
    <3>1. prior.states = saved.states /\ prior.verdicts = ledger /\ prior.incomplete = saved.incomplete
      BY <2>2 DEF CarriedOutcome
    <3>2. saved.states = states
      BY <1>1, <2>2 DEF HaltTyped
    <3> QED
      BY <1>1, <3>1, <3>2 DEF HaltTyped
  <2> QED
    BY <2>1, <2>2
<1>4. prior.verdicts \subseteq VoteType /\ \A v \in prior.verdicts : v.claim \in DOMAIN known
  BY <1>1, <1>2, <1>3 DEF LedgerTyped
<1>5. /\ StartBlock(known, prior)
      /\ iteration' = saved.iteration /\ round' = (saved.iteration - 1) * MaxRounds + 2
      /\ tracker' = saved.tracker /\ calls' = saved.calls
      /\ interrupted' = FALSE /\ carried' = (claims' # <<>>)
      /\ UNCHANGED <<ledger, edition>>
  BY DEF Resume, ReentryPoint, SavedTracker, SpentCalls
<1>6. round' \in Nat
  <2>1. MaxRounds \in Nat /\ saved.iteration - 1 \in Nat
    BY <1>1, BoundsAssumption DEF HaltTyped
  <2>2. (saved.iteration - 1) * MaxRounds \in Nat
    BY <2>1
  <2> QED
    BY <1>5, <2>2
<1>7. iteration' \in 1 .. MaxIterations /\ tracker' \in Trackers /\ calls' \in Nat
  BY <1>1, <1>5 DEF HaltTyped
<1>8. edition # <<>>
  BY DEF Resume, LoopInv
<1> HIDE DEF known, prior
<1>9. Inv'
  BY <1>2, <1>3, <1>4, <1>5, <1>6, <1>7, StartBlockInv
<1>10. at' = "judging" /\ claims' = known /\ verdicts' = prior.verdicts
  BY <1>5 DEF StartBlock
<1>11. LedgerTyped'
  BY <1>1, <1>2, <1>3, <1>5, <1>10 DEF LedgerTyped
<1> QED
  BY <1>1, <1>2, <1>5, <1>8, <1>9, <1>10, <1>11 DEF LoopInv

\* Every step keeps the invariant of the loop.
LEMMA LoopNextInv == LoopInv /\ [LoopNext]_allVars => LoopInv'
<1> SUFFICES ASSUME LoopInv, [LoopNext]_allVars PROVE LoopInv'
  OBVIOUS
<1>1. CASE StopAtTop \/ EndIteration \/ LateAfterResume
  BY <1>1, LeavingLoopInv
<1>2. ASSUME NEW reported \in SUBSET Dispatchable, NEW revised \in BOOLEAN,
             NEW results \in [reported -> Findings], CritiqueRound(results, revised)
      PROVE  LoopInv'
  BY <1>2, CritiqueLoopInv
<1>3. ASSUME NEW extracted \in SUBSET Friends, Resume(extracted) PROVE LoopInv'
  BY <1>3, ResumeLoopInv
<1>4. CASE JudgingStep
  BY <1>4, JudgingLoopInv
<1>5. CASE UNCHANGED allVars
  <2>1. UNCHANGED vars /\ UNCHANGED <<at, carried, saved, ledger, edition>>
    BY <1>5 DEF allVars, loopVars
  <2>2. UNCHANGED <<iteration, round, pc, stop, claims, states, signatures, verdicts, tracker, calls,
                    incomplete, active, queue, missing, unsettled, interrupted>>
    BY <2>1 DEF vars, recordVars, roundVars
  <2>3. Inv => Inv'
    BY <2>1, NextInv
  <2> QED
    BY <2>1, <2>2, <2>3 DEF LoopInv, ClaimsTyped, LedgerTyped, HaltTyped
<1> QED
  BY <1>1, <1>2, <1>3, <1>4, <1>5 DEF LoopNext

\* The invariant holds over every iteration, halt and process.
THEOREM LoopInvHolds == LoopSpec => []LoopInv
<1> QED
  BY LoopInitInv, LoopNextInv, PTL DEF LoopSpec

-----------------------------------------------------------------------------
(* The ceiling on calls, over all the processes of a run.                  *)

\* Inductive form: what is paid is what the budget says, and the friends
\* still running are already paid for.
PaidAsCounted == paid = calls /\ calls \in Nat /\ PaidFor

\* A critique round pays for no more friends than it asked about.
LEMMA CritiquePays ==
    ASSUME LoopInv, PaidAsCounted, NEW reported \in SUBSET Dispatchable, NEW revised \in BOOLEAN,
           NEW results \in [reported -> Findings], CritiqueRound(results, revised)
    PROVE  PaidAsCounted'
<1>1. /\ calls' = calls + Cardinality(reported) /\ paid' = paid + Cardinality(reported)
      /\ calls \in Nat /\ MaxCalls \in Nat /\ at = "top"
      /\ ~(calls + Cardinality(Dispatchable) > MaxCalls)
  BY BoundsAssumption DEF CritiqueRound, CritiqueFits, WouldExceedCalls, LoopInv, Inv, TypeOK
<1>2. IsFiniteSet(Dispatchable)
  BY RosterAssumption, FS_Subset DEF Dispatchable
<1>3. /\ Cardinality(reported) \in Nat /\ Cardinality(Dispatchable) \in Nat
      /\ Cardinality(reported) <= Cardinality(Dispatchable)
  BY <1>2, FS_Subset, FS_CardinalityType
<1>4. queue' = {}
  <2>1. queue = {}
    BY <1>1 DEF LoopInv
  <2> QED
    BY <2>1 DEF CritiqueRound, Conclude, Halt, StartBlock, roundVars
<1>5. Cardinality({}) = 0
  BY FS_EmptySet
<1> QED
  BY <1>1, <1>3, <1>4, <1>5 DEF PaidAsCounted, PaidFor

\* Every step pays for what it counts.
LEMMA PaidAsCountedKept == LoopInv /\ PaidAsCounted /\ [LoopNext]_allVars => PaidAsCounted'
<1> SUFFICES ASSUME LoopInv, PaidAsCounted, [LoopNext]_allVars PROVE PaidAsCounted'
  OBVIOUS
<1>1. ASSUME NEW reported \in SUBSET Dispatchable, NEW revised \in BOOLEAN,
             NEW results \in [reported -> Findings], CritiqueRound(results, revised)
      PROVE  PaidAsCounted'
  BY <1>1, CritiquePays
<1>2. ASSUME NEW extracted \in SUBSET Friends, Resume(extracted) PROVE PaidAsCounted'
  <2>1. queue = {} /\ queue' = {} /\ calls' = calls /\ paid' = paid
    BY <1>2 DEF Resume, StartBlock, SpentCalls, LoopInv, HaltTyped
  <2> QED
    BY <2>1 DEF PaidAsCounted, PaidFor
<1>3. CASE JudgingStep
  <2>1. Inv /\ [Next]_vars
    BY <1>3, JudgingIsCrossexam DEF LoopInv
  <2>2. PaidFor'
    BY <2>1, PaidForKept DEF PaidAsCounted
  <2>3. calls \in Nat /\ calls' \in Nat
    BY <2>1, NextInv DEF Inv, TypeOK
  <2>4. paid' = paid + calls' - calls
    BY <1>3 DEF JudgingStep
  <2>5. paid' = calls'
    <3>1. paid = calls
      BY DEF PaidAsCounted
    <3>2. paid' = calls + (calls' - calls)
      BY <2>4, <3>1
    <3>3. \A m, n \in Nat : m + (n - m) = n
      OBVIOUS
    <3>4. calls + (calls' - calls) = calls'
      BY <2>3, <3>3, Zenon
    <3> QED
      BY <3>2, <3>4
  <2> QED
    BY <2>2, <2>3, <2>5 DEF PaidAsCounted
<1>4. CASE StopAtTop \/ EndIteration \/ LateAfterResume \/ UNCHANGED allVars
  <2>1. UNCHANGED <<calls, queue, paid>>
    BY <1>4 DEF StopAtTop, EndIteration, LateAfterResume, allVars, loopVars, vars, roundVars
  <2> QED
    BY <2>1 DEF PaidAsCounted, PaidFor
<1> QED
  BY <1>1, <1>2, <1>3, <1>4 DEF LoopNext

\* However often the run halts and is resumed, and whatever the friends
\* answer, all its processes together pay for no more than --max-calls.
THEOREM BudgetKeptOverProcesses == LoopSpec => []PaidWithinMaxCalls
<1>1. LoopInit => PaidAsCounted
  BY FS_EmptySet, BoundsAssumption DEF LoopInit, Init, PaidAsCounted, PaidFor
<1>2. LoopInv /\ PaidAsCounted => PaidWithinMaxCalls
  <2> SUFFICES ASSUME LoopInv, PaidAsCounted PROVE PaidWithinMaxCalls
    OBVIOUS
  <2>1. Cardinality(queue) \in Nat
    <3>1. CASE at = "judging"
      BY <3>1, QueueFinite DEF LoopInv
    <3>2. CASE at # "judging"
      <4>1. queue = {}
        BY <3>2 DEF LoopInv
      <4> QED
        BY <4>1, FS_EmptySet
    <3> QED
      BY <3>1, <3>2
  <2> QED
    BY <2>1, BoundsAssumption DEF PaidAsCounted, PaidFor, PaidWithinMaxCalls
<1> QED
  BY <1>1, <1>2, LoopInvHolds, PaidAsCountedKept, PTL DEF LoopSpec

-----------------------------------------------------------------------------
(* A settled claim, over iterations, halts and processes.                  *)

\* A critique round forgets a state only when the artifact was edited.
LEMMA CritiqueKeepsStates ==
    ASSUME LoopInv, NEW reported \in SUBSET Dispatchable, NEW revised \in BOOLEAN,
           NEW results \in [reported -> Findings], CritiqueRound(results, revised),
           carried, Edition' = Edition, NEW c \in DOMAIN states
    PROVE  states'[c] = states[c]
<1> DEFINE known == ClaimsAfter(results)
           kept  == carried /\ ~revised
<1>1. Inv /\ at = "top" /\ ClaimsTyped(claims) /\ edition \in Seq(Nat) /\ edition # <<>>
  BY DEF LoopInv, CritiqueRound
<1>2. ~revised
  <2> SUFFICES ASSUME revised PROVE FALSE
    OBVIOUS
  <2> DEFINE n == Len(edition)
  <2>1. n \in Nat \ {0} /\ edition[n] \in Nat
    BY <1>1
  <2>2. edition' = Append(edition, edition[n] + 1)
    BY <1>1 DEF CritiqueRound, EditionRead
  <2>3. Edition' = edition[n] + 1
    BY <1>1, <2>1, <2>2 DEF Edition
  <2> QED
    BY <2>1, <2>3 DEF Edition
<1>3. DOMAIN states = DOMAIN claims /\ DOMAIN claims \subseteq DOMAIN known
  <2>1. DOMAIN states = DOMAIN claims /\ iteration \in 1 .. MaxIterations /\ reported \in SUBSET Friends
    BY <1>1 DEF Inv, TypeOK, Dispatchable
  <2> QED
    BY <1>1, <2>1, ClaimsAfterTyped
<1> HIDE DEF known, kept
<1>4. CASE UNCHANGED states
  BY <1>4
<1>5. CASE StartBlock(known, IF kept THEN CarryOver ELSE NothingCarried)
  <2>1. StartBlock(known, CarryOver)
    BY <1>2, <1>5 DEF kept
  <2> QED
    BY <1>3, <2>1 DEF StartBlock, CarryOver
<1> QED
  BY <1>4, <1>5 DEF CritiqueRound, Conclude, Halt, known, kept

\* A resumed process reads back every state that was to be carried over.
LEMMA ResumeKeepsStates ==
    ASSUME LoopInv, NEW extracted \in SUBSET Friends, Resume(extracted),
           carried, NEW c \in DOMAIN states
    PROVE  states'[c] = states[c]
<1> DEFINE known == WithClaimsOf(extracted, claims)
<1>1. HaltTyped /\ ClaimsTyped(claims)
  BY DEF LoopInv, Resume
<1>2. DOMAIN claims \subseteq DOMAIN known
  BY <1>1, WithClaimsOfTyped DEF HaltTyped
<1>3. saved.states = states
  BY <1>1 DEF HaltTyped
<1>4. CarriedOutcome.states = states
  BY <1>3 DEF CarriedOutcome, NothingCarried
<1>5. StartBlock(known, CarriedOutcome)
  BY DEF Resume
<1>6. c \in DOMAIN known
  BY <1>1, <1>2 DEF HaltTyped
<1> HIDE DEF known
<1> QED
  BY <1>4, <1>5, <1>6 DEF StartBlock

\* For every roster, every artifact and every answer: what was settled
\* against an edition of the artifact stays settled while later iterations,
\* in this process or in one that resumes the run, read the same edition.
THEOREM SettledOverProcesses == LoopSpec => SettledUntilRevised
<1> DEFINE Settled == \A c \in DOMAIN states :
             carried /\ Edition' = Edition /\ states[c] \in TerminalStates => states'[c] = states[c]
<1>1. LoopInv /\ [LoopNext]_allVars => Settled
  <2> SUFFICES ASSUME LoopInv, [LoopNext]_allVars, NEW c \in DOMAIN states,
                      carried, Edition' = Edition, states[c] \in TerminalStates
               PROVE  states'[c] = states[c]
    OBVIOUS
  <2>1. ASSUME NEW reported \in SUBSET Dispatchable, NEW revised \in BOOLEAN,
               NEW results \in [reported -> Findings], CritiqueRound(results, revised)
        PROVE  states'[c] = states[c]
    BY <2>1, CritiqueKeepsStates
  <2>2. ASSUME NEW extracted \in SUBSET Friends, Resume(extracted) PROVE states'[c] = states[c]
    BY <2>2, ResumeKeepsStates
  <2>3. CASE JudgingStep
    <3>1. Inv /\ [Next]_vars
      BY <2>3, JudgingIsCrossexam DEF LoopInv
    <3> QED
      BY <3>1, TerminalKept
  <2>4. CASE StopAtTop \/ EndIteration \/ LateAfterResume \/ UNCHANGED allVars
    BY <2>4 DEF StopAtTop, EndIteration, LateAfterResume, allVars, vars, recordVars
  <2> QED
    BY <2>1, <2>2, <2>3, <2>4 DEF LoopNext
<1> QED
  BY <1>1, LoopInvHolds, PTL DEF LoopSpec, SettledUntilRevised

-----------------------------------------------------------------------------
(* A friend that is out, over all the processes of a run.                  *)

\* Every step keeps it: nobody disabled is waiting to be read.
LEMMA LoopQueueDispatchable ==
    LoopInv /\ QueueDispatchable /\ [LoopNext]_allVars => QueueDispatchable'
<1> SUFFICES ASSUME LoopInv, QueueDispatchable, [LoopNext]_allVars PROVE QueueDispatchable'
  OBVIOUS
<1>1. CASE JudgingStep
  <2>1. Inv /\ [Next]_vars
    BY <1>1, JudgingIsCrossexam DEF LoopInv
  <2> QED
    BY <2>1, QueueDispatchableKept
<1>2. CASE ~JudgingStep /\ ~UNCHANGED allVars
  <2>1. LoopInv' /\ (at' = "judging" => queue' = {})
    <3>1. LoopInv'
      BY LoopNextInv
    <3>2. ASSUME NEW reported \in SUBSET Dispatchable, NEW revised \in BOOLEAN,
                 NEW results \in [reported -> Findings], CritiqueRound(results, revised),
                 at' = "judging"
          PROVE  queue' = {}
      BY <3>2 DEF CritiqueRound, Conclude, Halt, End, StartBlock
    <3>3. ASSUME NEW extracted \in SUBSET Friends, Resume(extracted) PROVE queue' = {}
      BY <3>3 DEF Resume, StartBlock
    <3>4. StopAtTop \/ EndIteration \/ LateAfterResume => at' # "judging"
      BY DEF StopAtTop, EndIteration, LateAfterResume, BlockOver, End
    <3> QED
      BY <1>2, <3>1, <3>2, <3>3, <3>4 DEF LoopNext
  <2>2. queue' = {}
    BY <2>1 DEF LoopInv
  <2> QED
    BY <2>2 DEF QueueDispatchable
<1>3. CASE UNCHANGED allVars
  BY <1>3 DEF allVars, vars, roundVars, QueueDispatchable, Disabled
<1> QED
  BY <1>1, <1>2, <1>3

\* The step property, for one friend.
LEMMA OutOfEveryStep ==
    ASSUME LoopInv, QueueDispatchable, [LoopNext]_allVars, NEW f \in Friends, Disabled(f)
    PROVE  /\ tracker'[f].disabled
           /\ {v \in ledger' : v.judge = f} = {v \in ledger : v.judge = f}
<1>1. ASSUME NEW reported \in SUBSET Dispatchable, NEW revised \in BOOLEAN,
             NEW results \in [reported -> Findings], CritiqueRound(results, revised)
      PROVE  tracker'[f] = tracker[f] /\ ledger' = ledger
  <2>1. f \notin DOMAIN results
    BY DEF Dispatchable
  <2> QED
    BY <1>1, <2>1 DEF CritiqueRound, TrackerAfter
<1>2. ASSUME NEW extracted \in SUBSET Friends, Resume(extracted)
      PROVE  tracker' = tracker /\ ledger' = ledger
  BY <1>2 DEF Resume, SavedTracker, LoopInv, HaltTyped
<1>3. CASE JudgingStep
  <2>1. Inv /\ [Next]_vars /\ LedgerTyped
    BY <1>3, JudgingIsCrossexam DEF LoopInv
  <2>2. /\ tracker'[f].disabled
        /\ {v \in verdicts' : v.judge = f} = {v \in verdicts : v.judge = f}
    BY <2>1, DisabledKept
  <2>3. ledger' = ledger \union verdicts'
    BY <1>3 DEF JudgingStep
  <2> QED
    BY <2>1, <2>2, <2>3 DEF LedgerTyped
<1>4. CASE StopAtTop \/ EndIteration \/ LateAfterResume \/ UNCHANGED allVars
  BY <1>4 DEF StopAtTop, EndIteration, LateAfterResume, allVars, loopVars, vars, Disabled
<1> QED
  BY <1>1, <1>2, <1>3, <1>4 DEF LoopNext, Disabled

\* For every roster and every answer, a friend that failed twice the same way
\* is asked by no later round of the run, in this process or in one that
\* resumes it: the tracker survives the halt.
THEOREM OutOverProcesses == LoopSpec => OutInEveryProcess
<1>1. LoopInit => QueueDispatchable
  BY DEF LoopInit, Init, QueueDispatchable
<1> DEFINE StaysOut == \A f \in Friends : Disabled(f) =>
             /\ tracker'[f].disabled
             /\ {v \in ledger' : v.judge = f} = {v \in ledger : v.judge = f}
<1>2. LoopInv /\ QueueDispatchable /\ [LoopNext]_allVars => StaysOut
  BY OutOfEveryStep
<1> QED
  BY <1>1, <1>2, LoopInvHolds, LoopQueueDispatchable, PTL DEF LoopSpec, OutInEveryProcess

-----------------------------------------------------------------------------
(* What a loop converges on.                                               *)

DryKinds   == {"dry", "cut", "unparsed"}
RoundKinds == DryKinds \union {"failed", "novel"}

\* The critique round before the last so many was one a streak counts.
WasDry(back) == Len(rounds) > back /\ rounds[Len(rounds) - back] \in DryKinds

\* A streak counts only rounds in a row that said nothing new, the last one
\* first: the round the loop is in is not counted before it is judged, by
\* what this process saw of it or by what the halted one left in run.json.
StreakCounts ==
    /\ rounds \in Seq(RoundKinds) /\ streak \in Nat
    /\ at = "top" => ~resuming /\ (streak >= 1 => WasDry(0))
    /\ at \in {"judging", "halted"} => Len(rounds) >= 1 /\ (streak >= 1 => WasDry(1))
    /\ at = "judging" /\ ~resuming => (dry /\ ~failed => WasDry(0))
    /\ at = "halted" \/ (at = "judging" /\ resuming) =>
          saved.streak = streak /\ (saved.dry /\ ~saved.failed => WasDry(0))

\* The loop is left once, and as converged only when nothing is open.
LeftOnce ==
    /\ ended # "no" => at = "ended"
    /\ ended = "converged" => Unresolved = {} /\ LastTwo(DryKinds)

\* The streak an iteration ends with is at most one longer than the one it
\* started with, and only after a round that counts.
LEMMA StreakGrowsByOne ==
    ASSUME StreakCounts, at = "judging"
    PROVE  /\ StreakAfter \in Nat
           /\ StreakAfter >= 1 => WasDry(0)
           /\ StreakAfter >= 2 => WasDry(0) /\ WasDry(1)
<1>1. CASE resuming
  <2>1. StreakAfter = IF saved.dry /\ ~saved.failed THEN streak + 1 ELSE 0
    BY <1>1 DEF StreakAfter, NextStreak, RoundIsDry
  <2> QED
    BY <1>1, <2>1 DEF StreakCounts
<1>2. CASE ~resuming
  <2>1. StreakAfter = IF dry /\ ~failed THEN streak + 1 ELSE 0
    BY <1>2 DEF StreakAfter, NextStreak
  <2> QED
    BY <1>2, <2>1 DEF StreakCounts
<1> QED
  BY <1>1, <1>2

\* A round that is held to be dry and not failed is one a streak counts.
LEMMA DryRoundCounts ==
    ASSUME NEW results, Unparsed(results) = {}, IsDry(results), ~DidFail(results)
    PROVE  Came(results) \in DryKinds
  BY DEF Came, IsDry, RoundIsDry, DryKinds

\* The rounds after one more of them.
LEMMA OneMoreRound ==
    ASSUME rounds \in Seq(RoundKinds), NEW kind \in RoundKinds, rounds' = Append(rounds, kind)
    PROVE  /\ rounds' \in Seq(RoundKinds) /\ Len(rounds') >= 1
           /\ WasDry(0) => WasDry(1)'
           /\ kind \in DryKinds => WasDry(0)'
<1>1. Len(rounds) \in Nat /\ Len(rounds') = Len(rounds) + 1 /\ rounds' \in Seq(RoundKinds)
      /\ rounds'[Len(rounds) + 1] = kind
      /\ \A i \in 1 .. Len(rounds) : rounds'[i] = rounds[i]
  OBVIOUS
<1>2. kind \in DryKinds => WasDry(0)'
  BY <1>1 DEF WasDry
<1>3. WasDry(0) => WasDry(1)'
  BY <1>1 DEF WasDry
<1> QED
  BY <1>1, <1>2, <1>3

\* A critique round.
LEMMA CritiqueStreak ==
    ASSUME StreakCounts, LeftOnce, NEW reported, NEW revised \in BOOLEAN,
           NEW results \in [reported -> Findings], CritiqueRound(results, revised)
    PROVE  StreakCounts' /\ LeftOnce'
<1>1. /\ at = "top" /\ ended = "no" /\ ~resuming /\ resuming' = resuming /\ streak' = streak
      /\ rounds' = Append(rounds, Came(results)) /\ rounds \in Seq(RoundKinds) /\ streak \in Nat
      /\ streak >= 1 => WasDry(0)
  BY DEF CritiqueRound, StreakCounts, LeftOnce
<1>2. Came(results) \in RoundKinds
  BY DEF Came, RoundKinds, DryKinds
<1>3. /\ rounds' \in Seq(RoundKinds) /\ Len(rounds') >= 1
      /\ streak' >= 1 => WasDry(1)'
      /\ Came(results) \in DryKinds => WasDry(0)'
  BY <1>1, <1>2, OneMoreRound
<1>4. ASSUME NEW roundDry, NEW roundFailed, NEW kept, Halt(roundDry, roundFailed, results, kept),
             Unparsed(results) # {} \/ (roundDry = IsDry(results) /\ roundFailed = DidFail(results))
      PROVE  StreakCounts' /\ LeftOnce'
  <2>1. /\ at' = "halted" /\ ended' = ended /\ saved'.streak = streak
        /\ saved'.dry = roundDry /\ saved'.failed = roundFailed
    BY <1>4 DEF Halt
  <2>2. saved'.dry /\ ~saved'.failed => Came(results) \in DryKinds
    <3>1. CASE Unparsed(results) # {}
      BY <3>1 DEF Came, DryKinds
    <3>2. CASE Unparsed(results) = {}
      <4>1. roundDry = IsDry(results) /\ roundFailed = DidFail(results)
        BY <1>4, <3>2
      <4> QED
        BY <2>1, <3>2, <4>1, DryRoundCounts
    <3> QED
      BY <3>1, <3>2
  <2> QED
    BY <1>1, <1>3, <2>1, <2>2 DEF StreakCounts, LeftOnce
<1>5. ASSUME NEW known, NEW prior, StartBlock(known, prior), Unparsed(results) = {},
             dry' = IsDry(results), failed' = DidFail(results), ended' = ended
      PROVE  StreakCounts' /\ LeftOnce'
  <2>1. at' = "judging"
    BY <1>5 DEF StartBlock
  <2>2. dry' /\ ~failed' => Came(results) \in DryKinds
    BY <1>5, DryRoundCounts
  <2> QED
    BY <1>1, <1>3, <1>5, <2>1, <2>2 DEF StreakCounts, LeftOnce
<1>6. ASSUME NEW why \in {"dispatch-error", "auth"}, End(why)
      PROVE  StreakCounts' /\ LeftOnce'
  BY <1>1, <1>3, <1>6 DEF End, StreakCounts, LeftOnce
<1> QED
  <2>1. Conclude(results, carried /\ ~revised)
    BY DEF CritiqueRound
  <2> HIDE DEF StreakCounts, LeftOnce
  <2> DEFINE kept == carried /\ ~revised
  <2>2. \/ Halt(dry, failed, results, kept) /\ Unparsed(results) # {}
        \/ Halt(IsDry(results), DidFail(results), results, kept)
        \/ End("dispatch-error") \/ End("auth")
        \/ /\ StartBlock(ClaimsAfter(results), IF kept THEN CarryOver ELSE NothingCarried)
           /\ Unparsed(results) = {} /\ dry' = IsDry(results) /\ failed' = DidFail(results)
           /\ ended' = ended
    BY <2>1 DEF Conclude
  <2> QED
    BY <1>4, <1>5, <1>6, <2>2

\* The end of an iteration.
LEMMA EndIterationStreak ==
    ASSUME StreakCounts, LeftOnce, EndIteration
    PROVE  StreakCounts' /\ LeftOnce'
<1>1. at = "judging" /\ ended = "no"
  BY DEF EndIteration, BlockOver, LeftOnce
<1>2. /\ UNCHANGED <<rounds, saved, dry, failed, states, claims, tracker>>
      /\ streak' = IF Broken /\ ~resuming THEN streak ELSE StreakAfter
  BY DEF EndIteration, recordVars
<1>3. /\ StreakAfter \in Nat
      /\ StreakAfter >= 1 => WasDry(0)
      /\ StreakAfter >= 2 => WasDry(0) /\ WasDry(1)
  BY <1>1, StreakGrowsByOne
<1>4. \/ /\ at' = "ended" /\ ended' # "converged"
      \/ /\ at' = "ended" /\ ended' = "converged" /\ LoopIsDone(StreakAfter)
      \/ /\ at' = "top" /\ ended' = "no" /\ resuming' = FALSE /\ ~Broken
  BY <1>1 DEF EndIteration, End, Broken
<1>5. streak' \in Nat /\ rounds \in Seq(RoundKinds)
  BY <1>2, <1>3 DEF StreakCounts
<1>6. StreakCounts'
  BY <1>2, <1>3, <1>4, <1>5 DEF StreakCounts, WasDry
<1>7. LeftOnce'
  <2>1. CASE at' = "ended" /\ ended' # "converged"
    BY <2>1 DEF LeftOnce
  <2>2. CASE at' = "ended" /\ ended' = "converged" /\ LoopIsDone(StreakAfter)
    <3>1. Unresolved = {} /\ WasDry(0) /\ WasDry(1)
      BY <1>3, <2>2 DEF LoopIsDone
    <3>2. Unresolved' = Unresolved
      BY <1>2 DEF Unresolved, Dispatchable, Disabled
    <3>3. LastTwo(DryKinds)
      <4>1. Len(rounds) \in Nat
        BY <1>5
      <4> QED
        BY <3>1, <4>1 DEF WasDry, LastTwo
    <3>4. LastTwo(DryKinds)'
      BY <1>2, <3>3 DEF LastTwo, DryKinds
    <3> QED
      BY <2>2, <3>1, <3>2, <3>4 DEF LeftOnce
  <2>3. CASE at' = "top" /\ ended' = "no"
    BY <2>3 DEF LeftOnce
  <2> QED
    BY <1>4, <2>1, <2>2, <2>3
<1> QED
  BY <1>6, <1>7

\* Every step keeps it: a streak counts only what it may.
LEMMA StreakKeptByEveryStep ==
    StreakCounts /\ LeftOnce /\ [LoopNext]_allVars => StreakCounts' /\ LeftOnce'
<1> SUFFICES ASSUME StreakCounts, LeftOnce, [LoopNext]_allVars PROVE StreakCounts' /\ LeftOnce'
  OBVIOUS
<1>1. ASSUME NEW reported \in SUBSET Dispatchable, NEW revised \in BOOLEAN,
             NEW results \in [reported -> Findings], CritiqueRound(results, revised)
      PROVE  StreakCounts' /\ LeftOnce'
  BY <1>1, CritiqueStreak
<1>2. CASE EndIteration
  BY <1>2, EndIterationStreak
<1>3. ASSUME NEW extracted \in SUBSET Friends, Resume(extracted) PROVE StreakCounts' /\ LeftOnce'
  <2>1. /\ at = "halted" /\ at' = "judging" /\ resuming' = TRUE /\ streak' = saved.streak
        /\ UNCHANGED <<ended, saved, rounds>>
    BY <1>3 DEF Resume, StartBlock
  <2> QED
    BY <2>1 DEF StreakCounts, LeftOnce, WasDry
<1>4. CASE JudgingStep
  <2>1. /\ at = "judging"
        /\ UNCHANGED <<at, ended, resuming, streak, dry, failed, saved, rounds>>
    BY <1>4 DEF JudgingStep
  <2> QED
    BY <2>1 DEF StreakCounts, LeftOnce, WasDry
<1>5. CASE StopAtTop
  <2>1. /\ at = "top" /\ at' = "ended" /\ ended' \in {"interrupted", "budget"}
        /\ UNCHANGED <<streak, rounds>>
    BY <1>5 DEF StopAtTop, End
  <2> QED
    BY <2>1 DEF StreakCounts, LeftOnce
<1>6. CASE LateAfterResume
  <2>1. at = "judging" /\ at' = "ended" /\ ended' = "budget" /\ streak' = StreakAfter
        /\ UNCHANGED rounds
    BY <1>6 DEF LateAfterResume, BlockOver, End
  <2> QED
    BY <2>1, StreakGrowsByOne DEF StreakCounts, LeftOnce
<1>7. CASE UNCHANGED allVars
  <2>1. UNCHANGED <<at, ended, resuming, streak, dry, failed, saved, rounds, states, claims, tracker>>
    BY <1>7 DEF allVars, loopVars, vars, recordVars
  <2>2. Unresolved' = Unresolved
    BY <2>1 DEF Unresolved, Dispatchable, Disabled
  <2> QED
    BY <2>1, <2>2 DEF StreakCounts, LeftOnce, WasDry, LastTwo, DryKinds
<1> QED
  BY <1>1, <1>2, <1>3, <1>4, <1>5, <1>6, <1>7 DEF LoopNext

\* For every roster, every answer and any number of halts: a loop converges
\* only on two critique rounds in a row in which nobody that answered failed
\* or said anything new, with every claim somebody could still judge settled -
\* a round that failed in between starts the count over, in whichever process
\* it was made.
THEOREM ConvergenceIsEarned == LoopSpec => []ConvergedOnDryRounds
<1>1. LoopInit => StreakCounts /\ LeftOnce
  BY DEF LoopInit, StreakCounts, LeftOnce
<1>2. LeftOnce => ConvergedOnDryRounds
  BY DEF LeftOnce, ConvergedOnDryRounds, DryKinds
<1> QED
  BY <1>1, <1>2, StreakKeptByEveryStep, PTL DEF LoopSpec
================================================================================
