---------------------------- MODULE CritiqueRound ----------------------------
(***************************************************************************)
(* From what the friends found to the claims that are judged: the reading  *)
(* of the results in run_critique (src/afriend/commands/critique.py),      *)
(* exact_merge (merge.py), the reducer of the ledger (reviewstate.py), and *)
(* the two questions a run may halt with, extraction and merging           *)
(* (orchestrator.py, commands/resume.py), over the iterations of a loop.   *)
(*                                                                         *)
(* A finding is <<text, layout>>; exact_merge compares the texts.  Every   *)
(* record is appended to claims.jsonl and applied to the ReviewState in    *)
(* one step; review is also what a resumed process replays the ledger to,  *)
(* by the same apply in the same order.  How an answer is applied once in  *)
(* spite of crashes is ResponseApply's subject; the judging is             *)
(* Crossexam's, and only its eligibility rule is here.                     *)
(***************************************************************************)
EXTENDS Integers, Sequences, FiniteSets

CONSTANTS
    Names,          \* the roster's friends, by FriendSpec.name
    KeyOf,          \* name -> friend_key, the identity claims and votes carry
    Reports,        \* the sequences of findings a friend may report
    Refused,        \* the findings whose record the ledger refuses
    MaxIterations,  \* 1 except in loop mode
    MaxMerges       \* bound on the merges of one answer

ASSUME IdentityAssumption ==
    /\ DOMAIN KeyOf = Names
    /\ \A f, g \in Names : KeyOf[f] = KeyOf[g] => f = g
ASSUME IterationsAssumption == MaxIterations \in Nat \ {0} /\ MaxMerges \in Nat
ASSUME ReportsAssumption == \A found \in Reports : Len(found) \in Nat

VARIABLES
    merge,         \* --merge: "exact" or "orchestrator"
    iteration,
    phase,         \* "critique", "extraction", "merging", "judging" or "stopped"
    review,        \* the ReviewState: what the ledger says so far
    counter,       \* the last claim number given out
    incoming,      \* claims of the result or answer in hand, not yet recorded
    aliases,       \* aliases of it, not yet recorded
    unread,        \* friends whose result is not read yet
    unparseable,   \* friends whose output could not be parsed
    aborted,       \* auth_abort
    home,          \* history: claim id -> the claim it is now part of
    raised,        \* history: <<name, claim id>>, who found it
    extracted      \* history: <<name, claim id>>, whose words it was read out of

ledgerVars   == <<review, incoming, aliases, home>>
critiqueVars == <<merge, iteration, phase, counter, ledgerVars, unread, unparseable, aborted,
                  raised, extracted>>

Claim(id, origin, finding) == [id |-> id, origin |-> origin, finding |-> finding]
Alias(canonical, duplicate) == [canonical |-> canonical, duplicate |-> duplicate]

-----------------------------------------------------------------------------
(* The reducer: ReviewState.                                               *)

\* amiss: a warning was noted, or a record was refused.
NothingYet == [origins |-> <<>>, wording |-> <<>>, aliased |-> {}, amiss |-> FALSE]

\* An id stands for one claim, for good.
ApplyClaim(r, c) ==
    LET ids == DOMAIN r.origins \union {c.id} IN
    [origins |-> [id \in ids |-> IF id = c.id THEN c.origin ELSE r.origins[id]],
     wording |-> [id \in ids |-> IF id = c.id THEN c.finding[1] ELSE r.wording[id]],
     aliased |-> r.aliased,
     amiss   |-> r.amiss \/ c.id \in DOMAIN r.origins]

\* Both ends are there and the canonical one is not merged away itself.
Sound(r, a) ==
    /\ {a.canonical, a.duplicate} \subseteq DOMAIN r.origins
    /\ a.canonical \notin r.aliased \union {a.duplicate}

\* Slip: the authors of what is merged away are forgotten.
AuthorsForgotten(r, a) ==
    [r EXCEPT !.aliased = @ \union {a.duplicate}, !.amiss = @ \/ ~Sound(r, a)]

ApplyAlias(r, a) ==
    [origins |-> [id \in DOMAIN r.origins |->
                     IF id = a.canonical /\ Sound(r, a)
                     THEN r.origins[id] \union r.origins[a.duplicate] ELSE r.origins[id]],
     wording |-> r.wording,
     aliased |-> r.aliased \union {a.duplicate},
     amiss   |-> r.amiss \/ ~Sound(r, a)]

\* The ids of merged-away claims are spent too.
Ids        == DOMAIN review.origins
Live == Ids \ review.aliased

Greatest(S) == CHOOSE x \in S : \A y \in S : y <= x
Least(S)    == CHOOSE x \in S : \A y \in S : x <= y

\* next_claim_number
NextClaimNumber == Greatest({0} \union Ids)

\* _slice_for
Slice(f) == {c \in Live : KeyOf[f] \notin review.origins[c]}

CritiqueInit ==
    /\ merge \in {"exact", "orchestrator"}
    /\ iteration = 1
    /\ phase = "critique"
    /\ review = NothingYet /\ home = <<>> /\ counter = 0
    /\ incoming = {} /\ aliases = {}
    /\ unread = Names /\ unparseable = {} /\ aborted = FALSE
    /\ raised = {} /\ extracted = {}

-----------------------------------------------------------------------------
(* Recording what was read, record by record.                              *)

AppendClaim(c) ==
    /\ c \in incoming /\ \A d \in incoming : c.id <= d.id
    /\ incoming' = incoming \ {c}
    /\ review' = ApplyClaim(review, c)
    /\ home' = [id \in Ids \union {c.id} |-> IF id = c.id THEN c.id ELSE home[id]]
    /\ UNCHANGED <<merge, iteration, phase, counter, aliases, unread, unparseable, aborted,
                   raised, extracted>>

AppendAlias(a) ==
    /\ incoming = {} /\ a \in aliases
    /\ aliases' = aliases \ {a}
    /\ review' = ApplyAlias(review, a)
    /\ home' = [id \in Ids |-> IF home[id] = a.duplicate THEN a.canonical ELSE home[id]]
    /\ UNCHANGED <<merge, iteration, phase, counter, incoming, unread, unparseable, aborted,
                   raised, extracted>>

Recorded == incoming = {} /\ aliases = {}

-----------------------------------------------------------------------------
(* Reading one friend's result.                                            *)

NextResult == CHOOSE f \in unread : TRUE

\* Every finding takes a number; those the ledger would refuse are dropped
\* before anything is merged into them.
Recordable(found) == {i \in 1 .. Len(found) : found[i] \notin Refused}
Incoming(origin, found) == {Claim(counter + i, origin, found[i]) : i \in Recordable(found)}

Known(c)       == {d \in Live : review.wording[d] = c.finding[1]}
Earlier(c, cs) == {d.id : d \in {e \in cs : e.id < c.id /\ e.finding[1] = c.finding[1]}}

\* Slip: a report is compared with the claims there are, not with itself.
AliasesOfExisting(cs) ==
    {Alias(Greatest(Known(c)), c.id) : c \in {d \in cs : Known(d) # {}}}

\* exact_merge: a finding worded like a claim there is already, or like an
\* earlier one of its own report, becomes an alias of that one.
ExactAliases(cs) ==
    {Alias(IF Known(c) # {} THEN Greatest(Known(c)) ELSE Least(Earlier(c, cs)), c.id) :
        c \in {d \in cs : Known(d) # {} \/ Earlier(d, cs) # {}}}

ReadFindings(f, found) ==
    /\ phase = "critique" /\ Recorded /\ unread # {} /\ f = NextResult
    /\ unread' = unread \ {f}
    /\ incoming' = Incoming({KeyOf[f]}, found)
    /\ aliases' = ExactAliases(incoming')
    /\ counter' = counter + Len(found)
    /\ raised' = raised \union {<<f, counter + i>> : i \in Recordable(found)}
    /\ UNCHANGED <<merge, iteration, phase, review, home, unparseable, aborted, extracted>>

\* A friend without a payload: nothing was read, or only an orchestrator
\* could read it, or nobody is logged in.
ReadFailure(f, readable, auth) ==
    /\ phase = "critique" /\ Recorded /\ unread # {} /\ f = NextResult
    /\ unread' = unread \ {f}
    /\ unparseable' = IF readable /\ merge = "orchestrator" THEN unparseable \union {f}
                                                            ELSE unparseable
    /\ aborted' = (aborted \/ auth)
    /\ UNCHANGED <<merge, iteration, phase, counter, ledgerVars, raised, extracted>>

\* The round is read: ask for extraction, or for merges, or judge.
CloseRound ==
    /\ phase = "critique" /\ Recorded /\ unread = {}
    /\ phase' = IF aborted THEN "stopped"
                ELSE IF unparseable # {} THEN "extraction"
                ELSE IF merge = "orchestrator" /\ Live # {} THEN "merging"
                ELSE "judging"
    /\ UNCHANGED <<merge, iteration, counter, ledgerVars, unread, unparseable, aborted,
                   raised, extracted>>

-----------------------------------------------------------------------------
(* The answers of the orchestrator, applied by a resumed process.          *)

\* The finding is recorded under the name REQUEST.json gave its friend.
ExtractedClaim(id, f, finding) == Claim(id, {f}, finding)

ApplyExtraction(f, found) ==
    LET last == NextClaimNumber IN
    /\ phase = "extraction" /\ Recorded /\ f \in unparseable
    /\ Recordable(found) = 1 .. Len(found)
    /\ incoming' = {ExtractedClaim(last + i, f, found[i]) : i \in 1 .. Len(found)}
    /\ counter' = last + Len(found)
    /\ extracted' = extracted \union {<<f, last + i>> : i \in 1 .. Len(found)}
    /\ unparseable' = unparseable \ {f}
    /\ phase' = IF unparseable = {f} THEN "judging" ELSE "extraction"
    /\ UNCHANGED <<merge, iteration, review, home, aliases, unread, aborted, raised>>

\* validate_merge_response: one fate per claim, and no claim is both merged
\* away and merged into.
Adjudications ==
    UNION {[away -> Live \ away] : away \in {a \in SUBSET Live : Cardinality(a) <= MaxMerges}}

ApplyMerges(into) ==
    /\ phase = "merging" /\ Recorded
    /\ aliases' = {Alias(into[d], d) : d \in DOMAIN into}
    /\ counter' = NextClaimNumber
    /\ phase' = "judging"
    /\ UNCHANGED <<merge, iteration, review, home, incoming, unread, unparseable, aborted,
                   raised, extracted>>

\* The next iteration asks everyone again, with every claim known so far.
NextIteration ==
    /\ phase = "judging" /\ Recorded /\ iteration < MaxIterations
    /\ iteration' = iteration + 1
    /\ phase' = "critique"
    /\ unread' = Names
    /\ UNCHANGED <<merge, counter, ledgerVars, unparseable, aborted, raised, extracted>>

CritiqueNext ==
    \/ \E c \in incoming : AppendClaim(c)
    \/ \E a \in aliases : AppendAlias(a)
    \/ \E f \in Names : \/ \E found \in Reports : ReadFindings(f, found)
                        \/ \E readable, auth \in BOOLEAN : ReadFailure(f, readable, auth)
    \/ CloseRound
    \/ \E f \in Names, found \in Reports : ApplyExtraction(f, found)
    \/ \E into \in Adjudications : ApplyMerges(into)
    \/ NextIteration

CritiqueSpec == CritiqueInit /\ [][CritiqueNext]_critiqueVars

-----------------------------------------------------------------------------
(* Properties.                                                             *)

\* claims.jsonl replays without a warning and without a refusal - no alias
\* names a claim that is not there or was itself merged away, no id is given
\* twice - and whoever raised a finding counts among the authors of the claim
\* it ended up in, through every exact and adjudicated merge: it is never
\* asked to judge it, and its agreement is not lost.
RaisersAreAuthors ==
    /\ ~review.amiss
    /\ Recorded => \A r \in raised : /\ home[r[2]] \in Live
                                     /\ home[r[2]] \notin Slice(r[1])

\* With --merge exact there is one live claim per wording, in whatever order
\* and iteration the findings came.
OneClaimPerWording ==
    merge = "exact" /\ Recorded =>
        \A c, d \in Live : review.wording[c] = review.wording[d] => c = d

\* resume.py on an extracted claim: "The friend that produced the
\* unparseable output keeps authorship".
ExtractedKeepAuthorship ==
    Recorded => \A r \in extracted : home[r[2]] \notin Slice(r[1])
=============================================================================
