--------------------------- MODULE Intake_proofs ---------------------------
(***************************************************************************)
(* Theorems about what comes in from outside: the orchestrator's answers   *)
(* (ResponseApply) and the friends' reports (CritiqueRound).               *)
(*                                                                         *)
(* For any answers, any writes of the operator and any number of deaths    *)
(* the judging starts on a whole answer, and resume_round_one implements   *)
(* ApplyOnce.  A process binds the halt before it appends anything, and    *)
(* from then on works on the bytes the halt is bound to (Binding), so what *)
(* is in the ledger is always the beginning of one answer (Beginning),     *)
(* whichever process put it there; each later place of the process is      *)
(* reached with everything before it done (Keeping).                       *)
(*                                                                         *)
(* For any roster, reports, answers and iterations the ledger of a         *)
(* critique round replays without a warning, a claim keeps its raisers     *)
(* through every merge, and exact merges leave one claim per wording.      *)
(* Records are appended one by one, so the invariants speak of the claims  *)
(* and aliases on their way too: every number is given once (Numbered),    *)
(* what is merged into stays (Pointing), every claim is part of a live one *)
(* (AtHome) that has its raisers among its authors (Authored), and of what *)
(* stays no two are worded alike (Single).                                 *)
(***************************************************************************)
EXTENDS ResponseApply, CritiqueRound, WellFoundedInduction, TLAPS

-----------------------------------------------------------------------------
(* The orchestrator's answers.                                             *)

\* The records an answer may hold.
Records == UNION {{a[i] : i \in DOMAIN a} : a \in AllAnswers}

Phases == {"waiting-for-orchestrator", "response-applying", "response-applied"}

\* Places where a process is at work on an answer.
Working == {"freeze", "append", "retain", "unlink", "judging", "finished"}

LEMMA AnswersAreSequences ==
    /\ NoFile \notin AllAnswers
    /\ \A a \in AllAnswers : a \in Seq(Records)
<1>1. NoFile \notin AllAnswers
  BY AnswersAssumption
<1>2. ASSUME NEW a \in AllAnswers PROVE a \in Seq(Records)
  <2>1. a \in Seq({a[i] : i \in DOMAIN a})
    BY AnswersAssumption
  <2>2. \A i \in 1 .. Len(a) : a[i] \in Records
    BY <2>1 DEF Records
  <2> QED
    BY <2>1, <2>2
<1> QED
  BY <1>1, <1>2

TypeOK ==
    /\ live \in AllAnswers \union {NoFile}
    /\ applied \in AllAnswers \union {NoFile}
    /\ prepared \in AllAnswers \union {NoFile}
    /\ checkpoint \in [phase : Phases, answer : AllAnswers \union {NoFile}, records : Nat]
    /\ ledger \in Seq(Records)
    /\ pc \in Working \union {"halted", "refused", "bind"}

\* A halt is bound to an answer from the moment it has a checkpoint, and whoever
\* works on an answer works on that one.
Binding ==
    /\ Bound <=> checkpoint.answer # NoFile
    /\ Bound => checkpoint.records = Len(checkpoint.answer)
    /\ ~Bound => ledger = <<>>
    /\ pc = "bind" => ~Bound /\ prepared # NoFile
    /\ pc \in Working => Bound /\ prepared = checkpoint.answer

\* The ledger holds the beginning of the answer.
Beginning ==
    Bound => /\ Len(ledger) <= Len(checkpoint.answer)
             /\ \A i \in 1 .. Len(ledger) : ledger[i] = checkpoint.answer[i]

\* What each place was reached with.
Keeping ==
    /\ pc \in {"retain", "unlink", "judging", "finished"} =>
         checkpoint.phase = "response-applied" /\ ledger = checkpoint.answer
    /\ pc \in {"unlink", "judging", "finished"} => applied = checkpoint.answer

Inv == TypeOK /\ Binding /\ Beginning /\ Keeping

LEMMA InitHolds == Init => Inv
<1> SUFFICES ASSUME Init PROVE Inv
  OBVIOUS
<1>1. TypeOK
  BY DEF Init, TypeOK, Waiting, Phases, Working
<1>2. Binding /\ Beginning /\ Keeping
  BY DEF Init, Binding, Beginning, Keeping, Bound, Waiting, Working
<1> QED
  BY <1>1, <1>2 DEF Inv

LEMMA NextHolds == Inv /\ [Next]_vars => Inv'
<1> SUFFICES ASSUME Inv, [Next]_vars PROVE Inv'
  OBVIOUS
<1> USE AnswersAreSequences DEF Inv, TypeOK, Binding, Beginning, Keeping, Working, Phases
<1>1. CASE Prepare
  BY <1>1 DEF Prepare, files, Bound, Acceptable, Selected, Resumable
<1>2. CASE BindResponse
  <2>1. /\ checkpoint'.answer = prepared /\ checkpoint'.records = Len(prepared)
        /\ checkpoint'.phase = "response-applying" /\ checkpoint' # Waiting
        /\ prepared \in AllAnswers
    BY <1>2 DEF BindResponse, Waiting
  <2> QED
    BY <1>2, <2>1 DEF BindResponse, Goto, Bound
<1>3. CASE Freeze
  BY <1>3 DEF Freeze, Goto, Bound
<1>4. CASE AppendRecord
  <2>1. /\ prepared \in AllAnswers /\ prepared = checkpoint.answer
        /\ Len(ledger) < Len(prepared) /\ ledger' = Append(ledger, prepared[Len(ledger) + 1])
        /\ pc = "append" /\ pc' = "append"
        /\ UNCHANGED <<prepared, live, applied, checkpoint>>
    BY <1>4 DEF AppendRecord, Goto, NextRecord
  <2>2. prepared[Len(ledger) + 1] \in Records
    BY <2>1
  <2>3. /\ ledger' \in Seq(Records) /\ Len(ledger') = Len(ledger) + 1
        /\ \A i \in 1 .. Len(ledger') : ledger'[i] = prepared[i]
    BY <2>1, <2>2
  <2> QED
    BY <2>1, <2>3 DEF Bound
<1>5. CASE MarkApplied
  <2>1. ledger = prepared
    BY <1>5 DEF MarkApplied
  <2>2. /\ checkpoint' = [phase |-> "response-applied", answer |-> prepared, records |-> Len(prepared)]
        /\ checkpoint' # Waiting /\ prepared \in AllAnswers
    BY <1>5 DEF MarkApplied, Waiting
  <2> QED
    BY <1>5, <2>1, <2>2 DEF MarkApplied, Goto, Bound
<1>6. CASE Retain
  BY <1>6 DEF Retain, Goto, Bound
<1>7. CASE Unlink
  BY <1>7 DEF Unlink, Goto, Bound
<1>8. CASE FinishRun
  BY <1>8 DEF FinishRun, Goto, files, Bound
<1>9. CASE RefuseResponse \/ RefuseChanged \/ RefuseRecord
  BY <1>9 DEF RefuseResponse, RefuseChanged, RefuseRecord, Refuse, files, Bound
<1>10. ASSUME NEW a \in Answers \union {NoFile}, WriteResponse(a) PROVE Inv'
  BY <1>10 DEF WriteResponse, Answers, AllAnswers, Bound
<1>11. CASE Crash
  BY <1>11 DEF Crash, files, Bound
<1>12. CASE UNCHANGED vars
  BY <1>12 DEF vars, files, Bound
<1> QED
  BY <1>1, <1>2, <1>3, <1>4, <1>5, <1>6, <1>7, <1>8, <1>9, <1>10, <1>11, <1>12 DEF Next, Progress

LEMMA Always == Spec => []Inv
BY InitHolds, NextHolds, PTL DEF Spec

\* The judging starts on a whole answer, kept beside the request, whatever died
\* and whatever the operator wrote (resume.py).
THEOREM WholeAnswersAreJudged == Spec => []JudgedOnTheWholeAnswer
<1>1. Inv => JudgedOnTheWholeAnswer
  BY DEF Inv, Keeping, Binding, JudgedOnTheWholeAnswer
<1> QED
  BY Always, <1>1, PTL

-----------------------------------------------------------------------------
(* The refinement: binding chooses, appending records, the rest stutters.  *)

LEMMA StartsOnce == Init => Once!Init
BY DEF Init, Once!Init, Waiting

LEMMA StepsOnce == Inv /\ [Next]_vars => [Once!Next]_Once!vars
<1> SUFFICES ASSUME Inv, [Next]_vars PROVE Once!Next \/ UNCHANGED Once!vars
  OBVIOUS
<1> USE AnswersAreSequences DEF Inv, TypeOK, Binding, Beginning, Working, Once!vars
<1>1. CASE BindResponse
  <2>1. checkpoint.answer = NoFile /\ checkpoint'.answer = prepared /\ prepared \in AllAnswers
    BY <1>1 DEF BindResponse
  <2> QED
    BY <1>1, <2>1 DEF BindResponse, Once!Next, Once!Choose
<1>2. CASE AppendRecord
  BY <1>2 DEF AppendRecord, NextRecord, Once!Next, Once!Record
<1>3. CASE MarkApplied
  BY <1>3 DEF MarkApplied
<1>4. CASE Prepare \/ Freeze \/ Retain \/ Unlink \/ FinishRun
  BY <1>4 DEF Prepare, Freeze, Retain, Unlink, FinishRun, files
<1>5. CASE RefuseResponse \/ RefuseChanged \/ RefuseRecord \/ Crash \/ UNCHANGED vars
  BY <1>5 DEF RefuseResponse, RefuseChanged, RefuseRecord, Refuse, Crash, files, vars
<1>6. ASSUME NEW a, WriteResponse(a) PROVE UNCHANGED Once!vars
  BY <1>6 DEF WriteResponse
<1> QED
  BY <1>1, <1>2, <1>3, <1>4, <1>5, <1>6 DEF Next, Progress

\* One answer per halt, and its records once each and in order: whichever
\* process goes on after a death appends what is missing and nothing twice.
THEOREM AnswersAreAppliedOnce == Spec => ImplementsApplyOnce
BY Always, StartsOnce, StepsOnce, PTL DEF Spec, Once!Spec, ImplementsApplyOnce

-----------------------------------------------------------------------------
(* The critique round.                                                     *)

\* Numbers that are on their way to the ledger, and those on their way out.
Coming == {c.id : c \in incoming}
Going  == {a.duplicate : a \in aliases}

\* A number stands for one claim and is given once.
Numbered ==
    /\ counter \in Nat /\ Ids \subseteq 1 .. counter
    /\ ~review.amiss /\ review.aliased \subseteq Ids
    /\ \A c \in incoming : c.id \in (1 .. counter) \ Ids
    /\ \A c, d \in incoming : c.id = d.id => c = d

\* An alias that is still to be recorded names two claims, and the one that
\* stays is not going away itself.
Pointing ==
    \A a \in aliases :
        /\ a.duplicate \in Ids \union Coming
        /\ a.canonical \in (Live \union Coming) \ Going

\* Every claim is part of a live one.
AtHome == DOMAIN home = Ids /\ \A id \in Ids : home[id] \in Live

\* Whoever raised a claim is an author of what it is part of.
Authored ==
    \A r \in raised :
        \/ r[2] \in Ids /\ KeyOf[r[1]] \in review.origins[home[r[2]]]
        \/ \E c \in incoming : c.id = r[2] /\ KeyOf[r[1]] \in c.origin

\* Of the claims that are not going away, recorded or not, no two have the
\* same wording, if only exact merges are made.
Single ==
    merge = "exact" =>
        /\ unparseable = {} /\ phase \notin {"extraction", "merging"}
        /\ \A x, y \in Live \ Going : review.wording[x] = review.wording[y] => x = y
        /\ \A x \in Live \ Going, c \in incoming :
             c.id \notin Going => review.wording[x] # c.finding[1]
        /\ \A c, d \in incoming :
             c.id \notin Going /\ d.id \notin Going /\ c.finding[1] = d.finding[1] => c = d

CritiqueInv == Numbered /\ Pointing /\ AtHome /\ Authored /\ Single

\* Every set of naturals that is not empty has a least element.
LEMMA LeastNatural ==
    ASSUME NEW S \in SUBSET Nat, S # {}
    PROVE  \E n \in S : \A m \in S : n <= m
<1>1. PICK n \in S : \A m \in S : <<m, n>> \notin OpToRel(<, Nat)
  BY NatLessThanWellFounded, WFMin
<1>2. \A m \in S : ~(m < n)
  BY <1>1 DEF OpToRel
<1> QED
  BY <1>2

LEMMA LeastOf ==
    ASSUME NEW S \in SUBSET Nat, S # {}
    PROVE  Least(S) \in S /\ \A y \in S : Least(S) <= y
  BY LeastNatural DEF Least

LEMMA GreatestOf ==
    ASSUME NEW n \in Nat, NEW S \in SUBSET (0 .. n), S # {}
    PROVE  Greatest(S) \in S /\ \A y \in S : y <= Greatest(S)
<1> DEFINE below == {n - x : x \in S}
<1>1. below \in SUBSET Nat /\ below # {}
  <2>1. \A x \in S : n - x \in Nat
    OBVIOUS
  <2>2. PICK x \in S : TRUE
    OBVIOUS
  <2>3. n - x \in below
    OBVIOUS
  <2> QED
    BY <2>1, <2>3
<1>2. PICK m \in below : \A k \in below : m <= k
  BY <1>1, LeastNatural
<1>3. PICK x \in S : m = n - x
  BY <1>2
<1>4. \A y \in S : y <= x
  BY <1>2, <1>3
<1> QED
  BY <1>4 DEF Greatest

\* The next number is free: no claim of the ledger has it or a higher one.
LEMMA NumbersAreSpent ==
    ASSUME Numbered
    PROVE  NextClaimNumber \in Nat /\ \A id \in Ids : 1 <= id /\ id <= NextClaimNumber
<1>1. counter \in Nat /\ {0} \union Ids \in SUBSET (0 .. counter)
  BY DEF Numbered
<1>2. NextClaimNumber \in {0} \union Ids /\ \A y \in {0} \union Ids : y <= NextClaimNumber
  BY <1>1, GreatestOf DEF NextClaimNumber
<1> QED
  BY <1>1, <1>2 DEF Numbered

LEMMA CritiqueStarts == CritiqueInit => CritiqueInv
<1> SUFFICES ASSUME CritiqueInit PROVE CritiqueInv
  OBVIOUS
<1>1. Ids = {} /\ Live = {}
  BY DEF CritiqueInit, NothingYet, Ids, Live
<1> QED
  BY <1>1 DEF CritiqueInit, NothingYet, CritiqueInv, Numbered, Pointing, AtHome, Authored, Single

-----------------------------------------------------------------------------
(* Recording.                                                              *)

\* What the reducer makes of a claim.
LEMMA ClaimApplied ==
    ASSUME NEW c, AppendClaim(c), Numbered
    PROVE  /\ Ids' = Ids \union {c.id} /\ c.id \notin Ids
           /\ review'.aliased = review.aliased /\ ~review'.amiss
           /\ Live' = Live \union {c.id} /\ c.id \notin Live
           /\ \A id \in Ids : /\ review'.origins[id] = review.origins[id]
                              /\ review'.wording[id] = review.wording[id]
           /\ review'.origins[c.id] = c.origin /\ review'.wording[c.id] = c.finding[1]
<1>1. c.id \notin Ids
  BY DEF AppendClaim, Numbered
<1>2. review' = ApplyClaim(review, c)
  BY DEF AppendClaim
<1>3. Ids' = Ids \union {c.id}
  BY <1>2 DEF ApplyClaim, Ids
<1> QED
  BY <1>1, <1>2, <1>3 DEF ApplyClaim, Ids, Live, Numbered

LEMMA AppendClaimStep ==
    ASSUME CritiqueInv, NEW c, AppendClaim(c)
    PROVE  CritiqueInv'
<1> USE DEF CritiqueInv
<1>0. /\ c \in incoming /\ incoming' = incoming \ {c}
      /\ home' = [id \in Ids \union {c.id} |-> IF id = c.id THEN c.id ELSE home[id]]
      /\ UNCHANGED <<merge, phase, counter, aliases, unparseable, raised>>
  BY DEF AppendClaim
<1>1. Numbered
  OBVIOUS
<1>2. /\ Ids' = Ids \union {c.id} /\ c.id \notin Ids
      /\ review'.aliased = review.aliased /\ ~review'.amiss
      /\ Live' = Live \union {c.id} /\ c.id \notin Live
      /\ \A id \in Ids : /\ review'.origins[id] = review.origins[id]
                         /\ review'.wording[id] = review.wording[id]
      /\ review'.origins[c.id] = c.origin /\ review'.wording[c.id] = c.finding[1]
  BY <1>1, ClaimApplied
<1>3. Coming = Coming' \union {c.id} /\ Going' = Going
  BY <1>0 DEF Coming, Going
<1>4. Numbered'
  BY <1>0, <1>1, <1>2 DEF Numbered
<1>5. Pointing'
  BY <1>0, <1>2, <1>3 DEF Pointing
<1>6. AtHome'
  BY <1>0, <1>2 DEF AtHome
<1>7. Authored'
  <2> SUFFICES ASSUME NEW r \in raised
               PROVE  \/ r[2] \in Ids' /\ KeyOf[r[1]] \in review'.origins[home'[r[2]]]
                      \/ \E d \in incoming' : d.id = r[2] /\ KeyOf[r[1]] \in d.origin
    BY <1>0 DEF Authored
  <2>1. CASE r[2] \in Ids /\ KeyOf[r[1]] \in review.origins[home[r[2]]]
    <3>1. home[r[2]] \in Ids /\ home'[r[2]] = home[r[2]]
      BY <2>1, <1>0, <1>2 DEF AtHome, Live
    <3> QED
      BY <2>1, <3>1, <1>2
  <2>2. ASSUME NEW d \in incoming, d.id = r[2], KeyOf[r[1]] \in d.origin
        PROVE  \/ r[2] \in Ids' /\ KeyOf[r[1]] \in review'.origins[home'[r[2]]]
               \/ \E e \in incoming' : e.id = r[2] /\ KeyOf[r[1]] \in e.origin
    <3>1. CASE d = c
      <4>1. home'[r[2]] = c.id
        BY <1>0, <2>2, <3>1
      <4> QED
        BY <4>1, <1>2, <2>2, <3>1
    <3>2. CASE d # c
      BY <1>0, <2>2, <3>2
    <3> QED
      BY <3>1, <3>2
  <2> QED
    BY <2>1, <2>2 DEF Authored
<1>8. Single'
  <2> SUFFICES ASSUME merge = "exact" PROVE Single'
    BY <1>0 DEF Single
  <2>1. /\ \A x, y \in Live \ Going : review.wording[x] = review.wording[y] => x = y
        /\ \A x \in Live \ Going, d \in incoming :
             d.id \notin Going => review.wording[x] # d.finding[1]
        /\ \A d, e \in incoming :
             d.id \notin Going /\ e.id \notin Going /\ d.finding[1] = e.finding[1] => d = e
    BY DEF Single
  <2>2. \A x \in Live : x \in Ids /\ review'.wording[x] = review.wording[x]
    BY <1>2 DEF Live
  <2>3. \A x, y \in Live' \ Going : review'.wording[x] = review'.wording[y] => x = y
    BY <2>1, <2>2, <1>0, <1>2
  <2>4. \A x \in Live' \ Going, d \in incoming' :
           d.id \notin Going => review'.wording[x] # d.finding[1]
    BY <2>1, <2>2, <1>0, <1>2
  <2> QED
    BY <1>0, <1>3, <2>1, <2>3, <2>4 DEF Single
<1> QED
  BY <1>4, <1>5, <1>6, <1>7, <1>8

\* What the reducer makes of an alias that was pointed well.
LEMMA AliasApplied ==
    ASSUME NEW a, AppendAlias(a), Numbered, Pointing
    PROVE  /\ Ids' = Ids /\ ~review'.amiss
           /\ a.canonical \in Live /\ a.canonical # a.duplicate /\ a.duplicate \in Ids
           /\ review'.aliased = review.aliased \union {a.duplicate}
           /\ Live' = Live \ {a.duplicate}
           /\ review'.wording = review.wording
           /\ \A id \in Ids \ {a.canonical} : review'.origins[id] = review.origins[id]
           /\ review'.origins[a.canonical] = review.origins[a.canonical]
                                             \union review.origins[a.duplicate]
<1>1. a \in aliases /\ incoming = {} /\ review' = ApplyAlias(review, a)
  BY DEF AppendAlias
<1>2. Coming = {} /\ a.duplicate \in Going
  BY <1>1 DEF Coming, Going
<1>3. a.duplicate \in Ids /\ a.canonical \in Live /\ a.canonical # a.duplicate
  BY <1>1, <1>2 DEF Pointing
<1>4. Sound(review, a)
  BY <1>3 DEF Sound, Live, Ids
<1>5. Ids' = Ids
  BY <1>1 DEF ApplyAlias, Ids
<1> QED
  BY <1>1, <1>3, <1>4, <1>5 DEF ApplyAlias, Ids, Live, Numbered

LEMMA AppendAliasStep ==
    ASSUME CritiqueInv, NEW a, AppendAlias(a)
    PROVE  CritiqueInv'
<1> USE DEF CritiqueInv
<1>0. /\ a \in aliases /\ aliases' = aliases \ {a} /\ incoming = {} /\ incoming' = {}
      /\ home' = [id \in Ids |-> IF home[id] = a.duplicate THEN a.canonical ELSE home[id]]
      /\ UNCHANGED <<merge, phase, counter, unparseable, raised>>
  BY DEF AppendAlias
<1>1. Numbered /\ Pointing
  OBVIOUS
<1>2. /\ Ids' = Ids /\ ~review'.amiss
      /\ a.canonical \in Live /\ a.canonical # a.duplicate /\ a.duplicate \in Ids
      /\ review'.aliased = review.aliased \union {a.duplicate}
      /\ Live' = Live \ {a.duplicate}
      /\ review'.wording = review.wording
      /\ \A id \in Ids \ {a.canonical} : review'.origins[id] = review.origins[id]
      /\ review'.origins[a.canonical] = review.origins[a.canonical]
                                        \union review.origins[a.duplicate]
  BY <1>1, AliasApplied
<1>3. Going = Going' \union {a.duplicate} /\ Coming = {} /\ Coming' = {}
  BY <1>0 DEF Coming, Going
<1>4. Numbered'
  BY <1>0, <1>1, <1>2 DEF Numbered
<1>5. Pointing'
  BY <1>0, <1>2, <1>3 DEF Pointing
<1>6. AtHome'
  BY <1>0, <1>2 DEF AtHome
<1>7. Authored'
  <2> SUFFICES ASSUME NEW r \in raised
               PROVE  r[2] \in Ids' /\ KeyOf[r[1]] \in review'.origins[home'[r[2]]]
    BY <1>0 DEF Authored
  <2>1. r[2] \in Ids /\ KeyOf[r[1]] \in review.origins[home[r[2]]] /\ home[r[2]] \in Ids
    BY <1>0 DEF Authored, AtHome, Live
  <2>2. CASE home[r[2]] = a.duplicate
    <3>1. home'[r[2]] = a.canonical
      BY <1>0, <2>1, <2>2
    <3> QED
      BY <3>1, <2>1, <2>2, <1>2
  <2>3. CASE home[r[2]] # a.duplicate
    <3>1. home'[r[2]] = home[r[2]]
      BY <1>0, <2>1, <2>3
    <3> QED
      BY <3>1, <2>1, <1>2
  <2> QED
    BY <2>2, <2>3
<1>8. Single'
  <2>1. Live' \ Going' \subseteq Live \ Going
    BY <1>2, <1>3
  <2> QED
    BY <1>0, <1>2, <2>1 DEF Single
<1> QED
  BY <1>4, <1>5, <1>6, <1>7, <1>8

-----------------------------------------------------------------------------
(* Reading.                                                                *)

\* The claims of a report have new numbers, and each its own.
LEMMA ReportIsNumbered ==
    ASSUME Numbered, NEW f, NEW found \in Reports
    PROVE  LET cs == Incoming({KeyOf[f]}, found)
               n  == counter + Len(found)
           IN  /\ n \in Nat
               /\ \A c \in cs : c.id \in (1 .. n) \ (1 .. counter)
               /\ \A c, d \in cs : c.id = d.id => c = d
               /\ \A i \in Recordable(found) :
                    \E c \in cs : c.id = counter + i /\ KeyOf[f] \in c.origin
<1> DEFINE cs == Incoming({KeyOf[f]}, found)
           n  == counter + Len(found)
<1>1. counter \in Nat /\ Len(found) \in Nat
  BY ReportsAssumption DEF Numbered
<1>2. \A i \in Recordable(found) : i \in 1 .. Len(found)
  BY DEF Recordable
<1>3. \A c \in cs : \E i \in Recordable(found) :
         c = Claim(counter + i, {KeyOf[f]}, found[i]) /\ c.id = counter + i
  BY DEF Incoming, Claim
<1>4. ASSUME NEW c \in cs
      PROVE  c.id \in (1 .. n) \ (1 .. counter)
  <2>1. PICK i \in 1 .. Len(found) : c.id = counter + i
    BY <1>2, <1>3
  <2> QED
    BY <1>1, <2>1
<1>5. ASSUME NEW c \in cs, NEW d \in cs, c.id = d.id PROVE c = d
  <2>1. PICK i \in Recordable(found) :
           c = Claim(counter + i, {KeyOf[f]}, found[i]) /\ c.id = counter + i
    BY <1>3
  <2>2. PICK j \in Recordable(found) :
           d = Claim(counter + j, {KeyOf[f]}, found[j]) /\ d.id = counter + j
    BY <1>3
  <2>3. i = j
    BY <1>1, <1>2, <1>5, <2>1, <2>2
  <2> QED
    BY <2>1, <2>2, <2>3
<1>6. ASSUME NEW i \in Recordable(found)
      PROVE  \E c \in cs : c.id = counter + i /\ KeyOf[f] \in c.origin
  <2>1. Claim(counter + i, {KeyOf[f]}, found[i]) \in cs
    BY DEF Incoming
  <2> QED
    BY <2>1 DEF Claim
<1>7. n \in Nat
  BY <1>1
<1> QED
  BY <1>4, <1>5, <1>6, <1>7

\* exact_merge merges only into what stays.
LEMMA MergedIntoWhatStays ==
    ASSUME Numbered, NEW n \in Nat, NEW cs,
           \A c \in cs : c.id \in (1 .. n) \ (1 .. counter),
           \A c, d \in cs : c.id = d.id => c = d,
           NEW a \in ExactAliases(cs)
    PROVE  /\ \E c \in cs : a.duplicate = c.id
           /\ a.canonical \in Live \/ \E c \in cs : a.canonical = c.id
           /\ \A b \in ExactAliases(cs) : a.canonical # b.duplicate
<1>1. PICK c \in cs : /\ Known(c) # {} \/ Earlier(c, cs) # {}
                      /\ a.duplicate = c.id
                      /\ a.canonical = IF Known(c) # {} THEN Greatest(Known(c))
                                                        ELSE Least(Earlier(c, cs))
  BY DEF ExactAliases, Alias
<1>2. \A b \in ExactAliases(cs) : \E d \in cs : /\ Known(d) # {} \/ Earlier(d, cs) # {}
                                                /\ b.duplicate = d.id
  BY DEF ExactAliases, Alias
<1>3. counter \in Nat /\ Live \subseteq 1 .. counter
  BY DEF Numbered, Live
<1>4. CASE Known(c) # {}
  <2>1. Known(c) \in SUBSET (0 .. counter)
    <3>1. Known(c) \subseteq Live
      BY DEF Known
    <3>2. \A x \in Live : x \in 0 .. counter
      BY <1>3
    <3> QED
      BY <3>1, <3>2
  <2>2. a.canonical \in Known(c)
    BY <1>1, <1>3, <1>4, <2>1, GreatestOf
  <2>3. a.canonical \in Live
    BY <2>2 DEF Known
  <2> QED
    BY <1>1, <1>2, <1>3, <2>3
<1>5. CASE Known(c) = {}
  <2>1. Earlier(c, cs) \in SUBSET Nat /\ Earlier(c, cs) # {}
    BY <1>1, <1>5 DEF Earlier
  <2>2. a.canonical \in Earlier(c, cs) /\ \A y \in Earlier(c, cs) : a.canonical <= y
    BY <1>1, <1>5, <2>1, LeastOf
  <2>3. PICK d \in cs : a.canonical = d.id /\ d.id < c.id /\ d.finding[1] = c.finding[1]
    BY <2>2 DEF Earlier
  <2>4. Known(d) = {}
    BY <1>5, <2>3 DEF Known
  <2>5. ASSUME NEW e \in cs, e.id < d.id, e.finding[1] = d.finding[1] PROVE FALSE
    <3>1. e.id \in Nat /\ d.id \in Nat /\ c.id \in Nat
      OBVIOUS
    <3>2. e.id \in Earlier(c, cs)
      BY <2>3, <2>5, <3>1 DEF Earlier
    <3> QED
      BY <2>2, <2>3, <2>5, <3>1, <3>2
  <2>6. Earlier(d, cs) = {}
    BY <2>5 DEF Earlier
  <2>7. \A b \in ExactAliases(cs) : b.duplicate # d.id
    BY <1>2, <2>4, <2>6
  <2> QED
    BY <1>1, <2>3, <2>7
<1> QED
  BY <1>4, <1>5

\* What is no duplicate is worded like no claim there is and like nothing
\* before it.
LEMMA KeptAreNew ==
    ASSUME NEW cs, NEW c \in cs, \A a \in ExactAliases(cs) : a.duplicate # c.id
    PROVE  Known(c) = {} /\ Earlier(c, cs) = {}
<1> SUFFICES ASSUME Known(c) # {} \/ Earlier(c, cs) # {} PROVE FALSE
  OBVIOUS
<1> DEFINE into == IF Known(c) # {} THEN Greatest(Known(c)) ELSE Least(Earlier(c, cs))
<1>1. Alias(into, c.id) \in ExactAliases(cs)
  BY DEF ExactAliases
<1> QED
  BY <1>1 DEF Alias

LEMMA ReadFindingsStep ==
    ASSUME CritiqueInv, NEW f \in Names, NEW found \in Reports, ReadFindings(f, found)
    PROVE  CritiqueInv'
<1> USE DEF CritiqueInv
<1> DEFINE cs == Incoming({KeyOf[f]}, found)
           n == counter + Len(found)
<1>a. Numbered
  OBVIOUS
<1>0. /\ incoming = {} /\ aliases = {} /\ phase = "critique"
      /\ incoming' = cs /\ aliases' = ExactAliases(cs) /\ counter' = n
      /\ raised' = raised \union {<<f, counter + i>> : i \in Recordable(found)}
      /\ UNCHANGED <<merge, phase, review, home, unparseable>>
  BY DEF ReadFindings, Recorded
<1>1. /\ n \in Nat
      /\ \A c \in cs : c.id \in (1 .. n) \ (1 .. counter)
      /\ \A c, d \in cs : c.id = d.id => c = d
      /\ \A i \in Recordable(found) :
           \E c \in cs : c.id = counter + i /\ KeyOf[f] \in c.origin
  BY <1>a, ReportIsNumbered
<1> HIDE DEF cs, n
<1>2. /\ Ids' = Ids /\ Live' = Live /\ Live \subseteq Ids /\ Ids \subseteq 1 .. counter
      /\ counter \in Nat /\ Coming = {} /\ Going = {}
      /\ Coming' = {c.id : c \in cs} /\ Going' = {a.duplicate : a \in ExactAliases(cs)}
  BY <1>0 DEF Ids, Live, Coming, Going, Numbered
<1>3. Numbered'
  <2>1. 1 .. counter \subseteq 1 .. n
    BY <1>1, <1>2, ReportsAssumption DEF n
  <2> QED
    BY <1>0, <1>1, <1>2, <2>1 DEF Numbered
<1>4. Pointing'
  <2> SUFFICES ASSUME NEW a \in ExactAliases(cs)
               PROVE  /\ a.duplicate \in Ids' \union Coming'
                      /\ a.canonical \in (Live' \union Coming') \ Going'
    BY <1>0 DEF Pointing
  <2>1. /\ \E c \in cs : a.duplicate = c.id
        /\ a.canonical \in Live \/ \E c \in cs : a.canonical = c.id
        /\ \A b \in ExactAliases(cs) : a.canonical # b.duplicate
    BY <1>1, MergedIntoWhatStays
  <2> QED
    BY <1>2, <2>1
<1>5. AtHome'
  BY <1>0, <1>2 DEF AtHome
<1>6. Authored'
  <2>1. \A r \in raised : r[2] \in Ids' /\ KeyOf[r[1]] \in review'.origins[home'[r[2]]]
    BY <1>0, <1>2 DEF Authored
  <2>2. ASSUME NEW i \in Recordable(found), NEW r, r = <<f, counter + i>>
        PROVE  \E c \in incoming' : c.id = r[2] /\ KeyOf[r[1]] \in c.origin
    BY <1>0, <1>1, <2>2
  <2> QED
    BY <1>0, <2>1, <2>2 DEF Authored
<1>7. Single'
  <2> SUFFICES ASSUME merge = "exact" PROVE Single'
    BY <1>0 DEF Single
  <2>1. \A x, y \in Live : review.wording[x] = review.wording[y] => x = y
    BY <1>2 DEF Single
  <2>2. \A c \in cs : c.id \notin Going' => Known(c) = {} /\ Earlier(c, cs) = {}
    BY <1>2, KeptAreNew
  <2>3. \A x \in Live, c \in cs : c.id \notin Going' => review.wording[x] # c.finding[1]
    BY <2>2 DEF Known
  <2>4. ASSUME NEW c \in cs, NEW d \in cs, c.id \notin Going', d.id \notin Going',
               c.finding[1] = d.finding[1]
        PROVE  c = d
    <3>1. ~(c.id < d.id) /\ ~(d.id < c.id)
      BY <2>2, <2>4 DEF Earlier
    <3> QED
      BY <1>1, <3>1
  <2>5. unparseable = {} /\ phase \notin {"extraction", "merging"}
    BY <1>0 DEF Single
  <2>6. /\ \A x, y \in Live' \ Going' : review'.wording[x] = review'.wording[y] => x = y
        /\ \A x \in Live' \ Going', c \in incoming' :
             c.id \notin Going' => review'.wording[x] # c.finding[1]
    BY <1>0, <1>2, <2>1, <2>3
  <2>7. \A c, d \in incoming' : c.id \notin Going' /\ d.id \notin Going'
                                 /\ c.finding[1] = d.finding[1] => c = d
    BY <1>0, <2>4
  <2> QED
    BY <1>0, <2>5, <2>6, <2>7 DEF Single
<1> QED
  BY <1>3, <1>4, <1>5, <1>6, <1>7

-----------------------------------------------------------------------------
(* The orchestrator's answers, and the rest.                               *)

LEMMA ExtractionStep ==
    ASSUME CritiqueInv, NEW f \in Names, NEW found \in Reports, ApplyExtraction(f, found)
    PROVE  CritiqueInv'
<1> USE DEF CritiqueInv
<1> DEFINE last == NextClaimNumber
           cs == {ExtractedClaim(last + i, f, found[i]) : i \in 1 .. Len(found)}
<1>0. /\ incoming = {} /\ aliases = {} /\ phase = "extraction"
      /\ incoming' = cs /\ counter' = last + Len(found)
      /\ UNCHANGED <<merge, review, home, aliases, raised>>
  BY DEF ApplyExtraction, Recorded
<1>1. /\ last \in Nat /\ Len(found) \in Nat
      /\ \A id \in Ids : id \in Nat /\ 1 <= id /\ id <= last
  <2>1. Numbered
    OBVIOUS
  <2> QED
    BY <2>1, NumbersAreSpent, ReportsAssumption DEF Numbered
<1> HIDE DEF last
<1>2. \A c \in cs : \E i \in 1 .. Len(found) :
         c = ExtractedClaim(last + i, f, found[i]) /\ c.id = last + i
  BY DEF ExtractedClaim, Claim
<1> HIDE DEF cs
<1>3. Ids' = Ids /\ Live' = Live /\ Going' = {} /\ Going = {} /\ Coming = {}
  BY <1>0 DEF Ids, Live, Coming, Going
<1>4. Numbered'
  <2>1. counter' \in Nat /\ Ids \subseteq 1 .. counter'
    BY <1>0, <1>1
  <2>2. \A c \in cs : c.id \in (1 .. counter') \ Ids
    BY <1>0, <1>1, <1>2
  <2>3. ASSUME NEW c \in cs, NEW d \in cs, c.id = d.id PROVE c = d
    <3>1. PICK i \in 1 .. Len(found) :
             c = ExtractedClaim(last + i, f, found[i]) /\ c.id = last + i
      BY <1>2
    <3>2. PICK j \in 1 .. Len(found) :
             d = ExtractedClaim(last + j, f, found[j]) /\ d.id = last + j
      BY <1>2
    <3>3. i = j
      BY <1>1, <2>3, <3>1, <3>2
    <3> QED
      BY <3>1, <3>2, <3>3
  <2> QED
    BY <1>0, <1>3, <2>1, <2>2, <2>3 DEF Numbered
<1>5. Pointing' /\ AtHome' /\ Authored'
  BY <1>0, <1>3 DEF Pointing, AtHome, Authored
<1>6. Single'
  BY <1>0 DEF Single
<1> QED
  BY <1>4, <1>5, <1>6

LEMMA MergesStep ==
    ASSUME CritiqueInv, NEW into \in Adjudications, ApplyMerges(into)
    PROVE  CritiqueInv'
<1> USE DEF CritiqueInv
<1>0. /\ incoming = {} /\ aliases = {} /\ phase = "merging"
      /\ aliases' = {Alias(into[d], d) : d \in DOMAIN into} /\ counter' = NextClaimNumber
      /\ UNCHANGED <<merge, review, home, incoming, raised>>
  BY DEF ApplyMerges, Recorded
<1>1. PICK away \in SUBSET Live : into \in [away -> Live \ away]
  BY DEF Adjudications
<1>2. /\ Ids' = Ids /\ Live' = Live /\ Live \subseteq Ids /\ Coming' = {}
      /\ Going' = away
  <2>1. \A a \in aliases' : a.duplicate \in away /\ a.canonical = into[a.duplicate]
    BY <1>0, <1>1 DEF Alias
  <2>2. \A d \in away : \E a \in aliases' : a.duplicate = d
    <3> SUFFICES ASSUME NEW d \in away PROVE \E a \in aliases' : a.duplicate = d
      OBVIOUS
    <3>1. Alias(into[d], d) \in aliases'
      BY <1>0, <1>1
    <3> QED
      BY <3>1 DEF Alias
  <2> QED
    BY <1>0, <2>1, <2>2 DEF Ids, Live, Coming, Going
<1>3. Numbered'
  <2>1. Numbered
    OBVIOUS
  <2>2. NextClaimNumber \in Nat /\ \A id \in Ids : id \in Nat /\ 1 <= id /\ id <= NextClaimNumber
    BY <2>1, NumbersAreSpent DEF Numbered
  <2>3. Ids \subseteq 1 .. NextClaimNumber
    BY <2>2
  <2> QED
    BY <1>0, <1>2, <2>1, <2>2, <2>3 DEF Numbered
<1>4. Pointing'
  <2>1. \A a \in aliases' : a.duplicate \in away /\ a.canonical \in Live \ away
    BY <1>0, <1>1 DEF Alias
  <2> QED
    BY <1>2, <2>1 DEF Pointing
<1>5. AtHome' /\ Authored'
  BY <1>0, <1>2 DEF AtHome, Authored
<1>6. Single'
  BY <1>0 DEF Single
<1> QED
  BY <1>3, <1>4, <1>5, <1>6

\* Reading a failure, closing a round and opening the next leave the claims
\* as they are; without --merge orchestrator nobody is asked anything.
LEMMA OtherSteps ==
    ASSUME CritiqueInv,
           \/ \E f \in Names, readable, auth \in BOOLEAN : ReadFailure(f, readable, auth)
           \/ CloseRound
           \/ NextIteration
           \/ UNCHANGED critiqueVars
    PROVE  CritiqueInv'
<1>1. UNCHANGED <<merge, counter, review, incoming, aliases, home, raised>>
  BY DEF ReadFailure, CloseRound, NextIteration, critiqueVars, ledgerVars
<1>2. merge = "exact" => /\ unparseable = {} /\ phase \notin {"extraction", "merging"}
                         /\ unparseable' = {} /\ phase' \notin {"extraction", "merging"}
  BY DEF ReadFailure, CloseRound, NextIteration, critiqueVars, ledgerVars, CritiqueInv, Single
<1>3. Ids' = Ids /\ Live' = Live /\ Coming' = Coming /\ Going' = Going
  BY <1>1 DEF Ids, Live, Coming, Going
<1>4. Numbered' /\ Pointing' /\ AtHome' /\ Authored'
  BY <1>1, <1>3 DEF CritiqueInv, Numbered, Pointing, AtHome, Authored
<1>5. Single'
  BY <1>1, <1>2, <1>3 DEF CritiqueInv, Single
<1> QED
  BY <1>4, <1>5 DEF CritiqueInv

LEMMA CritiqueSteps == CritiqueInv /\ [CritiqueNext]_critiqueVars => CritiqueInv'
  BY AppendClaimStep, AppendAliasStep, ReadFindingsStep, ExtractionStep, MergesStep, OtherSteps
  DEF CritiqueNext

LEMMA CritiqueHolds == CritiqueSpec => []CritiqueInv
  BY CritiqueStarts, CritiqueSteps, PTL DEF CritiqueSpec

\* For every roster, every report, every answer and any number of iterations:
\* the ledger replays without a warning, no number is given twice, and who
\* raised a finding is never asked to judge what became of it.
THEOREM RaisersStayAuthors == CritiqueSpec => []RaisersAreAuthors
<1>1. CritiqueInv => RaisersAreAuthors
  <2> SUFFICES ASSUME CritiqueInv, Recorded, NEW r \in raised
               PROVE  home[r[2]] \in Live /\ home[r[2]] \notin Slice(r[1])
    BY DEF RaisersAreAuthors, CritiqueInv, Numbered
  <2>1. r[2] \in Ids /\ KeyOf[r[1]] \in review.origins[home[r[2]]]
    BY DEF CritiqueInv, Authored, Recorded
  <2> QED
    BY <2>1 DEF CritiqueInv, AtHome, Slice
<1> QED
  BY <1>1, CritiqueHolds, PTL

\* And while only exact merges are made, no wording is judged twice.
THEOREM WordingsAreJudgedOnce == CritiqueSpec => []OneClaimPerWording
<1>1. CritiqueInv => OneClaimPerWording
  <2> SUFFICES ASSUME CritiqueInv, Recorded PROVE OneClaimPerWording
    BY DEF OneClaimPerWording
  <2>1. Going = {}
    BY DEF Going, Recorded
  <2> QED
    BY <2>1 DEF CritiqueInv, Single, OneClaimPerWording
<1> QED
  BY <1>1, CritiqueHolds, PTL
=============================================================================
