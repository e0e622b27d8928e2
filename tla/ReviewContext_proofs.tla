------------------------ MODULE ReviewContext_proofs ------------------------
(***************************************************************************)
(* Theorems about ReviewContext, for any number of composers, pieces,      *)
(* edits, failures and runs: what is published was all true at one moment, *)
(* a sidecar attests a composite that was published, and a run freezes no  *)
(* other pair.                                                             *)
(*                                                                         *)
(* The moment is the end of the first look (Between): what was captured is *)
(* no newer than it, what a second look confirms is no older, and a piece  *)
(* never returns to what it was.  The first look takes every piece         *)
(* (EveryPieceIsLookedAt), the second compares every one of them.          *)
(***************************************************************************)
EXTENDS ReviewContext, SequenceTheorems, TLAPS

Places == {"look", "staging", "staged", "placed", "done", "refused", "dead"}

\* The captured pieces are still those of its last look.
Composed(c) == step[c] \in {"staging", "staged", "placed"}

CTypeOK ==
    /\ worth \in [Pieces -> Nat \ {0}] /\ past \subseteq [Pieces -> Nat \ {0}] /\ worth \in past
    /\ step \in [Composers -> Places] /\ at \in [Composers -> Nat]
    /\ got \in [Composers -> [Pieces -> Nat]]

\* How far a composer has come, and what it holds by then.
Looked ==
    \A c \in Composers :
      /\ at[c] <= Len(Looks(c))
      /\ \A i \in 1 .. at[c] : got[c][Looks(c)[i]] # 0
      /\ \A p \in Pieces : got[c][p] # 0 => p \in Elements(Asked(c))
      /\ \A p \in Pieces : got[c][p] <= worth[p]

\* After the first look there is a moment at which nothing was newer than what
\* was captured, nor older than what has been compared since.
Moment(c, w) ==
    /\ \A p \in Pieces : got[c][p] <= w[p] /\ w[p] <= worth[p]
    /\ \A i \in Len(FirstLook(c)) + 1 .. at[c] : got[c][Looks(c)[i]] = w[Looks(c)[i]]

Between ==
    \A c \in Composers :
      step[c] = "look" /\ at[c] >= Len(FirstLook(c)) => \E w \in past : Moment(c, w)

\* From staging to publishing.
Publishing ==
    /\ \A c \in Composers : Composed(c) => IsACut(got[c])
    /\ \A c \in Composers : step[c] = "placed" => got[c] \in outputs
    /\ PublishedIsACut
    /\ SidecarFollowsComposite

Inv == CTypeOK /\ Looked /\ Between /\ Publishing /\ TakenIsAttested

-----------------------------------------------------------------------------
(* What the sequences of looks contain.                                    *)

\* A concatenation is its first part, then its second.
LEMMA ConcatIndex ==
    ASSUME NEW S, NEW s \in Seq(S), NEW t \in Seq(S)
    PROVE  /\ s \o t \in Seq(S) /\ Len(s \o t) = Len(s) + Len(t)
           /\ \A i \in 1 .. Len(s) : (s \o t)[i] = s[i]
           /\ \A i \in 1 .. Len(t) : (s \o t)[Len(s) + i] = t[i]
<1>1. Len(s) \in Nat /\ Len(t) \in Nat
  OBVIOUS
<1>2. \A i \in 1 .. Len(s) + Len(t) : (s \o t)[i] = IF i <= Len(s) THEN s[i] ELSE t[i - Len(s)]
  BY ConcatProperties, Zenon
<1>3. s \o t \in Seq(S) /\ Len(s \o t) = Len(s) + Len(t)
  BY ConcatProperties, Zenon
<1> QED
  BY <1>1, <1>2, <1>3

\* Both looks take what was asked for: the first somewhere, the second at the
\* same place counted from its beginning.
LEMMA EveryPieceIsLookedAt ==
    ASSUME NEW c \in Composers
    PROVE  /\ FirstLook(c) \in Seq(Pieces) /\ Asked(c) \in Seq(Pieces)
           /\ Looks(c) \in Seq(Pieces)
           /\ Len(Looks(c)) = Len(FirstLook(c)) + Len(Asked(c))
           /\ \A i \in 1 .. Len(Looks(c)) : Looks(c)[i] \in Elements(Asked(c))
           /\ \A p \in Elements(Asked(c)) :
                /\ \E i \in 1 .. Len(FirstLook(c)) : Looks(c)[i] = p
                /\ \E i \in Len(FirstLook(c)) + 1 .. Len(Looks(c)) : Looks(c)[i] = p
<1> DEFINE I == InputsOf[c]
           G == ChangesOf[c]
<1>1. I \in Seq(Pieces) /\ G \in Seq(Pieces)
  BY AskedAssumption
<1>2. /\ Len(I) \in Nat /\ Len(G) \in Nat
      /\ \A i \in 1 .. Len(I) : I[i] \in Pieces
      /\ \A i \in 1 .. Len(G) : G[i] \in Pieces
  BY <1>1
<1> HIDE DEF I, G
<1>3. /\ \A i \in 1 .. 2 * Len(I) : (i + 1) \div 2 \in 1 .. Len(I)
      /\ \A i \in 1 .. Len(I) : 2 * i \in 1 .. 2 * Len(I) /\ (2 * i + 1) \div 2 = i
  BY <1>2
<1>4. /\ Twice(I) \in Seq(Pieces) /\ Len(Twice(I)) = 2 * Len(I)
      /\ \A i \in 1 .. 2 * Len(I) : Twice(I)[i] = I[(i + 1) \div 2]
  <2>1. Twice(I) \in [1 .. 2 * Len(I) -> Pieces]
    BY <1>2, <1>3 DEF Twice
  <2>2. 2 * Len(I) \in Nat
    BY <1>2
  <2>3. Twice(I) \in Seq(Pieces)
    BY <2>1, <2>2, SeqDef
  <2> QED
    BY <2>1, <2>2, <2>3 DEF Twice
<1>5. /\ FirstLook(c) = Twice(I) \o G /\ Asked(c) = I \o G /\ Looks(c) = FirstLook(c) \o Asked(c)
  BY DEF FirstLook, Asked, Looks, I, G
<1>6. /\ FirstLook(c) \in Seq(Pieces) /\ Len(FirstLook(c)) = 2 * Len(I) + Len(G)
      /\ \A i \in 1 .. 2 * Len(I) : FirstLook(c)[i] = Twice(I)[i]
      /\ \A i \in 1 .. Len(G) : FirstLook(c)[2 * Len(I) + i] = G[i]
  <2>1. Twice(I) \in Seq(Pieces)
    BY <1>4
  <2>2. /\ Twice(I) \o G \in Seq(Pieces) /\ Len(Twice(I) \o G) = Len(Twice(I)) + Len(G)
        /\ \A i \in 1 .. Len(Twice(I)) : (Twice(I) \o G)[i] = Twice(I)[i]
        /\ \A i \in 1 .. Len(G) : (Twice(I) \o G)[Len(Twice(I)) + i] = G[i]
    BY <1>1, <2>1, ConcatIndex
  <2> QED
    BY <1>4, <1>5, <2>2
<1>7. /\ Asked(c) \in Seq(Pieces) /\ Len(Asked(c)) = Len(I) + Len(G)
      /\ \A i \in 1 .. Len(I) : Asked(c)[i] = I[i]
      /\ \A i \in 1 .. Len(G) : Asked(c)[Len(I) + i] = G[i]
  <2>1. /\ I \o G \in Seq(Pieces) /\ Len(I \o G) = Len(I) + Len(G)
        /\ \A i \in 1 .. Len(I) : (I \o G)[i] = I[i]
        /\ \A i \in 1 .. Len(G) : (I \o G)[Len(I) + i] = G[i]
    BY <1>1, ConcatIndex
  <2> QED
    BY <1>5, <2>1
<1>8. /\ Looks(c) \in Seq(Pieces) /\ Len(Looks(c)) = Len(FirstLook(c)) + Len(Asked(c))
      /\ \A i \in 1 .. Len(FirstLook(c)) : Looks(c)[i] = FirstLook(c)[i]
      /\ \A i \in 1 .. Len(Asked(c)) : Looks(c)[Len(FirstLook(c)) + i] = Asked(c)[i]
  <2>1. FirstLook(c) \in Seq(Pieces) /\ Asked(c) \in Seq(Pieces)
    BY <1>6, <1>7
  <2>2. LET s == FirstLook(c) \o Asked(c) IN
        /\ s \in Seq(Pieces) /\ Len(s) = Len(FirstLook(c)) + Len(Asked(c))
        /\ \A i \in 1 .. Len(FirstLook(c)) : s[i] = FirstLook(c)[i]
        /\ \A i \in 1 .. Len(Asked(c)) : s[Len(FirstLook(c)) + i] = Asked(c)[i]
    BY <2>1, ConcatIndex
  <2> QED
    BY <1>5, <2>2
<1>9. /\ \A i \in 1 .. Len(I) : I[i] \in Elements(Asked(c))
      /\ \A i \in 1 .. Len(G) : G[i] \in Elements(Asked(c))
  <2>1. ASSUME NEW i \in 1 .. Len(I) PROVE I[i] \in Elements(Asked(c))
    <3>1. i \in 1 .. Len(Asked(c)) /\ Asked(c)[i] = I[i]
      BY <1>2, <1>7
    <3> QED
      BY <3>1 DEF Elements
  <2>2. ASSUME NEW i \in 1 .. Len(G) PROVE G[i] \in Elements(Asked(c))
    <3>1. Len(I) + i \in 1 .. Len(Asked(c)) /\ Asked(c)[Len(I) + i] = G[i]
      BY <1>2, <1>7
    <3> QED
      BY <3>1 DEF Elements
  <2> QED
    BY <2>1, <2>2
<1>10. \A i \in 1 .. Len(FirstLook(c)) : FirstLook(c)[i] \in Elements(Asked(c))
  <2> SUFFICES ASSUME NEW i \in 1 .. Len(FirstLook(c))
               PROVE  FirstLook(c)[i] \in Elements(Asked(c))
    OBVIOUS
  <2>1. CASE i <= 2 * Len(I)
    <3>1. i \in 1 .. 2 * Len(I)
      BY <1>2, <1>6, <2>1
    <3> QED
      BY <1>3, <1>4, <1>6, <1>9, <3>1
  <2>2. CASE i > 2 * Len(I)
    <3>1. i - 2 * Len(I) \in 1 .. Len(G) /\ i = 2 * Len(I) + (i - 2 * Len(I))
      BY <1>2, <1>6, <2>2
    <3>2. FirstLook(c)[i] = G[i - 2 * Len(I)]
      BY <1>6, <3>1
    <3> QED
      BY <1>9, <3>1, <3>2
  <2> QED
    BY <1>2, <1>6, <2>1, <2>2
<1>11. \A i \in 1 .. Len(Looks(c)) : Looks(c)[i] \in Elements(Asked(c))
  <2> SUFFICES ASSUME NEW i \in 1 .. Len(Looks(c))
               PROVE  Looks(c)[i] \in Elements(Asked(c))
    OBVIOUS
  <2>1. CASE i <= Len(FirstLook(c))
    <3>1. i \in 1 .. Len(FirstLook(c))
      BY <1>2, <1>6, <2>1
    <3> QED
      BY <1>8, <1>10, <3>1
  <2>2. CASE i > Len(FirstLook(c))
    <3>1. /\ i - Len(FirstLook(c)) \in 1 .. Len(Asked(c))
          /\ i = Len(FirstLook(c)) + (i - Len(FirstLook(c)))
      BY <1>2, <1>6, <1>7, <1>8, <2>2
    <3>2. Looks(c)[i] = Asked(c)[i - Len(FirstLook(c))]
      BY <1>8, <3>1
    <3> QED
      BY <3>1, <3>2 DEF Elements
  <2> QED
    BY <1>2, <1>6, <2>1, <2>2
<1>12. ASSUME NEW p \in Elements(Asked(c))
       PROVE  /\ \E i \in 1 .. Len(FirstLook(c)) : Looks(c)[i] = p
              /\ \E i \in Len(FirstLook(c)) + 1 .. Len(Looks(c)) : Looks(c)[i] = p
  <2>1. PICK j \in 1 .. Len(Asked(c)) : p = Asked(c)[j]
    BY DEF Elements
  <2>2. \E i \in Len(FirstLook(c)) + 1 .. Len(Looks(c)) : Looks(c)[i] = p
    <3>1. Len(FirstLook(c)) + j \in Len(FirstLook(c)) + 1 .. Len(Looks(c))
      BY <1>2, <1>6, <1>7, <1>8, <2>1
    <3> QED
      BY <1>8, <2>1, <3>1
  <2>3. \E i \in 1 .. Len(FirstLook(c)) : FirstLook(c)[i] = p
    <3>1. CASE j <= Len(I)
      <4>1. j \in 1 .. Len(I) /\ p = I[j]
        BY <1>2, <1>7, <2>1, <3>1
      <4>2. 2 * j \in 1 .. 2 * Len(I) /\ Twice(I)[2 * j] = I[j]
        BY <1>3, <1>4, <4>1
      <4>3. 2 * j \in 1 .. Len(FirstLook(c))
        BY <1>2, <1>6, <4>1
      <4> QED
        BY <1>6, <4>1, <4>2, <4>3
    <3>2. CASE j > Len(I)
      <4>1. j - Len(I) \in 1 .. Len(G) /\ j = Len(I) + (j - Len(I))
        BY <1>2, <1>7, <2>1, <3>2
      <4>2. p = G[j - Len(I)]
        BY <1>7, <2>1, <4>1
      <4>3. 2 * Len(I) + (j - Len(I)) \in 1 .. Len(FirstLook(c))
        BY <1>2, <1>6, <4>1
      <4> QED
        BY <1>6, <4>1, <4>2, <4>3
    <3> QED
      BY <1>2, <2>1, <3>1, <3>2
  <2> QED
    BY <1>8, <2>2, <2>3
<1> QED
  BY <1>6, <1>7, <1>8, <1>11, <1>12

-----------------------------------------------------------------------------
(* Each step keeps the invariant.                                          *)

LEMMA InitInv == Init => Inv
<1> SUFFICES ASSUME Init PROVE Inv
  OBVIOUS
<1>1. CTypeOK
  BY DEF Init, CTypeOK, Unseen, Places
<1>2. Looked
  BY EveryPieceIsLookedAt DEF Init, Looked, Unseen
<1>3. Between
  <2> SUFFICES ASSUME NEW c \in Composers, Len(FirstLook(c)) <= 0 PROVE Moment(c, worth)
    BY DEF Init, Between
  <2> QED
    BY EveryPieceIsLookedAt DEF Init, Moment, Unseen
<1>4. Publishing /\ TakenIsAttested
  BY DEF Init, Publishing, Composed, PublishedIsACut, SidecarFollowsComposite, TakenIsAttested
<1> QED
  BY <1>1, <1>2, <1>3, <1>4 DEF Inv

\* A moment once found is kept by whatever lets the evidence grow older only,
\* and leaves the composer alone.
LEMMA CutsStay ==
    ASSUME past \subseteq past', NEW composite, IsACut(composite)
    PROVE  IsACut(composite)'
BY DEF IsACut

\* Steps that touch neither the evidence nor what the composers have captured.
LEMMA CapturedStays ==
    ASSUME Inv, UNCHANGED <<worth, past, at, got>>,
           step' \in [Composers -> Places],
           \A c \in Composers : step'[c] # step[c] => step'[c] # "look"
    PROVE  CTypeOK' /\ Looked' /\ Between'
<1>1. CTypeOK'
  BY DEF Inv, CTypeOK
<1>2. Looked'
  BY DEF Inv, Looked
<1>3. Between'
  BY DEF Inv, Between, Moment
<1> QED
  BY <1>1, <1>2, <1>3

\* What is on disk, and what a run makes of it.
LEMMA PublishedStays ==
    ASSUME Inv, past \subseteq past', UNCHANGED <<sidecar, outputs, taken>>,
           \A c \in Composers :
             /\ Composed(c)' => got'[c] = got[c]
             /\ Composed(c)' /\ ~Composed(c) => IsACut(got[c])
             /\ step'[c] = "placed" => step[c] = "placed"
    PROVE  Publishing' /\ TakenIsAttested'
<1>1. ASSUME NEW c \in Composers, Composed(c)' PROVE IsACut(got[c])'
  BY <1>1, CutsStay DEF Inv, Publishing, IsACut
<1>2. PublishedIsACut' /\ TakenIsAttested'
  BY CutsStay DEF Inv, Publishing, PublishedIsACut, TakenIsAttested, IsACut
<1>3. \A c \in Composers : step'[c] = "placed" => got'[c] \in outputs'
  BY DEF Inv, Publishing, Composed
<1>4. SidecarFollowsComposite'
  BY DEF Inv, Publishing, SidecarFollowsComposite
<1> QED
  BY <1>1, <1>2, <1>3, <1>4 DEF Publishing

\* The second look compares only: every piece has been captured in the first.
LEMMA SecondLookCompares ==
    ASSUME Inv, NEW c \in Composers, at[c] >= Len(FirstLook(c)), at[c] < Len(Looks(c))
    PROVE  got[c][Looks(c)[at[c] + 1]] # 0
<1> DEFINE p == Looks(c)[at[c] + 1]
<1>1. at[c] \in Nat /\ Len(Looks(c)) \in Nat
  BY EveryPieceIsLookedAt DEF Inv, CTypeOK
<1>2. p \in Elements(Asked(c))
  BY <1>1, EveryPieceIsLookedAt
<1>3. PICK i \in 1 .. Len(FirstLook(c)) : Looks(c)[i] = p
  BY <1>2, EveryPieceIsLookedAt
<1>4. Len(FirstLook(c)) \in Nat
  BY EveryPieceIsLookedAt
<1>5. i \in 1 .. at[c]
  BY <1>1, <1>3, <1>4
<1> QED
  BY <1>3, <1>5 DEF Inv, Looked

\* What has passed both looks was all there at the end of the first.
LEMMA ConfirmedIsACut ==
    ASSUME Inv, NEW c \in Composers, step[c] = "look", at[c] = Len(Looks(c))
    PROVE  IsACut(got[c])
<1>1. Len(Looks(c)) \in Nat /\ Len(FirstLook(c)) \in Nat /\ Len(Asked(c)) \in Nat
  BY EveryPieceIsLookedAt
<1>2. at[c] >= Len(FirstLook(c))
  BY <1>1, EveryPieceIsLookedAt
<1>3. PICK w \in past : Moment(c, w)
  BY <1>2 DEF Inv, Between
<1>4. ASSUME NEW p \in Pieces, got[c][p] # 0 PROVE got[c][p] = w[p]
  <2>1. p \in Elements(Asked(c))
    BY <1>4 DEF Inv, Looked
  <2>2. PICK i \in Len(FirstLook(c)) + 1 .. Len(Looks(c)) : Looks(c)[i] = p
    BY <2>1, EveryPieceIsLookedAt
  <2> QED
    BY <1>3, <2>2 DEF Moment
<1> QED
  BY <1>3, <1>4 DEF IsACut

LEMMA LookKeepsInv ==
    ASSUME Inv, NEW c \in Composers, Look(c)
    PROVE  Inv'
<1> DEFINE p == Looks(c)[at[c] + 1]
<1>1. /\ at[c] \in Nat /\ Len(Looks(c)) \in Nat /\ Len(FirstLook(c)) \in Nat
      /\ at[c] < Len(Looks(c)) /\ at[c] + 1 \in 1 .. Len(Looks(c))
  <2>1. at[c] \in Nat /\ at[c] < Len(Looks(c))
    BY DEF Inv, CTypeOK, Look
  <2>2. Len(Looks(c)) \in Nat /\ Len(FirstLook(c)) \in Nat
    BY EveryPieceIsLookedAt
  <2> QED
    BY <2>1, <2>2
<1>2. p \in Pieces /\ p \in Elements(Asked(c))
  BY <1>1, EveryPieceIsLookedAt
<1>3. /\ at' = [at EXCEPT ![c] = @ + 1]
      /\ \/ got[c][p] = 0 /\ got' = [got EXCEPT ![c][p] = worth[p]] /\ step' = step
         \/ got[c][p] = worth[p] /\ got' = got /\ step' = step
         \/ got[c][p] \notin {0, worth[p]} /\ got' = got
            /\ step' = [step EXCEPT ![c] = "refused"]
      /\ step[c] = "look"
      /\ UNCHANGED <<worth, past, sidecar, outputs, taken>>
  BY DEF Look, Seen, Refuse, files, running, p
<1> HIDE DEF p
<1>4. CTypeOK'
  <2>1. at' \in [Composers -> Nat]
    BY <1>1, <1>3 DEF Inv, CTypeOK
  <2>2. step' \in [Composers -> Places]
    BY <1>3 DEF Inv, CTypeOK, Places
  <2>3. got' \in [Composers -> [Pieces -> Nat]]
    <3>1. worth[p] \in Nat /\ got \in [Composers -> [Pieces -> Nat]]
      BY <1>2 DEF Inv, CTypeOK
    <3>2. [got EXCEPT ![c][p] = worth[p]] \in [Composers -> [Pieces -> Nat]]
      BY <1>2, <3>1
    <3> QED
      BY <1>3, <3>1, <3>2
  <2> QED
    BY <1>3, <2>1, <2>2, <2>3 DEF Inv, CTypeOK
<1>5. /\ \A d \in Composers \ {c} : at'[d] = at[d] /\ got'[d] = got[d] /\ step'[d] = step[d]
      /\ at'[c] = at[c] + 1 /\ got'[c][p] # 0 /\ got'[c][p] <= worth[p]
      /\ \A q \in Pieces \ {p} : got'[c][q] = got[c][q]
      /\ got[c][p] # 0 => got'[c] = got[c]
  BY <1>1, <1>2, <1>3 DEF Inv, CTypeOK, Looked
<1>6. Looked'
  <2>1. ASSUME NEW i \in 1 .. at'[c] PROVE got'[c][Looks(c)[i]] # 0
    <3>1. CASE i = at[c] + 1
      BY <1>5, <3>1 DEF p
    <3>2. CASE i # at[c] + 1
      <4>1. i \in 1 .. at[c] /\ i \in 1 .. Len(Looks(c))
        BY <1>1, <1>5, <3>2
      <4>2. Looks(c)[i] \in Pieces
        BY <4>1, EveryPieceIsLookedAt
      <4> QED
        BY <1>5, <4>1, <4>2 DEF Inv, Looked
    <3> QED
      BY <3>1, <3>2
  <2>2. \A q \in Pieces : got'[c][q] # 0 => q \in Elements(Asked(c))
    BY <1>2, <1>5 DEF Inv, Looked
  <2>3. \A q \in Pieces : got'[c][q] <= worth'[q]
    BY <1>3, <1>5 DEF Inv, Looked
  <2>4. at'[c] <= Len(Looks(c))
    BY <1>1, <1>5
  <2> QED
    BY <1>3, <1>5, <2>1, <2>2, <2>3, <2>4 DEF Inv, Looked
<1>7. Between'
  <2>1. ASSUME NEW d \in Composers \ {c}, step'[d] = "look", at'[d] >= Len(FirstLook(d))
        PROVE  \E w \in past' : Moment(d, w)'
    <3>1. PICK w \in past : Moment(d, w)
      BY <1>5, <2>1 DEF Inv, Between
    <3> QED
      BY <1>3, <1>5, <3>1 DEF Moment
  <2>2. ASSUME at'[c] = Len(FirstLook(c)) PROVE Moment(c, worth)' /\ worth \in past'
    <3>1. Len(FirstLook(c)) + 1 .. at'[c] = {}
      BY <1>1, <2>2
    <3>2. worth' = worth /\ worth \in past' /\ worth \in [Pieces -> Nat]
      BY <1>3 DEF Inv, CTypeOK
    <3>3. \A q \in Pieces : got'[c][q] <= worth[q]
      BY <1>3, <1>6 DEF Looked
    <3> QED
      BY <3>1, <3>2, <3>3 DEF Moment
  <2>3. ASSUME step'[c] = "look", at[c] >= Len(FirstLook(c))
        PROVE  \E w \in past' : Moment(c, w)'
    <3>1. PICK w \in past : Moment(c, w)
      BY <1>3, <2>3 DEF Inv, Between
    <3>2. got[c][p] # 0
      BY <1>1, <2>3, SecondLookCompares DEF p
    <3>3. got' = got /\ got[c][p] = worth[p]
      BY <1>3, <2>3, <3>2 DEF Inv, CTypeOK
    <3>4. got[c][p] = w[p]
      <4>1. got[c][p] <= w[p] /\ w[p] <= worth[p]
        BY <1>2, <3>1 DEF Moment
      <4>2. w[p] \in Nat /\ worth[p] \in Nat
        BY <1>2 DEF Inv, CTypeOK
      <4> QED
        BY <3>3, <4>1, <4>2
    <3>5. \A i \in Len(FirstLook(c)) + 1 .. at'[c] :
            got'[c][Looks(c)[i]] = w[Looks(c)[i]]
      <4> SUFFICES ASSUME NEW i \in Len(FirstLook(c)) + 1 .. at'[c]
                   PROVE  got'[c][Looks(c)[i]] = w[Looks(c)[i]]
        OBVIOUS
      <4>1. i = at[c] + 1 \/ i \in Len(FirstLook(c)) + 1 .. at[c]
        BY <1>1, <1>5
      <4> QED
        BY <3>1, <3>3, <3>4, <4>1 DEF Moment, p
    <3> QED
      BY <1>3, <3>1, <3>3, <3>5 DEF Moment
  <2>4. at'[c] >= Len(FirstLook(c)) => at'[c] = Len(FirstLook(c)) \/ at[c] >= Len(FirstLook(c))
    BY <1>1, <1>5
  <2>5. ASSUME step'[c] = "look", at'[c] >= Len(FirstLook(c))
        PROVE  \E w \in past' : Moment(c, w)'
    BY <1>3, <2>2, <2>3, <2>4, <2>5
  <2>6. ASSUME NEW d \in Composers, step'[d] = "look", at'[d] >= Len(FirstLook(d))
        PROVE  \E w \in past' : Moment(d, w)'
    BY <2>1, <2>5, <2>6
  <2> QED
    BY <2>6 DEF Between
<1>8. Publishing' /\ TakenIsAttested'
  <2>1. \A d \in Composers :
          /\ Composed(d)' => got'[d] = got[d]
          /\ Composed(d)' /\ ~Composed(d) => IsACut(got[d])
          /\ step'[d] = "placed" => step[d] = "placed"
    BY <1>3, <1>5 DEF Composed, Inv, CTypeOK
  <2> QED
    BY <1>3, <2>1, PublishedStays
<1> QED
  BY <1>4, <1>6, <1>7, <1>8 DEF Inv

LEMMA NextInv == Inv /\ [Next]_vars => Inv'
<1> SUFFICES ASSUME Inv, [Next]_vars PROVE Inv'
  OBVIOUS
<1>1. ASSUME NEW p \in Pieces, Edit(p) PROVE Inv'
  <2>1. /\ worth' \in [Pieces -> Nat \ {0}] /\ past' = past \union {worth'}
        /\ \A q \in Pieces : worth[q] <= worth'[q]
        /\ UNCHANGED <<sidecar, outputs, taken, step, at, got>>
    BY <1>1 DEF Inv, CTypeOK, Edit, files, composing, running
  <2>2. CTypeOK'
    BY <2>1 DEF Inv, CTypeOK
  <2>3. /\ \A q \in Pieces : worth[q] \in Nat /\ worth'[q] \in Nat
        /\ \A w \in past, q \in Pieces : w[q] \in Nat
        /\ \A c \in Composers, q \in Pieces : got[c][q] \in Nat
    BY <2>2 DEF Inv, CTypeOK
  <2>4. Looked'
    BY <2>1, <2>3 DEF Inv, Looked
  <2>5. Between'
    <3> SUFFICES ASSUME NEW c \in Composers, step[c] = "look", at[c] >= Len(FirstLook(c))
                 PROVE  \E w \in past' : Moment(c, w)'
      BY <2>1 DEF Between
    <3>1. PICK w \in past : Moment(c, w)
      BY DEF Inv, Between
    <3>2. \A q \in Pieces : got[c][q] <= w[q] /\ w[q] <= worth'[q]
      BY <2>1, <2>3, <3>1 DEF Moment
    <3>3. w \in past' /\ at' = at /\ got' = got
      BY <2>1
    <3> QED
      BY <3>1, <3>2, <3>3 DEF Moment
  <2>6. Publishing' /\ TakenIsAttested'
    BY <2>1, PublishedStays DEF Composed
  <2> QED
    BY <2>2, <2>4, <2>5, <2>6 DEF Inv
<1>2. CASE EditComposite
  <2>1. /\ UNCHANGED <<worth, past, at, got, step, sidecar, outputs, taken>>
    BY <1>2 DEF EditComposite, composing, running
  <2> QED
    BY <2>1, CapturedStays, PublishedStays DEF Inv, CTypeOK, Composed
<1>3. ASSUME NEW c \in Composers, Look(c) PROVE Inv'
  BY <1>3, LookKeepsInv
<1>4. ASSUME NEW c \in Composers, Unfit(c) \/ WriteFails(c) \/ Die(c) PROVE Inv'
  <2>1. /\ UNCHANGED <<worth, past, at, got, sidecar, outputs, taken>>
        /\ \/ step' = [step EXCEPT ![c] = "refused"]
           \/ step' = [step EXCEPT ![c] = "dead"]
    BY <1>4 DEF Unfit, WriteFails, Die, Refuse, files, running
  <2> QED
    BY <2>1, CapturedStays, PublishedStays DEF Inv, CTypeOK, Composed, Places
<1>5. ASSUME NEW c \in Composers, StageOutput(c) PROVE Inv'
  <2>1. /\ UNCHANGED <<worth, past, at, got, sidecar, outputs, taken>>
        /\ step' = [step EXCEPT ![c] = "staging"]
        /\ step[c] = "look" /\ at[c] = Len(Looks(c))
    BY <1>5 DEF StageOutput, files, running
  <2>2. IsACut(got[c])
    BY <2>1, ConfirmedIsACut
  <2> QED
    BY <2>1, <2>2, CapturedStays, PublishedStays DEF Inv, CTypeOK, Composed, Places
<1>6. ASSUME NEW c \in Composers, StageSidecar(c) PROVE Inv'
  <2>1. /\ UNCHANGED <<worth, past, at, got, sidecar, outputs, taken>>
        /\ step' = [step EXCEPT ![c] = "staged"] /\ step[c] = "staging"
    BY <1>6 DEF StageSidecar, files, running
  <2> QED
    BY <2>1, CapturedStays, PublishedStays DEF Inv, CTypeOK, Composed, Places
<1>7. ASSUME NEW c \in Composers, Publish(c) PROVE Inv'
  <2>1. /\ UNCHANGED <<worth, past, at, got, taken>>
        /\ \/ /\ step[c] = "staged" /\ step' = [step EXCEPT ![c] = "placed"]
              /\ outputs' = outputs \union {got[c]} /\ sidecar' = sidecar
           \/ /\ step[c] = "placed" /\ step' = [step EXCEPT ![c] = "done"]
              /\ outputs' = outputs /\ sidecar' = got[c]
    BY <1>7 DEF Publish, Place, PlaceOutput, PlaceSidecar, Composite, Manifest, running, Inv, CTypeOK
  <2>2. IsACut(got[c])
    BY <2>1 DEF Inv, Publishing, Composed
  <2>3. CTypeOK' /\ Looked' /\ Between'
    BY <2>1, CapturedStays DEF Inv, CTypeOK, Places
  <2>4. /\ \A d \in Composers : Composed(d)' => Composed(d)
        /\ \A d \in Composers : step'[d] = "placed" => got[d] \in outputs'
    BY <2>1 DEF Inv, CTypeOK, Publishing, Composed
  <2>5. Publishing' /\ TakenIsAttested'
    <3>1. \A d \in Composers : Composed(d)' => IsACut(got[d])'
      BY <2>1, <2>4 DEF Inv, Publishing, IsACut
    <3>2. PublishedIsACut' /\ TakenIsAttested'
      BY <2>1, <2>2 DEF Inv, Publishing, PublishedIsACut, TakenIsAttested, IsACut
    <3>3. SidecarFollowsComposite'
      BY <2>1 DEF Inv, Publishing, SidecarFollowsComposite
    <3> QED
      BY <2>1, <2>4, <3>1, <3>2, <3>3 DEF Publishing
  <2> QED
    BY <2>3, <2>5 DEF Inv
<1>8. CASE Read
  <2>1. UNCHANGED <<worth, past, at, got, step, sidecar, outputs, taken>>
    BY <1>8 DEF Read, composing, files
  <2> QED
    BY <2>1, CapturedStays, PublishedStays DEF Inv, CTypeOK, Composed
<1>9. CASE Take
  <2>1. /\ UNCHANGED <<worth, past, at, got, step, sidecar, outputs>>
        /\ taken' = taken \/ (taken' = taken \union {<<sidecar, sidecar>>} /\ sidecar # None)
    BY <1>9 DEF Take, Bound, composing, files
  <2>2. sidecar # None => IsACut(sidecar)
    BY DEF Inv, Publishing, SidecarFollowsComposite, PublishedIsACut
  <2>3. TakenIsAttested'
    BY <2>1, <2>2 DEF Inv, TakenIsAttested, IsACut
  <2>4. Publishing'
    BY <2>1 DEF Inv, Publishing, Composed, PublishedIsACut, SidecarFollowsComposite, IsACut
  <2> QED
    BY <2>1, <2>3, <2>4, CapturedStays DEF Inv, CTypeOK
<1>10. CASE UNCHANGED vars
  <2>1. UNCHANGED <<worth, past, at, got, step, sidecar, outputs, taken>>
    BY <1>10 DEF vars, composing, files, running
  <2> QED
    BY <2>1, CapturedStays, PublishedStays DEF Inv, CTypeOK, Composed
<1> QED
  BY <1>1, <1>2, <1>3, <1>4, <1>5, <1>6, <1>7, <1>8, <1>9, <1>10 DEF Next

LEMMA InvHolds == Spec => []Inv
BY InitInv, NextInv, PTL DEF Spec

-----------------------------------------------------------------------------
\* Whatever is edited while it is composed: plan, review and changes of one
\* published composite were all there at one moment (compose).
THEOREM CompositesAreCuts == Spec => []PublishedIsACut
BY InvHolds, PTL DEF Inv, Publishing

\* A sidecar attests a composite that has been published, whichever write
\* fails and whoever else composes (compose: the composite goes first).
THEOREM SidecarsFollow == Spec => []SidecarFollowsComposite
BY InvHolds, PTL DEF Inv, Publishing

\* A run freezes a composite with the manifest that attests it, although both
\* files may be replaced between its two reads (capture_review_context).
THEOREM FrozenPairsAgree == Spec => []TakenIsAttested
BY InvHolds, PTL DEF Inv
=============================================================================
