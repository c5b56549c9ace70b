------------------------ MODULE TextRoundTripProofs ------------------------
(***************************************************************************)
(* Proofs about Detection and TextRoundTrip: whatever candidates the       *)
(* analyzer returns, the pass keeps exactly the unbeaten ones; no word of  *)
(* an entity is sent; what is sent is the text with its entities replaced; *)
(* and an answer that repeats it comes back as the original text.          *)
(*                                                                         *)
(* The splice and re.sub work on positions of one long text.  Here it is   *)
(* seen as the flattening of pieces, one for each word of the original.    *)
(***************************************************************************)
EXTENDS TextRoundTrip, Sums, SequenceTheorems

-----------------------------------------------------------------------------
(* The order of the pass and the relation between overlapping candidates.  *)

LEMMA BeatsIsBefore ==
  ASSUME NEW c \in Candidates, NEW d \in Candidates, Beats(d, c)
  PROVE  Before(d, c)
<1> USE CandidatesAssumption DEF Beats, Before, Encloses, Size, BetterOfSpan
<1>1. CASE Size(d) > Size(c)
  BY <1>1
<1>2. CASE ~(Size(d) > Size(c))
  <2>1. d.start = c.start /\ d.end = c.end
    BY <1>2
  <2>2. QED
    BY <1>2, <2>1
<1>3. QED
  BY <1>1, <1>2

LEMMA EnclosingIsBeating ==
  ASSUME NEW k \in Candidates, NEW c \in Candidates, k # c,
         Before(k, c), Encloses(k, c)
  PROVE  Beats(k, c)
BY CandidatesAssumption DEF Beats, Before, Encloses, Size, BetterOfSpan

LEMMA BeforeIsAsymmetric ==
  ASSUME NEW c \in Candidates, NEW d \in Candidates, Before(c, d)
  PROVE  ~Before(d, c)
BY CandidatesAssumption DEF Before, Size, BetterOfSpan

LEMMA EnclosesIsTransitive ==
  ASSUME NEW c \in Candidates, NEW d \in Candidates, NEW k \in Candidates,
         Encloses(k, d), Encloses(d, c)
  PROVE  Encloses(k, c) /\ SubsumedBy(c, k)
BY CandidatesAssumption DEF Encloses, SubsumedBy, Size

-----------------------------------------------------------------------------
(* The invariant of the loop: what it has seen comes before all the rest,  *)
(* so none of the rest can beat what is kept.                              *)

SeenFirst == \A c \in seen, d \in raw \ seen : Before(c, d)
Covered == \A c \in seen : \E k \in kept : Encloses(k, c)
KeptSoFar == kept = {c \in seen : ~ \E d \in seen : Beats(d, c)}

Detected ==
  IF stage = "resolve" THEN entities = {}
  ELSE seen = raw /\ entities = {k \in kept : Passing(k)}

LoopInv ==
  /\ DetectTypeOK
  /\ SeenFirst
  /\ Covered
  /\ KeptSoFar
  /\ Detected

LEMMA ConsiderKeeps ==
  ASSUME LoopInv, NEW c \in raw, Consider(c)
  PROVE  LoopInv'
<1> USE DEF LoopInv, DetectTypeOK
<1>1. /\ c \in Candidates /\ c \notin seen
      /\ seen' = seen \cup {c}
      /\ UNCHANGED <<stage, raw, entities>>
      /\ stage = "resolve"
  BY DEF Consider
<1>2. \A s \in seen : Before(s, c) /\ ~Beats(c, s)
  BY <1>1, BeatsIsBefore, BeforeIsAsymmetric DEF SeenFirst
<1>3. ASSUME NEW k \in kept, SubsumedBy(c, k) PROVE Beats(k, c)
  BY <1>1, <1>2, <1>3, EnclosingIsBeating DEF SubsumedBy
<1>4. ASSUME NEW d \in seen, Beats(d, c) PROVE \E k \in kept : SubsumedBy(c, k)
  <2>1. PICK k \in kept : Encloses(k, d)
    BY DEF Covered
  <2>2. Encloses(d, c)
    BY <1>4 DEF Beats
  <2>3. QED
    BY <1>1, <2>1, <2>2, EnclosesIsTransitive
<1>5. ~Beats(c, c)
  BY DEF Beats
<1>6. DetectTypeOK'
  BY <1>1 DEF Consider
<1>7. SeenFirst'
  BY <1>1 DEF Consider, SeenFirst
<1>8. Covered'
  <2>1. Encloses(c, c)
    BY <1>1, CandidatesAssumption DEF Encloses
  <2>2. QED
    BY <1>1, <2>1 DEF Consider, Covered, SubsumedBy
<1>9. KeptSoFar'
  <2>1. \A s \in seen : (\E d \in seen' : Beats(d, s)) <=> (\E d \in seen : Beats(d, s))
    BY <1>1, <1>2
  <2>2. (\E d \in seen' : Beats(d, c)) <=> (\E k \in kept : SubsumedBy(c, k))
    BY <1>1, <1>3, <1>4, <1>5
  <2>3. kept' = IF \E k \in kept : SubsumedBy(c, k) THEN kept ELSE kept \cup {c}
    BY DEF Consider
  <2>4. QED
    BY <1>1, <2>1, <2>2, <2>3 DEF KeptSoFar
<1>10. Detected'
  BY <1>1 DEF Detected
<1>11. QED
  BY <1>6, <1>7, <1>8, <1>9, <1>10

LEMMA LoopInvariant == DetectSpec => []LoopInv
<1>1. raw \in SUBSET Candidates /\ DetectInit => LoopInv
  BY DEF DetectInit, LoopInv, DetectTypeOK, SeenFirst, Covered, KeptSoFar, Detected
<1>2. LoopInv /\ [DetectNext]_detectVars => LoopInv'
  <2> SUFFICES ASSUME LoopInv, [DetectNext]_detectVars PROVE LoopInv'
    OBVIOUS
  <2>1. ASSUME NEW c \in raw, Consider(c) PROVE LoopInv'
    BY <2>1, ConsiderKeeps
  <2>2. CASE ApplyThresholds
    BY <2>2 DEF ApplyThresholds, LoopInv, DetectTypeOK, SeenFirst, Covered,
                KeptSoFar, Detected
  <2>3. CASE UNCHANGED detectVars
    BY <2>3 DEF detectVars, LoopInv, DetectTypeOK, SeenFirst, Covered, KeptSoFar,
                Detected
  <2>4. QED
    BY <2>1, <2>2, <2>3 DEF DetectNext
<1>3. QED
  BY <1>1, <1>2, PTL DEF DetectSpec

-----------------------------------------------------------------------------
(* What detect returns does not depend on the order of the candidates: it  *)
(* is the set of those that pass and no other candidate beats.             *)
THEOREM UnbeatenKept == DetectSpec => []KeepsUnbeaten
<1>1. LoopInv => KeepsUnbeaten
  BY DEF LoopInv, KeptSoFar, Detected, KeepsUnbeaten
<1>2. QED
  BY <1>1, LoopInvariant, PTL

(* Detection loses a candidate that scores enough only under one that does *)
(* not reach its own threshold.                                            *)
THEOREM LostOnlyToThresholds == DetectSpec => []NothingDropped
<1>1. LoopInv => NothingDropped
  BY DEF LoopInv, DetectTypeOK, Covered, Detected, NothingDropped
<1>2. QED
  BY <1>1, LoopInvariant, PTL

-----------------------------------------------------------------------------
(* Texts in pieces. *)

Ended(s, x) == Append(s, x)

(* The last text comes last. *)
LEMMA FlattenAppend ==
  ASSUME NEW V, NEW s \in Seq(Seq(V)), NEW x \in Seq(V)
  PROVE  FlattenSeq(Ended(s, x)) = Joined(FlattenSeq(s), x)
<1> DEFINE n == Len(s)
           t == Ended(s, x)
<1>1. n \in Nat /\ \A i \in 1 .. n : s[i] \in Seq(V)
  BY LenProperties, ElementOfSeq
<1>2. /\ t \in Seq(Seq(V)) /\ Len(t) = n + 1 /\ t[n + 1] = x
      /\ \A i \in 1 .. n : t[i] = s[i]
  BY AppendProperties DEF Ended
<1>3. t # << >>
  BY <1>1, <1>2, EmptySeq
<1> HIDE DEF t, n
<1>4. PICK F \in [1 .. Len(t) -> Seq(V)] : FlattenSeq(t) = F[Len(t)] /\ IsFlattening(F, t)
  BY <1>2, <1>3, FlattenChain
<1>5. CASE s = << >>
  <2>1. n = 0
    BY <1>5 DEF n
  <2>2. FlattenSeq(t) = x
    BY <1>2, <1>4, <2>1 DEF IsFlattening
  <2>3. << >> \o x = x
    BY ConcatEmptySeq
  <2>4. QED
    BY <1>5, <2>2, <2>3, FlattenNone DEF Joined, t
<1>6. CASE s # << >>
  <2>1. PICK G \in [1 .. n -> Seq(V)] : FlattenSeq(s) = G[n] /\ IsFlattening(G, s)
    BY <1>6, FlattenChain DEF n
  <2>2. n # 0
    BY <1>1, <1>6, EmptySeq DEF n
  <2>3. \A i \in 1 .. n : F[i] = G[i]
    <3> DEFINE Bad == {i \in 1 .. n : F[i] # G[i]}
    <3> SUFFICES ASSUME Bad # {} PROVE FALSE
      OBVIOUS
    <3>1. PICK i \in Bad : \A j \in Bad : i <= j
      <4>1. Bad \in SUBSET Nat
        BY <1>1
      <4> HIDE DEF Bad
      <4>2. QED
        BY <4>1, LeastNumber
    <3>2. i \in 1 .. n /\ F[i] # G[i]
      OBVIOUS
    <3>3. i # 1
      BY <1>1, <1>2, <1>4, <2>1, <2>2, <3>2 DEF IsFlattening
    <3>4. i \in 2 .. n /\ i - 1 \in 1 .. n /\ i - 1 \notin Bad
      BY <1>1, <3>1, <3>2, <3>3
    <3>5. F[i - 1] = G[i - 1]
      BY <3>4
    <3>6. i \in 2 .. Len(t)
      BY <1>1, <1>2, <3>4
    <3>7. F[i] = Joined(F[i - 1], t[i])
      BY <1>4, <3>6 DEF IsFlattening
    <3>8. G[i] = Joined(G[i - 1], s[i])
      BY <2>1, <3>4 DEF IsFlattening, n
    <3>9. QED
      BY <1>2, <3>2, <3>5, <3>7, <3>8
  <2>4. n + 1 \in 2 .. Len(t) /\ (n + 1) - 1 = n
    BY <1>1, <1>2, <2>2
  <2>5. F[n + 1] = Joined(F[(n + 1) - 1], t[n + 1])
    BY <1>4, <2>4 DEF IsFlattening
  <2>6. F[n] = G[n]
    BY <1>1, <2>2, <2>3
  <2>7. QED
    BY <1>2, <1>4, <2>1, <2>4, <2>5, <2>6 DEF t
<1>7. QED
  BY <1>5, <1>6

-----------------------------------------------------------------------------
(* What the pieces after the first a, up to the b-th, come to. *)
Part(p, a, b) == FlattenSeq(SubSeq(p, a + 1, b))

LEMMA PartType ==
  ASSUME NEW V, NEW p \in Seq(Seq(V)), NEW a \in Nat, NEW b \in Nat, b <= Len(p)
  PROVE  Part(p, a, b) \in Seq(V)
<1> DEFINE c == a + 1
<1>1. c \in Int /\ b \in Int /\ \A i \in c .. b : i \in 1 .. Len(p)
  BY LenProperties
<1>2. \A i \in c .. b : p[i] \in Seq(V)
  BY <1>1, ElementOfSeq
<1> HIDE DEF c
<1>3. SubSeq(p, c, b) \in Seq(Seq(V))
  BY <1>1, <1>2, SubSeqProperties
<1>4. QED
  BY <1>3, FlattenType DEF Part, c

LEMMA PartNone ==
  ASSUME NEW p, NEW a \in Nat
  PROVE  Part(p, a, a) = << >>
<1>1. SubSeq(p, a + 1, a) = << >>
  BY SubSeqEmpty
<1>2. QED
  BY <1>1, FlattenNone DEF Part

LEMMA PartLast ==
  ASSUME NEW V, NEW p \in Seq(Seq(V)), NEW a \in Nat, NEW b \in Nat,
         a <= b, b + 1 <= Len(p)
  PROVE  Part(p, a, b + 1) = Joined(Part(p, a, b), p[b + 1])
<1> DEFINE c == a + 1
           d == b + 1
           s == SubSeq(p, c, b)
           x == p[d]
<1>1. /\ c \in 1 .. Len(p) /\ d \in c .. Len(p) /\ d - 1 = b /\ c \in Int /\ b \in Int
      /\ \A i \in c .. b : i \in 1 .. Len(p)
  BY LenProperties
<1>2. \A i \in c .. b : p[i] \in Seq(V)
  BY <1>1, ElementOfSeq
<1>3. d \in 1 .. Len(p)
  BY <1>1
<1> HIDE DEF c, d
<1>4. s \in Seq(Seq(V))
  BY <1>1, <1>2, SubSeqProperties
<1>5. x \in Seq(V)
  BY <1>3, ElementOfSeq
<1>6. SubSeq(p, c, d) = SubSeq(p, c, d - 1) \o <<p[d]>>
  BY <1>1, SubSeqRecursiveSecond
<1> HIDE DEF x
<1>7. Append(s, x) = s \o <<x>>
  BY <1>4, <1>5, AppendIsConcat
<1>8. SubSeq(p, c, d) = Ended(s, x)
  BY <1>1, <1>6, <1>7 DEF x, Ended
<1> HIDE DEF s
<1>9. FlattenSeq(Ended(s, x)) = Joined(FlattenSeq(s), x)
  BY <1>4, <1>5, FlattenAppend
<1>10. FlattenSeq(SubSeq(p, c, d)) = Joined(FlattenSeq(s), x)
  BY <1>8, <1>9
<1>11. QED
  BY <1>10 DEF Part, s, x, c, d

LEMMA JoinedNone ==
  ASSUME NEW V, NEW s \in Seq(V)
  PROVE  Joined(s, << >>) = s /\ Joined(<< >>, s) = s
BY ConcatEmptySeq DEF Joined

LEMMA JoinedAssociative ==
  ASSUME NEW V, NEW s \in Seq(V), NEW t \in Seq(V), NEW u \in Seq(V)
  PROVE  Joined(Joined(s, t), u) = Joined(s, Joined(t, u))
BY ConcatAssociative DEF Joined

LEMMA PartsJoin ==
  ASSUME NEW V, NEW p \in Seq(Seq(V)), NEW a \in Nat, NEW b \in Nat, NEW c \in Nat,
         a <= b, b <= c, c <= Len(p)
  PROVE  Part(p, a, c) = Joined(Part(p, a, b), Part(p, b, c))
<1> DEFINE Same(k) == Part(p, a, k) = Joined(Part(p, a, b), Part(p, b, k))
           Bad == {k \in b .. c : ~Same(k)}
<1>1. Bad = {}
  <2> SUFFICES ASSUME Bad # {} PROVE FALSE
    OBVIOUS
  <2>1. PICK k \in Bad : \A j \in Bad : k <= j
    <3>1. Bad \in SUBSET Nat
      OBVIOUS
    <3> HIDE DEF Bad
    <3>2. QED
      BY <3>1, LeastNumber
  <2>2. k \in b .. c /\ ~Same(k)
    OBVIOUS
  <2>3. Len(p) \in Nat
    BY LenProperties
  <2>4. Part(p, a, b) \in Seq(V)
    BY <2>3, PartType
  <2>5. k # b
    <3>1. Part(p, b, b) = << >>
      BY PartNone
    <3>2. Joined(Part(p, a, b), << >>) = Part(p, a, b)
      BY <2>4, JoinedNone
    <3>3. QED
      BY <2>2, <3>1, <3>2
  <2> DEFINE l == k - 1
  <2>6. l \in b .. c /\ l \notin Bad /\ l \in Nat /\ l + 1 = k /\ a <= l /\ b <= l /\ l + 1 <= Len(p)
        /\ l <= Len(p)
    BY <2>1, <2>2, <2>3, <2>5
  <2>7. Same(l)
    BY <2>6
  <2> HIDE DEF l, Bad
  <2>8. Part(p, a, l + 1) = Joined(Part(p, a, l), p[l + 1])
    BY <2>6, PartLast
  <2>9. Part(p, b, l + 1) = Joined(Part(p, b, l), p[l + 1])
    BY <2>6, PartLast
  <2>10. Part(p, b, l) \in Seq(V) /\ p[l + 1] \in Seq(V)
    <3>1. l + 1 \in 1 .. Len(p)
      BY <2>3, <2>6
    <3>2. QED
      BY <2>6, <3>1, PartType, ElementOfSeq
  <2>11. Joined(Joined(Part(p, a, b), Part(p, b, l)), p[l + 1])
           = Joined(Part(p, a, b), Joined(Part(p, b, l), p[l + 1]))
    BY <2>4, <2>10, JoinedAssociative
  <2>12. QED
    BY <2>2, <2>6, <2>7, <2>8, <2>9, <2>11
<1>2. c \in b .. c /\ c \notin Bad
  BY <1>1
<1>3. QED
  BY <1>2

(* Pieces that are single words come to these words. *)
LEMMA PartOfWords ==
  ASSUME NEW V, NEW p \in Seq(Seq(V)), NEW w \in Seq(V), NEW a \in Nat, NEW b \in Nat,
         a <= b, b <= Len(p), b <= Len(w), \A i \in a + 1 .. b : p[i] = <<w[i]>>
  PROVE  Part(p, a, b) = SubSeq(w, a + 1, b)
<1> DEFINE Same(k) == Part(p, a, k) = SubSeq(w, a + 1, k)
           Bad == {k \in a .. b : ~Same(k)}
<1>1. Bad = {}
  <2> SUFFICES ASSUME Bad # {} PROVE FALSE
    OBVIOUS
  <2>1. PICK k \in Bad : \A j \in Bad : k <= j
    <3>1. Bad \in SUBSET Nat
      OBVIOUS
    <3> HIDE DEF Bad
    <3>2. QED
      BY <3>1, LeastNumber
  <2>2. k \in a .. b /\ ~Same(k)
    OBVIOUS
  <2>3. Len(p) \in Nat /\ Len(w) \in Nat
    BY LenProperties
  <2>4. k # a
    <3>1. SubSeq(w, a + 1, a) = << >>
      BY SubSeqEmpty
    <3>2. Part(p, a, a) = << >>
      BY PartNone
    <3>3. QED
      BY <2>2, <3>1, <3>2
  <2> DEFINE l == k - 1
             m == a + 1
  <2>5. /\ l \in a .. b /\ l \in Nat /\ l + 1 = k /\ a <= l /\ l + 1 <= Len(p)
        /\ k - 1 = l /\ k \in m .. b /\ k \in m .. Len(w) /\ m \in 1 .. Len(w)
    <3> DEFINE lp == Len(p)
               lw == Len(w)
    <3>1. /\ k \in a .. b /\ k # a /\ lp \in Nat /\ lw \in Nat /\ b <= lp /\ b <= lw
          /\ a \in Nat /\ b \in Nat
      BY <2>2, <2>3, <2>4
    <3> HIDE DEF Bad, lp, lw
    <3>2. /\ l \in a .. b /\ l \in Nat /\ l + 1 = k /\ a <= l /\ l + 1 <= lp
          /\ k - 1 = l /\ k \in m .. b /\ k \in m .. lw /\ m \in 1 .. lw
      BY <3>1
    <3>3. QED
      BY <3>2 DEF lp, lw
  <2>12. l \notin Bad
    <3>1. \A j \in Bad : k <= j
      BY <2>1
    <3>2. l \in Nat /\ l + 1 = k
      BY <2>5
    <3> HIDE DEF Bad, l
    <3>3. QED
      BY <3>1, <3>2
  <2>6. Same(l)
    BY <2>5, <2>12
  <2> HIDE DEF l, Bad
  <2>7. Part(p, a, l + 1) = Joined(Part(p, a, l), p[l + 1])
    BY <2>5, PartLast
  <2>8. p[k] = <<w[k]>>
    BY <2>5
  <2> HIDE DEF m
  <2>9. SubSeq(w, m, k) = SubSeq(w, m, k - 1) \o <<w[k]>>
    BY <2>5, SubSeqRecursiveSecond
  <2>10. Joined(SubSeq(w, m, l), <<w[k]>>) = SubSeq(w, m, k)
    BY <2>5, <2>9 DEF Joined
  <2>11. QED
    BY <2>2, <2>5, <2>6, <2>7, <2>8, <2>10 DEF m
<1>2. b \in a .. b /\ b \notin Bad
  BY <1>1
<1>3. QED
  BY <1>2

(* Of several pieces, only the first holds anything. *)
LEMMA PartOfFirst ==
  ASSUME NEW V, NEW p \in Seq(Seq(V)), NEW a \in Nat, NEW b \in Nat,
         a < b, b <= Len(p), \A i \in a + 2 .. b : p[i] = << >>
  PROVE  Part(p, a, b) = p[a + 1]
<1> DEFINE Same(k) == Part(p, a, k) = p[a + 1]
           Bad == {k \in a + 1 .. b : ~Same(k)}
<1>0. Len(p) \in Nat
  BY LenProperties
<1>1. Bad = {}
  <2> SUFFICES ASSUME Bad # {} PROVE FALSE
    OBVIOUS
  <2>1. PICK k \in Bad : \A j \in Bad : k <= j
    <3>1. Bad \in SUBSET Nat
      OBVIOUS
    <3> HIDE DEF Bad
    <3>2. QED
      BY <3>1, LeastNumber
  <2>2. k \in a + 1 .. b /\ ~Same(k)
    OBVIOUS
  <2> DEFINE l == k - 1
  <2>3. /\ l \in Nat /\ l + 1 = k /\ a <= l /\ l + 1 <= Len(p) /\ a + 1 \in 1 .. Len(p)
    BY <1>0, <2>2
  <2>4. p[a + 1] \in Seq(V)
    BY <2>3, ElementOfSeq
  <2>5. k # a + 1 => l \in a + 1 .. b /\ l \notin Bad /\ k \in a + 2 .. b
    BY <2>1, <2>2
  <2>6. k # a + 1 => Same(l) /\ p[k] = << >>
    BY <2>5
  <2> HIDE DEF l, Bad
  <2>7. Part(p, a, l + 1) = Joined(Part(p, a, l), p[l + 1])
    BY <2>3, PartLast
  <2>8. Joined(<< >>, p[a + 1]) = p[a + 1] /\ Joined(p[a + 1], << >>) = p[a + 1]
    BY <2>4, JoinedNone
  <2>9. CASE k = a + 1
    <3>1. l = a
      BY <2>3, <2>9
    <3>2. Part(p, a, l) = << >>
      BY <3>1, PartNone
    <3>3. QED
      BY <2>2, <2>3, <2>7, <2>8, <2>9, <3>2
  <2>10. CASE k # a + 1
    BY <2>2, <2>3, <2>6, <2>7, <2>8, <2>10
  <2>11. QED
    BY <2>9, <2>10
<1>2. b \in a + 1 .. b
  OBVIOUS
<1>3. b \notin Bad
  BY <1>1
<1>4. QED
  BY <1>2, <1>3

LEMMA PartWhole ==
  ASSUME NEW V, NEW p \in Seq(Seq(V))
  PROVE  Part(p, 0, Len(p)) = FlattenSeq(p)
<1>1. SubSeq(p, 1, Len(p)) = p /\ 0 + 1 = 1
  BY SubSeqFull
<1>2. SubSeq(p, 0 + 1, Len(p)) = p
  BY <1>1
<1>3. QED
  BY <1>2 DEF Part

(* What of a text stands between its first a and its b-th word. *)
LEMMA SubSeqIs ==
  ASSUME NEW V, NEW s \in Seq(V), NEW a \in Nat, NEW b \in Nat, a <= b, b <= Len(s)
  PROVE  /\ SubSeq(s, a + 1, b) \in Seq(V)
         /\ Len(SubSeq(s, a + 1, b)) = b - a
         /\ \A i \in 1 .. b - a : SubSeq(s, a + 1, b)[i] = s[a + i]
<1> DEFINE c == a + 1
           u == SubSeq(s, c, b)
<1>1. Len(s) \in Nat
  BY LenProperties
<1>2. c \in Int /\ b \in Int /\ \A i \in c .. b : i \in 1 .. Len(s)
  BY <1>1
<1>3. \A i \in c .. b : s[i] \in V
  BY <1>2, ElementOfSeq
<1>4. b - c + 1 = b - a /\ (IF c <= b THEN b - c + 1 ELSE 0) = b - a
      /\ \A i \in 1 .. b - a : c + i - 1 = a + i
  OBVIOUS
<1> HIDE DEF c
<1>5. /\ u \in Seq(V) /\ Len(u) = IF c <= b THEN b - c + 1 ELSE 0
      /\ \A i \in 1 .. b - c + 1 : u[i] = s[c + i - 1]
  BY <1>2, <1>3, SubSeqProperties
<1> HIDE DEF u
<1>6. u \in Seq(V) /\ Len(u) = b - a /\ \A i \in 1 .. b - a : u[i] = s[a + i]
  BY <1>4, <1>5
<1>7. QED
  BY <1>6 DEF u, c

IsJoined(u, s, t) ==
  /\ Len(u) = Len(s) + Len(t)
  /\ \A i \in 1 .. Len(s) : u[i] = s[i]
  /\ \A i \in 1 .. Len(t) : u[Len(s) + i] = t[i]

IsCut(u, s, a, b) == Len(u) = b - a /\ \A i \in 1 .. b - a : u[i] = s[a + i]

LEMMA SubSeqCut ==
  ASSUME NEW V, NEW s \in Seq(V), NEW a \in Nat, NEW b \in Nat, a <= b, b <= Len(s)
  PROVE  SubSeq(s, a + 1, b) \in Seq(V) /\ IsCut(SubSeq(s, a + 1, b), s, a, b)
BY SubSeqIs DEF IsCut

LEMMA JoinedIs ==
  ASSUME NEW V, NEW s \in Seq(V), NEW t \in Seq(V)
  PROVE  Joined(s, t) \in Seq(V) /\ IsJoined(Joined(s, t), s, t)
<1> DEFINE u == s \o t
<1>1. /\ u \in Seq(V) /\ Len(u) = Len(s) + Len(t)
      /\ \A i \in 1 .. Len(s) + Len(t) : u[i] = IF i <= Len(s) THEN s[i] ELSE t[i - Len(s)]
  BY ConcatProperties
<1> HIDE DEF u
<1>2. Len(s) \in Nat /\ Len(t) \in Nat
  BY LenProperties
<1>3. ASSUME NEW i \in 1 .. Len(s) PROVE u[i] = s[i]
  BY <1>1, <1>2
<1>4. ASSUME NEW i \in 1 .. Len(t) PROVE u[Len(s) + i] = t[i]
  <2>1. /\ Len(s) + i \in 1 .. Len(s) + Len(t) /\ ~(Len(s) + i <= Len(s))
        /\ (Len(s) + i) - Len(s) = i
    BY <1>2
  <2>2. QED
    BY <1>1, <2>1
<1>5. QED
  BY <1>1, <1>3, <1>4 DEF Joined, u, IsJoined

(* The text t with a new text for what stands after its first a words, up  *)
(* to the b-th.                                                            *)
Spliced(t, a, b, new) == SubSeq(t, 1, a) \o new \o SubSeq(t, b + 1, Len(t))

(* What is left of a text after its first b words. *)
LEMMA RestIs ==
  ASSUME NEW V, NEW t \in Seq(V), NEW b \in Nat
  PROVE  /\ SubSeq(t, b + 1, Len(t)) \in Seq(V)
         /\ Len(SubSeq(t, b + 1, Len(t))) = IF b <= Len(t) THEN Len(t) - b ELSE 0
         /\ \A i \in 1 .. Len(t) - b : SubSeq(t, b + 1, Len(t))[i] = t[b + i]
<1>1. Len(t) \in Nat
  BY LenProperties
<1>2. CASE b <= Len(t)
  BY <1>1, <1>2, SubSeqIs
<1>3. CASE ~(b <= Len(t))
  <2>1. SubSeq(t, b + 1, Len(t)) = << >>
    BY <1>1, <1>3, SubSeqEmpty
  <2>2. << >> \in Seq(V) /\ Len(<< >>) = 0
    BY EmptySeq
  <2>3. \A i \in 1 .. Len(t) - b : FALSE
    BY <1>1, <1>3
  <2>4. QED
    BY <1>3, <2>1, <2>2, <2>3
<1>4. QED
  BY <1>2, <1>3

IsSpliced(r, t, a, b, new) ==
  /\ Len(r) >= a
  /\ \A i \in 1 .. a : r[i] = t[i]
  /\ \A i \in 1 .. Len(r) :
       \/ i <= a
       \/ \E j \in 1 .. Len(new) : r[i] = new[j]
       \/ \E j \in 1 .. Len(t) : b < j /\ r[i] = t[j]

LEMMA SplicedIs ==
  ASSUME NEW V, NEW t \in Seq(V), NEW new \in Seq(V), NEW a \in Nat, NEW b \in Nat, a <= Len(t)
  PROVE  Spliced(t, a, b, new) \in Seq(V) /\ IsSpliced(Spliced(t, a, b, new), t, a, b, new)
<1> DEFINE before == SubSeq(t, 1, a)
           after == SubSeq(t, b + 1, Len(t))
           front == Joined(before, new)
           r == Joined(front, after)
<1>1. Len(t) \in Nat /\ Len(new) \in Nat
  BY LenProperties
<1>2. before \in Seq(V) /\ Len(before) = a /\ \A i \in 1 .. a : before[i] = t[i]
  <2> DEFINE z == 0
  <2>1. z \in Nat /\ z <= a /\ z + 1 = 1 /\ a - z = a /\ \A i \in 1 .. a : z + i = i
    OBVIOUS
  <2> HIDE DEF z
  <2>2. /\ SubSeq(t, z + 1, a) \in Seq(V) /\ Len(SubSeq(t, z + 1, a)) = a - z
        /\ \A i \in 1 .. a - z : SubSeq(t, z + 1, a)[i] = t[z + i]
    BY <2>1, SubSeqIs
  <2>3. QED
    BY <2>1, <2>2
<1>3. /\ after \in Seq(V)
      /\ Len(after) = IF b <= Len(t) THEN Len(t) - b ELSE 0
      /\ \A i \in 1 .. Len(t) - b : after[i] = t[b + i]
  BY RestIs
<1> HIDE DEF before, after
<1>4. /\ front \in Seq(V) /\ Len(front) = Len(before) + Len(new)
      /\ \A i \in 1 .. Len(before) : front[i] = before[i]
      /\ \A i \in 1 .. Len(new) : front[Len(before) + i] = new[i]
  <2>1. front \in Seq(V) /\ IsJoined(front, before, new)
    BY <1>2, JoinedIs
  <2> HIDE DEF front
  <2>2. QED
    BY <2>1 DEF IsJoined
<1> HIDE DEF front
<1>5. /\ r \in Seq(V) /\ Len(r) = Len(front) + Len(after)
      /\ \A i \in 1 .. Len(front) : r[i] = front[i]
      /\ \A i \in 1 .. Len(after) : r[Len(front) + i] = after[i]
  <2>1. r \in Seq(V) /\ IsJoined(r, front, after)
    BY <1>3, <1>4, JoinedIs
  <2> HIDE DEF r
  <2>2. QED
    BY <2>1 DEF IsJoined
<1>6. r = Spliced(t, a, b, new)
  BY DEF Spliced, Joined, before, after, front
<1> HIDE DEF r
<1>7. Len(after) \in Nat /\ Len(front) = a + Len(new) /\ Len(front) \in Nat
  BY <1>1, <1>2, <1>3, <1>4
<1>8. \A i \in 1 .. a : r[i] = t[i]
  <2> SUFFICES ASSUME NEW i \in 1 .. a PROVE r[i] = t[i]
    OBVIOUS
  <2>1. i \in 1 .. Len(before) /\ i \in 1 .. Len(front)
    BY <1>1, <1>2, <1>7
  <2>2. QED
    BY <1>2, <1>4, <1>5, <2>1
<1>9. ASSUME NEW i \in 1 .. Len(r), ~(i <= a), i <= Len(front)
      PROVE  \E j \in 1 .. Len(new) : r[i] = new[j]
  <2>1. i - a \in 1 .. Len(new) /\ Len(before) + (i - a) = i /\ i \in 1 .. Len(front)
    BY <1>1, <1>2, <1>7, <1>9
  <2>2. front[Len(before) + (i - a)] = new[i - a]
    BY <1>4, <2>1
  <2>3. r[i] = new[i - a]
    BY <1>5, <2>1, <2>2
  <2>4. QED
    BY <2>1, <2>3
<1>10. ASSUME NEW i \in 1 .. Len(r), ~(i <= Len(front))
       PROVE  \E j \in 1 .. Len(t) : b < j /\ r[i] = t[j]
  <2> DEFINE k == i - Len(front)
  <2>1. k \in 1 .. Len(after) /\ Len(front) + k = i
    BY <1>5, <1>7, <1>10
  <2>2. k \in 1 .. Len(t) - b /\ b + k \in 1 .. Len(t) /\ b < b + k
    BY <1>1, <1>3, <2>1
  <2> HIDE DEF k
  <2>3. r[i] = after[k] /\ after[k] = t[b + k]
    BY <1>3, <1>5, <2>1, <2>2
  <2>4. QED
    BY <2>2, <2>3
<1>11. Len(r) >= a
  BY <1>1, <1>5, <1>7
<1>12. r \in Seq(V) /\ IsSpliced(r, t, a, b, new)
  BY <1>5, <1>8, <1>9, <1>10, <1>11 DEF IsSpliced
<1>13. QED
  BY <1>6, <1>12

(* A splice before what is already there. *)
LEMMA SplicedBefore ==
  ASSUME NEW V, NEW w \in Seq(V), NEW rest \in Seq(V), NEW new \in Seq(V),
         NEW a \in Nat, NEW b \in Nat, NEW m \in Nat, a <= b, b <= m, m <= Len(w)
  PROVE  Spliced(Joined(SubSeq(w, 1, m), rest), a, b, new)
           = Joined(SubSeq(w, 1, a), Joined(new, Joined(SubSeq(w, b + 1, m), rest)))
<1> DEFINE z == 0
           one == 1
           up(k) == SubSeq(w, one, k)
           t == Joined(up(m), rest)
           mid == SubSeq(w, b + 1, m)
<1>0. Len(w) \in Nat /\ Len(rest) \in Nat
  BY LenProperties
<1>1. \A k \in Nat : k <= Len(w) =>
        up(k) \in Seq(V) /\ Len(up(k)) = k /\ \A i \in 1 .. k : up(k)[i] = w[i]
  <2> SUFFICES ASSUME NEW k \in Nat, k <= Len(w)
               PROVE  up(k) \in Seq(V) /\ Len(up(k)) = k /\ \A i \in 1 .. k : up(k)[i] = w[i]
    OBVIOUS
  <2>1. z \in Nat /\ z <= k /\ z + 1 = one /\ k - z = k /\ \A i \in 1 .. k : z + i = i
    OBVIOUS
  <2> HIDE DEF z, one
  <2>2. /\ SubSeq(w, z + 1, k) \in Seq(V) /\ Len(SubSeq(w, z + 1, k)) = k - z
        /\ \A i \in 1 .. k - z : SubSeq(w, z + 1, k)[i] = w[z + i]
    BY <2>1, SubSeqIs
  <2>3. QED
    BY <2>1, <2>2
<1> HIDE DEF up
<1>2. up(m) \in Seq(V) /\ Len(up(m)) = m /\ \A i \in 1 .. m : up(m)[i] = w[i]
  BY <1>1
<1>3. a <= Len(w) /\ up(a) \in Seq(V) /\ Len(up(a)) = a /\ \A i \in 1 .. a : up(a)[i] = w[i]
  BY <1>0, <1>1
<1>4. mid \in Seq(V) /\ Len(mid) = m - b /\ \A i \in 1 .. m - b : mid[i] = w[b + i]
  BY SubSeqIs
<1> HIDE DEF mid
<1>5. /\ t \in Seq(V) /\ Len(t) = m + Len(rest)
      /\ \A i \in 1 .. m : t[i] = up(m)[i]
      /\ \A i \in 1 .. Len(rest) : t[m + i] = rest[i]
  <2>1. t \in Seq(V) /\ IsJoined(t, up(m), rest)
    BY <1>2, JoinedIs
  <2> HIDE DEF t
  <2>2. QED
    BY <1>2, <2>1 DEF IsJoined
<1> HIDE DEF t
<1>6. SubSeq(t, 1, a) = up(a)
  <2> DEFINE u == SubSeq(t, one, a)
  <2>1. z \in Nat /\ z <= a /\ z + 1 = one /\ a - z = a /\ a <= Len(t) /\ \A i \in 1 .. a : z + i = i
    BY <1>0, <1>5
  <2> HIDE DEF z, one
  <2>2. /\ SubSeq(t, z + 1, a) \in Seq(V) /\ Len(SubSeq(t, z + 1, a)) = a - z
        /\ \A i \in 1 .. a - z : SubSeq(t, z + 1, a)[i] = t[z + i]
    BY <1>5, <2>1, SubSeqIs
  <2>3. u \in Seq(V) /\ Len(u) = a /\ \A i \in 1 .. a : u[i] = t[i]
    BY <2>1, <2>2
  <2> HIDE DEF u
  <2>4. \A i \in 1 .. a : i \in 1 .. m
    OBVIOUS
  <2>5. \A i \in 1 .. a : u[i] = up(a)[i]
    BY <1>2, <1>3, <1>5, <2>3, <2>4
  <2>6. u = up(a)
    BY <1>3, <2>3, <2>5, SeqEqual
  <2>7. QED
    BY <2>6 DEF u, one
<1>7. SubSeq(t, b + 1, Len(t)) = Joined(mid, rest)
  <2> DEFINE u == SubSeq(t, b + 1, Len(t))
             v == Joined(mid, rest)
  <2>1. b <= Len(t) /\ Len(t) \in Nat
    BY <1>0, <1>5
  <2>2. u \in Seq(V) /\ Len(u) = Len(t) - b /\ \A i \in 1 .. Len(t) - b : u[i] = t[b + i]
    BY <1>5, <2>1, SubSeqIs
  <2>3. /\ v \in Seq(V) /\ Len(v) = Len(mid) + Len(rest)
        /\ \A i \in 1 .. Len(mid) : v[i] = mid[i]
        /\ \A i \in 1 .. Len(rest) : v[Len(mid) + i] = rest[i]
    <3>1. v \in Seq(V) /\ IsJoined(v, mid, rest)
      BY <1>4, JoinedIs
    <3> HIDE DEF v
    <3>2. QED
      BY <3>1 DEF IsJoined
  <2> HIDE DEF u, v
  <2>4. Len(u) = Len(v)
    BY <1>0, <1>4, <1>5, <2>2, <2>3
  <2>5. ASSUME NEW i \in 1 .. Len(u) PROVE u[i] = v[i]
    <3>0. i \in 1 .. Len(t) - b /\ u[i] = t[b + i]
      BY <2>2
    <3>1. CASE i <= m - b
      <4>1. i \in 1 .. m - b /\ b + i \in 1 .. m
        BY <3>0, <3>1
      <4>2. QED
        BY <1>2, <1>4, <1>5, <2>3, <3>0, <4>1
    <3>2. CASE ~(i <= m - b)
      <4> DEFINE k == i - (m - b)
      <4>1. k \in 1 .. Len(rest) /\ m + k = b + i /\ (m - b) + k = i
        BY <1>0, <1>5, <3>0, <3>2
      <4> HIDE DEF k
      <4>2. t[m + k] = rest[k] /\ v[Len(mid) + k] = rest[k]
        BY <1>5, <2>3, <4>1
      <4>3. QED
        BY <1>4, <3>0, <4>1, <4>2
    <3>3. QED
      BY <3>1, <3>2
  <2>6. u = v
    BY <2>2, <2>3, <2>4, <2>5, SeqEqual
  <2>7. QED
    BY <2>6 DEF u, v
<1> DEFINE tail == Joined(mid, rest)
<1>8. tail \in Seq(V)
  BY <1>4, JoinedType
<1>9. Spliced(t, a, b, new) = Joined(Joined(up(a), new), tail)
  BY <1>6, <1>7 DEF Spliced, Joined
<1> HIDE DEF tail
<1>10. Joined(Joined(up(a), new), tail) = Joined(up(a), Joined(new, tail))
  BY <1>3, <1>8, JoinedAssociative
<1>11. QED
  BY <1>9, <1>10 DEF tail, t, mid, up, one

-----------------------------------------------------------------------------
(* The round trip. *)

(* The words of the text and of the fakes. *)
Tokens == Range(Text) \cup UNION {Range(fake) : fake \in AllFakes}

LEMMA TextType ==
  /\ Text \in Seq(Tokens) /\ Len(Text) \in Nat /\ DOMAIN Text = 1 .. Len(Text)
  /\ \A i \in 1 .. Len(Text) : Text[i] \in Tokens
<1>1. Text \in Seq(Range(Text)) /\ Range(Text) \subseteq Tokens
  BY TextAssumption DEF Tokens
<1>2. Text \in Seq(Tokens)
  BY <1>1, SeqMonotonic
<1>3. QED
  BY <1>2, LenProperties, ElementOfSeq

LEMMA FakeType ==
  ASSUME NEW fake \in AllFakes
  PROVE  /\ fake \in Seq(Tokens) /\ fake # << >> /\ Len(fake) \in Nat \ {0}
         /\ \A j \in 1 .. Len(fake) : fake[j] \in Range(fake)
<1>1. fake \in Seq(Range(fake)) /\ fake # << >> /\ Range(fake) \subseteq Tokens
  BY TextAssumption DEF Tokens, AllFakes
<1>2. fake \in Seq(Tokens)
  BY <1>1, SeqMonotonic
<1>3. Len(fake) \in Nat \ {0}
  BY <1>1, EmptySeq
<1>4. \A j \in 1 .. Len(fake) : fake[j] \in Range(fake)
  BY <1>1, ElementOfSeq
<1>5. QED
  BY <1>1, <1>2, <1>3, <1>4

VaultInv ==
  /\ assigned \in [DOMAIN assigned -> AllFakes]
  /\ DOMAIN assigned \subseteq {KeyOf(c) : c \in Candidates}
  /\ \A k, l \in DOMAIN assigned : assigned[k] = assigned[l] => k = l
  /\ answered \in [Candidates -> AllFakes \cup {NoFake}]
  /\ \A e \in Candidates : answered[e] # NoFake =>
       KeyOf(e) \in DOMAIN assigned /\ answered[e] = assigned[KeyOf(e)]

Answered == \A e \in entities : answered[e] # NoFake

(* What is done with the entities goes from the last to the first. *)
SplicedInv ==
  /\ spliced \subseteq entities
  /\ spliced # {} => Answered
  /\ \A e \in entities \ spliced, f \in spliced : e.start <= f.start
  /\ stage \notin {"resolve", "detected"} => spliced = entities /\ Answered

Covers(e, i) == e.start < i /\ i <= e.end

(* A word that may go out: one of a fake, or one that is in no entity. *)
Clean(w) ==
  \/ \E fake \in Range(assigned) : w \in Range(fake)
  \/ \E i \in DOMAIN Text : Text[i] = w /\ \A e \in entities : ~Covers(e, i)

(* The words that come before all that has been spliced. *)
NotYet(n) == \A f \in spliced : n <= f.start

Processing == stage \in {"resolve", "detected"}

CleanInv ==
  /\ Processing =>
       /\ text \in Seq(Tokens)
       /\ spliced = {} => text = Text
       /\ \A n \in DOMAIN Text : NotYet(n) => n \in DOMAIN text /\ text[n] = Text[n]
       /\ \A n \in DOMAIN text : Clean(text[n]) \/ (n \in DOMAIN Text /\ NotYet(n))
  /\ ~Processing => sent \in Seq(Tokens) /\ \A n \in DOMAIN sent : Clean(sent[n])

RouteInv == LoopInv /\ VaultInv /\ SplicedInv /\ CleanInv

LEMMA RouteInit == Init => RouteInv
<1> SUFFICES ASSUME Init PROVE RouteInv
  OBVIOUS
<1>1. stage = "resolve" /\ seen = {} /\ kept = {} /\ entities = {} /\ raw \in SUBSET Candidates
      /\ spliced = {} /\ text = Text
  BY DEF Init, DetectInit
<1>2. LoopInv
  BY <1>1 DEF LoopInv, DetectTypeOK, SeenFirst, Covered, KeptSoFar, Detected
<1>3. VaultInv
  <2>1. assigned = << >> /\ answered = [c \in Candidates |-> NoFake]
    BY DEF Init, Vault!Init
  <2>2. DOMAIN assigned = {} /\ assigned = [k \in {} |-> NoFake]
    BY <2>1
  <2>3. assigned \in [DOMAIN assigned -> AllFakes]
    BY <2>2
  <2>4. QED
    BY <2>1, <2>2, <2>3 DEF VaultInv
<1>4. SplicedInv
  BY <1>1 DEF SplicedInv
<1>5. CleanInv
  BY <1>1, TextType DEF CleanInv, Processing, NotYet
<1>6. QED
  BY <1>2, <1>3, <1>4, <1>5 DEF RouteInv

(* No entity lies in another one. *)
LEMMA Unnested ==
  ASSUME LoopInv, NEW e \in entities, NEW f \in entities, Encloses(e, f)
  PROVE  e = f
<1>1. entities \subseteq kept /\ kept \subseteq seen /\ seen \subseteq raw /\ raw \subseteq Candidates
      /\ KeptSoFar
  BY DEF LoopInv, DetectTypeOK
<1>2. e \in Candidates /\ f \in Candidates /\ ~Beats(e, f) /\ ~Beats(f, e)
  BY <1>1 DEF KeptSoFar
<1>3. QED
  BY <1>2, CandidatesAssumption, DistinctAssumption DEF Beats, Encloses, Size, BetterOfSpan

LEMMA EntityType ==
  ASSUME LoopInv, NEW e \in entities
  PROVE  /\ e \in raw /\ e \in Candidates /\ e.start \in Nat /\ e.end \in Nat /\ e.start < e.end
         /\ e.end <= Len(Text)
<1>1. e \in raw /\ e \in Candidates
  BY DEF LoopInv, DetectTypeOK
<1>2. QED
  BY <1>1, CandidatesAssumption, TextAssumption

(* Each step keeps the invariant. *)
LEMMA DetectKeeps ==
  ASSUME RouteInv, Detect
  PROVE  RouteInv'
<1>1. UNCHANGED <<assigned, answered, spliced, text, sent, reply, left>> /\ DetectNext
  BY DEF Detect, vault
<1>2. stage = "resolve" /\ entities = {} /\ spliced = {} /\ stage' \in {"resolve", "detected"}
  <2>1. stage = "resolve" /\ stage' \in {"resolve", "detected"}
    BY <1>1 DEF DetectNext, Consider, ApplyThresholds
  <2>2. QED
    BY <2>1 DEF RouteInv, LoopInv, Detected, SplicedInv
<1>3. LoopInv'
  <2>1. ASSUME NEW c \in raw, Consider(c) PROVE LoopInv'
    BY <2>1, ConsiderKeeps DEF RouteInv
  <2>2. CASE ApplyThresholds
    BY <2>2 DEF ApplyThresholds, RouteInv, LoopInv, DetectTypeOK, SeenFirst, Covered,
                KeptSoFar, Detected
  <2>3. QED
    BY <1>1, <2>1, <2>2 DEF DetectNext
<1>4. VaultInv'
  BY <1>1 DEF RouteInv, VaultInv, KeyOf, Words
<1>5. SplicedInv'
  BY <1>1, <1>2 DEF SplicedInv
<1>6. CleanInv'
  <2>1. text' = Text /\ spliced' = {} /\ Processing'
    BY <1>1, <1>2 DEF RouteInv, CleanInv, Processing
  <2>2. QED
    BY <2>1, TextType DEF CleanInv, NotYet
<1>7. QED
  BY <1>3, <1>4, <1>5, <1>6 DEF RouteInv

LEMMA LoopFrame ==
  ASSUME LoopInv, UNCHANGED <<raw, seen, kept, entities>>, stage # "resolve", stage' # "resolve"
  PROVE  LoopInv'
BY DEF LoopInv, DetectTypeOK, SeenFirst, Covered, KeptSoFar, Detected

LEMMA SubstituteKeeps ==
  ASSUME RouteInv, NEW e \in raw, Substitute(e)
  PROVE  RouteInv'
<1>1. /\ stage = "detected" /\ e \in entities /\ answered[e] = NoFake
      /\ UNCHANGED <<stage, raw, seen, kept, entities, spliced, text, sent, reply, left>>
  BY DEF Substitute, detectVars
<1>2. spliced = {}
  BY <1>1 DEF RouteInv, SplicedInv, Answered
<1>3. LoopInv'
  BY <1>1, LoopFrame DEF RouteInv
<1>4. /\ e \in Candidates /\ VaultInv /\ e.type \in DOMAIN FakesOf
  BY <1>1, EntityType, TextAssumption DEF RouteInv
<1>5. \/ /\ KeyOf(e) \in DOMAIN assigned
         /\ answered' = [answered EXCEPT ![e] = assigned[KeyOf(e)]]
         /\ assigned' = assigned
      \/ \E fake \in FakesOf[e.type] \ Range(assigned) :
           /\ KeyOf(e) \notin DOMAIN assigned /\ fake # NoFake
           /\ answered' = [answered EXCEPT ![e] = fake]
           /\ assigned' = [k \in DOMAIN assigned \cup {KeyOf(e)} |->
                             IF k = KeyOf(e) THEN fake ELSE assigned[k]]
  BY DEF Substitute, Vault!AnswerKnown, Vault!MapTo
<1>6. VaultInv' /\ Range(assigned) \subseteq Range(assigned')
  <2> DEFINE key == KeyOf(e)
  <2>0. \A c : KeyOf(c)' = KeyOf(c)
    BY DEF KeyOf, Words
  <2>1. CASE /\ KeyOf(e) \in DOMAIN assigned
             /\ answered' = [answered EXCEPT ![e] = assigned[KeyOf(e)]]
             /\ assigned' = assigned
    BY <1>4, <2>1 DEF VaultInv, KeyOf, Words
  <2>2. ASSUME NEW fake \in FakesOf[e.type] \ Range(assigned),
               KeyOf(e) \notin DOMAIN assigned, fake # NoFake,
               answered' = [answered EXCEPT ![e] = fake],
               assigned' = [k \in DOMAIN assigned \cup {KeyOf(e)} |->
                              IF k = KeyOf(e) THEN fake ELSE assigned[k]]
        PROVE  VaultInv' /\ Range(assigned) \subseteq Range(assigned')
    <3>1. fake \in AllFakes
      BY <1>4 DEF AllFakes
    <3>2. /\ DOMAIN assigned' = DOMAIN assigned \cup {key}
          /\ assigned'[key] = fake /\ \A k \in DOMAIN assigned : assigned'[k] = assigned[k]
      BY <2>2
    <3> HIDE DEF key
    <3>3. \A k \in DOMAIN assigned : assigned[k] # fake /\ assigned[k] \in AllFakes
      BY <1>4, <2>2 DEF Range, VaultInv
    <3>4. assigned' \in [DOMAIN assigned' -> AllFakes]
      BY <2>2, <3>1, <3>3 DEF key
    <3>10. DOMAIN assigned' \subseteq {KeyOf(c) : c \in Candidates}
      BY <1>4, <3>2 DEF VaultInv, key
    <3>5. \A k, l \in DOMAIN assigned' : assigned'[k] = assigned'[l] => k = l
      BY <1>4, <3>2, <3>3 DEF VaultInv
    <3>6. answered' \in [Candidates -> AllFakes \cup {NoFake}]
      BY <1>4, <2>2, <3>1 DEF VaultInv
    <3>7. ASSUME NEW c \in Candidates, answered'[c] # NoFake
          PROVE  KeyOf(c) \in DOMAIN assigned' /\ answered'[c] = assigned'[KeyOf(c)]
      <4>1. CASE c = e
        BY <1>4, <2>2, <3>2, <4>1 DEF VaultInv, key
      <4>2. CASE c # e
        <5>1. answered'[c] = answered[c]
          BY <1>4, <2>2, <4>2 DEF VaultInv
        <5>2. KeyOf(c) \in DOMAIN assigned /\ answered[c] = assigned[KeyOf(c)]
          BY <1>4, <3>7, <5>1 DEF VaultInv
        <5>3. QED
          BY <3>2, <5>1, <5>2
      <4>3. QED
        BY <4>1, <4>2
    <3>8. Range(assigned) \subseteq Range(assigned')
      BY <3>2 DEF Range
    <3>9. QED
      BY <2>0, <3>4, <3>5, <3>6, <3>7, <3>8, <3>10 DEF VaultInv
  <2>3. QED
    BY <1>5, <2>1, <2>2
<1>7. SplicedInv'
  BY <1>1, <1>2 DEF SplicedInv
<1>8. CleanInv'
  <2>1. text' = Text /\ spliced' = {} /\ Processing'
    BY <1>1, <1>2 DEF RouteInv, CleanInv, Processing
  <2>2. QED
    BY <2>1, TextType DEF CleanInv, NotYet
<1>9. QED
  BY <1>3, <1>6, <1>7, <1>8 DEF RouteInv

LEMMA VaultFrame ==
  ASSUME VaultInv, UNCHANGED vault
  PROVE  VaultInv'
BY DEF VaultInv, vault, KeyOf, Words

LEMMA SpliceKeeps ==
  ASSUME RouteInv, NEW e \in raw, Splice(e)
  PROVE  RouteInv'
<1> DEFINE a == e.start
           b == e.end
           new == answered[e]
<1>1. /\ stage = "detected" /\ Answered /\ e \in entities \ spliced
      /\ \A f \in entities \ spliced : f.start <= e.start
      /\ text' = Spliced(text, a, b, new)
      /\ spliced' = spliced \cup {e}
      /\ UNCHANGED <<stage, raw, seen, kept, entities, assigned, answered, sent, reply, left>>
  BY DEF Splice, Answered, detectVars, vault, Spliced
<1>2. LoopInv /\ VaultInv /\ SplicedInv /\ CleanInv /\ Processing
  BY <1>1 DEF RouteInv, Processing
<1>3. /\ e \in Candidates /\ a \in Nat /\ b \in Nat /\ a < b /\ b <= Len(Text)
  BY <1>1, <1>2, EntityType
<1>4. new \in AllFakes /\ KeyOf(e) \in DOMAIN assigned /\ new = assigned[KeyOf(e)]
  BY <1>1, <1>2, <1>3 DEF VaultInv, Answered
<1>5. new \in Range(assigned) /\ new \in Seq(Tokens) /\ \A j \in 1 .. Len(new) : new[j] \in Range(new)
  BY <1>4, FakeType DEF Range
<1>6. /\ text \in Seq(Tokens) /\ DOMAIN text = 1 .. Len(text) /\ Len(text) \in Nat
      /\ \A n \in DOMAIN Text : NotYet(n) => n \in DOMAIN text /\ text[n] = Text[n]
      /\ \A n \in DOMAIN text : Clean(text[n]) \/ (n \in DOMAIN Text /\ NotYet(n))
  BY <1>2, LenProperties DEF CleanInv
<1>7. \A n \in Nat : n <= a => NotYet(n)
  <2> SUFFICES ASSUME NEW n \in Nat, n <= a, NEW f \in spliced PROVE n <= f.start
    BY DEF NotYet
  <2>1. a <= f.start /\ f \in entities
    BY <1>1, <1>2 DEF SplicedInv
  <2>2. QED
    BY <1>2, <1>3, <2>1, EntityType
<1>8. a <= Len(text)
  <2>1. CASE a = 0
    BY <1>6, <2>1
  <2>2. CASE a # 0
    <3>1. a \in DOMAIN Text
      BY <1>3, <2>2, TextType
    <3>2. QED
      BY <1>3, <1>6, <1>7, <3>1
  <2>3. QED
    BY <2>1, <2>2
<1> DEFINE r == Spliced(text, a, b, new)
<1>9. /\ r \in Seq(Tokens) /\ Len(r) >= a
      /\ \A i \in 1 .. a : r[i] = text[i]
      /\ \A i \in 1 .. Len(r) :
           \/ i <= a
           \/ \E j \in 1 .. Len(new) : r[i] = new[j]
           \/ \E j \in 1 .. Len(text) : b < j /\ r[i] = text[j]
  <2>1. r \in Seq(Tokens) /\ IsSpliced(r, text, a, b, new)
    BY <1>3, <1>5, <1>6, <1>8, SplicedIs
  <2> HIDE DEF r
  <2>2. QED
    BY <2>1 DEF IsSpliced
<1>10. DOMAIN r = 1 .. Len(r) /\ Len(r) \in Nat /\ text' = r
  BY <1>1, <1>9, LenProperties
<1> HIDE DEF r
<1>11. \A n \in Nat : NotYet(n)' <=> NotYet(n) /\ n <= a
  BY <1>1 DEF NotYet
<1>13. ASSUME NEW n \in DOMAIN Text, NotYet(n)' PROVE n \in DOMAIN r /\ r[n] = Text[n]
  <2>1. n \in Nat /\ n \in 1 .. Len(Text)
    BY TextType
  <2>2. NotYet(n) /\ n \in 1 .. a
    BY <1>3, <1>11, <1>13, <2>1
  <2>3. text[n] = Text[n] /\ r[n] = text[n]
    BY <1>6, <1>9, <2>2
  <2>4. n \in 1 .. Len(r)
    BY <1>3, <1>9, <1>10, <2>2
  <2>5. QED
    BY <1>10, <2>3, <2>4
<1>14. ASSUME NEW j \in 1 .. Len(text), b < j PROVE Clean(text[j])
  <2> SUFFICES ASSUME ~Clean(text[j]) PROVE FALSE
    OBVIOUS
  <2>1. j \in DOMAIN Text /\ NotYet(j) /\ text[j] = Text[j]
    BY <1>6
  <2>2. PICK g \in entities : Covers(g, j)
    BY <2>1 DEF Clean
  <2>3. g.start \in Nat /\ g.end \in Nat /\ g.start < j /\ j <= g.end /\ j \in Nat
    BY <1>2, <1>6, <2>2, EntityType DEF Covers
  <2>4. g \notin spliced
    BY <2>1, <2>3 DEF NotYet
  <2>5. g.start <= a /\ b <= g.end
    BY <1>1, <1>3, <1>14, <2>3, <2>4
  <2>6. g = e
    BY <1>1, <1>2, <2>5, Unnested DEF Encloses
  <2>7. QED
    BY <1>3, <1>14, <2>3, <2>6
<1>15. ASSUME NEW n \in DOMAIN r PROVE Clean(r[n]) \/ (n \in DOMAIN Text /\ NotYet(n)')
  <2>0. n \in 1 .. Len(r) /\ n \in Nat
    BY <1>10
  <2>1. CASE n <= a
    <3>1. n \in DOMAIN Text /\ NotYet(n)
      BY <1>3, <1>7, <2>0, <2>1, TextType
    <3>2. QED
      BY <1>11, <2>0, <2>1, <3>1
  <2>2. ASSUME NEW j \in 1 .. Len(new), r[n] = new[j] PROVE Clean(r[n])
    BY <1>5, <2>2 DEF Clean
  <2>3. ASSUME NEW j \in 1 .. Len(text), b < j, r[n] = text[j] PROVE Clean(r[n])
    BY <1>14, <2>3
  <2>4. QED
    BY <1>9, <2>0, <2>1, <2>2, <2>3
<1>16. CleanInv'
  <2>1. spliced' # {} /\ Processing' /\ text' \in Seq(Tokens)
    BY <1>1, <1>2, <1>9, <1>10 DEF Processing
  <2>2. \A n \in DOMAIN Text : NotYet(n)' => n \in DOMAIN text' /\ text'[n] = Text[n]
    BY <1>10, <1>13
  <2>3. \A n \in DOMAIN text' : Clean(text[n])' \/ (n \in DOMAIN Text /\ NotYet(n)')
    <3>1. \A n \in DOMAIN r : Clean(text[n])' <=> Clean(r[n])
      BY <1>1, <1>10 DEF Clean
    <3>2. QED
      BY <1>10, <1>15, <3>1
  <2>4. QED
    BY <2>1, <2>2, <2>3 DEF CleanInv
<1>17. SplicedInv'
  <2>1. spliced' \subseteq entities' /\ Answered'
    BY <1>1, <1>2 DEF SplicedInv, Answered
  <2>2. \A f \in entities' \ spliced', g \in spliced' : f.start <= g.start
    BY <1>1, <1>2 DEF SplicedInv
  <2>3. QED
    BY <1>1, <2>1, <2>2 DEF SplicedInv
<1>18. LoopInv' /\ VaultInv'
  BY <1>1, <1>2, LoopFrame, VaultFrame DEF vault
<1>19. QED
  BY <1>16, <1>17, <1>18 DEF RouteInv

LEMMA SendKeeps ==
  ASSUME RouteInv, Send
  PROVE  RouteInv'
<1>1. /\ stage = "detected" /\ stage' = "sent" /\ spliced = entities /\ sent' = text
      /\ UNCHANGED <<raw, seen, kept, entities, assigned, answered, spliced, text, reply, left>>
  BY DEF Send, vault
<1>2. LoopInv /\ VaultInv /\ SplicedInv /\ CleanInv /\ Processing /\ ~Processing'
  BY <1>1 DEF RouteInv, Processing
<1>3. LoopInv' /\ VaultInv'
  BY <1>1, <1>2, LoopFrame, VaultFrame DEF vault
<1>4. SplicedInv'
  <2>1. Answered
    BY <1>1, <1>2 DEF SplicedInv, Answered
  <2>2. QED
    BY <1>1, <2>1 DEF SplicedInv, Answered
<1>5. \A w : Clean(w)' <=> Clean(w)
  BY <1>1 DEF Clean
<1>6. text \in Seq(Tokens)
  BY <1>2 DEF CleanInv
<1>7. ASSUME NEW n \in DOMAIN text PROVE Clean(text[n])
  <2> SUFFICES ASSUME ~Clean(text[n]) PROVE FALSE
    OBVIOUS
  <2>1. n \in DOMAIN Text /\ NotYet(n) /\ text[n] = Text[n]
    BY <1>2 DEF CleanInv
  <2>2. PICK g \in entities : Covers(g, n)
    BY <2>1 DEF Clean
  <2>3. n <= g.start /\ g.start < n /\ g.start \in Nat /\ n \in Nat
    BY <1>1, <1>2, <2>1, <2>2, EntityType, TextType DEF Covers, NotYet
  <2>4. QED
    BY <2>3
<1>8. CleanInv'
  BY <1>1, <1>2, <1>5, <1>6, <1>7 DEF CleanInv
<1>9. QED
  BY <1>3, <1>4, <1>8 DEF RouteInv

(* Once the text has gone out, the route only ends. *)
LEMMA SentFrame ==
  ASSUME RouteInv, ~Processing, ~Processing',
         UNCHANGED <<raw, seen, kept, entities, assigned, answered, spliced, sent>>
  PROVE  RouteInv'
<1>1. stage # "resolve" /\ stage' # "resolve" /\ stage \notin {"resolve", "detected"}
  BY DEF Processing
<1>2. LoopInv' /\ VaultInv'
  BY <1>1, LoopFrame, VaultFrame DEF RouteInv, vault
<1>3. SplicedInv'
  BY <1>1 DEF RouteInv, SplicedInv, Answered
<1>4. \A w : Clean(w)' <=> Clean(w)
  BY DEF Clean
<1>5. CleanInv'
  BY <1>4 DEF RouteInv, CleanInv
<1>6. QED
  BY <1>2, <1>3, <1>5 DEF RouteInv

LEMMA RouteStutters ==
  ASSUME RouteInv, UNCHANGED vars
  PROVE  RouteInv'
<1>1. UNCHANGED <<stage, raw, seen, kept, entities, assigned, answered, spliced, text, sent>>
  BY DEF vars
<1>2. LoopInv'
  BY <1>1 DEF RouteInv, LoopInv, DetectTypeOK, SeenFirst, Covered, KeptSoFar, Detected
<1>3. VaultInv'
  BY <1>1, VaultFrame DEF RouteInv, vault
<1>4. SplicedInv'
  BY <1>1 DEF RouteInv, SplicedInv, Answered
<1>5. \A w : Clean(w)' <=> Clean(w)
  BY <1>1 DEF Clean
<1>6. \A n : NotYet(n)' <=> NotYet(n)
  BY <1>1 DEF NotYet
<1>7. CleanInv'
  BY <1>1, <1>5, <1>6 DEF RouteInv, CleanInv, Processing
<1>8. QED
  BY <1>2, <1>3, <1>4, <1>7 DEF RouteInv

LEMMA RouteStep == RouteInv /\ [Next]_vars => RouteInv'
<1> SUFFICES ASSUME RouteInv, [Next]_vars PROVE RouteInv'
  OBVIOUS
<1>1. CASE Detect
  BY <1>1, DetectKeeps
<1>2. ASSUME NEW e \in raw, Substitute(e) PROVE RouteInv'
  BY <1>2, SubstituteKeeps
<1>3. ASSUME NEW e \in raw, Splice(e) PROVE RouteInv'
  BY <1>3, SpliceKeeps
<1>4. CASE Send
  BY <1>4, SendKeeps
<1>5. CASE Answer
  <2>1. /\ ~Processing /\ ~Processing'
        /\ UNCHANGED <<raw, seen, kept, entities, assigned, answered, spliced, sent>>
    BY <1>5 DEF Answer, Processing, vault
  <2>2. QED
    BY <2>1, SentFrame
<1>6. ASSUME NEW fake \in left, Restore(fake) PROVE RouteInv'
  <2>1. /\ ~Processing /\ ~Processing'
        /\ UNCHANGED <<raw, seen, kept, entities, assigned, answered, spliced, sent>>
    BY <1>6 DEF Restore, Processing, vault, detectVars
  <2>2. QED
    BY <2>1, SentFrame
<1>7. CASE EndExact \/ RestoreFuzzy
  <2>1. /\ ~Processing /\ ~Processing'
        /\ UNCHANGED <<raw, seen, kept, entities, assigned, answered, spliced, sent>>
    BY <1>7 DEF EndExact, RestoreFuzzy, Processing, vault
  <2>2. QED
    BY <2>1, SentFrame
<1>8. CASE UNCHANGED vars
  BY <1>8, RouteStutters
<1>9. QED
  BY <1>1, <1>2, <1>3, <1>4, <1>5, <1>6, <1>7, <1>8 DEF Next, Done

LEMMA RouteInvariant == Spec => []RouteInv
<1>1. QED
  BY RouteInit, RouteStep, PTL DEF Spec

(* No word that stands only in entities is sent, whatever the text, its    *)
(* entities and the fakes: an entity that is spliced late can meet the     *)
(* fake of a later one, but never a word between the two that it covers,   *)
(* because no entity lies in another.                                      *)
THEOREM NothingLeaksOut == Spec => []NoOriginalSent
<1>1. RouteInv => NoOriginalSent
  BY DEF RouteInv, CleanInv, Processing, Clean, Covers, NoOriginalSent
<1>2. QED
  BY <1>1, RouteInvariant, PTL

-----------------------------------------------------------------------------
(* What is sent, where the entities share no word. *)

(* What each word of the text becomes: the first one of an entity its      *)
(* fake, the others of it nothing.                                         *)
Pieces ==
  [i \in DOMAIN Text |->
    IF \E e \in entities : e.start < i /\ i <= e.end
    THEN LET e == CHOOSE f \in entities : f.start < i /\ i <= f.end
         IN  IF i = e.start + 1 THEN answered[e] ELSE << >>
    ELSE <<Text[i]>>]

LEMMA PieceOf ==
  ASSUME LoopInv, Apart, NEW e \in entities, NEW i \in e.start + 1 .. e.end
  PROVE  i \in DOMAIN Text /\ Pieces[i] = IF i = e.start + 1 THEN answered[e] ELSE << >>
<1>1. e.start \in Nat /\ e.end \in Nat /\ e.end <= Len(Text)
  BY EntityType
<1>2. i \in DOMAIN Text /\ i \in Nat /\ e.start < i /\ i <= e.end
  BY <1>1, TextType
<1>3. \A f \in entities : f.start < i /\ i <= f.end => f = e
  <2> SUFFICES ASSUME NEW f \in entities, f.start < i, i <= f.end, f # e PROVE FALSE
    OBVIOUS
  <2>1. f.start \in Nat /\ f.end \in Nat /\ (e.end <= f.start \/ f.end <= e.start)
    BY EntityType DEF Apart
  <2>2. QED
    BY <1>1, <1>2, <2>1
<1>4. (CHOOSE f \in entities : f.start < i /\ i <= f.end) = e
  BY <1>2, <1>3
<1>5. QED
  BY <1>2, <1>4 DEF Pieces

LEMMA PieceAlone ==
  ASSUME NEW i \in DOMAIN Text, \A e \in entities : ~Covers(e, i)
  PROVE  Pieces[i] = <<Text[i]>>
BY DEF Pieces, Covers

LEMMA PiecesType ==
  ASSUME LoopInv, VaultInv, Answered
  PROVE  Pieces \in Seq(Seq(Tokens)) /\ Len(Pieces) = Len(Text)
<1>1. ASSUME NEW i \in DOMAIN Text PROVE Pieces[i] \in Seq(Tokens)
  <2>1. CASE \E e \in entities : e.start < i /\ i <= e.end
    <3> DEFINE e == CHOOSE f \in entities : f.start < i /\ i <= f.end
    <3>1. e \in entities
      BY <2>1
    <3>2. Pieces[i] = IF i = e.start + 1 THEN answered[e] ELSE << >>
      BY <2>1 DEF Pieces
    <3> HIDE DEF e
    <3>3. answered[e] \in AllFakes
      BY <3>1, EntityType DEF VaultInv, Answered
    <3>4. QED
      BY <3>2, <3>3, FakeType, EmptySeq
  <2>2. CASE ~ \E e \in entities : e.start < i /\ i <= e.end
    <3>1. Pieces[i] = <<Text[i]>> /\ Text[i] \in Tokens
      BY <2>2, TextType DEF Pieces
    <3>2. QED
      BY <3>1
  <2>3. QED
    BY <2>1, <2>2
<1>2. Pieces \in [1 .. Len(Text) -> Seq(Tokens)]
  BY <1>1, TextType DEF Pieces
<1>3. Pieces \in Seq(Seq(Tokens))
  BY <1>2, TextType
<1>4. QED
  BY <1>2, <1>3, TextType, LenProperties

(* The text from its word m + 1 on is as it will be sent. *)
SentFrom(m) ==
  /\ m \in 0 .. Len(Text)
  /\ \A f \in spliced : m <= f.start
  /\ \A f \in entities \ spliced : f.end <= m
  /\ text = Joined(SubSeq(Text, 1, m), Part(Pieces, m, Len(Text)))

PayloadInv ==
  /\ Processing /\ Apart /\ spliced # {} => \E m : SentFrom(m)
  /\ ~Processing /\ Apart => sent = Substituted

LEMMA SentFromEnd ==
  ASSUME RouteInv, Processing, spliced = {}
  PROVE  SentFrom(Len(Text))
<1>1. text = Text /\ SubSeq(Text, 1, Len(Text)) = Text /\ Len(Text) \in Nat
  BY TextType, SubSeqFull DEF RouteInv, CleanInv
<1>2. Part(Pieces, Len(Text), Len(Text)) = << >>
  BY <1>1, PartNone
<1>3. Joined(Text, << >>) = Text
  BY TextType, JoinedNone
<1>4. \A f \in entities : f.end <= Len(Text)
  BY EntityType DEF RouteInv
<1>5. Len(Text) \in 0 .. Len(Text)
  BY <1>1
<1>6. text = Joined(SubSeq(Text, 1, Len(Text)), Part(Pieces, Len(Text), Len(Text)))
  BY <1>1, <1>2, <1>3
<1>7. QED
  BY <1>4, <1>5, <1>6 DEF SentFrom

LEMMA SplicePays ==
  ASSUME RouteInv, PayloadInv, NEW e \in raw, Splice(e), Apart
  PROVE  SentFrom(e.start)'
<1> DEFINE a == e.start
           b == e.end
           n == Len(Text)
           new == answered[e]
<1>1. /\ stage = "detected" /\ Answered /\ e \in entities \ spliced
      /\ \A f \in entities \ spliced : f.start <= e.start
      /\ text' = Spliced(text, a, b, new)
      /\ spliced' = spliced \cup {e}
      /\ UNCHANGED <<entities, answered>>
  BY DEF Splice, Answered, detectVars, vault, Spliced
<1>2. LoopInv /\ VaultInv /\ SplicedInv /\ Processing
  BY <1>1 DEF RouteInv, Processing
<1>3. e \in Candidates /\ a \in Nat /\ b \in Nat /\ a < b /\ b <= n /\ n \in Nat
  BY <1>1, <1>2, EntityType, TextType
<1>4. new \in Seq(Tokens)
  <2>1. new \in AllFakes
    BY <1>1, <1>2, <1>3 DEF VaultInv, Answered
  <2>2. QED
    BY <2>1, FakeType
<1>5. PICK m : SentFrom(m)
  BY <1>2, SentFromEnd DEF PayloadInv
<1>6. /\ m \in Nat /\ m <= n /\ b <= m
      /\ \A f \in spliced : m <= f.start
      /\ \A f \in entities \ spliced : f.end <= m
  BY <1>1, <1>3, <1>5 DEF SentFrom
<1> DEFINE rest == Part(Pieces, m, n)
<1>7. Pieces \in Seq(Seq(Tokens)) /\ Len(Pieces) = n
  BY <1>1, <1>2, PiecesType
<1> HIDE DEF n
<1>8. rest \in Seq(Tokens)
  BY <1>3, <1>6, <1>7, PartType
<1>9. text = Joined(SubSeq(Text, 1, m), rest)
  BY <1>5 DEF SentFrom, n
<1>10. Text \in Seq(Tokens) /\ m <= Len(Text) /\ n = Len(Text) /\ a <= b
  BY <1>3, <1>6, TextType DEF n
<1> HIDE DEF a, b, new, rest
<1>11. Spliced(Joined(SubSeq(Text, 1, m), rest), a, b, new)
         = Joined(SubSeq(Text, 1, a), Joined(new, Joined(SubSeq(Text, b + 1, m), rest)))
  BY <1>3, <1>4, <1>6, <1>8, <1>10, SplicedBefore
<1>12. Part(Pieces, a, b) = new
  <2>1. \A i \in a + 1 .. b : Pieces[i] = IF i = a + 1 THEN new ELSE << >>
    BY <1>1, <1>2, PieceOf DEF a, b, new
  <2>2. a + 1 \in a + 1 .. b /\ \A i \in a + 2 .. b : i \in a + 1 .. b /\ i # a + 1
    BY <1>3
  <2>3. Pieces[a + 1] = new /\ \A i \in a + 2 .. b : Pieces[i] = << >>
    BY <2>1, <2>2
  <2>4. Part(Pieces, a, b) = Pieces[a + 1]
    BY <1>3, <1>7, <2>3, PartOfFirst
  <2>5. QED
    BY <2>3, <2>4
<1>13. Part(Pieces, b, m) = SubSeq(Text, b + 1, m)
  <2>1. ASSUME NEW i \in b + 1 .. m PROVE Pieces[i] = <<Text[i]>>
    <3>1. i \in DOMAIN Text /\ i \in Nat /\ b < i /\ i <= m
      BY <1>3, <1>6, TextType DEF n
    <3>2. ASSUME NEW f \in entities PROVE ~Covers(f, i)
      <4>1. f.start \in Nat /\ f.end \in Nat /\ (f # e => f.end <= a \/ b <= f.start)
        BY <1>1, <1>2, EntityType DEF Apart, a, b
      <4>2. CASE f \in spliced
        BY <1>3, <1>6, <3>1, <4>1, <4>2 DEF Covers
      <4>3. CASE f \notin spliced
        <5>1. f.start <= a
          BY <1>1, <4>3 DEF a
        <5>2. f.end <= b
          BY <1>3, <4>1, <5>1 DEF b
        <5>3. QED
          BY <1>3, <3>1, <4>1, <5>2 DEF Covers
      <4>4. QED
        BY <4>2, <4>3
    <3>3. QED
      BY <3>1, <3>2, PieceAlone
  <2>2. m <= Len(Pieces) /\ m <= Len(Text) /\ b <= m /\ b \in Nat /\ m \in Nat
    BY <1>3, <1>6, <1>7, <1>10
  <2>3. Pieces \in Seq(Seq(Tokens)) /\ Text \in Seq(Tokens)
    BY <1>7, <1>10
  <2> HIDE DEF Part
  <2>4. QED
    BY <2>1, <2>2, <2>3, PartOfWords, Zenon
<1>14. Part(Pieces, a, n) = Joined(new, Joined(SubSeq(Text, b + 1, m), rest))
  <2>1. Part(Pieces, a, n) = Joined(Part(Pieces, a, b), Part(Pieces, b, n))
    BY <1>3, <1>7, PartsJoin
  <2>2. Part(Pieces, b, n) = Joined(Part(Pieces, b, m), Part(Pieces, m, n))
    BY <1>3, <1>6, <1>7, PartsJoin
  <2>3. QED
    BY <1>12, <1>13, <2>1, <2>2 DEF rest
<1>15. text' = Joined(SubSeq(Text, 1, a), Part(Pieces, a, n))
  BY <1>1, <1>9, <1>11, <1>14
<1>16. Pieces' = Pieces
  BY <1>1 DEF Pieces
<1>17. \A f \in spliced \cup {e} : a <= f.start
  BY <1>1, <1>2, <1>3 DEF SplicedInv, a
<1>18. \A f \in entities \ (spliced \cup {e}) : f.end <= a
  <2> SUFFICES ASSUME NEW f \in entities \ (spliced \cup {e}) PROVE f.end <= a
    OBVIOUS
  <2>1. f.start <= a /\ (f.end <= a \/ b <= f.start) /\ f.start \in Nat /\ f.end \in Nat
    BY <1>1, <1>2, EntityType DEF Apart, a, b
  <2>2. QED
    BY <1>3, <2>1
<1>19. a \in 0 .. Len(Text)
  BY <1>3, <1>10
<1>20. /\ a \in 0 .. Len(Text)
       /\ \A f \in spliced' : a <= f.start
       /\ \A f \in entities' \ spliced' : f.end <= a
       /\ text' = Joined(SubSeq(Text, 1, a), Part(Pieces', a, Len(Text)))
  BY <1>1, <1>10, <1>15, <1>16, <1>17, <1>18, <1>19
<1>21. QED
  BY <1>20 DEF SentFrom, Joined, Part, a

LEMMA SendPays ==
  ASSUME RouteInv, PayloadInv, Send, Apart
  PROVE  sent' = Substituted
<1> DEFINE n == Len(Text)
<1>1. stage = "detected" /\ spliced = entities /\ sent' = text
  BY DEF Send
<1>2. LoopInv /\ VaultInv /\ SplicedInv /\ Processing
  BY <1>1 DEF RouteInv, Processing
<1>3. Answered
  BY <1>1, <1>2 DEF SplicedInv, Answered
<1>4. Pieces \in Seq(Seq(Tokens)) /\ Len(Pieces) = n /\ n \in Nat
  BY <1>2, <1>3, PiecesType, TextType
<1>5. PICK m : SentFrom(m)
  BY <1>2, SentFromEnd DEF PayloadInv
<1>6. m \in Nat /\ m <= n /\ 0 <= m /\ \A f \in entities : m <= f.start
  BY <1>1, <1>4, <1>5 DEF SentFrom
<1>7. \A i \in 0 + 1 .. m : Pieces[i] = <<Text[i]>>
  <2> SUFFICES ASSUME NEW i \in 0 + 1 .. m PROVE Pieces[i] = <<Text[i]>>
    OBVIOUS
  <2>1. i \in DOMAIN Text /\ i <= m /\ i \in Nat
    BY <1>4, <1>6, TextType
  <2>2. ASSUME NEW f \in entities PROVE ~Covers(f, i)
    BY <1>2, <1>6, <2>1, EntityType DEF Covers
  <2>3. QED
    BY <2>1, <2>2, PieceAlone
<1>8. text = Joined(SubSeq(Text, 1, m), Part(Pieces, m, n))
  BY <1>5 DEF SentFrom
<1>9. Text \in Seq(Tokens) /\ n = Len(Text)
  BY TextType
<1> HIDE DEF n
<1>10. Part(Pieces, 0, m) = SubSeq(Text, 0 + 1, m)
  <2> DEFINE z == 0
  <2>1. /\ m <= Len(Pieces) /\ m <= Len(Text) /\ z <= m /\ z \in Nat /\ m \in Nat
        /\ \A i \in z + 1 .. m : Pieces[i] = <<Text[i]>>
    BY <1>4, <1>6, <1>7, <1>9
  <2>2. Pieces \in Seq(Seq(Tokens)) /\ Text \in Seq(Tokens)
    BY <1>4, <1>9
  <2> HIDE DEF z
  <2>3. Part(Pieces, z, m) = SubSeq(Text, z + 1, m)
    BY <2>1, <2>2, PartOfWords, Zenon
  <2>4. QED
    BY <2>3 DEF z
<1>11. Part(Pieces, 0, m) = SubSeq(Text, 1, m)
  BY <1>10
<1>12. Part(Pieces, 0, n) = Joined(Part(Pieces, 0, m), Part(Pieces, m, n))
  BY <1>4, <1>6, PartsJoin
<1>13. Part(Pieces, 0, Len(Pieces)) = FlattenSeq(Pieces)
  BY <1>4, PartWhole
<1>14. FlattenSeq(Pieces) = Substituted
  BY DEF Pieces, Substituted
<1>15. QED
  BY <1>1, <1>4, <1>8, <1>11, <1>12, <1>13, <1>14

LEMMA PayloadFrame ==
  ASSUME PayloadInv, ~Processing, ~Processing', UNCHANGED <<entities, answered, sent>>
  PROVE  PayloadInv'
BY DEF PayloadInv, Apart, Substituted

LEMMA PayloadStep == RouteInv /\ PayloadInv /\ [Next]_vars => PayloadInv'
<1> SUFFICES ASSUME RouteInv, PayloadInv, [Next]_vars PROVE PayloadInv'
  OBVIOUS
<1>1. CASE Detect
  <2>1. Processing' /\ stage = "resolve" /\ spliced' = spliced
    BY <1>1 DEF Detect, DetectNext, Consider, ApplyThresholds, Processing
  <2>2. spliced = {}
    BY <2>1 DEF RouteInv, LoopInv, Detected, SplicedInv
  <2>3. QED
    BY <2>1, <2>2 DEF PayloadInv
<1>2. ASSUME NEW e \in raw, Substitute(e) PROVE PayloadInv'
  <2>1. stage = "detected" /\ stage' = stage /\ spliced' = spliced /\ e \in entities /\ answered[e] = NoFake
    BY <1>2 DEF Substitute, detectVars
  <2>2. spliced = {}
    BY <2>1 DEF RouteInv, SplicedInv, Answered
  <2>3. QED
    BY <2>1, <2>2 DEF PayloadInv, Processing
<1>3. ASSUME NEW e \in raw, Splice(e) PROVE PayloadInv'
  <2>1. Processing' /\ entities' = entities
    BY <1>3 DEF Splice, Processing, detectVars
  <2>2. Apart' => Apart
    BY <2>1 DEF Apart
  <2>3. Apart => SentFrom(e.start)'
    BY <1>3, SplicePays
  <2>4. Apart' => (\E m : SentFrom(m))'
    BY <2>2, <2>3
  <2>5. QED
    BY <2>1, <2>4 DEF PayloadInv
<1>4. CASE Send
  <2>1. ~Processing' /\ UNCHANGED <<entities, answered>>
    BY <1>4 DEF Send, Processing, vault
  <2>2. Apart' => Apart
    BY <2>1 DEF Apart
  <2>3. Substituted' = Substituted
    BY <2>1 DEF Substituted
  <2>4. QED
    BY <1>4, <2>1, <2>2, <2>3, SendPays DEF PayloadInv
<1>5. CASE Answer
  <2>1. ~Processing /\ ~Processing' /\ UNCHANGED <<entities, answered, sent>>
    BY <1>5 DEF Answer, Processing, vault
  <2>2. QED
    BY <2>1, PayloadFrame
<1>6. ASSUME NEW fake \in left, Restore(fake) PROVE PayloadInv'
  <2>1. ~Processing /\ ~Processing' /\ UNCHANGED <<entities, answered, sent>>
    BY <1>6 DEF Restore, Processing, vault, detectVars
  <2>2. QED
    BY <2>1, PayloadFrame
<1>7. CASE EndExact \/ RestoreFuzzy
  <2>1. ~Processing /\ ~Processing' /\ UNCHANGED <<entities, answered, sent>>
    BY <1>7 DEF EndExact, RestoreFuzzy, Processing, vault
  <2>2. QED
    BY <2>1, PayloadFrame
<1>8. CASE UNCHANGED vars
  <2>1. UNCHANGED <<stage, entities, answered, sent, text, spliced>>
    BY <1>8 DEF vars
  <2>2. QED
    BY <2>1 DEF PayloadInv, Processing, Apart, Substituted, SentFrom, Pieces
<1>9. QED
  BY <1>1, <1>2, <1>3, <1>4, <1>5, <1>6, <1>7, <1>8 DEF Next, Done

LEMMA PayloadInvariant == Spec => []PayloadInv
<1>1. Init => PayloadInv
  BY DEF Init, DetectInit, PayloadInv, Processing
<1>2. QED
  BY <1>1, PayloadStep, RouteInvariant, PTL DEF Spec

(* Where the entities share no word, the provider gets the fake of each in *)
(* its place and every other word as it is, whatever the lengths of the    *)
(* fakes: the last entity is spliced first, so the offsets stay good.      *)
THEOREM SentRight == Spec => []SentAsIntended
<1>1. PayloadInv => SentAsIntended
  BY DEF PayloadInv, Processing, SentAsIntended
<1>2. QED
  BY <1>1, PayloadInvariant, PTL

-----------------------------------------------------------------------------
(* What re.sub makes of a text. *)

(* What comes from the i-th word on, given what comes from the later ones. *)
Onward(F, form, original, words, i) ==
  IF i > Len(words) THEN << >>
  ELSE IF OccursAt(form, words, i) THEN original \o F[i + Len(form)]
  ELSE <<words[i]>> \o F[i + 1]

IsReplacement(F, form, original, words, a) ==
  F = [i \in a .. Len(words) + 1 |-> Onward(F, form, original, words, i)]

LEMMA ReplacementExists ==
  ASSUME NEW V, NEW form \in Seq(V), form # << >>, NEW words \in Seq(V), NEW original
  PROVE  \E F : IsReplacement(F, form, original, words, 1)
<1> DEFINE n == Len(words)
           Good(k) == \E F : IsReplacement(F, form, original, words, n + 1 - k)
           Bad == {k \in 0 .. n : ~Good(k)}
<1>1. n \in Nat /\ Len(form) \in Nat \ {0}
  BY LenProperties, EmptySeq
<1>2. Bad = {}
  <2> SUFFICES ASSUME Bad # {} PROVE FALSE
    OBVIOUS
  <2>1. PICK k \in Bad : \A j \in Bad : k <= j
    <3>1. Bad \in SUBSET Nat
      BY <1>1
    <3> HIDE DEF Bad
    <3>2. QED
      BY <3>1, LeastNumber
  <2>2. k \in 0 .. n /\ ~Good(k)
    OBVIOUS
  <2>3. k # 0
    <3> DEFINE G == [i \in n + 1 .. n + 1 |-> << >>]
    <3>1. G = [i \in n + 1 .. n + 1 |-> Onward(G, form, original, words, i)]
      BY <1>1 DEF Onward
    <3>2. n + 1 - 0 = n + 1
      BY <1>1
    <3> HIDE DEF G
    <3>3. IsReplacement(G, form, original, words, n + 1 - 0)
      BY <3>1, <3>2 DEF IsReplacement
    <3>4. Good(0)
      BY <3>3
    <3>5. QED
      BY <2>2, <3>4
  <2> DEFINE l == k - 1
             a == n + 1 - k
  <2>4. l \in 0 .. n /\ l \notin Bad
    <3>1. l \in 0 .. n /\ ~(k <= l)
      BY <1>1, <2>2, <2>3
    <3>2. \A j \in Bad : k <= j
      BY <2>1
    <3> HIDE DEF Bad, l
    <3>3. QED
      BY <3>1, <3>2
  <2>5. Good(l)
    BY <2>4
  <2>6. n + 1 - l = a + 1 /\ a \in 1 .. n
    BY <1>1, <2>2, <2>3
  <2>7. PICK G : IsReplacement(G, form, original, words, a + 1)
    BY <2>5, <2>6
  <2>8. G = [i \in a + 1 .. n + 1 |-> Onward(G, form, original, words, i)]
    BY <2>7 DEF IsReplacement
  <2> DEFINE F == [i \in a .. n + 1 |-> Onward(G, form, original, words, i)]
  <2> HIDE DEF Bad, a, l, n
  <2>9. \A i \in a + 1 .. n + 1 : F[i] = G[i]
    BY <1>1, <2>6, <2>8
  <2>10. ASSUME NEW i \in a .. n + 1
         PROVE  Onward(G, form, original, words, i) = Onward(F, form, original, words, i)
    <3> HIDE DEF F
    <3>1. CASE i > n
      BY <3>1 DEF Onward, n
    <3>2. CASE ~(i > n) /\ OccursAt(form, words, i)
      <4>1. i + Len(form) \in a + 1 .. n + 1
        BY <1>1, <2>6, <3>2 DEF OccursAt, n
      <4>2. F[i + Len(form)] = G[i + Len(form)]
        BY <2>9, <4>1
      <4>3. QED
        BY <3>2, <4>2 DEF Onward
    <3>3. CASE ~(i > n) /\ ~OccursAt(form, words, i)
      <4>1. i + 1 \in a + 1 .. n + 1
        BY <1>1, <2>6, <3>3
      <4>2. F[i + 1] = G[i + 1]
        BY <2>9, <4>1
      <4>3. QED
        BY <3>3, <4>2 DEF Onward
    <3>4. QED
      BY <3>1, <3>2, <3>3
  <2> DEFINE H == F
  <2>11. H = [i \in a .. n + 1 |-> Onward(G, form, original, words, i)]
    OBVIOUS
  <2>12. \A i \in a .. n + 1 : Onward(G, form, original, words, i) = Onward(H, form, original, words, i)
    BY <2>10
  <2> HIDE DEF H
  <2>13. H = [i \in a .. n + 1 |-> Onward(H, form, original, words, i)]
    BY <2>11, <2>12
  <2>14. IsReplacement(H, form, original, words, a)
    BY <2>13 DEF IsReplacement, n
  <2>15. QED
    BY <2>2, <2>14 DEF a
<1>3. n \in 0 .. n /\ n + 1 - n = 1
  BY <1>1
<1>4. n \notin Bad
  BY <1>2
<1> HIDE DEF n
<1>5. Good(n)
  BY <1>3, <1>4
<1>6. QED
  BY <1>3, <1>5

IsRun(F, form, original, words) ==
  \A i \in 1 .. Len(words) + 1 : F[i] = Onward(F, form, original, words, i)

(* The function that Replaced chooses, by its equations. *)
LEMMA ReplacedIs ==
  ASSUME NEW V, NEW form \in Seq(V), form # << >>, NEW words \in Seq(V), NEW original
  PROVE  \E F : Replaced(form, original, words) = F[1] /\ IsRun(F, form, original, words)
<1> DEFINE Values(M) == [i \in 1 .. Len(words) + 1 |->
                           IF i > Len(words) THEN << >>
                           ELSE IF OccursAt(form, words, i) THEN original \o M[i + Len(form)]
                           ELSE <<words[i]>> \o M[i + 1]]
           M == CHOOSE M : M = Values(M)
<1>1. PICK F : IsReplacement(F, form, original, words, 1)
  BY ReplacementExists
<1>2. F = Values(F)
  BY <1>1 DEF IsReplacement, Onward
<1>3. M = Values(M)
  <2> HIDE DEF Values
  <2>1. QED
    BY <1>2
<1>4. Replaced(form, original, words) = M[1]
  BY DEF Replaced
<1> HIDE DEF M
<1>5. IsRun(M, form, original, words)
  BY <1>3 DEF Onward, IsRun
<1>6. QED
  BY <1>4, <1>5

NoOccurrence(form, words, u, v) == \A p \in u + 1 .. v : ~OccursAt(form, words, p)

(* Words at which the form does not begin stay as they are. *)
LEMMA OnwardSkips ==
  ASSUME NEW V, NEW form, NEW original, NEW words \in Seq(V), NEW F,
         IsRun(F, form, original, words),
         NEW u \in Nat, NEW v \in Nat, u <= v, v <= Len(words), F[v + 1] \in Seq(V),
         NoOccurrence(form, words, u, v)
  PROVE  F[u + 1] = Joined(SubSeq(words, u + 1, v), F[v + 1])
<1> DEFINE rest == F[v + 1]
           Good(k) == F[v - k + 1] = Joined(SubSeq(words, v - k + 1, v), rest)
           Bad == {k \in 0 .. v - u : ~Good(k)}
<1>1. Len(words) \in Nat /\ \A i \in 1 .. Len(words) : words[i] \in V
  BY LenProperties, ElementOfSeq
<1>2. Bad = {}
  <2> SUFFICES ASSUME Bad # {} PROVE FALSE
    OBVIOUS
  <2>1. PICK k \in Bad : \A j \in Bad : k <= j
    <3>1. Bad \in SUBSET Nat
      OBVIOUS
    <3> HIDE DEF Bad
    <3>2. QED
      BY <3>1, LeastNumber
  <2>2. k \in 0 .. v - u /\ ~Good(k)
    OBVIOUS
  <2>3. k # 0
    <3>1. SubSeq(words, v + 1, v) = << >> /\ v - 0 + 1 = v + 1
      BY SubSeqEmpty
    <3>2. Joined(<< >>, rest) = rest
      BY JoinedNone
    <3>3. Good(0)
      BY <3>1, <3>2
    <3>4. QED
      BY <2>2, <3>3
  <2> DEFINE l == k - 1
             i == v - k + 1
             j == i + 1
  <2>4. l \in 0 .. v - u /\ l \notin Bad
    <3>1. l \in 0 .. v - u /\ ~(k <= l)
      BY <2>2, <2>3
    <3>2. \A m \in Bad : k <= m
      BY <2>1
    <3> HIDE DEF Bad, l
    <3>3. QED
      BY <3>1, <3>2
  <2>5. Good(l)
    BY <2>4
  <2>6. v - l + 1 = j /\ i \in u + 1 .. v /\ i \in 1 .. Len(words) /\ v \in i .. Len(words)
        /\ ~(i > Len(words)) /\ i \in 1 .. Len(words) + 1 /\ i \in Nat /\ j \in Nat /\ j = i + 1
    BY <1>1, <2>2, <2>3
  <2>7. F[j] = Joined(SubSeq(words, j, v), rest)
    BY <2>5, <2>6
  <2> HIDE DEF l, i, Bad, rest, j
  <2>8. F[i] = Joined(<<words[i]>>, F[j])
    BY <2>6 DEF Onward, Joined, IsRun, NoOccurrence
  <2>9. SubSeq(words, i, v) = Joined(<<words[i]>>, SubSeq(words, j, v))
    BY <2>6, SubSeqRecursiveFirst DEF Joined
  <2>10. words[i] \in V /\ rest \in Seq(V)
    BY <1>1, <2>6 DEF rest
  <2>11. <<words[i]>> \in Seq(V)
    BY <2>10
  <2>12. SubSeq(words, j, v) \in Seq(V)
    <3>1. j \in Int /\ v \in Int /\ \A m \in j .. v : m \in 1 .. Len(words)
      BY <1>1, <2>6
    <3>2. \A m \in j .. v : words[m] \in V
      BY <1>1, <3>1
    <3>3. QED
      BY <3>1, <3>2, SubSeqProperties
  <2> DEFINE one == <<words[i]>>
             tail == SubSeq(words, j, v)
  <2>16. one \in Seq(V) /\ tail \in Seq(V)
    BY <2>11, <2>12
  <2> HIDE DEF one, tail
  <2>13. Joined(Joined(one, tail), rest) = Joined(one, Joined(tail, rest))
    BY <2>10, <2>16, JoinedAssociative
  <2>14. F[i] = Joined(SubSeq(words, i, v), rest)
    BY <2>7, <2>8, <2>9, <2>13 DEF one, tail
  <2>15. QED
    BY <2>2, <2>14 DEF i
<1>3. v - u \in 0 .. v - u /\ v - (v - u) + 1 = u + 1
  OBVIOUS
<1>4. v - u \notin Bad
  BY <1>2
<1>5. Good(v - u)
  BY <1>3, <1>4
<1>6. QED
  BY <1>3, <1>5

At(p, m) == Len(Part(p, 0, m))

(* Where the pieces from a to b stand in the text that all come to. *)
IsPlaced(t, p, a, b) ==
  /\ At(p, a) \in Nat /\ At(p, b) = At(p, a) + Len(Part(p, a, b)) /\ At(p, b) <= Len(t)
  /\ \A i \in 1 .. Len(Part(p, a, b)) : t[At(p, a) + i] = Part(p, a, b)[i]

LEMMA PartPlace ==
  ASSUME NEW V, NEW p \in Seq(Seq(V)), NEW a \in Nat, NEW b \in Nat, a <= b, b <= Len(p)
  PROVE  FlattenSeq(p) \in Seq(V) /\ IsPlaced(FlattenSeq(p), p, a, b)
<1> DEFINE x == Part(p, 0, a)
           y == Part(p, a, b)
           z == Part(p, b, Len(p))
           t == FlattenSeq(p)
           xy == Part(p, 0, b)
           n == Len(p)
           o == 0
<1>1. Len(p) \in Nat /\ 0 <= a /\ 0 <= b /\ 0 \in Nat
  BY LenProperties
<1>2. x \in Seq(V) /\ y \in Seq(V) /\ z \in Seq(V) /\ xy \in Seq(V)
  <2>1. o \in Nat /\ n \in Nat /\ b <= n /\ n <= Len(p) /\ a <= Len(p)
    BY <1>1
  <2> HIDE DEF o, n
  <2>2. Part(p, o, a) \in Seq(V)
    BY <2>1, PartType
  <2>3. Part(p, o, b) \in Seq(V)
    BY <2>1, PartType
  <2>4. Part(p, a, b) \in Seq(V)
    BY <2>1, PartType
  <2>5. Part(p, b, n) \in Seq(V)
    BY <2>1, PartType
  <2>6. QED
    BY <2>2, <2>3, <2>4, <2>5 DEF o, n
<1>3. t = Part(p, o, n)
  BY PartWhole
<1>4. xy = Joined(x, y)
  BY <1>1, PartsJoin
<1>5. t = Joined(xy, z)
  <2>1. o \in Nat /\ n \in Nat /\ o <= b /\ b <= n /\ n <= Len(p)
    BY <1>1
  <2> HIDE DEF o, n
  <2>2. Part(p, o, n) = Joined(Part(p, o, b), Part(p, b, n))
    BY <2>1, PartsJoin
  <2>3. QED
    BY <1>3, <2>2 DEF o, n
<1> HIDE DEF x, y, z, t, xy
<1>6. IsJoined(xy, x, y) /\ IsJoined(t, xy, z) /\ t \in Seq(V)
  BY <1>2, <1>4, <1>5, JoinedIs
<1>7. Len(x) \in Nat /\ Len(y) \in Nat /\ Len(z) \in Nat /\ Len(xy) \in Nat
  BY <1>2, LenProperties
<1>8. Len(xy) = Len(x) + Len(y) /\ Len(xy) <= Len(t)
  BY <1>6, <1>7 DEF IsJoined
<1>9. \A i \in 1 .. Len(y) : t[Len(x) + i] = y[i]
  <2> SUFFICES ASSUME NEW i \in 1 .. Len(y) PROVE t[Len(x) + i] = y[i]
    OBVIOUS
  <2>1. Len(x) + i \in 1 .. Len(xy)
    BY <1>7, <1>8
  <2>2. t[Len(x) + i] = xy[Len(x) + i] /\ xy[Len(x) + i] = y[i]
    BY <1>6, <2>1 DEF IsJoined
  <2>3. QED
    BY <2>2
<1>10. QED
  BY <1>6, <1>7, <1>8, <1>9 DEF At, x, y, xy, t, IsPlaced

LEMMA PartIs ==
  ASSUME NEW V, NEW p \in Seq(Seq(V)), NEW a \in Nat, NEW b \in Nat, a <= b, b <= Len(p)
  PROVE  SubSeq(FlattenSeq(p), At(p, a) + 1, At(p, b)) = Part(p, a, b)
<1> DEFINE t == FlattenSeq(p)
           y == Part(p, a, b)
           c == At(p, a)
           d == At(p, b)
           u == SubSeq(t, c + 1, d)
<1>1. /\ c \in Nat /\ d = c + Len(y) /\ t \in Seq(V) /\ d <= Len(t)
      /\ \A i \in 1 .. Len(y) : t[c + i] = y[i]
  <2>1. t \in Seq(V) /\ IsPlaced(t, p, a, b)
    BY PartPlace
  <2>2. QED
    BY <2>1 DEF IsPlaced
<1>2. y \in Seq(V) /\ Len(y) \in Nat
  BY PartType, LenProperties
<1> HIDE DEF t, y, c, d
<1>3. d \in Nat /\ c <= d /\ d - c = Len(y)
  BY <1>1, <1>2
<1>4. u \in Seq(V) /\ Len(u) = d - c /\ \A i \in 1 .. d - c : u[i] = t[c + i]
  <2>1. u \in Seq(V) /\ IsCut(u, t, c, d)
    BY <1>1, <1>3, SubSeqCut
  <2> HIDE DEF u
  <2>2. QED
    BY <2>1 DEF IsCut
<1> HIDE DEF u
<1>5. \A i \in 1 .. Len(u) : u[i] = y[i]
  BY <1>1, <1>3, <1>4
<1>6. u = y
  BY <1>2, <1>3, <1>4, <1>5, SeqEqual
<1>7. QED
  BY <1>6 DEF u, t, y, c, d

(* From border to border of B the pieces of p come to the form, those of q *)
(* to the original, or the form begins nowhere and both come to the same.  *)
FormOrNone(p, q, form, original, B) ==
  /\ Len(p) = Len(q)
  /\ B \in SUBSET (0 .. Len(p)) /\ 0 \in B /\ Len(p) \in B
  /\ \A m \in B \ {Len(p)} : \E k \in B :
       /\ m < k
       /\ \/ Part(p, m, k) = form /\ Part(q, m, k) = original
          \/ /\ Part(q, m, k) = Part(p, m, k)
             /\ \A i \in At(p, m) + 1 .. At(p, k) : ~OccursAt(form, FlattenSeq(p), i)

(* Pieces of which some are the form, and in which it begins nowhere else. *)
LEMMA PiecesReplaced ==
  ASSUME NEW V, NEW p \in Seq(Seq(V)), NEW q \in Seq(Seq(V)),
         NEW form \in Seq(V), form # << >>, NEW original \in Seq(V),
         NEW B, FormOrNone(p, q, form, original, B)
  PROVE  Replaced(form, original, FlattenSeq(p)) = FlattenSeq(q)
<1> DEFINE n == Len(p)
           t == FlattenSeq(p)
<1>1. n = Len(q) /\ B \in SUBSET (0 .. n) /\ 0 \in B /\ n \in B
  BY DEF FormOrNone
<1>2. n \in Nat /\ t \in Seq(V) /\ Len(t) \in Nat /\ Len(form) \in Nat \ {0}
  BY LenProperties, FlattenType, EmptySeq
<1> HIDE DEF t
<1>3. PICK F : Replaced(form, original, t) = F[1] /\ IsRun(F, form, original, t)
  BY <1>1, <1>2, ReplacedIs
<1> DEFINE Good(m) == F[At(p, m) + 1] = Part(q, m, n)
           Bad == {k \in 0 .. n : n - k \in B /\ ~Good(n - k)}
<1>4. Bad = {}
  <2> SUFFICES ASSUME Bad # {} PROVE FALSE
    OBVIOUS
  <2>1. PICK j \in Bad : \A k \in Bad : j <= k
    <3>1. Bad \in SUBSET Nat
      BY <1>1, <1>2
    <3> HIDE DEF Bad
    <3>2. QED
      BY <3>1, LeastNumber
  <2> DEFINE m == n - j
  <2>2. j \in 0 .. n /\ m \in B /\ ~Good(m)
    OBVIOUS
  <2>3. m \in Nat /\ m <= n /\ n - m = j
    BY <1>1, <1>2, <2>2
  <2>4. m # n
    <3>1. At(p, n) = Len(t)
      BY PartWhole DEF At, t
    <3>2. F[Len(t) + 1] = << >>
      <4>1. Len(t) + 1 \in 1 .. Len(t) + 1 /\ Len(t) + 1 > Len(t)
        BY <1>1, <1>2
      <4>2. F[Len(t) + 1] = Onward(F, form, original, t, Len(t) + 1)
        BY <1>3, <4>1 DEF IsRun
      <4>3. QED
        BY <4>1, <4>2 DEF Onward
    <3>3. Part(q, n, n) = << >>
      BY <1>1, <1>2, PartNone
    <3>4. QED
      BY <2>2, <3>1, <3>2, <3>3
  <2>5. PICK k \in B : /\ m < k
                       /\ \/ Part(p, m, k) = form /\ Part(q, m, k) = original
                          \/ /\ Part(q, m, k) = Part(p, m, k)
                             /\ \A i \in At(p, m) + 1 .. At(p, k) : ~OccursAt(form, t, i)
    BY <2>2, <2>4 DEF t, FormOrNone
  <2>6. k \in Nat /\ k <= n /\ m <= k
    BY <1>1, <1>2, <2>3, <2>5
  <2>7. Good(k)
    <3>1. n - k \in 0 .. n /\ ~(j <= n - k) /\ n - (n - k) = k
      <4>1. n \in Nat /\ j \in 0 .. n /\ m \in Nat /\ n - m = j /\ m < k /\ k \in Nat /\ k <= n
        BY <1>2, <2>2, <2>3, <2>5, <2>6
      <4> HIDE DEF Bad, n, m
      <4>2. QED
        BY <4>1
    <3>2. n - k \notin Bad
      <4>1. \A i \in Bad : j <= i
        BY <2>1
      <4> HIDE DEF Bad
      <4>2. QED
        BY <3>1, <4>1
    <3>3. QED
      BY <2>5, <3>1, <3>2
  <2> HIDE DEF Bad, m, n
  <2>8. /\ At(p, m) \in Nat /\ At(p, k) = At(p, m) + Len(Part(p, m, k)) /\ At(p, k) <= Len(t)
        /\ At(p, k) \in Nat
    <3>1. At(p, m) \in Nat /\ At(p, k) = At(p, m) + Len(Part(p, m, k)) /\ At(p, k) <= Len(t)
      BY <2>3, <2>6, PartPlace DEF t, n, IsPlaced
    <3>2. At(p, k) \in Nat
      BY <1>1, <1>2, <2>6, PartPlace DEF n, IsPlaced
    <3>3. QED
      BY <3>1, <3>2
  <2>9. SubSeq(t, At(p, m) + 1, At(p, k)) = Part(p, m, k)
    BY <2>3, <2>6, PartIs DEF t, n
  <2>10. Part(q, m, n) = Joined(Part(q, m, k), Part(q, k, n))
    BY <1>1, <1>2, <2>3, <2>6, PartsJoin
  <2>11. Part(q, k, n) \in Seq(V)
    BY <1>1, <1>2, <2>6, PartType
  <2> DEFINE c == At(p, m)
             d == At(p, k)
  <2>12. CASE Part(p, m, k) = form /\ Part(q, m, k) = original
    <3>1. c + 1 \in 1 .. Len(t) + 1 /\ ~(c + 1 > Len(t)) /\ c + 1 + Len(form) = d + 1
          /\ c + 1 + Len(form) - 1 = d /\ d <= Len(t)
      <4>1. c \in Nat /\ d = c + Len(form) /\ d <= Len(t)
        BY <2>8, <2>12
      <4> HIDE DEF c, d
      <4>2. QED
        BY <1>1, <1>2, <4>1
    <3>2. OccursAt(form, t, c + 1)
      BY <2>9, <2>12, <3>1 DEF OccursAt
    <3> HIDE DEF c, d
    <3>3. F[c + 1] = Onward(F, form, original, t, c + 1)
      BY <1>3, <3>1 DEF IsRun
    <3>4. F[c + 1] = Joined(original, F[c + 1 + Len(form)])
      BY <3>1, <3>2, <3>3 DEF Onward, Joined
    <3>5. F[c + 1] = Joined(original, F[d + 1])
      BY <3>1, <3>4
    <3>6. F[d + 1] = Part(q, k, n)
      BY <2>7 DEF d
    <3>7. QED
      BY <2>2, <2>10, <2>12, <3>5, <3>6 DEF c
  <2>13. CASE /\ Part(q, m, k) = Part(p, m, k)
              /\ \A i \in At(p, m) + 1 .. At(p, k) : ~OccursAt(form, t, i)
    <3>1. c \in Nat /\ d \in Nat /\ c <= d /\ d <= Len(t) /\ \A i \in c + 1 .. d : ~OccursAt(form, t, i)
      <4>1. Part(p, m, k) \in Seq(V)
        BY <2>3, <2>6, PartType DEF n
      <4>2. Len(Part(p, m, k)) \in Nat
        BY <4>1, LenProperties
      <4>3. QED
        BY <2>8, <2>13, <4>2
    <3>2. F[d + 1] = Part(q, k, n)
      BY <2>7
    <3> HIDE DEF c, d
    <3>3. F[d + 1] \in Seq(V)
      BY <2>11, <3>2
    <3>4. F[c + 1] = Joined(SubSeq(t, c + 1, d), F[d + 1])
      <4>1. NoOccurrence(form, t, c, d)
        BY <3>1 DEF NoOccurrence
      <4>2. c \in Nat /\ d \in Nat /\ c <= d /\ d <= Len(t) /\ t \in Seq(V)
        BY <1>1, <1>2, <3>1
      <4>3. QED
        BY <1>3, <3>3, <4>1, <4>2, OnwardSkips
    <3>5. QED
      BY <2>2, <2>9, <2>10, <2>13, <3>2, <3>4 DEF c, d
  <2>14. QED
    BY <2>5, <2>12, <2>13
<1>5. n \in 0 .. n /\ n - n = 0
  BY <1>1, <1>2
<1>6. Good(0)
  BY <1>1, <1>4, <1>5
<1>7. At(p, 0) = 0
  BY PartNone, EmptySeq DEF At
<1>8. Part(q, 0, n) = FlattenSeq(q)
  BY <1>1, <1>2, PartWhole
<1>9. QED
  BY <1>3, <1>6, <1>7, <1>8 DEF t

-----------------------------------------------------------------------------
(* The exact passes of the restoration. *)

LEMMA SeparatedApart ==
  ASSUME LoopInv, Separated
  PROVE  Apart
<1> SUFFICES ASSUME NEW e \in entities, NEW f \in entities, e # f
             PROVE  e.end <= f.start \/ f.end <= e.start
  BY DEF Apart
<1>1. e.start \in Nat /\ e.end \in Nat /\ f.start \in Nat /\ f.end \in Nat
  BY EntityType
<1>2. QED
  BY <1>1 DEF Separated

LEMMA CoverIsOne ==
  ASSUME LoopInv, Apart, NEW e \in entities, NEW f \in entities, NEW i \in Nat,
         Covers(e, i), Covers(f, i)
  PROVE  f = e
<1>1. e.start \in Nat /\ e.end \in Nat /\ f.start \in Nat /\ f.end \in Nat
  BY EntityType
<1>2. QED
  BY <1>1 DEF Apart, Covers

(* The text with the fakes of L still in it. *)
PiecesLeft(L) ==
  [i \in DOMAIN Text |->
     IF \E e \in entities : Covers(e, i) /\ answered[e] \in L THEN Pieces[i] ELSE <<Text[i]>>]

LEMMA PiecesLeftType ==
  ASSUME LoopInv, VaultInv, Answered, NEW L
  PROVE  PiecesLeft(L) \in Seq(Seq(Tokens)) /\ Len(PiecesLeft(L)) = Len(Text)
<1>1. Pieces \in Seq(Seq(Tokens)) /\ Len(Pieces) = Len(Text)
  BY PiecesType
<1>2. \A i \in 1 .. Len(Text) : Pieces[i] \in Seq(Tokens) /\ <<Text[i]>> \in Seq(Tokens)
  BY <1>1, TextType, ElementOfSeq
<1>3. PiecesLeft(L) \in [1 .. Len(Text) -> Seq(Tokens)]
  BY <1>2, TextType DEF PiecesLeft
<1>4. PiecesLeft(L) \in Seq(Seq(Tokens))
  BY <1>3, TextType
<1>5. QED
  BY <1>3, <1>4, TextType, LenProperties

LEMMA LeftAlone ==
  ASSUME NEW L, NEW i \in DOMAIN Text, \A e \in entities : ~Covers(e, i)
  PROVE  PiecesLeft(L)[i] = <<Text[i]>>
BY DEF PiecesLeft

(* What an entity has come to. *)
LEMMA LeftPart ==
  ASSUME LoopInv, VaultInv, Answered, Apart, NEW L, NEW e \in entities
  PROVE  Part(PiecesLeft(L), e.start, e.end)
           = IF answered[e] \in L THEN answered[e] ELSE SubSeq(Text, e.start + 1, e.end)
<1> DEFINE a == e.start
           b == e.end
           p == PiecesLeft(L)
<1>1. a \in Nat /\ b \in Nat /\ a < b /\ b <= Len(Text)
  BY EntityType
<1>2. p \in Seq(Seq(Tokens)) /\ Len(p) = Len(Text)
  BY PiecesLeftType
<1>3. \A i \in a + 1 .. b : i \in DOMAIN Text /\ i \in Nat /\ Covers(e, i)
  BY <1>1, TextType DEF Covers
<1>4. \A i \in a + 1 .. b, f \in entities : Covers(f, i) => f = e
  BY <1>3, CoverIsOne
<1>5. CASE answered[e] \in L
  <2>1. \A i \in a + 1 .. b : p[i] = Pieces[i]
    BY <1>3, <1>5 DEF PiecesLeft
  <2>2. \A i \in a + 1 .. b : Pieces[i] = IF i = a + 1 THEN answered[e] ELSE << >>
    BY PieceOf
  <2>3. a + 1 \in a + 1 .. b /\ \A i \in a + 2 .. b : i \in a + 1 .. b /\ i # a + 1
    BY <1>1
  <2> HIDE DEF a, b, p
  <2>4. p[a + 1] = answered[e] /\ \A i \in a + 2 .. b : p[i] = << >>
    BY <2>1, <2>2, <2>3
  <2>5. Part(p, a, b) = p[a + 1]
    BY <1>1, <1>2, <2>4, PartOfFirst
  <2>6. QED
    BY <1>5, <2>4, <2>5 DEF a, b, p
<1>6. CASE answered[e] \notin L
  <2>1. \A i \in a + 1 .. b : p[i] = <<Text[i]>>
    BY <1>3, <1>4, <1>6 DEF PiecesLeft
  <2>2. a <= b /\ b <= Len(p) /\ Text \in Seq(Tokens)
    BY <1>1, <1>2, TextType
  <2> HIDE DEF a, b, p
  <2>3. Part(p, a, b) = SubSeq(Text, a + 1, b)
    BY <1>1, <1>2, <2>1, <2>2, PartOfWords
  <2>4. QED
    BY <1>6, <2>3 DEF a, b, p
<1>7. QED
  BY <1>5, <1>6

LEMMA OccursIs ==
  ASSUME NEW V, NEW form \in Seq(V), NEW t \in Seq(V), NEW p \in Nat \ {0}, OccursAt(form, t, p)
  PROVE  /\ p + Len(form) - 1 <= Len(t)
         /\ \A j \in 1 .. Len(form) : t[p + j - 1] = form[j]
<1> DEFINE q == p + Len(form) - 1
<1>1. q <= Len(t) /\ SubSeq(t, p, q) = form
  BY DEF OccursAt
<1>2. Len(form) \in Nat /\ Len(t) \in Nat
  BY LenProperties
<1>3. p \in Int /\ q \in Int /\ q - p + 1 = Len(form) /\ \A i \in p .. q : i \in 1 .. Len(t)
  BY <1>1, <1>2
<1>4. \A i \in p .. q : t[i] \in V
  BY <1>3, ElementOfSeq
<1> HIDE DEF q
<1>5. \A i \in 1 .. q - p + 1 : SubSeq(t, p, q)[i] = t[p + i - 1]
  BY <1>3, <1>4, SubSeqProperties
<1>6. QED
  BY <1>1, <1>3, <1>5 DEF q

LEMMA OccursIf ==
  ASSUME NEW V, NEW form \in Seq(V), NEW t \in Seq(V), NEW p \in Nat \ {0},
         p + Len(form) - 1 <= Len(t), \A j \in 1 .. Len(form) : t[p + j - 1] = form[j]
  PROVE  OccursAt(form, t, p)
<1> DEFINE q == p + Len(form) - 1
           u == SubSeq(t, p, q)
<1>1. Len(form) \in Nat /\ Len(t) \in Nat
  BY LenProperties
<1>2. p \in Int /\ q \in Int /\ q - p + 1 = Len(form) /\ (IF p <= q THEN q - p + 1 ELSE 0) = Len(form)
      /\ \A i \in p .. q : i \in 1 .. Len(t)
  BY <1>1
<1>3. \A i \in p .. q : t[i] \in V
  BY <1>2, ElementOfSeq
<1> HIDE DEF q
<1>4. /\ u \in Seq(V) /\ Len(u) = IF p <= q THEN q - p + 1 ELSE 0
      /\ \A i \in 1 .. q - p + 1 : u[i] = t[p + i - 1]
  BY <1>2, <1>3, SubSeqProperties
<1> HIDE DEF u
<1>5. Len(u) = Len(form) /\ \A i \in 1 .. Len(form) : u[i] = form[i]
  BY <1>2, <1>4
<1>6. u = form
  BY <1>4, <1>5, SeqEqual
<1>7. QED
  BY <1>6 DEF OccursAt, u, q

(* No word of the text is in an occurrence of a fake. *)
LEMMA TextNotOccurs ==
  ASSUME VaultInv, Unlike, NEW g \in Range(assigned), NEW t \in Seq(Tokens),
         NEW p \in Nat \ {0}, OccursAt(g, t, p), NEW j \in 1 .. Len(g), NEW i \in DOMAIN Text
  PROVE  t[p + j - 1] # Text[i]
<1>1. g \in AllFakes
  BY DEF VaultInv, Range
<1>2. g \in Seq(Tokens) /\ DOMAIN g = 1 .. Len(g)
  BY <1>1, FakeType, LenProperties
<1>3. t[p + j - 1] = g[j]
  BY <1>2, OccursIs
<1>4. Text[i] # g[j]
  BY <1>2 DEF Unlike
<1>5. QED
  BY <1>3, <1>4

LEMMA OriginalType ==
  ASSUME LoopInv, VaultInv, NEW g \in Range(assigned)
  PROVE  /\ OriginalOf(g) \in Seq(Tokens)
         /\ \A e \in Candidates : answered[e] # NoFake /\ answered[e] = g => OriginalOf(g) = Words(e)
<1> DEFINE key == CHOOSE k \in DOMAIN assigned : assigned[k] = g
<1>1. key \in DOMAIN assigned /\ assigned[key] = g
  BY DEF Range
<1>2. OriginalOf(g) = key[2]
  BY DEF OriginalOf
<1> HIDE DEF key
<1>3. PICK c \in Candidates : key = KeyOf(c)
  BY <1>1 DEF VaultInv
<1>4. OriginalOf(g) = Words(c)
  BY <1>2, <1>3 DEF KeyOf
<1>5. Words(c) \in Seq(Tokens)
  <2>1. c.start \in Nat /\ c.end \in Nat /\ c.start <= c.end /\ c.end <= Len(Text)
    BY CandidatesAssumption, TextAssumption
  <2>2. QED
    BY <2>1, TextType, SubSeqIs DEF Words
<1>6. ASSUME NEW e \in Candidates, answered[e] # NoFake, answered[e] = g
      PROVE  OriginalOf(g) = Words(e)
  <2>1. KeyOf(e) \in DOMAIN assigned /\ assigned[KeyOf(e)] = g
    BY <1>6 DEF VaultInv
  <2>2. KeyOf(e) = key
    BY <1>1, <2>1 DEF VaultInv
  <2>3. QED
    BY <1>2, <2>2 DEF KeyOf
<1>7. QED
  BY <1>4, <1>5, <1>6

(* The places that are in no entity. *)
Borders == {m \in 0 .. Len(Text) : \A e \in entities : ~(e.start < m /\ m < e.end)}

LEMMA BorderOf ==
  ASSUME LoopInv, Apart, NEW e \in entities
  PROVE  e.start \in Borders /\ e.end \in Borders
<1>1. e.start \in Nat /\ e.end \in Nat /\ e.start < e.end /\ e.end <= Len(Text)
  BY EntityType
<1>2. ASSUME NEW f \in entities
      PROVE  ~(f.start < e.start /\ e.start < f.end) /\ ~(f.start < e.end /\ e.end < f.end)
  <2>1. f.start \in Nat /\ f.end \in Nat /\ (f # e => e.end <= f.start \/ f.end <= e.start)
    BY EntityType DEF Apart
  <2>2. QED
    BY <1>1, <2>1
<1>3. e.start \in 0 .. Len(Text) /\ e.end \in 0 .. Len(Text)
  BY <1>1, TextType
<1>4. QED
  BY <1>2, <1>3 DEF Borders

(* The word after a separate entity is in no entity. *)
LEMMA NextAlone ==
  ASSUME LoopInv, Separated, NEW e \in entities, e.end < Len(Text)
  PROVE  e.end + 1 \in DOMAIN Text /\ \A f \in entities : ~Covers(f, e.end + 1)
<1>1. e.start \in Nat /\ e.end \in Nat /\ e.start < e.end
  BY EntityType
<1>2. ASSUME NEW f \in entities, Covers(f, e.end + 1) PROVE FALSE
  <2>1. f.start \in Nat /\ f.end \in Nat /\ (f # e => e.end < f.start \/ f.end < e.start)
    BY EntityType DEF Separated
  <2>2. QED
    BY <1>1, <1>2, <2>1 DEF Covers
<1>3. QED
  BY <1>1, <1>2, TextType

LEMMA LengthOf ==
  ASSUME NEW f \in AllFakes, NEW g \in AllFakes
  PROVE  /\ Length[f] \in Nat /\ Length[g] \in Nat
         /\ f # g => \A i \in DOMAIN g : OccursAt(f, g, i) => Length[f] < Length[g]
<1>1. PICK t \in DOMAIN FakesOf : f \in FakesOf[t]
  BY DEF AllFakes
<1>2. PICK u \in DOMAIN FakesOf : g \in FakesOf[u]
  BY DEF AllFakes
<1>3. QED
  BY <1>1, <1>2, LengthAssumption

(* A fake occurs in the text only where it stands for an entity: it is not *)
(* a part of a longer fake, as those have been restored already, and does  *)
(* not go beyond one, as a word of the text follows.                       *)
LEMMA OthersNotOccur ==
  ASSUME LoopInv, VaultInv, Answered, Separated, Unlike,
         NEW L \in SUBSET Range(assigned), NEW g \in L, \A h \in L : Length[h] <= Length[g],
         NEW e \in entities, answered[e] \in L, answered[e] # g,
         NEW i \in At(PiecesLeft(L), e.start) + 1 .. At(PiecesLeft(L), e.end),
         OccursAt(g, FlattenSeq(PiecesLeft(L)), i)
  PROVE  FALSE
<1> DEFINE p == PiecesLeft(L)
           t == FlattenSeq(p)
           a == e.start
           b == e.end
           h == answered[e]
<1>1. /\ a \in Nat /\ b \in Nat /\ a <= b /\ b <= Len(Text) /\ Len(Text) \in Nat
      /\ p \in Seq(Seq(Tokens)) /\ Len(p) = Len(Text)
  BY EntityType, PiecesLeftType, TextType
<1>2. g \in AllFakes /\ h \in AllFakes
  BY DEF VaultInv, Range
<1>3. /\ g \in Seq(Tokens) /\ h \in Seq(Tokens) /\ Len(g) \in Nat \ {0} /\ Len(h) \in Nat \ {0}
      /\ DOMAIN h = 1 .. Len(h)
  BY <1>2, FakeType, LenProperties
<1>4. Part(p, a, b) = h
  BY SeparatedApart, LeftPart
<1> HIDE DEF p
<1>5. /\ At(p, a) \in Nat /\ At(p, b) = At(p, a) + Len(Part(p, a, b))
      /\ t \in Seq(Tokens) /\ At(p, b) <= Len(t)
      /\ \A j \in 1 .. Len(Part(p, a, b)) : t[At(p, a) + j] = Part(p, a, b)[j]
  <2>1. t \in Seq(Tokens) /\ IsPlaced(t, p, a, b)
    BY <1>1, PartPlace
  <2>2. QED
    BY <2>1 DEF IsPlaced
<1>6. /\ At(p, b) = At(p, a) + Len(h)
      /\ \A j \in 1 .. Len(h) : t[At(p, a) + j] = h[j]
  BY <1>4, <1>5
<1> HIDE DEF t, a, b, h
<1>7. i \in At(p, a) + 1 .. At(p, b) /\ OccursAt(g, t, i) /\ i \in Nat \ {0}
  <2>1. i \in At(p, a) + 1 .. At(p, b) /\ OccursAt(g, t, i)
    BY DEF p, t, a, b
  <2>2. QED
    BY <1>3, <1>5, <1>6, <2>1
<1> DEFINE c == At(p, a)
           k == i - c
<1>8. k \in 1 .. Len(h) /\ c + k = i /\ c \in Nat
  BY <1>3, <1>5, <1>6, <1>7
<1>9. i + Len(g) - 1 <= Len(t) /\ \A j \in 1 .. Len(g) : t[i + j - 1] = g[j]
  BY <1>3, <1>5, <1>7, OccursIs
<1> HIDE DEF k
<1>10. CASE k + Len(g) - 1 <= Len(h)
  <2>1. ASSUME NEW j \in 1 .. Len(g) PROVE h[k + j - 1] = g[j]
    <3>1. k + j - 1 \in 1 .. Len(h) /\ c + (k + j - 1) = i + j - 1
      BY <1>3, <1>8, <1>10
    <3>2. t[c + (k + j - 1)] = h[k + j - 1]
      BY <1>6, <3>1
    <3>3. QED
      BY <1>9, <3>1, <3>2
  <2>2. k \in Nat \ {0} /\ k \in DOMAIN h
    BY <1>3, <1>8
  <2>3. OccursAt(g, h, k)
    BY <1>3, <1>10, <2>1, <2>2, OccursIf
  <2>4. Length[g] < Length[h] /\ Length[g] \in Nat /\ Length[h] \in Nat
    BY <1>2, <2>2, <2>3, LengthOf DEF h
  <2>5. Length[h] <= Length[g]
    BY DEF h
  <2>6. QED
    BY <2>4, <2>5
<1>11. CASE ~(k + Len(g) - 1 <= Len(h))
  <2> DEFINE d == At(p, b)
             j == d + 2 - i
  <2>1. j \in 1 .. Len(g) /\ i + j - 1 = d + 1 /\ d + 1 <= Len(t) /\ d \in Nat
    <3>1. Len(t) \in Nat /\ d = c + Len(h)
      BY <1>5, <1>6, LenProperties
    <3> DEFINE lg == Len(g)
               lh == Len(h)
               lt == Len(t)
    <3>2. /\ lg \in Nat /\ lh \in Nat /\ lt \in Nat /\ c \in Nat /\ d = c + lh /\ d \in Nat
          /\ k \in 1 .. lh /\ c + k = i /\ i + lg - 1 <= lt /\ ~(k + lg - 1 <= lh)
      BY <1>3, <1>8, <1>9, <1>11, <3>1
    <3> HIDE DEF c, d, lg, lh, lt
    <3>3. d + 2 - i \in 1 .. lg /\ i + (d + 2 - i) - 1 = d + 1 /\ d + 1 <= lt
      BY <3>2
    <3>4. QED
      BY <3>2, <3>3 DEF lg, lt
  <2>2. b < Len(Text)
    <3>1. b = Len(Text) => d = Len(t)
      BY <1>1, PartWhole DEF At, t
    <3>2. QED
      BY <1>1, <1>5, <2>1, <3>1, LenProperties
  <2>3. b + 1 \in DOMAIN Text /\ p[b + 1] = <<Text[b + 1]>>
    <3>1. e.end < Len(Text)
      BY <2>2 DEF b
    <3>2. b + 1 \in DOMAIN Text /\ \A f \in entities : ~Covers(f, b + 1)
      BY <3>1, NextAlone DEF b
    <3>3. QED
      BY <3>2, LeftAlone DEF p
  <2>4. Part(p, b, b + 1) = <<Text[b + 1]>>
    <3> DEFINE b1 == b + 1
    <3>1. b < b1 /\ b1 \in Nat /\ b1 <= Len(p) /\ b + 1 = b1 /\ \A x \in b + 2 .. b1 : p[x] = << >>
      BY <1>1, <2>2
    <3> HIDE DEF b1
    <3>2. Part(p, b, b1) = p[b + 1]
      BY <1>1, <3>1, PartOfFirst
    <3>3. QED
      BY <2>3, <3>2 DEF b1
  <2>5. t[d + 1] = Text[b + 1]
    <3>1. b + 1 \in Nat /\ b <= b + 1 /\ b + 1 <= Len(p)
      BY <1>1, <2>2
    <3>2. \A x \in 1 .. Len(Part(p, b, b + 1)) : t[At(p, b) + x] = Part(p, b, b + 1)[x]
      BY <1>1, <3>1, PartPlace DEF t, IsPlaced
    <3>3. 1 \in 1 .. Len(Part(p, b, b + 1)) /\ Part(p, b, b + 1)[1] = Text[b + 1]
      BY <2>4
    <3>4. QED
      BY <3>2, <3>3
  <2>6. t[i + j - 1] # Text[b + 1]
    BY <1>5, <1>7, <2>1, <2>3, TextNotOccurs
  <2>7. QED
    BY <2>1, <2>5, <2>6
<1>12. QED
  BY <1>10, <1>11

(* Nor does it begin at a word of the text. *)
LEMMA WordsNotOccur ==
  ASSUME VaultInv, Unlike, NEW g \in Range(assigned), NEW p \in Seq(Seq(Tokens)),
         Len(p) = Len(Text), NEW a \in Nat, NEW b \in Nat, a <= b, b <= Len(Text),
         Part(p, a, b) = SubSeq(Text, a + 1, b),
         NEW i \in At(p, a) + 1 .. At(p, b), OccursAt(g, FlattenSeq(p), i)
  PROVE  FALSE
<1> DEFINE t == FlattenSeq(p)
           w == SubSeq(Text, a + 1, b)
           c == At(p, a)
           k == i - c
<1>1. /\ c \in Nat /\ At(p, b) = c + Len(w) /\ t \in Seq(Tokens)
      /\ \A j \in 1 .. Len(w) : t[c + j] = w[j]
  <2>1. t \in Seq(Tokens) /\ IsPlaced(t, p, a, b)
    BY PartPlace
  <2> HIDE DEF t, w
  <2>2. Part(p, a, b) = w
    BY DEF w
  <2>3. QED
    BY <2>1, <2>2 DEF IsPlaced
<1>2. Len(w) = b - a /\ \A j \in 1 .. b - a : w[j] = Text[a + j]
  <2>1. Text \in Seq(Tokens)
    BY TextType
  <2>2. QED
    BY <2>1, SubSeqIs
<1>3. k \in 1 .. b - a /\ c + k = i /\ i \in Nat \ {0}
  BY <1>1, <1>2
<1> HIDE DEF w, t, k
<1>4. t[i] = Text[a + k] /\ a + k \in DOMAIN Text
  <2>1. t[c + k] = w[k] /\ w[k] = Text[a + k]
    BY <1>1, <1>2, <1>3
  <2>2. a + k \in 1 .. Len(Text)
    BY <1>3, TextType
  <2>3. QED
    BY <1>3, <2>1, <2>2, TextType
<1>5. 1 \in 1 .. Len(g) /\ i + 1 - 1 = i
  <2>1. Len(g) \in Nat \ {0}
    BY FakeType DEF VaultInv, Range
  <2>2. QED
    BY <1>3, <2>1
<1>6. t[i + 1 - 1] # Text[a + k]
  BY <1>1, <1>3, <1>4, <1>5, TextNotOccurs DEF t
<1>7. QED
  BY <1>4, <1>5, <1>6

AreWords(p, w, a, b) == \A i \in a + 1 .. b : p[i] = <<w[i]>>

LEMMA WordsPart ==
  ASSUME NEW V, NEW p \in Seq(Seq(V)), NEW w \in Seq(V), NEW a \in Nat, NEW b \in Nat,
         a <= b, b <= Len(p), b <= Len(w), AreWords(p, w, a, b)
  PROVE  Part(p, a, b) = SubSeq(w, a + 1, b)
<1>1. \A i \in a + 1 .. b : p[i] = <<w[i]>>
  BY DEF AreWords
<1>2. QED
  BY <1>1, PartOfWords

(* One pass brings back the originals of one fake, and nothing else. *)
LEMMA PassRestores ==
  ASSUME LoopInv, VaultInv, Answered, Separated, Unlike,
         NEW L \in SUBSET Range(assigned), NEW g \in L, \A h \in L : Length[h] <= Length[g]
  PROVE  Replaced(g, OriginalOf(g), FlattenSeq(PiecesLeft(L))) = FlattenSeq(PiecesLeft(L \ {g}))
<1> DEFINE p == PiecesLeft(L)
           q == PiecesLeft(L \ {g})
           n == Len(Text)
           original == OriginalOf(g)
<1>1. /\ p \in Seq(Seq(Tokens)) /\ q \in Seq(Seq(Tokens)) /\ Len(p) = n /\ Len(q) = n /\ n \in Nat
  BY PiecesLeftType, TextType
<1>2. Apart
  BY SeparatedApart
<1>3. g \in AllFakes /\ g \in Range(assigned)
  BY DEF VaultInv, Range
<1>4. g \in Seq(Tokens) /\ g # << >> /\ original \in Seq(Tokens)
  BY <1>3, FakeType, OriginalType
<1>5. Borders \in SUBSET (0 .. n) /\ 0 \in Borders /\ n \in Borders
  <2>1. \A e \in entities : ~(e.start < 0 /\ 0 < e.end) /\ ~(e.start < n /\ n < e.end)
    BY <1>1, EntityType
  <2>2. 0 \in 0 .. n /\ n \in 0 .. n
    BY <1>1
  <2>3. QED
    BY <2>1, <2>2 DEF Borders
<1>6. ASSUME NEW m \in Borders \ {n}
      PROVE  \E k \in Borders :
               /\ m < k
               /\ \/ Part(p, m, k) = g /\ Part(q, m, k) = original
                  \/ /\ Part(q, m, k) = Part(p, m, k)
                     /\ \A i \in At(p, m) + 1 .. At(p, k) : ~OccursAt(g, FlattenSeq(p), i)
  <2>1. m \in Nat /\ m < n /\ m + 1 \in Nat /\ m + 1 \in DOMAIN Text
        /\ \A e \in entities : ~(e.start < m /\ m < e.end)
    BY <1>1, TextType DEF Borders
  <2>2. CASE \E e \in entities : Covers(e, m + 1)
    <3>1. PICK e \in entities : Covers(e, m + 1)
      BY <2>2
    <3> DEFINE k == e.end
               h == answered[e]
    <3>2. /\ e.start \in Nat /\ k \in Nat /\ e.start < k /\ k <= n /\ e.start = m /\ m < k
          /\ e \in Candidates
      BY <2>1, <3>1, EntityType DEF Covers
    <3>3. k \in Borders
      BY <1>2, BorderOf
    <3>4. Part(p, e.start, k) = IF h \in L THEN h ELSE SubSeq(Text, e.start + 1, k)
      BY <1>2, LeftPart
    <3>5. Part(q, e.start, k) = IF h \in L \ {g} THEN h ELSE SubSeq(Text, e.start + 1, k)
      BY <1>2, LeftPart
    <3>6. CASE h = g
      <4>1. original = Words(e)
        BY <1>3, <3>2, <3>6, OriginalType DEF Answered
      <4>2. Part(q, e.start, k) = original /\ Part(p, e.start, k) = g
        BY <3>4, <3>5, <3>6, <4>1 DEF Words
      <4>3. QED
        BY <3>2, <3>3, <4>2
    <3>7. CASE h # g /\ h \in L
      <4>1. \A i \in At(p, e.start) + 1 .. At(p, k) : ~OccursAt(g, FlattenSeq(p), i)
        BY <3>7, OthersNotOccur
      <4>2. Part(q, e.start, k) = Part(p, e.start, k)
        BY <3>4, <3>5, <3>7
      <4> HIDE DEF p, q, k
      <4>3. QED
        BY <3>2, <3>3, <4>1, <4>2
    <3>8. CASE h # g /\ h \notin L
      <4>1. Part(p, e.start, k) = SubSeq(Text, e.start + 1, k)
        BY <3>4, <3>8
      <4>2. Part(q, e.start, k) = Part(p, e.start, k)
        BY <3>4, <3>5, <3>8
      <4>3. e.start <= k
        BY <3>2
      <4> HIDE DEF p, q, k
      <4>4. \A i \in At(p, e.start) + 1 .. At(p, k) : ~OccursAt(g, FlattenSeq(p), i)
        BY <1>1, <1>3, <3>2, <4>1, <4>3, WordsNotOccur
      <4>5. QED
        BY <3>2, <3>3, <4>2, <4>4
    <3>9. QED
      BY <3>6, <3>7, <3>8
  <2>3. CASE ~ \E e \in entities : Covers(e, m + 1)
    <3> DEFINE k == m + 1
    <3>1. k \in Nat /\ m < k /\ m <= k /\ k <= n /\ k \in 0 .. n
      BY <1>1, <2>1
    <3>2. k \in Borders
      <4>1. ASSUME NEW e \in entities PROVE ~(e.start < k /\ k < e.end)
        BY <2>1, <2>3, EntityType DEF Covers
      <4>2. QED
        BY <3>1, <4>1 DEF Borders
    <3>3. p[k] = <<Text[k]>> /\ q[k] = <<Text[k]>>
      BY <2>1, <2>3, LeftAlone
    <3>4. \A i \in m + 1 .. k : i = k
      BY <2>1
    <3>5. Text \in Seq(Tokens)
      BY TextType
    <3> HIDE DEF p, q, k, n
    <3>12. AreWords(p, Text, m, k)
      BY <3>3, <3>4 DEF AreWords
    <3>13. AreWords(q, Text, m, k)
      BY <3>3, <3>4 DEF AreWords
    <3>14. p \in Seq(Seq(Tokens)) /\ q \in Seq(Seq(Tokens)) /\ m \in Nat
      BY <1>1, <2>1
    <3>6. k <= Len(p) /\ k <= Len(q) /\ k <= Len(Text)
      BY <1>1, <3>1 DEF n
    <3>7. Part(p, m, k) = SubSeq(Text, m + 1, k)
      <4>1. m <= k /\ k <= Len(p) /\ k <= Len(Text) /\ k \in Nat /\ m \in Nat
        BY <3>1, <3>6, <3>14
      <4>2. p \in Seq(Seq(Tokens)) /\ Text \in Seq(Tokens)
        BY <3>5, <3>14
      <4>3. QED
        BY <3>12, <4>1, <4>2, WordsPart
    <3>8. Part(q, m, k) = SubSeq(Text, m + 1, k)
      <4>1. m <= k /\ k <= Len(q) /\ k <= Len(Text) /\ k \in Nat /\ m \in Nat
        BY <3>1, <3>6, <3>14
      <4>2. q \in Seq(Seq(Tokens)) /\ Text \in Seq(Tokens)
        BY <3>5, <3>14
      <4>3. QED
        BY <3>13, <4>1, <4>2, WordsPart
    <3>9. Len(p) = Len(Text)
      BY <1>1 DEF n
    <3>10. \A i \in At(p, m) + 1 .. At(p, k) : ~OccursAt(g, FlattenSeq(p), i)
      BY <1>1, <1>3, <2>1, <3>1, <3>6, <3>7, <3>9, WordsNotOccur
    <3>11. QED
      BY <3>1, <3>2, <3>7, <3>8, <3>10
  <2>4. QED
    BY <2>2, <2>3
<1> HIDE DEF p, q, n, original
<1>7. Borders \in SUBSET (0 .. Len(p)) /\ Len(p) \in Borders /\ Len(p) = Len(q)
  BY <1>1, <1>5
<1>8. FormOrNone(p, q, g, original, Borders)
  BY <1>1, <1>5, <1>6, <1>7 DEF FormOrNone
<1>9. Replaced(g, original, FlattenSeq(p)) = FlattenSeq(q)
  <2>1. p \in Seq(Seq(Tokens)) /\ q \in Seq(Seq(Tokens))
    BY <1>1
  <2>2. QED
    BY <1>4, <1>8, <2>1, PiecesReplaced
<1>10. QED
  BY <1>9 DEF p, q, original

LEMMA FlattenWords ==
  ASSUME NEW V, NEW w \in Seq(V), NEW p \in Seq(Seq(V)), Len(p) = Len(w),
         \A i \in 1 .. Len(w) : p[i] = <<w[i]>>
  PROVE  FlattenSeq(p) = w
<1> DEFINE z == 0
           n == Len(w)
<1>1. z \in Nat /\ n \in Nat /\ z <= n /\ n <= Len(p) /\ n <= Len(w)
      /\ \A i \in z + 1 .. n : p[i] = <<w[i]>>
  BY LenProperties
<1>2. FlattenSeq(p) = Part(p, z, n) /\ SubSeq(w, z + 1, n) = w
  <2>1. z + 1 = 1
    OBVIOUS
  <2>2. Part(p, 0, Len(p)) = FlattenSeq(p)
    BY PartWhole
  <2>3. SubSeq(w, 1, Len(w)) = w
    BY SubSeqFull
  <2>4. QED
    BY <2>1, <2>2, <2>3
<1> HIDE DEF z, n
<1>3. Part(p, z, n) = SubSeq(w, z + 1, n)
  BY <1>1, PartOfWords
<1>4. QED
  BY <1>2, <1>3

(* With no fake left in it, the text is the original one. *)
LEMMA NoneLeft ==
  ASSUME LoopInv, VaultInv, Answered
  PROVE  FlattenSeq(PiecesLeft({})) = Text
<1> DEFINE p == PiecesLeft({})
<1>1. p \in Seq(Seq(Tokens)) /\ Len(p) = Len(Text) /\ Text \in Seq(Tokens)
  BY PiecesLeftType, TextType
<1>2. \A i \in 1 .. Len(Text) : p[i] = <<Text[i]>>
  BY TextType DEF PiecesLeft
<1> HIDE DEF p
<1>3. FlattenSeq(p) = Text
  BY <1>1, <1>2, FlattenWords
<1>4. QED
  BY <1>3 DEF p

(* With all of them, it is the one that has been sent. *)
LEMMA AllLeft ==
  ASSUME VaultInv, Answered, LoopInv
  PROVE  FlattenSeq(PiecesLeft(Range(assigned))) = Substituted
<1>1. \A e \in entities : answered[e] \in Range(assigned)
  BY EntityType DEF VaultInv, Answered, Range
<1>2. ASSUME NEW i \in DOMAIN Text PROVE PiecesLeft(Range(assigned))[i] = Pieces[i]
  <2>1. CASE \E e \in entities : Covers(e, i)
    BY <1>1, <2>1 DEF PiecesLeft
  <2>2. CASE \A e \in entities : ~Covers(e, i)
    BY <2>2, PieceAlone, LeftAlone
  <2>3. QED
    BY <2>1, <2>2
<1>3. PiecesLeft(Range(assigned)) = [i \in DOMAIN Text |-> PiecesLeft(Range(assigned))[i]]
      /\ Pieces = [i \in DOMAIN Text |-> Pieces[i]]
  BY DEF PiecesLeft, Pieces
<1>4. PiecesLeft(Range(assigned)) = Pieces
  BY <1>2, <1>3
<1>5. QED
  BY <1>4 DEF Pieces, Substituted

(* A word of the text has no near word of a fake, and stays. *)
LEMMA TextBest ==
  ASSUME Unlike, NEW i \in DOMAIN Text
  PROVE  BestReplacement(Text[i]) = <<Text[i]>>
<1> DEFINE word == Text[i]
           near == {r \in Restorations : <<word, r[1]>> \in DOMAIN Distance}
           best == {r \in near : \A s \in near : Distance[<<word, r[1]>>] <= Distance[<<word, s[1]>>]}
           originals == {r[2] : r \in best}
<1>1. ASSUME NEW r \in Restorations PROVE <<word, r[1]>> \notin DOMAIN Distance
  <2>1. PICK k \in Names : \E n \in DOMAIN assigned[k] : r[1] = assigned[k][n]
    BY DEF Restorations
  <2>2. assigned[k] \in Range(assigned)
    BY DEF Names, Range
  <2>3. QED
    BY <2>1, <2>2 DEF Unlike
<1>2. originals = {}
  BY <1>1
<1>3. Cardinality({}) = 0
  BY FS_EmptySet
<1> HIDE DEF originals
<1>4. Cardinality(originals) # 1
  BY <1>2, <1>3
<1> USE DEF originals
<1>5. BestReplacement(word) = IF Cardinality(originals) = 1 THEN CHOOSE o \in originals : TRUE ELSE <<word>>
  BY DEF BestReplacement
<1>6. QED
  BY <1>4, <1>5

(* The fuzzy pass leaves the words of the text as they are. *)
LEMMA FuzzyLeaves ==
  ASSUME Unlike, text = Text
  PROVE  FlattenSeq([i \in DOMAIN text |-> BestReplacement(text[i])]) = Text
<1> DEFINE p == [i \in DOMAIN Text |-> BestReplacement(Text[i])]
<1>1. \A i \in DOMAIN Text : BestReplacement(Text[i]) = <<Text[i]>>
  BY TextBest
<1>2. p \in Seq(Seq(Tokens)) /\ Len(p) = Len(Text)
  <2>4. \A i \in DOMAIN Text : <<Text[i]>> \in Seq(Tokens)
    BY TextType
  <2>5. \A i \in DOMAIN Text : BestReplacement(Text[i]) \in Seq(Tokens)
    BY <1>1, <2>4
  <2>1. p \in [1 .. Len(Text) -> Seq(Tokens)] /\ Len(Text) \in Nat
    BY <2>5, TextType
  <2> HIDE DEF p
  <2>2. p \in Seq(Seq(Tokens))
    BY <2>1
  <2>3. QED
    BY <2>1, <2>2, LenProperties
<1>3. \A i \in 1 .. Len(Text) : p[i] = <<Text[i]>>
  BY <1>1, TextType
<1> HIDE DEF p
<1>4. FlattenSeq(p) = Text
  BY <1>2, <1>3, TextType, FlattenWords
<1>5. QED
  BY <1>4 DEF p

RestoreInv ==
  /\ stage = "restore" => left \subseteq Range(assigned)
  /\ stage = "restore" /\ reply = sent /\ Separated /\ Unlike => text = FlattenSeq(PiecesLeft(left))
  /\ stage \in {"exact", "done"} /\ reply = sent /\ Separated /\ Unlike => text = Text

LEMMA AfterSent ==
  ASSUME RouteInv, ~Processing
  PROVE  LoopInv /\ VaultInv /\ Answered /\ spliced = entities
BY DEF RouteInv, SplicedInv, Processing

LEMMA RestoreStep == RouteInv /\ PayloadInv /\ RestoreInv /\ [Next]_vars => RestoreInv'
<1> SUFFICES ASSUME RouteInv, PayloadInv, RestoreInv, [Next]_vars PROVE RestoreInv'
  OBVIOUS
<1>1. CASE Detect
  BY <1>1 DEF Detect, DetectNext, Consider, ApplyThresholds, RestoreInv
<1>2. ASSUME NEW e \in raw, Substitute(e) \/ Splice(e) PROVE RestoreInv'
  BY <1>2 DEF Substitute, Splice, detectVars, RestoreInv
<1>3. CASE Send
  BY <1>3 DEF Send, RestoreInv
<1>4. CASE Answer
  <2>1. /\ stage = "sent" /\ text' = reply' /\ left' = Range(assigned)
        /\ stage' = IF assigned = << >> THEN "done" ELSE "restore"
        /\ UNCHANGED <<entities, assigned, answered, sent>>
    BY <1>4 DEF Answer, vault
  <2>2. ~Processing
    BY <2>1 DEF Processing
  <2>3. LoopInv /\ VaultInv /\ Answered
    BY <2>2, AfterSent
  <2>4. Separated' => Separated
    BY <2>1 DEF Separated
  <2>5. ASSUME reply' = sent', Separated PROVE text' = FlattenSeq(PiecesLeft(Range(assigned)))
    BY <2>1, <2>2, <2>3, <2>5, AllLeft, SeparatedApart DEF PayloadInv
  <2>6. CASE assigned = << >>
    <3>1. Range(assigned) = {}
      BY <2>6 DEF Range
    <3>2. reply' = sent' /\ Separated => text' = Text
      BY <2>3, <2>5, <3>1, NoneLeft
    <3>3. QED
      BY <2>1, <2>4, <2>6, <3>2 DEF RestoreInv
  <2>7. CASE assigned # << >>
    <3>1. FlattenSeq(PiecesLeft(left))' = FlattenSeq(PiecesLeft(Range(assigned)))
      BY <2>1 DEF PiecesLeft, Pieces
    <3>2. QED
      BY <2>1, <2>4, <2>5, <2>7, <3>1 DEF RestoreInv
  <2>8. QED
    BY <2>6, <2>7
<1>5. ASSUME NEW fake \in left, Restore(fake) PROVE RestoreInv'
  <2>1. /\ stage = "restore" /\ stage' = stage /\ \A other \in left : Length[other] <= Length[fake]
        /\ text' = Replaced(fake, OriginalOf(fake), text)
        /\ left' = left \ {fake}
        /\ UNCHANGED <<entities, assigned, answered, sent, reply>>
    BY <1>5 DEF Restore, vault, detectVars
  <2>2. LoopInv /\ VaultInv /\ Answered
    BY <2>1, AfterSent DEF Processing
  <2>3. left \in SUBSET Range(assigned)
    BY <2>1 DEF RestoreInv
  <2>4. (Separated' => Separated) /\ (Unlike' => Unlike)
    BY <2>1 DEF Separated, Unlike
  <2>5. ASSUME reply = sent, Separated, Unlike PROVE text' = FlattenSeq(PiecesLeft(left \ {fake}))
    <3>1. text = FlattenSeq(PiecesLeft(left))
      BY <2>1, <2>5 DEF RestoreInv
    <3>2. QED
      BY <2>1, <2>2, <2>3, <2>5, <3>1, PassRestores
  <2>6. FlattenSeq(PiecesLeft(left))' = FlattenSeq(PiecesLeft(left \ {fake}))
    BY <2>1 DEF PiecesLeft, Pieces
  <2>7. QED
    BY <2>1, <2>3, <2>4, <2>5, <2>6 DEF RestoreInv
<1>6. CASE EndExact \/ RestoreFuzzy
  <2>1. /\ stage = "restore" /\ left = {} /\ stage' \in {"exact", "done"}
        /\ UNCHANGED <<entities, assigned, answered, sent, reply>>
    BY <1>6 DEF EndExact, RestoreFuzzy, vault
  <2>2. LoopInv /\ VaultInv /\ Answered
    BY <2>1, AfterSent DEF Processing
  <2>3. (Separated' => Separated) /\ (Unlike' => Unlike)
    BY <2>1 DEF Separated, Unlike
  <2>4. reply = sent /\ Separated /\ Unlike => text = Text
    BY <2>1, <2>2, NoneLeft DEF RestoreInv
  <2>5. Unlike /\ text = Text => text' = Text
    BY <1>6, FuzzyLeaves DEF EndExact, RestoreFuzzy
  <2>6. QED
    BY <2>1, <2>3, <2>4, <2>5 DEF RestoreInv
<1>7. CASE UNCHANGED vars
  <2>1. UNCHANGED <<stage, entities, assigned, answered, sent, reply, text, left>>
    BY <1>7 DEF vars
  <2>2. FlattenSeq(PiecesLeft(left))' = FlattenSeq(PiecesLeft(left))
    BY <2>1 DEF PiecesLeft, Pieces
  <2>3. QED
    BY <2>1, <2>2 DEF RestoreInv, Separated, Unlike
<1>8. QED
  BY <1>1, <1>2, <1>3, <1>4, <1>5, <1>6, <1>7 DEF Next, Done

LEMMA RestoreInvariant == Spec => []RestoreInv
<1>1. Init => RestoreInv
  BY DEF Init, DetectInit, RestoreInv
<1>2. QED
  BY <1>1, RestoreStep, RouteInvariant, PayloadInvariant, PTL DEF Spec

(* A provider's answer that repeats the text is restored word for word,    *)
(* for any fakes that are unlike the text, even where one is a part of     *)
(* another: the longest fake that is left is in no other one, and an       *)
(* occurrence that goes beyond an entity would take a word of the text.    *)
THEOREM RestoredExactly == Spec => []RestoresExactly
<1>1. RestoreInv => RestoresExactly
  BY DEF RestoreInv, RestoresExactly
<1>2. QED
  BY <1>1, RestoreInvariant, PTL

-----------------------------------------------------------------------------
(* An answer that puts words of the fakes into other forms. *)

Forms == Tokens \cup Range(Inflected)

IsFormOf(v, w) == v = w \/ (w \in DOMAIN Inflected /\ v = Inflected[w])

FormedFrom(s, t) ==
  /\ s \in Seq(Forms) /\ Len(s) = Len(t)
  /\ \A i \in 1 .. Len(t) : IsFormOf(s[i], t[i])

(* An answer in pieces, as the text that it is the answer to. *)
IsReply(r) ==
  /\ r \in Seq(Seq(Forms)) /\ Len(r) = Len(Text)
  /\ \A i \in 1 .. Len(Text) : FormedFrom(r[i], Pieces[i])

(* One piece alone. *)
LEMMA PartOne ==
  ASSUME NEW V, NEW p \in Seq(Seq(V)), NEW a \in Nat, a + 1 <= Len(p)
  PROVE  Part(p, a, a + 1) = p[a + 1]
<1> DEFINE b == a + 1
<1>1. a < b /\ b \in Nat /\ b <= Len(p) /\ \A i \in a + 2 .. b : FALSE
  OBVIOUS
<1>2. \A i \in a + 2 .. b : p[i] = << >>
  BY <1>1
<1> HIDE DEF b
<1>3. Part(p, a, b) = p[a + 1]
  BY <1>1, <1>2, PartOfFirst
<1>4. QED
  BY <1>3 DEF b

(* A text cut where the pieces of another one end. *)
Cut(s, p) == [i \in 1 .. Len(p) |-> SubSeq(s, At(p, i - 1) + 1, At(p, i))]

IsCutPiece(u, W, s, p, i) ==
  /\ At(p, i - 1) \in Nat /\ At(p, i) = At(p, i - 1) + Len(p[i]) /\ At(p, i) <= Len(s)
  /\ u \in Seq(W) /\ IsCut(u, s, At(p, i - 1), At(p, i))
  /\ \A j \in 1 .. Len(p[i]) : FlattenSeq(p)[At(p, i - 1) + j] = p[i][j]

LEMMA CutPiece ==
  ASSUME NEW V, NEW W, NEW p \in Seq(Seq(V)), NEW s \in Seq(W), Len(s) = Len(FlattenSeq(p)),
         NEW i \in 1 .. Len(p)
  PROVE  IsCutPiece(Cut(s, p)[i], W, s, p, i)
<1> DEFINE a == i - 1
<1>1. a \in Nat /\ a + 1 = i /\ i \in Nat /\ a <= i /\ i <= Len(p) /\ a + 1 <= Len(p)
  BY LenProperties
<1>2. p[i] \in Seq(V)
  BY ElementOfSeq
<1>3. Cut(s, p)[i] = SubSeq(s, At(p, a) + 1, At(p, i))
  BY DEF Cut
<1> HIDE DEF a
<1>4. Part(p, a, i) = p[i]
  BY <1>1, PartOne
<1>5. IsPlaced(FlattenSeq(p), p, a, i)
  BY <1>1, PartPlace
<1>6. /\ At(p, a) \in Nat /\ At(p, i) = At(p, a) + Len(p[i]) /\ At(p, i) <= Len(s)
      /\ \A j \in 1 .. Len(p[i]) : FlattenSeq(p)[At(p, a) + j] = p[i][j]
  BY <1>4, <1>5 DEF IsPlaced
<1>7. Len(p[i]) \in Nat
  BY <1>2, LenProperties
<1> DEFINE c == At(p, a)
           d == At(p, i)
<1>8. c \in Nat /\ d \in Nat /\ c <= d /\ d <= Len(s)
  BY <1>6, <1>7
<1> HIDE DEF c, d
<1>9. SubSeq(s, c + 1, d) \in Seq(W) /\ IsCut(SubSeq(s, c + 1, d), s, c, d)
  BY <1>8, SubSeqCut
<1>10. QED
  BY <1>3, <1>6, <1>9 DEF a, c, d, IsCutPiece

LEMMA CutType ==
  ASSUME NEW V, NEW W, NEW p \in Seq(Seq(V)), NEW s \in Seq(W), Len(s) = Len(FlattenSeq(p))
  PROVE  Cut(s, p) \in Seq(Seq(W)) /\ Len(Cut(s, p)) = Len(p)
<1>1. \A i \in 1 .. Len(p) : Cut(s, p)[i] \in Seq(W)
  BY CutPiece DEF IsCutPiece
<1>2. Cut(s, p) \in [1 .. Len(p) -> Seq(W)] /\ Len(p) \in Nat
  BY <1>1, LenProperties DEF Cut
<1> DEFINE r == Cut(s, p)
           n == Len(p)
<1> HIDE DEF r, n
<1>3. r \in [1 .. n -> Seq(W)] /\ n \in Nat
  BY <1>2 DEF r, n
<1>4. r \in Seq(Seq(W))
  BY <1>3
<1>5. Len(r) = n
  BY <1>3, <1>4, LenProperties
<1>6. QED
  BY <1>4, <1>5 DEF r, n

(* The pieces of a cut text come to the text. *)
LEMMA CutFlattens ==
  ASSUME NEW V, NEW W, NEW p \in Seq(Seq(V)), NEW s \in Seq(W), Len(s) = Len(FlattenSeq(p))
  PROVE  FlattenSeq(Cut(s, p)) = s
<1> DEFINE r == Cut(s, p)
           n == Len(p)
           o == 0
           Good(m) == Part(r, o, m) = SubSeq(s, 1, At(p, m))
           Bad == {m \in 0 .. n : ~Good(m)}
<1>1. r \in Seq(Seq(W)) /\ Len(r) = n /\ n \in Nat
  BY CutType, LenProperties
<1>2. At(p, 0) = 0
  BY PartNone, EmptySeq DEF At
<1>3. Bad = {}
  <2> SUFFICES ASSUME Bad # {} PROVE FALSE
    OBVIOUS
  <2>1. PICK m \in Bad : \A j \in Bad : m <= j
    <3>1. Bad \in SUBSET Nat
      BY <1>1
    <3> HIDE DEF Bad
    <3>2. QED
      BY <3>1, LeastNumber
  <2>2. m \in 0 .. n /\ ~Good(m)
    OBVIOUS
  <2>3. m # 0
    <3>1. Part(r, 0, 0) = << >>
      BY PartNone
    <3>2. SubSeq(s, 1, 0) = << >>
      BY SubSeqEmpty
    <3>3. QED
      BY <1>2, <2>2, <3>1, <3>2
  <2> DEFINE l == m - 1
  <2>4. l \in 0 .. n /\ l \in Nat /\ l + 1 = m /\ m \in 1 .. n /\ l + 1 <= Len(r)
    BY <1>1, <2>2, <2>3
  <2>5. l \notin Bad
    <3>1. \A j \in Bad : m <= j
      BY <2>1
    <3> HIDE DEF Bad, l
    <3>2. QED
      BY <2>4, <3>1
  <2>6. Good(l)
    BY <2>4, <2>5
  <2>7. /\ At(p, l) \in Nat /\ At(p, m) = At(p, l) + Len(p[m]) /\ At(p, m) <= Len(s)
        /\ r[m] = SubSeq(s, At(p, l) + 1, At(p, m))
    <3>1. m \in 1 .. Len(p)
      BY <2>4
    <3>4. IsCutPiece(Cut(s, p)[m], W, s, p, m)
      BY <3>1, CutPiece
    <3>2. At(p, m - 1) \in Nat /\ At(p, m) = At(p, m - 1) + Len(p[m]) /\ At(p, m) <= Len(s)
      BY <3>4 DEF IsCutPiece
    <3>3. QED
      BY <3>1, <3>2 DEF Cut
  <2>8. Len(p[m]) \in Nat /\ Len(s) \in Nat
    BY <2>4, ElementOfSeq, LenProperties
  <2> HIDE DEF Bad, l, r, n, o
  <2>9. Part(r, o, l + 1) = Joined(Part(r, o, l), r[l + 1])
    <3>1. o \in Nat /\ o <= l
      BY <2>4 DEF o
    <3>2. QED
      BY <1>1, <2>4, <3>1, PartLast
  <2> DEFINE c == At(p, l)
             d == At(p, m)
             one == 1
  <2>10. one \in 1 .. Len(s) + 1 /\ c \in one - 1 .. Len(s) /\ d \in c .. Len(s)
    BY <2>7, <2>8
  <2> HIDE DEF c, d, one
  <2>11. SubSeq(s, one, c) \o SubSeq(s, c + 1, d) = SubSeq(s, one, d)
    BY <2>10, ConcatAdjacentSubSeq
  <2>12. Joined(SubSeq(s, 1, c), SubSeq(s, c + 1, d)) = SubSeq(s, 1, d)
    BY <2>11 DEF Joined, one
  <2>13. QED
    BY <2>2, <2>4, <2>6, <2>7, <2>9, <2>12 DEF c, d
<1>4. n \in 0 .. n /\ n \notin Bad
  BY <1>1, <1>3
<1>5. Part(r, 0, n) = SubSeq(s, 1, At(p, n))
  BY <1>4
<1>6. At(p, n) = Len(s)
  BY PartWhole DEF At
<1>7. SubSeq(s, 1, Len(s)) = s
  BY SubSeqFull
<1>8. Part(r, 0, Len(r)) = FlattenSeq(r)
  BY <1>1, PartWhole
<1>9. QED
  BY <1>1, <1>5, <1>6, <1>7, <1>8

LEMMA UsableFake ==
  ASSUME VaultInv, Unlike, NEW g \in Range(assigned)
  PROVE  g \in AllFakes /\ g \in UsableFakes
<1>1. g \in AllFakes
  BY DEF VaultInv, Range
<1>2. UnlikeText(g)
  BY DEF Unlike, UnlikeText
<1>3. QED
  BY <1>1, <1>2 DEF UsableFakes

LEMMA FakeForms ==
  ASSUME NEW g \in AllFakes
  PROVE  /\ g \in Seq(Forms) /\ g # << >> /\ Len(g) \in Nat \ {0} /\ DOMAIN g = 1 .. Len(g)
         /\ \A j \in 1 .. Len(g) : g[j] \in Range(g)
<1>1. g \in Seq(Tokens) /\ Tokens \subseteq Forms
  BY FakeType DEF Forms
<1>2. g \in Seq(Forms)
  BY <1>1, SeqMonotonic
<1>3. QED
  BY <1>1, <1>2, FakeType, LenProperties

LEMMA TextForms ==
  Text \in Seq(Forms) /\ \A i \in 1 .. Len(Text) : <<Text[i]>> \in Seq(Forms)
<1>1. Text \in Seq(Tokens) /\ Tokens \subseteq Forms
  BY TextType DEF Forms
<1>2. Text \in Seq(Forms)
  BY <1>1, SeqMonotonic
<1>3. \A i \in 1 .. Len(Text) : Text[i] \in Forms
  BY <1>1, TextType
<1>4. QED
  BY <1>2, <1>3

(* An entity has been restored by the passes of all fakes but those of L.  *)
Restored(r, L, e) == answered[e] \notin L /\ r[e.start + 1] = answered[e]

(* The answer with the fakes of L, and what is no fake, still in it. *)
FormsLeft(r, L) ==
  [i \in DOMAIN Text |->
     IF \E e \in entities : Covers(e, i) /\ ~Restored(r, L, e) THEN r[i] ELSE <<Text[i]>>]

LEMMA FormsLeftType ==
  ASSUME NEW r, IsReply(r), NEW L
  PROVE  /\ FormsLeft(r, L) \in Seq(Seq(Forms)) /\ Len(FormsLeft(r, L)) = Len(Text)
<1>1. \A i \in 1 .. Len(Text) : r[i] \in Seq(Forms) /\ <<Text[i]>> \in Seq(Forms)
  BY TextForms DEF IsReply, FormedFrom
<1> DEFINE p == FormsLeft(r, L)
           n == Len(Text)
<1>2. p \in [1 .. n -> Seq(Forms)] /\ n \in Nat
  BY <1>1, TextType DEF FormsLeft
<1> HIDE DEF p, n
<1>3. p \in Seq(Seq(Forms))
  BY <1>2
<1>4. Len(p) = n
  BY <1>2, <1>3, LenProperties
<1>5. QED
  BY <1>3, <1>4 DEF p, n

LEMMA FormsAlone ==
  ASSUME NEW r, NEW L, NEW i \in DOMAIN Text, \A e \in entities : ~Covers(e, i)
  PROVE  FormsLeft(r, L)[i] = <<Text[i]>>
BY DEF FormsLeft

(* What the answer has for an entity: the words of its fake, some of them  *)
(* in another form.                                                        *)
LEMMA ReplyPiece ==
  ASSUME LoopInv, VaultInv, Answered, Apart, NEW r, IsReply(r), NEW e \in entities
  PROVE  /\ FormedFrom(r[e.start + 1], answered[e])
         /\ \A i \in e.start + 2 .. e.end : r[i] = << >>
<1>1. e.start \in Nat /\ e.end \in Nat /\ e.start < e.end /\ e.end <= Len(Text)
  BY EntityType
<1>2. /\ e.start + 1 \in e.start + 1 .. e.end
      /\ \A i \in e.start + 2 .. e.end : i \in e.start + 1 .. e.end /\ i # e.start + 1
      /\ \A i \in e.start + 1 .. e.end : i \in 1 .. Len(Text)
  BY <1>1, TextType
<1>3. \A i \in e.start + 1 .. e.end :
        Pieces[i] = (IF i = e.start + 1 THEN answered[e] ELSE << >>) /\ FormedFrom(r[i], Pieces[i])
  BY <1>2, PieceOf DEF IsReply
<1>4. FormedFrom(r[e.start + 1], answered[e])
  BY <1>2, <1>3
<1>5. ASSUME NEW i \in e.start + 2 .. e.end PROVE r[i] = << >>
  <2>1. FormedFrom(r[i], << >>)
    BY <1>2, <1>3
  <2>2. r[i] \in Seq(Forms) /\ Len(r[i]) = 0
    BY <2>1, EmptySeq DEF FormedFrom
  <2>3. QED
    BY <2>2, EmptySeq
<1>6. QED
  BY <1>4, <1>5

LEMMA FormsPart ==
  ASSUME LoopInv, VaultInv, Answered, Apart, NEW r, IsReply(r), NEW L, NEW e \in entities
  PROVE  Part(FormsLeft(r, L), e.start, e.end)
           = IF Restored(r, L, e) THEN SubSeq(Text, e.start + 1, e.end) ELSE r[e.start + 1]
<1> DEFINE a == e.start
           b == e.end
           p == FormsLeft(r, L)
<1>1. a \in Nat /\ b \in Nat /\ a < b /\ b <= Len(Text)
  BY EntityType
<1>2. p \in Seq(Seq(Forms)) /\ Len(p) = Len(Text)
  BY FormsLeftType
<1>3. \A i \in a + 1 .. b : i \in DOMAIN Text /\ i \in Nat /\ Covers(e, i)
  BY <1>1, TextType DEF Covers
<1>4. \A i \in a + 1 .. b, f \in entities : Covers(f, i) => f = e
  BY <1>3, CoverIsOne
<1>5. CASE ~Restored(r, L, e)
  <2>1. \A i \in a + 1 .. b : p[i] = r[i]
    BY <1>3, <1>5 DEF FormsLeft
  <2>2. \A i \in a + 2 .. b : r[i] = << >>
    BY ReplyPiece
  <2>3. a + 1 \in a + 1 .. b /\ \A i \in a + 2 .. b : i \in a + 1 .. b
    BY <1>1
  <2> HIDE DEF a, b, p
  <2>4. p[a + 1] = r[a + 1] /\ \A i \in a + 2 .. b : p[i] = << >>
    BY <2>1, <2>2, <2>3
  <2>5. Part(p, a, b) = p[a + 1]
    BY <1>1, <1>2, <2>4, PartOfFirst
  <2>6. QED
    BY <1>5, <2>4, <2>5 DEF a, b, p
<1>6. CASE Restored(r, L, e)
  <2>1. \A i \in a + 1 .. b : p[i] = <<Text[i]>>
    BY <1>3, <1>4, <1>6 DEF FormsLeft
  <2>2. a <= b /\ b <= Len(p) /\ Text \in Seq(Forms)
    BY <1>1, <1>2, TextType, TextForms
  <2> HIDE DEF a, b, p
  <2>3. Part(p, a, b) = SubSeq(Text, a + 1, b)
    BY <1>1, <1>2, <2>1, <2>2, PartOfWords
  <2>4. QED
    BY <1>6, <2>3 DEF a, b, p
<1>7. QED
  BY <1>5, <1>6

(* Where a fake may begin in a piece of the text, if not as all of it. *)
CannotBegin(g, y) ==
  \A j \in 1 .. Len(y) : y[j] = g[1] => j = 1 /\ Len(y) = Len(g) /\ y # g

LEMMA NoneBegins ==
  ASSUME NEW V, NEW p \in Seq(Seq(V)), NEW a \in Nat, NEW b \in Nat, a <= b, b <= Len(p),
         NEW g \in Seq(V), g # << >>, CannotBegin(g, Part(p, a, b))
  PROVE  \A i \in At(p, a) + 1 .. At(p, b) : ~OccursAt(g, FlattenSeq(p), i)
<1> DEFINE t == FlattenSeq(p)
           y == Part(p, a, b)
           c == At(p, a)
           d == At(p, b)
<1>1. t \in Seq(V) /\ y \in Seq(V) /\ Len(y) \in Nat /\ Len(g) \in Nat \ {0}
  BY PartType, FlattenType, LenProperties, EmptySeq
<1>2. IsPlaced(t, p, a, b)
  BY PartPlace
<1>3. c \in Nat /\ d = c + Len(y) /\ d <= Len(t) /\ \A i \in 1 .. Len(y) : t[c + i] = y[i]
  BY <1>2 DEF IsPlaced
<1>4. SubSeq(t, c + 1, d) = y
  BY PartIs
<1>5. \A j \in 1 .. Len(y) : y[j] = g[1] => j = 1 /\ Len(y) = Len(g) /\ y # g
  BY DEF CannotBegin
<1> SUFFICES ASSUME NEW i \in c + 1 .. d, OccursAt(g, t, i) PROVE FALSE
  OBVIOUS
<1> HIDE DEF t, y, c, d
<1> DEFINE k == i - c
<1>6. k \in 1 .. Len(y) /\ c + k = i /\ i \in Nat \ {0} /\ 1 \in 1 .. Len(g) /\ i + 1 - 1 = i
  BY <1>1, <1>3
<1> HIDE DEF k
<1>7. \A j \in 1 .. Len(g) : t[i + j - 1] = g[j]
  BY <1>1, <1>6, OccursIs
<1>8. t[i] = g[1] /\ t[i] = y[k]
  <2>1. t[i + 1 - 1] = g[1]
    BY <1>6, <1>7
  <2>2. QED
    BY <1>3, <1>6, <2>1
<1>9. k = 1 /\ Len(y) = Len(g) /\ y # g
  BY <1>5, <1>6, <1>8
<1>10. i = c + 1 /\ i + Len(g) - 1 = d
  <2> DEFINE l == Len(g)
  <2>1. c \in Nat /\ l \in Nat /\ d = c + l /\ c + k = i /\ k = 1
    BY <1>1, <1>3, <1>6, <1>9
  <2> HIDE DEF l
  <2>2. i = c + 1 /\ i + l - 1 = d
    BY <2>1
  <2>3. QED
    BY <2>2 DEF l
<1>11. SubSeq(t, i, i + Len(g) - 1) = g
  BY DEF OccursAt
<1>12. QED
  BY <1>4, <1>9, <1>10, <1>11

LEMMA WordsCannotBegin ==
  ASSUME VaultInv, Unlike, NEW g \in Range(assigned),
         NEW a \in Nat, NEW b \in Nat, a <= b, b <= Len(Text)
  PROVE  CannotBegin(g, SubSeq(Text, a + 1, b))
<1> DEFINE y == SubSeq(Text, a + 1, b)
<1>1. Len(y) = b - a /\ \A i \in 1 .. b - a : y[i] = Text[a + i]
  BY TextType, SubSeqIs
<1>2. 1 \in DOMAIN g
  <2>1. g \in AllFakes
    BY UsableFake
  <2>2. QED
    BY <2>1, FakeForms
<1> HIDE DEF y
<1>3. ASSUME NEW j \in 1 .. Len(y) PROVE y[j] # g[1]
  <2>1. y[j] = Text[a + j] /\ a + j \in DOMAIN Text
    BY <1>1, TextType
  <2>2. QED
    BY <1>2, <2>1 DEF Unlike
<1>4. CannotBegin(g, y)
  BY <1>3 DEF CannotBegin
<1>5. QED
  BY <1>4 DEF y

LEMMA OthersCannotBegin ==
  ASSUME FormsNear, VaultInv, Unlike, ShareNoWord, NEW g \in Range(assigned),
         NEW h \in Range(assigned), h # g, NEW y, FormedFrom(y, h)
  PROVE  CannotBegin(g, y)
<1>1. g \in UsableFakes /\ g \in AllFakes /\ h \in AllFakes
  BY UsableFake
<1>2. g[1] \in Range(g) /\ \A j \in 1 .. Len(h) : h[j] \in Range(h)
  <2>1. Len(g) \in Nat \ {0} /\ \A j \in 1 .. Len(g) : g[j] \in Range(g)
    BY <1>1, FakeForms
  <2>2. 1 \in 1 .. Len(g)
    BY <2>1
  <2>3. QED
    BY <1>1, <2>1, <2>2, FakeForms
<1>3. ASSUME NEW j \in 1 .. Len(y) PROVE y[j] # g[1]
  <2>1. j \in 1 .. Len(h) /\ IsFormOf(y[j], h[j])
    BY DEF FormedFrom
  <2>2. h[j] # g[1]
    BY <1>2, <2>1 DEF ShareNoWord
  <2>3. h[j] \in DOMAIN Inflected => Inflected[h[j]] # g[1]
    BY <1>1, <1>2 DEF FormsNear
  <2>4. QED
    BY <2>1, <2>2, <2>3 DEF IsFormOf
<1>4. QED
  BY <1>3 DEF CannotBegin

(* A fake with some word in another form, as a set of facts. *)
LEMMA FormsDiffer ==
  ASSUME FormsNear, VaultInv, Unlike, NEW g \in Range(assigned), NEW y, FormedFrom(y, g), y # g
  PROVE  Inflects(g) /\ \A m, n \in DOMAIN g : g[m] = g[n] => m = n
<1>1. g \in UsableFakes /\ g \in AllFakes
  BY UsableFake
<1>2. g \in Seq(Forms) /\ DOMAIN g = 1 .. Len(g)
  BY <1>1, FakeForms
<1>3. y \in Seq(Forms) /\ Len(y) = Len(g) /\ \A j \in 1 .. Len(g) : IsFormOf(y[j], g[j])
  BY DEF FormedFrom
<1>4. Inflects(g)
  <2> SUFFICES ASSUME ~Inflects(g) PROVE FALSE
    OBVIOUS
  <2>1. \A j \in 1 .. Len(g) : y[j] = g[j]
    BY <1>2, <1>3 DEF Inflects, IsFormOf
  <2>2. y = g
    BY <1>2, <1>3, <2>1, SeqEqual
  <2>3. QED
    BY <2>2
<1>5. QED
  BY <1>1, <1>4 DEF FormsNear

LEMMA OwnCannotBegin ==
  ASSUME FormsNear, VaultInv, Unlike, NEW g \in Range(assigned), NEW y, FormedFrom(y, g), y # g
  PROVE  CannotBegin(g, y)
<1>1. g \in UsableFakes /\ g \in AllFakes
  BY UsableFake
<1>2. /\ DOMAIN g = 1 .. Len(g) /\ \A j \in 1 .. Len(g) : g[j] \in Range(g)
      /\ 1 \in 1 .. Len(g)
  BY <1>1, FakeForms
<1>3. \A m, n \in DOMAIN g : g[m] = g[n] => m = n
  BY FormsDiffer
<1>4. Len(y) = Len(g) /\ \A j \in 1 .. Len(g) : IsFormOf(y[j], g[j])
  BY DEF FormedFrom
<1>5. ASSUME NEW j \in 1 .. Len(g), y[j] = g[1] PROVE j = 1
  <2>1. g[j] \in DOMAIN Inflected => Inflected[g[j]] # g[1]
    BY <1>1, <1>2 DEF FormsNear
  <2>2. g[j] = g[1]
    BY <1>4, <1>5, <2>1 DEF IsFormOf
  <2>3. QED
    BY <1>2, <1>3, <2>2
<1>6. QED
  BY <1>4, <1>5 DEF CannotBegin

(* One pass brings back the originals of one fake where no word of it is   *)
(* in another form, and nothing else.                                      *)
LEMMA PassForms ==
  ASSUME FormsNear, LoopInv, VaultInv, Answered, Apart, Unlike, ShareNoWord,
         NEW r, IsReply(r), NEW L \in SUBSET Range(assigned), NEW g \in L
  PROVE  Replaced(g, OriginalOf(g), FlattenSeq(FormsLeft(r, L)))
           = FlattenSeq(FormsLeft(r, L \ {g}))
<1> DEFINE p == FormsLeft(r, L)
           q == FormsLeft(r, L \ {g})
           n == Len(Text)
           original == OriginalOf(g)
<1>1. /\ p \in Seq(Seq(Forms)) /\ q \in Seq(Seq(Forms)) /\ Len(p) = n /\ Len(q) = n /\ n \in Nat
  BY FormsLeftType, TextType
<1>2. g \in AllFakes /\ g \in Range(assigned)
  BY UsableFake
<1>3. g \in Seq(Forms) /\ g # << >> /\ original \in Seq(Forms)
  <2>1. original \in Seq(Tokens) /\ Tokens \subseteq Forms
    BY <1>2, OriginalType DEF Forms
  <2>2. original \in Seq(Forms)
    BY <2>1, SeqMonotonic
  <2>3. QED
    BY <1>2, <2>2, FakeForms
<1>4. Borders \in SUBSET (0 .. n) /\ 0 \in Borders /\ n \in Borders
  <2>1. \A e \in entities : ~(e.start < 0 /\ 0 < e.end) /\ ~(e.start < n /\ n < e.end)
    BY <1>1, EntityType
  <2>2. 0 \in 0 .. n /\ n \in 0 .. n
    BY <1>1
  <2>3. QED
    BY <2>1, <2>2 DEF Borders
<1>5. ASSUME NEW m \in Borders \ {n}
      PROVE  \E k \in Borders :
               /\ m < k
               /\ \/ Part(p, m, k) = g /\ Part(q, m, k) = original
                  \/ /\ Part(q, m, k) = Part(p, m, k)
                     /\ \A i \in At(p, m) + 1 .. At(p, k) : ~OccursAt(g, FlattenSeq(p), i)
  <2>1. m \in Nat /\ m < n /\ m + 1 \in Nat /\ m + 1 \in DOMAIN Text
        /\ \A e \in entities : ~(e.start < m /\ m < e.end)
    BY <1>1, TextType DEF Borders
  <2>2. CASE \E e \in entities : Covers(e, m + 1)
    <3>1. PICK e \in entities : Covers(e, m + 1)
      BY <2>2
    <3> DEFINE k == e.end
               h == answered[e]
               y == r[e.start + 1]
               w == SubSeq(Text, e.start + 1, k)
    <3>2. /\ e.start \in Nat /\ k \in Nat /\ e.start < k /\ k <= n /\ e.start = m /\ m < k
          /\ e \in Candidates
      BY <2>1, <3>1, EntityType DEF Covers
    <3>3. k \in Borders
      BY BorderOf
    <3>4. Part(p, e.start, k) = IF Restored(r, L, e) THEN w ELSE y
      BY FormsPart
    <3>5. Part(q, e.start, k) = IF Restored(r, L \ {g}, e) THEN w ELSE y
      BY FormsPart
    <3>6. FormedFrom(y, h)
      BY ReplyPiece
    <3>7. h \in Range(assigned)
      BY <3>2 DEF VaultInv, Answered, Range
    <3>8. CASE h = g /\ y = g
      <4>1. original = Words(e)
        BY <1>2, <3>2, <3>8, OriginalType DEF Answered
      <4>2. Part(q, e.start, k) = original /\ Part(p, e.start, k) = g
        BY <3>4, <3>5, <3>8, <4>1 DEF Words, Restored
      <4>3. QED
        BY <3>2, <3>3, <4>2
    <3>9. CASE ~(h = g /\ y = g)
      <4>1. Restored(r, L \ {g}, e) <=> Restored(r, L, e)
        BY <3>9 DEF Restored
      <4>2. Part(q, e.start, k) = Part(p, e.start, k)
        BY <3>4, <3>5, <4>1
      <4>3. CannotBegin(g, w)
        BY <1>2, <3>2, WordsCannotBegin
      <4>4. CannotBegin(g, y)
        BY <1>2, <3>6, <3>7, <3>9, OthersCannotBegin, OwnCannotBegin
      <4>5. CannotBegin(g, Part(p, e.start, k))
        BY <3>4, <4>3, <4>4
      <4>6. e.start <= k /\ k <= Len(p)
        BY <1>1, <3>2
      <4> HIDE DEF p, q, k, n, h, y, w
      <4>7. \A i \in At(p, e.start) + 1 .. At(p, k) : ~OccursAt(g, FlattenSeq(p), i)
        BY <1>1, <1>3, <3>2, <4>5, <4>6, NoneBegins
      <4>8. QED
        BY <3>2, <3>3, <4>2, <4>7
    <3>10. QED
      BY <3>8, <3>9
  <2>3. CASE ~ \E e \in entities : Covers(e, m + 1)
    <3> DEFINE k == m + 1
    <3>1. k \in Nat /\ m < k /\ m <= k /\ k <= n /\ k \in 0 .. n
      BY <1>1, <2>1
    <3>2. k \in Borders
      <4>1. ASSUME NEW e \in entities PROVE ~(e.start < k /\ k < e.end)
        BY <2>1, <2>3, EntityType DEF Covers
      <4>2. QED
        BY <3>1, <4>1 DEF Borders
    <3>3. p[k] = <<Text[k]>> /\ q[k] = <<Text[k]>>
      BY <2>1, <2>3, FormsAlone
    <3>4. \A i \in m + 1 .. k : i = k
      BY <2>1
    <3>5. Text \in Seq(Forms)
      BY TextForms
    <3> HIDE DEF p, q, k, n
    <3>6. AreWords(p, Text, m, k) /\ AreWords(q, Text, m, k)
      BY <3>3, <3>4 DEF AreWords
    <3>7. p \in Seq(Seq(Forms)) /\ q \in Seq(Seq(Forms)) /\ m \in Nat
      BY <1>1, <2>1
    <3>8. k <= Len(p) /\ k <= Len(q) /\ k <= Len(Text)
      BY <1>1, <3>1 DEF n
    <3>9. Part(p, m, k) = SubSeq(Text, m + 1, k)
      <4>1. m <= k /\ k <= Len(p) /\ k <= Len(Text) /\ k \in Nat /\ m \in Nat
        BY <3>1, <3>7, <3>8
      <4>2. QED
        BY <3>5, <3>6, <3>7, <4>1, WordsPart
    <3>10. Part(q, m, k) = SubSeq(Text, m + 1, k)
      <4>1. m <= k /\ k <= Len(q) /\ k <= Len(Text) /\ k \in Nat /\ m \in Nat
        BY <3>1, <3>7, <3>8
      <4>2. QED
        BY <3>5, <3>6, <3>7, <4>1, WordsPart
    <3>11. CannotBegin(g, SubSeq(Text, m + 1, k))
      BY <1>2, <3>1, <3>7, <3>8, WordsCannotBegin
    <3>12. CannotBegin(g, Part(p, m, k))
      BY <3>9, <3>11
    <3>13. \A i \in At(p, m) + 1 .. At(p, k) : ~OccursAt(g, FlattenSeq(p), i)
      BY <1>3, <3>1, <3>7, <3>8, <3>12, NoneBegins
    <3>14. QED
      BY <3>1, <3>2, <3>9, <3>10, <3>13
  <2>4. QED
    BY <2>2, <2>3
<1> HIDE DEF p, q, n, original
<1>6. Borders \in SUBSET (0 .. Len(p)) /\ Len(p) \in Borders /\ Len(p) = Len(q)
  BY <1>1, <1>4
<1>7. FormOrNone(p, q, g, original, Borders)
  BY <1>1, <1>4, <1>5, <1>6 DEF FormOrNone
<1>8. Replaced(g, original, FlattenSeq(p)) = FlattenSeq(q)
  <2>1. p \in Seq(Seq(Forms)) /\ q \in Seq(Seq(Forms))
    BY <1>1
  <2>2. QED
    BY <1>3, <1>7, <2>1, PiecesReplaced
<1>9. QED
  BY <1>8 DEF p, q, original

(* An answer to the text that was sent is one in pieces, all of them left. *)
LEMMA ReplyInPieces ==
  ASSUME FormsNear, LoopInv, VaultInv, Answered, Apart, NEW s, FormedFrom(s, FlattenSeq(Pieces))
  PROVE  \E r : IsReply(r) /\ s = FlattenSeq(FormsLeft(r, Range(assigned)))
<1> DEFINE p == Pieces
           r == Cut(s, p)
           t == FlattenSeq(p)
           L == Range(assigned)
<1>1. /\ p \in Seq(Seq(Tokens)) /\ Len(p) = Len(Text) /\ s \in Seq(Forms) /\ Len(s) = Len(t)
      /\ \A i \in 1 .. Len(t) : IsFormOf(s[i], t[i])
  BY PiecesType DEF FormedFrom
<1>2. Len(s) \in Nat /\ t \in Seq(Tokens)
  BY <1>1, LenProperties, FlattenType
<1> HIDE DEF p
<1>3. r \in Seq(Seq(Forms)) /\ Len(r) = Len(Text) /\ FlattenSeq(r) = s
  BY <1>1, CutType, CutFlattens
<1>4. ASSUME NEW i \in 1 .. Len(Text) PROVE FormedFrom(r[i], p[i])
  <2> DEFINE c == At(p, i - 1)
             d == At(p, i)
             u == r[i]
             w == p[i]
  <2>1. /\ c \in Nat /\ d = c + Len(w) /\ d <= Len(s)
        /\ u \in Seq(Forms) /\ IsCut(u, s, c, d)
        /\ \A j \in 1 .. Len(w) : t[c + j] = w[j]
    <3>1. i \in 1 .. Len(p) /\ Len(s) = Len(FlattenSeq(p))
      BY <1>1
    <3>2. /\ At(p, i - 1) \in Nat /\ At(p, i) = At(p, i - 1) + Len(p[i]) /\ At(p, i) <= Len(s)
          /\ Cut(s, p)[i] \in Seq(Forms) /\ IsCut(Cut(s, p)[i], s, At(p, i - 1), At(p, i))
          /\ \A j \in 1 .. Len(p[i]) : FlattenSeq(p)[At(p, i - 1) + j] = p[i][j]
      <4>1. p \in Seq(Seq(Tokens)) /\ s \in Seq(Forms)
        BY <1>1
      <4>2. IsCutPiece(Cut(s, p)[i], Forms, s, p, i)
        BY <3>1, <4>1, CutPiece
      <4>3. QED
        BY <4>2 DEF IsCutPiece
    <3>3. QED
      BY <3>2
  <2>2. w \in Seq(Tokens)
    BY <1>1, ElementOfSeq
  <2>3. Len(w) \in Nat
    BY <2>2, LenProperties
  <2> HIDE DEF c, d, u, w, r, t
  <2>4. d - c = Len(w)
    BY <2>1, <2>3
  <2>5. Len(u) = Len(w) /\ \A j \in 1 .. Len(w) : u[j] = s[c + j]
    BY <2>1, <2>4 DEF IsCut
  <2>6. \A j \in 1 .. Len(w) : c + j \in 1 .. Len(t)
    BY <1>1, <1>2, <2>1, <2>3
  <2>7. \A j \in 1 .. Len(w) : IsFormOf(u[j], w[j])
    BY <1>1, <2>1, <2>5, <2>6
  <2>8. FormedFrom(u, w)
    BY <2>1, <2>5, <2>7 DEF FormedFrom
  <2>9. QED
    BY <2>8 DEF u, w
<1> HIDE DEF r
<1>5. IsReply(r)
  BY <1>3, <1>4 DEF IsReply, p
<1>6. ASSUME NEW i \in DOMAIN Text PROVE FormsLeft(r, L)[i] = r[i]
  <2>1. CASE \E e \in entities : Covers(e, i)
    <3>1. PICK e \in entities : Covers(e, i)
      BY <2>1
    <3>2. answered[e] \in L
      BY EntityType DEF VaultInv, Answered, Range
    <3>3. QED
      BY <3>1, <3>2 DEF FormsLeft, Restored
  <2>2. CASE \A e \in entities : ~Covers(e, i)
    <3>1. FormsLeft(r, L)[i] = <<Text[i]>> /\ Pieces[i] = <<Text[i]>>
      BY <2>2, FormsAlone, PieceAlone
    <3>2. FormedFrom(r[i], <<Text[i]>>)
      BY <1>5, <3>1, TextType DEF IsReply
    <3>3. r[i] \in Seq(Forms) /\ Len(r[i]) = 1 /\ IsFormOf(r[i][1], Text[i])
      BY <3>2 DEF FormedFrom
    <3>4. r[i][1] = Text[i]
      BY <3>3 DEF FormsNear, IsFormOf
    <3> DEFINE u == r[i]
               v == <<Text[i]>>
    <3>5. v \in Seq(Forms) /\ Len(v) = 1 /\ v[1] = Text[i]
      BY TextForms, TextType
    <3>6. u \in Seq(Forms) /\ Len(u) = 1 /\ u[1] = Text[i]
      BY <3>3, <3>4
    <3> HIDE DEF u, v
    <3>7. \A j \in 1 .. 1 : u[j] = v[j]
      BY <3>5, <3>6
    <3>8. u = v
      BY <3>5, <3>6, <3>7, SeqEqual
    <3>9. QED
      BY <3>1, <3>8 DEF u, v
  <2>3. QED
    BY <2>1, <2>2
<1>7. FormsLeft(r, L) = r
  <2>1. FormsLeft(r, L) \in Seq(Seq(Forms)) /\ Len(FormsLeft(r, L)) = Len(Text)
    BY <1>5, FormsLeftType
  <2>2. \A i \in 1 .. Len(Text) : FormsLeft(r, L)[i] = r[i]
    BY <1>6, TextType
  <2> DEFINE u == FormsLeft(r, L)
  <2> HIDE DEF u
  <2>3. \A i \in 1 .. Len(u) : u[i] = r[i]
    BY <2>1, <2>2 DEF u
  <2>4. u = r
    BY <1>3, <2>1, <2>3, SeqEqual DEF u
  <2>5. QED
    BY <2>4 DEF u
<1>8. QED
  BY <1>3, <1>5, <1>7

(* The place before or after a word, or before or after an entity. *)
LEMMA BorderBefore ==
  ASSUME LoopInv, Apart, NEW m \in Borders, m # 0
  PROVE  \/ \E e \in entities : e.end = m
         \/ /\ m - 1 \in Borders /\ m \in DOMAIN Text /\ m - 1 \in Nat /\ (m - 1) + 1 = m
            /\ \A e \in entities : ~Covers(e, m)
<1>1. m \in Nat /\ m - 1 \in 0 .. Len(Text) /\ m \in DOMAIN Text /\ m - 1 \in Nat /\ (m - 1) + 1 = m
      /\ \A e \in entities : ~(e.start < m /\ m < e.end)
  BY TextType DEF Borders
<1>2. CASE \A e \in entities : e.end # m
  <2>1. ASSUME NEW e \in entities
        PROVE  ~Covers(e, m) /\ ~(e.start < m - 1 /\ m - 1 < e.end)
    <3>1. e.start \in Nat /\ e.end \in Nat /\ e.start < e.end /\ e.end # m
      BY <1>2, EntityType
    <3>2. QED
      BY <1>1, <3>1 DEF Covers
  <2>2. QED
    BY <1>1, <2>1 DEF Borders
<1>3. QED
  BY <1>2

(* Where a fake has as many words as its original, the words of the answer *)
(* stand where those of the text do.                                       *)
LEMMA FormsLength ==
  ASSUME LoopInv, VaultInv, Answered, Apart, Aligned, NEW r, IsReply(r), NEW L, NEW e \in entities
  PROVE  Len(Part(FormsLeft(r, L), e.start, e.end)) = e.end - e.start
<1>1. /\ e.start \in Nat /\ e.end \in Nat /\ e.start <= e.end /\ e.end <= Len(Text)
      /\ e \in Candidates
  BY EntityType
<1>2. Len(SubSeq(Text, e.start + 1, e.end)) = e.end - e.start
  BY <1>1, TextType, SubSeqIs
<1>3. KeyOf(e) \in DOMAIN assigned /\ answered[e] = assigned[KeyOf(e)]
  BY <1>1 DEF VaultInv, Answered
<1>4. Len(answered[e]) = e.end - e.start
  BY <1>2, <1>3 DEF Aligned, KeyOf, Words
<1>5. Len(r[e.start + 1]) = e.end - e.start
  BY <1>4, ReplyPiece DEF FormedFrom
<1>6. QED
  BY <1>2, <1>5, FormsPart

LEMMA AlignedAt ==
  ASSUME LoopInv, VaultInv, Answered, Apart, Aligned, NEW r, IsReply(r), NEW L, NEW b \in Borders
  PROVE  At(FormsLeft(r, L), b) = b
<1> DEFINE p == FormsLeft(r, L)
           Bad == {m \in Borders : At(p, m) # m}
<1>1. p \in Seq(Seq(Forms)) /\ Len(p) = Len(Text)
  BY FormsLeftType
<1>2. \A m \in Borders : m \in Nat /\ m <= Len(p)
  BY <1>1, TextType DEF Borders
<1>3. \A e \in entities : Len(Part(p, e.start, e.end)) = e.end - e.start
  BY FormsLength
<1>4. \A i \in DOMAIN Text : (\A e \in entities : ~Covers(e, i)) => p[i] = <<Text[i]>>
  BY FormsAlone
<1> HIDE DEF p
<1>5. Bad = {}
  <2> SUFFICES ASSUME Bad # {} PROVE FALSE
    OBVIOUS
  <2>1. PICK m \in Bad : \A j \in Bad : m <= j
    <3>1. Bad \in SUBSET Nat
      BY <1>2
    <3> HIDE DEF Bad
    <3>2. QED
      BY <3>1, LeastNumber
  <2>2. m \in Borders /\ At(p, m) # m /\ m \in Nat /\ m <= Len(p)
    BY <1>2
  <2>3. ASSUME NEW j \in Borders, j < m PROVE At(p, j) = j
    <3>1. j \in Nat /\ ~(m <= j)
      BY <1>2, <2>2, <2>3
    <3>2. j \notin Bad
      <4>1. \A i \in Bad : m <= i
        BY <2>1
      <4> HIDE DEF Bad
      <4>2. QED
        BY <3>1, <4>1
    <3>3. QED
      BY <3>2
  <2> HIDE DEF Bad
  <2>4. m # 0
    <3>1. At(p, 0) = 0
      BY PartNone, EmptySeq DEF At
    <3>2. QED
      BY <2>2, <3>1
  <2>5. ASSUME NEW a \in Borders, a < m, Len(Part(p, a, m)) = m - a PROVE FALSE
    <3>1. a \in Nat /\ a <= m /\ At(p, a) = a
      BY <1>2, <2>2, <2>3, <2>5
    <3>2. IsPlaced(FlattenSeq(p), p, a, m)
      BY <1>1, <2>2, <3>1, PartPlace
    <3>3. At(p, m) = At(p, a) + Len(Part(p, a, m))
      BY <3>2 DEF IsPlaced
    <3>4. At(p, m) = a + (m - a)
      BY <2>5, <3>1, <3>3
    <3>5. QED
      BY <2>2, <3>1, <3>4
  <2>6. ASSUME NEW e \in entities, e.end = m PROVE FALSE
    <3>1. e.start \in Borders /\ e.start < m
      BY <2>6, BorderOf, EntityType
    <3>2. QED
      BY <1>3, <2>5, <2>6, <3>1
  <2>7. CASE /\ m - 1 \in Borders /\ m \in DOMAIN Text /\ m - 1 \in Nat /\ (m - 1) + 1 = m
             /\ \A e \in entities : ~Covers(e, m)
    <3> DEFINE a == m - 1
    <3>1. a \in Borders /\ a \in Nat /\ a + 1 = m /\ a < m /\ m - a = 1
      BY <2>2, <2>7
    <3>2. p[m] = <<Text[m]>>
      BY <1>4, <2>7
    <3> HIDE DEF a
    <3>3. Part(p, a, a + 1) = p[a + 1]
      BY <1>1, <2>2, <3>1, PartOne
    <3>4. Part(p, a, m) = <<Text[m]>>
      BY <3>1, <3>2, <3>3
    <3>5. Len(Part(p, a, m)) = 1
      BY <3>4
    <3>6. QED
      BY <2>5, <3>1, <3>5
  <2>8. QED
    BY <2>2, <2>4, <2>6, <2>7, BorderBefore
<1>6. b \notin Bad
  BY <1>5
<1>7. QED
  BY <1>6 DEF p

-----------------------------------------------------------------------------
(* The fuzzy pass over what is left. *)

(* One restoration that is nearer than all others. *)
NearerThanAll(word, x) ==
  /\ x \in Restorations /\ <<word, x[1]>> \in DOMAIN Distance
  /\ \A s \in Restorations :
       s # x /\ <<word, s[1]>> \in DOMAIN Distance =>
         Distance[<<word, x[1]>>] < Distance[<<word, s[1]>>]

LEMMA NearestIsBest ==
  ASSUME \A d \in DOMAIN Distance : Distance[d] \in Nat, NEW word, NEW x, NearerThanAll(word, x)
  PROVE  BestReplacement(word) = x[2]
<1> DEFINE near == {r \in Restorations : <<word, r[1]>> \in DOMAIN Distance}
           best == {r \in near : \A s \in near : Distance[<<word, r[1]>>] <= Distance[<<word, s[1]>>]}
           originals == {r[2] : r \in best}
<1>1. /\ x \in near
      /\ \A s \in near : Distance[<<word, s[1]>>] \in Nat
      /\ \A s \in near : s # x => Distance[<<word, x[1]>>] < Distance[<<word, s[1]>>]
  BY DEF NearerThanAll
<1>2. x \in best
  <2>1. \A s \in near : Distance[<<word, x[1]>>] <= Distance[<<word, s[1]>>]
    <3> HIDE DEF near
    <3>1. QED
      BY <1>1
  <2>2. QED
    BY <1>1, <2>1
<1>3. ASSUME NEW r \in best PROVE r = x
  <2> SUFFICES ASSUME r # x PROVE FALSE
    OBVIOUS
  <2>1. r \in near /\ Distance[<<word, r[1]>>] <= Distance[<<word, x[1]>>]
    BY <1>1
  <2> HIDE DEF near
  <2>2. Distance[<<word, x[1]>>] < Distance[<<word, r[1]>>]
    BY <1>1, <2>1
  <2>3. Distance[<<word, x[1]>>] \in Nat /\ Distance[<<word, r[1]>>] \in Nat
    BY <1>1, <2>1
  <2> DEFINE u == Distance[<<word, x[1]>>]
             v == Distance[<<word, r[1]>>]
  <2>4. u \in Nat /\ v \in Nat /\ v <= u /\ u < v
    BY <2>1, <2>2, <2>3
  <2> HIDE DEF u, v
  <2>5. QED
    BY <2>4
<1>4. originals = {x[2]}
  <2>1. best = {x}
    BY <1>2, <1>3
  <2> HIDE DEF best
  <2>2. QED
    BY <2>1
<1>5. BestReplacement(word) = IF Cardinality(originals) = 1 THEN CHOOSE o \in originals : TRUE ELSE <<word>>
  BY DEF BestReplacement
<1> HIDE DEF originals
<1>6. Cardinality(originals) = 1
  BY <1>4, FS_Singleton
<1>7. (CHOOSE o \in originals : TRUE) = x[2]
  BY <1>4
<1>8. QED
  BY <1>5, <1>6, <1>7

OwnFakes == \A k \in DOMAIN assigned : assigned[k] \in FakesOf[k[1]]

(* A word of a fake in any form is nearest to that word. *)
LEMMA FormBest ==
  ASSUME FormsNear, LoopInv, VaultInv, Answered, OwnFakes, Unlike, ShareNoWord, Aligned,
         NEW e \in entities, NEW y, FormedFrom(y, answered[e]), y # answered[e],
         NEW j \in 1 .. Len(y)
  PROVE  e.start + j \in DOMAIN Text /\ BestReplacement(y[j]) = <<Text[e.start + j]>>
<1> DEFINE g == answered[e]
           key == KeyOf(e)
           original == key[2]
           x == <<g[j], <<original[j]>>>>
<1>1. /\ e.start \in Nat /\ e.end \in Nat /\ e.start <= e.end /\ e.end <= Len(Text)
      /\ e \in Candidates /\ e.type \in DOMAIN FakesOf
  BY EntityType, TextAssumption
<1>2. key \in DOMAIN assigned /\ g = assigned[key] /\ key[1] = e.type /\ original = Words(e)
  BY <1>1 DEF VaultInv, Answered, KeyOf
<1>3. /\ Len(original) = e.end - e.start
      /\ \A i \in 1 .. e.end - e.start : original[i] = Text[e.start + i]
  <2>1. Text \in Seq(Tokens)
    BY TextType
  <2>2. /\ Len(Words(e)) = e.end - e.start
        /\ \A i \in 1 .. e.end - e.start : Words(e)[i] = Text[e.start + i]
    <3> DEFINE a == e.start
               b == e.end
    <3>1. a \in Nat /\ b \in Nat /\ a <= b /\ b <= Len(Text) /\ Words(e) = SubSeq(Text, a + 1, b)
      BY <1>1 DEF Words
    <3> HIDE DEF a, b
    <3>2. /\ Len(SubSeq(Text, a + 1, b)) = b - a
          /\ \A i \in 1 .. b - a : SubSeq(Text, a + 1, b)[i] = Text[a + i]
      BY <2>1, <3>1, SubSeqIs
    <3>3. QED
      BY <3>1, <3>2 DEF a, b
  <2>3. QED
    BY <1>2, <2>2
<1>4. g \in Range(assigned)
  BY <1>2 DEF Range
<1>5. g \in UsableFakes /\ g \in AllFakes
  BY <1>4, UsableFake
<1>6. DOMAIN g = 1 .. Len(g) /\ \A i \in 1 .. Len(g) : g[i] \in Range(g)
  BY <1>5, FakeForms
<1>7. Inflects(g) /\ \A m, n \in DOMAIN g : g[m] = g[n] => m = n
  BY <1>4, FormsDiffer
<1>8. key \in Names
  <2>1. g \in FakesOf[e.type]
    BY <1>2 DEF OwnFakes
  <2>2. e.type \in NameTypes
    BY <1>1, <1>7, <2>1 DEF FormsNear
  <2>3. QED
    BY <1>2, <2>2 DEF Names
<1>9. j \in 1 .. Len(g) /\ IsFormOf(y[j], g[j]) /\ Len(g) = Len(original)
  BY <1>2 DEF FormedFrom, Aligned
<1>10. e.start + j \in DOMAIN Text /\ original[j] = Text[e.start + j]
  <2>1. j \in 1 .. e.end - e.start
    BY <1>3, <1>9
  <2>2. e.start + j \in 1 .. Len(Text)
    BY <1>1, <2>1, TextType
  <2>3. QED
    BY <1>3, <2>1, <2>2, TextType
<1>11. x \in Restorations
  <2>1. Len(assigned[key]) = Len(key[2]) /\ j \in DOMAIN assigned[key]
    BY <1>2, <1>6, <1>9
  <2>2. <<assigned[key][j], IF Len(assigned[key]) = Len(key[2]) THEN <<key[2][j]>> ELSE key[2]>>
          \in Restorations
    BY <1>8, <2>1 DEF Restorations
  <2>3. QED
    BY <1>2, <2>1, <2>2
<1>12. y[j] \in FormsOf(g[j])
  BY <1>9 DEF FormsOf, IsFormOf
<1>13. NearestTo(y[j], g[j])
  BY <1>5, <1>6, <1>7, <1>9, <1>12 DEF FormsNear
<1>14. ASSUME NEW s \in Restorations, s # x, <<y[j], s[1]>> \in DOMAIN Distance
       PROVE  Distance[<<y[j], g[j]>>] < Distance[<<y[j], s[1]>>]
  <2>9. PICK k \in Names :
          \E n \in DOMAIN assigned[k] :
            s = <<assigned[k][n], IF Len(assigned[k]) = Len(k[2]) THEN <<k[2][n]>> ELSE k[2]>>
    BY DEF Restorations
  <2>1. PICK n \in DOMAIN assigned[k] :
          s = <<assigned[k][n], IF Len(assigned[k]) = Len(k[2]) THEN <<k[2][n]>> ELSE k[2]>>
    BY <2>9
  <2>2. k \in DOMAIN assigned /\ assigned[k] \in Range(assigned) /\ Len(assigned[k]) = Len(k[2])
    BY DEF Names, Range, Aligned
  <2>3. s = <<assigned[k][n], <<k[2][n]>>>>
    BY <2>1, <2>2
  <2>4. assigned[k] \in UsableFakes /\ assigned[k] \in AllFakes
    BY <2>2, UsableFake
  <2>5. assigned[k][n] # g[j]
    <3> SUFFICES ASSUME assigned[k][n] = g[j] PROVE FALSE
      OBVIOUS
    <3>1. assigned[k][n] \in Range(assigned[k]) /\ g[j] \in Range(g)
      BY <1>6, <1>9, <2>4, FakeForms
    <3>2. assigned[k] = g
      BY <1>4, <2>2, <3>1 DEF ShareNoWord
    <3>3. k = key
      BY <1>2, <2>2, <3>2 DEF VaultInv
    <3>4. n = j
      BY <1>6, <1>7, <1>9, <2>1, <3>2
    <3>5. s = x
      BY <1>2, <2>3, <3>3, <3>4
    <3>6. QED
      BY <1>14, <3>5
  <2>6. <<y[j], assigned[k][n]>> \in DOMAIN Distance
    BY <1>14, <2>3
  <2>7. Distance[<<y[j], g[j]>>] < Distance[<<y[j], assigned[k][n]>>]
    BY <1>13, <2>1, <2>4, <2>5, <2>6 DEF NearestTo
  <2>8. QED
    BY <2>3, <2>7
<1>15. NearerThanAll(y[j], x)
  BY <1>11, <1>13, <1>14 DEF NearerThanAll, NearestTo
<1>16. BestReplacement(y[j]) = x[2]
  BY <1>15, NearestIsBest DEF FormsNear
<1>17. QED
  BY <1>10, <1>16

(* After the passes, the fuzzy one brings back all that is left. *)
LEMMA FuzzyForms ==
  ASSUME FormsNear, LoopInv, VaultInv, Answered, OwnFakes, Apart, Unlike, ShareNoWord, Aligned,
         NEW r, IsReply(r), NEW t, t = FlattenSeq(FormsLeft(r, {}))
  PROVE  FlattenSeq([i \in DOMAIN t |-> BestReplacement(t[i])]) = Text
<1> DEFINE p == FormsLeft(r, {})
           n == Len(Text)
<1>1. p \in Seq(Seq(Forms)) /\ Len(p) = n /\ n \in Nat
  BY FormsLeftType, TextType
<1>2. \A m \in Borders : At(p, m) = m /\ m \in Nat /\ m <= n
  BY <1>1, AlignedAt DEF Borders
<1>3. \A e \in entities :
        /\ Part(p, e.start, e.end)
             = IF Restored(r, {}, e) THEN SubSeq(Text, e.start + 1, e.end) ELSE r[e.start + 1]
        /\ Len(Part(p, e.start, e.end)) = e.end - e.start
  BY FormsPart, FormsLength
<1>4. \A i \in DOMAIN Text : (\A e \in entities : ~Covers(e, i)) => p[i] = <<Text[i]>>
  BY FormsAlone
<1> HIDE DEF p
<1>5. ASSUME NEW a \in Borders, NEW b \in Borders, a <= b
      PROVE  IsPlaced(t, p, a, b)
  <2>1. a \in Nat /\ b \in Nat /\ b <= Len(p)
    BY <1>1, <1>2
  <2>2. IsPlaced(FlattenSeq(p), p, a, b)
    BY <1>1, <1>5, <2>1, PartPlace
  <2>3. QED
    BY <2>2 DEF p
<1>6. t \in Seq(Forms) /\ Len(t) = n
  <2>1. t = FlattenSeq(p)
    BY DEF p
  <2>2. n \in Borders
    <3>1. \A e \in entities : ~(e.start < n /\ n < e.end)
      BY <1>1, EntityType
    <3>2. n \in 0 .. n
      BY <1>1
    <3>3. QED
      BY <3>1, <3>2 DEF Borders
  <2>3. At(p, n) = n
    BY <1>2, <2>2
  <2>4. Part(p, 0, Len(p)) = FlattenSeq(p)
    BY <1>1, PartWhole
  <2>5. QED
    BY <1>1, <2>1, <2>3, <2>4, FlattenType DEF At
<1>7. ASSUME NEW i \in DOMAIN Text PROVE BestReplacement(t[i]) = <<Text[i]>>
  <2>1. i \in Nat /\ i # 0 /\ i <= n
    BY TextType
  <2>2. ASSUME NEW e \in entities, Covers(e, i) PROVE BestReplacement(t[i]) = <<Text[i]>>
    <3> DEFINE a == e.start
               b == e.end
               y == Part(p, a, b)
               j == i - a
    <3>1. a \in Nat /\ b \in Nat /\ a < i /\ i <= b /\ b <= n /\ a <= b
      BY <2>2, EntityType DEF Covers
    <3>2. a \in Borders /\ b \in Borders
      BY BorderOf
    <3>3. At(p, a) = a /\ Len(y) = b - a
      BY <1>2, <1>3, <3>2
    <3>4. j \in 1 .. b - a /\ a + j = i
      BY <2>1, <3>1
    <3>5. IsPlaced(t, p, a, b)
      BY <1>5, <3>1, <3>2
    <3>6. t[i] = y[j]
      <4>1. \A x \in 1 .. Len(y) : t[At(p, a) + x] = y[x]
        BY <3>5 DEF IsPlaced
      <4> HIDE DEF a, b, y, j
      <4>2. QED
        BY <3>3, <3>4, <4>1
    <3>7. CASE Restored(r, {}, e)
      <4>1. y = SubSeq(Text, a + 1, b)
        BY <1>3, <3>7
      <4>5. a \in Nat /\ b \in Nat /\ a <= b /\ b <= Len(Text) /\ Text \in Seq(Tokens)
        BY <1>1, <3>1, TextType
      <4> HIDE DEF y, j, a, b
      <4>2. \A x \in 1 .. b - a : SubSeq(Text, a + 1, b)[x] = Text[a + x]
        BY <4>5, SubSeqIs
      <4>3. t[i] = Text[i]
        BY <3>4, <3>6, <4>1, <4>2
      <4>4. QED
        BY <4>3, TextBest
    <3>8. CASE ~Restored(r, {}, e)
      <4>1. y = r[a + 1]
        BY <1>3, <3>8
      <4>2. FormedFrom(y, answered[e]) /\ y # answered[e]
        BY <3>8, <4>1, ReplyPiece DEF Restored
      <4>3. j \in 1 .. Len(y)
        BY <3>3, <3>4
      <4> HIDE DEF y, j
      <4>4. BestReplacement(y[j]) = <<Text[e.start + j]>>
        BY <4>2, <4>3, FormBest
      <4>5. QED
        BY <3>4, <3>6, <4>4
    <3>9. QED
      BY <3>7, <3>8
  <2>3. CASE \A e \in entities : ~Covers(e, i)
    <3> DEFINE a == i - 1
    <3>1. a \in Nat /\ a + 1 = i /\ a <= i /\ a + 1 <= Len(p) /\ a \in 0 .. n /\ i \in 0 .. n
      BY <1>1, <2>1
    <3>2. a \in Borders /\ i \in Borders
      <4>1. ASSUME NEW e \in entities
            PROVE  ~(e.start < a /\ a < e.end) /\ ~(e.start < i /\ i < e.end)
        <5>1. ~(e.start < i /\ i <= e.end) /\ e.start \in Nat /\ e.end \in Nat
          BY <2>3, EntityType DEF Covers
        <5> HIDE DEF a
        <5>2. QED
          BY <2>1, <3>1, <5>1
      <4>2. QED
        BY <3>1, <4>1 DEF Borders
    <3> HIDE DEF a
    <3>3. Part(p, a, a + 1) = p[a + 1]
      BY <1>1, <3>1, PartOne
    <3>4. Part(p, a, i) = <<Text[i]>>
      BY <1>4, <2>3, <3>1, <3>3
    <3>5. IsPlaced(t, p, a, i)
      BY <1>5, <3>1, <3>2
    <3>6. \A x \in 1 .. Len(Part(p, a, i)) : t[At(p, a) + x] = Part(p, a, i)[x]
      BY <3>5 DEF IsPlaced
    <3>7. 1 \in 1 .. Len(Part(p, a, i)) /\ Part(p, a, i)[1] = Text[i]
      BY <3>4
    <3>8. t[i] = Text[i]
      BY <1>2, <3>1, <3>2, <3>6, <3>7
    <3>9. QED
      BY <3>8, TextBest
  <2>4. QED
    BY <2>2, <2>3
<1> DEFINE q == [i \in DOMAIN t |-> BestReplacement(t[i])]
<1>8. DOMAIN t = 1 .. n /\ DOMAIN Text = 1 .. n
  BY <1>6, LenProperties, TextType
<1>9. \A i \in 1 .. n : q[i] = <<Text[i]>> /\ q[i] \in Seq(Tokens)
  <2>1. \A i \in 1 .. n : q[i] = BestReplacement(t[i])
    BY <1>8
  <2>2. \A i \in 1 .. n : <<Text[i]>> \in Seq(Tokens)
    BY TextType
  <2> HIDE DEF q
  <2>3. QED
    BY <1>7, <1>8, <2>1, <2>2
<1>10. q \in [1 .. n -> Seq(Tokens)]
  BY <1>8, <1>9
<1> HIDE DEF q
<1>11. q \in Seq(Seq(Tokens)) /\ Len(q) = Len(Text)
  <2> HIDE DEF n
  <2>1. q \in Seq(Seq(Tokens))
    BY <1>1, <1>10
  <2>2. QED
    BY <1>1, <1>10, <2>1, LenProperties DEF n
<1>12. FlattenSeq(q) = Text
  BY <1>9, <1>11, TextType, FlattenWords
<1>13. QED
  BY <1>12 DEF q

LEMMA OwnStep == OwnFakes /\ [Next]_vars => OwnFakes'
<1> SUFFICES ASSUME OwnFakes, [Next]_vars PROVE OwnFakes'
  OBVIOUS
<1>1. ASSUME NEW e \in raw, Substitute(e) PROVE OwnFakes'
  <2>1. CASE Vault!AnswerKnown(e)
    BY <2>1 DEF Vault!AnswerKnown, OwnFakes
  <2>2. ASSUME NEW fake \in FakesOf[e.type] \ Range(assigned), Vault!MapTo(e, fake) PROVE OwnFakes'
    <3> DEFINE key == KeyOf(e)
    <3>1. assigned' = [k \in DOMAIN assigned \cup {key} |-> IF k = key THEN fake ELSE assigned[k]]
      BY <2>2 DEF Vault!MapTo
    <3>2. key[1] = e.type
      BY DEF KeyOf
    <3> HIDE DEF key
    <3>3. /\ DOMAIN assigned' = DOMAIN assigned \cup {key} /\ assigned'[key] = fake
          /\ \A k \in DOMAIN assigned : k # key => assigned'[k] = assigned[k]
      BY <3>1
    <3>4. QED
      BY <2>2, <3>2, <3>3 DEF OwnFakes
  <2>3. QED
    BY <1>1, <2>1, <2>2 DEF Substitute
<1>2. CASE UNCHANGED assigned
  BY <1>2 DEF OwnFakes
<1>3. QED
  BY <1>1, <1>2 DEF Next, Detect, Splice, Send, Answer, Restore, EndExact, RestoreFuzzy, Done, vault, vars

(* While the passes go on, the text is the answer with the fakes of left   *)
(* still in it, and with what the passes do not know.                      *)
FormsInv ==
  /\ stage = "restore" /\ Apart /\ Unlike /\ ShareNoWord =>
       \E r : IsReply(r) /\ text = FlattenSeq(FormsLeft(r, left))
  /\ RestoresInflected

LEMMA AnswerInForms ==
  ASSUME FormsNear, RouteInv, PayloadInv, Answer, Apart
  PROVE  \E r : IsReply(r) /\ text' = FlattenSeq(FormsLeft(r, Range(assigned)))
<1>1. PICK turned \in SUBSET {i \in DOMAIN sent : sent[i] \in DOMAIN Inflected} :
        reply' = [i \in DOMAIN sent |-> IF i \in turned THEN Inflected[sent[i]] ELSE sent[i]]
  BY DEF Answer
<1>2. stage = "sent" /\ text' = reply' /\ ~Processing
  BY DEF Answer, Processing
<1>3. LoopInv /\ VaultInv /\ Answered
  BY <1>2, AfterSent
<1>4. sent \in Seq(Tokens) /\ sent = FlattenSeq(Pieces)
  BY <1>2 DEF RouteInv, CleanInv, PayloadInv, Substituted, Pieces
<1> DEFINE s == [i \in DOMAIN sent |-> IF i \in turned THEN Inflected[sent[i]] ELSE sent[i]]
           n == Len(sent)
<1>5. DOMAIN sent = 1 .. n /\ n \in Nat /\ \A i \in 1 .. n : sent[i] \in Tokens
  BY <1>4, LenProperties, ElementOfSeq
<1>6. \A i \in 1 .. n : s[i] \in Forms /\ IsFormOf(s[i], sent[i])
  BY <1>5 DEF Forms, IsFormOf, Range
<1>7. s \in [1 .. n -> Forms]
  BY <1>5, <1>6
<1> HIDE DEF s, n
<1>8. s \in Seq(Forms)
  BY <1>5, <1>7
<1>9. Len(s) = n
  BY <1>5, <1>7, <1>8, LenProperties
<1>10. FormedFrom(s, sent)
  BY <1>6, <1>8, <1>9 DEF FormedFrom, n
<1>11. FormedFrom(s, FlattenSeq(Pieces))
  BY <1>4, <1>10
<1>12. PICK r : IsReply(r) /\ s = FlattenSeq(FormsLeft(r, Range(assigned)))
  BY <1>3, <1>11, ReplyInPieces
<1>13. text' = s
  BY <1>1, <1>2 DEF s
<1>14. QED
  BY <1>12, <1>13

(* Without entities nothing has been replaced. *)
LEMMA NoneInForms ==
  ASSUME LoopInv, VaultInv, Answered, assigned = << >>, NEW r, IsReply(r), NEW L
  PROVE  FlattenSeq(FormsLeft(r, L)) = Text
<1> DEFINE p == FormsLeft(r, L)
<1>1. entities = {}
  <2>1. DOMAIN assigned = {}
    OBVIOUS
  <2>2. \A e \in entities : KeyOf(e) \in DOMAIN assigned
    BY EntityType DEF VaultInv, Answered
  <2>3. QED
    BY <2>1, <2>2
<1>2. p \in Seq(Seq(Forms)) /\ Len(p) = Len(Text) /\ Text \in Seq(Forms)
  BY FormsLeftType, TextForms
<1>3. \A i \in 1 .. Len(Text) : p[i] = <<Text[i]>>
  BY <1>1, TextType, FormsAlone
<1> HIDE DEF p
<1>4. FlattenSeq(p) = Text
  BY <1>2, <1>3, FlattenWords
<1>5. QED
  BY <1>4 DEF p

LEMMA FormsStep ==
  FormsNear /\ RouteInv /\ PayloadInv /\ RestoreInv /\ OwnFakes /\ FormsInv /\ [Next]_vars
    => FormsInv'
<1> SUFFICES ASSUME FormsNear, RouteInv, PayloadInv, RestoreInv, OwnFakes, FormsInv, [Next]_vars
             PROVE  FormsInv'
  OBVIOUS
<1> USE DEF RestoresInflected
<1>1. CASE Detect
  BY <1>1 DEF Detect, DetectNext, Consider, ApplyThresholds, FormsInv
<1>2. ASSUME NEW e \in raw, Substitute(e) \/ Splice(e) PROVE FormsInv'
  BY <1>2 DEF Substitute, Splice, detectVars, FormsInv
<1>3. CASE Send
  BY <1>3 DEF Send, FormsInv
<1>4. CASE Answer
  <2>1. /\ stage = "sent" /\ left' = Range(assigned)
        /\ stage' = IF assigned = << >> THEN "done" ELSE "restore"
        /\ UNCHANGED <<entities, assigned, answered>>
    BY <1>4 DEF Answer, vault
  <2>2. LoopInv /\ VaultInv /\ Answered
    BY <2>1, AfterSent DEF Processing
  <2>3. Apart' => Apart
    BY <2>1 DEF Apart
  <2>4. CASE assigned = << >>
    <3>1. Apart => text' = Text
      BY <1>4, <2>2, <2>4, AnswerInForms, NoneInForms
    <3>2. QED
      BY <2>1, <2>3, <2>4, <3>1 DEF FormsInv
  <2>5. CASE assigned # << >>
    <3> SUFFICES ASSUME Apart'
                 PROVE  (\E r : IsReply(r) /\ text = FlattenSeq(FormsLeft(r, left)))'
      BY <2>1, <2>5 DEF FormsInv
    <3>1. PICK r : IsReply(r) /\ text' = FlattenSeq(FormsLeft(r, Range(assigned)))
      BY <1>4, <2>3, AnswerInForms
    <3>2. IsReply(r)' /\ FormsLeft(r, left)' = FormsLeft(r, Range(assigned))
      BY <2>1, <3>1 DEF IsReply, Pieces, FormsLeft, Restored
    <3>3. QED
      BY <3>1, <3>2
  <2>6. QED
    BY <2>4, <2>5
<1>5. ASSUME NEW fake \in left, Restore(fake) PROVE FormsInv'
  <2>1. /\ stage = "restore" /\ stage' = stage
        /\ text' = Replaced(fake, OriginalOf(fake), text)
        /\ left' = left \ {fake}
        /\ UNCHANGED <<entities, assigned, answered>>
    BY <1>5 DEF Restore, vault, detectVars
  <2>2. LoopInv /\ VaultInv /\ Answered /\ left \in SUBSET Range(assigned)
    BY <2>1, AfterSent DEF Processing, RestoreInv
  <2>3. (Apart' => Apart) /\ (Unlike' => Unlike) /\ (ShareNoWord' => ShareNoWord)
    BY <2>1 DEF Apart, Unlike, ShareNoWord
  <2> SUFFICES ASSUME Apart', Unlike', ShareNoWord'
               PROVE  (\E r : IsReply(r) /\ text = FlattenSeq(FormsLeft(r, left)))'
    BY <2>1 DEF FormsInv
  <2>4. PICK r : IsReply(r) /\ text = FlattenSeq(FormsLeft(r, left))
    BY <2>1, <2>3 DEF FormsInv
  <2>5. text' = FlattenSeq(FormsLeft(r, left \ {fake}))
    BY <2>1, <2>2, <2>3, <2>4, PassForms
  <2>6. IsReply(r)' /\ FormsLeft(r, left)' = FormsLeft(r, left \ {fake})
    BY <2>1, <2>4 DEF IsReply, Pieces, FormsLeft, Restored
  <2>7. QED
    BY <2>5, <2>6
<1>6. CASE EndExact
  BY <1>6 DEF EndExact, FormsInv
<1>7. CASE RestoreFuzzy
  <2>1. /\ stage = "restore" /\ left = {} /\ stage' = "done"
        /\ text' = FlattenSeq([i \in DOMAIN text |-> BestReplacement(text[i])])
        /\ UNCHANGED <<entities, assigned>>
    BY <1>7 DEF RestoreFuzzy, vault
  <2>2. LoopInv /\ VaultInv /\ Answered
    BY <2>1, AfterSent DEF Processing
  <2>3. /\ (Apart' => Apart) /\ (Unlike' => Unlike) /\ (ShareNoWord' => ShareNoWord)
        /\ (Aligned' => Aligned)
    BY <2>1 DEF Apart, Unlike, ShareNoWord, Aligned
  <2>4. ASSUME Apart, Unlike, ShareNoWord, Aligned PROVE text' = Text
    <3>1. PICK r : IsReply(r) /\ text = FlattenSeq(FormsLeft(r, {}))
      BY <2>1, <2>4 DEF FormsInv
    <3>2. QED
      BY <2>1, <2>2, <2>4, <3>1, FuzzyForms
  <2>5. QED
    BY <2>1, <2>3, <2>4 DEF FormsInv
<1>8. CASE UNCHANGED vars
  <2>1. UNCHANGED <<stage, entities, assigned, answered, text, left>>
    BY <1>8 DEF vars
  <2>2. \A r : (IsReply(r)' <=> IsReply(r)) /\ FormsLeft(r, left)' = FormsLeft(r, left)
    BY <2>1 DEF IsReply, Pieces, FormsLeft, Restored
  <2>3. QED
    BY <2>1, <2>2 DEF FormsInv, Apart, Unlike, ShareNoWord, Aligned
<1>9. QED
  BY <1>1, <1>2, <1>3, <1>4, <1>5, <1>6, <1>7, <1>8 DEF Next, Done

(* An answer that puts any words of the names into other forms comes back  *)
(* as the original text, if each form is nearer to its word than to those  *)
(* of other fakes: the passes restore the fakes without such a word, touch *)
(* nothing of the others, and leave a word for each word of the text, so   *)
(* the fuzzy pass finds its place.                                         *)
THEOREM FormsRestored == ASSUME FormsNear PROVE Spec => []RestoresInflected
<1>1. Init => FormsInv /\ OwnFakes
  <2> SUFFICES ASSUME Init PROVE FormsInv /\ OwnFakes
    OBVIOUS
  <2>1. stage = "resolve" /\ assigned = << >>
    BY DEF Init, DetectInit, Vault!Init
  <2>2. DOMAIN assigned = {}
    BY <2>1
  <2>3. QED
    BY <2>1, <2>2 DEF FormsInv, RestoresInflected, OwnFakes
<1>2. RouteInv /\ PayloadInv /\ RestoreInv /\ OwnFakes /\ FormsInv /\ [Next]_vars => FormsInv'
  BY FormsStep
<1>3. FormsInv => RestoresInflected
  BY DEF FormsInv
<1>4. QED
  BY <1>1, <1>2, <1>3, OwnStep, RouteInvariant, PayloadInvariant, RestoreInvariant, PTL DEF Spec

=============================================================================
