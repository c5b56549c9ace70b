--------------------------- MODULE ScoringProofs ---------------------------
(***************************************************************************)
(* Proofs about SpanAlignment and DocumentScoring, for any corpus, spans   *)
(* and types: the greedy alignment is one-to-one and stable, the strict    *)
(* policy finds no entity the primary one does not, the results of an      *)
(* evaluation add up, and the audit reports what the gateway has missed.   *)
(***************************************************************************)
EXTENDS DocumentScoring, Sums, SequenceTheorems

-----------------------------------------------------------------------------
(* What the validation of an annotation guarantees: comparing neighbours   *)
(* is enough to keep all entities of one type apart.                       *)

(* Among the entities of its type that come after it, an entity has a next *)
(* one.                                                                    *)
LEMMA NextExists ==
  ASSUME NEW G \in SUBSET Entities, NEW e \in G, NEW f \in G,
         e.type = f.type, Precedes(e, f)
  PROVE  \E h \in G : /\ h.type = e.type /\ FollowsNext(h, e, G)
                      /\ h.start <= f.start
<1> DEFINE After == {h \in G : h.type = e.type /\ Precedes(e, h)}
<1>1. f \in After /\ After \subseteq Entities
  OBVIOUS
<1>2. PICK n \in {h.start : h \in After} : \A k \in {h.start : h \in After} : n <= k
  <2>1. {h.start : h \in After} \subseteq Nat /\ {h.start : h \in After} # {}
    BY <1>1, SpanAssumption
  <2>2. QED
    BY <2>1, LeastNumber
<1> DEFINE Soonest == {h \in After : h.start = n}
<1>3. PICK m \in {h.place : h \in Soonest} : \A k \in {h.place : h \in Soonest} : m <= k
  <2>1. {h.place : h \in Soonest} \subseteq Nat /\ {h.place : h \in Soonest} # {}
    BY <1>1, <1>2, SpanAssumption
  <2>2. QED
    BY <2>1, LeastNumber
<1>4. PICK h \in Soonest : h.place = m
  BY <1>3
<1>5. h \in G /\ h.type = e.type /\ Precedes(e, h)
  BY <1>4
<1>6. ASSUME NEW k \in G, k.type = e.type, Precedes(e, k), Precedes(k, h)
      PROVE FALSE
  <2>1. k \in After /\ k \in Entities /\ h \in Entities
    BY <1>4, <1>6
  <2>2. h.start <= k.start
    BY <1>2, <1>4, <2>1
  <2>3. k.start = h.start /\ k.place < h.place
    BY <1>6, <2>1, <2>2, SpanAssumption DEF Precedes
  <2>4. k \in Soonest
    BY <1>4, <2>1, <2>3
  <2>5. h.place <= k.place
    BY <1>3, <1>4, <2>4
  <2>6. QED
    BY <2>1, <2>3, <2>5, SpanAssumption
<1>7. h.start <= f.start
  BY <1>1, <1>2, <1>4
<1>8. QED
  BY <1>5, <1>6, <1>7 DEF FollowsNext

LEMMA SameTypeApart ==
  ASSUME NEW G \in SUBSET Entities, Valid(G), Listed(G),
         NEW e \in G, NEW f \in G, e # f, e.type = f.type
  PROVE  e.end <= f.start \/ f.end <= e.start
<1>1. ASSUME NEW a \in G, NEW b \in G, a.type = b.type, Precedes(a, b)
      PROVE  a.end <= b.start
  <2>1. PICK h \in G : h.type = a.type /\ FollowsNext(h, a, G) /\ h.start <= b.start
    BY <1>1, NextExists
  <2>2. h.start >= a.end
    BY <2>1 DEF Valid
  <2>3. QED
    BY <2>1, <2>2, SpanAssumption
<1>2. Precedes(e, f) \/ Precedes(f, e)
  BY SpanAssumption DEF Precedes, Listed
<1>3. QED
  BY <1>1, <1>2

-----------------------------------------------------------------------------
(* The order of the pairs. *)

LEMMA OverlapType ==
  ASSUME NEW g \in Entities, NEW p \in Spans
  PROVE  Overlap(g, p) \in Nat
BY SpanAssumption DEF Overlap, Least, Most

LEMMA SoonerOverlaps ==
  ASSUME NEW q \in Entities \X Spans, NEW r \in Entities \X Spans, Sooner(q, r)
  PROVE  Overlap(q[1], q[2]) >= Overlap(r[1], r[2])
BY OverlapType DEF Sooner

Shares(q, r) == r[1] = q[1] \/ r[2] = q[2]
Covers(r, q) == Shares(q, r) /\ Overlap(r[1], r[2]) >= Overlap(q[1], q[2])

-----------------------------------------------------------------------------
(* The invariant of the loops. *)

Input ==
  /\ gold \subseteq Entities /\ Valid(gold) /\ Listed(gold)
  /\ predicted \subseteq Spans

OneToOne == \A by \in Policies : \A q, r \in aligned[by] : Shares(q, r) => q = r
AlignedMatch == \A by \in Policies : aligned[by] \subseteq PairsBy(by)
Later == policy = "overlap" => stage # "scored" /\ aligned["exact"] = {}

SeenFirst ==
  stage = "align" =>
    /\ seen \subseteq PairsBy(policy)
    /\ aligned[policy] \subseteq seen
    /\ \A q \in seen : \A r \in PairsBy(policy) \ seen : Sooner(q, r)
    /\ \A q \in seen : \E r \in aligned[policy] : Covers(r, q)

Covered ==
  \A by \in Policies : Settled(by) =>
    \A q \in PairsBy(by) : \E r \in aligned[by] : Covers(r, q)

LoopInv ==
  /\ AlignTypeOK
  /\ Input
  /\ OneToOne
  /\ AlignedMatch
  /\ Later
  /\ SeenFirst
  /\ Covered

LEMMA PairsTyped ==
  ASSUME Input, NEW by \in Policies
  PROVE  PairsBy(by) \subseteq Entities \X Spans
BY DEF Input, PairsBy, Mapped

LEMMA AlignPairKeeps ==
  ASSUME LoopInv, NEW q \in gold \X predicted, AlignPair(q)
  PROVE  LoopInv'
<1> DEFINE now == aligned[policy]
<1>1. /\ policy \in Policies /\ stage = "align"
      /\ q \in PairsBy(policy) /\ q \notin seen
      /\ seen' = seen \cup {q}
      /\ aligned' = [aligned EXCEPT ![policy] = Taken(q, now)]
      /\ UNCHANGED <<gold, predicted, policy, stage, crossed>>
  BY DEF LoopInv, AlignTypeOK, AlignPair
<1>2. PairsBy(policy) \subseteq Entities \X Spans
  BY <1>1, PairsTyped DEF LoopInv
<1>3. /\ aligned \in [Policies -> SUBSET (gold \X predicted)]
      /\ now \subseteq seen /\ seen \subseteq PairsBy(policy)
      /\ \A r \in seen : \A s \in PairsBy(policy) \ seen : Sooner(r, s)
      /\ \A r \in seen : \E s \in now : Covers(s, r)
  BY <1>1 DEF LoopInv, AlignTypeOK, SeenFirst
<1>4. /\ aligned'[policy] = Taken(q, now)
      /\ \A by \in Policies : by # policy => aligned'[by] = aligned[by]
      /\ \A by : PairsBy(by)' = PairsBy(by)
  BY <1>1, <1>3 DEF PairsBy, Mapped
<1>5. \/ Taken(q, now) = now /\ \E r \in now : Shares(q, r)
      \/ Taken(q, now) = now \cup {q} /\ ~ \E r \in now : Shares(q, r)
  BY DEF Taken, Free, Firsts, Seconds, Shares
<1>6. \E r \in Taken(q, now) : Covers(r, q)
  <2>1. CASE \E r \in now : Shares(q, r)
    <3>1. PICK r \in now : Shares(q, r)
      BY <2>1
    <3>2. Sooner(r, q)
      BY <1>1, <1>3, <3>1
    <3>3. Overlap(r[1], r[2]) >= Overlap(q[1], q[2])
      BY <1>1, <1>2, <1>3, <3>2, SoonerOverlaps
    <3>4. QED
      BY <1>5, <3>1, <3>3 DEF Covers
  <2>2. CASE ~ \E r \in now : Shares(q, r)
    <3>1. Overlap(q[1], q[2]) \in Nat
      BY <1>1, <1>2, OverlapType
    <3>2. Covers(q, q)
      BY <3>1 DEF Covers, Shares
    <3>3. QED
      BY <1>5, <2>2, <3>2
  <2>3. QED
    BY <2>1, <2>2
<1>7. now \subseteq Taken(q, now) /\ Taken(q, now) \subseteq now \cup {q}
  BY <1>5
<1>8. AlignTypeOK'
  BY <1>1, <1>3, <1>7 DEF LoopInv, AlignTypeOK, Policies
<1>9. Input'
  BY <1>1 DEF LoopInv, Input, Listed, Valid, FollowsNext, BadSpan, Precedes
<1>10. OneToOne'
  <2>1. \A r, s \in Taken(q, now) : Shares(r, s) => r = s
    <3>1. \A r, s \in now : Shares(r, s) => r = s
      BY <1>1 DEF LoopInv, OneToOne
    <3>2. \A r, s : Shares(r, s) <=> Shares(s, r)
      BY DEF Shares
    <3>3. QED
      BY <1>5, <3>1, <3>2
  <2>2. QED
    BY <1>1, <1>4, <2>1 DEF LoopInv, OneToOne
<1>11. AlignedMatch'
  BY <1>1, <1>4, <1>7 DEF LoopInv, AlignedMatch
<1>12. Later'
  BY <1>1, <1>4 DEF LoopInv, Later, Policies
<1>13. SeenFirst'
  <2>1. \A r \in PairsBy(policy) \ seen' : Sooner(q, r)
    BY <1>1 DEF AlignPair
  <2>2. QED
    BY <1>1, <1>3, <1>4, <1>6, <1>7, <2>1 DEF SeenFirst
<1>14. Covered'
  BY <1>1, <1>4 DEF LoopInv, Covered, Settled
<1>15. QED
  BY <1>8, <1>9, <1>10, <1>11, <1>12, <1>13, <1>14 DEF LoopInv

(* The steps that leave the aligned pairs as they are. *)
LEMMA AlignedKept ==
  ASSUME LoopInv, UNCHANGED <<gold, predicted, aligned>>,
         AlignTypeOK', Later', SeenFirst',
         \A by \in Policies : Settled(by)' =>
           \A q \in PairsBy(by) : \E r \in aligned[by] : Covers(r, q)
  PROVE  LoopInv'
<1>1. \A by : PairsBy(by)' = PairsBy(by)
  BY DEF PairsBy, Mapped
<1>2. Input'
  BY DEF LoopInv, Input, Listed, Valid, FollowsNext, BadSpan, Precedes
<1>3. OneToOne' /\ AlignedMatch'
  BY <1>1 DEF LoopInv, OneToOne, AlignedMatch
<1>4. Covered'
  BY <1>1 DEF Covered
<1>5. QED
  BY <1>2, <1>3, <1>4 DEF LoopInv

LEMMA EndAlignKeeps ==
  ASSUME LoopInv, EndAlign
  PROVE  LoopInv'
<1>1. /\ stage = "align" /\ stage' = "cross" /\ seen' = {}
      /\ seen = PairsBy(policy)
      /\ UNCHANGED <<gold, predicted, policy, aligned, crossed>>
  BY DEF EndAlign
<1>2. AlignTypeOK' /\ Later' /\ SeenFirst'
  BY <1>1 DEF LoopInv, AlignTypeOK, Later, SeenFirst
<1>3. \A q \in PairsBy(policy) : \E r \in aligned[policy] : Covers(r, q)
  BY <1>1 DEF LoopInv, SeenFirst
<1>4. \A by \in Policies : Settled(by)' => by = policy \/ Settled(by)
  BY <1>1 DEF Settled
<1>5. QED
  BY <1>1, <1>2, <1>3, <1>4, AlignedKept DEF LoopInv, Covered

LEMMA CrossKeeps ==
  ASSUME LoopInv, EndCross \/ \E q \in gold \X predicted : CrossPair(q)
  PROVE  LoopInv'
<1>1. CASE EndCross
  <2>1. /\ policy \in Policies /\ stage = "cross"
        /\ stage' = (IF policy = "overlap" THEN "align" ELSE "scored")
        /\ policy' = "exact" /\ seen' = {}
        /\ UNCHANGED <<gold, predicted, aligned, crossed>>
    BY <1>1 DEF EndCross, LoopInv, AlignTypeOK
  <2>2. AlignTypeOK' /\ Later'
    BY <2>1 DEF LoopInv, AlignTypeOK, Later, Policies
  <2>3. SeenFirst'
    BY <2>1 DEF LoopInv, Later, SeenFirst, Policies
  <2>4. \A by \in Policies : Settled(by)' => Settled(by)
    BY <2>1 DEF Settled, Policies
  <2>5. QED
    BY <2>1, <2>2, <2>3, <2>4, AlignedKept DEF LoopInv, Covered
<1>2. ASSUME NEW q \in gold \X predicted, CrossPair(q) PROVE LoopInv'
  <2>1. /\ policy \in Policies /\ stage = "cross" /\ seen' = seen \cup {q}
        /\ crossed' = [crossed EXCEPT ![policy] = Taken(q, crossed[policy])]
        /\ UNCHANGED <<gold, predicted, policy, stage, aligned>>
    BY <1>2 DEF CrossPair, LoopInv, AlignTypeOK
  <2>2. AlignTypeOK'
    BY <2>1 DEF LoopInv, AlignTypeOK, Taken
  <2>3. Later' /\ SeenFirst'
    BY <2>1 DEF LoopInv, Later, SeenFirst
  <2>4. \A by \in Policies : Settled(by)' => Settled(by)
    BY <2>1 DEF Settled
  <2>5. QED
    BY <2>1, <2>2, <2>3, <2>4, AlignedKept DEF LoopInv, Covered
<1>3. QED
  BY <1>1, <1>2

LEMMA LoopStutters ==
  ASSUME LoopInv, UNCHANGED alignVars
  PROVE  LoopInv'
<1>1. UNCHANGED <<gold, predicted, policy, stage, seen, aligned, crossed>>
  BY DEF alignVars
<1>2. AlignTypeOK' /\ Later'
  BY <1>1 DEF LoopInv, AlignTypeOK, Later
<1>3. SeenFirst'
  BY <1>1 DEF LoopInv, SeenFirst, PairsBy, Mapped
<1>4. \A by \in Policies : Settled(by)' => Settled(by)
  BY <1>1 DEF Settled
<1>5. QED
  BY <1>1, <1>2, <1>3, <1>4, AlignedKept DEF LoopInv, Covered

LEMMA LoopKeeps ==
  ASSUME LoopInv, AlignNext
  PROVE  LoopInv'
<1>1. ASSUME NEW q \in gold \X predicted, AlignPair(q) PROVE LoopInv'
  BY <1>1, AlignPairKeeps
<1>2. CASE EndAlign
  BY <1>2, EndAlignKeeps
<1>3. CASE EndCross \/ \E q \in gold \X predicted : CrossPair(q)
  BY <1>3, CrossKeeps
<1>4. QED
  BY <1>1, <1>2, <1>3 DEF AlignNext

LEMMA LoopInvariant == AlignSpec => []LoopInv
<1>1. /\ gold \in SUBSET Entities /\ Valid(gold) /\ Listed(gold)
      /\ predicted \in SUBSET Spans /\ Listed(predicted)
      /\ AlignStart
      => LoopInv
  BY DEF AlignStart, LoopInv, AlignTypeOK, Input, OneToOne, AlignedMatch, Later,
         SeenFirst, Covered, Settled, Policies
<1>2. LoopInv /\ [AlignNext]_alignVars => LoopInv'
  BY LoopKeeps, LoopStutters
<1>3. QED
  BY <1>1, <1>2, PTL DEF AlignSpec

-----------------------------------------------------------------------------
(* Each entity and each span is used once, and a pair that is passed over  *)
(* has lost its entity or its span to a pair that overlaps as much.        *)
LEMMA LoopStable == LoopInv => Stable
BY DEF LoopInv, OneToOne, Covered, Stable, Covers, Shares

(* Strict recall never exceeds the primary one: an entity matched exactly  *)
(* loses its span under the primary policy only to an entity that covers   *)
(* the whole span, and validation allows no two of those of one type.      *)
LEMMA LoopStrict == LoopInv => ExactWithinOverlap
<1> SUFFICES ASSUME LoopInv, stage = "scored", NEW q \in aligned["exact"]
             PROVE  q[1] \in Firsts(aligned["overlap"])
  BY DEF ExactWithinOverlap, Firsts
<1>1. /\ "exact" \in Policies /\ "overlap" \in Policies
      /\ q \in PairsBy("exact") /\ q \in Entities \X Spans
  BY PairsTyped DEF LoopInv, AlignedMatch, Policies
<1>2. /\ q[1] \in gold /\ q[2] \in Mapped /\ q[1].type = TypeOf(q[2])
      /\ q[1].start = q[2].start /\ q[1].end = q[2].end
  BY <1>1 DEF PairsBy, Matches, SameExtent
<1>3. q[1].start < q[1].end
  BY <1>2 DEF LoopInv, Input, Valid, BadSpan
<1>4. Overlap(q[1], q[2]) = q[1].end - q[1].start
  BY <1>1, <1>2, <1>3, SpanAssumption DEF Overlap, Least, Most
<1>5. q \in PairsBy("overlap")
  BY <1>1, <1>2, <1>3, <1>4, SpanAssumption DEF PairsBy, Matches
<1>6. PICK r \in aligned["overlap"] : Covers(r, q)
  BY <1>1, <1>5 DEF LoopInv, Covered, Settled
<1>7. r[1] = q[1]
  <2> SUFFICES ASSUME r[1] # q[1] PROVE FALSE
    OBVIOUS
  <2>1. /\ r \in PairsBy("overlap") /\ r \in Entities \X Spans
        /\ r[2] = q[2] /\ r[1] \in gold /\ r[1].type = q[1].type
    BY <1>1, <1>2, <1>6, PairsTyped
       DEF LoopInv, AlignedMatch, Covers, Shares, PairsBy, Matches
  <2>2. Overlap(r[1], q[2]) >= q[1].end - q[1].start
    BY <1>4, <1>6, <2>1 DEF Covers
  <2>3. r[1].start <= q[1].start /\ q[1].end <= r[1].end
    BY <1>1, <1>2, <1>3, <2>1, <2>2, SpanAssumption DEF Overlap, Least, Most
  <2>4. q[1].end <= r[1].start \/ r[1].end <= q[1].start
    BY <1>2, <2>1, SameTypeApart DEF LoopInv, Input
  <2>5. QED
    BY <1>1, <1>3, <2>1, <2>3, <2>4, SpanAssumption
<1>8. QED
  BY <1>6, <1>7 DEF Firsts

(* The same of the alignment of one document alone.                        *)
THEOREM AlignmentIsStable == AlignSpec => []Stable
BY LoopStable, LoopInvariant, PTL

(* And the strict policy within the primary one.                           *)
THEOREM StrictWithinPrimary == AlignSpec => []ExactWithinOverlap
BY LoopStrict, LoopInvariant, PTL

-----------------------------------------------------------------------------
(* The pairs of positional_pairs: an entity and a span that are both left  *)
(* over by a completed alignment, each in one pair.                        *)
CrossInv ==
  \A by \in Policies :
    /\ Settled(by) \/ crossed[by] = {}
    /\ crossed[by] \subseteq CrossPairs(by)
    /\ \A q, r \in crossed[by] : Shares(q, r) => q = r

LEMMA CrossInvSteps ==
  ASSUME LoopInv, CrossInv, AlignNext
  PROVE  CrossInv'
<1> USE DEF Policies
<1>1. ASSUME NEW q \in gold \X predicted, AlignPair(q) PROVE CrossInv'
  <2>1. /\ policy \in Policies /\ stage = "align"
        /\ aligned' = [aligned EXCEPT ![policy] = Taken(q, @)]
        /\ UNCHANGED <<gold, predicted, policy, stage, crossed>>
        /\ aligned \in [Policies -> SUBSET (gold \X predicted)]
    BY <1>1 DEF AlignPair, LoopInv, AlignTypeOK
  <2>2. crossed[policy] = {}
    BY <2>1 DEF CrossInv, Settled, LoopInv, Later
  <2>3. \A by \in Policies : by # policy => aligned'[by] = aligned[by]
    BY <2>1
  <2>4. \A by \in Policies : by # policy => CrossPairs(by)' = CrossPairs(by)
    BY <2>1, <2>3 DEF CrossPairs, Missed, SpuriousSpans, Mapped
  <2>5. \A by : Settled(by)' <=> Settled(by)
    BY <2>1 DEF Settled
  <2>6. QED
    BY <2>1, <2>2, <2>4, <2>5 DEF CrossInv
<1>2. ASSUME NEW q \in gold \X predicted, CrossPair(q) PROVE CrossInv'
  <2>1. /\ policy \in Policies /\ stage = "cross"
        /\ q \in CrossPairs(policy)
        /\ crossed' = [crossed EXCEPT ![policy] = Taken(q, @)]
        /\ UNCHANGED <<gold, predicted, policy, stage, aligned>>
        /\ crossed \in [Policies -> SUBSET (gold \X predicted)]
    BY <1>2 DEF CrossPair, LoopInv, AlignTypeOK
  <2>2. \A by : CrossPairs(by)' = CrossPairs(by) /\ (Settled(by)' <=> Settled(by))
    BY <2>1 DEF CrossPairs, Missed, SpuriousSpans, Mapped, Settled
  <2> DEFINE now == crossed[policy]
  <2>3. \/ Taken(q, now) = now
        \/ Taken(q, now) = now \cup {q} /\ ~ \E r \in now : Shares(q, r)
    BY DEF Taken, Free, Firsts, Seconds, Shares
  <2>4. crossed'[policy] = Taken(q, now) /\ \A by \in Policies : by # policy => crossed'[by] = crossed[by]
    BY <2>1
  <2>5. now \subseteq CrossPairs(policy) /\ \A r, s \in now : Shares(r, s) => r = s
    BY <2>1 DEF CrossInv
  <2>6. \A r, s : Shares(r, s) <=> Shares(s, r)
    BY DEF Shares
  <2>7. Taken(q, now) \subseteq CrossPairs(policy) /\ \A r, s \in Taken(q, now) : Shares(r, s) => r = s
    BY <2>1, <2>3, <2>5, <2>6
  <2>8. Settled(policy)
    BY <2>1 DEF Settled
  <2> HIDE DEF now
  <2> SUFFICES ASSUME NEW by \in Policies
               PROVE  /\ Settled(by) \/ crossed'[by] = {}
                      /\ crossed'[by] \subseteq CrossPairs(by)
                      /\ \A r, s \in crossed'[by] : Shares(r, s) => r = s
    BY <2>2 DEF CrossInv
  <2>9. CASE by = policy
    BY <2>4, <2>7, <2>8, <2>9
  <2>10. CASE by # policy
    BY <2>4, <2>10 DEF CrossInv
  <2>11. QED
    BY <2>9, <2>10
<1>3. ASSUME EndAlign \/ EndCross PROVE CrossInv'
  <2>1. UNCHANGED <<gold, predicted, aligned, crossed>>
    BY <1>3 DEF EndAlign, EndCross
  <2>2. \A by : CrossPairs(by)' = CrossPairs(by)
    BY <2>1 DEF CrossPairs, Missed, SpuriousSpans, Mapped
  <2>3. \A by \in Policies : Settled(by) => Settled(by)'
    BY <1>3 DEF EndAlign, EndCross, Settled, LoopInv, Later, AlignTypeOK
  <2>4. QED
    BY <2>1, <2>2, <2>3 DEF CrossInv
<1>4. QED
  BY <1>1, <1>2, <1>3 DEF AlignNext

-----------------------------------------------------------------------------
(* What the counts of one report say of each other. *)

Agrees(report, by) ==
  \A type \in Types :
    LET counts == report.perType[type]
        matrix == report.matrix
    IN /\ counts.support = counts.tp + counts.fn
       /\ counts.support = SumFunction([label \in Labels |-> matrix[<<type, label>>]])
       /\ counts.tp + counts.fp = SumFunction([label \in Labels |-> matrix[<<label, type>>]])
       /\ by = "overlap" => matrix[<<type, type>>] = counts.tp
       /\ matrix[<<Spurious, Miss>>] = report.unmapped

(* A relation that is one-to-one has as many pairs as first members, and   *)
(* as second ones.                                                         *)
LEMMA CountPairs ==
  ASSUME NEW Q, IsFiniteSet(Q), \A q, r \in Q : Shares(q, r) => q = r
  PROVE  /\ Cardinality(Firsts(Q)) = Cardinality(Q) /\ IsFiniteSet(Firsts(Q))
         /\ Cardinality(Seconds(Q)) = Cardinality(Q) /\ IsFiniteSet(Seconds(Q))
<1> DEFINE one == [q \in Q |-> q[1]]
           two == [q \in Q |-> q[2]]
<1>1. one \in Bijection(Q, Firsts(Q))
  BY DEF Bijection, Injection, Surjection, IsInjective, Firsts, Shares
<1>2. two \in Bijection(Q, Seconds(Q))
  BY DEF Bijection, Injection, Surjection, IsInjective, Seconds, Shares
<1>3. ExistsBijection(Q, Firsts(Q)) /\ ExistsBijection(Q, Seconds(Q))
  BY <1>1, <1>2 DEF ExistsBijection
<1>4. QED
  BY <1>3, FS_Bijection

LEMMA CountParts ==
  ASSUME NEW S, IsFiniteSet(S), NEW A \in SUBSET S, NEW B \in SUBSET S, A \cap B = {}, A \cup B = S
  PROVE  Cardinality(S) = Cardinality(A) + Cardinality(B)
<1>1. IsFiniteSet(A) /\ IsFiniteSet(B)
  BY FS_Subset
<1>2. Cardinality(A \cap B) = 0
  BY FS_EmptySet
<1>3. Cardinality(A) \in Nat /\ Cardinality(B) \in Nat
  BY <1>1, FS_CardinalityType
<1>4. Cardinality(A \cup B) = Cardinality(A) + Cardinality(B) - Cardinality(A \cap B)
  BY <1>1, FS_Union
<1>5. QED
  BY <1>2, <1>3, <1>4


(* All pairs of a report: those that match and those that only overlap.    *)
PairsOf(by) == aligned[by] \cup crossed[by]

LEMMA ReportPairs ==
  ASSUME LoopInv, CrossInv, NEW by \in Policies
  PROVE  /\ PairsOf(by) \subseteq gold \X Mapped
         /\ \A q, r \in PairsOf(by) : Shares(q, r) => q = r
<1>1. aligned[by] \subseteq gold \X Mapped /\ \A q, r \in aligned[by] : Shares(q, r) => q = r
  BY DEF LoopInv, AlignedMatch, PairsBy, OneToOne
<1>2. /\ crossed[by] \subseteq Missed(by) \X SpuriousSpans(by)
      /\ \A q, r \in crossed[by] : Shares(q, r) => q = r
  BY DEF CrossInv, CrossPairs
<1>3. \A q \in aligned[by], r \in crossed[by] : ~Shares(q, r) /\ ~Shares(r, q)
  BY <1>2 DEF Shares, Missed, SpuriousSpans, Firsts, Seconds
<1>4. QED
  BY <1>1, <1>2, <1>3 DEF PairsOf, Missed, SpuriousSpans

LEMMA LabelsFinite == IsFiniteSet(Labels)
<1>1. IsFiniteSet({Miss}) /\ IsFiniteSet({Spurious})
  BY FS_Singleton
<1>2. IsFiniteSet({Miss} \cup {Spurious})
  BY <1>1, FS_Union
<1>3. Labels = Types \cup ({Miss} \cup {Spurious})
  BY DEF Labels
<1>4. QED
  BY <1>2, <1>3, FS_Union, SpanAssumption

(* A row of the matrix counts each entity of its type once: under the type *)
(* of its span, or as missed.                                              *)
LEMMA RowSum ==
  ASSUME LoopInv, CrossInv, IsFiniteSet(gold), IsFiniteSet(predicted),
         NEW by \in Policies, NEW type \in Types
  PROVE  Cardinality({e \in gold : e.type = type})
           = SumFunction([label \in Labels |-> Report(by).matrix[<<type, label>>]])
<1> DEFINE M == PairsOf(by)
           X == {e \in gold : e.type = type}
           Of(e) == CHOOSE q \in M : q[1] = e
           v == [e \in gold |-> IF e \in Firsts(M) THEN TypeOf(Of(e)[2]) ELSE Miss]
<1>1. M \subseteq gold \X Mapped /\ \A q, r \in M : Shares(q, r) => q = r
  BY ReportPairs
<1>2. \A p \in Mapped : TypeOf(p) \in Types
  BY SpanAssumption DEF LoopInv, Input, Mapped, TypeOf
<1>3. Miss \notin Types /\ Spurious \notin Types /\ Miss # Spurious
  BY SpanAssumption DEF Miss, Spurious
<1>4. \A q \in M : v[q[1]] = TypeOf(q[2]) /\ TypeOf(q[2]) \in Types
  <2> SUFFICES ASSUME NEW q \in M PROVE v[q[1]] = TypeOf(q[2]) /\ TypeOf(q[2]) \in Types
    OBVIOUS
  <2>1. q[1] \in gold /\ q[1] \in Firsts(M) /\ q[2] \in Mapped
    BY <1>1 DEF Firsts
  <2>2. Of(q[1]) = q
    BY <1>1 DEF Shares
  <2>3. QED
    BY <1>2, <2>1, <2>2
<1>5. \A e \in gold : e \notin Firsts(M) => v[e] = Miss
  OBVIOUS
<1>6. IsFiniteSet(X) /\ IsFiniteSet(M) /\ IsFiniteSet(Labels)
  <2>1. IsFiniteSet(gold \X predicted) /\ M \subseteq gold \X predicted
    BY <1>1, FS_Product DEF Mapped
  <2>2. IsFiniteSet(Labels)
    BY LabelsFinite
  <2>3. QED
    BY <2>1, <2>2, FS_Subset
<1>7. \A q \in M : q[1] \in gold /\ q[1] \in Firsts(M)
  BY <1>1 DEF Firsts
<1> HIDE DEF v
<1>8. ASSUME NEW c \in Types
      PROVE  Cell(by, type, c) = Cardinality({e \in X : v[e] = c})
  <2> DEFINE Q == {q \in M : CellOf(q) = <<type, c>>}
  <2>1. Cell(by, type, c) = Cardinality(Q)
    BY DEF Cell, PairsOf
  <2>2. Cardinality(Firsts(Q)) = Cardinality(Q)
    BY <1>1, <1>6, CountPairs, FS_Subset
  <2>3. ASSUME NEW e \in Firsts(Q) PROVE e \in X /\ v[e] = c
    <3>1. PICK q \in M : CellOf(q) = <<type, c>> /\ q[1] = e
      BY DEF Firsts
    <3>2. QED
      BY <1>4, <1>7, <3>1 DEF CellOf
  <2>4. ASSUME NEW e \in X, v[e] = c PROVE e \in Firsts(Q)
    <3>1. e \in Firsts(M)
      BY <1>3, <1>5, <2>4
    <3>2. PICK q \in M : q[1] = e
      BY <3>1 DEF Firsts
    <3>3. CellOf(q) = <<type, c>>
      BY <1>4, <2>4, <3>2 DEF CellOf
    <3>4. QED
      BY <3>2, <3>3 DEF Firsts
  <2>5. Firsts(Q) = {e \in X : v[e] = c}
    BY <2>3, <2>4
  <2>6. QED
    BY <2>1, <2>2, <2>5
<1>9. Cell(by, type, Miss) = Cardinality({e \in X : v[e] = Miss})
  <2>1. Cell(by, type, Miss) = Cardinality({e \in Missed(by) \ Firsts(crossed[by]) : e.type = type})
    BY <1>3 DEF Cell
  <2>2. \A e : e \in Firsts(M) <=> e \in Firsts(aligned[by]) \/ e \in Firsts(crossed[by])
    BY DEF Firsts, PairsOf
  <2>3. \A e \in Firsts(M) : v[e] # Miss
    BY <1>3, <1>4 DEF Firsts
  <2>4. {e \in Missed(by) \ Firsts(crossed[by]) : e.type = type} = {e \in X : v[e] = Miss}
    BY <1>5, <2>2, <2>3 DEF Missed
  <2>5. QED
    BY <2>1, <2>4
<1>10. Cell(by, type, Spurious) = Cardinality({e \in X : v[e] = Spurious})
  <2>1. Cell(by, type, Spurious) = 0
    BY <1>3 DEF Cell
  <2>2. ASSUME NEW e \in X PROVE v[e] # Spurious
    <3>1. CASE e \in Firsts(M)
      BY <1>3, <1>4, <3>1 DEF Firsts
    <3>2. CASE e \notin Firsts(M)
      BY <1>3, <1>5, <3>2
    <3>3. QED
      BY <3>1, <3>2
  <2>3. {e \in X : v[e] = Spurious} = {}
    BY <2>2
  <2>4. QED
    BY <2>1, <2>3, FS_EmptySet
<1>11. [label \in Labels |-> Report(by).matrix[<<type, label>>]] = Tally(v, X, Labels)
  <2>1. \A label \in Labels : Report(by).matrix[<<type, label>>] = Cell(by, type, label)
    BY DEF Report, Labels
  <2>2. \A label \in Labels : Cell(by, type, label) = Cardinality({e \in X : v[e] = label})
    BY <1>8, <1>9, <1>10 DEF Labels
  <2>3. QED
    BY <2>1, <2>2 DEF Tally
<1>12. {e \in X : v[e] \in Labels} = X
  <2>1. ASSUME NEW e \in X PROVE v[e] \in Labels
    <3>1. CASE e \in Firsts(M)
      BY <1>4, <3>1 DEF Firsts, Labels
    <3>2. CASE e \notin Firsts(M)
      BY <1>5, <3>2 DEF Labels
    <3>3. QED
      BY <3>1, <3>2
  <2>2. QED
    BY <2>1
<1>13. SumFunction(Tally(v, X, Labels)) = Cardinality({e \in X : v[e] \in Labels})
  BY <1>6, TallySum
<1>14. QED
  BY <1>11, <1>12, <1>13

(* A column counts each span of its type once: under the type of its       *)
(* entity, or as spurious.                                                 *)
LEMMA ColumnSum ==
  ASSUME LoopInv, CrossInv, IsFiniteSet(gold), IsFiniteSet(predicted),
         NEW by \in Policies, NEW type \in Types
  PROVE  Cardinality({p \in Mapped : TypeOf(p) = type})
           = SumFunction([label \in Labels |-> Report(by).matrix[<<label, type>>]])
<1> DEFINE M == PairsOf(by)
           X == {p \in Mapped : TypeOf(p) = type}
           Of(p) == CHOOSE q \in M : q[2] = p
           v == [p \in Mapped |-> IF p \in Seconds(M) THEN Of(p)[1].type ELSE Spurious]
<1>1. M \subseteq gold \X Mapped /\ \A q, r \in M : Shares(q, r) => q = r
  BY ReportPairs
<1>2. \A e \in gold : e.type \in Types
  BY DEF LoopInv, Input, Valid
<1>3. Miss \notin Types /\ Spurious \notin Types /\ Miss # Spurious
  BY SpanAssumption DEF Miss, Spurious
<1>4. \A q \in M : v[q[2]] = q[1].type /\ q[1].type \in Types
  <2> SUFFICES ASSUME NEW q \in M PROVE v[q[2]] = q[1].type /\ q[1].type \in Types
    OBVIOUS
  <2>1. q[1] \in gold /\ q[2] \in Seconds(M) /\ q[2] \in Mapped
    BY <1>1 DEF Seconds
  <2>2. Of(q[2]) = q
    BY <1>1 DEF Shares
  <2>3. QED
    BY <1>2, <2>1, <2>2
<1>5. \A p \in Mapped : p \notin Seconds(M) => v[p] = Spurious
  OBVIOUS
<1>6. IsFiniteSet(X) /\ IsFiniteSet(M) /\ IsFiniteSet(Labels)
  <2>1. IsFiniteSet(gold \X predicted) /\ M \subseteq gold \X predicted
    BY <1>1, FS_Product DEF Mapped
  <2>2. IsFiniteSet(Labels)
    BY LabelsFinite
  <2>3. X \subseteq predicted
    BY DEF Mapped
  <2>4. QED
    BY <2>1, <2>2, <2>3, FS_Subset
<1>7. \A q \in M : q[2] \in Mapped /\ q[2] \in Seconds(M)
  BY <1>1 DEF Seconds
<1> HIDE DEF v
<1>8. ASSUME NEW c \in Types
      PROVE  Cell(by, c, type) = Cardinality({p \in X : v[p] = c})
  <2> DEFINE Q == {q \in M : CellOf(q) = <<c, type>>}
  <2>1. Cell(by, c, type) = Cardinality(Q)
    BY DEF Cell, PairsOf
  <2>2. Cardinality(Seconds(Q)) = Cardinality(Q)
    BY <1>1, <1>6, CountPairs, FS_Subset
  <2>3. ASSUME NEW p \in Seconds(Q) PROVE p \in X /\ v[p] = c
    <3>1. PICK q \in M : CellOf(q) = <<c, type>> /\ q[2] = p
      BY DEF Seconds
    <3>2. QED
      BY <1>4, <1>7, <3>1 DEF CellOf
  <2>4. ASSUME NEW p \in X, v[p] = c PROVE p \in Seconds(Q)
    <3>1. p \in Seconds(M)
      BY <1>3, <1>5, <2>4
    <3>2. PICK q \in M : q[2] = p
      BY <3>1 DEF Seconds
    <3>3. CellOf(q) = <<c, type>>
      BY <1>4, <2>4, <3>2 DEF CellOf
    <3>4. QED
      BY <3>2, <3>3 DEF Seconds
  <2>5. Seconds(Q) = {p \in X : v[p] = c}
    BY <2>3, <2>4
  <2>6. QED
    BY <2>1, <2>2, <2>5
<1>9. Cell(by, Spurious, type) = Cardinality({p \in X : v[p] = Spurious})
  <2>1. Cell(by, Spurious, type)
          = Cardinality({p \in SpuriousSpans(by) \ Seconds(crossed[by]) : TypeOf(p) = type})
    BY <1>3 DEF Cell
  <2>2. \A p : p \in Seconds(M) <=> p \in Seconds(aligned[by]) \/ p \in Seconds(crossed[by])
    BY DEF Seconds, PairsOf
  <2>3. \A p \in Seconds(M) : v[p] # Spurious
    BY <1>3, <1>4 DEF Seconds
  <2>4. {p \in SpuriousSpans(by) \ Seconds(crossed[by]) : TypeOf(p) = type} = {p \in X : v[p] = Spurious}
    BY <1>5, <2>2, <2>3 DEF SpuriousSpans
  <2>5. QED
    BY <2>1, <2>4
<1>10. Cell(by, Miss, type) = Cardinality({p \in X : v[p] = Miss})
  <2>1. Cell(by, Miss, type) = 0
    BY <1>3 DEF Cell
  <2>2. ASSUME NEW p \in X PROVE v[p] # Miss
    <3>1. CASE p \in Seconds(M)
      BY <1>3, <1>4, <3>1 DEF Seconds
    <3>2. CASE p \notin Seconds(M)
      BY <1>3, <1>5, <3>2
    <3>3. QED
      BY <3>1, <3>2
  <2>3. {p \in X : v[p] = Miss} = {}
    BY <2>2
  <2>4. QED
    BY <2>1, <2>3, FS_EmptySet
<1>11. [label \in Labels |-> Report(by).matrix[<<label, type>>]] = Tally(v, X, Labels)
  <2>1. \A label \in Labels : Report(by).matrix[<<label, type>>] = Cell(by, label, type)
    BY DEF Report, Labels
  <2>2. \A label \in Labels : Cell(by, label, type) = Cardinality({p \in X : v[p] = label})
    BY <1>8, <1>9, <1>10 DEF Labels
  <2>3. QED
    BY <2>1, <2>2 DEF Tally
<1>12. {p \in X : v[p] \in Labels} = X
  <2>1. ASSUME NEW p \in X PROVE v[p] \in Labels
    <3>1. CASE p \in Seconds(M)
      BY <1>4, <3>1 DEF Seconds, Labels
    <3>2. CASE p \notin Seconds(M)
      BY <1>5, <3>2 DEF Labels
    <3>3. QED
      BY <3>1, <3>2
  <2>2. QED
    BY <2>1
<1>13. SumFunction(Tally(v, X, Labels)) = Cardinality({p \in X : v[p] \in Labels})
  BY <1>6, TallySum
<1>14. QED
  BY <1>11, <1>12, <1>13

(* The shape of a report.                                                  *)
Counts == [tp : Nat, fn : Nat, fp : Nat, support : Nat]
Reports == [perType : [Types -> Counts], matrix : [Labels \X Labels -> Nat], unmapped : Nat]

LEMMA ReportType ==
  ASSUME LoopInv, CrossInv, IsFiniteSet(gold), IsFiniteSet(predicted), NEW by \in Policies
  PROVE  Report(by) \in Reports
<1>1. \A S : S \subseteq gold \/ S \subseteq predicted => IsFiniteSet(S) /\ Cardinality(S) \in Nat
  BY FS_Subset, FS_CardinalityType
<1>2. \A Q : Q \subseteq PairsOf(by) => IsFiniteSet(Q) /\ Cardinality(Q) \in Nat
  <2>1. IsFiniteSet(gold \X predicted) /\ PairsOf(by) \subseteq gold \X predicted
    BY ReportPairs, FS_Product DEF Mapped
  <2>2. QED
    BY <2>1, FS_Subset, FS_CardinalityType
<1>3. ASSUME NEW type \in Types PROVE CountsOf(by, type) \in Counts
  <2>1. Firsts(aligned[by]) \subseteq gold
    BY ReportPairs DEF PairsOf, Firsts
  <2> DEFINE tp == {e \in Firsts(aligned[by]) : e.type = type}
             fn == {e \in Missed(by) : e.type = type}
             fp == {p \in SpuriousSpans(by) : TypeOf(p) = type}
             all == {e \in gold : e.type = type}
  <2>2. tp \subseteq gold /\ fn \subseteq gold /\ fp \subseteq predicted /\ all \subseteq gold
    BY <2>1 DEF Missed, SpuriousSpans, Mapped
  <2>3. CountsOf(by, type) = [tp |-> Cardinality(tp), fn |-> Cardinality(fn),
                              fp |-> Cardinality(fp), support |-> Cardinality(all)]
    BY DEF CountsOf
  <2> HIDE DEF tp, fn, fp, all
  <2>4. QED
    BY <1>1, <2>2, <2>3 DEF Counts
<1>4. ASSUME NEW row, NEW column PROVE Cell(by, row, column) \in Nat
  <2> DEFINE A == {q \in aligned[by] \cup crossed[by] : CellOf(q) = <<row, column>>}
             B == {e \in Missed(by) \ Firsts(crossed[by]) : e.type = row}
             C == {p \in SpuriousSpans(by) \ Seconds(crossed[by]) : TypeOf(p) = column}
             D == predicted \ Mapped
  <2>1. A \subseteq PairsOf(by) /\ B \subseteq gold /\ C \subseteq predicted /\ D \subseteq predicted
    BY DEF PairsOf, Missed, SpuriousSpans, Mapped
  <2>2. Cell(by, row, column) \in {Cardinality(A), Cardinality(B), Cardinality(C), Cardinality(D), 0}
    BY DEF Cell
  <2> HIDE DEF A, B, C, D
  <2>3. QED
    BY <1>1, <1>2, <2>1, <2>2
<1>5. Cardinality(predicted \ Mapped) \in Nat
  BY <1>1
<1>6. QED
  BY <1>3, <1>4, <1>5 DEF Report, Reports

LEMMA ReportAgrees ==
  ASSUME LoopInv, CrossInv, IsFiniteSet(gold), IsFiniteSet(predicted),
         stage = "scored", NEW by \in Policies
  PROVE  Agrees(Report(by), by)
<1> SUFFICES ASSUME NEW type \in Types
             PROVE  LET counts == Report(by).perType[type]
                        matrix == Report(by).matrix
                    IN /\ counts.support = counts.tp + counts.fn
                       /\ counts.support = SumFunction([label \in Labels |-> matrix[<<type, label>>]])
                       /\ counts.tp + counts.fp = SumFunction([label \in Labels |-> matrix[<<label, type>>]])
                       /\ by = "overlap" => matrix[<<type, type>>] = counts.tp
                       /\ matrix[<<Spurious, Miss>>] = Report(by).unmapped
  BY DEF Agrees
<1> DEFINE tp == {e \in Firsts(aligned[by]) : e.type = type}
           fn == {e \in Missed(by) : e.type = type}
           fp == {p \in SpuriousSpans(by) : TypeOf(p) = type}
           all == {e \in gold : e.type = type}
           hits == {q \in aligned[by] : q[1].type = type}
           found == {p \in Seconds(aligned[by]) : TypeOf(p) = type}
           spans == {p \in Mapped : TypeOf(p) = type}
<1>1. Report(by).perType[type] = [tp |-> Cardinality(tp), fn |-> Cardinality(fn),
                                  fp |-> Cardinality(fp), support |-> Cardinality(all)]
  BY DEF Report, CountsOf
<1>2. /\ aligned[by] \subseteq gold \X Mapped
      /\ \A q, r \in aligned[by] : Shares(q, r) => q = r
      /\ \A q \in aligned[by] : q[1].type = TypeOf(q[2])
  BY DEF LoopInv, AlignedMatch, PairsBy, Matches, OneToOne
<1>3. IsFiniteSet(all) /\ IsFiniteSet(spans) /\ IsFiniteSet(hits)
  <2>1. IsFiniteSet(gold \X predicted) /\ hits \subseteq gold \X predicted /\ spans \subseteq predicted
    BY <1>2, FS_Product DEF Mapped
  <2>2. QED
    BY <2>1, FS_Subset
<1>4. Cardinality(all) = Cardinality(tp) + Cardinality(fn)
  <2>1. tp \in SUBSET all /\ fn \in SUBSET all /\ tp \cap fn = {} /\ tp \cup fn = all
    BY <1>2 DEF Firsts, Missed
  <2> HIDE DEF tp, fn, all
  <2>2. QED
    BY <1>3, <2>1, CountParts
<1>5. Cardinality(tp) = Cardinality(found)
  <2>1. Firsts(hits) = tp /\ Seconds(hits) = found
    BY <1>2 DEF Firsts, Seconds
  <2>2. \A q, r \in hits : Shares(q, r) => q = r
    BY <1>2
  <2> HIDE DEF tp, found, hits
  <2>3. QED
    BY <1>3, <2>1, <2>2, CountPairs
<1>6. Cardinality(spans) = Cardinality(found) + Cardinality(fp)
  <2>1. /\ found \in SUBSET spans /\ fp \in SUBSET spans
        /\ found \cap fp = {} /\ found \cup fp = spans
    BY <1>2 DEF Seconds, SpuriousSpans
  <2> HIDE DEF found, fp, spans
  <2>2. QED
    BY <1>3, <2>1, CountParts
<1>7. ASSUME by = "overlap" PROVE Cell(by, type, type) = Cardinality(tp)
  <2>1. \A q \in crossed[by] : q[1].type # TypeOf(q[2])
    <3> SUFFICES ASSUME NEW q \in crossed[by], q[1].type = TypeOf(q[2]) PROVE FALSE
      OBVIOUS
    <3>1. /\ q \in Missed(by) \X SpuriousSpans(by) /\ Overlap(q[1], q[2]) > 0
      BY DEF CrossInv, CrossPairs
    <3>2. q \in PairsBy(by)
      BY <1>7, <3>1 DEF PairsBy, Matches, Missed, SpuriousSpans
    <3>3. PICK r \in aligned[by] : Covers(r, q)
      BY <3>2 DEF LoopInv, Covered, Settled
    <3>4. QED
      BY <3>1, <3>3 DEF Covers, Shares, Missed, SpuriousSpans, Firsts, Seconds
  <2>2. {q \in aligned[by] \cup crossed[by] : CellOf(q) = <<type, type>>} = hits
    BY <1>2, <2>1 DEF CellOf
  <2>3. Firsts(hits) = tp /\ \A q, r \in hits : Shares(q, r) => q = r
    BY <1>2 DEF Firsts
  <2>4. Cell(by, type, type) = Cardinality(hits)
    BY <2>2 DEF Cell
  <2> HIDE DEF hits, tp
  <2>5. QED
    BY <1>3, <2>3, <2>4, CountPairs
<1>8. Report(by).matrix[<<type, type>>] = Cell(by, type, type)
  BY DEF Report, Labels
<1>9. Report(by).matrix[<<Spurious, Miss>>] = Report(by).unmapped
  <2>1. Cell(by, Spurious, Miss) = Cardinality(predicted \ Mapped)
    BY SpanAssumption DEF Cell, Miss, Spurious
  <2>2. QED
    BY <2>1 DEF Report, Labels
<1>10. Cardinality(all) = SumFunction([label \in Labels |-> Report(by).matrix[<<type, label>>]])
  BY RowSum
<1>11. Cardinality(spans) = SumFunction([label \in Labels |-> Report(by).matrix[<<label, type>>]])
  BY ColumnSum
<1> HIDE DEF tp, fn, fp, found, hits, all, spans
<1>12. /\ Report(by).perType[type].tp = Cardinality(tp) /\ Report(by).perType[type].fn = Cardinality(fn)
       /\ Report(by).perType[type].fp = Cardinality(fp)
       /\ Report(by).perType[type].support = Cardinality(all)
  BY <1>1
<1>13. Cardinality(tp) + Cardinality(fp) = Cardinality(spans)
  BY <1>5, <1>6
<1>14. QED
  BY <1>4, <1>7, <1>8, <1>9, <1>10, <1>11, <1>12, <1>13, Zenon


-----------------------------------------------------------------------------
(* The sums over the documents. *)

LEMMA NoReportAgrees ==
  ASSUME NEW by \in Policies
  PROVE  NoReport \in Reports /\ Agrees(NoReport, by)
<1>1. NoReport \in Reports
  BY DEF NoReport, Reports, Counts
<1>2. ASSUME NEW type \in Types
      PROVE  /\ SumFunction([label \in Labels |-> NoReport.matrix[<<type, label>>]]) = 0
             /\ SumFunction([label \in Labels |-> NoReport.matrix[<<label, type>>]]) = 0
             /\ NoReport.matrix[<<type, type>>] = 0 /\ NoReport.matrix[<<Spurious, Miss>>] = 0
  <2>1. /\ [label \in Labels |-> NoReport.matrix[<<type, label>>]] \in [Labels -> {0}]
        /\ [label \in Labels |-> NoReport.matrix[<<label, type>>]] \in [Labels -> {0}]
        /\ NoReport.matrix[<<type, type>>] = 0 /\ NoReport.matrix[<<Spurious, Miss>>] = 0
    BY DEF NoReport, Labels
  <2>2. QED
    BY <2>1, SumOfZeros, LabelsFinite
<1>3. /\ \A type \in Types : /\ NoReport.perType[type].tp = 0 /\ NoReport.perType[type].fn = 0
                               /\ NoReport.perType[type].fp = 0 /\ NoReport.perType[type].support = 0
      /\ NoReport.unmapped = 0
  BY DEF NoReport
<1> HIDE DEF NoReport
<1>4. Agrees(NoReport, by)
  <2> DEFINE R == NoReport
  <2> SUFFICES ASSUME NEW type \in Types
               PROVE  /\ R.perType[type].support = R.perType[type].tp + R.perType[type].fn
                      /\ R.perType[type].support = SumFunction([label \in Labels |-> R.matrix[<<type, label>>]])
                      /\ R.perType[type].tp + R.perType[type].fp
                           = SumFunction([label \in Labels |-> R.matrix[<<label, type>>]])
                      /\ by = "overlap" => R.matrix[<<type, type>>] = R.perType[type].tp
                      /\ R.matrix[<<Spurious, Miss>>] = R.unmapped
    BY DEF Agrees
  <2>1. QED
    BY <1>2, <1>3
<1>5. QED
  BY <1>1, <1>4

LEMMA CombinedFields ==
  ASSUME NEW A \in Reports, NEW B \in Reports
  PROVE  /\ Combined(A, B) \in Reports
         /\ \A type \in Types, x \in {"tp", "fn", "fp", "support"} :
              /\ Combined(A, B).perType[type][x] = A.perType[type][x] + B.perType[type][x]
              /\ A.perType[type][x] \in Nat /\ B.perType[type][x] \in Nat
         /\ \A cell \in Labels \X Labels :
              /\ Combined(A, B).matrix[cell] = A.matrix[cell] + B.matrix[cell]
              /\ A.matrix[cell] \in Nat /\ B.matrix[cell] \in Nat
         /\ Combined(A, B).unmapped = A.unmapped + B.unmapped
<1> DEFINE fields == {"tp", "fn", "fp", "support"}
<1>1. ASSUME NEW a \in Counts, NEW b \in Counts
      PROVE  /\ Added(a, b) \in Counts
             /\ \A x \in fields : Added(a, b)[x] = a[x] + b[x] /\ a[x] \in Nat /\ b[x] \in Nat
  <2>1. DOMAIN a = fields /\ \A x \in fields : a[x] \in Nat /\ b[x] \in Nat
    BY DEF Counts
  <2>2. Added(a, b) = [x \in fields |-> a[x] + b[x]]
    BY <2>1 DEF Added
  <2>3. [x \in fields |-> a[x] + b[x]] \in Counts
    BY <2>1 DEF Counts
  <2>4. QED
    BY <2>1, <2>2, <2>3
<1>2. \A type \in Types : A.perType[type] \in Counts /\ B.perType[type] \in Counts
  BY DEF Reports
<1>3. /\ A.matrix \in [Labels \X Labels -> Nat] /\ B.matrix \in [Labels \X Labels -> Nat]
      /\ A.unmapped \in Nat /\ B.unmapped \in Nat
  BY DEF Reports
<1>4. /\ Added(A.matrix, B.matrix) \in [Labels \X Labels -> Nat]
      /\ \A cell \in Labels \X Labels :
           Added(A.matrix, B.matrix)[cell] = A.matrix[cell] + B.matrix[cell]
  BY <1>3 DEF Added
<1>5. /\ Combined(A, B).perType = [type \in Types |-> Added(A.perType[type], B.perType[type])]
      /\ Combined(A, B).matrix = Added(A.matrix, B.matrix)
      /\ Combined(A, B).unmapped = A.unmapped + B.unmapped
  BY DEF Combined
<1>6. Combined(A, B) \in Reports
  <2>1. [type \in Types |-> Added(A.perType[type], B.perType[type])] \in [Types -> Counts]
    BY <1>1, <1>2
  <2>2. QED
    BY <1>3, <1>4, <2>1 DEF Combined, Reports
<1>7. ASSUME NEW type \in Types, NEW x \in fields
      PROVE  /\ Combined(A, B).perType[type][x] = A.perType[type][x] + B.perType[type][x]
             /\ A.perType[type][x] \in Nat /\ B.perType[type][x] \in Nat
  <2> DEFINE a == A.perType[type]
             b == B.perType[type]
  <2>1. Combined(A, B).perType[type] = Added(a, b)
    BY <1>5
  <2>2. a \in Counts /\ b \in Counts
    BY <1>2
  <2> HIDE DEF a, b, fields
  <2>3. Added(a, b)[x] = a[x] + b[x] /\ a[x] \in Nat /\ b[x] \in Nat
    BY <1>1, <1>7, <2>2
  <2>4. QED
    BY <2>1, <2>3 DEF a, b
<1>8. \A cell \in Labels \X Labels :
        /\ Combined(A, B).matrix[cell] = A.matrix[cell] + B.matrix[cell]
        /\ A.matrix[cell] \in Nat /\ B.matrix[cell] \in Nat
  BY <1>3, <1>4, <1>5
<1>9. QED
  BY <1>5, <1>6, <1>7, <1>8

LEMMA Lines ==
  ASSUME NEW L, NEW matrix \in [L \X L -> Nat], NEW x \in L
  PROVE  /\ [y \in L |-> matrix[<<x, y>>]] \in [L -> Int]
         /\ [y \in L |-> matrix[<<y, x>>]] \in [L -> Int]
<1>1. \A y \in L : matrix[<<x, y>>] \in Int /\ matrix[<<y, x>>] \in Int
  OBVIOUS
<1>2. QED
  BY <1>1

LEMMA CombinedAgrees ==
  ASSUME NEW A \in Reports, NEW B \in Reports, NEW by \in Policies,
         Agrees(A, by), Agrees(B, by)
  PROVE  Agrees(Combined(A, B), by)
<1> DEFINE C == Combined(A, B)
<1>1. ASSUME NEW type \in Types
      PROVE  /\ SumFunction([label \in Labels |-> C.matrix[<<type, label>>]])
                  = SumFunction([label \in Labels |-> A.matrix[<<type, label>>]])
                      + SumFunction([label \in Labels |-> B.matrix[<<type, label>>]])
             /\ SumFunction([label \in Labels |-> C.matrix[<<label, type>>]])
                  = SumFunction([label \in Labels |-> A.matrix[<<label, type>>]])
                      + SumFunction([label \in Labels |-> B.matrix[<<label, type>>]])
  <2>1. \A label \in Labels :
          /\ <<type, label>> \in Labels \X Labels
          /\ <<label, type>> \in Labels \X Labels
    BY DEF Labels
  <2>2. \A label \in Labels :
          /\ C.matrix[<<type, label>>] = A.matrix[<<type, label>>] + B.matrix[<<type, label>>]
          /\ C.matrix[<<label, type>>] = A.matrix[<<label, type>>] + B.matrix[<<label, type>>]
    BY <2>1, CombinedFields
  <2>3. A.matrix \in [Labels \X Labels -> Nat] /\ B.matrix \in [Labels \X Labels -> Nat]
    BY DEF Reports
  <2>4. C.matrix \in [Labels \X Labels -> Nat]
    BY CombinedFields DEF Reports
  <2> HIDE DEF C
  <2> DEFINE rowA == [label \in Labels |-> A.matrix[<<type, label>>]]
             rowB == [label \in Labels |-> B.matrix[<<type, label>>]]
             rowC == [label \in Labels |-> C.matrix[<<type, label>>]]
             colA == [label \in Labels |-> A.matrix[<<label, type>>]]
             colB == [label \in Labels |-> B.matrix[<<label, type>>]]
             colC == [label \in Labels |-> C.matrix[<<label, type>>]]
  <2>5. type \in Labels
    BY DEF Labels
  <2>6. /\ rowA \in [Labels -> Int] /\ rowB \in [Labels -> Int] /\ rowC \in [Labels -> Int]
        /\ colA \in [Labels -> Int] /\ colB \in [Labels -> Int] /\ colC \in [Labels -> Int]
    BY <2>3, <2>4, <2>5, Lines
  <2>7. /\ \A label \in Labels : rowC[label] = rowA[label] + rowB[label]
        /\ \A label \in Labels : colC[label] = colA[label] + colB[label]
    BY <2>2
  <2> HIDE DEF rowA, rowB, rowC, colA, colB, colC
  <2>8. SumFunction(rowC) = SumFunction(rowA) + SumFunction(rowB)
    BY <2>6, <2>7, SumsAdd, LabelsFinite
  <2>9. SumFunction(colC) = SumFunction(colA) + SumFunction(colB)
    BY <2>6, <2>7, SumsAdd, LabelsFinite
  <2>10. QED
    BY <2>8, <2>9 DEF rowA, rowB, rowC, colA, colB, colC
<1>2. ASSUME NEW type \in Types
      PROVE  /\ C.perType[type].tp = A.perType[type].tp + B.perType[type].tp
             /\ C.perType[type].fn = A.perType[type].fn + B.perType[type].fn
             /\ C.perType[type].fp = A.perType[type].fp + B.perType[type].fp
             /\ C.perType[type].support = A.perType[type].support + B.perType[type].support
             /\ A.perType[type].tp \in Nat /\ B.perType[type].tp \in Nat
             /\ A.perType[type].fn \in Nat /\ B.perType[type].fn \in Nat
             /\ A.perType[type].fp \in Nat /\ B.perType[type].fp \in Nat
             /\ C.matrix[<<type, type>>] = A.matrix[<<type, type>>] + B.matrix[<<type, type>>]
  <2>1. \A x \in {"tp", "fn", "fp", "support"} :
          /\ C.perType[type][x] = A.perType[type][x] + B.perType[type][x]
          /\ A.perType[type][x] \in Nat /\ B.perType[type][x] \in Nat
    BY CombinedFields
  <2>2. <<type, type>> \in Labels \X Labels
    BY DEF Labels
  <2>3. C.matrix[<<type, type>>] = A.matrix[<<type, type>>] + B.matrix[<<type, type>>]
    BY <2>2, CombinedFields
  <2> HIDE DEF C
  <2>4. QED
    BY <2>1, <2>3
<1>3. /\ C.matrix[<<Spurious, Miss>>] = A.matrix[<<Spurious, Miss>>] + B.matrix[<<Spurious, Miss>>]
      /\ C.unmapped = A.unmapped + B.unmapped
  <2>1. <<Spurious, Miss>> \in Labels \X Labels
    BY DEF Labels
  <2>2. QED
    BY <2>1, CombinedFields
<1> HIDE DEF C
<1>4. SUFFICES ASSUME NEW type \in Types
             PROVE  /\ C.perType[type].support = C.perType[type].tp + C.perType[type].fn
                    /\ C.perType[type].support = SumFunction([label \in Labels |-> C.matrix[<<type, label>>]])
                    /\ C.perType[type].tp + C.perType[type].fp
                         = SumFunction([label \in Labels |-> C.matrix[<<label, type>>]])
                    /\ by = "overlap" => C.matrix[<<type, type>>] = C.perType[type].tp
                    /\ C.matrix[<<Spurious, Miss>>] = C.unmapped
  BY DEF Agrees, C
<1>5. /\ A.perType[type].support = A.perType[type].tp + A.perType[type].fn
      /\ A.perType[type].support = SumFunction([label \in Labels |-> A.matrix[<<type, label>>]])
      /\ A.perType[type].tp + A.perType[type].fp
           = SumFunction([label \in Labels |-> A.matrix[<<label, type>>]])
      /\ by = "overlap" => A.matrix[<<type, type>>] = A.perType[type].tp
      /\ A.matrix[<<Spurious, Miss>>] = A.unmapped
  BY DEF Agrees
<1>6. /\ B.perType[type].support = B.perType[type].tp + B.perType[type].fn
      /\ B.perType[type].support = SumFunction([label \in Labels |-> B.matrix[<<type, label>>]])
      /\ B.perType[type].tp + B.perType[type].fp
           = SumFunction([label \in Labels |-> B.matrix[<<label, type>>]])
      /\ by = "overlap" => B.matrix[<<type, type>>] = B.perType[type].tp
      /\ B.matrix[<<Spurious, Miss>>] = B.unmapped
  BY DEF Agrees
<1> DEFINE a == A.perType[type]
           b == B.perType[type]
           c == C.perType[type]
<1>7. c.support = c.tp + c.fn
  <2>1. c.tp = a.tp + b.tp /\ c.fn = a.fn + b.fn /\ c.support = a.support + b.support
    BY <1>2
  <2>2. a.tp \in Nat /\ b.tp \in Nat /\ a.fn \in Nat /\ b.fn \in Nat
    BY <1>2
  <2>3. a.support = a.tp + a.fn /\ b.support = b.tp + b.fn
    BY <1>5, <1>6
  <2> HIDE DEF a, b, c
  <2>4. QED
    BY <2>1, <2>2, <2>3
<1>8. C.perType[type].support = SumFunction([label \in Labels |-> C.matrix[<<type, label>>]])
  BY <1>1, <1>2, <1>5, <1>6
<1>9. C.perType[type].tp + C.perType[type].fp = SumFunction([label \in Labels |-> C.matrix[<<label, type>>]])
  <2>1. SumFunction([label \in Labels |-> C.matrix[<<label, type>>]])
          = (A.perType[type].tp + A.perType[type].fp) + (B.perType[type].tp + B.perType[type].fp)
    BY <1>1, <1>5, <1>6
  <2>2. c.tp = a.tp + b.tp /\ c.fp = a.fp + b.fp
    BY <1>2
  <2>3. a.tp \in Nat /\ b.tp \in Nat /\ a.fp \in Nat /\ b.fp \in Nat
    BY <1>2
  <2>4. c.tp + c.fp = (a.tp + a.fp) + (b.tp + b.fp)
    <3> HIDE DEF a, b, c
    <3>1. QED
      BY <2>2, <2>3
  <2>5. QED
    BY <2>1, <2>4
<1>10. by = "overlap" => C.matrix[<<type, type>>] = C.perType[type].tp
  BY <1>2, <1>5, <1>6
<1>11. C.matrix[<<Spurious, Miss>>] = C.unmapped
  BY <1>3, <1>5, <1>6
<1>12. QED
  BY <1>7, <1>8, <1>9, <1>10, <1>11


-----------------------------------------------------------------------------
(* The texts. *)

Parts == DOMAIN Width
Masks == Parts \cup {Mask}

LEMMA LengthType ==
  ASSUME NEW t \in Seq(Parts)
  PROVE  Length(t) \in Nat
<1>1. DOMAIN t = 1 .. Len(t) /\ Len(t) \in Nat /\ \A i \in DOMAIN t : t[i] \in Parts
  BY LenProperties, ElementOfSeq
<1>2. IsFiniteSet(DOMAIN t)
  BY <1>1, FS_Interval
<1>3. [i \in DOMAIN t |-> Width[t[i]]] \in [DOMAIN t -> Nat]
  BY <1>1, WidthAssumption DEF Parts
<1>4. QED
  BY <1>2, <1>3, SumNat DEF Length

LEMMA ShortestIn ==
  ASSUME NEW F \in SUBSET Seq(Parts), F # {}
  PROVE  Shortest(F) \in F
<1> DEFINE sizes == {Length(f) : f \in F}
<1>1. sizes \in SUBSET Nat /\ sizes # {}
  BY LengthType
<1>2. PICK n \in sizes : \A k \in sizes : n <= k
  BY <1>1, LeastNumber
<1>3. \E f \in F : \A g \in F : Length(f) <= Length(g)
  BY <1>2
<1>4. QED
  BY <1>3 DEF Shortest

LEMMA FirstSpanIn ==
  ASSUME NEW P \in SUBSET Spans, P # {}
  PROVE  FirstSpan(P) \in P /\ \A q \in P : FirstSpan(P).start <= q.start
<1> DEFINE starts == {p.start : p \in P}
<1>1. starts \in SUBSET Nat /\ starts # {}
  BY SpanAssumption
<1>2. PICK n \in starts : \A k \in starts : n <= k
  BY <1>1, LeastNumber
<1>3. \E p \in P : \A q \in P : p.start <= q.start
  BY <1>2
<1>4. QED
  BY <1>3 DEF FirstSpan

LEMMA BlankedType ==
  ASSUME NEW t \in Seq(Masks), NEW f
  PROVE  Blanked(t, f) \in Seq(Masks) /\ Len(Blanked(t, f)) = Len(t)
<1>1. DOMAIN t = 1 .. Len(t) /\ Len(t) \in Nat /\ \A i \in DOMAIN t : t[i] \in Masks
  BY LenProperties, ElementOfSeq
<1>2. Blanked(t, f) \in [1 .. Len(t) -> Masks]
  BY <1>1 DEF Blanked, Masks
<1>3. QED
  BY <1>1, <1>2

LEMMA ReplacedType ==
  ASSUME NEW V, NEW t \in Seq(V), NEW new \in Seq(V), NEW start \in Nat, NEW end \in Nat
  PROVE  Replaced(t, start, end, new) \in Seq(V)
<1> DEFINE to == IF start < Len(t) THEN start ELSE Len(t)
<1>1. Len(t) \in Nat /\ \A i \in 1 .. Len(t) : t[i] \in V
  BY LenProperties, ElementOfSeq
<1>2. to \in Int /\ to <= Len(t)
  BY <1>1
<1>3. SubSeq(t, 1, to) \in Seq(V)
  BY <1>1, <1>2, SubSeqProperties
<1>4. SubSeq(t, end + 1, Len(t)) \in Seq(V)
  <2>1. \A i \in end + 1 .. Len(t) : t[i] \in V
    BY <1>1
  <2>2. QED
    BY <1>1, <2>1, SubSeqProperties
<1>5. SubSeq(t, 1, to) \o new \in Seq(V)
  BY <1>3, ConcatProperties
<1>6. (SubSeq(t, 1, to) \o new) \o SubSeq(t, end + 1, Len(t)) \in Seq(V)
  BY <1>4, <1>5, ConcatProperties
<1>7. QED
  BY <1>6 DEF Replaced

(* The passes of _mask_fakes.                                              *)
Masking(S) == [x \in S \X Seq(Masks) |-> Blanked(x[2], x[1])]
ShortestOf(S) == [F \in SUBSET S |-> Shortest(F)]

IsMasking(M, S, t) ==
  /\ M[{}] = t
  /\ \A F \in SUBSET S : F # {} =>
       /\ Shortest(F) \in F
       /\ M[F] = Blanked(M[F \ {Shortest(F)}], Shortest(F))

LEMMA MaskedIsFold ==
  ASSUME NEW t \in Seq(Masks), NEW declared \in SUBSET Seq(Parts), IsFiniteSet(declared)
  PROVE  LET S == declared \ {<< >>}
         IN \E M \in [SUBSET S -> Seq(Masks)] : Masked(t, declared) = M[S] /\ IsMasking(M, S, t)
<1> DEFINE S == declared \ {<< >>}
           Values(M) == [F \in SUBSET S |->
                           IF F = {} THEN t ELSE Blanked(M[F \ {Shortest(F)}], Shortest(F))]
           M == CHOOSE M : M = Values(M)
<1>1. IsFiniteSet(S) /\ \A F \in SUBSET S : F # {} => Shortest(F) \in F
  BY FS_Subset, ShortestIn
<1>2. PICK F : IsFold(F, Masking(S), t, ShortestOf(S), S)
  <2>1. \A G \in SUBSET S : G # {} => ShortestOf(S)[G] \in G
    BY <1>1 DEF ShortestOf
  <2> HIDE DEF S
  <2>2. QED
    BY <1>1, <2>1, FoldExists
<1>3. Masking(S) \in [S \X Seq(Masks) -> Seq(Masks)]
  BY BlankedType DEF Masking
<1>4. \A G \in SUBSET S : F[G] \in Seq(Masks)
  <2>1. \A G \in SUBSET S : G # {} => ShortestOf(S)[G] \in G
    BY <1>1 DEF ShortestOf
  <2> HIDE DEF S
  <2>2. QED
    BY <1>1, <1>2, <1>3, <2>1, FoldType
<1>5. F = Values(F)
  <2>1. ASSUME NEW G \in SUBSET S, G # {}
        PROVE  Masking(S)[<<ShortestOf(S)[G], F[G \ {ShortestOf(S)[G]}]>>]
                 = Blanked(F[G \ {Shortest(G)}], Shortest(G))
    <3>1. ShortestOf(S)[G] = Shortest(G) /\ Shortest(G) \in S /\ F[G \ {Shortest(G)}] \in Seq(Masks)
      BY <1>1, <1>4, <2>1 DEF ShortestOf
    <3> HIDE DEF S
    <3>2. QED
      BY <3>1 DEF Masking
  <2>2. F = [G \in SUBSET S |-> IF G = {} THEN t
               ELSE Masking(S)[<<ShortestOf(S)[G], F[G \ {ShortestOf(S)[G]}]>>]]
    BY <1>2 DEF IsFold
  <2> HIDE DEF S
  <2>3. QED
    BY <2>1, <2>2
<1>6. M = Values(M)
  <2> HIDE DEF Values
  <2>1. QED
    BY <1>5
<1>7. Masked(t, declared) = M[S]
  BY DEF Masked, MapThenFoldSet
<1> HIDE DEF M
<1>8. M[{}] = t /\ \A G \in SUBSET S : G # {} => M[G] = Blanked(M[G \ {Shortest(G)}], Shortest(G))
  BY <1>6
<1>9. \A G \in SUBSET S : M[G] \in Seq(Masks)
  <2> DEFINE Bad == {G \in SUBSET S : M[G] \notin Seq(Masks)}
  <2>1. ASSUME NEW G \in Bad PROVE \E x \in G : G \ {x} \in Bad
    <3>1. G # {}
      BY <1>8
    <3>2. M[G] = Blanked(M[G \ {Shortest(G)}], Shortest(G)) /\ Shortest(G) \in G
      BY <1>1, <1>8, <3>1
    <3>3. M[G \ {Shortest(G)}] \notin Seq(Masks)
      BY <3>2, BlankedType
    <3>4. QED
      BY <3>2, <3>3
  <2>2. Bad = {}
    <3>1. Bad \in SUBSET SUBSET S
      OBVIOUS
    <3> HIDE DEF Bad, S
    <3>2. QED
      BY <1>1, <2>1, <3>1, SmallestSubset
  <2>3. QED
    BY <2>2
<1>10. M \in [SUBSET S -> Seq(Masks)]
  BY <1>6, <1>9
<1>11. QED
  BY <1>1, <1>7, <1>8, <1>10 DEF IsMasking

(* The steps of the splice: the spans are replaced from the last one to    *)
(* the first.                                                              *)
Splicing(textOf) == [x \in (DOMAIN textOf) \X Seq(Parts) |->
                       Replaced(x[2], x[1].start, x[1].end, textOf[x[1]])]
FirstOf(P) == [Q \in SUBSET P |-> FirstSpan(Q)]

IsSplice(M, P, textOf) ==
  /\ M[{}] = Text
  /\ \A Q \in SUBSET P : Q # {} =>
       /\ FirstSpan(Q) \in Q
       /\ M[Q] = Replaced(M[Q \ {FirstSpan(Q)}], FirstSpan(Q).start,
                          FirstSpan(Q).end, textOf[FirstSpan(Q)])

LEMMA SplicedIsFold ==
  ASSUME NEW P \in SUBSET Spans, IsFiniteSet(P), NEW textOf \in [P -> Seq(Parts)],
         Text \in Seq(Parts)
  PROVE  \E M \in [SUBSET P -> Seq(Parts)] : Spliced(textOf) = M[P] /\ IsSplice(M, P, textOf)
<1> DEFINE Next1(M, Q) == Replaced(M[Q \ {FirstSpan(Q)}], FirstSpan(Q).start,
                                  FirstSpan(Q).end, textOf[FirstSpan(Q)])
           Values(M) == [Q \in SUBSET P |-> IF Q = {} THEN Text ELSE Next1(M, Q)]
           M == CHOOSE M : M = Values(M)
<1>1. \A Q \in SUBSET P : Q # {} => FirstSpan(Q) \in Q
  BY FirstSpanIn
<1>2. DOMAIN textOf = P /\ \A p \in P : p.start \in Nat /\ p.end \in Nat /\ textOf[p] \in Seq(Parts)
  BY SpanAssumption
<1>3. PICK F : IsFold(F, Splicing(textOf), Text, FirstOf(P), P)
  <2>1. \A Q \in SUBSET P : Q # {} => FirstOf(P)[Q] \in Q
    BY <1>1 DEF FirstOf
  <2>2. QED
    BY <2>1, FoldExists
<1>4. \A p \in P, t \in Seq(Parts) : Replaced(t, p.start, p.end, textOf[p]) \in Seq(Parts)
  BY <1>2, ReplacedType
<1>5. Splicing(textOf) \in [P \X Seq(Parts) -> Seq(Parts)]
  BY <1>2, <1>4 DEF Splicing
<1>6. \A Q \in SUBSET P : F[Q] \in Seq(Parts)
  <2>1. \A Q \in SUBSET P : Q # {} => FirstOf(P)[Q] \in Q
    BY <1>1 DEF FirstOf
  <2>2. QED
    BY <1>3, <1>5, <2>1, FoldType
<1>7. F = Values(F)
  <2>1. ASSUME NEW Q \in SUBSET P, Q # {}
        PROVE  Splicing(textOf)[<<FirstOf(P)[Q], F[Q \ {FirstOf(P)[Q]}]>>] = Next1(F, Q)
    <3>1. FirstOf(P)[Q] = FirstSpan(Q) /\ FirstSpan(Q) \in P /\ F[Q \ {FirstSpan(Q)}] \in Seq(Parts)
      BY <1>1, <1>6, <2>1 DEF FirstOf
    <3>2. QED
      BY <1>2, <3>1 DEF Splicing
  <2>2. F = [Q \in SUBSET P |-> IF Q = {} THEN Text
               ELSE Splicing(textOf)[<<FirstOf(P)[Q], F[Q \ {FirstOf(P)[Q]}]>>]]
    BY <1>3 DEF IsFold
  <2> HIDE DEF Next1
  <2>3. QED
    BY <2>1, <2>2
<1>8. M = Values(M)
  <2> HIDE DEF Values
  <2>1. QED
    BY <1>7
<1>9. Spliced(textOf) = M[P]
  BY <1>2 DEF Spliced, MapThenFoldSet
<1> HIDE DEF M
<1>10. M[{}] = Text /\ \A Q \in SUBSET P : Q # {} => M[Q] = Next1(M, Q)
  BY <1>8
<1>11. \A Q \in SUBSET P : M[Q] \in Seq(Parts)
  <2> DEFINE Bad == {Q \in SUBSET P : M[Q] \notin Seq(Parts)}
  <2>1. ASSUME NEW Q \in Bad PROVE \E x \in Q : Q \ {x} \in Bad
    <3>1. Q # {}
      BY <1>10
    <3>2. M[Q] = Next1(M, Q) /\ FirstSpan(Q) \in Q
      BY <1>1, <1>10, <3>1
    <3>3. M[Q \ {FirstSpan(Q)}] \notin Seq(Parts)
      BY <1>4, <3>2
    <3>4. QED
      BY <3>2, <3>3
  <2>2. Bad = {}
    <3>1. Bad \in SUBSET SUBSET P
      OBVIOUS
    <3> HIDE DEF Bad
    <3>2. QED
      BY <2>1, <3>1, SmallestSubset
  <2>3. QED
    BY <2>2
<1>12. M \in [SUBSET P -> Seq(Parts)]
  BY <1>8, <1>11
<1>13. QED
  BY <1>1, <1>9, <1>10, <1>12 DEF IsSplice

-----------------------------------------------------------------------------
(* What the audit finds. *)

LEMMA NormalLength ==
  ASSUME NEW V, NEW t \in Seq(V)
  PROVE  DOMAIN Normal(t) = 1 .. Len(t) /\ Len(Normal(t)) = Len(t) /\ Len(t) \in Nat
<1>1. DOMAIN t = 1 .. Len(t) /\ Len(t) \in Nat
  BY LenProperties
<1> DEFINE W == {Mapping(LowerCase, t[i]) : i \in DOMAIN t}
<1>2. Normal(t) \in [1 .. Len(t) -> W]
  BY <1>1 DEF Normal
<1>3. QED
  BY <1>1, <1>2

LEMMA EarliestIn ==
  ASSUME NEW t, Len(t) \in Nat, NEW sought, Occurrences(t, sought) # {}
  PROVE  Earliest(Occurrences(t, sought)) \in Occurrences(t, sought)
<1>1. Occurrences(t, sought) \in SUBSET Nat
  BY DEF Occurrences
<1>2. \E i \in Occurrences(t, sought) : \A j \in Occurrences(t, sought) : i <= j
  BY <1>1, LeastNumber
<1>3. QED
  BY <1>2 DEF Earliest

(* The word around a place exists.                                         *)
LEMMA WordAroundIn ==
  ASSUME NEW t, NEW n \in Nat, Len(t) = n, NEW i \in 1 .. n, NEW j \in 1 .. n
  PROVE  WordAround(t, i, j) \in (1 .. i) \X (j .. n)
<1> DEFINE A == {k \in 1 .. i : \A m \in k .. i - 1 : IsWord(t[m])}
           B == {d \in 0 .. n - j : \A m \in j + 1 .. n - d : IsWord(t[m])}
<1>1. PICK a \in A : \A k \in A : a <= k
  <2>1. A \in SUBSET Nat /\ i \in A
    OBVIOUS
  <2> HIDE DEF A
  <2>2. QED
    BY <2>1, LeastNumber
<1>2. a = 1 \/ ~IsWord(t[a - 1])
  <2> SUFFICES ASSUME a # 1, IsWord(t[a - 1]) PROVE FALSE
    OBVIOUS
  <2>1. a - 1 \in A
    <3>1. \A m \in a - 1 .. i - 1 : m = a - 1 \/ m \in a .. i - 1
      OBVIOUS
    <3>2. QED
      BY <3>1
  <2>2. QED
    BY <1>1, <2>1
<1>3. PICK d \in B : \A k \in B : d <= k
  <2>1. B \in SUBSET Nat /\ n - j \in B
    OBVIOUS
  <2> HIDE DEF B
  <2>2. QED
    BY <2>1, LeastNumber
<1>4. d = 0 \/ ~IsWord(t[n - d + 1])
  <2> SUFFICES ASSUME d # 0, IsWord(t[n - d + 1]) PROVE FALSE
    OBVIOUS
  <2>1. d - 1 \in B
    <3>1. \A m \in j + 1 .. n - (d - 1) : m = n - d + 1 \/ m \in j + 1 .. n - d
      OBVIOUS
    <3>2. QED
      BY <3>1
  <2>2. QED
    BY <1>3, <2>1
<1> DEFINE w == <<a, n - d>>
<1>5. /\ w \in (1 .. i) \X (j .. n)
      /\ \A k \in (w[1] .. i - 1) \cup (j + 1 .. w[2]) : IsWord(t[k])
      /\ w[1] = 1 \/ ~IsWord(t[w[1] - 1])
      /\ w[2] = n \/ ~IsWord(t[w[2] + 1])
  <2>1. \A k \in (a .. i - 1) \cup (j + 1 .. n - d) : IsWord(t[k])
    OBVIOUS
  <2>2. a \in 1 .. i /\ n - d \in j .. n
    OBVIOUS
  <2>3. n - d = n \/ ~IsWord(t[n - d + 1])
    BY <1>4
  <2>4. QED
    BY <1>2, <2>1, <2>2, <2>3
<1> HIDE DEF w
<1>6. QED
  BY <1>5 DEF WordAround

Findings(type) ==
  [type : {type}, start : Nat, end : Nat, mode : {"exact", "exact_id", "stem", "diacritic_fold"}]

LEMMA PlaceType ==
  ASSUME NEW type, NEW original, Len(original) \in Nat, NEW V, NEW text \in Seq(V),
         NEW mode \in {"exact", "exact_id", "stem", "diacritic_fold"}
  PROVE  PlaceOf(type, original, text, mode) \in Findings(type)
<1> DEFINE places == Occurrences(Normal(text), Normal(original))
<1>1. CASE places = {}
  BY <1>1 DEF PlaceOf, FindingAt, Findings
<1>2. CASE places # {}
  <2>1. Earliest(places) \in places
    BY <1>2, NormalLength, EarliestIn
  <2>2. Earliest(places) \in Nat \ {0}
    BY <2>1, NormalLength DEF Occurrences
  <2> HIDE DEF places
  <2>3. Earliest(places) - 1 \in Nat /\ Earliest(places) + Len(original) - 1 \in Nat
    BY <2>2
  <2>4. PlaceOf(type, original, text, mode)
          = FindingAt(type, Earliest(places) - 1, Earliest(places) + Len(original) - 1, mode)
    BY <1>2 DEF PlaceOf, places
  <2>5. QED
    BY <2>3, <2>4 DEF FindingAt, Findings
<1>3. QED
  BY <1>1, <1>2

LEMMA WordLeakType ==
  ASSUME NEW type, NEW U, NEW original \in Seq(U), original # << >>, NEW V, NEW text \in Seq(V),
         Holds(Normal(text), Normal(original))
  PROVE  /\ WordLeak(type, original, text) \in Findings(type) \cup {NoFinding}
         /\ Length(original) >= MinStemLength => WordLeak(type, original, text) \in Findings(type)
<1> DEFINE places == Occurrences(Normal(text), Normal(original))
           i == Earliest(places)
           j == i + Len(original) - 1
           w == WordAround(text, i, j)
<1>1. Len(original) \in Nat \ {0} /\ Len(Normal(original)) = Len(original)
  BY NormalLength, EmptySeq
<1>2. Len(text) \in Nat /\ Len(Normal(text)) = Len(text)
  BY NormalLength
<1>3. Normal(original) # << >>
  <2>1. DOMAIN Normal(original) = 1 .. Len(original)
    BY NormalLength
  <2>2. QED
    BY <1>1, <2>1
<1>4. i \in places
  BY <1>2, <1>3, EarliestIn DEF Holds
<1>5. i \in 1 .. Len(text) /\ j \in 1 .. Len(text)
  BY <1>1, <1>2, <1>4 DEF Occurrences
<1>6. w \in (1 .. i) \X (j .. Len(text))
  <2> HIDE DEF i, j
  <2>1. QED
    BY <1>2, <1>5, WordAroundIn
<1>7. w[1] - 1 \in Nat /\ w[2] \in Nat
  <2> HIDE DEF i, j, w
  <2>1. QED
    BY <1>2, <1>5, <1>6
<1> DEFINE found == FindingAt(type, w[1] - 1, w[2],
                     IF Normal(Cut(text, w)) = Normal(original) THEN "exact" ELSE "stem")
<1>8. /\ WordLeak(type, original, text) \in {found, NoFinding}
      /\ Length(original) >= MinStemLength => WordLeak(type, original, text) = found
  BY DEF WordLeak
<1>9. found \in Findings(type)
  <2> HIDE DEF w
  <2>1. QED
    BY <1>7 DEF FindingAt, Findings
<1>10. QED
  BY <1>8, <1>9

LEMMA CutLength ==
  ASSUME NEW V, NEW t \in Seq(V), NEW w \in WordsOf(t)
  PROVE  Len(Cut(t, w)) \in Nat
<1>1. /\ Len(t) \in Nat /\ w[1] \in 1 .. Len(t) /\ w[2] \in 1 .. Len(t)
      /\ \A i \in 1 .. Len(t) : t[i] \in V
  BY LenProperties, ElementOfSeq DEF WordsOf
<1>2. \A i \in w[1] .. w[2] : t[i] \in V
  BY <1>1
<1>3. SubSeq(t, w[1], w[2]) \in Seq(V)
  BY <1>1, <1>2, SubSeqProperties
<1>4. QED
  BY <1>3, LenProperties DEF Cut

LEMMA StemLeakType ==
  ASSUME NEW type, NEW original, NEW V, NEW text \in Seq(V)
  PROVE  StemLeak(type, original, text) \in Findings(type) \cup {NoFinding}
<1> DEFINE sharing == {w \in WordsOf(text) : SharesStem(Cut(text, w), LongestToken(original))}
<1>1. ASSUME sharing # {} PROVE FirstWord(sharing) \in sharing
  <2> DEFINE firsts == {w[1] : w \in sharing}
  <2>1. firsts \in SUBSET Nat /\ firsts # {}
    BY <1>1, LenProperties DEF WordsOf
  <2>2. PICK n \in firsts : \A k \in firsts : n <= k
    BY <2>1, LeastNumber
  <2>3. \E w \in sharing : \A v \in sharing : w[1] <= v[1]
    BY <2>2
  <2> HIDE DEF sharing
  <2>4. QED
    BY <2>3 DEF FirstWord
<1>2. ASSUME sharing # {}
      PROVE  PlaceOf(type, Cut(text, FirstWord(sharing)), text, "stem") \in Findings(type)
  BY <1>1, <1>2, CutLength, PlaceType
<1>3. FindingAt(type, 0, 0, "diacritic_fold") \in Findings(type)
  BY DEF FindingAt, Findings
<1> DEFINE place == PlaceOf(type, Cut(text, FirstWord(sharing)), text, "stem")
           fold == FindingAt(type, 0, 0, "diacritic_fold")
<1>4. \/ StemLeak(type, original, text) \in {fold, NoFinding}
      \/ (StemLeak(type, original, text) = place /\ sharing # {})
  <2>1. CASE Length(LongestToken(original)) >= MinStemLength /\ sharing # {}
    <3>1. StemLeak(type, original, text) = place
      BY <2>1 DEF StemLeak
    <3>2. QED
      BY <2>1, <3>1
  <2>2. CASE ~(Length(LongestToken(original)) >= MinStemLength /\ sharing # {})
    <3>1. StemLeak(type, original, text)
            = IF Holds(Folded(text), Folded(original)) THEN fold ELSE NoFinding
      BY <2>2 DEF StemLeak
    <3>2. QED
      BY <3>1
  <2>3. QED
    BY <2>1, <2>2
<1> HIDE DEF place, fold, sharing
<1>5. QED
  BY <1>2, <1>3, <1>4 DEF place, fold

LEMMA DetectLeakType ==
  ASSUME NEW type, NEW U, NEW original \in Seq(U), original # << >>, NEW V, NEW text \in Seq(V)
  PROVE  DetectLeak(type, original, text) \in Findings(type) \cup {NoFinding}
<1>1. Len(original) \in Nat
  BY LenProperties
<1>2. /\ PlaceOf(type, original, text, "exact_id") \in Findings(type)
      /\ PlaceOf(type, original, text, "exact") \in Findings(type)
  BY <1>1, PlaceType
<1>3. Holds(Normal(text), Normal(original))
        => WordLeak(type, original, text) \in Findings(type) \cup {NoFinding}
  BY WordLeakType
<1>4. StemLeak(type, original, text) \in Findings(type) \cup {NoFinding}
  BY StemLeakType
<1>5. QED
  BY <1>2, <1>3, <1>4 DEF DetectLeak

-----------------------------------------------------------------------------
(* The invariant of an evaluation. *)

InWork == phase \in {"report", "audit", "aggregate"}

(* The documents are taken in order, once all of them are accepted, and    *)
(* gold is that of the document in work.                                   *)
Progress ==
  /\ phase \in {"load", "cannot run", "stage1", "report", "audit", "aggregate", "done"}
  /\ doc \in DOMAIN Documents
  /\ DOMAIN annotated = DOMAIN Documents
  /\ \A n \in DOMAIN Documents : annotated[n] \in Documents[n].annotations
  /\ phase \notin {"load", "cannot run"} => \A n \in DOMAIN Documents : Accepted(n)
  /\ gold = IF InWork THEN annotated[doc] ELSE {}
  /\ IsFiniteSet(gold) /\ IsFiniteSet(predicted)

Answers ==
  /\ IsFiniteSet(fakes) /\ fakes \subseteq Seq(Parts)
  /\ outbound \in Seq(Parts) /\ restored \in Seq(Parts)

OfType(S, type) == {x \in S : x.type = type}

(* A type has no more findings than entities.                              *)
Audited ==
  IF phase = "aggregate"
  THEN /\ \A f \in findings : \E type \in Types : f \in Findings(type)
       /\ \A type \in Types :
            Cardinality(OfType(findings, type)) \in 0 .. Cardinality(OfType(gold, type))
       /\ outcomes \in [gold -> [inPlace : BOOLEAN, outcome : Outcomes]]
  ELSE findings = {} /\ outcomes = << >>

(* What the reports count and the other results do not count yet.          *)
Waiting == IF phase \in {"audit", "aggregate"} THEN gold ELSE {}

Supports(total) == [type \in Types |-> total.perType[type].support]

ReportsAgree ==
  /\ totals \in [Policies -> Reports]
  /\ \A by \in Policies : Agrees(totals[by], by)

Counted ==
  /\ leaks \in [Types -> Nat]
  /\ restoration.byOutcome \in [Outcomes -> Nat]
  /\ SumFunction(restoration.byOutcome) + Cardinality(Waiting)
       = SumFunction(Supports(totals["overlap"]))
  /\ \A type \in Types :
       leaks[type] + Cardinality(OfType(Waiting, type)) <= totals["overlap"].perType[type].support

EvaluationInv ==
  /\ LoopInv /\ CrossInv
  /\ Progress /\ Answers /\ Audited /\ ReportsAgree /\ Counted

LEMMA CorpusType ==
  ASSUME NEW n \in DOMAIN Documents
  PROVE  /\ Documents[n].text \in Seq(Parts)
         /\ \A G \in Documents[n].annotations : G \subseteq Entities /\ Listed(G) /\ IsFiniteSet(G)
         /\ \A P \in Documents[n].reports : P \subseteq Spans /\ Listed(P) /\ IsFiniteSet(P)
BY DocumentAssumption DEF Parts

LEMMA ImageFinite ==
  ASSUME NEW S, IsFiniteSet(S), NEW f, DOMAIN f = S
  PROVE  /\ IsFiniteSet({f[x] : x \in S})
         /\ Cardinality({f[x] : x \in S}) <= Cardinality(S)
<1> DEFINE T == {f[x] : x \in S}
           g == [x \in S |-> f[x]]
<1>1. g \in Surjection(S, T)
  BY DEF Surjection
<1>2. QED
  BY <1>1, FS_Surjection

LEMMA AlignAgainKeeps ==
  ASSUME AlignAgain, Input'
  PROVE  LoopInv' /\ CrossInv'
<1>1. LoopInv'
  BY DEF AlignAgain, LoopInv, AlignTypeOK, Input, OneToOne, AlignedMatch, Later,
         SeenFirst, Covered, Settled, Policies
<1>2. CrossInv'
  BY DEF AlignAgain, CrossInv, Policies
<1>3. QED
  BY <1>1, <1>2

LEMMA CrossStutters ==
  ASSUME CrossInv, UNCHANGED alignVars
  PROVE  CrossInv'
BY DEF alignVars, CrossInv, CrossPairs, Missed, SpuriousSpans, Mapped, Settled

(* The texts that go out and come back consist of known parts.             *)
LEMMA SplicedType ==
  ASSUME NEW P \in SUBSET Spans, IsFiniteSet(P), NEW textOf \in [P -> Seq(Parts)],
         Text \in Seq(Parts)
  PROVE  Spliced(textOf) \in Seq(Parts)
<1>1. PICK M \in [SUBSET P -> Seq(Parts)] : Spliced(textOf) = M[P] /\ IsSplice(M, P, textOf)
  BY SplicedIsFold
<1>2. QED
  BY <1>1

LEMMA MaskedType ==
  ASSUME NEW t \in Seq(Parts), NEW F \in SUBSET Seq(Parts), IsFiniteSet(F)
  PROVE  Masked(t, F) \in Seq(Masks)
<1>1. F \ {<< >>} \in SUBSET Seq(Parts) /\ IsFiniteSet(F \ {<< >>})
  BY FS_Subset
<1>2. t \in Seq(Masks)
  BY ElementOfSeq, LenProperties, SeqDef DEF Masks
<1>3. PICK M \in [SUBSET (F \ {<< >>}) -> Seq(Masks)] :
        Masked(t, F) = M[F \ {<< >>}] /\ IsMasking(M, F \ {<< >>}, t)
  BY <1>2, MaskedIsFold
<1>4. QED
  BY <1>3

LEMMA OutcomesFinite == IsFiniteSet(Outcomes)
<1>1. Outcomes = ((((({} \cup {"exact"}) \cup {"correct_inflection"}) \cup {"fuzzy_recovered"})
                     \cup {"base_form_only"}) \cup {"missed"})
  BY DEF Outcomes
<1>2. QED
  BY <1>1, FS_EmptySet, FS_AddElement

LEMMA InitInv == Init => EvaluationInv
<1> SUFFICES ASSUME Init PROVE EvaluationInv
  OBVIOUS
<1>1. gold = {} /\ predicted = {} /\ AlignStart /\ phase = "load" /\ doc = 1
  BY DEF Init
<1>2. LoopInv /\ CrossInv
  BY <1>1 DEF AlignStart, LoopInv, AlignTypeOK, Input, OneToOne, AlignedMatch, Later,
              SeenFirst, Covered, Settled, Policies, Valid, Listed, CrossInv
<1>3. Progress
  <2>1. DOMAIN annotated = DOMAIN Documents
        /\ \A n \in DOMAIN annotated : annotated[n] \in Documents[n].annotations
    BY DEF Init
  <2>2. 1 \in DOMAIN Documents
    BY DocumentAssumption, LenProperties, EmptySeq
  <2>3. QED
    BY <1>1, <2>1, <2>2, FS_EmptySet DEF Progress, InWork
<1>4. Answers
  BY FS_EmptySet DEF Init, Answers
<1>5. Audited
  BY <1>1 DEF Init, Audited
<1>6. ReportsAgree
  BY NoReportAgrees DEF Init, ReportsAgree
<1>7. Counted
  <2>1. Waiting = {}
    BY <1>1 DEF Waiting
  <2>2. /\ leaks = [type \in Types |-> 0]
        /\ restoration.byOutcome = [o \in Outcomes |-> 0]
        /\ totals["overlap"] = NoReport
    BY DEF Init, Policies
  <2>3. IsFiniteSet(Types) /\ IsFiniteSet(Outcomes)
    BY SpanAssumption, OutcomesFinite
  <2>4. Supports(NoReport) \in [Types -> {0}] /\ \A type \in Types : NoReport.perType[type].support = 0
    BY DEF Supports, NoReport
  <2>5. SumFunction(Supports(NoReport)) = 0
    BY <2>3, <2>4, SumOfZeros
  <2>6. SumFunction(restoration.byOutcome) = 0
    BY <2>2, <2>3, SumOfZeros
  <2>7. Cardinality(Waiting) = 0 /\ \A type \in Types : Cardinality(OfType(Waiting, type)) = 0
    BY <2>1, FS_EmptySet DEF OfType
  <2> HIDE DEF Outcomes, NoReport
  <2>8. QED
    BY <2>2, <2>4, <2>5, <2>6, <2>7 DEF Counted
<1>8. QED
  BY <1>2, <1>3, <1>4, <1>5, <1>6, <1>7 DEF EvaluationInv

LEMMA LoadKeeps ==
  ASSUME EvaluationInv, Load
  PROVE  EvaluationInv'
<1>1. /\ phase = "load" /\ phase' \in {"stage1", "cannot run"}
      /\ phase' = "stage1" => \A n \in DOMAIN annotated : Accepted(n)
      /\ UNCHANGED <<alignVars, annotated, doc, docVars, sums>>
  BY DEF Load
<1>2. UNCHANGED <<gold, predicted, annotated, doc, outbound, restored, fakes, findings, outcomes,
                  totals, leaks, restoration>>
  BY <1>1 DEF alignVars, docVars, sums
<1>3. LoopInv' /\ CrossInv'
  BY <1>1, LoopStutters, CrossStutters DEF EvaluationInv
<1>4. Progress'
  BY <1>1, <1>2 DEF EvaluationInv, Progress, InWork, Accepted
<1>5. Answers' /\ Audited' /\ ReportsAgree'
  BY <1>1, <1>2 DEF EvaluationInv, Answers, Audited, ReportsAgree
<1>6. Waiting' = Waiting
  BY <1>1, <1>2 DEF Waiting
<1>7. Counted'
  BY <1>2, <1>6 DEF EvaluationInv, Counted
<1>8. QED
  BY <1>3, <1>4, <1>5, <1>7 DEF EvaluationInv

LEMMA RunStage1Keeps ==
  ASSUME EvaluationInv, NEW spans \in Documents[doc].reports, NEW answered \in 0 .. 3,
         RunStage1(spans, answered)
  PROVE  EvaluationInv'
<1>1. /\ phase = "stage1" /\ phase' = "report"
      /\ gold' = annotated[doc]
      /\ predicted' \in {{}, spans}
      /\ AlignAgain
      /\ UNCHANGED <<annotated, doc, findings, outcomes, totals, leaks, restoration>>
  BY DEF RunStage1, sums
<1>2. /\ doc \in DOMAIN Documents /\ annotated[doc] \in Documents[doc].annotations
      /\ Valid(annotated[doc])
  BY <1>1 DEF EvaluationInv, Progress, Accepted
<1>3. /\ annotated[doc] \subseteq Entities /\ Listed(annotated[doc]) /\ IsFiniteSet(annotated[doc])
      /\ spans \subseteq Spans /\ IsFiniteSet(spans) /\ Text \in Seq(Parts)
  BY <1>2, CorpusType DEF Text
<1>4. Input'
  BY <1>1, <1>2, <1>3 DEF Input, Valid, Listed, FollowsNext, Precedes, BadSpan
<1>5. LoopInv' /\ CrossInv'
  BY <1>1, <1>4, AlignAgainKeeps
<1>6. Progress'
  <2>1. IsFiniteSet(gold') /\ IsFiniteSet(predicted')
    BY <1>1, <1>3, FS_EmptySet
  <2>2. QED
    BY <1>1, <2>1 DEF EvaluationInv, Progress, InWork, Accepted
<1>7. Answers'
  <2>1. << >> \in Seq(Parts) /\ \A p \in spans : p.fake \in Seq(Parts) /\ p.returns \subseteq Seq(Parts)
    BY <1>3, DocumentAssumption DEF Parts
  <2>2. outbound' \in Seq(Parts)
    <3> DEFINE fakeOf == [p \in spans |-> p.fake]
    <3>1. fakeOf \in [spans -> Seq(Parts)]
      BY <2>1
    <3>2. outbound' \in {<< >>, Spliced(fakeOf)}
      BY DEF RunStage1
    <3> HIDE DEF fakeOf
    <3>3. Spliced(fakeOf) \in Seq(Parts)
      BY <1>3, <3>1, SplicedType
    <3>4. QED
      BY <2>1, <3>2, <3>3
  <2>3. restored' \in Seq(Parts)
    <3>1. CASE answered < 3
      BY <2>1, <3>1 DEF RunStage1
    <3>2. CASE ~(answered < 3)
      <4>1. PICK back \in [spans -> UNION {p.returns : p \in spans}] :
              (\A p \in spans : back[p] \in p.returns) /\ restored' = Spliced(back)
        BY <3>2 DEF RunStage1
      <4>2. back \in [spans -> Seq(Parts)]
        BY <2>1, <4>1
      <4>3. QED
        BY <1>3, <4>1, <4>2, SplicedType
    <3>3. QED
      BY <3>1, <3>2
  <2>4. IsFiniteSet(fakes') /\ fakes' \subseteq Seq(Parts)
    <3> DEFINE declared == {p.fake : p \in spans}
    <3>1. declared \subseteq Seq(Parts)
      BY <2>1
    <3>2. IsFiniteSet(declared)
      <4> DEFINE fakeOf == [p \in spans |-> p.fake]
      <4>1. declared = {fakeOf[p] : p \in spans} /\ DOMAIN fakeOf = spans
        OBVIOUS
      <4> HIDE DEF fakeOf, declared
      <4>2. QED
        BY <1>3, <4>1, ImageFinite
    <3>3. fakes' \in {{}, declared}
      BY DEF RunStage1
    <3> HIDE DEF declared
    <3>4. QED
      BY <3>1, <3>2, <3>3, FS_EmptySet
  <2>5. QED
    BY <2>2, <2>3, <2>4 DEF Answers
<1>8. Audited' /\ ReportsAgree'
  BY <1>1 DEF EvaluationInv, Audited, ReportsAgree
<1>9. Waiting = {} /\ Waiting' = {}
  BY <1>1 DEF Waiting
<1>10. Counted'
  BY <1>1, <1>9 DEF EvaluationInv, Counted
<1>11. QED
  BY <1>5, <1>6, <1>7, <1>8, <1>10 DEF EvaluationInv

LEMMA BuildReportsKeeps ==
  ASSUME EvaluationInv, BuildReports
  PROVE  EvaluationInv'
<1>1. phase = "report" /\ AlignNext /\ UNCHANGED <<annotated, phase, doc, docVars, sums>>
  BY DEF BuildReports
<1>2. UNCHANGED <<gold, predicted, annotated, phase, doc, outbound, restored, fakes, findings,
                  outcomes, totals, leaks, restoration>>
  BY <1>1 DEF docVars, sums, AlignNext, AlignPair, EndAlign, CrossPair, EndCross
<1>3. LoopInv' /\ CrossInv'
  BY <1>1, LoopKeeps, CrossInvSteps DEF EvaluationInv
<1>4. Progress' /\ Answers' /\ Audited' /\ ReportsAgree'
  BY <1>2 DEF EvaluationInv, Progress, InWork, Accepted, Answers, Audited, ReportsAgree
<1>5. Waiting' = Waiting
  BY <1>2 DEF Waiting
<1>6. Counted'
  BY <1>2, <1>5 DEF EvaluationInv, Counted
<1>7. QED
  BY <1>3, <1>4, <1>6 DEF EvaluationInv

LEMMA StutterKeeps ==
  ASSUME EvaluationInv, UNCHANGED vars
  PROVE  EvaluationInv'
<1>1. /\ UNCHANGED alignVars
      /\ UNCHANGED <<gold, predicted, annotated, phase, doc, outbound, restored, fakes, findings,
                  outcomes, totals, leaks, restoration>>
  BY DEF vars, alignVars, docVars, sums
<1>2. LoopInv' /\ CrossInv'
  BY <1>1, LoopStutters, CrossStutters DEF EvaluationInv
<1>3. Progress' /\ Answers' /\ Audited' /\ ReportsAgree'
  BY <1>1 DEF EvaluationInv, Progress, InWork, Accepted, Answers, Audited, ReportsAgree
<1>4. Waiting' = Waiting
  BY <1>1 DEF Waiting
<1>5. Counted'
  BY <1>1, <1>4 DEF EvaluationInv, Counted
<1>6. QED
  BY <1>2, <1>3, <1>5 DEF EvaluationInv


(* A report adds each of its counts.                                       *)
LEMMA AddReportsKeeps ==
  ASSUME EvaluationInv, AddReports
  PROVE  EvaluationInv'
<1>1. /\ phase = "report" /\ stage = "scored" /\ phase' = "audit"
      /\ totals' = [by \in Policies |-> Combined(totals[by], Report(by))]
      /\ UNCHANGED <<alignVars, annotated, doc, docVars, leaks, restoration>>
  BY DEF AddReports
<1>2. UNCHANGED <<gold, predicted, annotated, doc, outbound, restored, fakes, findings, outcomes,
                  leaks, restoration>>
  BY <1>1 DEF alignVars, docVars
<1>3. LoopInv' /\ CrossInv'
  BY <1>1, LoopStutters, CrossStutters DEF EvaluationInv
<1>4. Progress'
  BY <1>1, <1>2 DEF EvaluationInv, Progress, InWork, Accepted
<1>5. Answers' /\ Audited'
  BY <1>1, <1>2 DEF EvaluationInv, Answers, Audited
<1>6. IsFiniteSet(gold) /\ IsFiniteSet(predicted)
  BY DEF EvaluationInv, Progress
<1>7. ASSUME NEW by \in Policies
      PROVE  /\ totals[by] \in Reports /\ Report(by) \in Reports
             /\ Agrees(totals[by], by) /\ Agrees(Report(by), by)
  <2>1. totals[by] \in Reports /\ Agrees(totals[by], by)
    BY DEF EvaluationInv, ReportsAgree
  <2>2. Report(by) \in Reports
    BY <1>6, ReportType DEF EvaluationInv
  <2>3. Agrees(Report(by), by)
    BY <1>1, <1>6, ReportAgrees DEF EvaluationInv
  <2>4. QED
    BY <2>1, <2>2, <2>3
<1>8. ReportsAgree'
  <2>1. ASSUME NEW by \in Policies PROVE totals'[by] \in Reports /\ Agrees(totals'[by], by)
    <3>1. totals'[by] = Combined(totals[by], Report(by))
      BY <1>1
    <3>2. Combined(totals[by], Report(by)) \in Reports
      BY <1>7, CombinedFields
    <3>3. Agrees(Combined(totals[by], Report(by)), by)
      BY <1>7, CombinedAgrees
    <3>4. QED
      BY <3>1, <3>2, <3>3
  <2>2. totals' \in [Policies -> Reports]
    BY <1>1, <2>1
  <2>3. QED
    BY <2>1, <2>2 DEF ReportsAgree
<1> DEFINE old == totals["overlap"]
           new == Report("overlap")
           sum == totals'["overlap"]
           ofType == [type \in Types |-> Cardinality(OfType(gold, type))]
<1>9. "overlap" \in Policies
  BY DEF Policies
<1>10. \A type \in Types :
         /\ sum.perType[type].support = old.perType[type].support + ofType[type]
         /\ old.perType[type].support \in Nat /\ ofType[type] \in Nat
         /\ ofType[type] = Cardinality(OfType(gold, type))
  <2> SUFFICES ASSUME NEW type \in Types
               PROVE  /\ sum.perType[type].support = old.perType[type].support + ofType[type]
                      /\ old.perType[type].support \in Nat /\ ofType[type] \in Nat
    BY DEF ofType
  <2>1. sum = Combined(old, new) /\ old \in Reports /\ new \in Reports
    BY <1>1, <1>7, <1>9
  <2>2. new.perType[type].support = ofType[type]
    BY DEF Report, CountsOf, OfType
  <2>3. new.perType[type].support \in Nat /\ old.perType[type].support \in Nat
    BY <2>1 DEF Reports, Counts
  <2> HIDE DEF sum, old, new, ofType
  <2>4. Combined(old, new).perType[type]["support"]
          = old.perType[type]["support"] + new.perType[type]["support"]
    BY <2>1, CombinedFields
  <2>5. QED
    BY <2>1, <2>2, <2>3, <2>4
<1>11. Waiting = {} /\ Waiting' = gold
  BY <1>1, <1>2 DEF Waiting
<1>12. \A e \in gold : e.type \in Types
  BY DEF EvaluationInv, LoopInv, Input, Valid
<1>13. IsFiniteSet(Types)
  BY SpanAssumption
<1>14. SumFunction(ofType) = Cardinality(gold)
  <2> DEFINE typeOf == [e \in gold |-> e.type]
  <2>1. ofType = Tally(typeOf, gold, Types)
    BY DEF Tally, OfType
  <2>2. gold = {e \in gold : typeOf[e] \in Types}
    BY <1>12
  <2> HIDE DEF typeOf, ofType
  <2>3. QED
    BY <1>6, <1>13, <2>1, <2>2, TallySum
<1>15. SumFunction(Supports(sum)) = SumFunction(Supports(old)) + Cardinality(gold)
  <2> HIDE DEF sum, old, ofType
  <2>1. /\ Supports(sum) \in [Types -> Int] /\ Supports(old) \in [Types -> Int]
        /\ \A type \in Types : Supports(sum)[type] = Supports(old)[type] + ofType[type]
    BY <1>10 DEF Supports
  <2>2. ofType \in [Types -> Int]
    BY <1>10 DEF ofType
  <2>3. SumFunction(Supports(sum)) = SumFunction(Supports(old)) + SumFunction(ofType)
    BY <1>13, <2>1, <2>2, SumsAdd
  <2>4. QED
    BY <1>14, <2>3
<1>16. Counted'
  <2>1. /\ leaks' = leaks /\ restoration' = restoration
        /\ leaks \in [Types -> Nat] /\ restoration.byOutcome \in [Outcomes -> Nat]
        /\ SumFunction(restoration.byOutcome) + Cardinality(Waiting) = SumFunction(Supports(old))
        /\ \A type \in Types :
             leaks[type] + Cardinality(OfType(Waiting, type)) <= old.perType[type].support
    BY <1>2 DEF EvaluationInv, Counted
  <2>2. Cardinality(Waiting) = 0 /\ \A type \in Types : Cardinality(OfType(Waiting, type)) = 0
    BY <1>11, FS_EmptySet DEF OfType
  <2>3. SumFunction(restoration.byOutcome) \in Int
    <3>1. IsFiniteSet(Outcomes) /\ restoration.byOutcome \in [Outcomes -> Int]
      BY <2>1, OutcomesFinite
    <3> HIDE DEF Outcomes
    <3>2. QED
      BY <3>1, SumInt
  <2> HIDE DEF sum, old, ofType
  <2>4. SumFunction(restoration.byOutcome) + Cardinality(gold) = SumFunction(Supports(sum))
    BY <1>15, <2>1, <2>2, <2>3
  <2>5. \A type \in Types : leaks[type] + Cardinality(OfType(gold, type)) <= sum.perType[type].support
    <3> SUFFICES ASSUME NEW type \in Types
                 PROVE  leaks[type] + Cardinality(OfType(gold, type)) <= sum.perType[type].support
      OBVIOUS
    <3>1. leaks[type] \in Nat /\ leaks[type] + 0 <= old.perType[type].support
      BY <2>1, <2>2
    <3>2. QED
      BY <1>10, <3>1
  <2>6. QED
    BY <1>11, <2>1, <2>4, <2>5 DEF Counted, sum
<1>17. QED
  BY <1>3, <1>4, <1>5, <1>8, <1>16 DEF EvaluationInv


LEMMA TextOfType ==
  ASSUME EvaluationInv, NEW e \in gold
  PROVE  /\ TextOf(e) \in Seq(Parts) /\ TextOf(e) # << >>
         /\ e.type \in Types
         /\ e.start \in Nat /\ e.end \in Nat /\ e.start < e.end /\ e.end <= Len(Text)
         /\ Text \in Seq(Parts) /\ Len(TextOf(e)) = e.end - e.start
<1>1. /\ doc \in DOMAIN Documents /\ e \in Entities /\ e \in annotated[doc] /\ Accepted(doc)
  BY DEF EvaluationInv, Progress, InWork, LoopInv, Input
<1>2. /\ Text \in Seq(Parts) /\ e.type \in Types /\ e.start < e.end /\ e.end <= Len(Text)
      /\ e.start \in Nat /\ e.end \in Nat
  BY <1>1, CorpusType, SpanAssumption DEF Accepted, Valid, BadSpan, Text
<1>3. Len(Text) \in Nat /\ \A i \in 1 .. Len(Text) : Text[i] \in Parts
  BY <1>2, LenProperties, ElementOfSeq
<1>4. \A i \in e.start + 1 .. e.end : Text[i] \in Parts
  BY <1>2, <1>3
<1>5. e.start + 1 \in Int /\ e.end \in Int
  BY <1>2
<1>6. TextOf(e) \in Seq(Parts)
      /\ Len(TextOf(e)) = IF e.start + 1 <= e.end THEN e.end - (e.start + 1) + 1 ELSE 0
  <2> DEFINE a == e.start + 1
             b == e.end
             t == Text
  <2>1. a \in Int /\ b \in Int /\ \A i \in a .. b : t[i] \in Parts
    BY <1>4, <1>5
  <2> HIDE DEF a, b, t
  <2>2. SubSeq(t, a, b) \in Seq(Parts) /\ Len(SubSeq(t, a, b)) = IF a <= b THEN b - a + 1 ELSE 0
    BY <2>1, SubSeqProperties
  <2>3. QED
    BY <2>2 DEF a, b, t, TextOf
<1>7. Len(TextOf(e)) = e.end - e.start /\ e.end - e.start # 0
  BY <1>2, <1>6
<1>8. TextOf(e) # << >>
  BY <1>6, <1>7, EmptySeq
<1>9. QED
  BY <1>2, <1>6, <1>7, <1>8

LEMMA ClassifiedType ==
  ASSUME NEW e, NEW text
  PROVE  Classified(e, text) \in [inPlace : BOOLEAN, outcome : Outcomes]
<1>1. InPlace(e, text) \in BOOLEAN
  BY DEF InPlace
<1>2. \A candidate, target : NameOutcome(candidate, target) \in Outcomes
  BY DEF NameOutcome, Outcomes
<1>3. "exact" \in Outcomes /\ "missed" \in Outcomes
  BY DEF Outcomes
<1> HIDE DEF Outcomes
<1>4. QED
  BY <1>1, <1>2, <1>3 DEF Classified

LEMMA AuditKeeps ==
  ASSUME EvaluationInv, Audit
  PROVE  EvaluationInv'
<1>1. /\ phase = "audit" /\ phase' = "aggregate"
      /\ findings' = FindingsIn(outbound, fakes)
      /\ outcomes' = [e \in gold |-> Classified(e, restored)]
      /\ UNCHANGED alignVars
      /\ UNCHANGED <<annotated, doc, outbound, restored, fakes, totals, leaks, restoration>>
  BY DEF Audit, sums
<1>2. UNCHANGED <<gold, predicted>>
  BY <1>1 DEF alignVars
<1>3. LoopInv' /\ CrossInv'
  BY <1>1, LoopStutters, CrossStutters DEF EvaluationInv
<1>4. Progress'
  BY <1>1, <1>2 DEF EvaluationInv, Progress, InWork, Accepted
<1>5. Answers' /\ ReportsAgree'
  BY <1>1 DEF EvaluationInv, Answers, ReportsAgree
<1> DEFINE masked == Masked(outbound, fakes)
           of == [e \in gold |-> DetectLeak(e.type, TextOf(e), masked)]
<1>6. masked \in Seq(Masks)
  BY MaskedType DEF EvaluationInv, Answers
<1>7. ASSUME NEW e \in gold PROVE of[e] \in Findings(e.type) \cup {NoFinding} /\ e.type \in Types
  <2>1. TextOf(e) \in Seq(Parts) /\ TextOf(e) # << >> /\ e.type \in Types
    BY TextOfType
  <2> HIDE DEF masked
  <2>2. DetectLeak(e.type, TextOf(e), masked) \in Findings(e.type) \cup {NoFinding}
    BY <1>6, <2>1, DetectLeakType
  <2>3. QED
    BY <2>1, <2>2 DEF of
<1>8. \A f \in findings' : \E e \in gold : f = of[e] /\ of[e] # NoFinding
  BY <1>1 DEF FindingsIn
<1>9. \A f \in findings' : \E e \in gold : f = of[e] /\ f \in Findings(e.type) /\ e.type \in Types
  <2> HIDE DEF of
  <2>1. QED
    BY <1>7, <1>8
<1>10. ASSUME NEW type \in Types
       PROVE  Cardinality(OfType(findings', type)) \in 0 .. Cardinality(OfType(gold, type))
  <2> DEFINE S == OfType(gold, type)
             T == {of[e] : e \in S}
             one == [e \in S |-> of[e]]
  <2>1. IsFiniteSet(S)
    BY FS_Subset DEF EvaluationInv, Progress, OfType
  <2>2. OfType(findings', type) \subseteq T
    <3>1. \A f \in findings' : f.type = type => \E e \in gold : f = of[e] /\ e.type = type
      BY <1>9 DEF Findings
    <3>2. QED
      BY <3>1 DEF OfType
  <2>3. T = {one[e] : e \in S} /\ DOMAIN one = S
    OBVIOUS
  <2> HIDE DEF one, T, S
  <2>4. IsFiniteSet(T) /\ Cardinality(T) <= Cardinality(S)
    BY <2>1, <2>3, ImageFinite
  <2>5. IsFiniteSet(OfType(findings', type)) /\ Cardinality(OfType(findings', type)) <= Cardinality(T)
    BY <2>2, <2>4, FS_Subset
  <2>6. Cardinality(T) \in Nat /\ Cardinality(S) \in Nat /\ Cardinality(OfType(findings', type)) \in Nat
    BY <2>1, <2>4, <2>5, FS_CardinalityType
  <2>7. QED
    BY <2>4, <2>5, <2>6 DEF S
<1>11. Audited'
  <2>1. outcomes' \in [gold -> [inPlace : BOOLEAN, outcome : Outcomes]]
    <3>1. \A e \in gold : Classified(e, restored) \in [inPlace : BOOLEAN, outcome : Outcomes]
      BY ClassifiedType
    <3>2. QED
      BY <1>1, <3>1
  <2> HIDE DEF of, Outcomes
  <2>2. QED
    BY <1>1, <1>2, <1>9, <1>10, <2>1 DEF Audited
<1>12. Waiting' = Waiting
  BY <1>1, <1>2 DEF Waiting
<1>13. Counted'
  BY <1>1, <1>12 DEF EvaluationInv, Counted
<1>14. QED
  BY <1>3, <1>4, <1>5, <1>11, <1>13 DEF EvaluationInv

LEMMA AggregateKeeps ==
  ASSUME EvaluationInv, Aggregate
  PROVE  EvaluationInv'
<1>1. /\ phase = "aggregate" /\ phase' \in {"stage1", "done"}
      /\ doc' = IF doc < Len(Documents) THEN doc + 1 ELSE doc
      /\ gold' = {} /\ predicted' = {} /\ AlignAgain
      /\ outbound' = << >> /\ restored' = << >> /\ fakes' = {}
      /\ findings' = {} /\ outcomes' = << >>
      /\ UNCHANGED <<annotated, totals>>
      /\ leaks' = LeaksWith(findings) /\ restoration' = RestorationWith
  BY DEF Aggregate
<1>2. LoopInv' /\ CrossInv'
  <2>1. Input'
    BY <1>1 DEF Input, Valid, Listed
  <2>2. QED
    BY <1>1, <2>1, AlignAgainKeeps
<1>3. Progress'
  <2>1. DOMAIN Documents = 1 .. Len(Documents) /\ Len(Documents) \in Nat
    BY DocumentAssumption, LenProperties
  <2>2. doc' \in DOMAIN Documents
    BY <1>1, <2>1 DEF EvaluationInv, Progress
  <2>3. QED
    BY <1>1, <2>2, FS_EmptySet DEF EvaluationInv, Progress, InWork, Accepted
<1>4. Answers'
  BY <1>1, FS_EmptySet DEF Answers
<1>5. Audited' /\ ReportsAgree'
  BY <1>1 DEF EvaluationInv, Audited, ReportsAgree
<1>6. /\ leaks \in [Types -> Nat] /\ restoration.byOutcome \in [Outcomes -> Nat]
      /\ SumFunction(restoration.byOutcome) + Cardinality(gold)
           = SumFunction(Supports(totals["overlap"]))
      /\ \A type \in Types :
           leaks[type] + Cardinality(OfType(gold, type)) <= totals["overlap"].perType[type].support
  <2>1. Waiting = gold
    BY <1>1 DEF Waiting
  <2>2. QED
    BY <2>1 DEF EvaluationInv, Counted
<1>7. /\ IsFiniteSet(gold)
      /\ outcomes \in [gold -> [inPlace : BOOLEAN, outcome : Outcomes]]
      /\ \A type \in Types :
           Cardinality(OfType(findings, type)) \in 0 .. Cardinality(OfType(gold, type))
  BY <1>1 DEF EvaluationInv, Progress, Audited
<1>8. \A type \in Types : /\ Cardinality(OfType(gold, type)) \in Nat
                           /\ Cardinality(OfType(findings, type)) \in Nat
                           /\ Cardinality(OfType(findings, type)) <= Cardinality(OfType(gold, type))
  <2>1. \A type \in Types : Cardinality(OfType(gold, type)) \in Nat
    BY <1>7, FS_Subset, FS_CardinalityType DEF OfType
  <2>2. QED
    BY <1>7, <2>1
<1>9. leaks' = [type \in Types |-> leaks[type] + Cardinality(OfType(findings, type))]
  BY <1>1 DEF LeaksWith, OfType
<1>10. leaks' \in [Types -> Nat]
  BY <1>6, <1>8, <1>9
<1>11. \A e \in gold : e.type \in Types
  BY DEF EvaluationInv, LoopInv, Input, Valid
<1> DEFINE outcomeOf == [e \in gold |-> outcomes[e].outcome]
           tally == Tally(outcomeOf, gold, Outcomes)
<1>12. SumFunction(tally) = Cardinality(gold) /\ tally \in [Outcomes -> Nat]
  <2>1. gold = {e \in gold : outcomeOf[e] \in Outcomes}
    BY <1>7
  <2> HIDE DEF outcomeOf, Outcomes
  <2>2. QED
    BY <1>7, <2>1, OutcomesFinite, TallySum, TallyType
<1>13. restoration'.byOutcome = [o \in Outcomes |-> restoration.byOutcome[o] + tally[o]]
  <2>1. \A o \in Outcomes : tally[o] = Cardinality({e \in gold : outcomes[e].outcome = o})
    BY DEF Tally
  <2> HIDE DEF tally, Outcomes
  <2>2. QED
    BY <1>1, <2>1 DEF RestorationWith
<1>14. /\ restoration'.byOutcome \in [Outcomes -> Nat]
       /\ SumFunction(restoration'.byOutcome) = SumFunction(restoration.byOutcome) + Cardinality(gold)
       /\ SumFunction(restoration'.byOutcome) \in Int
  <2> HIDE DEF tally, Outcomes
  <2>1. restoration'.byOutcome \in [Outcomes -> Nat]
    BY <1>6, <1>12, <1>13
  <2>2. /\ restoration'.byOutcome \in [Outcomes -> Int] /\ tally \in [Outcomes -> Int]
        /\ restoration.byOutcome \in [Outcomes -> Int]
        /\ \A o \in Outcomes : restoration'.byOutcome[o] = restoration.byOutcome[o] + tally[o]
    BY <1>6, <1>12, <1>13, <2>1
  <2>3. SumFunction(restoration'.byOutcome) = SumFunction(restoration.byOutcome) + SumFunction(tally)
    BY <2>2, OutcomesFinite, SumsAdd
  <2>4. SumFunction(restoration'.byOutcome) \in Int
    BY <2>2, OutcomesFinite, SumInt
  <2>5. QED
    BY <1>12, <2>1, <2>3, <2>4
<1>15. Counted'
  <2> HIDE DEF Outcomes
  <2>1. Waiting' = {}
    BY <1>1 DEF Waiting
  <2>2. Cardinality(Waiting') = 0 /\ \A type \in Types : Cardinality(OfType(Waiting', type)) = 0
    BY <2>1, FS_EmptySet DEF OfType
  <2>3. SumFunction(restoration'.byOutcome) + Cardinality(Waiting')
          = SumFunction(Supports(totals'["overlap"]))
    BY <1>1, <1>6, <1>14, <2>2
  <2>4. \A type \in Types :
          leaks'[type] + Cardinality(OfType(Waiting', type)) <= totals'["overlap"].perType[type].support
    <3> SUFFICES ASSUME NEW type \in Types
                 PROVE  leaks'[type] + 0 <= totals["overlap"].perType[type].support
      BY <1>1, <2>2
    <3>1. totals["overlap"].perType[type].support \in Nat
      BY DEF EvaluationInv, ReportsAgree, Reports, Counts, Policies
    <3>2. QED
      BY <1>6, <1>8, <1>9, <3>1
  <2>5. QED
    BY <1>10, <1>14, <2>3, <2>4 DEF Counted
<1>16. QED
  BY <1>2, <1>3, <1>4, <1>5, <1>15 DEF EvaluationInv

LEMMA NextInv == EvaluationInv /\ [Next]_vars => EvaluationInv'
<1> SUFFICES ASSUME EvaluationInv, [Next]_vars PROVE EvaluationInv'
  OBVIOUS
<1>1. CASE Load
  BY <1>1, LoadKeeps
<1>2. ASSUME NEW spans \in Documents[doc].reports, NEW answered \in 0 .. 3, RunStage1(spans, answered)
      PROVE  EvaluationInv'
  BY <1>2, RunStage1Keeps
<1>3. CASE BuildReports
  BY <1>3, BuildReportsKeeps
<1>4. CASE AddReports
  BY <1>4, AddReportsKeeps
<1>5. CASE Audit
  BY <1>5, AuditKeeps
<1>6. CASE Aggregate
  BY <1>6, AggregateKeeps
<1>7. CASE UNCHANGED vars
  BY <1>7, StutterKeeps
<1>8. QED
  BY <1>1, <1>2, <1>3, <1>4, <1>5, <1>6, <1>7 DEF Next

LEMMA EvaluationInvariant == Spec => []EvaluationInv
BY InitInv, NextInv, PTL DEF Spec

(* Every run keeps to its types: what the audit finds is of a canonical   *)
(* type, at a place, and every entity is given one of the outcomes.        *)
THEOREM TypeCorrect == Spec => []TypeOK
<1>1. EvaluationInv => TypeOK
  <2> SUFFICES ASSUME EvaluationInv PROVE TypeOK
    OBVIOUS
  <2>1. AlignTypeOK /\ doc \in DOMAIN Documents
        /\ phase \in {"load", "cannot run", "stage1", "report", "audit", "aggregate", "done"}
    BY DEF EvaluationInv, LoopInv, Progress
  <2>2. findings \subseteq [type : Types, start : Nat, end : Nat,
                            mode : {"exact", "exact_id", "stem", "diacritic_fold"}]
    BY DEF EvaluationInv, Audited, Findings
  <2>3. outcomes \in [DOMAIN outcomes -> [inPlace : BOOLEAN, outcome : Outcomes]]
    <3>1. CASE phase = "aggregate"
      BY <3>1 DEF EvaluationInv, Audited
    <3>2. CASE phase # "aggregate"
      <4>1. outcomes = << >>
        BY <3>2 DEF EvaluationInv, Audited
      <4>2. << >> \in [DOMAIN << >> -> [inPlace : BOOLEAN, outcome : Outcomes]]
        BY EmptySeq, LenProperties
      <4>3. QED
        BY <4>1, <4>2
    <3>3. QED
      BY <3>1, <3>2
  <2>4. QED
    BY <2>1, <2>2, <2>3 DEF TypeOK
<1>2. QED
  BY <1>1, EvaluationInvariant, PTL

(* The results of a corpus tell one story, whatever the documents, the     *)
(* spans and the failures: rows and columns of the matrix add up to what   *)
(* the types count, every annotated entity has one restoration outcome     *)
(* and at most one leak.                                                   *)
THEOREM ResultsAgree == Spec => []SumsAgree
<1>1. EvaluationInv => SumsAgree
  <2> SUFFICES ASSUME EvaluationInv PROVE SumsAgree
    OBVIOUS
  <2>1. \A by \in Policies : Agrees(totals[by], by)
    BY DEF EvaluationInv, ReportsAgree
  <2>2. ASSUME phase \in {"stage1", "done"}
        PROVE  LET support == [type \in Types |-> totals["overlap"].perType[type].support]
               IN /\ SumFunction(restoration.byOutcome) = SumFunction(support)
                  /\ \A type \in Types : leaks[type] <= support[type]
    <3>1. Waiting = {}
      BY <2>2 DEF Waiting
    <3>2. Cardinality(Waiting) = 0 /\ \A type \in Types : Cardinality(OfType(Waiting, type)) = 0
      BY <3>1, FS_EmptySet DEF OfType
    <3>3. /\ leaks \in [Types -> Nat] /\ restoration.byOutcome \in [Outcomes -> Nat]
          /\ SumFunction(restoration.byOutcome) + 0 = SumFunction(Supports(totals["overlap"]))
          /\ \A type \in Types : leaks[type] + 0 <= totals["overlap"].perType[type].support
      BY <3>2 DEF EvaluationInv, Counted
    <3>4. SumFunction(restoration.byOutcome) \in Int
      <4>1. IsFiniteSet(Outcomes) /\ restoration.byOutcome \in [Outcomes -> Int]
        BY <3>3, OutcomesFinite
      <4> HIDE DEF Outcomes
      <4>2. QED
        BY <4>1, SumInt
    <3> HIDE DEF Outcomes
    <3>5. SumFunction(restoration.byOutcome) = SumFunction(Supports(totals["overlap"]))
      BY <3>3, <3>4
    <3>6. \A type \in Types : leaks[type] <= Supports(totals["overlap"])[type]
      BY <3>3 DEF Supports
    <3>7. QED
      BY <3>5, <3>6 DEF Supports
  <2>3. QED
    BY <2>1, <2>2 DEF SumsAgree, Agrees
<1>2. QED
  BY <1>1, EvaluationInvariant, PTL

(* In every document of a run, the alignment under a policy is one-to-one  *)
(* and passes over a pair only for one that overlaps as much.              *)
THEOREM StableThroughout == Spec => []Stable
<1>1. EvaluationInv => Stable
  BY LoopStable DEF EvaluationInv
<1>2. QED
  BY <1>1, EvaluationInvariant, PTL

(* In every document of a run, strict recall stays within the primary one. *)
THEOREM StrictWithinThroughout == Spec => []ExactWithinOverlap
<1>1. EvaluationInv => ExactWithinOverlap
  BY LoopStrict DEF EvaluationInv
<1>2. QED
  BY <1>1, EvaluationInvariant, PTL

-----------------------------------------------------------------------------
(* A text within another one. *)

(* The text t has s after its first k parts.                               *)
Within(t, k, s) ==
  /\ k \in Nat /\ k + Len(s) <= Len(t)
  /\ \A i \in 1 .. Len(s) : t[k + i] = s[i]

LEMMA WithinOccurs ==
  ASSUME NEW V, NEW t \in Seq(V), NEW s \in Seq(V), s # << >>, NEW k, Within(t, k, s)
  PROVE  k + 1 \in Occurrences(t, s)
<1>1. Len(t) \in Nat /\ Len(s) \in Nat /\ k \in Nat /\ k + Len(s) <= Len(t) /\ Len(s) # 0
  BY LenProperties, EmptySeq DEF Within
<1>2. \A i \in 1 .. Len(t) : t[i] \in V
  BY ElementOfSeq, LenProperties
<1> DEFINE a == k + 1
           b == a + Len(s) - 1
           u == SubSeq(t, a, b)
<1>3. a \in Nat /\ b \in Nat /\ a <= b /\ b = k + Len(s) /\ \A i \in a .. b : t[i] \in V
  BY <1>1, <1>2
<1>4. /\ u \in Seq(V) /\ Len(u) = Len(s)
      /\ \A i \in 1 .. Len(s) : u[i] = t[k + i]
  <2>1. /\ u \in Seq(V)
        /\ Len(u) = IF a <= b THEN b - a + 1 ELSE 0
        /\ \A i \in 1 .. b - a + 1 : u[i] = t[a + i - 1]
    <3> HIDE DEF a, b
    <3>1. QED
      BY <1>3, SubSeqProperties
  <2>2. b - a + 1 = Len(s) /\ \A i \in 1 .. Len(s) : a + i - 1 = k + i
    BY <1>1, <1>3
  <2> HIDE DEF u, b, a
  <2>3. QED
    BY <1>3, <2>1, <2>2
<1>5. \A i \in 1 .. Len(s) : u[i] = s[i]
  BY <1>4 DEF Within
<1>6. u = s
  <2> HIDE DEF u
  <2>1. QED
    BY <1>4, <1>5, SeqEqual
<1>7. a \in 1 .. Len(t) /\ a + Len(s) <= Len(t) + 1
  BY <1>1
<1>8. QED
  BY <1>6, <1>7 DEF Occurrences

LEMMA WithinNormal ==
  ASSUME NEW V, NEW t \in Seq(V), NEW s \in Seq(V), NEW k, Within(t, k, s)
  PROVE  Within(Normal(t), k, Normal(s))
<1>1. /\ DOMAIN t = 1 .. Len(t) /\ DOMAIN s = 1 .. Len(s) /\ Len(t) \in Nat /\ Len(s) \in Nat
      /\ Len(Normal(t)) = Len(t) /\ Len(Normal(s)) = Len(s)
  BY LenProperties, NormalLength
<1>2. k \in Nat /\ k + Len(s) <= Len(t)
  BY DEF Within
<1>3. ASSUME NEW i \in 1 .. Len(s) PROVE Normal(t)[k + i] = Normal(s)[i]
  <2>1. k + i \in 1 .. Len(t)
    BY <1>1, <1>2
  <2>2. Normal(t)[k + i] = Mapping(LowerCase, t[k + i]) /\ Normal(s)[i] = Mapping(LowerCase, s[i])
    BY <1>1, <2>1 DEF Normal
  <2>3. QED
    BY <2>2 DEF Within
<1>4. QED
  BY <1>1, <1>2, <1>3 DEF Within

LEMMA NormalType ==
  ASSUME NEW V, NEW t \in Seq(V)
  PROVE  Normal(t) \in Seq({Mapping(LowerCase, v) : v \in V})
<1>1. DOMAIN t = 1 .. Len(t) /\ Len(t) \in Nat /\ \A i \in 1 .. Len(t) : t[i] \in V
  BY LenProperties, ElementOfSeq
<1>2. Normal(t) \in [1 .. Len(t) -> {Mapping(LowerCase, v) : v \in V}]
  BY <1>1 DEF Normal
<1>3. QED
  BY <1>1, <1>2, IsASeq

LEMMA WithinHolds ==
  ASSUME NEW V, NEW t \in Seq(V), NEW s \in Seq(V), NEW k, Within(t, k, s)
  PROVE  Holds(Normal(t), Normal(s))
<1> DEFINE W == {Mapping(LowerCase, v) : v \in V}
<1>1. Normal(t) \in Seq(W) /\ Normal(s) \in Seq(W)
  BY NormalType
<1>2. Within(Normal(t), k, Normal(s))
  BY WithinNormal
<1> HIDE DEF W
<1>3. Normal(s) # << >> => k + 1 \in Occurrences(Normal(t), Normal(s))
  BY <1>1, <1>2, WithinOccurs
<1>4. QED
  BY <1>3 DEF Holds

(* What is replaced before or after a text leaves it as it is.             *)
LEMMA WithinReplaced ==
  ASSUME NEW V, NEW t \in Seq(V), NEW new \in Seq(V), NEW s \in Seq(V), Len(s) > 0,
         NEW start \in Nat, NEW end \in Nat, start <= end, NEW k, Within(t, k, s)
  PROVE  /\ k + Len(s) <= start => Within(Replaced(t, start, end, new), k, s)
         /\ end <= k => Within(Replaced(t, start, end, new), k - end + start + Len(new), s)
<1>1. /\ Len(t) \in Nat /\ Len(new) \in Nat /\ Len(s) \in Nat /\ k \in Nat
      /\ k + Len(s) <= Len(t) /\ \A i \in 1 .. Len(s) : t[k + i] = s[i]
      /\ \A i \in 1 .. Len(t) : t[i] \in V
  BY LenProperties, ElementOfSeq DEF Within
<1> DEFINE c == IF start < Len(t) THEN start ELSE Len(t)
           left == SubSeq(t, 1, c)
           right == SubSeq(t, end + 1, Len(t))
           R == Replaced(t, start, end, new)
<1>2. c \in Nat /\ c <= Len(t) /\ c <= start
  BY <1>1
<1>3. left \in Seq(V) /\ Len(left) = c /\ \A i \in 1 .. c : left[i] = t[i]
  <2> HIDE DEF c
  <2>1. 1 \in Int /\ c \in Int /\ \A i \in 1 .. c : t[i] \in V
    BY <1>1, <1>2
  <2>2. /\ left \in Seq(V) /\ Len(left) = IF 1 <= c THEN c - 1 + 1 ELSE 0
        /\ \A i \in 1 .. c - 1 + 1 : left[i] = t[1 + i - 1]
    BY <2>1, SubSeqProperties
  <2>3. \A i \in 1 .. c : 1 + i - 1 = i
    BY <1>2
  <2> HIDE DEF left
  <2>4. QED
    BY <1>2, <2>2, <2>3
<1>4. /\ right \in Seq(V) /\ Len(right) = IF end < Len(t) THEN Len(t) - end ELSE 0
      /\ \A i \in 1 .. Len(t) - end : right[i] = t[end + i]
  <2> DEFINE a == end + 1
             b == Len(t)
  <2>1. a \in Int /\ b \in Int /\ \A i \in a .. b : t[i] \in V
    BY <1>1
  <2>2. /\ right \in Seq(V) /\ Len(right) = IF a <= b THEN b - a + 1 ELSE 0
        /\ \A i \in 1 .. b - a + 1 : right[i] = t[a + i - 1]
    <3> HIDE DEF a, b
    <3>1. QED
      BY <2>1, SubSeqProperties DEF a, b
  <2>3. b - a + 1 = Len(t) - end /\ \A i \in 1 .. Len(t) - end : a + i - 1 = end + i
    BY <1>1
  <2> HIDE DEF right
  <2>4. right \in Seq(V) /\ Len(right) = IF end < Len(t) THEN Len(t) - end ELSE 0
    <3>1. a <= b <=> end < Len(t)
      BY <1>1
    <3> HIDE DEF a, b
    <3>2. QED
      BY <2>2, <2>3, <3>1
  <2>5. \A i \in 1 .. Len(t) - end : right[i] = t[end + i]
    <3> HIDE DEF a, b
    <3>1. QED
      BY <2>2, <2>3
  <2>6. QED
    BY <2>4, <2>5
<1>5. R = left \o new \o right
  BY DEF Replaced
<1> HIDE DEF left, right, R, c
<1> DEFINE front == left \o new
<1>6. /\ front \in Seq(V) /\ Len(front) = c + Len(new)
      /\ \A i \in 1 .. c : front[i] = left[i]
  <2>1. /\ front \in Seq(V) /\ Len(front) = Len(left) + Len(new)
        /\ \A i \in 1 .. Len(left) + Len(new) :
             front[i] = IF i <= Len(left) THEN left[i] ELSE new[i - Len(left)]
    BY <1>3, ConcatProperties
  <2> HIDE DEF front
  <2>2. \A i \in 1 .. c : i \in 1 .. Len(left) + Len(new) /\ i <= Len(left)
    BY <1>1, <1>2, <1>3
  <2>3. QED
    BY <1>3, <2>1, <2>2
<1> HIDE DEF front
<1>7. /\ R \in Seq(V) /\ Len(R) = Len(front) + Len(right)
      /\ \A i \in 1 .. Len(front) + Len(right) :
           R[i] = IF i <= Len(front) THEN front[i] ELSE right[i - Len(front)]
  <2>1. R = front \o right
    BY <1>5 DEF front
  <2>2. /\ front \o right \in Seq(V) /\ Len(front \o right) = Len(front) + Len(right)
        /\ \A i \in 1 .. Len(front) + Len(right) :
             (front \o right)[i] = IF i <= Len(front) THEN front[i] ELSE right[i - Len(front)]
    BY <1>4, <1>6, ConcatProperties
  <2>3. QED
    BY <2>1, <2>2, Zenon
<1>8. Len(right) \in Nat /\ Len(front) \in Nat
  BY <1>1, <1>2, <1>4, <1>6
<1>9. ASSUME k + Len(s) <= start PROVE Within(R, k, s)
  <2>1. k + Len(s) <= c
    BY <1>1, <1>9 DEF c
  <2>2. k + Len(s) <= Len(R)
    BY <1>1, <1>2, <1>6, <1>7, <1>8, <2>1
  <2>3. ASSUME NEW i \in 1 .. Len(s) PROVE R[k + i] = s[i]
    <3>1. k + i \in 1 .. c /\ k + i \in 1 .. Len(front) + Len(right) /\ k + i <= Len(front)
      BY <1>1, <1>2, <1>6, <1>8, <2>1
    <3>2. R[k + i] = front[k + i] /\ front[k + i] = left[k + i] /\ left[k + i] = t[k + i]
      BY <1>3, <1>6, <1>7, <3>1
    <3>3. QED
      BY <1>1, <3>2
  <2>4. QED
    BY <1>1, <2>2, <2>3 DEF Within
<1>10. ASSUME end <= k PROVE Within(R, k - end + start + Len(new), s)
  <2>1. c = start /\ end < Len(t)
    BY <1>1, <1>10 DEF c
  <2> DEFINE j == k - end + start + Len(new)
  <2>2. j \in Nat /\ j + Len(s) <= Len(R)
    BY <1>1, <1>4, <1>6, <1>7, <1>8, <1>10, <2>1
  <2>3. ASSUME NEW i \in 1 .. Len(s) PROVE R[j + i] = s[i]
    <3>1. /\ j + i \in 1 .. Len(front) + Len(right) /\ ~(j + i <= Len(front))
          /\ (j + i) - Len(front) = k - end + i
          /\ k - end + i \in 1 .. Len(t) - end /\ end + (k - end + i) = k + i
      BY <1>1, <1>4, <1>6, <1>8, <1>10, <2>1, <2>2
    <3>2. R[j + i] = right[(j + i) - Len(front)]
      BY <1>7, <3>1
    <3>3. right[k - end + i] = t[k + i]
      BY <1>4, <3>1
    <3>4. QED
      BY <1>1, <3>1, <3>2, <3>3
  <2>4. QED
    BY <2>2, <2>3 DEF Within
<1>11. QED
  BY <1>9, <1>10 DEF R

-----------------------------------------------------------------------------
(* The digits of a text. *)

IsDigits(F, t) ==
  /\ F[0] = << >>
  /\ \A i \in 1 .. Len(t) :
       F[i] = IF t[i] \in Digits THEN Append(F[i - 1], t[i]) ELSE F[i - 1]

LEMMA DigitsChain ==
  ASSUME NEW V, NEW t \in Seq(V)
  PROVE  \E F \in [0 .. Len(t) -> Seq(V)] : DigitsOnly(t) = F[Len(t)] /\ IsDigits(F, t)
<1> DEFINE n == Len(t)
           Values(M) == [i \in 0 .. n |->
                           IF i = 0 THEN << >>
                           ELSE IF t[i] \in Digits THEN Append(M[i - 1], t[i]) ELSE M[i - 1]]
           M == CHOOSE M : M = Values(M)
           step == [x \in (0 .. n) \X Seq(V) |->
                      IF x[1] \in 1 .. n /\ t[x[1]] \in Digits THEN Append(x[2], t[x[1]]) ELSE x[2]]
<1>1. n \in Nat /\ \A i \in 1 .. n : t[i] \in V
  BY LenProperties, ElementOfSeq
<1>2. \A u \in Seq(V), v \in V : Append(u, v) \in Seq(V)
  BY AppendProperties
<1>3. << >> \in Seq(V)
  BY EmptySeq
<1>4. step \in [(0 .. n) \X Seq(V) -> Seq(V)]
  <2> HIDE DEF n
  <2>1. QED
    BY <1>1, <1>2
<1>5. \A i \in 1 .. n, u \in Seq(V) :
        step[<<i, u>>] = IF t[i] \in Digits THEN Append(u, t[i]) ELSE u
  <2> HIDE DEF n
  <2>1. \A i \in 1 .. n : i \in 0 .. n
    BY <1>1
  <2>2. QED
    BY <2>1
<1> HIDE DEF step, n
<1> DEFINE none == << >>
           zero == 0
<1>20. none \in Seq(V) /\ zero \in Int /\ n \in Int /\ step \in [(zero .. n) \X Seq(V) -> Seq(V)]
  BY <1>1, <1>3, <1>4
<1> HIDE DEF none, zero
<1>6. PICK F : IsChain(F, step, none, zero, n)
  BY <1>20, ChainExists
<1>21. F \in [zero .. n -> Seq(V)]
  BY <1>20, <1>6, ChainType
<1>7. F \in [0 .. n -> Seq(V)]
  BY <1>21 DEF zero
<1>8. F = Values(F)
  <2>1. F = [i \in 0 .. n |-> IF i = 0 THEN << >> ELSE step[<<i, F[i - 1]>>]]
    BY <1>6 DEF IsChain, none, zero
  <2>2. \A i \in 0 .. n : i # 0 => i \in 1 .. n /\ F[i - 1] \in Seq(V)
    BY <1>1, <1>7
  <2>3. \A i \in 0 .. n : i # 0 =>
          step[<<i, F[i - 1]>>] = IF t[i] \in Digits THEN Append(F[i - 1], t[i]) ELSE F[i - 1]
    BY <1>5, <2>2
  <2>4. QED
    BY <2>1, <2>3
<1>9. M = Values(M)
  <2> HIDE DEF Values
  <2>1. QED
    BY <1>8
<1>10. DigitsOnly(t) = M[n]
  BY DEF DigitsOnly, n
<1> HIDE DEF M
<1>11. M[0] = << >>
  BY <1>1, <1>9
<1>12. \A i \in 1 .. n : M[i] = IF t[i] \in Digits THEN Append(M[i - 1], t[i]) ELSE M[i - 1]
  <2> SUFFICES ASSUME NEW i \in 1 .. n
               PROVE  M[i] = IF t[i] \in Digits THEN Append(M[i - 1], t[i]) ELSE M[i - 1]
    OBVIOUS
  <2>1. i \in 0 .. n /\ i # 0
    BY <1>1
  <2>2. QED
    BY <1>9, <2>1
<1>13. \A i \in 0 .. n : M[i] \in Seq(V)
  <2> DEFINE Bad == {i \in 0 .. n : M[i] \notin Seq(V)}
  <2> SUFFICES ASSUME Bad # {} PROVE FALSE
    OBVIOUS
  <2>1. PICK i \in Bad : \A j \in Bad : i <= j
    <3>1. Bad \in SUBSET Nat
      BY <1>1
    <3> HIDE DEF Bad
    <3>2. QED
      BY <3>1, LeastNumber
  <2>2. i \in 0 .. n /\ M[i] \notin Seq(V) /\ i # 0
    BY <1>3, <1>11
  <2>3. i \in 1 .. n /\ i - 1 \in 0 .. n /\ i - 1 \notin Bad
    BY <1>1, <2>1, <2>2
  <2>4. M[i - 1] \in Seq(V) /\ t[i] \in V
    BY <1>1, <2>3
  <2>5. M[i] = IF t[i] \in Digits THEN Append(M[i - 1], t[i]) ELSE M[i - 1]
    BY <1>12, <2>3
  <2>6. Append(M[i - 1], t[i]) \in Seq(V)
    BY <1>2, <2>4
  <2>7. QED
    BY <2>2, <2>4, <2>5, <2>6
<1>14. M \in [0 .. n -> Seq(V)]
  BY <1>9, <1>13
<1>15. IsDigits(M, t)
  BY <1>11, <1>12 DEF IsDigits, n
<1>16. QED
  BY <1>10, <1>14, <1>15 DEF n

(* The provers do not match the operators of sequences in a fact: they     *)
(* have names of their own for it.                                         *)
Ended(s, x) == Append(s, x)

LEMMA ConcatAppend ==
  ASSUME NEW V, NEW a \in Seq(V), NEW b \in Seq(V), NEW x \in V
  PROVE  Ended(Joined(a, b), x) = Joined(a, Ended(b, x))
<1>1. <<x>> \in Seq(V) /\ a \o b \in Seq(V)
  BY ConcatProperties
<1>2. Append(a \o b, x) = (a \o b) \o <<x>> /\ Append(b, x) = b \o <<x>>
  BY <1>1, AppendIsConcat
<1>3. (a \o b) \o <<x>> = a \o (b \o <<x>>)
  BY <1>1, ConcatAssociative
<1>4. QED
  BY <1>2, <1>3 DEF Ended, Joined

(* What stands between two texts is found in the whole.                    *)
LEMMA BetweenHeld ==
  ASSUME NEW V, NEW a \in Seq(V), NEW b \in Seq(V), NEW z \in Seq(V)
  PROVE  Holds((a \o b) \o z, b)
<1> DEFINE c == a \o b
           d == c \o z
<1>1. Len(a) \in Nat /\ Len(b) \in Nat /\ Len(z) \in Nat
  BY LenProperties
<1>2. /\ c \in Seq(V) /\ Len(c) = Len(a) + Len(b)
      /\ \A i \in 1 .. Len(a) + Len(b) : c[i] = IF i <= Len(a) THEN a[i] ELSE b[i - Len(a)]
  BY ConcatProperties
<1> HIDE DEF c
<1>3. /\ d \in Seq(V) /\ Len(d) = Len(c) + Len(z)
      /\ \A i \in 1 .. Len(c) + Len(z) : d[i] = IF i <= Len(c) THEN c[i] ELSE z[i - Len(c)]
  <2>1. /\ c \o z \in Seq(V) /\ Len(c \o z) = Len(c) + Len(z)
        /\ \A i \in 1 .. Len(c) + Len(z) : (c \o z)[i] = IF i <= Len(c) THEN c[i] ELSE z[i - Len(c)]
    <3>1. c \in Seq(V)
      BY <1>2
    <3>2. QED
      BY <3>1, ConcatProperties, Zenon
  <2>2. QED
    BY <2>1, Zenon
<1> HIDE DEF d
<1>4. ASSUME NEW i \in 1 .. Len(b) PROVE d[Len(a) + i] = b[i]
  <2>1. /\ Len(a) + i \in 1 .. Len(c) + Len(z) /\ Len(a) + i <= Len(c)
        /\ Len(a) + i \in 1 .. Len(a) + Len(b) /\ ~(Len(a) + i <= Len(a))
        /\ (Len(a) + i) - Len(a) = i
    BY <1>1, <1>2
  <2>2. d[Len(a) + i] = c[Len(a) + i]
    BY <1>3, <2>1
  <2>3. c[Len(a) + i] = b[(Len(a) + i) - Len(a)]
    BY <1>2, <2>1
  <2>4. QED
    BY <2>1, <2>2, <2>3
<1>5. Within(d, Len(a), b)
  BY <1>1, <1>2, <1>3, <1>4 DEF Within
<1>6. b # << >> => Len(a) + 1 \in Occurrences(d, b)
  BY <1>3, <1>5, WithinOccurs
<1>7. QED
  BY <1>6 DEF Holds, c, d

(* The digits of a text within another one are among its digits.           *)
LEMMA WithinDigits ==
  ASSUME NEW V, NEW t \in Seq(V), NEW s \in Seq(V), NEW k, Within(t, k, s)
  PROVE  Holds(DigitsOnly(t), DigitsOnly(s))
<1> DEFINE n == Len(t)
           m == Len(s)
<1>1. /\ n \in Nat /\ m \in Nat /\ k \in Nat /\ k + m <= n
      /\ \A i \in 1 .. m : t[k + i] = s[i] /\ s[i] \in V
      /\ \A i \in 1 .. n : t[i] \in V
  BY LenProperties, ElementOfSeq DEF Within
<1>2. PICK F \in [0 .. n -> Seq(V)] : DigitsOnly(t) = F[n] /\ IsDigits(F, t)
  BY DigitsChain
<1>3. PICK G \in [0 .. m -> Seq(V)] : DigitsOnly(s) = G[m] /\ IsDigits(G, s)
  BY DigitsChain
<1>4. \A i \in 1 .. n : F[i] = IF t[i] \in Digits THEN Append(F[i - 1], t[i]) ELSE F[i - 1]
  BY <1>2 DEF IsDigits
<1>5. G[0] = << >> /\ \A i \in 1 .. m : G[i] = IF s[i] \in Digits THEN Append(G[i - 1], s[i]) ELSE G[i - 1]
  BY <1>3 DEF IsDigits
<1> HIDE DEF n, m
<1>6. \A i \in 0 .. n : F[i] \in Seq(V)
  BY <1>2
<1>7. \A i \in 0 .. m : G[i] \in Seq(V)
  BY <1>3
<1>8. \A i \in 0 .. m : F[k + i] = F[k] \o G[i]
  <2> DEFINE Bad == {i \in 0 .. m : F[k + i] # F[k] \o G[i]}
  <2> SUFFICES ASSUME Bad # {} PROVE FALSE
    OBVIOUS
  <2>1. PICK i \in Bad : \A j \in Bad : i <= j
    <3>1. Bad \in SUBSET Nat
      BY <1>1
    <3> HIDE DEF Bad
    <3>2. QED
      BY <3>1, LeastNumber
  <2>2. i \in 0 .. m /\ F[k + i] # F[k] \o G[i]
    OBVIOUS
  <2>3. i # 0 => i - 1 \in 0 .. m /\ F[k + (i - 1)] = F[k] \o G[i - 1]
    <3>1. \A j \in 0 .. m : j \notin Bad => F[k + j] = F[k] \o G[j]
      OBVIOUS
    <3> HIDE DEF Bad
    <3>2. i # 0 => i - 1 \in 0 .. m /\ ~(i <= i - 1)
      BY <1>1, <2>2
    <3>3. i # 0 => i - 1 \notin Bad
      BY <2>1, <3>2
    <3>4. QED
      BY <3>1, <3>2, <3>3
  <2> HIDE DEF Bad
  <2>4. k \in 0 .. n /\ F[k] \in Seq(V)
    BY <1>1, <1>6
  <2>5. CASE i = 0
    <3>1. F[k] \o << >> = F[k]
      BY <2>4, ConcatEmptySeq
    <3>2. G[i] = << >> /\ k + i = k
      BY <1>1, <1>5, <2>5
    <3>3. QED
      BY <2>2, <3>1, <3>2
  <2>6. CASE i # 0
    <3>1. /\ i \in 1 .. m /\ k + i \in 1 .. n /\ (k + i) - 1 = k + (i - 1)
      BY <1>1, <2>2, <2>6
    <3>2. F[k + i] = IF t[k + i] \in Digits THEN Append(F[k + (i - 1)], t[k + i]) ELSE F[k + (i - 1)]
      BY <1>4, <3>1
    <3>3. G[i] = IF s[i] \in Digits THEN Append(G[i - 1], s[i]) ELSE G[i - 1]
      BY <1>5, <3>1
    <3>4. t[k + i] = s[i] /\ s[i] \in V
      BY <1>1, <3>1
    <3>5. F[k + (i - 1)] = F[k] \o G[i - 1] /\ G[i - 1] \in Seq(V)
      BY <1>7, <2>3, <2>6
    <3>6. Append(F[k] \o G[i - 1], s[i]) = F[k] \o Append(G[i - 1], s[i])
      <4> DEFINE a == F[k]
                 c == G[i - 1]
                 x == s[i]
      <4>1. a \in Seq(V) /\ c \in Seq(V) /\ x \in V
        BY <2>4, <3>4, <3>5
      <4> HIDE DEF a, c, x
      <4>2. Append(a \o c, x) = a \o Append(c, x)
        <5>1. Ended(Joined(a, c), x) = Joined(a, Ended(c, x))
          BY <4>1, ConcatAppend
        <5>2. QED
          BY <5>1 DEF Ended, Joined
      <4>3. QED
        BY <4>2 DEF a, c, x
    <3>7. CASE s[i] \in Digits
      <4>1. F[k + i] = Append(F[k] \o G[i - 1], s[i]) /\ G[i] = Append(G[i - 1], s[i])
        BY <3>2, <3>3, <3>4, <3>5, <3>7
      <4>2. QED
        BY <2>2, <3>6, <4>1
    <3>8. CASE s[i] \notin Digits
      <4>1. F[k + i] = F[k] \o G[i - 1] /\ G[i] = G[i - 1]
        BY <3>2, <3>3, <3>4, <3>5, <3>8
      <4>2. QED
        BY <2>2, <4>1
    <3>9. QED
      BY <3>7, <3>8
  <2>7. QED
    BY <2>5, <2>6
<1> DEFINE b == k + m
<1>9. b \in Nat /\ b <= n /\ F[b] \in Seq(V)
  BY <1>1, <1>6
<1>10. \A j \in b .. n : \E z \in Seq(V) : F[j] = F[b] \o z
  <2> DEFINE Bad == {j \in b .. n : ~ \E z \in Seq(V) : F[j] = F[b] \o z}
  <2> SUFFICES ASSUME Bad # {} PROVE FALSE
    OBVIOUS
  <2>1. PICK j \in Bad : \A i \in Bad : j <= i
    <3>1. Bad \in SUBSET Nat
      BY <1>1, <1>9
    <3> HIDE DEF Bad
    <3>2. QED
      BY <3>1, LeastNumber
  <2>2. j \in b .. n /\ ~ \E z \in Seq(V) : F[j] = F[b] \o z
    OBVIOUS
  <2>3. j # b => \E z \in Seq(V) : F[j - 1] = F[b] \o z
    <3>1. \A i \in b .. n : i \notin Bad => \E z \in Seq(V) : F[i] = F[b] \o z
      OBVIOUS
    <3> HIDE DEF Bad, b
    <3>2. j # b => j - 1 \in b .. n /\ ~(j <= j - 1)
      BY <1>1, <1>9, <2>2
    <3>3. j # b => j - 1 \notin Bad
      BY <2>1, <3>2
    <3>4. QED
      BY <3>1, <3>2, <3>3
  <2> HIDE DEF Bad
  <2>4. CASE j = b
    <3>1. << >> \in Seq(V) /\ F[b] \o << >> = F[b]
      BY <1>9, EmptySeq, ConcatEmptySeq
    <3>2. QED
      BY <2>2, <2>4, <3>1
  <2>5. CASE j # b
    <3>1. PICK z \in Seq(V) : F[j - 1] = F[b] \o z
      BY <2>3, <2>5
    <3>2. j \in 1 .. n
      BY <1>1, <1>9, <2>2, <2>5
    <3>3. F[j] = IF t[j] \in Digits THEN Append(F[j - 1], t[j]) ELSE F[j - 1]
      BY <1>4, <3>2
    <3>4. t[j] \in V
      BY <1>1, <3>2
    <3>5. Append(F[b] \o z, t[j]) = F[b] \o Append(z, t[j]) /\ Append(z, t[j]) \in Seq(V)
      <4> DEFINE a == F[b]
                 x == t[j]
      <4>1. a \in Seq(V) /\ x \in V
        BY <1>9, <3>4
      <4> HIDE DEF a, x
      <4>2. Append(a \o z, x) = a \o Append(z, x)
        <5>1. Ended(Joined(a, z), x) = Joined(a, Ended(z, x))
          BY <4>1, ConcatAppend
        <5>2. QED
          BY <5>1 DEF Ended, Joined
      <4>3. Append(z, x) \in Seq(V)
        BY <4>1, AppendProperties
      <4>4. QED
        BY <4>2, <4>3 DEF a, x
    <3>6. QED
      BY <2>2, <3>1, <3>3, <3>5
  <2>6. QED
    BY <2>4, <2>5
<1>11. PICK z \in Seq(V) : F[n] = F[b] \o z
  <2>1. n \in b .. n
    BY <1>1, <1>9
  <2> HIDE DEF b
  <2>2. QED
    BY <1>10, <2>1
<1>12. F[b] = F[k] \o G[m] /\ F[k] \in Seq(V) /\ G[m] \in Seq(V)
  <2>1. m \in 0 .. m /\ k \in 0 .. n
    BY <1>1
  <2>2. F[k + m] = F[k] \o G[m]
    BY <1>8, <2>1
  <2>3. F[k] \in Seq(V) /\ G[m] \in Seq(V)
    BY <1>6, <1>7, <2>1
  <2>4. QED
    BY <2>2, <2>3
<1>13. Holds((F[k] \o G[m]) \o z, G[m])
  BY <1>12, BetweenHeld
<1>14. QED
  BY <1>2, <1>3, <1>11, <1>12, <1>13

-----------------------------------------------------------------------------
(* What neither the detection nor the fakes touch is found.                *)

LEMMA WithinOwnText ==
  ASSUME NEW e, NEW V, Text \in Seq(V), e.start \in Nat, e.end \in Nat, e.start < e.end,
         e.end <= Len(Text)
  PROVE  /\ Within(Text, e.start, TextOf(e))
         /\ TextOf(e) \in Seq(V) /\ Len(TextOf(e)) = e.end - e.start
<1> DEFINE a == e.start + 1
           b == e.end
           t == Text
           s == SubSeq(t, a, b)
<1>1. Len(t) \in Nat /\ \A i \in 1 .. Len(t) : t[i] \in V
  BY LenProperties, ElementOfSeq
<1>2. a \in Int /\ b \in Int /\ a <= b /\ \A i \in a .. b : t[i] \in V
  BY <1>1
<1>3. b - a + 1 = e.end - e.start /\ \A i \in Int : a + i - 1 = e.start + i
  OBVIOUS
<1> HIDE DEF a, b, t
<1>4. /\ s \in Seq(V)
      /\ Len(s) = IF a <= b THEN b - a + 1 ELSE 0
      /\ \A i \in 1 .. b - a + 1 : s[i] = t[a + i - 1]
  BY <1>2, SubSeqProperties
<1>5. s = TextOf(e)
  BY DEF TextOf, a, b, t
<1> HIDE DEF s
<1>6. Len(s) = e.end - e.start
  BY <1>2, <1>3, <1>4
<1>7. \A i \in 1 .. Len(s) : t[e.start + i] = s[i]
  <2>1. \A i \in 1 .. Len(s) : i \in 1 .. b - a + 1 /\ i \in Int
    BY <1>3, <1>6
  <2>2. QED
    BY <1>3, <1>4, <2>1
<1>8. e.start + Len(s) <= Len(Text)
  BY <1>6
<1>9. QED
  BY <1>4, <1>5, <1>6, <1>7, <1>8 DEF Within, t

LEMMA SpliceKeeps ==
  ASSUME NEW P \in SUBSET Spans, IsFiniteSet(P), \A p, q \in P : p # q => Apart(p, q),
         NEW textOf \in [P -> Seq(Parts)], Text \in Seq(Parts),
         NEW e, e.start \in Nat, e.end \in Nat, e.start < e.end, e.end <= Len(Text),
         \A p \in P : Apart(p, e)
  PROVE  \E k : Within(Spliced(textOf), k, TextOf(e))
<1> DEFINE s == TextOf(e)
<1>1. Within(Text, e.start, s) /\ s \in Seq(Parts) /\ Len(s) = e.end - e.start
  BY WithinOwnText
<1>2. PICK M \in [SUBSET P -> Seq(Parts)] : Spliced(textOf) = M[P] /\ IsSplice(M, P, textOf)
  BY SplicedIsFold
<1>3. \A p \in P : p.start \in Nat /\ p.end \in Nat /\ p.start < p.end /\ textOf[p] \in Seq(Parts)
  BY SpanAssumption
<1>4. \A p \in P : Len(textOf[p]) \in Nat
  BY <1>3, LenProperties
<1> DEFINE Kept(Q, k) ==
             /\ Within(M[Q], k, s)
             /\ \A n \in Nat : n <= e.start /\ (\A q \in Q : n <= q.start) => n <= k
             /\ (\A q \in Q : e.end <= q.start) => k = e.start
           Bad == {Q \in SUBSET P : ~ \E k \in Nat : Kept(Q, k)}
<1> HIDE DEF s
<1>5. ASSUME NEW Q \in Bad PROVE \E p \in Q : Q \ {p} \in Bad
  <2>1. Q \in SUBSET P /\ ~ \E k \in Nat : Kept(Q, k)
    OBVIOUS
  <2>2. Q # {}
    <3> SUFFICES ASSUME Q = {} PROVE FALSE
      OBVIOUS
    <3>1. M[Q] = Text
      BY <1>2 DEF IsSplice
    <3>2. Kept(Q, e.start)
      BY <1>1, <3>1
    <3> HIDE DEF Kept
    <3>3. QED
      BY <2>1, <3>2
  <2> DEFINE p == FirstSpan(Q)
             R == Q \ {p}
             new == textOf[p]
  <2>3. p \in Q /\ \A q \in Q : p.start <= q.start
    BY <2>1, <2>2, FirstSpanIn
  <2>4. M[Q] = Replaced(M[R], p.start, p.end, new)
    BY <1>2, <2>1, <2>2 DEF IsSplice
  <2>5. p \in P /\ R \in SUBSET P /\ M[R] \in Seq(Parts) /\ new \in Seq(Parts) /\ Len(new) \in Nat
    BY <1>2, <1>3, <1>4, <2>1, <2>3
  <2>6. p.start \in Nat /\ p.end \in Nat /\ p.start < p.end /\ Apart(p, e)
    BY <1>3, <2>5
  <2> SUFFICES ASSUME NEW k \in Nat, Kept(R, k) PROVE FALSE
    <3> HIDE DEF Kept, p
    <3>1. QED
      BY <2>1, <2>3, <2>5
  <2> HIDE DEF p, new
  <2>7. /\ Within(M[R], k, s)
        /\ \A n \in Nat : n <= e.start /\ (\A q \in R : n <= q.start) => n <= k
        /\ (\A q \in R : e.end <= q.start) => k = e.start
    OBVIOUS
  <2>8. Len(s) > 0
    BY <1>1
  <2>9. /\ k + Len(s) <= p.start => Within(M[Q], k, s)
        /\ p.end <= k => Within(M[Q], k - p.end + p.start + Len(new), s)
    <3> DEFINE t == M[R]
               start == p.start
               end == p.end
    <3>1. t \in Seq(Parts) /\ start \in Nat /\ end \in Nat /\ start <= end /\ Within(t, k, s)
      BY <2>5, <2>6, <2>7
    <3> HIDE DEF t, start, end
    <3>2. /\ k + Len(s) <= start => Within(Replaced(t, start, end, new), k, s)
          /\ end <= k => Within(Replaced(t, start, end, new), k - end + start + Len(new), s)
      BY <1>1, <2>5, <2>8, <3>1, WithinReplaced
    <3>3. QED
      BY <2>4, <3>2 DEF t, start, end
  <2>10. CASE p.end <= e.start
    <3>1. \A q \in R : p.end <= q.start
      <4> SUFFICES ASSUME NEW q \in R PROVE p.end <= q.start
        OBVIOUS
      <4>1. q \in P /\ q # p /\ p.start <= q.start /\ Apart(p, q)
        BY <2>1, <2>3, <2>5
      <4>2. QED
        BY <1>3, <2>6, <4>1 DEF Apart
    <3>2. p.end <= k
      BY <2>6, <2>7, <2>10, <3>1
    <3> DEFINE j == k - p.end + p.start + Len(new)
    <3>3. Within(M[Q], j, s)
      BY <2>9, <3>2
    <3>4. j \in Nat /\ p.start <= j
      BY <2>5, <2>6, <3>2
    <3> HIDE DEF j
    <3>5. \A n \in Nat : n <= e.start /\ (\A q \in Q : n <= q.start) => n <= j
      BY <2>3, <2>6, <3>4
    <3>6. ~(\A q \in Q : e.end <= q.start)
      BY <2>3, <2>6, <2>10
    <3>7. Kept(Q, j)
      BY <3>3, <3>5, <3>6
    <3> HIDE DEF Kept
    <3>8. QED
      BY <2>1, <3>4, <3>7
  <2>11. CASE e.end <= p.start
    <3>1. \A q \in Q : e.end <= q.start
      <4> SUFFICES ASSUME NEW q \in Q PROVE e.end <= q.start
        OBVIOUS
      <4>1. q.start \in Nat /\ p.start <= q.start
        BY <1>3, <2>1, <2>3
      <4>2. QED
        BY <2>6, <2>11, <4>1
    <3>2. k = e.start
      BY <2>7, <3>1
    <3>3. Within(M[Q], k, s)
      BY <1>1, <2>9, <2>11, <3>2
    <3>4. Kept(Q, k)
      BY <3>2, <3>3
    <3> HIDE DEF Kept
    <3>5. QED
      BY <2>1, <3>4
  <2>12. QED
    BY <2>6, <2>10, <2>11 DEF Apart
<1>6. Bad = {}
  <2>1. Bad \in SUBSET SUBSET P
    OBVIOUS
  <2> HIDE DEF Bad
  <2>2. QED
    BY <1>5, <2>1, SmallestSubset
<1>7. \E k \in Nat : Kept(P, k)
  <2> HIDE DEF Kept
  <2>1. QED
    BY <1>6
<1>8. \E k : Within(M[P], k, s)
  BY <1>7
<1>9. QED
  BY <1>2, <1>8 DEF s

LEMMA NormalPart ==
  ASSUME NEW V, NEW t \in Seq(V), NEW i \in 1 .. Len(t)
  PROVE  Normal(t)[i] = Mapping(LowerCase, t[i]) /\ Normal(t)[i] \in Alphabet(t)
<1>1. DOMAIN t = 1 .. Len(t)
  BY LenProperties
<1>2. QED
  BY <1>1 DEF Normal, Alphabet

LEMMA BlankedKeeps ==
  ASSUME NEW t \in Seq(Masks), NEW f \in Seq(Parts), NEW s \in Seq(Parts), NEW k, Within(t, k, s),
         Alphabet(f) \cap Alphabet(s) = {}
  PROVE  Within(Blanked(t, f), k, s)
<1>1. /\ DOMAIN t = 1 .. Len(t) /\ Len(t) \in Nat /\ Len(s) \in Nat /\ k \in Nat
      /\ k + Len(s) <= Len(t) /\ \A i \in 1 .. Len(s) : t[k + i] = s[i]
  BY LenProperties DEF Within
<1>2. Len(Normal(f)) = Len(f) /\ Len(f) \in Nat /\ Len(Normal(t)) = Len(t)
  BY NormalLength
<1> DEFINE covered == {j \in 1 .. Len(t) : \E i \in Occurrences(Normal(t), Normal(f)) :
                                             i <= j /\ j < i + Len(f)}
<1>3. ASSUME NEW i \in 1 .. Len(s) PROVE k + i \notin covered
  <2> SUFFICES ASSUME NEW o \in Occurrences(Normal(t), Normal(f)), o <= k + i, k + i < o + Len(f)
               PROVE  FALSE
    OBVIOUS
  <2> DEFINE j == k + i
             a == o
             b == o + Len(f) - 1
             u == SubSeq(Normal(t), a, b)
             m == j - o + 1
             W == {Mapping(LowerCase, v) : v \in Masks}
  <2>1. j \in 1 .. Len(t) /\ o \in 1 .. Len(t) /\ o + Len(f) <= Len(t) + 1 /\ u = Normal(f)
    BY <1>1, <1>2 DEF Occurrences
  <2>2. m \in 1 .. Len(f) /\ m \in 1 .. b - a + 1 /\ a + m - 1 = j /\ a \in Int /\ b \in Int
        /\ \A x \in a .. b : x \in 1 .. Len(t)
    BY <1>1, <1>2, <2>1
  <2>3. \A x \in 1 .. Len(t) : Normal(t)[x] \in W
    BY <1>1, NormalType, <1>2, ElementOfSeq, LenProperties
  <2>4. \A x \in a .. b : Normal(t)[x] \in W
    BY <2>2, <2>3
  <2>5. \A x \in 1 .. b - a + 1 : u[x] = Normal(t)[a + x - 1]
    <3> HIDE DEF a, b, W, m, j
    <3>1. QED
      BY <2>2, <2>4, SubSeqProperties
  <2>6. Normal(f)[m] = Normal(t)[j]
    <3>1. u[m] = Normal(t)[a + m - 1]
      <4> HIDE DEF m, a, b, u
      <4>1. QED
        BY <2>2, <2>5
    <3>2. QED
      BY <2>1, <2>2, <3>1
  <2>7. Normal(f)[m] \in Alphabet(f)
    <3> HIDE DEF m
    <3>1. QED
      BY <2>2, NormalPart
  <2>8. Normal(t)[j] = Mapping(LowerCase, t[j])
    <3> HIDE DEF j
    <3>1. QED
      BY <2>1, NormalPart
  <2>9. Normal(s)[i] = Mapping(LowerCase, s[i]) /\ Normal(s)[i] \in Alphabet(s)
    BY NormalPart
  <2>10. t[j] = s[i]
    BY <1>1
  <2> HIDE DEF j, m
  <2>11. QED
    BY <2>6, <2>7, <2>8, <2>9, <2>10
<1>4. \A i \in 1 .. Len(s) : k + i \in DOMAIN t
  BY <1>1
<1>5. Blanked(t, f) = [j \in DOMAIN t |-> IF j \in covered THEN Mask ELSE t[j]]
  BY DEF Blanked
<1> HIDE DEF covered
<1>6. \A i \in 1 .. Len(s) : Blanked(t, f)[k + i] = s[i]
  BY <1>1, <1>3, <1>4, <1>5
<1>7. Len(Blanked(t, f)) = Len(t)
  BY BlankedType
<1>8. QED
  BY <1>1, <1>6, <1>7 DEF Within

LEMMA MaskKeeps ==
  ASSUME NEW t \in Seq(Parts), NEW F \in SUBSET Seq(Parts), IsFiniteSet(F),
         NEW s \in Seq(Parts), NEW k, Within(t, k, s),
         \A f \in F : Alphabet(f) \cap Alphabet(s) = {}
  PROVE  Within(Masked(t, F), k, s)
<1> DEFINE S == F \ {<< >>}
<1>1. t \in Seq(Masks)
  BY ElementOfSeq, LenProperties, SeqDef DEF Masks
<1>2. PICK M \in [SUBSET S -> Seq(Masks)] : Masked(t, F) = M[S] /\ IsMasking(M, S, t)
  BY <1>1, MaskedIsFold
<1>3. S \in SUBSET F /\ IsFiniteSet(S)
  BY FS_Subset
<1> HIDE DEF S
<1> DEFINE Bad == {G \in SUBSET S : ~ Within(M[G], k, s)}
<1>4. ASSUME NEW G \in Bad PROVE \E f \in G : G \ {f} \in Bad
  <2>1. G \in SUBSET S /\ ~ Within(M[G], k, s)
    OBVIOUS
  <2>2. G # {}
    BY <1>2, <2>1 DEF IsMasking
  <2> DEFINE f == Shortest(G)
             u == M[G \ {f}]
  <2>3. f \in G /\ M[G] = Blanked(u, f)
    BY <1>2, <2>1, <2>2 DEF IsMasking
  <2>4. G \ {f} \in SUBSET S
    BY <2>1
  <2>5. u \in Seq(Masks) /\ f \in Seq(Parts) /\ Alphabet(f) \cap Alphabet(s) = {}
    BY <1>2, <1>3, <2>1, <2>3, <2>4
  <2>6. ~ Within(u, k, s)
    <3> HIDE DEF f, u
    <3>1. Within(u, k, s) => Within(Blanked(u, f), k, s)
      BY <2>5, BlankedKeeps
    <3>2. QED
      BY <2>1, <2>3, <3>1
  <2>7. QED
    BY <2>3, <2>4, <2>6
<1>5. Bad = {}
  <2>1. Bad \in SUBSET SUBSET S
    OBVIOUS
  <2> HIDE DEF Bad
  <2>2. QED
    BY <1>3, <1>4, <2>1, SmallestSubset
<1>6. QED
  BY <1>2, <1>5

(* No validation of the corpus says so: an annotated number has digits.    *)
NumbersHaveDigits ==
  \A n \in DOMAIN Documents : \A G \in Documents[n].annotations : \A e \in G :
    e.type \in NumericIds /\ e.end <= Len(Documents[n].text)
      => DigitsOnly(SubSeq(Documents[n].text, e.start + 1, e.end)) # << >>

(* An entity no span touches is in the text that has gone out.             *)
Untouched(e) == \A p \in predicted : Apart(p, e)

KeptInv ==
  InWork /\ outbound # << >> /\ Disjoint =>
    \A e \in gold : Untouched(e) => \E k : Within(outbound, k, TextOf(e))

LEMMA FindingIsOne ==
  ASSUME NEW type, NEW f \in Findings(type)
  PROVE  f # NoFinding
<1>1. f.mode \in {"exact", "exact_id", "stem", "diacritic_fold"}
  BY DEF Findings
<1>2. NoFinding.mode = "none"
  BY DEF NoFinding
<1>3. QED
  BY <1>1, <1>2

LEMMA SurvivorFound ==
  ASSUME NEW type, NEW s \in Seq(Parts), s # << >>, Length(s) >= MinStemLength,
         type \in NumericIds => DigitsOnly(s) # << >>,
         NEW t \in Seq(Masks), NEW k, Within(t, k, s)
  PROVE  DetectLeak(type, s, t) \in Findings(type)
<1>1. s \in Seq(Masks) /\ Len(s) \in Nat
  BY ElementOfSeq, LenProperties, SeqDef DEF Masks
<1>2. Holds(Normal(t), Normal(s))
  BY <1>1, WithinHolds
<1>3. CASE type \in NumericIds
  <2>1. Holds(DigitsOnly(t), DigitsOnly(s))
    BY <1>1, WithinDigits
  <2>2. DetectLeak(type, s, t) = PlaceOf(type, s, t, "exact_id")
    BY <1>3, <2>1 DEF DetectLeak
  <2>3. QED
    BY <1>1, <2>2, PlaceType
<1>4. CASE type \notin NumericIds /\ type \in ExactTypes
  <2>1. DetectLeak(type, s, t) = PlaceOf(type, s, t, "exact")
    BY <1>2, <1>4 DEF DetectLeak
  <2>2. QED
    BY <1>1, <2>1, PlaceType
<1>5. CASE type \notin NumericIds /\ type \notin ExactTypes
  <2>1. WordLeak(type, s, t) \in Findings(type)
    BY <1>2, WordLeakType
  <2>2. WordLeak(type, s, t) # NoFinding
    BY <2>1, FindingIsOne
  <2>3. DetectLeak(type, s, t) = WordLeak(type, s, t)
    BY <1>2, <1>5, <2>2 DEF DetectLeak
  <2>4. QED
    BY <2>1, <2>3
<1>6. QED
  BY <1>3, <1>4, <1>5

LEMMA AuditFinds ==
  ASSUME NumbersHaveDigits, EvaluationInv, KeptInv, InWork, outbound # << >>, Disjoint,
         NEW e \in gold, Untouched(e), Unlike(e), Length(TextOf(e)) >= MinStemLength
  PROVE  \E f \in FindingsIn(outbound, fakes) : f.type = e.type
<1> DEFINE masked == Masked(outbound, fakes)
           of == [h \in gold |-> DetectLeak(h.type, TextOf(h), masked)]
<1>1. /\ outbound \in Seq(Parts) /\ fakes \in SUBSET Seq(Parts) /\ IsFiniteSet(fakes)
  BY DEF EvaluationInv, Answers
<1>2. masked \in Seq(Masks)
  BY <1>1, MaskedType
<1>3. ASSUME NEW h \in gold
      PROVE  /\ TextOf(h) \in Seq(Parts) /\ TextOf(h) # << >> /\ h.place \in Nat
             /\ h.type \in NumericIds => DigitsOnly(TextOf(h)) # << >>
  <2>1. TextOf(h) \in Seq(Parts) /\ TextOf(h) # << >> /\ h.end <= Len(Text)
    BY TextOfType
  <2>2. /\ h \in Entities /\ gold = annotated[doc] /\ doc \in DOMAIN Documents
        /\ annotated[doc] \in Documents[doc].annotations
    BY DEF EvaluationInv, Progress, LoopInv, Input
  <2>3. h.place \in Nat
    BY <2>2, SpanAssumption
  <2>4. h.type \in NumericIds => DigitsOnly(TextOf(h)) # << >>
    BY <2>1, <2>2 DEF NumbersHaveDigits, Text, TextOf
  <2>5. QED
    BY <2>1, <2>3, <2>4
<1>4. ASSUME NEW h \in gold PROVE of[h] \in Findings(h.type) \cup {NoFinding}
  <2>1. TextOf(h) \in Seq(Parts) /\ TextOf(h) # << >>
    BY <1>3
  <2> HIDE DEF masked
  <2>2. DetectLeak(h.type, TextOf(h), masked) \in Findings(h.type) \cup {NoFinding}
    BY <1>2, <2>1, DetectLeakType
  <2>3. QED
    BY <2>2 DEF of
<1>5. of[e] \in Findings(e.type)
  <2> DEFINE s == TextOf(e)
  <2>1. s \in Seq(Parts) /\ s # << >> /\ (e.type \in NumericIds => DigitsOnly(s) # << >>)
    BY <1>3
  <2>2. PICK k : Within(outbound, k, s)
    BY DEF KeptInv
  <2>3. \A f \in fakes : Alphabet(f) \cap Alphabet(s) = {}
    BY DEF Unlike
  <2>4. Length(s) >= MinStemLength
    OBVIOUS
  <2> HIDE DEF s
  <2>5. Within(masked, k, s)
    BY <1>1, <2>1, <2>2, <2>3, MaskKeeps
  <2> HIDE DEF masked
  <2>6. DetectLeak(e.type, s, masked) \in Findings(e.type)
    BY <1>2, <2>1, <2>4, <2>5, SurvivorFound
  <2>7. QED
    BY <2>6 DEF of, s
<1>6. FindingsIn(outbound, fakes) =
        {of[h] : h \in {g \in gold :
           /\ of[g] # NoFinding
           /\ ~ \E f \in gold : /\ f.place < g.place /\ of[f] # NoFinding
                                /\ SeenKey(of[f]) = SeenKey(of[g])}}
  <2> HIDE DEF masked
  <2>1. \A h \in gold : of[h] = DetectLeak(h.type, TextOf(h), masked)
    BY DEF of
  <2> HIDE DEF of
  <2>2. QED
    BY <2>1 DEF FindingsIn, masked
<1> HIDE DEF of, masked
<1> DEFINE same == {h \in gold : of[h] # NoFinding /\ SeenKey(of[h]) = SeenKey(of[e])}
           places == {h.place : h \in same}
<1>7. e \in same
  BY <1>5, FindingIsOne
<1>8. PICK h \in same : \A g \in same : h.place <= g.place
  <2>1. places \in SUBSET Nat /\ places # {}
    BY <1>3, <1>7
  <2>2. PICK n \in places : \A m \in places : n <= m
    BY <2>1, LeastNumber
  <2>3. QED
    BY <2>2
<1>9. h \in gold /\ of[h] # NoFinding /\ SeenKey(of[h]) = SeenKey(of[e])
  OBVIOUS
<1>10. ~ \E f \in gold : /\ f.place < h.place /\ of[f] # NoFinding
                          /\ SeenKey(of[f]) = SeenKey(of[h])
  <2> SUFFICES ASSUME NEW f \in gold, f.place < h.place, of[f] # NoFinding,
                      SeenKey(of[f]) = SeenKey(of[h])
               PROVE  FALSE
    OBVIOUS
  <2>1. h.place <= f.place
    BY <1>8, <1>9
  <2>2. QED
    BY <1>3, <1>9, <2>1
<1>11. of[h] \in FindingsIn(outbound, fakes)
  BY <1>6, <1>9, <1>10
<1>12. of[h].type = of[e].type
  BY <1>9 DEF SeenKey
<1>13. of[e].type = e.type
  BY <1>5 DEF Findings
<1>14. QED
  BY <1>11, <1>12, <1>13

LEMMA KeptInit == Init => KeptInv /\ MissedIsLeaked
BY DEF Init, KeptInv, InWork, MissedIsLeaked

LEMMA KeptStep ==
  ASSUME NumbersHaveDigits, EvaluationInv, KeptInv, MissedIsLeaked, [Next]_vars
  PROVE  KeptInv' /\ MissedIsLeaked'
<1>1. CASE Load
  BY <1>1 DEF Load, KeptInv, InWork, MissedIsLeaked
<1>2. ASSUME NEW spans \in Documents[doc].reports, NEW answered \in 0 .. 3, RunStage1(spans, answered)
      PROVE  KeptInv' /\ MissedIsLeaked'
  <2>1. /\ phase = "stage1" /\ phase' = "report" /\ doc' = doc /\ gold' = annotated[doc]
        /\ predicted' = IF answered = 0 THEN {} ELSE spans
        /\ outbound' = IF answered < 2 THEN << >> ELSE Spliced([p \in spans |-> p.fake])
    BY <1>2 DEF RunStage1
  <2>2. MissedIsLeaked'
    BY <2>1 DEF MissedIsLeaked
  <2> DEFINE fakeOf == [p \in spans |-> p.fake]
  <2>3. ASSUME outbound' # << >>, Disjoint', NEW e \in gold', Untouched(e)'
        PROVE  \E k : Within(outbound', k, TextOf(e))
    <3>1. outbound' = Spliced(fakeOf) /\ predicted' = spans
      BY <2>1, <2>3
    <3>2. \A p, q \in spans : p # q => Apart(p, q)
      BY <2>3, <3>1 DEF Disjoint
    <3>3. \A p \in spans : Apart(p, e)
      BY <2>3, <3>1 DEF Untouched
    <3>4. /\ doc \in DOMAIN Documents /\ e \in annotated[doc] /\ Accepted(doc)
          /\ annotated[doc] \in Documents[doc].annotations
      BY <2>1 DEF EvaluationInv, Progress
    <3>5. /\ e \in Entities /\ spans \in SUBSET Spans /\ IsFiniteSet(spans) /\ Text \in Seq(Parts)
      BY <3>4, CorpusType DEF Text
    <3>6. e.start \in Nat /\ e.end \in Nat /\ e.start < e.end /\ e.end <= Len(Text)
      BY <3>4, <3>5, SpanAssumption DEF Accepted, Valid, BadSpan, Text
    <3>7. fakeOf \in [spans -> Seq(Parts)]
      BY <3>5, DocumentAssumption DEF Parts
    <3> HIDE DEF fakeOf
    <3>8. \E k : Within(Spliced(fakeOf), k, TextOf(e))
      BY <3>2, <3>3, <3>5, <3>6, <3>7, SpliceKeeps
    <3>9. QED
      BY <3>1, <3>8
  <2>4. \A e : TextOf(e)' = TextOf(e)
    BY <2>1 DEF TextOf, Text
  <2>5. KeptInv'
    BY <2>3, <2>4 DEF KeptInv
  <2>6. QED
    BY <2>2, <2>5
<1>3. ASSUME UNCHANGED <<gold, predicted, doc, outbound, fakes>>,
             phase' \in {phase, "audit", "aggregate"}, InWork \/ phase' = phase
      PROVE  KeptInv'
  BY <1>3 DEF KeptInv, InWork, Disjoint, Untouched, TextOf, Text
<1>4. CASE BuildReports
  <2>1. /\ phase = "report" /\ UNCHANGED <<gold, predicted, doc, outbound, fakes, phase>>
    BY <1>4 DEF BuildReports, docVars, AlignNext, AlignPair, EndAlign, CrossPair, EndCross
  <2>2. QED
    BY <1>3, <2>1 DEF MissedIsLeaked
<1>5. CASE AddReports
  <2>1. /\ phase = "report" /\ phase' = "audit" /\ UNCHANGED <<gold, predicted, doc, outbound, fakes>>
    BY <1>5 DEF AddReports, docVars, alignVars
  <2>2. QED
    BY <1>3, <2>1 DEF MissedIsLeaked, InWork
<1>6. CASE Audit
  <2>1. /\ phase = "audit" /\ phase' = "aggregate" /\ findings' = FindingsIn(outbound, fakes)
        /\ UNCHANGED <<gold, predicted, doc, outbound, fakes>>
    BY <1>6 DEF Audit, alignVars
  <2>2. KeptInv'
    BY <1>3, <2>1 DEF InWork
  <2>3. /\ Disjoint' <=> Disjoint
        /\ \A e : TextOf(e)' = TextOf(e) /\ (Unlike(e)' <=> Unlike(e))
    BY <2>1 DEF Disjoint, Unlike, TextOf, Text
  <2>4. ASSUME outbound' # << >>, Disjoint', NEW e \in gold', Untouched(e)', Unlike(e)',
               Length(TextOf(e)) >= MinStemLength
        PROVE  \E f \in findings' : f.type = e.type
    <3>1. /\ InWork /\ outbound # << >> /\ Disjoint /\ e \in gold /\ Untouched(e) /\ Unlike(e)
      BY <2>1, <2>3, <2>4 DEF InWork, Untouched
    <3>2. \E f \in FindingsIn(outbound, fakes) : f.type = e.type
      BY <2>4, <3>1, AuditFinds
    <3>3. QED
      BY <2>1, <3>2
  <2>5. MissedIsLeaked'
    BY <2>3, <2>4 DEF MissedIsLeaked, Untouched
  <2>6. QED
    BY <2>2, <2>5
<1>7. CASE Aggregate
  BY <1>7 DEF Aggregate, KeptInv, InWork, MissedIsLeaked
<1>8. CASE UNCHANGED vars
  <2>1. UNCHANGED <<gold, predicted, doc, outbound, fakes, phase, findings>>
    BY <1>8 DEF vars, docVars, alignVars
  <2>2. QED
    BY <1>3, <2>1 DEF MissedIsLeaked, Disjoint, Unlike, TextOf, Text
<1>9. QED
  BY <1>1, <1>2, <1>4, <1>5, <1>6, <1>7, <1>8 DEF Next

(* FR-020 for any corpus whose annotated numbers have digits: an entity    *)
(* that no span touches, with nothing like it in the fakes, has its type   *)
(* among the findings.  Splicing and masking leave it where it is, every   *)
(* branch of the audit finds it, and a finding is dropped only for one of  *)
(* the same type.                                                          *)
THEOREM SurvivorsReported ==
  ASSUME NumbersHaveDigits
  PROVE  Spec => []MissedIsLeaked
<1>1. EvaluationInv /\ KeptInv /\ MissedIsLeaked /\ [Next]_vars => KeptInv' /\ MissedIsLeaked'
  BY KeptStep
<1>2. QED
  BY <1>1, KeptInit, EvaluationInvariant, PTL DEF Spec

=============================================================================
