--------------------------- MODULE SpanAlignment ---------------------------
(***************************************************************************)
(* The detection score of one document: build_detection_report aligns the  *)
(* spans the gateway reported with the annotated entities, first by        *)
(* overlap and then by exact extent, and fills the confusion matrix with   *)
(* what the alignment leaves over.                                         *)
(*                                                                         *)
(* An entity and a span cover the positions from start up to, not          *)
(* including, end; place is their index in the list of the document.       *)
(***************************************************************************)
EXTENDS Naturals, FiniteSets

CONSTANTS
  Entities,    \* the entities an annotation may list
  Spans,       \* the spans the gateway may report
  Types,       \* CANONICAL_TYPES
  Unmapped,    \* no canonical type
  CanonicalOf  \* GATEWAY_LABEL_ALIASES: the type each label of a span stands for

Miss == "MISS"
Spurious == "SPURIOUS"

(* The recognizers report no empty span. *)
ASSUME SpanAssumption ==
  /\ IsFiniteSet(Types)
  /\ \A s \in Entities \cup Spans : s.start \in Nat /\ s.end \in Nat /\ s.place \in Nat
  /\ Types \cap {Unmapped, Miss, Spurious} = {}
  /\ \A p \in Spans : p.start < p.end /\ CanonicalOf[p.label] \in Types \cup {Unmapped}

VARIABLES
  gold,        \* the entities of the document
  predicted,   \* the spans the gateway reported for it
  policy,      \* the policy of the report in work
  stage,       \* what build_detection_report does next
  seen,        \* the pairs the current loop has looked at
  aligned,     \* the pairs align has matched, by policy
  crossed      \* the pairs positional_pairs has matched, by policy

alignVars == <<gold, predicted, policy, stage, seen, aligned, crossed>>

Policies == {"overlap", "exact"}

-----------------------------------------------------------------------------
(* The annotation. *)

BadSpan(e) == ~(e.start < e.end)

(* The order sorted() gives the entities of one type. *)
Precedes(e, f) ==
  \/ e.start < f.start
  \/ e.start = f.start /\ e.place < f.place

FollowsNext(f, e, G) ==
  /\ Precedes(e, f)
  /\ ~ \E h \in G : h.type = e.type /\ Precedes(e, h) /\ Precedes(h, f)

(* Mutant: overlapping entities of one type are accepted. *)
ValidUnordered(G) == \A e \in G : e.type \in Types /\ ~BadSpan(e)

(* GoldEntity and GoldDocument accept the list: known types, proper spans, *)
(* and no neighbours of one type that overlap.                             *)
Valid(G) ==
  /\ \A e \in G : e.type \in Types /\ ~BadSpan(e)
  /\ \A e, f \in G :
       e.type = f.type /\ FollowsNext(f, e, G) => f.start >= e.end

Listed(G) == \A s, t \in G : s.place = t.place => s = t

-----------------------------------------------------------------------------
(* The candidate pairs and their order. *)

TypeOf(p) == CanonicalOf[p.label]
Mapped == {p \in predicted : TypeOf(p) # Unmapped}

Least(a, b) == IF a < b THEN a ELSE b
Most(a, b) == IF a > b THEN a ELSE b

(* _overlap_length; it is nothing below 0. *)
Overlap(g, p) ==
  IF Least(g.end, p.end) > Most(g.start, p.start)
  THEN Least(g.end, p.end) - Most(g.start, p.start)
  ELSE 0

SameExtent(g, p) == g.start = p.start /\ g.end = p.end

Matches(g, p, by) ==
  /\ g.type = TypeOf(p)
  /\ IF by = "exact" THEN SameExtent(g, p) ELSE Overlap(g, p) > 0

PairsBy(by) == {q \in gold \X Mapped : Matches(q[1], q[2], by)}

Earlier(q, r) ==
  \/ q[1].place < r[1].place
  \/ q[1].place = r[1].place /\ q[2].place < r[2].place

(* Mutant: the pairs come in the order of the lists. *)
SoonerByPlace(q, r) == Earlier(q, r)

(* Largest overlap first, then by the places in the lists. *)
Sooner(q, r) ==
  \/ Overlap(q[1], q[2]) > Overlap(r[1], r[2])
  \/ Overlap(q[1], q[2]) = Overlap(r[1], r[2]) /\ Earlier(q, r)

Firsts(Q) == {q[1] : q \in Q}
Seconds(Q) == {q[2] : q \in Q}

(* Mutant: a span that is taken may serve another entity. *)
FreeEntity(q, Q) == q[1] \notin Firsts(Q)

Free(q, Q) == q[1] \notin Firsts(Q) /\ q[2] \notin Seconds(Q)

Taken(q, Q) == IF Free(q, Q) THEN Q \cup {q} ELSE Q

-----------------------------------------------------------------------------
(* What is left over, and the confusion matrix. *)

Missed(by) == gold \ Firsts(aligned[by])
SpuriousSpans(by) == Mapped \ Seconds(aligned[by])

CrossPairs(by) ==
  {q \in Missed(by) \X SpuriousSpans(by) : Overlap(q[1], q[2]) > 0}

(* The cell of the matrix in which a pair is counted. *)
CellOf(q) == <<q[1].type, TypeOf(q[2])>>
Labels == Types \cup {Miss, Spurious}

Cell(by, row, column) ==
  IF row \in Types /\ column \in Types
  THEN Cardinality({q \in aligned[by] \cup crossed[by] : CellOf(q) = <<row, column>>})
  ELSE IF row \in Types /\ column = Miss
  THEN Cardinality({e \in Missed(by) \ Firsts(crossed[by]) : e.type = row})
  ELSE IF row = Spurious /\ column \in Types
  THEN Cardinality({p \in SpuriousSpans(by) \ Seconds(crossed[by]) : TypeOf(p) = column})
  ELSE IF row = Spurious /\ column = Miss
  THEN Cardinality(predicted \ Mapped)
  ELSE 0

(* The counts of one type: TypeMetrics. *)
CountsOf(by, type) ==
  [tp |-> Cardinality({e \in Firsts(aligned[by]) : e.type = type}),
   fn |-> Cardinality({e \in Missed(by) : e.type = type}),
   fp |-> Cardinality({p \in SpuriousSpans(by) : TypeOf(p) = type}),
   support |-> Cardinality({e \in gold : e.type = type})]

(* DetectionReport: an unmapped span counts as a false positive of none. *)
Report(by) ==
  [perType |-> [type \in Types |-> CountsOf(by, type)],
   matrix |-> [cell \in Labels \X Labels |-> Cell(by, cell[1], cell[2])],
   unmapped |-> Cardinality(predicted \ Mapped)]

-----------------------------------------------------------------------------
AlignStart ==
  /\ policy = "overlap"
  /\ stage = "align"
  /\ seen = {}
  /\ aligned = [by \in Policies |-> {}]
  /\ crossed = [by \in Policies |-> {}]

(* The same for the next document. *)
AlignAgain ==
  /\ policy' = "overlap"
  /\ stage' = "align"
  /\ seen' = {}
  /\ aligned' = [by \in Policies |-> {}]
  /\ crossed' = [by \in Policies |-> {}]

(* One iteration of the loop of align. *)
AlignPair(q) ==
  /\ stage = "align"
  /\ q \in PairsBy(policy) \ seen
  /\ \A r \in PairsBy(policy) \ (seen \cup {q}) : Sooner(q, r)
  /\ seen' = seen \cup {q}
  /\ aligned' = [aligned EXCEPT ![policy] = Taken(q, @)]
  /\ UNCHANGED <<gold, predicted, policy, stage, crossed>>

EndAlign ==
  /\ stage = "align"
  /\ seen = PairsBy(policy)
  /\ stage' = "cross"
  /\ seen' = {}
  /\ UNCHANGED <<gold, predicted, policy, aligned, crossed>>

(* One iteration of the loop of positional_pairs. *)
CrossPair(q) ==
  /\ stage = "cross"
  /\ q \in CrossPairs(policy) \ seen
  /\ \A r \in CrossPairs(policy) \ (seen \cup {q}) : Sooner(q, r)
  /\ seen' = seen \cup {q}
  /\ crossed' = [crossed EXCEPT ![policy] = Taken(q, @)]
  /\ UNCHANGED <<gold, predicted, policy, stage, aligned>>

(* The report is built; _evaluate_document goes on to the exact policy. *)
EndCross ==
  /\ stage = "cross"
  /\ seen = CrossPairs(policy)
  /\ stage' = IF policy = "overlap" THEN "align" ELSE "scored"
  /\ policy' = "exact"
  /\ seen' = {}
  /\ UNCHANGED <<gold, predicted, aligned, crossed>>

AlignNext ==
  \/ \E q \in gold \X predicted : AlignPair(q) \/ CrossPair(q)
  \/ EndAlign \/ EndCross

AlignSpec ==
  /\ gold \in SUBSET Entities /\ Valid(gold) /\ Listed(gold)
  /\ predicted \in SUBSET Spans /\ Listed(predicted)
  /\ AlignStart
  /\ [][AlignNext]_alignVars

-----------------------------------------------------------------------------
(* Properties. *)

AlignTypeOK ==
  /\ gold \subseteq Entities /\ predicted \subseteq Spans
  /\ policy \in Policies
  /\ stage \in {"align", "cross", "scored"}
  /\ seen \subseteq gold \X predicted
  /\ aligned \in [Policies -> SUBSET (gold \X predicted)]
  /\ crossed \in [Policies -> SUBSET (gold \X predicted)]

(* The alignment under a policy is complete. *)
Settled(by) ==
  \/ stage = "scored"
  \/ policy = by /\ stage = "cross"
  \/ policy = "exact" /\ by = "overlap"

(* D3, "one prediction cannot satisfy two gold spans (and vice versa)",    *)
(* and the greedy choice costs nothing it should not: a matching pair that *)
(* is not aligned has lost its entity or its span to one that overlaps at  *)
(* least as much.                                                          *)
Stable ==
  \A by \in Policies : Settled(by) =>
    /\ \A q, r \in aligned[by] : q[1] = r[1] \/ q[2] = r[2] => q = r
    /\ \A q \in PairsBy(by) : \E r \in aligned[by] :
         /\ r[1] = q[1] \/ r[2] = q[2]
         /\ Overlap(r[1], r[2]) >= Overlap(q[1], q[2])

(* Both policies are reported side by side: an entity the strict policy    *)
(* counts as found is found under the primary one, so strict recall never  *)
(* exceeds it, although the two are aligned independently.                 *)
ExactWithinOverlap ==
  stage = "scored" => Firsts(aligned["exact"]) \subseteq Firsts(aligned["overlap"])

=============================================================================
