----------------------------- MODULE Detection -----------------------------
(***************************************************************************)
(* DetectionEngine.detect after the analyzer has returned its candidates:  *)
(* the pass of resolve_overlaps over the candidates, longest first, and    *)
(* the thresholds that are applied to what the pass has kept.              *)
(*                                                                         *)
(* A candidate covers the positions from start up to, not including, end   *)
(* of the text.  Entity types are numbered in their alphabetical order,    *)
(* scores and thresholds are whole numbers.                                *)
(***************************************************************************)
EXTENDS Naturals, FiniteSets

CONSTANTS
  Candidates, \* the candidates the analyzer may return
  Threshold   \* the threshold of each type of candidate

ASSUME CandidatesAssumption ==
  \A c \in Candidates :
    /\ c.start \in Nat /\ c.end \in Nat /\ c.start < c.end
    /\ c.score \in Nat /\ c.type \in Nat
    /\ Threshold[c.type] \in Nat
ASSUME DistinctAssumption ==
  \A c, d \in Candidates :
    c.start = d.start /\ c.end = d.end /\ c.score = d.score /\ c.type = d.type => c = d

VARIABLES
  stage,      \* what detect does next
  raw,        \* the candidates of this text
  seen,       \* those the pass has looked at
  kept,       \* those it has kept
  entities    \* what detect returns

detectVars == <<stage, raw, seen, kept, entities>>

Size(c) == c.end - c.start

(* The checks of _subsumed_by. *)
Encloses(k, c) == k.start <= c.start /\ c.end <= k.end
(* Mutant: a span that only meets a kept one is subsumed, too. *)
SubsumedByMeeting(c, k) == k.start < c.end /\ c.start < k.end

SubsumedBy(c, k) == Encloses(k, c) /\ Size(k) >= Size(c)

BetterOfSpan(c, d) ==
  c.score > d.score \/ (c.score = d.score /\ c.type < d.type)

(* Mutant: the candidates come in the order of the text. *)
BeforeInText(c, d) ==
  \/ c.start < d.start
  \/ c.start = d.start /\ c.end < d.end
  \/ c.start = d.start /\ c.end = d.end /\ BetterOfSpan(c, d)

(* The order of the pass: longest, earliest, best score, type. *)
Before(c, d) ==
  \/ Size(c) > Size(d)
  \/ Size(c) = Size(d) /\ c.start < d.start
  \/ Size(c) = Size(d) /\ c.start = d.start /\ BetterOfSpan(c, d)

Passing(c) == c.score >= Threshold[c.type]

DetectInit ==
  /\ stage = "resolve"
  /\ seen = {} /\ kept = {} /\ entities = {}

(* One iteration of the loop of resolve_overlaps. *)
Consider(c) ==
  /\ stage = "resolve"
  /\ c \in raw \ seen
  /\ \A d \in raw \ (seen \cup {c}) : Before(c, d)
  /\ seen' = seen \cup {c}
  /\ kept' = IF \E k \in kept : SubsumedBy(c, k) THEN kept ELSE kept \cup {c}
  /\ UNCHANGED <<stage, raw, entities>>

(* apply_thresholds, once every candidate has been looked at. *)
ApplyThresholds ==
  /\ stage = "resolve"
  /\ seen = raw
  /\ entities' = {k \in kept : Passing(k)}
  /\ stage' = "detected"
  /\ UNCHANGED <<raw, seen, kept>>

DetectNext == (\E c \in raw : Consider(c)) \/ ApplyThresholds

DetectSpec ==
  raw \in SUBSET Candidates /\ DetectInit /\ [][DetectNext]_detectVars

-----------------------------------------------------------------------------
(* Properties. *)

DetectTypeOK ==
  /\ raw \subseteq Candidates
  /\ kept \subseteq seen /\ seen \subseteq raw
  /\ entities \subseteq kept

(* FR-023 to FR-025: whatever order the analyzer returns its candidates    *)
(* in, those that score enough are returned that no other candidate beats: *)
(* none that lies in another span, and the best one of those for one span. *)
Beats(d, c) ==
  /\ d # c
  /\ Encloses(d, c)
  /\ \/ Size(d) > Size(c)
     \/ BetterOfSpan(d, c)

KeepsUnbeaten ==
  stage = "detected" =>
    entities = {c \in raw : Passing(c) /\ ~ \E d \in raw : Beats(d, c)}

(* Recall: a candidate that scores enough lies in a reported entity, but   *)
(* for one case: a candidate over it does not reach its own threshold,     *)
(* which is applied after the overlaps.                                    *)
NothingDropped ==
  stage = "detected" =>
    \A c \in raw : Passing(c) =>
      \/ \E e \in entities : Encloses(e, c)
      \/ \E d \in raw : Encloses(d, c) /\ ~Passing(d)

(* FR-023, "a single best entity is returned per region" (engine.py: "Keep *)
(* one best entity per region"): no two returned spans share a position.   *)
OnePerRegion ==
  \A e, f \in entities : e # f => e.end <= f.start \/ f.end <= e.start

=============================================================================
