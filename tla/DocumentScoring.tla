-------------------------- MODULE DocumentScoring --------------------------
(***************************************************************************)
(* The evaluation of the documents of a corpus, after the gateway has      *)
(* answered: the corpus is loaded and validated, and for each document the *)
(* detection is scored under both policies (SpanAlignment), the outbound   *)
(* text is audited for leaks and the restored text for what came back;     *)
(* the results are summed over the documents.                              *)
(*                                                                         *)
(* What the gateway sends out is the text of the document with the fakes   *)
(* of the detected spans in it, what it restores has for each span one of  *)
(* the texts that may come back.  Any call of stage one may fail.          *)
(***************************************************************************)
EXTENDS SpanAlignment, SurfaceText

CONSTANTS
  Documents,   \* the documents: their text, the annotations they may have,
               \* the spans the gateway may report
  NumericIds,  \* _NUMERIC_ID_TYPES
  ExactTypes,  \* _EXACT_STRING_TYPES
  Structured   \* STRUCTURED_TYPES

(* run_evaluation wants a document; every text consists of known parts.    *)
ASSUME DocumentAssumption ==
  /\ Documents \in Seq(Range(Documents)) /\ Documents # << >>
  /\ \A n \in DOMAIN Documents :
       /\ Documents[n].text \in Seq(DOMAIN Width)
       /\ \A G \in Documents[n].annotations :
            G \subseteq Entities /\ Listed(G) /\ IsFiniteSet(G)
       /\ \A P \in Documents[n].reports :
            P \subseteq Spans /\ Listed(P) /\ IsFiniteSet(P)
  /\ \A p \in Spans :
       p.fake \in Seq(DOMAIN Width) /\ p.returns \subseteq Seq(DOMAIN Width)

VARIABLES
  annotated,   \* the entities the corpus lists for each document
  phase,       \* what run_evaluation does next
  doc,         \* the document in work
  outbound,    \* its pseudonymized text
  restored,    \* its restored text
  fakes,       \* the fakes the gateway declared
  findings,    \* the leaks found in it
  outcomes,    \* how each of its entities was restored
  totals,      \* the sum of the reports so far, by policy
  leaks,       \* the leaks counted so far, by type
  restoration  \* the outcomes counted so far, and the documents

docVars == <<outbound, restored, fakes, findings, outcomes>>
sums == <<totals, leaks, restoration>>
vars == <<alignVars, annotated, phase, doc, docVars, sums>>

Text == Documents[doc].text
TextOf(e) == SubSeq(Text, e.start + 1, e.end)

Outcomes == {"exact", "correct_inflection", "fuzzy_recovered", "base_form_only", "missed"}
NoFinding == [type |-> Miss, start |-> 0, end |-> 0, mode |-> "none"]

-----------------------------------------------------------------------------
(* The leak audit. *)

FindingAt(type, start, end, mode) ==
  [type |-> type, start |-> start, end |-> end, mode |-> mode]

(* Mutant: what is not found as it was is put before the text. *)
PlaceUnclamped(type, original, text, mode) ==
  LET places == Occurrences(Normal(text), Normal(original))
  IN IF places = {} THEN FindingAt(type, 0 - 1, 0, mode)
     ELSE FindingAt(type, Earliest(places) - 1,
                    Earliest(places) + Len(original) - 1, mode)

(* _find_case_insensitive: the first occurrence, 0 and 0 if there is none. *)
PlaceOf(type, original, text, mode) ==
  LET places == Occurrences(Normal(text), Normal(original))
  IN IF places = {} THEN FindingAt(type, 0, 0, mode)
     ELSE FindingAt(type, Earliest(places) - 1,
                    Earliest(places) + Len(original) - 1, mode)

(* A short original is a leak only where its first occurrence is a word.   *)
WordLeak(type, original, text) ==
  LET first == Earliest(Occurrences(Normal(text), Normal(original)))
      word == WordAround(text, first, first + Len(original) - 1)
      standalone == Normal(Cut(text, word)) = Normal(original)
  IN IF standalone \/ Length(original) >= MinStemLength
     THEN FindingAt(type, word[1] - 1, word[2], IF standalone THEN "exact" ELSE "stem")
     ELSE NoFinding

(* The first word of the text that shares the stem of the longest word of  *)
(* the original, else the original without diacritics.                     *)
StemLeak(type, original, text) ==
  LET target == LongestToken(original)
      sharing == {w \in WordsOf(text) : SharesStem(Cut(text, w), target)}
  IN IF Length(target) >= MinStemLength /\ sharing # {}
     THEN PlaceOf(type, Cut(text, FirstWord(sharing)), text, "stem")
     ELSE IF Holds(Folded(text), Folded(original))
     THEN FindingAt(type, 0, 0, "diacritic_fold")
     ELSE NoFinding

(* _detect_leak. *)
DetectLeak(type, original, text) ==
  IF type \in NumericIds
  THEN IF DigitsOnly(original) # << >> /\ Holds(DigitsOnly(text), DigitsOnly(original))
       THEN PlaceOf(type, original, text, "exact_id") ELSE NoFinding
  ELSE IF type \in ExactTypes
  THEN IF Holds(Normal(text), Normal(original))
       THEN PlaceOf(type, original, text, "exact") ELSE NoFinding
  ELSE LET whole == IF Holds(Normal(text), Normal(original))
                    THEN WordLeak(type, original, text) ELSE NoFinding
       IN IF whole # NoFinding \/ Length(original) < MinStemLength
          THEN whole
          ELSE StemLeak(type, original, text)

(* Mutant: one surface is one leak, whatever its type. *)
SeenPlace(f) == <<f.start, f.end>>
SeenKey(f) == <<f.type, f.start, f.end>>

(* audit_document: of the findings with one key, the first is kept. *)
FindingsIn(text, declared) ==
  LET masked == Masked(text, declared)
      Of(e) == DetectLeak(e.type, TextOf(e), masked)
      Reported(e) ==
        /\ Of(e) # NoFinding
        /\ ~ \E h \in gold : /\ h.place < e.place /\ Of(h) # NoFinding
                             /\ SeenKey(Of(h)) = SeenKey(Of(e))
  IN {Of(e) : e \in {h \in gold : Reported(h)}}

-----------------------------------------------------------------------------
(* The restoration score. *)

InPlace(e, text) ==
  e.end <= Len(text) /\ SubSeq(text, e.start + 1, e.end) = TextOf(e)

(* _best_token_candidate: the first word that shares the stem, else the    *)
(* first of the closest ones, if it is close enough.                       *)
Candidate(target, text) ==
  LET sharing == {w \in WordsOf(text) : SharesStem(Cut(text, w), target)}
      closest == {w \in WordsOf(text) :
                    /\ Ratio(Cut(text, w), target) >= 8
                    /\ \A v \in WordsOf(text) :
                         Ratio(Cut(text, v), target) <= Ratio(Cut(text, w), target)}
  IN IF sharing # {} THEN Cut(text, FirstWord(sharing))
     ELSE IF closest # {} THEN Cut(text, FirstWord(closest))
     ELSE << >>

(* The outcome of a name that is not in the text as it was. *)
NameOutcome(candidate, target) ==
  IF candidate = << >> THEN "missed"
  ELSE IF \/ Normal(candidate) = Normal(target)
          \/ Folded(candidate) = Folded(target)
  THEN "correct_inflection"
  ELSE IF IsStrictPrefix(Normal(candidate), Normal(target)) THEN "base_form_only"
  ELSE IF SharesStem(candidate, target) THEN "correct_inflection"
  ELSE "fuzzy_recovered"

(* classify_one. *)
Classified(e, text) ==
  [inPlace |-> InPlace(e, text),
   outcome |->
     IF InPlace(e, text) \/ HoldsWhole(text, TextOf(e)) THEN "exact"
     ELSE IF e.type \in Structured
     THEN IF /\ DigitsOnly(TextOf(e)) # << >>
             /\ Holds(DigitsOnly(text), DigitsOnly(TextOf(e)))
          THEN "exact" ELSE "missed"
     ELSE NameOutcome(Candidate(LongestToken(TextOf(e)), text), LongestToken(TextOf(e)))]

-----------------------------------------------------------------------------
(* The sums over the documents. *)

NoReport ==
  [perType |-> [type \in Types |-> [tp |-> 0, fn |-> 0, fp |-> 0, support |-> 0]],
   matrix |-> [cell \in Labels \X Labels |-> 0],
   unmapped |-> 0]

Added(a, b) == [x \in DOMAIN a |-> a[x] + b[x]]

(* combine_reports, one report at a time. *)
Combined(total, report) ==
  [perType |-> [type \in Types |-> Added(total.perType[type], report.perType[type])],
   matrix |-> Added(total.matrix, report.matrix),
   unmapped |-> total.unmapped + report.unmapped]

(* aggregate_leaks. *)
LeaksWith(found) ==
  [type \in Types |-> leaks[type] + Cardinality({f \in found : f.type = type})]

AllExact == \A e \in gold : outcomes[e].outcome = "exact" /\ outcomes[e].inPlace

(* aggregate_restoration: a document without details is not counted. *)
RestorationWith ==
  [byOutcome |-> [o \in Outcomes |->
     restoration.byOutcome[o] + Cardinality({e \in gold : outcomes[e].outcome = o})],
   documents |-> restoration.documents + (IF gold = {} THEN 0 ELSE 1),
   exact |-> restoration.exact + (IF gold # {} /\ AllExact THEN 1 ELSE 0)]

-----------------------------------------------------------------------------
Init ==
  /\ annotated \in {a \in [DOMAIN Documents -> UNION {d.annotations : d \in Range(Documents)}] :
                      \A n \in DOMAIN a : a[n] \in Documents[n].annotations}
  /\ phase = "load"
  /\ doc = 1
  /\ gold = {} /\ predicted = {} /\ AlignStart
  /\ outbound = << >> /\ restored = << >> /\ fakes = {}
  /\ findings = {} /\ outcomes = << >>
  /\ totals = [by \in Policies |-> NoReport]
  /\ leaks = [type \in Types |-> 0]
  /\ restoration = [byOutcome |-> [o \in Outcomes |-> 0], documents |-> 0, exact |-> 0]

(* GoldDocument accepts an annotation of the text. *)
Accepted(n) ==
  /\ Valid(annotated[n])
  /\ \A e \in annotated[n] : e.end <= Len(Documents[n].text)

(* load_corpus: one bad document, and the run cannot start. *)
Load ==
  /\ phase = "load"
  /\ phase' = IF \A n \in DOMAIN annotated : Accepted(n)
              THEN "stage1" ELSE "cannot run"
  /\ UNCHANGED <<alignVars, annotated, doc, docVars, sums>>

FirstSpan(P) == CHOOSE p \in P : \A q \in P : p.start <= q.start

(* pseudonymize_text and restore_text: the last span is replaced first. *)
Spliced(textOf) ==
  MapThenFoldSet(LAMBDA p, t : Replaced(t, p.start, p.end, textOf[p]), Text,
                 LAMBDA p : p, FirstSpan, DOMAIN textOf)

(* run_stage1: the spans, the pseudonymized text, the restored text; when  *)
(* a call fails, what has come so far is kept.                             *)
RunStage1(spans, answered) ==
  /\ phase = "stage1"
  /\ phase' = "report"
  /\ gold' = annotated[doc]
  /\ predicted' = IF answered = 0 THEN {} ELSE spans
  /\ outbound' = IF answered < 2 THEN << >> ELSE Spliced([p \in spans |-> p.fake])
  /\ fakes' = IF answered < 2 THEN {} ELSE {p.fake : p \in spans}
  /\ IF answered < 3 THEN restored' = << >>
     ELSE \E back \in [spans -> UNION {p.returns : p \in spans}] :
            /\ \A p \in spans : back[p] \in p.returns
            /\ restored' = Spliced(back)
  /\ AlignAgain
  /\ UNCHANGED <<annotated, doc, findings, outcomes, sums>>

(* build_detection_report, for the one policy and the other. *)
BuildReports ==
  /\ phase = "report"
  /\ AlignNext
  /\ UNCHANGED <<annotated, phase, doc, docVars, sums>>

AddReports ==
  /\ phase = "report"
  /\ stage = "scored"
  /\ totals' = [by \in Policies |-> Combined(totals[by], Report(by))]
  /\ phase' = "audit"
  /\ UNCHANGED <<alignVars, annotated, doc, docVars, leaks, restoration>>

(* audit_document and build_restoration_details. *)
Audit ==
  /\ phase = "audit"
  /\ findings' = FindingsIn(outbound, fakes)
  /\ outcomes' = [e \in gold |-> Classified(e, restored)]
  /\ phase' = "aggregate"
  /\ UNCHANGED <<alignVars, annotated, doc, outbound, restored, fakes, sums>>

(* The results of the document are added up, and the next one is begun. *)
Aggregate ==
  /\ phase = "aggregate"
  /\ leaks' = LeaksWith(findings)
  /\ restoration' = RestorationWith
  /\ IF doc < Len(Documents)
     THEN doc' = doc + 1 /\ phase' = "stage1"
     ELSE UNCHANGED doc /\ phase' = "done"
  /\ gold' = {} /\ predicted' = {} /\ AlignAgain
  /\ outbound' = << >> /\ restored' = << >> /\ fakes' = {}
  /\ findings' = {} /\ outcomes' = << >>
  /\ UNCHANGED <<annotated, totals>>

Next ==
  \/ Load
  \/ \E spans \in Documents[doc].reports, answered \in 0 .. 3 : RunStage1(spans, answered)
  \/ BuildReports \/ AddReports \/ Audit \/ Aggregate

Spec == Init /\ [][Next]_vars

-----------------------------------------------------------------------------
(* Properties. *)

TypeOK ==
  /\ AlignTypeOK
  /\ doc \in DOMAIN Documents
  /\ phase \in {"load", "cannot run", "stage1", "report", "audit", "aggregate", "done"}
  /\ findings \subseteq [type : Types, start : Nat, end : Nat,
                         mode : {"exact", "exact_id", "stem", "diacritic_fold"}]
  /\ outcomes \in [DOMAIN outcomes -> [inPlace : BOOLEAN, outcome : Outcomes]]

(* The results tell one story of the corpus: an entity is counted once in  *)
(* its row of the matrix, a span once in its column, and under the primary *)
(* policy the diagonal is what was found.  When a document is done, every  *)
(* annotated entity has one restoration outcome and at most one leak.      *)
SumsAgree ==
  /\ \A by \in Policies, type \in Types :
       LET counts == totals[by].perType[type]
           matrix == totals[by].matrix
       IN /\ counts.support = counts.tp + counts.fn
          /\ counts.support = SumFunction([label \in Labels |-> matrix[<<type, label>>]])
          /\ counts.tp + counts.fp = SumFunction([label \in Labels |-> matrix[<<label, type>>]])
          /\ by = "overlap" => matrix[<<type, type>>] = counts.tp
          /\ matrix[<<Spurious, Miss>>] = totals[by].unmapped
  /\ phase \in {"stage1", "done"} =>
       LET support == [type \in Types |-> totals["overlap"].perType[type].support]
       IN /\ SumFunction(restoration.byOutcome) = SumFunction(support)
          /\ \A type \in Types : leaks[type] <= support[type]

Apart(p, e) == p.end <= e.start \/ e.end <= p.start
Alphabet(t) == {Normal(t)[i] : i \in DOMAIN t}
Disjoint == \A p, q \in predicted : p # q => Apart(p, q)

(* Nothing of what the gateway has put into the text is like the entity. *)
Unlike(e) == \A fake \in fakes : Alphabet(fake) \cap Alphabet(TextOf(e)) = {}

(* FR-020: what detection has missed and no fake hides is found by the     *)
(* audit, though it looks at first occurrences and counts one surface      *)
(* once.  A short original may escape it.                                  *)
MissedIsLeaked ==
  phase = "aggregate" /\ outbound # << >> /\ Disjoint =>
    \A e \in gold :
      /\ \A p \in predicted : Apart(p, e)
      /\ Unlike(e)
      /\ Length(TextOf(e)) >= MinStemLength
      => \E f \in findings : f.type = e.type

(* leak_audit.py: the audit scans "for ANY surviving occurrence" of an     *)
(* original.  A name that survives as a word of its own is reported.       *)
AnySurvivingIsLeak ==
  phase = "aggregate" /\ outbound # << >> /\ Disjoint =>
    \A e \in gold :
      /\ \A p \in predicted : Apart(p, e)
      /\ Unlike(e)
      => \E f \in findings : f.type = e.type

=============================================================================
