---------------------------- MODULE Coreference ----------------------------
(***************************************************************************)
(* The decision whether a name mention reuses a stored person's (or        *)
(* place's) fake: pseudonym_vault/coreference_matching.py.  A lemma and a  *)
(* fake base are sequences of whole tokens; the empty base is None.        *)
(***************************************************************************)
EXTENDS Naturals, Sequences, FiniteSets, SequencesExt

NoFake == << >>

(* The index list.index returns: the first position of token in tokens. *)
FirstAt(token, tokens) ==
  CHOOSE i \in DOMAIN tokens :
    /\ tokens[i] = token
    /\ \A j \in DOMAIN tokens : tokens[j] = token => i <= j

(* One lemma's whole tokens are a subset of the other's. *)
LemmaOverlap(candidate, stored) ==
  /\ candidate # << >>
  /\ stored # << >>
  /\ \/ Range(candidate) \subseteq Range(stored)
     \/ Range(stored) \subseteq Range(candidate)

(* The tokens of the stored fake at the positions where the candidate's    *)
(* tokens stand in the stored lemma; positions past the fake are dropped.  *)
AlignedFake(candidate, stored, fake) ==
  LET Aligns(token) == /\ token \in Range(stored)
                       /\ FirstAt(token, stored) <= Len(fake)
  IN  FlattenSeq([i \in DOMAIN candidate |->
        IF Aligns(candidate[i]) THEN <<fake[FirstAt(candidate[i], stored)]>>
                                ELSE << >>])

(* Exactly one distinct fake among the overlapping records of the same     *)
(* type: reuse it through the first of those records.  Otherwise mint.     *)
Resolve(type, lemma, records) ==
  LET matching == {i \in DOMAIN records :
                     /\ records[i].type = type
                     /\ LemmaOverlap(lemma, records[i].lemma)}
      first == CHOOSE i \in matching : \A j \in matching : i <= j
  IN  IF Cardinality({records[i].base : i \in matching}) # 1
      THEN NoFake
      ELSE AlignedFake(lemma, records[first].lemma, records[first].base)

=============================================================================
