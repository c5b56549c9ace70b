---------------------------- MODULE SurfaceText ----------------------------
(***************************************************************************)
(* surface_matching.py and the text searches of leak_audit.py and          *)
(* restoration_metrics.py.                                                 *)
(*                                                                         *)
(* A text is a sequence of parts: the stem of a word, an ending, a group   *)
(* of digits, a separator.  A part has a width in characters; a part that  *)
(* Lowered, Folded do not mention is its own lower case, its own folding.  *)
(***************************************************************************)
EXTENDS Naturals, Sequences, FiniteSets, SequencesExt

CONSTANTS
  Width,       \* the characters of each part
  LowerCase,   \* the lower case of the parts that have one
  Undiacritic, \* the lower-case parts with diacritics, without them
  Endings,     \* _INFLECTION_ENDINGS, of those the parts are
  Digits,      \* the groups of digits
  Separators,  \* the parts that are no word characters
  Mask,        \* _MASK_CHAR
  Likeness     \* levenshtein_ratio of the tokens that are alike, in tenths

ASSUME WidthAssumption == \A part \in DOMAIN Width : Width[part] \in Nat

Mapping(f, part) == IF part \in DOMAIN f THEN f[part] ELSE part

(* normalize and fold_diacritics. *)
Normal(t) == [i \in DOMAIN t |-> Mapping(LowerCase, t[i])]
Folded(t) == [i \in DOMAIN t |-> Mapping(Undiacritic, Normal(t)[i])]

Length(t) == SumFunction([i \in DOMAIN t |-> Width[t[i]]])

(* The places at which a text holds another one. *)
Occurrences(t, sought) ==
  {i \in 1 .. Len(t) :
     i + Len(sought) <= Len(t) + 1 /\ SubSeq(t, i, i + Len(sought) - 1) = sought}

Holds(t, sought) == sought = << >> \/ Occurrences(t, sought) # {}

Earliest(S) == CHOOSE i \in S : \A j \in S : i <= j

IsWord(part) == part \notin Separators

(* tokens: the intervals of the words of a text, from the left. *)
WordsOf(t) ==
  {w \in (1 .. Len(t)) \X (1 .. Len(t)) :
     /\ w[1] <= w[2]
     /\ \A i \in w[1] .. w[2] : IsWord(t[i])
     /\ w[1] = 1 \/ ~IsWord(t[w[1] - 1])
     /\ w[2] = Len(t) \/ ~IsWord(t[w[2] + 1])}

Cut(t, w) == SubSeq(t, w[1], w[2])

(* The first of the words that satisfy a test. *)
FirstWord(W) == CHOOSE w \in W : \A v \in W : w[1] <= v[1]

(* max(tokens(original), key=len, default=original). *)
LongestToken(t) ==
  LET longest == {w \in WordsOf(t) :
                    \A v \in WordsOf(t) : Length(Cut(t, v)) <= Length(Cut(t, w))}
  IN IF longest = {} THEN t ELSE Cut(t, FirstWord(longest))

(* _expand_to_word. *)
WordAround(t, i, j) ==
  CHOOSE w \in (1 .. i) \X (j .. Len(t)) :
    /\ \A k \in (w[1] .. i - 1) \cup (j + 1 .. w[2]) : IsWord(t[k])
    /\ w[1] = 1 \/ ~IsWord(t[w[1] - 1])
    /\ w[2] = Len(t) \/ ~IsWord(t[w[2] + 1])

(* _digits_only: the groups of digits, joined.                             *)
DigitsOnly(t) ==
  LET found[i \in 0 .. Len(t)] ==
        IF i = 0 THEN << >>
        ELSE IF t[i] \in Digits THEN Append(found[i - 1], t[i])
        ELSE found[i - 1]
  IN found[Len(t)]

MinStemLength == 4

(* stem: one ending is dropped, if enough is left. *)
Stem(token) ==
  LET short == Front(Normal(token))
  IN IF /\ token # << >> /\ Last(Normal(token)) \in Endings
        /\ Length(short) >= MinStemLength
     THEN short ELSE Normal(token)

SharesStem(left, right) ==
  IF Length(Stem(left)) < MinStemLength \/ Length(Stem(right)) < MinStemLength
  THEN Normal(left) = Normal(right)
  ELSE IsPrefix(Stem(left), Stem(right)) \/ IsPrefix(Stem(right), Stem(left))

(* levenshtein_ratio. *)
Ratio(left, right) ==
  IF Normal(left) = Normal(right) THEN 10
  ELSE IF <<left, right>> \in DOMAIN Likeness THEN Likeness[<<left, right>>]
  ELSE 0

(* _contains_whole: not as a fragment of a longer word. *)
HoldsWhole(t, phrase) ==
  \E i \in Occurrences(t, phrase) :
    /\ i = 1 \/ ~IsWord(t[i - 1])
    /\ i + Len(phrase) > Len(t) \/ ~IsWord(t[i + Len(phrase)])

(* The text with the positions from start up to end replaced; a slice ends *)
(* with the text.                                                          *)
Replaced(t, start, end, new) ==
  SubSeq(t, 1, IF start < Len(t) THEN start ELSE Len(t))
    \o new \o SubSeq(t, end + 1, Len(t))

(* _mask_fakes for one fake: no two of its occurrences overlap. *)
Blanked(t, fake) ==
  LET covered == {j \in 1 .. Len(t) :
                    \E i \in Occurrences(Normal(t), Normal(fake)) :
                      i <= j /\ j < i + Len(fake)}
  IN [j \in DOMAIN t |-> IF j \in covered THEN Mask ELSE t[j]]

Shortest(F) == CHOOSE f \in F : \A g \in F : Length(f) <= Length(g)

(* _mask_fakes: the longest fake first, the shortest last. *)
Masked(t, fakes) ==
  MapThenFoldSet(LAMBDA f, masked : Blanked(masked, f), t,
                 LAMBDA f : f, Shortest, fakes \ {<< >>})

=============================================================================
