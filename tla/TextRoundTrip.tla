--------------------------- MODULE TextRoundTrip ---------------------------
(***************************************************************************)
(* One text on its way through the gateway: detected (Detection), every    *)
(* entity substituted (AtomicVault), the fakes spliced into the text, the  *)
(* answer of the provider restored, exactly and then fuzzily.              *)
(*                                                                         *)
(* A text is a sequence of words, and so are an original and its fake: the *)
(* code replaces whole words only.  Names are in their base form.          *)
(***************************************************************************)
EXTENDS Detection, Sequences, SequencesExt

CONSTANTS
  Text,       \* the text
  FakesOf,    \* the fakes each type of entity may get
  NameTypes,  \* PERSON and LOCATION
  Length,     \* the length of each fake in characters
  Inflected,  \* the forms a provider gives to some words of the fakes
  Distance,   \* the edit distance of the tokens that pass the fuzzy gates
  NoFake      \* no answer of the vault yet

ASSUME TextAssumption ==
  /\ Text \in Seq(Range(Text))
  /\ \A c \in Candidates : c.end <= Len(Text) /\ c.type \in DOMAIN FakesOf
  /\ \A t \in DOMAIN FakesOf : \A fake \in FakesOf[t] :
       fake \in Seq(Range(fake)) /\ fake # << >>

VARIABLES
  assigned,   \* the vault: the fake of each original
  answered,   \* what get_or_create has returned for each entity
  spliced,    \* the entities already replaced in the text
  text,       \* the text as it is now
  sent,       \* the text the provider has got
  reply,      \* its answer
  left        \* the fakes whose pass of the restoration is to come

vars == <<stage, raw, seen, kept, entities, assigned, answered, spliced, text,
          sent, reply, left>>

Words(c) == SubSeq(Text, c.start + 1, c.end)
KeyOf(c) == <<c.type, Words(c)>>

Vault == INSTANCE AtomicVault WITH Calls <- Candidates
vault == <<assigned, answered>>

Init ==
  /\ raw \in SUBSET Candidates
  /\ DetectInit
  /\ Vault!Init
  /\ spliced = {}
  /\ text = Text
  /\ sent = << >> /\ reply = << >>
  /\ left = {}

Detect ==
  /\ DetectNext
  /\ UNCHANGED <<vault, spliced, text, sent, reply, left>>

InTextOrder(c, d) == c.start < d.start \/ (c.start = d.start /\ c.end <= d.end)

(* get_or_create for the next entity of pseudonymize_text. *)
Substitute(e) ==
  /\ stage = "detected"
  /\ e \in entities /\ answered[e] = NoFake
  /\ \A f \in entities : answered[f] = NoFake => InTextOrder(e, f)
  /\ \/ Vault!AnswerKnown(e)
     \/ \E fake \in FakesOf[e.type] \ Range(assigned) : Vault!MapTo(e, fake)
  /\ UNCHANGED <<detectVars, spliced, text, sent, reply, left>>

(* Mutant: the first entity is spliced first, and moves the others. *)
SpliceForward(e) ==
  /\ stage = "detected"
  /\ \A f \in entities : answered[f] # NoFake
  /\ e \in entities \ spliced
  /\ \A f \in entities \ spliced : e.start <= f.start
  /\ text' = SubSeq(text, 1, e.start) \o answered[e]
               \o SubSeq(text, e.end + 1, Len(text))
  /\ spliced' = spliced \cup {e}
  /\ UNCHANGED <<detectVars, vault, sent, reply, left>>

(* Mutant: the end of an entity is taken for its last word. *)
SpliceShort(e) ==
  /\ stage = "detected"
  /\ \A f \in entities : answered[f] # NoFake
  /\ e \in entities \ spliced
  /\ \A f \in entities \ spliced : f.start <= e.start
  /\ text' = SubSeq(text, 1, e.start) \o answered[e] \o SubSeq(text, e.end, Len(text))
  /\ spliced' = spliced \cup {e}
  /\ UNCHANGED <<detectVars, vault, sent, reply, left>>

(* One step of the splice, the last entity first. *)
Splice(e) ==
  /\ stage = "detected"
  /\ \A f \in entities : answered[f] # NoFake
  /\ e \in entities \ spliced
  /\ \A f \in entities \ spliced : f.start <= e.start
  /\ text' = SubSeq(text, 1, e.start) \o answered[e]
               \o SubSeq(text, e.end + 1, Len(text))
  /\ spliced' = spliced \cup {e}
  /\ UNCHANGED <<detectVars, vault, sent, reply, left>>

Send ==
  /\ stage = "detected"
  /\ spliced = entities
  /\ stage' = "sent"
  /\ sent' = text
  /\ UNCHANGED <<raw, seen, kept, entities, vault, spliced, text, reply, left>>

(* The provider repeats the text, some of its words in another case.       *)
(* restore_text returns at once when the session has no reverse records.   *)
Answer ==
  /\ stage = "sent"
  /\ \E turned \in SUBSET {i \in DOMAIN sent : sent[i] \in DOMAIN Inflected} :
       reply' = [i \in DOMAIN sent |->
                   IF i \in turned THEN Inflected[sent[i]] ELSE sent[i]]
  /\ text' = reply'
  /\ left' = Range(assigned)
  /\ stage' = IF assigned = << >> THEN "done" ELSE "restore"
  /\ UNCHANGED <<raw, seen, kept, entities, vault, spliced, sent>>

-----------------------------------------------------------------------------
(* re.sub of one fake, between word boundaries, from left to right. *)
OccursAt(form, words, i) ==
  /\ i + Len(form) - 1 <= Len(words)
  /\ SubSeq(words, i, i + Len(form) - 1) = form

(* A fake within another one has fewer characters. *)
ASSUME LengthAssumption ==
  \A t, u \in DOMAIN FakesOf : \A f \in FakesOf[t], g \in FakesOf[u] :
    /\ Length[f] \in Nat
    /\ f # g /\ (\E i \in DOMAIN g : OccursAt(f, g, i)) => Length[f] < Length[g]

Replaced(form, original, words) ==
  LET from[i \in 1 .. Len(words) + 1] ==
        IF i > Len(words) THEN << >>
        ELSE IF OccursAt(form, words, i) THEN original \o from[i + Len(form)]
        ELSE <<words[i]>> \o from[i + 1]
  IN  from[1]

OriginalOf(fake) == (CHOOSE k \in DOMAIN assigned : assigned[k] = fake)[2]

(* Mutant: the passes come in any order. *)
RestoreAny(fake) ==
  /\ stage = "restore"
  /\ fake \in left
  /\ text' = Replaced(fake, OriginalOf(fake), text)
  /\ left' = left \ {fake}
  /\ UNCHANGED <<detectVars, vault, spliced, sent, reply>>

(* One pass of restore_text: the longest fake that is left. *)
Restore(fake) ==
  /\ stage = "restore"
  /\ fake \in left
  /\ \A other \in left : Length[other] <= Length[fake]
  /\ text' = Replaced(fake, OriginalOf(fake), text)
  /\ left' = left \ {fake}
  /\ UNCHANGED <<detectVars, vault, spliced, sent, reply>>

(* /v1/depseudonymize ends after the exact passes. *)
EndExact ==
  /\ stage = "restore"
  /\ left = {}
  /\ stage' = "exact"
  /\ UNCHANGED <<raw, seen, kept, entities, vault, spliced, text, sent, reply,
                 left>>

Names == {k \in DOMAIN assigned : k[1] \in NameTypes}

(* Mutant: each token stands for the whole name. *)
RestorationsWhole ==
  UNION {{<<assigned[k][n], k[2]>> : n \in DOMAIN assigned[k]} : k \in Names}

(* _build_candidates: a token of a name's fake, and what it restores to.   *)
Restorations ==
  UNION {{<<assigned[k][n],
            IF Len(assigned[k]) = Len(k[2]) THEN <<k[2][n]>> ELSE k[2]>> :
            n \in DOMAIN assigned[k]} : k \in Names}

(* _best_replacement: the nearest, unless there are two. *)
BestReplacement(word) ==
  LET near == {r \in Restorations : <<word, r[1]>> \in DOMAIN Distance}
      best == {r \in near : \A s \in near :
                 Distance[<<word, r[1]>>] <= Distance[<<word, s[1]>>]}
      originals == {r[2] : r \in best}
  IN  IF Cardinality(originals) = 1 THEN CHOOSE o \in originals : TRUE ELSE <<word>>

(* FuzzyNameRestorer.restore, over all the words of the text. *)
RestoreFuzzy ==
  /\ stage = "restore"
  /\ left = {}
  /\ text' = FlattenSeq([i \in DOMAIN text |-> BestReplacement(text[i])])
  /\ stage' = "done"
  /\ UNCHANGED <<raw, seen, kept, entities, vault, spliced, sent, reply, left>>

Done == stage \in {"exact", "done"} /\ UNCHANGED vars

Next ==
  \/ Detect
  \/ \E e \in raw : Substitute(e) \/ Splice(e)
  \/ Send
  \/ Answer
  \/ \E fake \in left : Restore(fake)
  \/ EndExact
  \/ RestoreFuzzy
  \/ Done

Spec == Init /\ [][Next]_vars

-----------------------------------------------------------------------------
(* Properties. *)

Apart == \A e, f \in entities : e # f => e.end <= f.start \/ f.end <= e.start

(* What the provider should get: a fake for each entity, all else as is. *)
Substituted ==
  FlattenSeq([i \in DOMAIN Text |->
    IF \E e \in entities : e.start < i /\ i <= e.end
    THEN LET e == CHOOSE f \in entities : f.start < i /\ i <= f.end
         IN  IF i = e.start + 1 THEN answered[e] ELSE << >>
    ELSE <<Text[i]>>])

(* The splice works on offsets into the original text.  It is right for    *)
(* entities that share no word, whatever the lengths of the fakes.         *)
SentAsIntended ==
  stage \notin {"resolve", "detected"} /\ Apart => sent = Substituted

(* Even where entities overlap no word of theirs gets out: a word that     *)
(* stands only in entities is in no payload, unless as a part of a fake.   *)
NoOriginalSent ==
  stage \notin {"resolve", "detected"} =>
    \A n \in DOMAIN sent :
      \/ \E fake \in Range(assigned) : sent[n] \in Range(fake)
      \/ \E i \in DOMAIN Text :
           /\ Text[i] = sent[n]
           /\ \A e \in entities : ~(e.start < i /\ i <= e.end)

-----------------------------------------------------------------------------
(* What the restoration needs. *)

(* No word of a fake is, or is close to, a word of the text. *)
Unlike ==
  \A i \in DOMAIN Text, fake \in Range(assigned) : \A n \in DOMAIN fake :
    Text[i] # fake[n] /\ <<Text[i], fake[n]>> \notin DOMAIN Distance

(* Between two entities there is a word that is in neither. *)
Separated == \A e, f \in entities : e # f => e.end < f.start \/ f.end < e.start

ShareNoWord ==
  \A f, g \in Range(assigned) : f # g => Range(f) \cap Range(g) = {}

Aligned == \A k \in DOMAIN assigned : Len(assigned[k]) = Len(k[2])

AllFakes == UNION {FakesOf[t] : t \in DOMAIN FakesOf}

(* What a word of a fake may come back as. *)
FormsOf(w) == {w} \cup {Inflected[v] : v \in {w} \cap DOMAIN Inflected}

UnlikeText(fake) ==
  \A i \in DOMAIN Text, n \in DOMAIN fake :
    Text[i] # fake[n] /\ <<Text[i], fake[n]>> \notin DOMAIN Distance

UsableFakes == {fake \in AllFakes : UnlikeText(fake)}

Inflects(fake) == \E n \in DOMAIN fake : fake[n] \in DOMAIN Inflected

(* A form of a word is nearer to it than to every word of another fake,    *)
(* and no word itself.                                                     *)
NearestTo(form, w) ==
  /\ <<form, w>> \in DOMAIN Distance
  /\ \A fake \in UsableFakes : \A n \in DOMAIN fake :
       fake[n] # w /\ <<form, fake[n]>> \in DOMAIN Distance =>
         Distance[<<form, w>>] < Distance[<<form, fake[n]>>]

(* The names are all that comes back in another form, and the fuzzy gates  *)
(* and the distance tell the forms of different words apart.               *)
FormsNear ==
  /\ \A x \in DOMAIN Distance : Distance[x] \in Nat
  /\ \A i \in DOMAIN Text : Text[i] \notin DOMAIN Inflected
  /\ \A t \in DOMAIN FakesOf \ NameTypes : \A fake \in FakesOf[t] : ~Inflects(fake)
  /\ \A fake \in UsableFakes : Inflects(fake) =>
       /\ \A m, n \in DOMAIN fake : fake[m] = fake[n] => m = n
       /\ \A n \in DOMAIN fake : \A form \in FormsOf(fake[n]) : NearestTo(form, fake[n])
  /\ \A w \in DOMAIN Inflected : \A fake \in UsableFakes : Inflected[w] \notin Range(fake)

(* The answer that repeats the text is restored to the original text, even *)
(* where one fake is a part of another: the passes are longest-first.      *)
RestoresExactly ==
  stage \in {"exact", "done"} /\ reply = sent /\ Separated /\ Unlike =>
    text = Text

(* So is one that puts words of the names into cases the vault has not     *)
(* foreseen, after the fuzzy pass, if the fakes share no word and have as  *)
(* many words as their originals.                                          *)
RestoresInflected ==
  stage = "done" /\ Apart /\ Unlike /\ ShareNoWord /\ Aligned => text = Text

(* fuzzy_restoration.py: "Runs AFTER the exact + inflection pass, only on  *)
(* tokens it left": the words of restored entities stay as they are.       *)
FuzzyOnLeftTokens ==
  [][stage = "restore" /\ stage' = "done" /\ text = Text =>
       text' = FlattenSeq([i \in DOMAIN Text |->
                 IF \E e \in entities : e.start < i /\ i <= e.end
                 THEN <<Text[i]>> ELSE BestReplacement(Text[i])])]_vars

=============================================================================
