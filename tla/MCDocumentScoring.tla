------------------------- MODULE MCDocumentScoring -------------------------
(* Two documents for TLC: "Janina Jan Kowalski 123-456 Lodz 123456" and    *)
(* "Elku Elk"; an apostrophe stands for the diacritics of a part.          *)
EXTENDS DocumentScoring, TLC

Entity(place, type, start, end) ==
  [place |-> place, type |-> type, start |-> start, end |-> end]

Span(place, label, start, end, fake, returns) ==
  [place |-> place, label |-> label, start |-> start, end |-> end, fake |-> fake,
   returns |-> returns]

JaninaJan == <<"Jan", "in", "a", " ", "Jan", " ", "Kowalsk", "i", " ",
               "123", "-", "456", " ", "Lodz'", " ", "123", "456">>

(* A first name may be annotated within the name, which is rejected, and   *)
(* the city as a person, too.                                              *)
JaninaEntities ==
  {Entity(1, "PERSON", 0, 3), Entity(2, "PERSON", 4, 8), Entity(3, "PERSON", 4, 5),
   Entity(4, "NIP", 9, 12), Entity(5, "LOCATION", 13, 14), Entity(6, "PERSON", 13, 14)}

(* A span over two names, a whole name or a part of it, the number in one  *)
(* of its places, and the city under two labels; a provider returns        *)
(* another form of a name, or a number without its dash.                   *)
JaninaSpans ==
  {Span(1, "PERSON", 0, 5, <<"Ew", "a">>, {<<"Jan", "in", "a", " ", "Jan">>}),
   Span(2, "PERSON", 4, 8, <<"Nowak">>,
        {<<"Jan", " ", "Kowalsk", "i">>, <<"Kowalsk", "i", "ego">>,
         <<"Jan", " ", "Kovalsk", "i">>, <<"Kowalsk">>}),
   Span(3, "PERSON", 4, 5, <<"Ew", "a">>, {<<"Jan">>}),
   Span(4, "NIP", 9, 12, <<"789">>, {<<"123", "-", "456">>, <<"123", "456">>}),
   Span(5, "LOCATION", 13, 14, <<"Jan", "ow'">>, {<<"Lodz'">>, <<"Lodz">>}),
   Span(6, "ORGANIZATION", 13, 14, <<"Optima">>, {<<"Lodz'">>})}

(* resolve_overlaps drops what lies in another span. *)
Nested(P) ==
  \E p, q \in P : p # q /\ p.start <= q.start /\ q.end <= p.end

ElkuElk == <<"Elk'", "u", " ", "Elk'">>

Elk == Entity(1, "LOCATION", 3, 4)
Beyond == Entity(2, "LOCATION", 3, 5)
ElkSpan == Span(1, "LOCATION", 3, 4, <<"Lodz'">>, {<<"Elk'">>})

Numbers == {e \in JaninaEntities : e.type = "NIP"}

Docs ==
  <<[text |-> JaninaJan, annotations |-> {G \cup Numbers : G \in SUBSET JaninaEntities},
     reports |-> {P \in SUBSET JaninaSpans : ~Nested(P)}],
    [text |-> ElkuElk, annotations |-> {{Elk}, {Elk, Beyond}}, reports |-> {{}, {ElkSpan}}]>>

AllEntities == JaninaEntities \cup {Elk, Beyond}
AllSpans == JaninaSpans \cup {ElkSpan}

Canonical == [label \in {"PERSON", "LOCATION", "NIP"} |-> label] @@ "ORGANIZATION" :> "none"

Widths ==
  "Jan" :> 3 @@ "in" :> 2 @@ "a" :> 1 @@ " " :> 1 @@ "Kowalsk" :> 7 @@ "i" :> 1
  @@ "ego" :> 3 @@ "123" :> 3 @@ "-" :> 1 @@ "456" :> 3 @@ "789" :> 3 @@ "Lodz'" :> 4
  @@ "Lodz" :> 4 @@ "Elk'" :> 3 @@ "u" :> 1 @@ "Ew" :> 2 @@ "Nowak" :> 5 @@ "ow'" :> 2
  @@ "Optima" :> 6 @@ "Kovalsk" :> 7
  @@ "jan" :> 3 @@ "kowalsk" :> 7 @@ "lodz'" :> 4 @@ "lodz" :> 4 @@ "elk'" :> 3 @@ "elk" :> 3 @@ "ew" :> 2
  @@ "nowak" :> 5 @@ "optima" :> 6 @@ "kovalsk" :> 7

Lower ==
  "Jan" :> "jan" @@ "Kowalsk" :> "kowalsk" @@ "Lodz'" :> "lodz'" @@ "Lodz" :> "lodz"
  @@ "Elk'" :> "elk'" @@ "Ew" :> "ew" @@ "Nowak" :> "nowak" @@ "Optima" :> "optima"
  @@ "Kovalsk" :> "kovalsk"

Plain == "lodz'" :> "lodz" @@ "elk'" :> "elk" @@ "ow'" :> "ow"

(* One character of eight differs. *)
Alike == <<<<"Kovalsk", "i">>, <<"Kowalsk", "i">>>> :> 8

=============================================================================
