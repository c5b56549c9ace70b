-------------------------- MODULE MCTextRoundTrip --------------------------
(* A text with a city and two persons of one surname for TLC. *)
EXTENDS TextRoundTrip, TLC

CONSTANTS LOCATION, PERSON, POLISH_ADDRESS

Letter == <<"Gdynia", "Jan", "Kowalski", "i", "Ewa", "Kowalski">>

Span(start, end, type, score) ==
  [start |-> start, end |-> end, type |-> type, score |-> score]

(* An address may take the word after the city, too; 40 and 60 are its     *)
(* scores without and with a street, 85 and 99 those of a spaCy label      *)
(* without and with a context word.                                        *)
Spans ==
  {Span(0, 1, LOCATION, 85), Span(0, 1, POLISH_ADDRESS, 40),
   Span(0, 2, POLISH_ADDRESS, 60), Span(1, 3, PERSON, 85),
   Span(1, 2, PERSON, 85), Span(2, 3, PERSON, 85), Span(5, 6, PERSON, 85),
   Span(1, 2, LOCATION, 85), Span(4, 6, PERSON, 85),
   Span(4, 6, LOCATION, 99)}

Thresholds == LOCATION :> 40 @@ PERSON :> 40 @@ POLISH_ADDRESS :> 50

(* The builder draws a first name and a surname; one word is the part of a *)
(* fake that coreference gives to a part of a name.                        *)
Fakes ==
  LOCATION :> {<<"Nowak">>, <<"Sopot">>, <<"Ustka">>}
  @@ PERSON :> {<<"Piotr", "Nowak">>, <<"Anna", "Kowalska">>, <<"Piotr">>}
  @@ POLISH_ADDRESS :> {<<"Polna", "Sopot">>}

FakeLength ==
  <<"Nowak">> :> 5 @@ <<"Sopot">> :> 5 @@ <<"Ustka">> :> 5
  @@ <<"Piotr", "Nowak">> :> 11 @@ <<"Anna", "Kowalska">> :> 13 @@ <<"Piotr">> :> 5
  @@ <<"Polna", "Sopot">> :> 11

Cases == "Piotr" :> "Piotra" @@ "Nowak" :> "Nowaka" @@ "Kowalska" :> "Kowalskiej"

Edits ==
  <<"Piotr", "Piotr">> :> 0 @@ <<"Nowak", "Nowak">> :> 0
  @@ <<"Sopot", "Sopot">> :> 0 @@ <<"Ustka", "Ustka">> :> 0
  @@ <<"Anna", "Anna">> :> 0 @@ <<"Kowalska", "Kowalska">> :> 0
  @@ <<"Piotra", "Piotr">> :> 1 @@ <<"Nowaka", "Nowak">> :> 1
  @@ <<"Kowalski", "Kowalska">> :> 1

(* What the theorem about inflected answers assumes of them. *)
ASSUME FormsAssumption == FormsNear

=============================================================================
