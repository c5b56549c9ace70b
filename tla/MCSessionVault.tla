--------------------------- MODULE MCSessionVault ---------------------------
(* Small sessions for TLC. *)
EXTENDS SessionVault, TLC

Entity(type, lemma, case, text) ==
  [type |-> type, lemma |-> lemma, case |-> case, text |-> text]

Person(lemma, case, text) == Entity("PERSON", lemma, case, text)
Pesel == Entity("PESEL", <<"850101">>, "nom", <<"850101">>)

JanKowalski == Person(<<"jan", "kowalski">>, "nom", <<"Jan", "Kowalski">>)
JanaKowalskiego == Person(<<"jan", "kowalski">>, "gen", <<"Jana", "Kowalskiego">>)
Kowalski == Person(<<"kowalski">>, "nom", <<"Kowalski">>)
AdamKowalski == Person(<<"adam", "kowalski">>, "nom", <<"Adam", "Kowalski">>)
EwaLis == Person(<<"ewa", "lis">>, "nom", <<"Ewa", "Lis">>)

(* One person in two cases, and an unrelated one. *)
TwoPeople == "c1" :> JanKowalski @@ "c2" :> JanaKowalskiego @@ "c3" :> EwaLis

(* One person twice, and an identifier. *)
PersonAndPesel == "c1" :> JanKowalski @@ "c2" :> JanaKowalskiego @@ "c3" :> Pesel

(* A full name, its surname alone, and another bearer of the surname. *)
ThreeMentions == "c1" :> JanKowalski @@ "c2" :> Kowalski @@ "c3" :> AdamKowalski

PoolOf == [PERSON |-> {<<"Marek", "Nowak">>, <<"Anna", "Zych">>},
           PESEL |-> {<<"900202">>}]
ForcedOf == [PERSON |-> {<<"Marek", "Nowak2">>}, PESEL |-> {<<"900201">>}]

WordsOf == {"jan", "kowalski", "adam", "ewa", "lis", "850101", "Jan", "Kowalski",
            "Jana", "Kowalskiego", "Adam", "Ewa", "Lis",
            "Marek", "Nowak", "Anna", "Zych", "900202", "900201", "Nowak2"}

=============================================================================
