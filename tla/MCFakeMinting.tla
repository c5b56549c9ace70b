--------------------------- MODULE MCFakeMinting ---------------------------
(* Small pools for TLC, and sessions of two or three originals of one type *)
(* or of types whose fakes may be alike; an apostrophe stands for the       *)
(* diacritics of a name.                                                    *)
EXTENDS FakeMinting, TLC

Original(type, text) == [type |-> type, text |-> text]

Digits8 == {<<0, 0, 0, 0, 0, 0, 0, 1>>, <<1, 2, 3, 4, 5, 6, 7, 8>>, <<0, 0, 0, 0, 0, 0, 4, 2>>}
Digits9 ==
  {<<0, 0, 0, 0, 0, 0, 0, 0, 3>>, <<1, 2, 3, 4, 5, 6, 7, 8, 1>>, <<0, 0, 0, 0, 0, 0, 0, 1, 2>>}
Digits13 == {<<1, 0, 0, 0, 0, 0, 0, 0, 0, 0, 0, 0, 1>>, <<1, 2, 3, 4, 5, 6, 7, 8, 5, 1, 2, 3, 4>>}
Digits24 == {[i \in 1..24 |-> 0], [i \in 1..24 |-> i % 10], [i \in 1..24 |-> 9 - (i % 7)]}

RollsOf == 8 :> Digits8 @@ 9 :> Digits9 @@ 13 :> Digits13 @@ 24 :> Digits24

Born(day, month, year) == [year |-> year, month |-> month, day |-> day]
Births == {Born(1, 1, 1940), Born(28, 12, 1999), Born(28, 2, 2000), Born(9, 10, 2010)}

(* Kuba is declined like a woman's name; the father's and the daughter's   *)
(* names have forms in common.                                             *)
Names ==
  [male |-> [first |-> {"Kuba"}, last |-> {"Nowak", "Zaba"}],
   female |-> [first |-> {"Kuba", "Anna"}, last |-> {"Zaba"}],
   city |-> {"Krakow'", "Opole", "Opola"}]

Forms(nom, gen, acc) == [nom |-> nom, gen |-> gen, acc |-> acc]

Table ==
  "Kuba" :> Forms("Kuba", "Kuby", "Kube'") @@ "Nowak" :> Forms("Nowak", "Nowaka", "Nowaka")
  @@ "Zaba" :> Forms("Zaba", "Zaby", "Zabe'") @@ "Anna" :> Forms("Anna", "Anny", "Anne'")
  @@ "Krakow'" :> Forms("Krakow'", "Krakowa", "Krakow'")
  @@ "Opole" :> Forms("Opole", "Opole", "Opole")
  @@ "Opola" :> Forms("Opola", "Opoly", "Opole")

Words == "PHONE_NUMBER" :> {<<"+48 512 345 678">>, <<"+48 600 000 001">>}

Pesel(c) == Original("PESEL", <<8, 0, 0, 1, 0, 1, 1, 2, 3, 4, c>>)
PeselOfMan == Original("PESEL", <<8, 0, 0, 1, 0, 1, 1, 2, 3, 5, 1>>)
Nip(c) == Original("NIP", <<1, 2, 3, 4, 5, 6, 7, 8, 9, c>>)
Regon9 == Original("REGON", <<1, 2, 3, 4, 5, 6, 7, 8, 5>>)
Regon14 == Original("REGON", <<1, 2, 3, 4, 5, 6, 7, 8, 5, 1, 2, 3, 4, 7>>)
Account(c) == Original("POLISH_BANK_ACCOUNT", [i \in 1..26 |-> IF i = 1 THEN c ELSE 1])
Person(first, last) == Original("PERSON", <<first, last>>)
City(name) == Original("LOCATION", <<name>>)
Phone(number) == Original("PHONE_NUMBER", <<number>>)
NumericDate == Original("DATE_TIME", Date(31, 1, 2024))
MonthOnly == Original("DATE_TIME", <<"maja">>)
WordedDate == Original("DATE_TIME", <<12, "stycznia", 2024>>)

Turns ==
  {{Pesel(4), PeselOfMan}, {Nip(1), Nip(2), Nip(3)}, {Regon9, Regon14},
   {Account(1), Account(2)}, {NumericDate, WordedDate, MonthOnly},
   {Person("Jan", "Lis"), Person("Ewa", "Lis"), Person("Ola", "Lis")},
   {City("Lodz'"), City("Elk")}, {Phone("501 000 000"), Phone("502 000 000")}}

(* A date written with dots, early in its month. *)
EarlyDates == {{Original("DATE_TIME", Date(12, 1, 2024))}, {NumericDate, WordedDate}}

ShiftYears == {-10, 0, 10}
SerialNumbers == {<<0, 0, 0>>, <<9, 9, 9>>}

=============================================================================
