---------------------------- MODULE Identifiers ----------------------------
(***************************************************************************)
(* The Polish identifiers: the control digits of checksums.py, the values  *)
(* the builders make with them, and what the recognizers say of a value.   *)
(* A value is the sequence of its digits, without separators.              *)
(***************************************************************************)
EXTENDS Integers, Sequences, Functions

Digit == 0..9
Identifier == {"PESEL", "NIP", "REGON", "POLISH_BANK_ACCOUNT"}

PeselWeights == <<1, 3, 7, 9, 1, 3, 7, 9, 1, 3>>
NipWeights == <<6, 5, 7, 2, 3, 4, 5, 6, 7>>
Regon9Weights == <<8, 9, 2, 3, 4, 5, 6, 7>>
Regon14Weights == <<2, 4, 8, 5, 0, 9, 7, 3, 6, 1, 2, 4, 8>>

(* The first digits of d, each times its weight.                           *)
Weighted(d, weights) == SumFunction([i \in DOMAIN weights |-> d[i] * weights[i]])

-----------------------------------------------------------------------------
(* Control digits. *)

PeselControl(d) == (10 - (Weighted(d, PeselWeights) % 10)) % 10

(* It may be 10, which no digit is. *)
NipControl(d) == Weighted(d, NipWeights) % 11

RegonControl(d, weights) ==
  LET control == Weighted(d, weights) % 11
  IN  IF control = 10 THEN 0 ELSE control

PeselIsValid(d) == Len(d) = 11 /\ PeselControl(d) = d[11]
NipIsValid(d) == Len(d) = 10 /\ NipControl(d) # 10 /\ NipControl(d) = d[10]
Regon9IsValid(d) == Len(d) = 9 /\ RegonControl(d, Regon9Weights) = d[9]
Regon14IsValid(d) == Len(d) = 14 /\ RegonControl(d, Regon14Weights) = d[14]

(* The number of the digits d, at most 30, modulo 97. *)
Power97[n \in 0..29] == IF n = 0 THEN 1 ELSE (10 * Power97[n - 1]) % 97
Mod97(d) == SumFunction([i \in DOMAIN d |-> d[i] * Power97[Len(d) - i]]) % 97

(* P is 25 and L is 21; the check digits go last. *)
NrbIsValid(d) ==
  Len(d) = 26 /\ Mod97(SubSeq(d, 3, 26) \o <<2, 5, 2, 1>> \o SubSeq(d, 1, 2)) = 1

NrbCheckDigits(bban) ==
  LET check == (1 - Mod97(bban \o <<2, 5, 2, 1, 0, 0>>)) % 97
  IN  <<check \div 10, check % 10>>

-----------------------------------------------------------------------------
(* What a PESEL encodes. *)

TwoDigits(n) == <<(n % 100) \div 10, n % 10>>

PeselGender(d) == IF d[10] % 2 = 0 THEN "female" ELSE "male"

(* The century is in the month. *)
MonthOffset(century) ==
  CASE century = 1800 -> 80
    [] century = 2000 -> 20
    [] century = 2100 -> 40
    [] century = 2200 -> 60
    [] OTHER -> 0

Centuries == {1800, 1900, 2000, 2100, 2200}

LastDay(year, month) ==
  CASE month \in {4, 6, 9, 11} -> 30
    [] month = 2 -> IF year % 4 = 0 /\ (year % 100 # 0 \/ year % 400 = 0) THEN 29 ELSE 28
    [] OTHER -> 31

(* The dates of birth a PESEL may stand for: one, or none.                 *)
PeselBirthDates(d) ==
  LET Date(century) == [year |-> century + 10 * d[1] + d[2],
                        month |-> 10 * d[3] + d[4] - MonthOffset(century),
                        day |-> 10 * d[5] + d[6]]
      Dates == {Date(century) : century \in Centuries}
  IN  {date \in Dates :
         date.month \in 1..12 /\ date.day \in 1..LastDay(date.year, date.month)}

(* Mutant: the digit of a woman is left odd. *)
GenderDigitMale(gender, g) == IF g % 2 = 0 THEN (g + 1) % 10 ELSE g

(* The tenth digit: even for a woman, odd for a man. *)
GenderDigit(gender, g) ==
  IF gender = "female"
  THEN IF g % 2 = 1 THEN (g - 1) % 10 ELSE g
  ELSE IF g % 2 = 0 THEN (g + 1) % 10 ELSE g

MakePesel(year, month, day, gender, serial, g) ==
  LET d10 == TwoDigits(year) \o TwoDigits(month + MonthOffset(year - (year % 100)))
               \o TwoDigits(day) \o serial \o <<GenderDigit(gender, g)>>
  IN  Append(d10, PeselControl(d10))

-----------------------------------------------------------------------------
(* The recognizers: a value of the right length is reported, with the      *)
(* score of a valid or of an invalid checksum.                             *)

ChecksumValid(type, d) ==
  CASE type = "PESEL" -> PeselIsValid(d)
    [] type = "NIP" -> NipIsValid(d)
    [] type = "REGON" -> IF Len(d) = 14 THEN Regon14IsValid(d) ELSE Regon9IsValid(d)
    [] type = "POLISH_BANK_ACCOUNT" -> NrbIsValid(d)

(* The metadata the builders look at. *)
MetaOf(type, d) ==
  CASE type = "PESEL" -> PeselGender(d)
    [] type = "REGON" -> IF Len(d) = 14 THEN "14" ELSE "9"
    [] OTHER -> "none"

=============================================================================
