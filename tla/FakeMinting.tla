---------------------------- MODULE FakeMinting ----------------------------
(***************************************************************************)
(* The fakes of one session: MappingStore._mint_new has the factory mint a *)
(* fake for every new original, and stores its forms.  The factory draws   *)
(* from the builder of the type until no form of the fake is in use, and   *)
(* forces one in the end.                                                  *)
(*                                                                         *)
(* A surface is a sequence: the digits of an identifier; the day, month    *)
(* and year of a date with dots; the words of a name; otherwise one word.  *)
(***************************************************************************)
EXTENDS Identifiers, FiniteSets

CONSTANTS
  Sessions,     \* the sets of originals a session may have, with type and text
  Cases,        \* the grammatical cases
  NamesOf,      \* the first names and surnames of each gender, and the cities
  Declined,     \* the forms of each of them by case
  PlainOf,      \* the addresses, e-mails and phone numbers that may be drawn
  DigitsOf,     \* the sequences of n digits that may be drawn
  BirthDates,   \* dates of birth that may be drawn for a PESEL
  Serials,      \* its serial numbers
  Years, Shifts, Months, Days,  \* for a date
  MaxAttempts,  \* MAX_GENERATION_ATTEMPTS
  MaxSuffix,    \* bound: the number that makes a fake unique
  None          \* no entity, no fake, no forms

ASSUME RollsAssumption ==
  /\ \A n \in {8, 9, 13, 24} : DigitsOf[n] \subseteq [1..n -> Digit]
  /\ Serials \subseteq [1..3 -> Digit]
  /\ \A born \in BirthDates :
       /\ born \in [year : 1800..2299, month : 1..12, day : 1..31]
       /\ born.day <= LastDay(born.year, born.month)

ASSUME BoundsAssumption == MaxAttempts \in Nat \ {0} /\ MaxSuffix \in 1..99

VARIABLES
  todo,      \* the originals of the session that have no fake yet
  entity,    \* the one a fake is minted for
  fake,      \* the last draw
  draws,     \* how many there were
  used,      \* used_fake_forms: the surfaces in the reverse fields
  mappings   \* the originals with their fakes

vars == <<todo, entity, fake, draws, used, mappings>>

-----------------------------------------------------------------------------
(* The builders. *)

Plain(type, base) == [type |-> type, base |-> base, forms |-> None]

FormsOf(name) ==
  [case \in Cases |-> [i \in DOMAIN name |-> Declined[name[i]][case]]]

Inflecting(type, name) == [type |-> type, base |-> name, forms |-> FormsOf(name)]

BuildPerson ==
  UNION {{Inflecting("PERSON", <<first, last>>) :
            first \in NamesOf[gender].first, last \in NamesOf[gender].last} :
         gender \in {"male", "female"}}

BuildLocation == {Inflecting("LOCATION", <<city>>) : city \in NamesOf.city}

BuildPesel(e) ==
  {Plain("PESEL",
     MakePesel(born.year, born.month, born.day, MetaOf("PESEL", e.text), serial, g)) :
   born \in BirthDates, serial \in Serials, g \in Digit}

(* Mutant: the control digit is taken as it comes. *)
BuildNipOnce == {Plain("NIP", Append(d, NipControl(d))) : d \in DigitsOf[9]}

BuildNip ==
  {Plain("NIP", Append(d, NipControl(d))) : d \in {d \in DigitsOf[9] : NipControl(d) # 10}}

BuildRegon(e) ==
  IF MetaOf("REGON", e.text) = "14"
  THEN {Plain("REGON", Append(d, RegonControl(d, Regon14Weights))) : d \in DigitsOf[13]}
  ELSE {Plain("REGON", Append(d, RegonControl(d, Regon9Weights))) : d \in DigitsOf[8]}

BuildBankAccount ==
  {Plain("POLISH_BANK_ACCOUNT", NrbCheckDigits(bban) \o bban) : bban \in DigitsOf[24]}

Date(day, month, year) == <<day, ".", month, ".", year>>

(* _YEAR and _DMY: a worded date has no number for its month, and another  *)
(* text no year.                                                           *)
YearOf(text) == IF Len(text) >= 3 THEN {text[Len(text)]} ELSE Years
IsNumeric(text) == Len(text) = 5

Clamped(n, high) == IF n < 1 THEN 1 ELSE IF n > high THEN high ELSE n

BuildDate(e) ==
  {Plain("DATE_TIME", Date(day, month, year + shift)) :
     day \in IF IsNumeric(e.text) THEN {Clamped(e.text[1], 28)} ELSE Days,
     month \in IF IsNumeric(e.text) THEN {Clamped(e.text[3], 12)} ELSE Months,
     year \in YearOf(e.text), shift \in Shifts}

Drawn(type) == {Plain(type, base) : base \in PlainOf[type]}

(* FakeDataGenerator.generate: any fake the builder may draw.              *)
Generated(e) ==
  CASE e.type = "PERSON" -> BuildPerson
    [] e.type = "LOCATION" -> BuildLocation
    [] e.type = "PESEL" -> BuildPesel(e)
    [] e.type = "NIP" -> BuildNip
    [] e.type = "REGON" -> BuildRegon(e)
    [] e.type = "POLISH_BANK_ACCOUNT" -> BuildBankAccount
    [] e.type = "DATE_TIME" -> BuildDate(e)
    [] OTHER -> Drawn(e.type)

(* The originals: every type has a builder, and the parts of a date that   *)
(* are written as numbers are numbers.                                     *)
Originals == UNION Sessions

ASSUME OriginalsAssumption ==
  \A e \in Originals :
    /\ e.type \in Identifier \cup {"PERSON", "LOCATION", "DATE_TIME"} \cup DOMAIN PlainOf
    /\ e.type = "DATE_TIME" =>
         /\ Len(e.text) >= 3 => e.text[Len(e.text)] \in Int
         /\ IsNumeric(e.text) => e.text[1] \in Int /\ e.text[3] \in Int

ASSUME PoolsAssumption ==
  /\ Years \subseteq Int /\ Shifts \subseteq -10..10
  /\ Months \subseteq 1..12 /\ Days \subseteq 1..28
  /\ \A type \in DOMAIN PlainOf : \A base \in PlainOf[type] : base \in Seq(Range(base))

ASSUME NoneAssumption ==
  /\ None \notin Originals
  /\ \A e \in Originals : None \notin Generated(e)

-----------------------------------------------------------------------------
(* The factory. *)

Surfaces(f) == {f.base} \cup IF f.forms = None THEN {} ELSE Range(f.forms)

(* Mutant: only the base form is looked up. *)
BaseUnused(f) == f.base \notin used

Unused(f) == Surfaces(f) \cap used = {}

Numeral(n) == IF n < 10 THEN <<n>> ELSE <<n \div 10, n % 10>>

(* The last digits of an identifier are replaced, to others one is added.  *)
Suffixed(f, n) ==
  IF f.type \in Identifier
  THEN SubSeq(f.base, 1, Len(f.base) - Len(Numeral(n))) \o Numeral(n)
  ELSE Append(f.base, n)

FirstSuffix(f) == IF f.type \in Identifier THEN 1 ELSE 2

Init ==
  /\ todo \in Sessions
  /\ entity = None /\ fake = None /\ draws = 0
  /\ used = {} /\ mappings = {}

Ask(e) ==
  /\ entity = None
  /\ e \in todo
  /\ entity' = e
  /\ todo' = todo \ {e}
  /\ fake' \in Generated(e)
  /\ draws' = 1
  /\ UNCHANGED <<used, mappings>>

(* The fake becomes the one of the original: write_mapping.                *)
Store(f, forced) ==
  /\ mappings' = mappings \cup
       {[original |-> entity, base |-> f.base, forms |-> f.forms, forced |-> forced]}
  /\ used' = used \cup Surfaces(f)
  /\ entity' = None /\ fake' = None /\ draws' = 0
  /\ UNCHANGED todo

Keep ==
  /\ entity # None
  /\ draws < MaxAttempts /\ Unused(fake)
  /\ Store(fake, FALSE)

DrawAgain ==
  /\ entity # None
  /\ draws < MaxAttempts /\ ~Unused(fake)
  /\ fake' \in Generated(entity)
  /\ draws' = draws + 1
  /\ UNCHANGED <<todo, entity, used, mappings>>

(* The last draw is not looked at: it is changed until its base is unused. *)
ForceUnique(n) ==
  /\ entity # None
  /\ draws = MaxAttempts
  /\ n >= FirstSuffix(fake) /\ Suffixed(fake, n) \notin used
  /\ \A m \in FirstSuffix(fake)..n - 1 : Suffixed(fake, m) \in used
  /\ Store(Plain(fake.type, Suffixed(fake, n)), TRUE)

Done == todo = {} /\ entity = None /\ UNCHANGED vars

Next ==
  \/ \E e \in todo : Ask(e)
  \/ Keep \/ DrawAgain
  \/ \E n \in 1..MaxSuffix : ForceUnique(n)
  \/ Done

Spec == Init /\ [][Next]_vars

-----------------------------------------------------------------------------
(* Correctness. *)

(* An identifier has as many digits as one of its type, however it came    *)
(* about, and what is not an identifier has a word.                        *)
LengthsOf(type) ==
  CASE type = "PESEL" -> {11} [] type = "NIP" -> {10} [] type = "REGON" -> {9, 14}
    [] type = "POLISH_BANK_ACCOUNT" -> {26} [] OTHER -> Nat

TypeOK ==
  /\ entity = None <=> fake = None
  /\ draws \in 0..MaxAttempts
  /\ \A m \in mappings :
       /\ Len(m.base) \in LengthsOf(m.original.type)
       /\ m.original.type \in Identifier => Range(m.base) \subseteq Digit

(* No surface of a fake is one of another fake of the session, in any      *)
(* case, so each has one original to be restored to (mint, write_mapping). *)
DistinctSurfaces ==
  \A m, n \in mappings : m # n => Surfaces(m) \cap Surfaces(n) = {}

(* A fake that was not forced is taken by the recognizer of its type for a *)
(* valid one of the same kind as the original: a PESEL of the same gender  *)
(* with a date of birth, a REGON of the same length; a date exists in      *)
(* every year, and is at most ten years away.                              *)
LooksGenuine ==
  \A m \in mappings : ~m.forced =>
    LET e == m.original
    IN  /\ e.type \in Identifier =>
             /\ ChecksumValid(e.type, m.base)
             /\ MetaOf(e.type, m.base) = MetaOf(e.type, e.text)
        /\ e.type = "PESEL" =>
             \E born \in BirthDates : PeselBirthDates(m.base) = {born}
        /\ e.type = "DATE_TIME" =>
             /\ m.base[1] \in 1..LastDay(m.base[5], m.base[3])
             /\ YearOf(e.text) # Years => m.base[5] - e.text[Len(e.text)] \in -10..10

(* "Every outgoing provider request MUST contain only synthetic data":     *)
(* what stands for an original is not the original.                        *)
NeverOriginal == \A m \in mappings : m.original.text \notin Surfaces(m)

=============================================================================
