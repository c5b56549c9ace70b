------------------------- MODULE FakeMintingProofs -------------------------
(***************************************************************************)
(* For any pools and any originals: the fakes of a session share no        *)
(* surface, the builders give what the recognizers accept - PESEL, NIP and *)
(* REGON numbers, bank accounts and dates - and so whatever was not forced *)
(* looks genuine.                                                          *)
(***************************************************************************)
EXTENDS FakeMinting, Sums, SequenceTheorems

(* The surfaces in use are exactly those of the fakes stored.              *)
UsedInv == used = UNION {Surfaces(m) : m \in mappings}

LEMMA StoreKeepsDistinct ==
  ASSUME NEW f, NEW forced \in BOOLEAN, UsedInv, DistinctSurfaces,
         Surfaces(f) \cap used = {}, Store(f, forced)
  PROVE  UsedInv' /\ DistinctSurfaces'
<1> DEFINE new == [original |-> entity, base |-> f.base, forms |-> f.forms, forced |-> forced]
<1>1. mappings' = mappings \cup {new} /\ used' = used \cup Surfaces(f)
  BY DEF Store
<1>2. Surfaces(new) = Surfaces(f)
  BY DEF Surfaces
<1> HIDE DEF new
<1>3. UsedInv'
  BY <1>1, <1>2 DEF UsedInv
<1>4. \A m \in mappings : Surfaces(m) \cap Surfaces(new) = {}
  BY <1>2 DEF UsedInv
<1>5. DistinctSurfaces'
  BY <1>1, <1>4 DEF DistinctSurfaces
<1>6. QED
  BY <1>3, <1>5

(* No surface of a fake is one of another fake of the session.             *)
THEOREM DistinctInSession == Spec => []DistinctSurfaces
<1>1. Init => UsedInv /\ DistinctSurfaces
  BY DEF Init, UsedInv, DistinctSurfaces
<1>2. UsedInv /\ DistinctSurfaces /\ [Next]_vars => UsedInv' /\ DistinctSurfaces'
  <2> SUFFICES ASSUME UsedInv, DistinctSurfaces, [Next]_vars
               PROVE  UsedInv' /\ DistinctSurfaces'
    OBVIOUS
  <2>1. ASSUME NEW e \in todo, Ask(e) PROVE UsedInv' /\ DistinctSurfaces'
    BY <2>1 DEF Ask, UsedInv, DistinctSurfaces
  <2>2. CASE Keep
    BY <2>2, StoreKeepsDistinct DEF Keep, Unused
  <2>3. CASE DrawAgain
    BY <2>3 DEF DrawAgain, UsedInv, DistinctSurfaces
  <2>4. ASSUME NEW n \in 1..MaxSuffix, ForceUnique(n) PROVE UsedInv' /\ DistinctSurfaces'
    <3> DEFINE base == Suffixed(fake, n)
               f == Plain(fake.type, base)
    <3>1. Surfaces(f) = {base}
      BY DEF Surfaces, Plain
    <3>2. base \notin used /\ Store(f, TRUE)
      BY <2>4 DEF ForceUnique
    <3> HIDE DEF base, f
    <3>3. QED
      BY <3>1, <3>2, StoreKeepsDistinct
  <2>5. CASE Done
    BY <2>5 DEF Done, vars, UsedInv, DistinctSurfaces
  <2>6. CASE UNCHANGED vars
    BY <2>6 DEF vars, UsedInv, DistinctSurfaces
  <2>7. QED
    BY <2>1, <2>2, <2>3, <2>4, <2>5, <2>6 DEF Next
<1>3. QED
  BY <1>1, <1>2, PTL DEF Spec

-----------------------------------------------------------------------------
(* Sequences of digits. *)

LEMMA TwoDigitsOK ==
  ASSUME NEW n \in 0..99
  PROVE  \E a \in Digit, b \in Digit : TwoDigits(n) = <<a, b>> /\ n = 10 * a + b
<1>1. (n % 100) \div 10 \in Digit /\ n % 10 \in Digit
  BY DEF Digit
<1>2. n = 10 * ((n % 100) \div 10) + (n % 10)
  OBVIOUS
<1>3. QED
  BY <1>1, <1>2 DEF TwoDigits

LEMMA TwoDigitsOfYear ==
  ASSUME NEW n \in Nat
  PROVE  TwoDigits(n) = TwoDigits(n % 100)
<1>1. n % 100 = (n % 100) % 100 /\ n % 10 = (n % 100) % 10
  OBVIOUS
<1>2. QED
  BY <1>1 DEF TwoDigits

LEMMA JoinedFirst ==
  ASSUME NEW V, NEW c \in Seq(V), NEW d \in Seq(V), NEW i \in 1..Len(c)
  PROVE  (c \o d)[i] = c[i]
OBVIOUS

LEMMA Extended ==
  ASSUME NEW V, NEW d \in Seq(V), NEW control
  PROVE  /\ Len(Append(d, control)) = Len(d) + 1
         /\ Append(d, control)[Len(d) + 1] = control
OBVIOUS

LEMMA DrawnDigits ==
  ASSUME NEW n \in Nat, NEW d \in [1..n -> Digit]
  PROVE  d \in Seq(Int) /\ d \in Seq(Digit) /\ Len(d) = n
<1>1. d \in Seq(Int) /\ Len(d) = n
  BY DEF Digit
<1>2. \A i \in 1..Len(d) : d[i] \in Digit
  BY <1>1
<1>3. QED
  BY <1>1, <1>2

LEMMA SixDigits ==
  ASSUME NEW y1 \in Digit, NEW y2 \in Digit, NEW m1 \in Digit, NEW m2 \in Digit,
         NEW d1 \in Digit, NEW d2 \in Digit,
         NEW six, six = <<y1, y2>> \o <<m1, m2>> \o <<d1, d2>>
  PROVE  /\ six \in Seq(Digit) /\ Len(six) = 6
         /\ six[1] = y1 /\ six[2] = y2 /\ six[3] = m1 /\ six[4] = m2
         /\ six[5] = d1 /\ six[6] = d2
<1>1. <<y1, y2>> \in Seq(Digit) /\ <<m1, m2>> \in Seq(Digit) /\ <<d1, d2>> \in Seq(Digit)
  OBVIOUS
<1>2. six \in Seq(Digit)
  BY <1>1, ConcatProperties
<1>3. QED
  BY <1>2

(* The serial number and the gender digit leave the date of birth alone.   *)
LEMMA TenDigits ==
  ASSUME NEW six \in Seq(Digit), Len(six) = 6,
         NEW serial \in Seq(Digit), Len(serial) = 3, NEW g \in Digit
  PROVE  LET ten == six \o serial \o <<g>>
         IN  /\ ten \in Seq(Digit) /\ Len(ten) = 10
             /\ \A i \in 1..6 : ten[i] = six[i]
             /\ ten[10] = g
<1> DEFINE nine == six \o serial
           last == <<g>>
<1>1. serial \in Seq(Digit) /\ Len(serial) = 3
  OBVIOUS
<1>2. nine \in Seq(Digit) /\ Len(nine) = 9 /\ \A i \in 1..6 : nine[i] = six[i]
  <2>1. nine \in Seq(Digit) /\ Len(nine) = Len(six) + Len(serial)
    BY <1>1, ConcatProperties
  <2>2. \A i \in 1..Len(six) : nine[i] = six[i]
    BY <1>1, JoinedFirst
  <2>3. QED
    BY <1>1, <2>1, <2>2
<1>3. last \in Seq(Digit) /\ Len(last) = 1 /\ last[1] = g
  OBVIOUS
<1> HIDE DEF nine, last
<1> DEFINE ten == nine \o last
<1>4. /\ ten \in Seq(Digit) /\ Len(ten) = Len(nine) + Len(last)
      /\ \A i \in 1..Len(nine) : ten[i] = nine[i]
      /\ ten[Len(nine) + 1] = last[1]
  <2>1. ten \in Seq(Digit) /\ Len(ten) = Len(nine) + Len(last)
    BY <1>2, <1>3, ConcatProperties
  <2>2. \A i \in 1..Len(nine) : ten[i] = nine[i]
    BY <1>2, <1>3, JoinedFirst
  <2>3. ten[Len(nine) + 1] = last[1]
    <3>1. ten = Append(nine, g)
      BY <1>2 DEF last
    <3>2. Append(nine, g)[Len(nine) + 1] = g
      BY <1>2, Extended
    <3>3. QED
      BY <1>3, <3>1, <3>2
  <2>4. QED
    BY <2>1, <2>2, <2>3
<1> HIDE DEF ten
<1>5. ten[9 + 1] = g
  BY <1>2, <1>3, <1>4
<1>6. /\ ten \in Seq(Digit) /\ Len(ten) = 10
      /\ \A i \in 1..6 : ten[i] = six[i]
      /\ ten[10] = g
  BY <1>2, <1>3, <1>4, <1>5
<1>7. QED
  BY <1>6 DEF ten, nine, last

LEMMA CenturyOf ==
  ASSUME NEW year \in 1800..2299
  PROVE  /\ year % 100 \in 0..99
         /\ year - (year % 100) \in Centuries
BY DEF Centuries

LEMMA OneCentury ==
  ASSUME NEW c \in Centuries, NEW k \in Centuries, NEW month \in 1..12,
         month + MonthOffset(c) - MonthOffset(k) \in 1..12
  PROVE  c = k
BY DEF Centuries, MonthOffset

(* The six digits of a date of birth stand for that date only.             *)
LEMMA BirthDateRead ==
  ASSUME NEW born \in BirthDates, NEW d, \A i \in 1..6 : d[i] \in Digit,
         10 * d[1] + d[2] = born.year % 100,
         10 * d[3] + d[4] = born.month + MonthOffset(born.year - (born.year % 100)),
         10 * d[5] + d[6] = born.day
  PROVE  PeselBirthDates(d) = {born}
<1> DEFINE Date0(c) == [year |-> c + 10 * d[1] + d[2],
                       month |-> 10 * d[3] + d[4] - MonthOffset(c),
                       day |-> 10 * d[5] + d[6]]
           century == born.year - (born.year % 100)
<1>1. /\ born \in [year : 1800..2299, month : 1..12, day : 1..31]
      /\ born.day <= LastDay(born.year, born.month)
  BY RollsAssumption
<1>2. born.year \in 1800..2299 /\ born.month \in 1..12 /\ born.day \in 1..31
  BY <1>1
<1>3. century \in Centuries /\ born.year % 100 \in 0..99
  BY <1>2, CenturyOf
<1>4. \A c \in Centuries : c \in Int /\ MonthOffset(c) \in Int
  BY DEF Centuries, MonthOffset
<1>5. \A i \in 1..6 : d[i] \in Int
  BY DEF Digit
<1>6. \A c \in Centuries : Date0(c).month = born.month + MonthOffset(century) - MonthOffset(c)
  <2> TAKE c \in Centuries
  <2>1. 10 * d[3] + d[4] = born.month + MonthOffset(century)
    OBVIOUS
  <2>2. MonthOffset(c) \in Int /\ MonthOffset(century) \in Int
    BY <1>3, <1>4
  <2> HIDE DEF century
  <2>3. 10 * d[3] + d[4] - MonthOffset(c) = born.month + MonthOffset(century) - MonthOffset(c)
    BY <1>2, <1>5, <2>1, <2>2
  <2>4. QED
    BY <2>3
<1>7. Date0(century).year = born.year
  <2>1. d[1] \in Int /\ d[2] \in Int
    BY <1>5
  <2>2. century \in Int /\ born.year = century + (born.year % 100)
    BY <1>2, <1>3
  <2> HIDE DEF century
  <2>3. century + 10 * d[1] + d[2] = century + (10 * d[1] + d[2])
    BY <2>1, <2>2
  <2>4. QED
    BY <2>2, <2>3
<1> HIDE DEF century
<1>8. Date0(century).month = born.month
  <2>1. MonthOffset(century) \in Int
    BY <1>3, <1>4
  <2>2. born.month + MonthOffset(century) - MonthOffset(century) = born.month
    BY <1>2, <2>1
  <2>3. QED
    BY <1>3, <1>6, <2>2
<1>9. Date0(century) = born
  BY <1>1, <1>7, <1>8
<1> HIDE DEF Date0
<1>10. ASSUME NEW c \in Centuries, Date0(c).month \in 1..12 PROVE c = century
  BY <1>2, <1>3, <1>6, <1>10, OneCentury
<1>11. born.day \in 1..LastDay(born.year, born.month)
  <2> DEFINE last == LastDay(born.year, born.month)
  <2>1. last \in {28, 29, 30, 31}
    BY DEF LastDay
  <2> HIDE DEF last
  <2>2. born.day <= last
    BY <1>1 DEF last
  <2>3. born.day \in 1..last
    BY <1>2, <2>1, <2>2
  <2>4. QED
    BY <2>3 DEF last
<1>12. PeselBirthDates(d) =
        {date \in {Date0(c) : c \in Centuries} :
           date.month \in 1..12 /\ date.day \in 1..LastDay(date.year, date.month)}
  BY DEF PeselBirthDates, Date0
<1>13. QED
  BY <1>2, <1>3, <1>9, <1>10, <1>11, <1>12

LEMMA WeightedInt ==
  ASSUME NEW n \in Nat, NEW d \in Seq(Int), n <= Len(d), NEW weights \in [1..n -> Int]
  PROVE  Weighted(d, weights) \in Int
<1>1. [i \in 1..n |-> d[i] * weights[i]] \in [1..n -> Int]
  <2>1. \A i \in 1..n : d[i] \in Int /\ weights[i] \in Int
    OBVIOUS
  <2>2. QED
    BY <2>1
<1>2. IsFiniteSet(1..n)
  BY FS_Interval
<1>3. QED
  BY <1>1, <1>2, SumInt DEF Weighted

Gender == {"male", "female"}

LEMMA GenderDigitTells ==
  ASSUME NEW gender \in Gender, NEW g \in Digit
  PROVE  /\ GenderDigit(gender, g) \in Digit
         /\ GenderDigit(gender, g) % 2 = 0 <=> gender = "female"
<1>1. g % 2 \in {0, 1} /\ g \in 0..9
  BY DEF Digit
<1>2. CASE gender = "female"
  BY <1>1, <1>2 DEF GenderDigit, Digit, Gender
<1>3. CASE gender = "male"
  BY <1>1, <1>3 DEF GenderDigit, Digit
<1>4. QED
  BY <1>2, <1>3 DEF Gender

LEMMA DigitsAreInts == Digit \subseteq Int /\ \A d \in Seq(Digit) : d \in Seq(Int)
<1>1. Digit \subseteq Int
  BY DEF Digit
<1>2. ASSUME NEW d \in Seq(Digit) PROVE d \in Seq(Int)
  <2>1. Len(d) \in Nat /\ DOMAIN d = 1..Len(d) /\ d \in [1..Len(d) -> Digit]
    OBVIOUS
  <2>2. d \in [1..Len(d) -> Int]
    BY <1>1, <2>1
  <2>3. QED
    BY <2>1, <2>2
<1>3. QED
  BY <1>1, <1>2

LEMMA WeightedPrefix ==
  ASSUME NEW d \in Seq(Int), NEW control, NEW weights,
         DOMAIN weights = 1..Len(d)
  PROVE  Weighted(Append(d, control), weights) = Weighted(d, weights)
<1>1. \A i \in DOMAIN weights : Append(d, control)[i] = d[i]
  OBVIOUS
<1>2. [i \in DOMAIN weights |-> Append(d, control)[i] * weights[i]]
        = [i \in DOMAIN weights |-> d[i] * weights[i]]
  BY <1>1
<1>3. QED
  BY <1>2 DEF Weighted

LEMMA Kept ==
  ASSUME NEW V, NEW d \in Seq(V), NEW control, NEW i \in 1..Len(d)
  PROVE  Append(d, control)[i] = d[i]
OBVIOUS

(* A control digit put after the digits it is made from. *)
LEMMA Controlled ==
  ASSUME NEW d \in Seq(Digit), NEW control \in Digit
  PROVE  /\ Append(d, control) \in Seq(Digit)
         /\ Len(Append(d, control)) = Len(d) + 1
         /\ Append(d, control)[Len(d) + 1] = control
<1>1. Append(d, control) \in Seq(Digit)
  OBVIOUS
<1>2. QED
  BY <1>1, Extended

(* A PESEL of a gender and a date of birth. *)
PeselOf(d, gender, born) ==
  /\ d \in Seq(Digit)
  /\ PeselIsValid(d)
  /\ PeselGender(d) = gender
  /\ PeselBirthDates(d) = {born}

(* make_pesel gives a valid PESEL, from which the gender and the date of   *)
(* birth it was made for are read back, and no other.                      *)
THEOREM PeselMade ==
  ASSUME NEW born \in BirthDates, NEW gender \in Gender,
         NEW serial \in Serials, NEW g \in Digit
  PROVE  PeselOf(MakePesel(born.year, born.month, born.day, gender, serial, g), gender, born)
<1> DEFINE d == MakePesel(born.year, born.month, born.day, gender, serial, g)
           month == born.month + MonthOffset(born.year - (born.year % 100))
           digit == GenderDigit(gender, g)
<1>1. /\ born.year \in Nat /\ born.year % 100 \in 0..99
      /\ month \in 0..99 /\ born.day \in 0..99
  <2>1. born.year \in 1800..2299 /\ born.month \in 1..12 /\ born.day \in 1..31
    BY RollsAssumption
  <2>2. \A c : MonthOffset(c) \in {0, 20, 40, 60, 80}
    BY DEF MonthOffset
  <2>3. QED
    BY <2>1, <2>2
<1>2. digit \in Digit /\ (digit % 2 = 0 <=> gender = "female")
  BY GenderDigitTells
<1> HIDE DEF digit
<1>3. PICK y1 \in Digit, y2 \in Digit :
        TwoDigits(born.year) = <<y1, y2>> /\ born.year % 100 = 10 * y1 + y2
  <2>1. TwoDigits(born.year) = TwoDigits(born.year % 100)
    BY <1>1, TwoDigitsOfYear
  <2> DEFINE yy == born.year % 100
  <2>2. yy \in 0..99
    BY <1>1
  <2> HIDE DEF yy
  <2>3. \E a \in Digit, b \in Digit : TwoDigits(yy) = <<a, b>> /\ yy = 10 * a + b
    BY <2>2, TwoDigitsOK
  <2>4. QED
    BY <2>1, <2>3 DEF yy
<1>4. PICK m1 \in Digit, m2 \in Digit : TwoDigits(month) = <<m1, m2>> /\ month = 10 * m1 + m2
  BY <1>1, TwoDigitsOK
<1>5. PICK d1 \in Digit, d2 \in Digit :
        TwoDigits(born.day) = <<d1, d2>> /\ born.day = 10 * d1 + d2
  BY <1>1, TwoDigitsOK
<1> DEFINE six == <<y1, y2>> \o <<m1, m2>> \o <<d1, d2>>
           ten == six \o serial \o <<digit>>
<1>6. d = Append(ten, PeselControl(ten))
  BY <1>3, <1>4, <1>5 DEF MakePesel, digit
<1> HIDE DEF d
<1>7. /\ six \in Seq(Digit) /\ Len(six) = 6
      /\ six[1] = y1 /\ six[2] = y2 /\ six[3] = m1 /\ six[4] = m2
      /\ six[5] = d1 /\ six[6] = d2
  BY SixDigits
<1> HIDE DEF six, month
<1>8. serial \in Seq(Digit) /\ Len(serial) = 3
  <2>1. serial \in [1..3 -> Digit]
    BY RollsAssumption
  <2>2. QED
    BY <2>1, DrawnDigits
<1>9. /\ ten \in Seq(Digit) /\ Len(ten) = 10
      /\ \A i \in 1..6 : ten[i] = six[i]
      /\ ten[10] = digit
  BY <1>2, <1>7, <1>8, TenDigits
<1> HIDE DEF ten
<1> DEFINE control == PeselControl(ten)
<1>10. ten \in Seq(Int)
  BY <1>9, DigitsAreInts
<1>11. control \in Digit
  <2>1. PeselWeights \in [1..10 -> Int]
    BY DEF PeselWeights
  <2>2. 10 \in Nat /\ 10 <= Len(ten)
    BY <1>9
  <2>3. Weighted(ten, PeselWeights) \in Int
    BY <1>10, <2>1, <2>2, WeightedInt
  <2>4. QED
    BY <2>3 DEF PeselControl, Digit
<1>12. PeselControl(d) = control
  <2>1. DOMAIN PeselWeights = 1..Len(ten)
    BY <1>9 DEF PeselWeights
  <2>2. QED
    BY <1>6, <1>10, <2>1, WeightedPrefix DEF PeselControl
<1> HIDE DEF control
<1>13. /\ d \in Seq(Digit) /\ Len(d) = Len(ten) + 1 /\ d[Len(ten) + 1] = control
       /\ \A i \in 1..Len(ten) : d[i] = ten[i]
  <2>1. d = Append(ten, control)
    BY <1>6 DEF control
  <2>2. /\ Append(ten, control) \in Seq(Digit)
        /\ Len(Append(ten, control)) = Len(ten) + 1
        /\ Append(ten, control)[Len(ten) + 1] = control
    BY <1>9, <1>11, Controlled
  <2>3. \A i \in 1..Len(ten) : d[i] = ten[i]
    BY <1>9, <2>1, Kept
  <2>4. QED
    BY <2>1, <2>2, <2>3
<1>14. /\ Len(d) = 11 /\ d[11] = control /\ d[10] = digit
       /\ \A i \in 1..6 : d[i] = six[i]
  BY <1>9, <1>13
<1>15. PeselIsValid(d)
  BY <1>12, <1>14 DEF PeselIsValid
<1>16. PeselGender(d) = gender
  BY <1>2, <1>14 DEF PeselGender, Gender
<1>17. PeselBirthDates(d) = {born}
  <2>1. \A i \in 1..6 : d[i] \in Digit
    BY <1>7, <1>14
  <2>2. /\ d[1] = y1 /\ d[2] = y2 /\ d[3] = m1 /\ d[4] = m2 /\ d[5] = d1 /\ d[6] = d2
    BY <1>7, <1>14
  <2>3. QED
    BY <1>3, <1>4, <1>5, <2>1, <2>2, BirthDateRead DEF month
<1>18. QED
  BY <1>13, <1>15, <1>16, <1>17 DEF PeselOf, d

(* NIP and REGON. *)

LEMMA NipMade ==
  ASSUME NEW d \in [1..9 -> Digit], NipControl(d) # 10
  PROVE  /\ Append(d, NipControl(d)) \in Seq(Digit)
         /\ NipIsValid(Append(d, NipControl(d)))
<1> DEFINE control == NipControl(d)
           nip == Append(d, control)
<1>1. d \in Seq(Int) /\ d \in Seq(Digit) /\ Len(d) = 9
  BY DrawnDigits
<1>2. NipControl(nip) = control
  <2>1. DOMAIN NipWeights = 1..Len(d)
    BY <1>1 DEF NipWeights
  <2>2. QED
    BY <1>1, <2>1, WeightedPrefix DEF NipControl
<1>3. control \in Digit
  <2>1. NipWeights \in [1..9 -> Int]
    BY DEF NipWeights
  <2>2. 9 \in Nat /\ 9 <= Len(d)
    BY <1>1
  <2>3. Weighted(d, NipWeights) \in Int
    BY <1>1, <2>1, <2>2, WeightedInt
  <2>4. QED
    BY <2>3 DEF NipControl, Digit
<1>4. control # 10
  OBVIOUS
<1> HIDE DEF control
<1>5. nip \in Seq(Digit) /\ Len(nip) = Len(d) + 1 /\ nip[Len(d) + 1] = control
  BY <1>1, <1>3, Controlled
<1>6. Len(nip) = 10 /\ nip[10] = control
  BY <1>1, <1>5
<1>7. nip \in Seq(Digit) /\ NipIsValid(nip)
  BY <1>2, <1>4, <1>5, <1>6 DEF NipIsValid
<1>8. QED
  BY <1>7 DEF control

LEMMA RegonMade ==
  ASSUME NEW n \in Nat, NEW d \in [1..n -> Digit], NEW weights \in [1..n -> Int]
  PROVE  LET control == RegonControl(d, weights)
             regon == Append(d, control)
         IN  /\ regon \in Seq(Digit) /\ Len(regon) = n + 1
             /\ RegonControl(regon, weights) = regon[n + 1]
<1> DEFINE control == RegonControl(d, weights)
           regon == Append(d, control)
<1>1. d \in Seq(Int) /\ d \in Seq(Digit) /\ Len(d) = n
  BY DrawnDigits
<1>2. RegonControl(regon, weights) = control
  <2>1. DOMAIN weights = 1..Len(d)
    BY <1>1
  <2>2. QED
    BY <1>1, <2>1, WeightedPrefix DEF RegonControl
<1>3. control \in Digit
  <2>1. n <= Len(d)
    BY <1>1
  <2>2. Weighted(d, weights) \in Int
    BY <1>1, <2>1, WeightedInt
  <2>3. Weighted(d, weights) % 11 \in 0..10
    BY <2>2
  <2>4. QED
    BY <2>3 DEF RegonControl, Digit
<1> HIDE DEF control
<1>4. regon \in Seq(Digit) /\ Len(regon) = Len(d) + 1 /\ regon[Len(d) + 1] = control
  BY <1>1, <1>3, Controlled
<1>5. regon \in Seq(Digit) /\ Len(regon) = n + 1 /\ RegonControl(regon, weights) = regon[n + 1]
  BY <1>1, <1>2, <1>4
<1>6. QED
  BY <1>5 DEF control

(* Account numbers: the powers of ten, as far as they are needed.           *)
LEMMA Powers ==
  /\ \A n \in 0..29 : Power97[n] \in Int
  /\ Power97[0] = 1 /\ Power97[1] = 10
<1> DEFINE Value(F, n) == IF n = 0 THEN 1 ELSE (10 * F[n - 1]) % 97
           Good(F, n) == \A k \in 0..n : F[k] = Value(F, k)
           Bad == {n \in Nat : \A F : ~Good(F, n)}
<1>1. ASSUME NEW n \in Bad PROVE \E k \in Bad : k < n
  <2>1. n \in Nat
    OBVIOUS
  <2>2. n # 0
    <3> DEFINE F == [k \in 0..0 |-> 1]
    <3>1. Good(F, 0)
      OBVIOUS
    <3> HIDE DEF F, Good
    <3>2. QED
      BY <3>1
  <2>3. n - 1 \in Nat
    BY <2>1, <2>2
  <2>4. ASSUME NEW G, Good(G, n - 1) PROVE FALSE
    <3> DEFINE F == [k \in 0..n |-> Value(G, k)]
    <3>1. \A k \in 0..n - 1 : F[k] = G[k]
      BY <2>1, <2>3, <2>4
    <3>2. ASSUME NEW k \in 0..n PROVE F[k] = Value(F, k)
      <4>1. CASE k = 0
        BY <2>1, <4>1
      <4>2. CASE k # 0
        <5>1. k - 1 \in 0..n - 1
          BY <2>1, <4>2
        <5>2. F[k - 1] = G[k - 1]
          BY <3>1, <5>1
        <5>3. QED
          BY <5>2
      <4>3. QED
        BY <4>1, <4>2
    <3> HIDE DEF F
    <3>3. Good(F, n)
      BY <3>2
    <3> HIDE DEF Good
    <3>4. QED
      BY <3>3
  <2>5. n - 1 \in Bad
    <3> HIDE DEF Good
    <3>1. QED
      BY <2>3, <2>4
  <2> HIDE DEF Bad
  <2>6. QED
    BY <2>1, <2>5
<1>2. Bad = {}
  <2>1. Bad \in SUBSET Nat
    OBVIOUS
  <2> HIDE DEF Bad
  <2>2. QED
    BY <1>1, <2>1, LeastNumber
<1>3. PICK G : Good(G, 29)
  BY <1>2
<1> DEFINE F == [n \in 0..29 |-> G[n]]
<1>4. F = [n \in 0..29 |-> Value(F, n)]
  BY <1>3
<1> HIDE DEF F
<1>5. Power97 = [n \in 0..29 |-> IF n = 0 THEN 1 ELSE (10 * Power97[n - 1]) % 97]
  BY <1>4 DEF Power97
<1>6. Power97[0] = 1
  BY <1>5
<1>7. Power97[1] = 10
  BY <1>5, <1>6
<1> DEFINE Odd == {n \in 0..29 : Power97[n] \notin Int}
<1>8. ASSUME NEW n \in Odd PROVE n - 1 \in Odd
  <2>1. n # 0 /\ n - 1 \in 0..29
    BY <1>6
  <2>2. CASE Power97[n - 1] \in Int
    <3>1. Power97[n] = (10 * Power97[n - 1]) % 97
      BY <1>5, <2>1
    <3>2. QED
      BY <2>2, <3>1
  <2>3. QED
    BY <2>1, <2>2
<1>9. Odd = {}
  <2>1. Odd \in SUBSET Nat
    OBVIOUS
  <2> HIDE DEF Odd
  <2>2. QED
    BY <1>8, <2>1, LeastNumber
<1>10. QED
  BY <1>6, <1>7, <1>9

(* Two digits put for the two zeros at the end of 30 digits add the number *)
(* they stand for.                                                         *)
LEMMA LastTwo ==
  ASSUME NEW s \in [1..30 -> Int], s[29] = 0, s[30] = 0,
         NEW r \in [1..30 -> Int], \A i \in 1..28 : r[i] = s[i]
  PROVE  \E n \in Int : Mod97(s) = n % 97 /\ Mod97(r) = (n + 10 * r[29] + r[30]) % 97
<1> DEFINE S == 1..30
           f == [i \in S |-> s[i] * Power97[30 - i]]
           g == [i \in S |-> r[i] * Power97[30 - i]]
           h == [i \in S |-> IF i = 30 THEN f[30] ELSE g[i]]
<1>1. \A i \in S : 30 - i \in 0..29 /\ Power97[30 - i] \in Int
  BY Powers
<1>2. f \in [S -> Int] /\ g \in [S -> Int]
  BY <1>1
<1>3. h \in [S -> Int]
  BY <1>2
<1>4. f[29] = 0 /\ f[30] = 0 /\ g[29] = 10 * r[29] /\ g[30] = r[30]
  BY Powers
<1>5. \A i \in S \ {29} : h[i] = f[i]
  <2>1. \A i \in 1..28 : g[i] = f[i]
    OBVIOUS
  <2>2. QED
    BY <2>1
<1>6. \A i \in S \ {30} : g[i] = h[i]
  OBVIOUS
<1>7. h[29] = g[29] /\ h[30] = f[30]
  OBVIOUS
<1>8. IsFiniteSet(S) /\ 29 \in S /\ 30 \in S
  <2>1. 1 \in Int /\ 30 \in Int
    OBVIOUS
  <2>2. IsFiniteSet(1..30)
    BY <2>1, FS_Interval
  <2>3. QED
    BY <2>2
<1>9. Mod97(s) = SumFunction(f) % 97 /\ Mod97(r) = SumFunction(g) % 97
  <2>1. Len(s) = 30 /\ Len(r) = 30
    OBVIOUS
  <2>2. QED
    BY <2>1 DEF Mod97
<1> HIDE DEF S, f, g, h
<1>10. SumFunction(f) \in Int /\ SumFunction(h) = SumFunction(f) + h[29] - f[29]
  BY <1>2, <1>3, <1>5, <1>8, LibrarySumsDiffer
<1>11. SumFunction(h) \in Int /\ SumFunction(g) = SumFunction(h) + g[30] - h[30]
  BY <1>2, <1>3, <1>6, <1>8, LibrarySumsDiffer
<1>12. r[29] \in Int /\ r[30] \in Int
  OBVIOUS
<1>13. SumFunction(g) = SumFunction(f) + 10 * r[29] + r[30]
  BY <1>4, <1>7, <1>10, <1>11, <1>12
<1>14. QED
  BY <1>9, <1>10, <1>13

LEMMA ControlNumber ==
  ASSUME NEW n \in Int, NEW check, check = (1 - (n % 97)) % 97
  PROVE  /\ check \div 10 \in Digit /\ check % 10 \in Digit
         /\ (n + 10 * (check \div 10) + (check % 10)) % 97 = 1
<1>1. check \in 0..96
  OBVIOUS
<1>2. check \div 10 \in Digit /\ check % 10 \in Digit
  BY <1>1 DEF Digit
<1>3. check = 10 * (check \div 10) + (check % 10)
  BY <1>1
<1>4. (n + check) % 97 = 1
  BY <1>1
<1> DEFINE a == check \div 10
           b == check % 10
<1> HIDE DEF a, b
<1>5. n + 10 * a + b = n + check
  BY <1>1, <1>2, <1>3 DEF a, b, Digit
<1>6. QED
  BY <1>2, <1>4, <1>5 DEF a, b

LEMMA Parts ==
  ASSUME NEW V, NEW c \in Seq(V), NEW b \in Seq(V), Len(c) \in Nat \ {0}, Len(b) \in Nat \ {0}
  PROVE  /\ SubSeq(c \o b, 1, Len(c)) = c
         /\ SubSeq(c \o b, Len(c) + 1, Len(c) + Len(b)) = b
<1>1. SubSeq(c \o b, 1, Len(c)) = SubSeq(c, 1, Len(c))
  BY SubSeqOfConcat1
<1>2. SubSeq(c \o b, Len(c) + 1, Len(c) + Len(b)) = SubSeq(b, Len(c) + 1 - Len(c), Len(c) + Len(b) - Len(c))
  <2>1. Len(c) + 1 \in Len(c) + 1 .. Len(c) + Len(b) /\ Len(c) + Len(b) \in Len(c) + 1 .. Len(c) + Len(b)
    OBVIOUS
  <2>2. QED
    BY <2>1, SubSeqOfConcat2
<1>3. Len(c) + 1 - Len(c) = 1 /\ Len(c) + Len(b) - Len(c) = Len(b)
  OBVIOUS
<1>4. QED
  BY <1>1, <1>2, <1>3, SubSeqFull

LEMMA Tailed ==
  ASSUME NEW b \in Seq(Int), NEW t \in Seq(Int)
  PROVE  /\ b \o t \in [1..Len(b) + Len(t) -> Int]
         /\ \A i \in 1..Len(b) : (b \o t)[i] = b[i]
         /\ \A i \in 1..Len(t) : (b \o t)[Len(b) + i] = t[i]
<1> DEFINE s == b \o t
           n == Len(b)
           m == Len(t)
<1>1. s \in Seq(Int) /\ Len(s) = n + m
  BY ConcatProperties
<1>2. \A i \in 1..n + m : s[i] = IF i <= n THEN b[i] ELSE t[i - n]
  BY ConcatProperties
<1>3. n \in Nat /\ m \in Nat
  OBVIOUS
<1> HIDE DEF s, n, m
<1>4. s \in [1..n + m -> Int]
  BY <1>1
<1>5. \A i \in 1..n : s[i] = b[i]
  BY <1>2, <1>3
<1>6. \A i \in 1..m : s[n + i] = t[i]
  <2> TAKE i \in 1..m
  <2> DEFINE k == n + i
  <2>1. k \in 1..n + m /\ ~(k <= n) /\ k - n = i
    BY <1>3
  <2> HIDE DEF k
  <2>2. s[k] = t[k - n]
    BY <1>2, <2>1
  <2>3. QED
    BY <2>1, <2>2 DEF k
<1>7. QED
  BY <1>4, <1>5, <1>6 DEF s, n, m

(* The check digits of an account number make it a valid one.              *)
THEOREM NrbMade ==
  ASSUME NEW bban \in [1..24 -> Digit]
  PROVE  /\ NrbCheckDigits(bban) \o bban \in Seq(Digit)
         /\ NrbIsValid(NrbCheckDigits(bban) \o bban)
<1>1. bban \in Seq(Int) /\ bban \in Seq(Digit) /\ Len(bban) = 24
  BY DrawnDigits
<1> DEFINE zeros == <<2, 5, 2, 1, 0, 0>>
           country == <<2, 5, 2, 1>>
           s == bban \o zeros
           check == (1 - Mod97(s)) % 97
           c1 == check \div 10
           c2 == check % 10
           digits == <<c1, c2>>
           q == bban \o country
           r == q \o digits
<1>2. zeros \in Seq(Int) /\ Len(zeros) = 6 /\ country \in Seq(Int) /\ Len(country) = 4
  OBVIOUS
<1>3. /\ \A i \in 1..4 : zeros[i] = country[i]
      /\ zeros[5] = 0 /\ zeros[6] = 0
  OBVIOUS
<1> HIDE DEF zeros, country
<1>4. /\ s \in [1..30 -> Int]
      /\ \A i \in 1..24 : s[i] = bban[i]
      /\ \A i \in 1..6 : s[24 + i] = zeros[i]
  <2>1. /\ s \in [1..Len(bban) + Len(zeros) -> Int]
        /\ \A i \in 1..Len(bban) : s[i] = bban[i]
        /\ \A i \in 1..Len(zeros) : s[Len(bban) + i] = zeros[i]
    BY <1>1, <1>2, Tailed
  <2> HIDE DEF s
  <2>2. 1..Len(bban) + Len(zeros) = 1..30
    BY <1>1, <1>2
  <2>3. s \in [1..30 -> Int]
    BY <2>1, <2>2
  <2>4. \A i \in 1..24 : s[i] = bban[i]
    BY <1>1, <2>1
  <2>5. \A i \in 1..6 : s[24 + i] = zeros[i]
    BY <1>1, <1>2, <2>1
  <2>6. QED
    BY <2>3, <2>4, <2>5
<1>5. s[29] = 0 /\ s[30] = 0 /\ \A i \in 1..4 : s[24 + i] = country[i]
  <2> HIDE DEF s
  <2>1. s[24 + 5] = zeros[5] /\ s[24 + 6] = zeros[6]
    BY <1>4
  <2>2. \A i \in 1..4 : s[24 + i] = zeros[i]
    BY <1>4
  <2>3. QED
    BY <1>3, <2>1, <2>2
<1> HIDE DEF s
<1>6. ASSUME NEW n \in Int, Mod97(s) = n % 97
      PROVE  c1 \in Digit /\ c2 \in Digit /\ (n + 10 * c1 + c2) % 97 = 1
  BY <1>6, ControlNumber
<1>7. \E n \in Int : Mod97(s) = n % 97
  BY <1>4, <1>5, LastTwo
<1>8. c1 \in Digit /\ c2 \in Digit
  BY <1>6, <1>7
<1> HIDE DEF c1, c2
<1>9. /\ digits \in Seq(Digit) /\ digits \in Seq(Int) /\ Len(digits) = 2
      /\ digits[1] = c1 /\ digits[2] = c2
  BY <1>8, DigitsAreInts
<1> HIDE DEF digits
<1>10. /\ q \in Seq(Int) /\ Len(q) = 28
       /\ \A i \in 1..24 : q[i] = bban[i]
       /\ \A i \in 1..4 : q[24 + i] = country[i]
  <2>1. q \in Seq(Int) /\ Len(q) = Len(bban) + Len(country)
    BY <1>1, <1>2, ConcatProperties
  <2>2. /\ \A i \in 1..Len(bban) : q[i] = bban[i]
        /\ \A i \in 1..Len(country) : q[Len(bban) + i] = country[i]
    BY <1>1, <1>2, Tailed
  <2> HIDE DEF q
  <2>3. Len(q) = 28
    BY <1>1, <1>2, <2>1
  <2>4. \A i \in 1..24 : q[i] = bban[i]
    BY <1>1, <2>2
  <2>5. \A i \in 1..4 : q[24 + i] = country[i]
    BY <1>1, <1>2, <2>2
  <2>6. QED
    BY <2>1, <2>3, <2>4, <2>5
<1> HIDE DEF q
<1>11. /\ r \in [1..30 -> Int]
       /\ \A i \in 1..28 : r[i] = q[i]
       /\ r[29] = c1 /\ r[30] = c2
  <2>1. /\ r \in [1..Len(q) + Len(digits) -> Int]
        /\ \A i \in 1..Len(q) : r[i] = q[i]
        /\ \A i \in 1..Len(digits) : r[Len(q) + i] = digits[i]
    BY <1>9, <1>10, Tailed
  <2> HIDE DEF r
  <2>2. 1..Len(q) + Len(digits) = 1..30
    BY <1>9, <1>10
  <2>3. r \in [1..30 -> Int]
    BY <2>1, <2>2
  <2>4. \A i \in 1..28 : r[i] = q[i]
    BY <1>10, <2>1
  <2>5. r[28 + 1] = digits[1] /\ r[28 + 2] = digits[2]
    BY <1>9, <1>10, <2>1
  <2>6. QED
    BY <1>9, <2>3, <2>4, <2>5
<1> HIDE DEF r
<1>12. \A i \in 1..28 : r[i] = s[i]
  <2> TAKE i \in 1..28
  <2>1. CASE i \in 1..24
    BY <1>4, <1>10, <1>11, <2>1
  <2>2. CASE i \notin 1..24
    <3>1. PICK k \in 1..4 : i = 24 + k
      <4>1. i - 24 \in 1..4 /\ i = 24 + (i - 24)
        BY <2>2
      <4>2. QED
        BY <4>1
    <3>2. r[24 + k] = q[24 + k] /\ q[24 + k] = country[k] /\ s[24 + k] = country[k]
      BY <1>5, <1>10, <1>11, <3>1
    <3>3. QED
      BY <3>1, <3>2
  <2>3. QED
    BY <2>1, <2>2
<1>13. Mod97(r) = 1
  <2>1. PICK n \in Int : Mod97(s) = n % 97 /\ Mod97(r) = (n + 10 * r[29] + r[30]) % 97
    BY <1>4, <1>5, <1>11, <1>12, LastTwo
  <2>2. QED
    BY <1>6, <1>11, <2>1
<1> DEFINE nrb == digits \o bban
<1>14. nrb \in Seq(Digit) /\ Len(nrb) = 26
  <2>1. nrb \in Seq(Digit) /\ Len(nrb) = Len(digits) + Len(bban)
    BY <1>1, <1>9, ConcatProperties
  <2>2. QED
    BY <1>1, <1>9, <2>1
<1>15. SubSeq(nrb, 1, 2) = digits /\ SubSeq(nrb, 3, 26) = bban
  <2>1. /\ SubSeq(nrb, 1, Len(digits)) = digits
        /\ SubSeq(nrb, Len(digits) + 1, Len(digits) + Len(bban)) = bban
    <3>1. Len(digits) \in Nat \ {0} /\ Len(bban) \in Nat \ {0}
      BY <1>1, <1>9
    <3>2. QED
      BY <1>1, <1>9, <3>1, Parts
  <2> HIDE DEF nrb
  <2>2. Len(digits) + 1 = 3 /\ Len(digits) + Len(bban) = 26
    BY <1>1, <1>9
  <2>3. QED
    BY <1>9, <2>1, <2>2
<1> HIDE DEF nrb
<1>16. NrbIsValid(nrb)
  BY <1>13, <1>14, <1>15 DEF NrbIsValid, r, q, country
<1>17. nrb = NrbCheckDigits(bban) \o bban
  BY DEF nrb, digits, c1, c2, s, zeros, NrbCheckDigits
<1>18. QED
  BY <1>14, <1>16, <1>17
-----------------------------------------------------------------------------
(* What the builders make is well formed and passes for genuine. *)

(* What LooksGenuine asks of the fake of an original.                      *)
Genuine(e, base) ==
  /\ e.type \in Identifier =>
       /\ ChecksumValid(e.type, base)
       /\ MetaOf(e.type, base) = MetaOf(e.type, e.text)
  /\ e.type = "PESEL" => \E born \in BirthDates : PeselBirthDates(base) = {born}
  /\ e.type = "DATE_TIME" =>
       /\ base[1] \in 1..LastDay(base[5], base[3])
       /\ YearOf(e.text) # Years => base[5] - e.text[Len(e.text)] \in -10..10

(* The digits of an identifier, and the words of anything else.            *)
Fits(e, f) ==
  IF e.type \in Identifier
  THEN f.type = e.type /\ f.base \in Seq(Digit) /\ Len(f.base) \in LengthsOf(e.type)
  ELSE f.type \notin Identifier /\ f.base \in Seq(Range(f.base))

(* Every PESEL the builder draws passes the check of the recognizer, has   *)
(* the gender of the original and a date of birth of its own.              *)
THEOREM PeselAccepted ==
  ASSUME NEW e, e.type = "PESEL", NEW f \in BuildPesel(e)
  PROVE  Fits(e, f) /\ Genuine(e, f.base)
<1> DEFINE gender == MetaOf("PESEL", e.text)
<1>1. gender \in Gender
  BY DEF MetaOf, PeselGender, Gender
<1>2. PICK born \in BirthDates, serial \in Serials, g \in Digit :
        f = Plain("PESEL", MakePesel(born.year, born.month, born.day, gender, serial, g))
  BY DEF BuildPesel
<1> HIDE DEF gender
<1> DEFINE d == MakePesel(born.year, born.month, born.day, gender, serial, g)
<1>3. f.type = "PESEL" /\ f.base = d
  BY <1>2 DEF Plain
<1>4. PeselOf(d, gender, born)
  BY <1>1, PeselMade
<1> HIDE DEF d
<1>5. Fits(e, f)
  BY <1>3, <1>4 DEF PeselOf, Fits, Identifier, LengthsOf, PeselIsValid
<1>6. ChecksumValid("PESEL", f.base) /\ MetaOf("PESEL", f.base) = gender
  BY <1>3, <1>4 DEF PeselOf, ChecksumValid, MetaOf
<1>7. QED
  BY <1>3, <1>4, <1>5, <1>6 DEF PeselOf, Genuine, gender

(* Every NIP the builder draws passes the check of the recognizer.         *)
THEOREM NipAccepted ==
  ASSUME NEW e, e.type = "NIP", NEW f \in BuildNip
  PROVE  Fits(e, f) /\ Genuine(e, f.base)
<1>1. PICK d \in DigitsOf[9] : NipControl(d) # 10 /\ f = Plain("NIP", Append(d, NipControl(d)))
  BY DEF BuildNip
<1>2. d \in [1..9 -> Digit]
  BY RollsAssumption
<1>3. f.type = "NIP" /\ f.base = Append(d, NipControl(d))
  BY <1>1 DEF Plain
<1>4. f.base \in Seq(Digit) /\ NipIsValid(f.base)
  BY <1>1, <1>2, <1>3, NipMade
<1>5. Fits(e, f)
  BY <1>3, <1>4 DEF Fits, Identifier, LengthsOf, NipIsValid
<1>6. ChecksumValid("NIP", f.base) /\ \A d1, d2 : MetaOf("NIP", d1) = MetaOf("NIP", d2)
  BY <1>4 DEF ChecksumValid, MetaOf
<1>7. QED
  BY <1>5, <1>6 DEF Genuine

(* Every REGON the builder draws has the length of the original, and       *)
(* passes the check for that length.                                       *)
THEOREM RegonAccepted ==
  ASSUME NEW e, e.type = "REGON", NEW f \in BuildRegon(e)
  PROVE  Fits(e, f) /\ Genuine(e, f.base)
<1>1. CASE MetaOf("REGON", e.text) = "14"
  <2>1. PICK d \in DigitsOf[13] : f = Plain("REGON", Append(d, RegonControl(d, Regon14Weights)))
    BY <1>1 DEF BuildRegon
  <2>2. d \in [1..13 -> Digit] /\ Regon14Weights \in [1..13 -> Int]
    BY RollsAssumption DEF Regon14Weights
  <2>3. f.type = "REGON" /\ f.base = Append(d, RegonControl(d, Regon14Weights))
    BY <2>1 DEF Plain
  <2>4. /\ f.base \in Seq(Digit) /\ Len(f.base) = 14
        /\ RegonControl(f.base, Regon14Weights) = f.base[14]
    <3>1. /\ f.base \in Seq(Digit) /\ Len(f.base) = 13 + 1
          /\ RegonControl(f.base, Regon14Weights) = f.base[13 + 1]
      BY <2>2, <2>3, RegonMade
    <3>2. QED
      BY <3>1
  <2>5. Fits(e, f)
    BY <2>3, <2>4 DEF Fits, Identifier, LengthsOf
  <2>6. ChecksumValid("REGON", f.base) /\ MetaOf("REGON", f.base) = "14"
    BY <2>4 DEF ChecksumValid, Regon14IsValid, MetaOf
  <2>7. QED
    BY <1>1, <2>5, <2>6 DEF Genuine
<1>2. CASE MetaOf("REGON", e.text) # "14"
  <2>1. PICK d \in DigitsOf[8] : f = Plain("REGON", Append(d, RegonControl(d, Regon9Weights)))
    BY <1>2 DEF BuildRegon
  <2>2. d \in [1..8 -> Digit] /\ Regon9Weights \in [1..8 -> Int]
    BY RollsAssumption DEF Regon9Weights
  <2>3. f.type = "REGON" /\ f.base = Append(d, RegonControl(d, Regon9Weights))
    BY <2>1 DEF Plain
  <2>4. /\ f.base \in Seq(Digit) /\ Len(f.base) = 9
        /\ RegonControl(f.base, Regon9Weights) = f.base[9]
    <3>1. /\ f.base \in Seq(Digit) /\ Len(f.base) = 8 + 1
          /\ RegonControl(f.base, Regon9Weights) = f.base[8 + 1]
      BY <2>2, <2>3, RegonMade
    <3>2. QED
      BY <3>1
  <2>5. Fits(e, f)
    BY <2>3, <2>4 DEF Fits, Identifier, LengthsOf
  <2>6. ChecksumValid("REGON", f.base) /\ MetaOf("REGON", f.base) = "9"
    BY <2>4 DEF ChecksumValid, Regon9IsValid, MetaOf
  <2>7. MetaOf("REGON", e.text) = "9"
    BY <1>2 DEF MetaOf
  <2>8. QED
    BY <2>5, <2>6, <2>7 DEF Genuine
<1>3. QED
  BY <1>1, <1>2

(* Every account number the builder draws passes the check of the          *)
(* recognizer.                                                             *)
THEOREM BankAccountAccepted ==
  ASSUME NEW e, e.type = "POLISH_BANK_ACCOUNT", NEW f \in BuildBankAccount
  PROVE  Fits(e, f) /\ Genuine(e, f.base)
<1>1. PICK bban \in DigitsOf[24] :
        f = Plain("POLISH_BANK_ACCOUNT", NrbCheckDigits(bban) \o bban)
  BY DEF BuildBankAccount
<1>2. bban \in [1..24 -> Digit]
  BY RollsAssumption
<1>3. f.type = "POLISH_BANK_ACCOUNT" /\ f.base = NrbCheckDigits(bban) \o bban
  BY <1>1 DEF Plain
<1>4. f.base \in Seq(Digit) /\ NrbIsValid(f.base)
  BY <1>2, <1>3, NrbMade
<1>5. Fits(e, f)
  BY <1>3, <1>4 DEF Fits, Identifier, LengthsOf, NrbIsValid
<1>6. /\ ChecksumValid("POLISH_BANK_ACCOUNT", f.base)
      /\ \A d1, d2 : MetaOf("POLISH_BANK_ACCOUNT", d1) = MetaOf("POLISH_BANK_ACCOUNT", d2)
  BY <1>4 DEF ChecksumValid, MetaOf
<1>7. QED
  BY <1>5, <1>6 DEF Genuine

(* Every date the builder draws exists in the year it falls in, which is   *)
(* at most ten years from the original's.                                  *)
THEOREM DateAccepted ==
  ASSUME NEW e \in Originals, e.type = "DATE_TIME", NEW f \in BuildDate(e)
  PROVE  Fits(e, f) /\ Genuine(e, f.base)
<1>1. PICK day \in (IF IsNumeric(e.text) THEN {Clamped(e.text[1], 28)} ELSE Days),
           month \in (IF IsNumeric(e.text) THEN {Clamped(e.text[3], 12)} ELSE Months),
           year \in YearOf(e.text), shift \in Shifts :
        f = Plain("DATE_TIME", Date(day, month, year + shift))
  BY DEF BuildDate
<1> DEFINE base == <<day, ".", month, ".", year + shift>>
<1>2. f.type = "DATE_TIME" /\ f.base = base
  BY <1>1 DEF Plain, Date
<1>3. base[1] = day /\ base[3] = month /\ base[5] = year + shift
  OBVIOUS
<1>4. base \in Seq(Range(base))
  BY DEF Range
<1> HIDE DEF base
<1>5. Fits(e, f)
  BY <1>2, <1>4 DEF Fits, Identifier
<1>6. day \in 1..28
  <2>1. CASE IsNumeric(e.text)
    BY <2>1, OriginalsAssumption DEF Clamped
  <2>2. CASE ~IsNumeric(e.text)
    BY <2>2, PoolsAssumption
  <2>3. QED
    BY <2>1, <2>2
<1>7. day \in 1..LastDay(year + shift, month)
  <2>1. LastDay(year + shift, month) \in {28, 29, 30, 31}
    BY DEF LastDay
  <2>2. QED
    BY <1>6, <2>1
<1>8. ASSUME YearOf(e.text) # Years PROVE base[5] - e.text[Len(e.text)] \in -10..10
  <2>1. Len(e.text) >= 3 /\ year = e.text[Len(e.text)]
    BY <1>8 DEF YearOf
  <2>2. year \in Int
    BY <2>1, OriginalsAssumption
  <2>3. shift \in -10..10
    BY PoolsAssumption
  <2> DEFINE text == e.text[Len(e.text)]
  <2> HIDE DEF text
  <2>4. year = text
    BY <2>1 DEF text
  <2>5. base[5] - text \in -10..10
    BY <1>3, <2>2, <2>3, <2>4
  <2>6. QED
    BY <2>5 DEF text
<1>9. Genuine(e, base)
  <2>1. e.type \notin Identifier /\ e.type # "PESEL"
    BY DEF Identifier
  <2>2. base[1] \in 1..LastDay(base[5], base[3])
    BY <1>3, <1>7
  <2>3. YearOf(e.text) # Years => base[5] - e.text[Len(e.text)] \in -10..10
    BY <1>8
  <2>4. QED
    BY <2>1, <2>2, <2>3 DEF Genuine
<1>10. QED
  BY <1>2, <1>5, <1>9
(* The words of a name, an address or a phone number are a sequence.       *)
LEMMA GeneratedType ==
  ASSUME NEW e \in Originals, NEW f \in Generated(e),
         e.type \notin Identifier, e.type # "DATE_TIME"
  PROVE  Fits(e, f) /\ Genuine(e, f.base)
<1>1. Genuine(e, f.base)
  BY DEF Genuine, Identifier
<1>2. CASE e.type = "PERSON"
  <2>1. f \in BuildPerson
    BY <1>2 DEF Generated
  <2>2. PICK gender \in {"male", "female"} :
          f \in {Inflecting("PERSON", <<first, last>>) :
                  first \in NamesOf[gender].first, last \in NamesOf[gender].last}
    BY <2>1 DEF BuildPerson
  <2>3. PICK first \in NamesOf[gender].first, last \in NamesOf[gender].last :
          f = Inflecting("PERSON", <<first, last>>)
    BY <2>2
  <2>4. f.type = "PERSON" /\ f.base = <<first, last>>
    BY <2>3 DEF Inflecting
  <2>5. <<first, last>> \in Seq(Range(<<first, last>>))
    BY DEF Range
  <2>6. QED
    BY <1>1, <2>4, <2>5 DEF Fits, Identifier
<1>3. CASE e.type = "LOCATION"
  <2>1. f \in BuildLocation
    BY <1>3 DEF Generated
  <2>2. PICK city : f = Inflecting("LOCATION", <<city>>)
    BY <2>1 DEF BuildLocation
  <2>3. f.type = "LOCATION" /\ f.base = <<city>>
    BY <2>2 DEF Inflecting
  <2>4. <<city>> \in Seq(Range(<<city>>))
    BY DEF Range
  <2>5. QED
    BY <1>1, <2>3, <2>4 DEF Fits, Identifier
<1>4. CASE e.type \notin {"PERSON", "LOCATION"}
  <2>1. f \in Drawn(e.type)
    BY <1>4 DEF Generated, Identifier
  <2>2. PICK base \in PlainOf[e.type] : f = Plain(e.type, base)
    BY <2>1 DEF Drawn
  <2>3. f.type = e.type /\ f.base = base
    BY <2>2 DEF Plain
  <2>4. e.type \in DOMAIN PlainOf
    BY <1>4, OriginalsAssumption
  <2>5. base \in Seq(Range(base))
    BY <2>4, PoolsAssumption
  <2>6. QED
    BY <1>1, <2>3, <2>5 DEF Fits
<1>5. QED
  BY <1>2, <1>3, <1>4

LEMMA GeneratedFits ==
  ASSUME NEW e \in Originals, NEW f \in Generated(e)
  PROVE  Fits(e, f) /\ Genuine(e, f.base)
<1>1. CASE e.type = "PESEL"
  <2>1. f \in BuildPesel(e)
    BY <1>1 DEF Generated
  <2>2. QED
    BY <1>1, <2>1, PeselAccepted
<1>2. CASE e.type = "NIP"
  <2>1. f \in BuildNip
    BY <1>2 DEF Generated
  <2>2. QED
    BY <1>2, <2>1, NipAccepted
<1>3. CASE e.type = "REGON"
  <2>1. f \in BuildRegon(e)
    BY <1>3 DEF Generated
  <2>2. QED
    BY <1>3, <2>1, RegonAccepted
<1>4. CASE e.type = "POLISH_BANK_ACCOUNT"
  <2>1. f \in BuildBankAccount
    BY <1>4 DEF Generated
  <2>2. QED
    BY <1>4, <2>1, BankAccountAccepted
<1>5. CASE e.type = "DATE_TIME"
  <2>1. f \in BuildDate(e)
    BY <1>5 DEF Generated
  <2>2. QED
    BY <1>5, <2>1, DateAccepted
<1>6. CASE e.type \notin Identifier /\ e.type # "DATE_TIME"
  BY <1>6, GeneratedType
<1>7. QED
  BY <1>1, <1>2, <1>3, <1>4, <1>5, <1>6 DEF Identifier

(* Changing the last digits of an identifier leaves as many.               *)
LEMMA SuffixedFits ==
  ASSUME NEW e, NEW f, Fits(e, f), NEW n \in 1..99
  PROVE  LET base == Suffixed(f, n)
         IN  /\ Len(base) \in LengthsOf(e.type)
             /\ e.type \in Identifier => base \in Seq(Digit)
<1> DEFINE base == Suffixed(f, n)
<1>1. CASE e.type \in Identifier
  <2>1. f.type \in Identifier /\ f.base \in Seq(Digit) /\ Len(f.base) \in LengthsOf(e.type)
    BY <1>1 DEF Fits
  <2> DEFINE b == f.base
             tail == Numeral(n)
             k == Len(b) - Len(tail)
             head == SubSeq(b, 1, k)
  <2>2. base = head \o tail
    BY <2>1 DEF Suffixed
  <2>3. tail \in Seq(Digit) /\ Len(tail) \in {1, 2}
    <3>1. CASE n < 10
      BY <3>1 DEF Numeral, Digit
    <3>2. CASE ~(n < 10)
      <4>1. n \div 10 \in Digit /\ n % 10 \in Digit
        BY DEF Digit
      <4>2. QED
        BY <3>2, <4>1 DEF Numeral
    <3>3. QED
      BY <3>1, <3>2
  <2>4. b \in Seq(Digit) /\ Len(b) \in 9..26
    <3>1. \A type \in Identifier : LengthsOf(type) \subseteq 9..26
      BY DEF LengthsOf, Identifier
    <3>2. QED
      BY <1>1, <2>1, <3>1
  <2> HIDE DEF base, tail, b
  <2>5. k \in 1..Len(b)
    <3>1. \A x \in 9..26, y \in {1, 2} : x - y \in 1..x
      OBVIOUS
    <3>2. QED
      BY <2>3, <2>4, <3>1
  <2>6. head \in Seq(Digit) /\ Len(head) = k
    <3>1. 1 \in Int /\ k \in Int /\ \A i \in 1..k : b[i] \in Digit
      BY <2>4, <2>5
    <3> HIDE DEF k
    <3>2. head \in Seq(Digit) /\ Len(head) = IF 1 <= k THEN k - 1 + 1 ELSE 0
      BY <3>1, SubSeqProperties
    <3>3. QED
      BY <2>5, <3>1, <3>2
  <2> HIDE DEF head
  <2>7. base \in Seq(Digit) /\ Len(base) = Len(head) + Len(tail)
    BY <2>2, <2>3, <2>6, ConcatProperties
  <2>8. Len(base) = Len(b)
    BY <2>3, <2>4, <2>6, <2>7 DEF b
  <2>9. QED
    BY <2>1, <2>7, <2>8 DEF base, b
<1>2. CASE e.type \notin Identifier
  <2>1. f.type \notin Identifier /\ f.base \in Seq(Range(f.base))
    BY <1>2 DEF Fits
  <2>2. base = Append(f.base, n)
    BY <2>1 DEF Suffixed
  <2>3. Len(base) \in Nat
    BY <2>1, <2>2
  <2>4. LengthsOf(e.type) = Nat
    BY <1>2 DEF LengthsOf, Identifier
  <2>5. QED
    BY <1>2, <2>3, <2>4
<1>3. QED
  BY <1>1, <1>2

-----------------------------------------------------------------------------
(* The inductive invariant: the last draw is a fake its builder may make   *)
(* for the original, and the mappings stored are well formed; those that   *)
(* were not forced pass for genuine.                                       *)

MappingOK(m) ==
  /\ Len(m.base) \in LengthsOf(m.original.type)
  /\ m.original.type \in Identifier => Range(m.base) \subseteq Digit
  /\ ~m.forced => Genuine(m.original, m.base)

DrawInv ==
  IF entity = None
  THEN fake = None /\ draws = 0
  ELSE entity \in Originals /\ fake \in Generated(entity) /\ draws \in 1..MaxAttempts

MintInv ==
  /\ todo \subseteq Originals
  /\ DrawInv
  /\ \A m \in mappings : MappingOK(m)

LEMMA DigitsInRange ==
  ASSUME NEW base \in Seq(Digit)
  PROVE  Range(base) \subseteq Digit
BY DEF Range

LEMMA StoreKeeps ==
  ASSUME MintInv, NEW f, NEW forced \in BOOLEAN, Store(f, forced),
         Len(f.base) \in LengthsOf(entity.type),
         entity.type \in Identifier => f.base \in Seq(Digit),
         ~forced => Genuine(entity, f.base)
  PROVE  MintInv'
<1> DEFINE new == [original |-> entity, base |-> f.base, forms |-> f.forms, forced |-> forced]
<1>1. mappings' = mappings \cup {new} /\ entity' = None /\ fake' = None /\ draws' = 0 /\ todo' = todo
  BY DEF Store
<1>2. new.original = entity /\ new.base = f.base /\ new.forced = forced
  OBVIOUS
<1> HIDE DEF new
<1>3. MappingOK(new)
  BY <1>2, DigitsInRange DEF MappingOK
<1>4. \A m \in mappings' : MappingOK(m)
  BY <1>1, <1>3 DEF MintInv
<1>5. QED
  BY <1>1, <1>4 DEF MintInv, DrawInv, MappingOK

LEMMA MintInvariant == Spec => []MintInv
<1>1. Init => MintInv
  BY DEF Init, MintInv, DrawInv, Originals
<1>2. MintInv /\ [Next]_vars => MintInv'
  <2> SUFFICES ASSUME MintInv, [Next]_vars PROVE MintInv'
    OBVIOUS
  <2> USE DEF MintInv
  <2>1. ASSUME NEW e \in todo, Ask(e) PROVE MintInv'
    <3>1. entity' = e /\ todo' \subseteq todo /\ fake' \in Generated(e) /\ draws' = 1 /\ mappings' = mappings
      BY <2>1 DEF Ask
    <3>2. e \in Originals /\ e # None
      BY NoneAssumption
    <3>3. 1 \in 1..MaxAttempts
      BY BoundsAssumption
    <3>4. DrawInv'
      BY <3>1, <3>2, <3>3 DEF DrawInv
    <3>5. QED
      BY <3>1, <3>4
  <2>2. CASE Keep
    <3>1. entity # None /\ Store(fake, FALSE)
      BY <2>2 DEF Keep
    <3>2. entity \in Originals /\ fake \in Generated(entity)
      BY <3>1 DEF DrawInv
    <3>3. Fits(entity, fake) /\ Genuine(entity, fake.base)
      BY <3>2, GeneratedFits
    <3>4. Len(fake.base) \in LengthsOf(entity.type)
      BY <3>3 DEF Fits, LengthsOf, Identifier
    <3>5. entity.type \in Identifier => fake.base \in Seq(Digit)
      BY <3>3 DEF Fits
    <3>6. QED
      BY <3>1, <3>3, <3>4, <3>5, StoreKeeps
  <2>3. CASE DrawAgain
    <3>1. /\ entity # None /\ draws < MaxAttempts /\ fake' \in Generated(entity)
          /\ draws' = draws + 1 /\ UNCHANGED <<todo, entity, mappings>>
      BY <2>3 DEF DrawAgain
    <3>2. draws + 1 \in 1..MaxAttempts
      BY <3>1, BoundsAssumption DEF DrawInv
    <3>3. DrawInv'
      BY <3>1, <3>2 DEF DrawInv
    <3>4. QED
      BY <3>1, <3>3
  <2>4. ASSUME NEW n \in 1..MaxSuffix, ForceUnique(n) PROVE MintInv'
    <3> DEFINE base == Suffixed(fake, n)
               f == Plain(fake.type, base)
    <3>1. entity # None /\ Store(f, TRUE)
      BY <2>4 DEF ForceUnique
    <3>2. entity \in Originals /\ fake \in Generated(entity)
      BY <3>1 DEF DrawInv
    <3>3. Fits(entity, fake)
      BY <3>2, GeneratedFits
    <3>4. n \in 1..99
      BY BoundsAssumption
    <3>5. Len(base) \in LengthsOf(entity.type) /\ (entity.type \in Identifier => base \in Seq(Digit))
      BY <3>3, <3>4, SuffixedFits
    <3> HIDE DEF base
    <3>6. f.base = base
      BY DEF Plain
    <3> HIDE DEF f
    <3>7. QED
      BY <3>1, <3>5, <3>6, StoreKeeps
  <2>5. CASE Done
    BY <2>5 DEF Done, vars, DrawInv, MappingOK
  <2>6. CASE UNCHANGED vars
    BY <2>6 DEF vars, DrawInv, MappingOK
  <2>7. QED
    BY <2>1, <2>2, <2>3, <2>4, <2>5, <2>6 DEF Next
<1>3. QED
  BY <1>1, <1>2, PTL DEF Spec

(* Forced or not, a stored fake has the length of its type, and an         *)
(* identifier consists of digits.                                          *)
THEOREM TypeCorrect == Spec => []TypeOK
<1>1. MintInv => TypeOK
  <2> SUFFICES ASSUME MintInv PROVE TypeOK
    OBVIOUS
  <2>1. entity = None <=> fake = None
    BY NoneAssumption DEF MintInv, DrawInv
  <2>2. draws \in 0..MaxAttempts
    BY BoundsAssumption DEF MintInv, DrawInv
  <2>3. QED
    BY <2>1, <2>2 DEF MintInv, MappingOK, TypeOK
<1>2. QED
  BY <1>1, MintInvariant, PTL

(* Every fake that was not forced passes for a genuine one of its type.    *)
THEOREM UnforcedLookGenuine == Spec => []LooksGenuine
<1>1. MintInv => LooksGenuine
  BY DEF MintInv, MappingOK, Genuine, LooksGenuine
<1>2. QED
  BY <1>1, MintInvariant, PTL

=============================================================================
