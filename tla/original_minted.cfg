SPECIFICATION Spec
CONSTANTS
  Sessions <- EarlyDates
  Cases = {"nom", "gen", "acc"}
  NamesOf <- Names
  Declined <- Table
  PlainOf <- Words
  DigitsOf <- RollsOf
  BirthDates <- Births
  Serials <- SerialNumbers
  Years = {1960, 2010}
  Shifts <- ShiftYears
  Months = {1, 2, 12}
  Days = {1, 28}
  MaxAttempts = 4
  MaxSuffix = 20
  None = None
INVARIANT NeverOriginal
