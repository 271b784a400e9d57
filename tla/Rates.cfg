SPECIFICATION RatesSpec
CONSTANTS
  Currencies = {"USD", "EUR", "GBP"}
  Dates = {1, 2}
  QuotedPairs <- MCQuoted
  NewRates = {5, 30}
  AskedPairs <- MCAsked
  AskedDates <- MCDates
  Money = {8}
  RateScale = 10
  NoRate = NoRate
  RateUsers = {u1}
  MaxSets = 2
INVARIANTS
  ConversionFloors
CHECK_DEADLOCK FALSE
