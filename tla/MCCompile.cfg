CONSTANTS
  GPRCount = 3
  XMMCount = 1
  SpillCount = 4
  ABI_RETURN = 1
  Params <- MCParams
  OtherCallerSave <- MCOthers
  Fixed = {2}
  MaxScratch = 1
  Programs <- MCPrograms
  GuestCode <- MCGuestCode
  Translated <- MCTranslated
  RegisterAccesses = 3
  FlagAccesses = 4
  Byte = 1
  ArithmeticCode <- MCArithmeticCode
  Arithmetic <- MCArithmetic
  Inputs <- MCInputs
SPECIFICATION CompileSpec
INVARIANTS
  
  
  
  AssertsHold
  MeaningKept
  UseCountsExact
  FoldedUseCounts

  
CHECK_DEADLOCK FALSE
