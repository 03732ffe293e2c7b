SPECIFICATION Spec
CONSTANTS
  Nil = Nil
  NotPrepared = NotPrepared
  ScalarNames = {"null", "bool", "int", "uint", "double", "string", "duration", "timestamp"}
  KeyNames = {"bool", "int", "uint", "string"}
  MaxTypeDepth = 2
  MaxValueDepth = 5
  MaxEncodeDepth = 5
  MaxSdkDepth = 5
  MaxNesting = 16
  Reading <- MCReading
  SdkText <- MCSdkText
  Inputs <- MCInputs
INVARIANTS
  TypeOK
  ExpectedTypeHolds
  ValidateForesees
  RoutesAgree
  ResultTypeCanBeExpected
  
CHECK_DEADLOCK FALSE
