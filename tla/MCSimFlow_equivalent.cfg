SPECIFICATION Spec
CONSTANTS
  None = None
  Exit = Exit
  Word = Word
  Flows <- MCFlows
  NameOrder <- MCNames
  Inputs <- MCInputs
  Families = {"named"}
CHECK_DEADLOCK FALSE
INVARIANT BuiltAsAsked
