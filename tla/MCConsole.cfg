SPECIFICATION Spec
CONSTANTS
  Width = 4
  Height = 3
  MaxLength = 5
  Keys <- MCKeys
  Outputs <- MCOutputs
  Message <- MCMessage
INVARIANTS
  TypeOK
  EchoMatches
  PromptKept
