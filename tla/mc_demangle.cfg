SPECIFICATION Spec
CONSTANTS
  Id <- Ids
  Letter = "NE1fStIiCv_nTLZD"
  MaxWord = 3
  Wide = 99
  Unknown = Unknown
  Input <- Inputs
INVARIANTS
  PrintsItsParts
  RestoresOnFailure
  StaysInBuffer
  NoStaleText
  SizeDecidesNothingElse
