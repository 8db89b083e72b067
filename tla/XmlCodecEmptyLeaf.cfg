\* Unindented service and bucket listings whose leaf elements may be empty.
CONSTANTS
  NoText = NoText
  Texts = {"t1"}
  Numerals <- MCNumerals
  TruncTexts <- MCTruncTexts
  ObjNames = {"o1"}
  W = 5
  MaxKids = 2
  Kinds = {"service", "bucket"}
  AllowBlank = FALSE
  AllowEmpty = TRUE
INIT Init
NEXT Next
INVARIANT DecodeNoFault
