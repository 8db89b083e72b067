\* An indented service listing, every leaf element non-empty.
CONSTANTS
  NoText = NoText
  Texts = {"t1"}
  Numerals <- MCNumerals
  TruncTexts <- MCTruncTexts
  ObjNames = {"o1"}
  W = 5
  MaxKids = 2
  Kinds = {"service"}
  AllowBlank = TRUE
  AllowEmpty = FALSE
INIT Init
NEXT Next
INVARIANT ServiceListingFaithful
