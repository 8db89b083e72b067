\* Indented bucket listings and bulk manifests, and the round trip of
\* every list of up to two objects with every 5-bit size.
CONSTANTS
  NoText = NoText
  Texts = {"t1"}
  Numerals <- MCNumerals
  TruncTexts <- MCTruncTexts
  ObjNames = {"o1"}
  W = 5
  MaxKids = 2
  Kinds = {"bucket", "bulk", "roundtrip"}
  AllowBlank = TRUE
  AllowEmpty = FALSE
INIT Init
NEXT Next
INVARIANT ObjectCountFaithful
INVARIANT ChunkTotal
INVARIANT ManifestRoundTrip
