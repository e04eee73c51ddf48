\* Paths of "/", "." and a byte of 128 or more; with -I "/", "A" and "a"
SPECIFICATION NamesSpec
CONSTANTS
  Bytes = {47, 46, 200}
  BytesI = {47, 65, 97}
  MaxLen = 3
  Patterns <- MCPatterns
  Texts <- MCTexts
  Odd = {32, 9, 10, 92, 98}
INVARIANTS
  OrderSound
  WildcardExact
  LinesSurvive
