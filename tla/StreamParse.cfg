CONSTANTS
  Vocabs <- MCStrayVocabs
  Stops <- MCStops
  MaxTokens <- MCStrayMaxTokens
SPECIFICATION Spec
PROPERTY ParseEnds
