SPECIFICATION QuerySpec
CONSTANTS
  Mirror <- SmallMirror
  Texts <- SmallTexts
  Labels <- ChannelLabels
  Aliases <- DomainAliases
  Tokens <- SmallTokens
  MaxTokens = 3
INVARIANT OperatorsConstrain
CHECK_DEADLOCK FALSE
