CONSTANTS
  OperatorTexts <- MCTexts
  MaxResets = 1
  MaxWaiting = 1
SPECIFICATION Spec
PROPERTY CommandsAreProcessed
