CONSTANTS
  Texts <- MCTexts
  Keywords <- MCKeywords
SPECIFICATION Spec
INVARIANTS TypeOK ErrorOnlyOnOpenQuote WordsAgree 
CHECK_DEADLOCK FALSE
