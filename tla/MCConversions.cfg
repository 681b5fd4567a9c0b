\* Short texts of every kind of character, answers of a few
\* symbols, and every tree of up to four, of which some fit no page.
CONSTANTS
  TextLength = 4
  EditTextLength = 3
  NewTexts <- MCNewTexts
  MaxEdits = 2
  MaxItems = 3
  MaxServers = 2
  MaxBytes = 14
  Sizes = {3, 8, 13}
  MaxLimit = 3
  MaxSymbols = 4
  Languages = {"typescript", "template"}
  Extensions <- MCExtensions
  Patterns <- MCPatterns
  Names <- MCNames
SPECIFICATION OutlinesSpec
INVARIANTS PositionsAgree EditsLandWhereMeant PagesCoverTheAnswer RoutesAgree
  OutlineKeepsItsShape
CHECK_DEADLOCK FALSE
