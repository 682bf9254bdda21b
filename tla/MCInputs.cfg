\* Bounds on what is sent; only titles and names reach their limits.
CONSTANTS
  Lower <- Letters
  Upper <- Capitals
  Other <- Others
  Symbols <- NameSymbols
  Contents <- FileContents
  Fields <- FormFields
  Characters <- TextCharacters
  Topics <- JobTopics
  Requests <- AskedFor
  MaxTitle = 6
  MaxSlug = 5
  MaxName = 5
  MaxBase = 2
  MaxFields = 2
  MaxText = 2
  MaxTexts = 2
  SubIds = {s1, s2}
SPECIFICATION Spec
CHECK_DEADLOCK FALSE
INVARIANTS
  SlugFitsTitle
  AcceptedNameIsSafe
  TypeMatchesContent
  AnswersMeetForm
  EveryFormHasAnswers
  TextsComeBack
  SignedAsCreated
  AddressesSubscribers
