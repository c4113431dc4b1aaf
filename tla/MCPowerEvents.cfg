\* Two commands against a service that may die; the machine really stops.
SPECIFICATION FairSpec
CONSTANTS
  Clients = {c1, c2}
  NoClient = NoClient
  MaxCrashes = 1
INVARIANTS TypeOK OkMeansQueued OnlyWhatWasAsked NobodyIsForgotten
PROPERTIES ImplementsService AnswerComesCloser EveryRequestEnds ServiceComesBack
CHECK_DEADLOCK FALSE
