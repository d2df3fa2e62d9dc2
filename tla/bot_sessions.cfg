CONSTANTS
  Chats = {"anna"}
  Vacancies = {"v1", "v2"}
  NoVacancy = "none"
  Catalog <- MCCatalog
  ListLimit = 2
  Messages <- MCMessages
  MaxUpdates = 3
  MaxFaults = 1
  MaxRestarts = 1
SPECIFICATION FairSpec
CHECK_DEADLOCK FALSE
INVARIANT TypeOK
INVARIANT NothingSkipped
INVARIANT OncePerStart
INVARIANT DateStateHasVacancy
PROPERTY CatchesUp
