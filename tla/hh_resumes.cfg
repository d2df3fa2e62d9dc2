CONSTANTS
  Kinds = {"resumes"}
  Imports = {"one", "two", "vacancies", "resumes"}
  Uploads = {"one", "two"}
  OfVacancies = "vacancies"
  OfResumes = "resumes"
  Names = {"a", "b"}
  MaxId = 12
  TrashText = 99
  Payloads <- MCPayloads
  Vacancies = {1, 2, 3, 4, 5, 6, 7}
  PostedAt <- MCPostedAt
  OnlineBefore <- MCOnline
  Window <- MCWindow
  PerWindow = 2
  PerPage = 1
  MaxItems = {2, 5}
  MaxChanges = 2
  Resumes = {1, 2, 3}
  Pages <- MCPages
  MaxResumes = 2
  Concurrency = 2
  Extractions = {"first", "second"}
  Applicants = {1, 2, 3}
  Listings <- MCListings
  InDates = {1, 3}
  WithMessage = {1}
  WithChat = {1, 2}
  WithLetter = {1, 2}
  Requests <- MCRequests
  Parallel = 2
  LastSecond = 1
SPECIFICATION Spec
CHECK_DEADLOCK FALSE
INVARIANT FoundResumesAreImported
