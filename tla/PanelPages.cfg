\* The pages of the panel, with the smallest sets in which its races happen.
CONSTANTS
  MaxEntries = 2
  Slugs = {a, b, c, d}
  Free = {a, d}
  Malformed = {c, d}
  Unsent = {c}
  NoSlug = NoSlug
  People = {p1, p2}
  Matching = {p1}
  InRegion = {p2}
  PageSize = 1
  MaxDeleted = 1
  MaxLists = 2
  Holders = {h1, h2}
  Nobody = Nobody
  MaxNotes = 2
  MaxOthers = 1
  Jobs = {j1, j2}
  NoJob = NoJob
  MaxPolls = 2
  Templates = {t1, t2}
  Contents = {n1, n2}
  First = n1
  NoTemplate = NoTemplate
  NoContent = NoContent
  MaxChanges = 2
  Layouts = {l1, l2, l3}
  Original = {l1, l2}
  Default = l1
  Titled = {l1, l2}
  TplPageSize = 1
  FieldKeys = {f1}
  MaxBlocks = 4
  MaxAdded = 2
  MaxLoads = 1
  Regions = {Any, r1, r2}
  DEFAULT_REGION = Any
  Configured = {Any}
  MaxUpserts = 2
  Persons = {e1, e2}
  SecondStep = {e1}
  NoPerson = NoPerson
  MaxAttempts = 3
  Titles = {y1, y2}
  FirstTitle = y1
  MaxRenames = 2
SPECIFICATION PagesSpec
INVARIANTS
  FormsShowStored
  ListsAreTrue
  RowsStayHome
  DialogsAreTheirOwn
  ValidityFollowsMessages
  ImportIsWatched
PROPERTIES
  
  DoneAsConfirmed
  LoginIsItsOwn
CHECK_DEADLOCK FALSE
