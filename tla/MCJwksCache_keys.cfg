SPECIFICATION FairSpec
CONSTANTS
  old = old
  new = new
  ec = ec
  Requests = {r1, r2}
  Kids = {old, new, ec}
  Published <- MCPublished
  Usable = {old, new}
  NoKid = NoKid
  Window = 2
  FetchTime = 1
  MaxVersion = 2
INVARIANTS TypeOK
PROPERTIES NoStepBack RefusedIsNew ServedIsFound
