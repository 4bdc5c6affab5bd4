CONSTANTS
  a = a
  b = b
  Users = {a, b}
  Requests = {r1, r2}
  NoRequest = NoRequest
  NoUser = NoUser
  Opening <- Even
  MinAmount = 2
  MaxAmount = 2
  MaxTokens = 1
  Reader = a
  PerPage = 4
  PageKeys = {1}
SPECIFICATION FairSiteSpec
PROPERTIES LockReleased RequestsAnswered
