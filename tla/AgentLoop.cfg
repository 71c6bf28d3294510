SPECIFICATION FairSpec
CONSTANTS
  None = None
  home = home
  blank = blank
  next = next
  Views = {home, blank, next}
  UrlOf <- Url
  Errors = {next}
  Blanks = {blank}
  Bare = {blank}
  Choices <- Shop
  Front = home
  NextPage = next
  Tasks <- Given
  UnchangedActions = 2
  MaxRecoveries = 1
  MaxEvidence = 1
  Drafts = {"draft"}
INVARIANT EndsAsRead
PROPERTIES
  CommitsOnce
  RunEndsInTime
