CONSTANTS
  PolPages <- PolSites
  PolOptions = 2
  PolGroup = 2
  PolLargest = 9
  PolTotal = 12
  PolBatch = 4
  PolMarker = 1
  MaxDecides = 2
  RpRecipes <- RpSaved
  RpPages <- RpSite
  RpTexts = {"v", "s3cret"}
  MaxActs = 3
  ActDecisions <- Decisions
  SecretNames = {"login", "card", "new_password"}
  ScopeOf <- Scopes
  MaxChoice = 4
  SourceParts = 4
  TaskWords = 8
  MaxBuilds = 2
SPECIFICATION Spec
CHECK_DEADLOCK FALSE
INVARIANTS
  ScoresOfThisPage
  RecipesKept
  ActsAsAllowed
  CopiedWhole
PROPERTIES
  DecidingEnds
  SetStateGoesLast
