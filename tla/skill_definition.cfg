\* Two processes, skills of one or two steps.
CONSTANTS
  Tools = {"search", "delete", "create"}
  Default <- BuiltIn
  Setups <- EverySetup
  RejectDuplicateRoutes = TRUE
  Inputs = {"title"}
  Specs <- EverySpec
  Offers <- EveryOffer
  AllowCritical = FALSE
  AllowMedium = FALSE
  DefaultMaxSteps = 2
  MaxStarts = 2
  NoTool = NoTool
  NoProvider = NoProvider
  NoName = NoName
  NoArg = NoArg
  NoWhen = NoWhen
  NoLevel = NoLevel
SPECIFICATION Spec
INVARIANTS
  
  
  ActsAreVetted
  ChosenIsRunnable
\* An execution ends, and a process may stay down.
CHECK_DEADLOCK FALSE
