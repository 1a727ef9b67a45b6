SPECIFICATION FairSpec
CONSTANTS
  Requests <- MCRequests
  Saved <- MCSaved
  NoPresetB = "none"
  MaxStrays = 1
  MaxCompletions = 2
  MaxPasses = 2
INVARIANTS
  TypeOK
  CompletionsHavePass
  ExternalKeepsCollapse
  NoForgottenCollapse
PROPERTIES
  SessionEndRestores
  QuitAnswered
