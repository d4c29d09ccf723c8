CONSTANTS
  MaxTabs = 2
  MaxCalls = 2
  MaxTokens = 3
  Settings <- MCSettings
SPECIFICATION FairSpec
INVARIANTS SessionSurvives EndedStaysEnded OneLiveToken
PROPERTIES EverythingSettles
