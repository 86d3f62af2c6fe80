SPECIFICATION SilentSpec
CONSTANTS
  ContextName <- MCContextName
  MainOf <- MCMainOf
  Stripped <- MCMainOf
  Level <- MCLevel
  Introduce = {"1", "2"}
  Purpose = {"A"}
  Redeem = {}
  Unrecorded = {"0"}
  MaxContexts = 2
  MaxFloors = 1
  Answers <- MCTalk
  Publics <- MCPublics
  Flows <- MCFlows
  Purposes <- MCPurposes
  DeepFloors <- MCDeepFloors
  DeepRow <- MCDeepRow
  Sentences <- MCMumbleBusy
  Wild <- MCWild
  AfterTransfer = "success"
  NotfindNub = 1
  AnsoutNub = 1
  TimeoutNub = 1
  QuestionNub <- MCQuestionNub
  QuestionFloors = 2
  ScoreP = 10
  SkipLimit = 3
  Limits = {"ai2human", "all"}
  MaxTurns = 6
  Requests = {"SPEECH", "TIMEOUT", "CONNECT"}
  AwaitsPlay = TRUE
  ConnectsOnce = TRUE
  Patience = 0
  SEC_0_5 = 1
  SEC_2_0 = 1
  SEC_4_5 = 1
  SEC_5_0 = 2
INVARIANTS NotfindCounted
