SPECIFICATION MCSpec
CONSTANTS
  NumExamples = 2
  Reviewers = {r1, r2}
  Makers = {m1}
  PageLimit = 1
  UsedVerdicts = {"approve", "needs_work"}
  MaxRevisions = 4
  MaxVersions = 2
  PolarityWindow = 15
  EqualAtEdge = {{1, 2}}
  Answers <- MCAnswers
  EvidenceTexts <- MCEvidence
  Items <- MCItems
  MaxItems = 2
  Pairs <- MCPairs
  Replies <- MCReplies
  Candidates <- MCCandidates
  SpanTexts <- MCSpanTexts
  MaxBatch = 2
  Compositions <- MCCompositions
  Amounts = {0, 1, 3, 7}
  Unset = Unset
  Sources <- MCSources
  BucketMaps <- MCBucketMaps
  ManualMaps <- MCManualMaps
  HeldOut = "g"
  Folds = 2
  TrainShare = 50
  ValidationShare = 25
  Documents <- MCDocuments
  Mentions <- MCMentions
  ListLimit = 2
  Principals = {"p"}
  PublishCap = 2
  Window = 1
  MaxTime = 1
  MaxSources = 3
  MaxUploads = 1
  Docs <- MCDocs
  Parsed <- MCParsed
  Spans <- MCSpans
  Cands <- MCCands
  Offers <- MCOffers
  Formats = {"jsonl", "openai_chat", "kto", "trl_preference", "alpaca"}
  Projects = {"P", "Q"}
  Prefix <- MCPrefix
  Damages = {"data/train.jsonl", "README.md", "data/test.jsonl"}
  MaxExamples = 2
  MaxExports = 1
  Layouts <- MCLayouts
  TargetTokens = 4
  MinTokens = 2
  MaxTokens = 5
  ContextTokens = 3
  KeepChoices = {{"table", "list_item"}, {}}
INVARIANT IncludedIsApproved
CHECK_DEADLOCK FALSE
