SPECIFICATION Corpus
CONSTANTS
  Procs = {"p1", "p2"}
  Checkouts = {"main", "branch"}
  StableIds = {"x"}
  Legacy = {"x"}
  Asked = {"present"}
  MaxEntries = 3
  MaxRuns = 1
  Builds = {"k1", "k2"}
  Questions = {"q"}
  Probes = {"o"}
  Askers <- MCAskers
  Widest = {"public", "inner"}
  Histories <- MCHistories
  MaxGen = 2
  Band = 100
  MinSamples = 2
  MaxActs = 5
  Trees <- MCTrees
  Viewers <- MCViewers
  Slugs = {"a", "b", "k", "x", "y"}
  Bundle = "k"
  Depths = {0, 1, 2}
  Limits = {1, 3}
  MaxChanges = 1
  Segments = {"a", "b", "x"}
  NoSegment = "none"
  Calls <- MCCalls
  Records <- MCRecords
  Loose <- MCLoose
  Shells <- MCShells
  MaxLedger = 2
  MaxBuilds = 1
  MaxOutages = 1
  Requests <- MCRequests
  Dim = 2
  IngestAttempts = 3
  QueryAttempts = 2
  MaxTurns = 1
  MaxClients = 5
  Inits = {"i1", "i2"}
  Wants <- MCWants
  Grounds <- MCGrounds
  Pages = {"p1", "p2"}
  Decks <- MCDecks
  LearningSteps <- MCLearningSteps
  RelearningSteps <- MCRelearningSteps
  Day = 3
  GraduatingInterval = 1
  MaxInterval = 3
  EaseStart = 14
  EaseMin = 13
  EaseLapse = 1
  MaxGrades = 3
  MaxClock = 1
  MaxSteps = 3
  Bodies <- MCBodies
  MaxChars = 4
  HardMax = 6
  MinContent = 2
  Corpora <- MCCorpora
CHECK_DEADLOCK FALSE
INVARIANT CorpusIsWritten
INVARIANT CardsComeBack
INVARIANT AbstentionIsHonest
INVARIANT OutlineIsTheRecord
INVARIANT VectorsAreWhatWasAsked
INVARIANT ProjectWholeOrAbsent
INVARIANT ExitTellsWhatStands
INVARIANT OneAnswer
INVARIANT RowsAreAccounted
PROPERTY FreshFoldAgrees
