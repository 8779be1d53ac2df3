SPECIFICATION Record
CONSTANTS
  Docs <- MCDocs
  Actors = {"alice", "bob"}
  Appendable <- MCActs
  Handwritten <- MCHandwritten
  MaxCommits = 2
  Budgets <- MCBudgets
  Operators = {"o1", "o2"}
  Doors = {"d1", "d2"}
  BuiltFor <- MCBuild
  Breaks = {3}
  Oldest = 1
  Applied0 = {0, 1}
  MaxBegins = 6
  Agents = {"agent"}
  Gens <- MCGens
  Parent <- MCParent
  Chunks <- MCChunks
  Shown <- MCShown
  Headings <- MCHeadings
  Budget = 2
  MaxRows = 1
  None = "none"
  Evaluations = {"q1", "q2"}
  MaxPolls = 1
  Mortal = TRUE
  Unowned = "nobody"
  Plan <- MCPlan
  Files = {"a", "b", "c"}
  Sims = {"b", "c"}
  Procs = {p1}
  GiveUp = 1
  Kills = TRUE
  Nobody = "nobody"
  Ids <- MCIds
  Dirs <- MCDirs
  Assets <- MCAssets
  Slug <- MCSlug
  Trees <- MCTrees
  Rewrites <- MCRewrites
  Charters <- MCCharters
  Targets <- MCTargets
  Readers <- MCReaders
  Unordered = 9
  Unsaid = "none"
  MaxClock = 1
  MaxEdits = 2
  Directories <- MCDirectories
  Insts <- MCInsts
  Ledgers <- MCLedgers
  Denied <- MCDenied
  Options <- MCOptions
  MaxRuns = 2
  NoValue = "none"
  Lanes = {"surfaces"}
  EditsDuring = FALSE
INVARIANT ImagesStayInside
CHECK_DEADLOCK FALSE
