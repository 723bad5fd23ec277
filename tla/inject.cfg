CONSTANTS
  repo = repo
  pkgA = pkgA
  tree = tree
  NoDir = NoDir
  Dirs <- RepoDirs
  Parent <- RepoParent
  HasGit <- RepoGit
  Here = repo
  PsAnswers = TRUE
  LsofAnswers = TRUE
  Pids = {p1, p2}
  Claude = {p1, p2}
  Calls = {x1, x2}
  Mcp = {x1}
  MaxWork = 2
  Requests = {x1, r1}
SPECIFICATION Spec
CHECK_DEADLOCK FALSE
INVARIANT TypeOK
INVARIANT ApprovedApart
INVARIANT TellsTheTruth
INVARIANT PipedIsAnswered
