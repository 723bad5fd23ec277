CONSTANTS
  repo = repo
  pkgA = pkgA
  tree = tree
  NoDir = NoDir
  Dirs <- RepoDirs
  Parent <- RepoParent
  HasGit <- RepoGit
  Here = repo
  PsAnswers = TRUE
  LsofAnswers = FALSE
  Pids = {p1, p2}
  Claude = {p1, p2}
  Calls = {x1, x2}
  Mcp = {x1, x2}
  MaxWork = 2
  Requests = {x1, x2}
SPECIFICATION Spec
CHECK_DEADLOCK FALSE
INVARIANT ApprovedApart
