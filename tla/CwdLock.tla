------------------------------- MODULE CwdLock -------------------------------
(* src/src/sessions/lock.ts over a directory tree: which two working          *)
(* directories may not both be injected into.  Every directory of Dirs is     *)
(* there: realpath of one that was removed fails, and then detectConflict     *)
(* finds no conflict (lines 48-52) and findGitRoot no root (27-31).           *)
EXTENDS Naturals, FiniteSets

CONSTANTS Dirs,     \* canonical directories (realpath has been applied)
          Parent,   \* dirname; the parent of a topmost one is not in Dirs
          HasGit,   \* directories with a .git entry
          NoDir     \* null

ASSUME TreeAssumption ==
  /\ NoDir \notin Dirs
  /\ HasGit \subseteq Dirs
  /\ Parent \in [Dirs -> Dirs \union {NoDir}]

\* a.startsWith(b + sep): b is a proper ancestor of a.
Above[d \in Dirs] ==
  IF Parent[d] = NoDir THEN {} ELSE {Parent[d]} \union Above[Parent[d]]

Nested(a, b) == a \in Above[b] \/ b \in Above[a]

\* findGitRoot: the nearest directory with a .git entry, walking up.
FindGitRoot[d \in Dirs] ==
  CASE d \in HasGit -> d
    [] d \notin HasGit /\ Parent[d] # NoDir -> FindGitRoot[Parent[d]]
    [] OTHER -> NoDir

\* ga && gb && ga !== gb
SeparateRoots(a, b) ==
  /\ FindGitRoot[a] # NoDir
  /\ FindGitRoot[b] # NoDir
  /\ FindGitRoot[a] # FindGitRoot[b]

\* Mutant: only the first directory is tried as the inner one.
DetectConflictOneWay(a, b) == a = b \/ (b \in Above[a] /\ ~SeparateRoots(a, b))
DetectConflict(a, b) == a = b \/ (Nested(a, b) /\ ~SeparateRoots(a, b))
=============================================================================
