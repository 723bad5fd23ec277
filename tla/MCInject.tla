------------------------------- MODULE MCInject -------------------------------
(* The MCP server over a small tree: a repository with a package in it, and a *)
(* worktree that is checked out inside it.                                    *)
EXTENDS McpServer
CONSTANTS repo, pkgA, tree
RepoDirs == {repo, pkgA, tree}
RepoParent == [d \in RepoDirs |-> IF d = repo THEN NoDir ELSE repo]
RepoGit == {repo, tree}
===============================================================================
