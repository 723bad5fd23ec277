----------------------------- MODULE MCAuditLog -----------------------------
(* AuditLog with one writing process.                                        *)
EXTENDS AuditLogRefinement, AuditTail
CONSTANT p1
OneProc == {p1}
=============================================================================
