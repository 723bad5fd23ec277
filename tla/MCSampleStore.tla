---------------------------- MODULE MCSampleStore ----------------------------
(* SampleStore with one daemon and two sessions.                             *)
EXTENDS SampleStore
==============================================================================
