----------------------------- MODULE MCTranscript -----------------------------
(* Transcript and the snapshots made of it, with two tools and a window       *)
(* shorter than the file.                                                     *)
EXTENDS Snapshot
===============================================================================
