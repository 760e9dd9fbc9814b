----------------------------- MODULE MCCreator -----------------------------
(* CreatorJob with few jobs and few loads, for TLC. *)
EXTENDS CreatorJob
=============================================================================
