---------------------------- MODULE MCOffsetStore ----------------------------
(***************************************************************************)
(* An instance of OffsetStore for TLC: two keys, four commits.             *)
(***************************************************************************)
EXTENDS OffsetStore

MCKeys == {"k1", "k2"}
=============================================================================
