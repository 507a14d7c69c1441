---------------------------- MODULE MCSourceMine ----------------------------
(* SourceMine for TLC: the first version of the file has a chunk more.     *)
EXTENDS SourceMine, TLC

MCChunksOf == [v \in FileVersions |-> IF v = "v1" THEN {"a", "b"} ELSE {"a"}]
=============================================================================
