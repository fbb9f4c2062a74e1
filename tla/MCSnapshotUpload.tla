--------------------------- MODULE MCSnapshotUpload --------------------------
(* SnapshotUpload with three snapshots, the last two cut at the same point. *)
EXTENDS SnapshotUpload

MCIds == 1 .. 3
MCCut == [id \in MCIds |-> IF id = 1 THEN 1 ELSE 2]

=============================================================================
