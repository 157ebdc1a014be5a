--------------------------- MODULE MCUploadQueue ---------------------------
(* Small instances of UploadQueue; files of one kind are interchangeable.   *)
EXTENDS UploadQueue, TLC

Symmetry == Permutations(Files \ Blobs) \cup Permutations(Blobs)
=============================================================================
