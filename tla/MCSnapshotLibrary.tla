--------------------------- MODULE MCSnapshotLibrary ---------------------------
(* Symmetric capture times and requests for TLC, and application data with *)
(* two files named like an archive.                                        *)
EXTENDS SnapshotLibrary, TLC

TwoPerJob == [job : Jobs, file : {"var/snapshot.zip", "old/snapshot.zip"}]

Symmetries == Permutations(Stamps) \cup Permutations(Requests)
================================================================================
