---------------------------- MODULE MCWriterLock ----------------------------
(* Instances of WriterLock for TLC.                                        *)
EXTENDS WriterLock, TLC

(* Processes and inodes are interchangeable; used by safety runs only.     *)
Symmetry == Permutations(Proc) \cup Permutations(Inode)
=============================================================================
