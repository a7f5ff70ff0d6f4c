------------------------------ MODULE MCIndexer ------------------------------
(* Instances of Indexer for TLC.                                           *)
EXTENDS Indexer

(* 1 is the root commit, 2 follows it and reverts it, 3 forks off at 1.    *)
MCHistory == [s \in Sha |-> {1, s}]
MCReverts == {2}
MCTrailer == [s \in Sha |-> IF s = 2 THEN {1} ELSE {}]
=============================================================================
