---------------------------- MODULE MCIndexStore ----------------------------
(* One process has the next version of the binary. Two migrations are as    *)
(* many as the readers tell apart.                                          *)
EXTENDS IndexStore, MCClassification, MCConfig, MCCommandLine

CONSTANTS Newer
MCLatest == [p \in Proc |-> IF p = Newer THEN 3 ELSE 2]
==============================================================================
