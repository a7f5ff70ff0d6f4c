--------------------------- MODULE ResumableIndex ---------------------------
(***************************************************************************)
(* What the indexer promises of its resume point (indexer.rs:19-24 and     *)
(* 630-631), with no word about runs, chunks, crashes or git: rows are     *)
(* only added, and the watermark moves only onto commits whose whole       *)
(* history is in rows. A rebuild starts over.                              *)
(***************************************************************************)
CONSTANTS Sha, History, RefName, NoSha

VARIABLES
  rows,  \* commits in the index
  mark   \* ref name -> commit at which the walk of that ref resumes

vars == <<rows, mark>>

Covered(s) == s = NoSha \/ History[s] \subseteq rows

Init ==
  /\ rows \subseteq Sha
  /\ mark \in [RefName -> Sha \cup {NoSha}]
  /\ \A r \in RefName : Covered(mark[r])

Persist ==
  /\ rows \subseteq rows' /\ rows' \subseteq Sha
  /\ UNCHANGED mark

Advance ==
  /\ mark' \in [RefName -> Sha \cup {NoSha}]
  /\ \A r \in RefName : Covered(mark'[r])
  /\ UNCHANGED rows

StartOver ==
  /\ rows' = {}
  /\ mark' = [r \in RefName |-> NoSha]

Next == Persist \/ Advance \/ StartOver

Spec == Init /\ [][Next]_vars
=============================================================================
