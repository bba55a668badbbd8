------------------------------ MODULE PhInitMC ------------------------------
(***************************************************************************)
(* Instances of PhInit: jobs that race for one data root.  Ranks 0 and 1   *)
(* share a host, rank 2 is on another one.                                 *)
(***************************************************************************)
EXTENDS PhInit

Hosts2 == {"h1", "h2"}
HostOf3 == [r \in 0 .. 2 |-> IF r < 2 THEN "h1" ELSE "h2"]

(* An MPI job of three ranks, a serial program, an MPI job of one rank.    *)
Mixed == [j \in {"A", "S", "M"} |-> IF j = "A" THEN 3 ELSE 1]
(* Two MPI jobs of two ranks.                                              *)
Pair2 == [j \in {"A", "B"} |-> 2]
=============================================================================
