------------------------------ MODULE RecordLog ------------------------------
(***************************************************************************)
(* What a probe promises about one record file, without buffer, dump or    *)
(* call order: the file always holds a prefix of the records taken, it     *)
(* only grows, and a run that is closed has stored them all.  A killed run *)
(* keeps what was stored and loses the rest.                               *)
(***************************************************************************)
EXTENDS Integers, Sequences

CONSTANT Record

VARIABLES
  taken,   \* every record taken, in order
  stored,  \* the rows of the file
  status   \* "open", "done" by finalize, or "dead"

rlvars == <<taken, stored, status>>

RLInit == taken = <<>> /\ stored = <<>> /\ status = "open"

Measure ==
  /\ status = "open"
  /\ \E r \in Record : taken' = Append(taken, r)
  /\ UNCHANGED <<stored, status>>

(* Some more of the records taken reach the file, in order.                *)
Extend == \E n \in Len(stored) .. Len(taken) : stored' = SubSeq(taken, 1, n)

Persist ==
  /\ status = "open"
  /\ Extend
  /\ UNCHANGED <<taken, status>>

Close ==
  /\ status = "open" /\ stored = taken
  /\ status' = "done"
  /\ UNCHANGED <<taken, stored>>

Lose ==
  /\ status = "open"
  /\ Extend
  /\ status' = "dead"
  /\ UNCHANGED taken

RLNext == Measure \/ Persist \/ Close \/ Lose

RLSpec == RLInit /\ [][RLNext]_rlvars
=============================================================================
