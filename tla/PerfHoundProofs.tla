--------------------------- MODULE PerfHoundProofs ---------------------------
(***************************************************************************)
(* Theorems about the serial probe for every buffer size, event limit, set *)
(* of tags and number of calls and faults.                                 *)
(***************************************************************************)
EXTENDS PerfHound, SequenceTheorems, FiniteSetTheorems, TLAPS

USE DEF Slots

(* The automatic dump pushed in front of what its caller still has to do.  *)
LEMMA PushOnNothing == DumpSteps \o <<>> = <<"S_dump", "wtrec", "E_dump">>
  BY DEF DumpSteps

(* Concatenation of a triple and a pair.                                   *)
LEMMA ConcatLiteral ==
  ASSUME NEW S, NEW a \in S, NEW b \in S, NEW c \in S, NEW x \in S, NEW y \in S
  PROVE  <<a, b, c>> \o <<x, y>> = <<a, b, c, x, y>>
<1>1. <<a, b, c>> \in Seq(S) /\ <<x, y>> \in Seq(S) /\ <<a, b, c, x, y>> \in Seq(S)
  OBVIOUS
<1>2. <<a, b, c>> \o <<x, y>> \in Seq(S)
  BY <1>1, ConcatProperties
<1>3. Len(<<a, b, c>> \o <<x, y>>) = 5 /\ Len(<<a, b, c, x, y>>) = 5
  OBVIOUS
<1>4. \A i \in 1 .. 5 : (<<a, b, c>> \o <<x, y>>)[i] = <<a, b, c, x, y>>[i]
  OBVIOUS
<1> QED
  BY <1>1, <1>2, <1>3, <1>4, SeqEqual

(* The dump in front of the two steps that a ph_dump or a ph_finalize has  *)
(* left.                                                                   *)
LEMMA PushOnTwo ==
  /\ DumpSteps \o <<"wtrec", "E_dump">>
       = <<"S_dump", "wtrec", "E_dump", "wtrec", "E_dump">>
  /\ DumpSteps \o <<"flush", "wtinfo">>
       = <<"S_dump", "wtrec", "E_dump", "flush", "wtinfo">>
<1> DEFINE S == {"S_dump", "wtrec", "E_dump", "flush", "wtinfo"}
<1>1. \A x, y \in S : <<"S_dump", "wtrec", "E_dump">> \o <<x, y>>
                        = <<"S_dump", "wtrec", "E_dump", x, y>>
  <2> SUFFICES ASSUME NEW x \in S, NEW y \in S
               PROVE  <<"S_dump", "wtrec", "E_dump">> \o <<x, y>>
                        = <<"S_dump", "wtrec", "E_dump", x, y>>
    OBVIOUS
  <2>1. "S_dump" \in S /\ "wtrec" \in S /\ "E_dump" \in S
    OBVIOUS
  <2> HIDE DEF S
  <2> QED BY <2>1, ConcatLiteral
<1>2. {"wtrec", "E_dump", "flush", "wtinfo"} \subseteq S
  OBVIOUS
<1> HIDE DEF S
<1> QED BY <1>1, <1>2, Zenon DEF DumpSteps

-----------------------------------------------------------------------------
(* The call stack keeps its shape, whatever is recorded, fails or dies.    *)

IInv == StackInv /\ ph_irec \in Nat

LEMMA InitStack == Init => IInv
  BY DEF Init, IInv, StackInv, StackShape

(* A call starts from an idle stack.                                       *)
LEMMA CallStack ==
  ASSUME IInv,
         \/ \E e \in Events : ph_set_evt(e)
         \/ ph_commit
         \/ \E t \in UserTags : ph_read(t)
         \/ ph_dump
         \/ ph_finalize
  PROVE  IInv'
<1> USE BufAssumption DEF IInv, StackInv, StackShape, Call, Idle, memory
<1>1. CASE \E e \in Events : ph_set_evt(e)
  BY <1>1 DEF ph_set_evt
<1>2. CASE ph_commit
  BY <1>2 DEF ph_commit
<1>3. CASE \E t \in UserTags : ph_read(t)
  BY <1>3 DEF ph_read
<1>4. CASE ph_dump
  BY <1>4 DEF ph_dump, DumpSteps
<1>5. CASE ph_finalize
  BY <1>5 DEF ph_finalize
<1> QED
  BY <1>1, <1>2, <1>3, <1>4, <1>5

(* A store that enters ph_dump, and one that does not.                     *)
LEMMA PutStack ==
  ASSUME IInv, NEW t \in Tags, Put(t)
  PROVE  IInv' /\ ph_irec < BufNrec
<1> USE BufAssumption DEF IInv
<1>1. /\ todo # <<>> /\ Head(todo) = t
      /\ ph_irec' = ph_irec + 1
      /\ phase' = phase
      /\ IF ph_irec + 2 = BufNrec THEN todo' = DumpSteps \o Tail(todo)
                                  ELSE todo' = Tail(todo)
  BY DEF Put, At, NeedDump, Store
<1>2. t \notin Ops
  BY TagAssumption DEF Tags, ProbeTags, DumpTags, Ops
<1>3. CASE todo = <<"S_main">> /\ ph_irec = 0 /\ phase = "open"
  BY <1>1, <1>3, PushOnNothing DEF StackInv, StackShape
<1>4. CASE \E u \in UserTags : todo = <<u>> /\ ph_irec \in 1 .. BufNrec - 2 /\ phase = "open"
  <2>1. Tail(todo) = <<>>
    BY <1>4
  <2> QED BY <1>1, <1>4, <2>1, PushOnNothing DEF StackInv, StackShape
<1>5. CASE todo = <<"S_dump", "wtrec", "E_dump">> /\ ph_irec \in 1 .. BufNrec - 1 /\ phase = "open"
  <2>1. Tail(todo) = <<"wtrec", "E_dump">>
    BY <1>5
  <2>2. CASE ph_irec + 2 = BufNrec
    <3>1. todo' = <<"S_dump", "wtrec", "E_dump", "wtrec", "E_dump">>
      BY <1>1, <2>1, <2>2, PushOnTwo
    <3> QED BY <1>1, <1>5, <2>2, <3>1 DEF StackInv, StackShape
  <2>3. CASE ph_irec + 2 # BufNrec
    <3>1. todo' = <<"wtrec", "E_dump">>
      BY <1>1, <2>1, <2>3
    <3> QED BY <1>1, <1>5, <3>1 DEF StackInv, StackShape
  <2> QED BY <2>2, <2>3
<1>6. CASE todo = <<"S_dump", "wtrec", "E_dump", "wtrec", "E_dump">> /\ ph_irec = BufNrec - 1
           /\ phase = "open"
  <2>1. todo' = <<"wtrec", "E_dump", "wtrec", "E_dump">>
    BY <1>1, <1>6
  <2> QED BY <1>1, <1>6, <2>1 DEF StackInv, StackShape
<1>7. CASE todo \in {<<"E_dump">>, <<"E_dump", "wtrec", "E_dump">>} /\ ph_irec = 0 /\ phase = "open"
  <2>1. CASE todo = <<"E_dump">>
    <3>1. todo' = <<>>
      BY <1>1, <1>7, <2>1
    <3> QED BY <1>1, <1>7, <3>1 DEF StackInv, StackShape
  <2>2. CASE todo = <<"E_dump", "wtrec", "E_dump">>
    <3>1. todo' = <<"wtrec", "E_dump">>
      BY <1>1, <1>7, <2>2
    <3> QED BY <1>1, <1>7, <3>1 DEF StackInv, StackShape
  <2> QED BY <1>7, <2>1, <2>2
<1>8. CASE todo = <<"E_main", "flush", "wtinfo">> /\ ph_irec \in 1 .. BufNrec - 2 /\ phase = "closing"
  <2>1. Tail(todo) = <<"flush", "wtinfo">>
    BY <1>8
  <2>2. CASE ph_irec + 2 = BufNrec
    <3>1. todo' = <<"S_dump", "wtrec", "E_dump", "flush", "wtinfo">>
      BY <1>1, <2>1, <2>2, PushOnTwo
    <3> QED BY <1>1, <1>8, <2>2, <3>1 DEF StackInv, StackShape
  <2>3. CASE ph_irec + 2 # BufNrec
    <3>1. todo' = <<"flush", "wtinfo">>
      BY <1>1, <2>1, <2>3
    <3> QED BY <1>1, <1>8, <3>1 DEF StackInv, StackShape
  <2> QED BY <2>2, <2>3
<1>9. CASE todo = <<"S_dump", "wtrec", "E_dump", "flush", "wtinfo">> /\ ph_irec = BufNrec - 1
           /\ phase = "closing"
  <2>1. todo' = <<"wtrec", "E_dump", "flush", "wtinfo">>
    BY <1>1, <1>9
  <2> QED BY <1>1, <1>9, <2>1 DEF StackInv, StackShape
<1>10. CASE todo = <<"E_dump", "flush", "wtinfo">> /\ ph_irec = 0 /\ phase = "closing"
  <2>1. todo' = <<"flush", "wtinfo">>
    BY <1>1, <1>10
  <2> QED BY <1>1, <1>10, <2>1 DEF StackInv, StackShape
<1>11. Head(todo) \notin {"mkrec", "wtrec", "flush", "wtinfo"}
  BY <1>1, <1>2 DEF Ops
<1> QED
  BY <1>1, <1>3, <1>4, <1>5, <1>6, <1>7, <1>8, <1>9, <1>10, <1>11 DEF StackInv, StackShape

(* The other steps and the crash.                                          *)
LEMMA OtherStack ==
  ASSUME IInv,
         \/ \E ok \in BOOLEAN : MkRec(ok) \/ WtRec(ok) \/ Flush(ok) \/ WtInfo(ok)
         \/ Crash
  PROVE  IInv'
<1> USE BufAssumption DEF IInv
<1>1. ASSUME NEW ok \in BOOLEAN, MkRec(ok) PROVE IInv'
  <2>1. At("mkrec")
    BY <1>1 DEF MkRec
  <2>2. todo = <<"mkrec", "S_main">> /\ phase = "open"
    BY <2>1, TagAssumption DEF StackInv, StackShape, At, Ops
  <2>3. CASE ok
    <3>1. todo' = <<"S_main">> /\ ph_irec' = 0 /\ phase' = "open"
      BY <1>1, <2>2, <2>3 DEF MkRec
    <3> QED BY <3>1 DEF StackInv, StackShape
  <2>4. CASE ~ok
    <3>1. todo' = <<>> /\ ph_irec' = ph_irec /\ phase' = "dead"
      BY <1>1, <2>4 DEF MkRec
    <3> QED BY <3>1 DEF StackInv, StackShape
  <2> QED BY <2>3, <2>4
<1>2. ASSUME NEW ok \in BOOLEAN, WtRec(ok) PROVE IInv'
  <2>1. At("wtrec") /\ ph_irec' = 0 /\ todo' = Tail(todo) /\ phase' = phase
    BY <1>2 DEF WtRec, Reset
  <2>2. \/ todo = <<"wtrec", "E_dump">> /\ phase = "open"
        \/ todo = <<"wtrec", "E_dump", "wtrec", "E_dump">> /\ phase = "open"
        \/ todo = <<"wtrec", "E_dump", "flush", "wtinfo">> /\ phase = "closing"
    BY <2>1, TagAssumption DEF StackInv, StackShape, At, Ops
  <2>3. CASE todo = <<"wtrec", "E_dump">> /\ phase = "open"
    <3>1. todo' = <<"E_dump">>
      BY <2>1, <2>3
    <3> QED BY <2>1, <2>3, <3>1 DEF StackInv, StackShape
  <2>4. CASE todo = <<"wtrec", "E_dump", "wtrec", "E_dump">> /\ phase = "open"
    <3>1. todo' = <<"E_dump", "wtrec", "E_dump">>
      BY <2>1, <2>4
    <3> QED BY <2>1, <2>4, <3>1 DEF StackInv, StackShape
  <2>5. CASE todo = <<"wtrec", "E_dump", "flush", "wtinfo">> /\ phase = "closing"
    <3>1. todo' = <<"E_dump", "flush", "wtinfo">>
      BY <2>1, <2>5
    <3> QED BY <2>1, <2>5, <3>1 DEF StackInv, StackShape
  <2> QED BY <2>2, <2>3, <2>4, <2>5
<1>3. ASSUME NEW ok \in BOOLEAN, Flush(ok) PROVE IInv'
  <2>1. At("flush") /\ ph_irec' = ph_irec /\ todo' = Tail(todo) /\ phase' = phase
    BY <1>3 DEF Flush
  <2>2. todo = <<"flush", "wtinfo">> /\ phase = "closing" /\ ph_irec \in 1 .. BufNrec
    BY <2>1, TagAssumption DEF StackInv, StackShape, At, Ops
  <2>3. todo' = <<"wtinfo">>
    BY <2>1, <2>2
  <2> QED BY <2>1, <2>2, <2>3 DEF StackInv, StackShape
<1>4. ASSUME NEW ok \in BOOLEAN, WtInfo(ok) PROVE IInv'
  BY <1>4 DEF WtInfo, memory, StackInv, StackShape
<1>5. CASE Crash
  BY <1>5 DEF Crash, memory, StackInv, StackShape, Rows
<1> QED
  BY <1>1, <1>2, <1>3, <1>4, <1>5

LEMMA NextStack == IInv /\ [Next]_vars => IInv'
<1> SUFFICES ASSUME IInv, [Next]_vars PROVE IInv'
  OBVIOUS
<1>1. CASE Next
  BY <1>1, CallStack, PutStack, OtherStack DEF Next, Step, Stopped, vars, memory, IInv, StackInv, StackShape
<1>2. CASE UNCHANGED vars
  BY <1>2 DEF vars, memory, IInv, StackInv, StackShape
<1> QED
  BY <1>1, <1>2

(* The shapes of the call stack and the range of the index hold for every  *)
(* buffer of at least three records.                                       *)
THEOREM StackCorrect == Spec => []StackInv
<1>1. IInv => StackInv
  BY DEF IInv
<1> QED
  BY InitStack, NextStack, <1>1, PTL DEF Spec

(* No record is ever stored past the end of the buffer.                    *)
THEOREM BufferSafe == Spec => []NoOverrun
<1>1. IInv => NoOverrun
  <2> SUFFICES ASSUME IInv, NEW t \in Tags, At(t) PROVE ph_irec < BufNrec
    BY DEF NoOverrun
  <2>1. t \notin Ops
    BY TagAssumption DEF Tags, ProbeTags, DumpTags, Ops
  <2> QED
    BY <2>1, BufAssumption DEF IInv, StackInv, StackShape, At, Ops
<1> QED
  BY InitStack, NextStack, <1>1, PTL DEF Spec

-----------------------------------------------------------------------------
(* Types.                                                                  *)

(* The slots below the index hold records.                                 *)
FilledOK == \A i \in 0 .. ph_irec - 1 : ph_precs[i] \in Recs

(* Every shape of the call stack is a sequence of steps.                   *)
LEMMA StackType ==
  ASSUME NEW stack, NEW p, NEW irec, StackShape(stack, p, irec)
  PROVE  stack \in Seq(Tags \cup Ops)
<1> DEFINE S == Tags \cup Ops
<1>1. /\ {"S_main", "E_main", "S_dump", "E_dump", "mkrec", "wtrec", "flush", "wtinfo"} \subseteq S
      /\ UserTags \subseteq S
  BY DEF Tags, ProbeTags, DumpTags, Ops
<1> HIDE DEF S
<1>2. stack \in Seq(S)
  <2>1. \/ stack = <<>>
        \/ \E a \in S : stack = <<a>>
        \/ \E a, b \in S : stack = <<a, b>>
        \/ \E a, b, c \in S : stack = <<a, b, c>>
        \/ \E a, b, c, d \in S : stack = <<a, b, c, d>>
        \/ \E a, b, c, d, e \in S : stack = <<a, b, c, d, e>>
    BY <1>1, Zenon DEF StackShape
  <2>2. CASE \E a \in S : stack = <<a>>
    <3>1. PICK a \in S : stack = <<a>>
      BY <2>2
    <3> QED BY <3>1
  <2>3. CASE \E a, b \in S : stack = <<a, b>>
    <3>1. PICK a \in S, b \in S : stack = <<a, b>>
      BY <2>3
    <3> QED BY <3>1
  <2>4. CASE \E a, b, c \in S : stack = <<a, b, c>>
    <3>1. PICK a \in S, b \in S, c \in S : stack = <<a, b, c>>
      BY <2>4
    <3> QED BY <3>1
  <2>5. CASE \E a, b, c, d \in S : stack = <<a, b, c, d>>
    <3>1. PICK a \in S, b \in S, c \in S, d \in S : stack = <<a, b, c, d>>
      BY <2>5
    <3> QED BY <3>1
  <2>6. CASE \E a, b, c, d, e \in S : stack = <<a, b, c, d, e>>
    <3>1. PICK a \in S, b \in S, c \in S, d \in S, e \in S : stack = <<a, b, c, d, e>>
      BY <2>6
    <3> QED BY <3>1
  <2>7. CASE stack = <<>>
    BY <2>7
  <2> QED
    BY <2>1, <2>2, <2>3, <2>4, <2>5, <2>6, <2>7
<1> QED
  BY <1>2 DEF S

(* The records in the first n slots of a buffer.                           *)
LEMMA SlotsSeq ==
  ASSUME NEW n \in 0 .. BufNrec, NEW f, \A i \in 0 .. n - 1 : f[i] \in Recs
  PROVE  /\ [i \in 1 .. n |-> f[i - 1]] \in Seq(Recs)
         /\ Len([i \in 1 .. n |-> f[i - 1]]) = n
<1>1. n \in Nat
  BY BufAssumption
<1>2. [i \in 1 .. n |-> f[i - 1]] \in [1 .. n -> Recs]
  BY <1>1
<1> QED
  BY <1>1, <1>2

(* What ph_io_wtrec writes.                                                *)
LEMMA BufferedSeq ==
  ASSUME ph_irec \in 0 .. BufNrec, FilledOK
  PROVE  /\ Buffered \in Seq(Recs)
         /\ Len(Buffered) = ph_irec
         /\ \A i \in 1 .. ph_irec : Buffered[i] = ph_precs[i - 1]
<1>1. ph_irec \in Nat
  BY BufAssumption
<1>2. Buffered \in [1 .. ph_irec -> Recs]
  BY <1>1 DEF Buffered, FilledOK
<1> QED
  BY <1>1, <1>2 DEF Buffered

(* Types together with the shape of the stack are inductive.               *)
TInv == IInv /\ TypeOK /\ FilledOK

LEMMA InitTyped == Init => TypeOK /\ FilledOK
<1> SUFFICES ASSUME Init PROVE TypeOK /\ FilledOK
  OBVIOUS
<1>1. FilledOK
  BY DEF Init, FilledOK
<1>2. /\ rec_rows \in Seq(Recs) /\ log \in Seq(Recs) /\ todo \in Seq(Tags \cup Ops)
      /\ etag \in Seq([id : Nat, name : Events])
      /\ run_info \in Seq([nevent : Nat, ngroup : Nat])
  BY EmptySeq, Zenon DEF Init
<1>3. /\ ph_irec \in 0 .. BufNrec /\ calls \in 0 .. MaxCalls /\ fails \in 0 .. MaxFail
      /\ ph_precs \in [Slots -> Recs \cup {NoRec}]
      /\ ph_evcodes \in [0 .. NevMax -> Events \cup {"none"}]
  BY BufAssumption, BoundAssumption DEF Init
<1>4. TypeOK
  BY <1>2, <1>3 DEF Init, TypeOK
<1> QED
  BY <1>1, <1>4

(* A store keeps the types: the slot is in the buffer.                     *)
LEMMA PutTyped ==
  ASSUME TInv, NEW t \in Tags, Put(t), IInv'
  PROVE  TypeOK' /\ FilledOK'
<1> DEFINE r == [tag |-> t, uval |-> Uval(t)]
<1>1. ph_irec \in 0 .. BufNrec - 1
  BY PutStack, BufAssumption DEF TInv, TypeOK
<1>2. r \in Recs
  BY <1>1, BufAssumption DEF Recs, Uval
<1>3. /\ ph_precs' = [ph_precs EXCEPT ![ph_irec] = r]
      /\ ph_irec' = ph_irec + 1
      /\ log' = Append(log, r)
      /\ UNCHANGED <<phase, ph_ready, ph_nev, ph_evcodes, nrec_tot, rec_hdr, rec_rows,
                     torn, rec_cols, etag, run_info, calls, fails>>
  BY DEF Put, disk, Store
<1>4. todo' \in Seq(Tags \cup Ops)
  BY StackType DEF IInv, StackInv
<1>5. ph_precs' \in [Slots -> Recs \cup {NoRec}]
  BY <1>1, <1>2, <1>3 DEF TInv, TypeOK
<1>6. ph_irec' \in 0 .. BufNrec
  BY <1>1, <1>3, BufAssumption
<1>7. log' \in Seq(Recs)
  BY <1>2, <1>3 DEF TInv, TypeOK
<1>8. FilledOK'
  BY <1>1, <1>2, <1>3, BufAssumption DEF TInv, TypeOK, FilledOK
<1> HIDE DEF r
<1> QED
  BY <1>3, <1>4, <1>5, <1>6, <1>7, <1>8 DEF TInv, TypeOK

LEMMA AppendType ==
  ASSUME NEW S, NEW s \in Seq(S), NEW x \in S
  PROVE  Append(s, x) \in Seq(S)
  OBVIOUS

(* The writes keep the types.                                              *)
LEMMA WriteTyped ==
  ASSUME TInv, NEW ok \in BOOLEAN, WriteRows(ok)
  PROVE  /\ rec_rows' \in Seq(Recs)
         /\ rec_cols' \subseteq Nat
         /\ nrec_tot' \in Nat
         /\ fails' \in 0 .. MaxFail
<1>1. Buffered \in Seq(Recs)
  BY BufferedSeq DEF TInv, TypeOK
<1>2. rec_rows' \in Seq(Recs)
  BY <1>1, ConcatProperties DEF WriteRows, TInv, TypeOK, Rows
<1>3. rec_cols' \subseteq Nat
  BY DEF WriteRows, TInv, TypeOK, Rows
<1>4. nrec_tot' \in Nat
  BY BufAssumption DEF WriteRows, Count, TInv, TypeOK
<1>5. fails' \in 0 .. MaxFail
  BY BoundAssumption DEF WriteRows, Open, TInv, TypeOK
<1> QED
  BY <1>2, <1>3, <1>4, <1>5

LEMMA NextTyped ==
  ASSUME TInv, IInv', [Next]_vars
  PROVE  TypeOK' /\ FilledOK'
<1>1. todo' \in Seq(Tags \cup Ops)
  BY StackType DEF IInv, StackInv
<1>2. ASSUME NEW e \in Events, ph_set_evt(e) PROVE TypeOK' /\ FilledOK'
  <2>1. FilledOK'
    BY <1>2 DEF ph_set_evt, Call, TInv, FilledOK
  <2>2. calls' \in 0 .. MaxCalls
    BY <1>2, BoundAssumption DEF ph_set_evt, Call, TInv, TypeOK
  <2>3. ph_nev' \in Nat /\ ph_evcodes' \in [0 .. NevMax -> Events \cup {"none"}]
    <3>1. \/ UNCHANGED <<ph_nev, ph_evcodes>>
          \/ /\ ph_nev <= NevMax /\ e \in Supported
             /\ ph_evcodes' = [ph_evcodes EXCEPT ![ph_nev] = e]
             /\ ph_nev' = ph_nev + 1
      BY <1>2, Zenon DEF ph_set_evt, MaySet
    <3>2. ph_nev \in Nat /\ ph_evcodes \in [0 .. NevMax -> Events \cup {"none"}]
      BY DEF TInv, TypeOK
    <3> QED BY <3>1, <3>2, EventAssumption
  <2>4. etag' \in Seq([id : Nat, name : Events])
    <3>1. /\ [id |-> ph_nev, name |-> e] \in [id : Nat, name : Events]
          /\ ph_nev <= NevMax =>
               [id |-> ph_nev + 1, name |-> e] \in [id : Nat, name : Events]
      BY EventAssumption DEF TInv, TypeOK
    <3>2. \/ etag' = etag
          \/ etag' = Append(etag, [id |-> ph_nev, name |-> e])
          \/ ph_nev <= NevMax /\ etag' = Append(etag, [id |-> ph_nev + 1, name |-> e])
      BY <1>2, Zenon DEF ph_set_evt, MaySet, EtagRow
    <3>3. etag \in Seq([id : Nat, name : Events])
      BY DEF TInv, TypeOK
    <3> QED BY <3>1, <3>2, <3>3, AppendType, Zenon
  <2> QED
    BY <1>1, <1>2, <2>1, <2>2, <2>3, <2>4 DEF ph_set_evt, TInv, TypeOK
<1>3. CASE ph_commit
  BY <1>1, <1>3 DEF ph_commit, memory, disk, TInv, TypeOK, FilledOK
<1>4. ASSUME NEW t \in UserTags, ph_read(t) PROVE TypeOK' /\ FilledOK'
  BY <1>1, <1>4, BoundAssumption DEF ph_read, Call, memory, disk, TInv, TypeOK, FilledOK
<1>5. CASE ph_dump
  BY <1>1, <1>5, BoundAssumption DEF ph_dump, Call, memory, disk, TInv, TypeOK, FilledOK
<1>6. CASE ph_finalize
  BY <1>1, <1>6 DEF ph_finalize, memory, disk, TInv, TypeOK, FilledOK
<1>7. ASSUME NEW ok \in BOOLEAN, MkRec(ok) PROVE TypeOK' /\ FilledOK'
  <2>1. FilledOK'
    BY <1>7 DEF MkRec, TInv, FilledOK
  <2>2. /\ phase' \in {"setup", "open", "closing", "done", "dead"}
        /\ ph_ready' \in BOOLEAN
        /\ ph_irec' \in 0 .. BufNrec
        /\ fails' \in 0 .. MaxFail
    <3>1. /\ \/ ph_ready' = TRUE /\ ph_irec' = 0 /\ phase' = phase
             \/ phase' = "dead" /\ UNCHANGED <<ph_ready, ph_irec>>
          /\ \/ fails' = fails
             \/ fails < MaxFail /\ fails' = fails + 1
      BY <1>7, Zenon DEF MkRec, Open
    <3>2. /\ phase \in {"setup", "open", "closing", "done", "dead"}
          /\ ph_ready \in BOOLEAN
          /\ ph_irec \in 0 .. BufNrec
          /\ fails \in 0 .. MaxFail
      BY DEF TInv, TypeOK
    <3>3. phase' \in {"setup", "open", "closing", "done", "dead"}
      BY <3>1, <3>2, Zenon
    <3>4. ph_ready' \in BOOLEAN
      BY <3>1, <3>2, Zenon
    <3>5. ph_irec' = 0 \/ ph_irec' = ph_irec
      BY <3>1, Zenon
    <3>6. fails' = fails \/ (fails < MaxFail /\ fails' = fails + 1)
      BY <3>1, Zenon
    <3>7. ph_irec' \in 0 .. BufNrec
      BY <3>2, <3>5, BufAssumption
    <3>8. fails' \in 0 .. MaxFail
      BY <3>2, <3>6, BoundAssumption
    <3> QED BY <3>3, <3>4, <3>7, <3>8
  <2>3. /\ rec_hdr' \in {NoFile} \cup Nat
        /\ rec_rows' \in Seq(Recs)
        /\ rec_cols' \subseteq Nat
    <3>1. \/ rec_hdr' = ph_nev /\ rec_rows' = <<>> /\ rec_cols' = {}
          \/ UNCHANGED <<rec_hdr, rec_rows, rec_cols>>
      BY <1>7, Zenon DEF MkRec
    <3>2. /\ rec_hdr \in {NoFile} \cup Nat
          /\ rec_rows \in Seq(Recs)
          /\ rec_cols \subseteq Nat
          /\ ph_nev \in Nat
      BY DEF TInv, TypeOK
    <3> QED BY <3>1, <3>2, EmptySeq, Zenon
  <2> QED
    BY <1>1, <1>7, <2>1, <2>2, <2>3 DEF MkRec, TInv, TypeOK
<1>8. ASSUME NEW ok \in BOOLEAN, WtRec(ok) PROVE TypeOK' /\ FilledOK'
  <2>1. WriteRows(ok) /\ ph_irec' = 0 /\ ph_precs' = ph_precs
    BY <1>8 DEF WtRec, Reset
  <2>2. FilledOK' /\ ph_irec' \in 0 .. BufNrec
    BY <2>1, BufAssumption DEF FilledOK
  <2> QED
    BY <1>1, <1>8, <2>1, <2>2, WriteTyped DEF WtRec, TInv, TypeOK, Reset
<1>9. ASSUME NEW ok \in BOOLEAN, Flush(ok) PROVE TypeOK' /\ FilledOK'
  <2>1. WriteRows(ok) /\ ph_irec' = ph_irec /\ ph_precs' = ph_precs
    BY <1>9 DEF Flush
  <2>2. FilledOK'
    BY <2>1 DEF TInv, FilledOK
  <2> QED
    BY <1>1, <1>9, <2>1, <2>2, WriteTyped DEF Flush, TInv, TypeOK
<1>10. ASSUME NEW ok \in BOOLEAN, WtInfo(ok) PROVE TypeOK' /\ FilledOK'
  <2>1. FilledOK' /\ fails' \in 0 .. MaxFail
    BY <1>10, BoundAssumption DEF WtInfo, Open, memory, TInv, TypeOK, FilledOK
  <2>2. run_info' \in Seq([nevent : Nat, ngroup : Nat])
    <3>1. \/ run_info' = Append(run_info, [nevent |-> ph_nev, ngroup |-> nrec_tot])
          \/ run_info' = run_info
      BY <1>10, Zenon DEF WtInfo
    <3>2. [nevent |-> ph_nev, ngroup |-> nrec_tot] \in [nevent : Nat, ngroup : Nat]
      BY DEF TInv, TypeOK
    <3>3. run_info \in Seq([nevent : Nat, ngroup : Nat])
      BY DEF TInv, TypeOK
    <3> QED BY <3>1, <3>2, <3>3, AppendType, Zenon
  <2> QED
    BY <1>1, <1>10, <2>1, <2>2 DEF WtInfo, memory, TInv, TypeOK
<1>11. CASE Crash
  <2>1. PICK k \in 0 .. (IF At("wtrec") \/ At("flush") THEN ph_irec ELSE 0) :
          /\ rec_rows' = rec_rows \o SubSeq(Buffered, 1, k)
          /\ rec_cols' = rec_cols \/ rec_cols' = rec_cols \cup {ph_nev}
    BY <1>11, Zenon DEF Crash, Rows
  <2>2. Buffered \in Seq(Recs) /\ Len(Buffered) = ph_irec /\ k \in 0 .. ph_irec
    BY BufferedSeq, BufAssumption DEF TInv, TypeOK
  <2>3. SubSeq(Buffered, 1, k) \in Seq(Recs)
    BY <2>2, SubSeqProperties
  <2>4. rec_rows' \in Seq(Recs) /\ rec_cols' \subseteq Nat
    BY <2>1, <2>3, ConcatProperties DEF TInv, TypeOK
  <2>6. torn' \in BOOLEAN
    BY <1>11, Zenon DEF Crash
  <2>5. FilledOK'
    BY <1>11 DEF Crash, memory, TInv, FilledOK, Rows
  <2> QED
    BY <1>1, <1>11, <2>4, <2>5, <2>6 DEF Crash, memory, TInv, TypeOK, Rows
<1>12. CASE UNCHANGED vars
  BY <1>12 DEF vars, memory, disk, TInv, TypeOK, FilledOK
<1> QED
  BY <1>2, <1>3, <1>4, <1>5, <1>6, <1>7, <1>8, <1>9, <1>10, <1>11, <1>12, PutTyped
     DEF Next, Step, Stopped

(* Every variable keeps its type.                                          *)
THEOREM TypeCorrect == Spec => []TypeOK
<1>1. Init => TInv
  BY InitStack, InitTyped DEF TInv
<1>2. TInv /\ [Next]_vars => TInv'
  BY NextStack, NextTyped DEF TInv
<1>3. TInv => TypeOK
  BY DEF TInv
<1> QED
  BY <1>1, <1>2, <1>3, PTL DEF Spec

-----------------------------------------------------------------------------
(* Contents of the file.                                                   *)

(* Before the header is written nothing has been recorded.                 *)
Fresh == phase = "setup" \/ At("mkrec") =>
           ph_irec = 0 /\ nrec_tot = 0 /\ rec_rows = <<>> /\ log = <<>>


(* The buffer after a store.                                               *)
LEMMA BufferedPut ==
  ASSUME TInv, TInv', NEW t \in Tags, Put(t)
  PROVE  Buffered' = Append(Buffered, [tag |-> t, uval |-> Uval(t)])
<1> DEFINE r == [tag |-> t, uval |-> Uval(t)]
<1>1. ph_irec \in 0 .. BufNrec - 1
  BY PutStack, BufAssumption DEF TInv, TypeOK
<1>2. /\ ph_precs' = [ph_precs EXCEPT ![ph_irec] = r]
      /\ ph_irec' = ph_irec + 1
  BY DEF Put, Store
<1>3. ph_precs \in [Slots -> Recs \cup {NoRec}] /\ FilledOK
  BY DEF TInv, TypeOK
<1>4. r \in Recs
  BY <1>1, BufAssumption DEF Recs, Uval
<1> HIDE DEF r
<1>5. /\ Buffered \in Seq(Recs) /\ Len(Buffered) = ph_irec
      /\ \A i \in 1 .. ph_irec : Buffered[i] = ph_precs[i - 1]
  BY <1>1, <1>3, BufferedSeq, BufAssumption
<1>6. Buffered' = [i \in 1 .. ph_irec + 1 |-> ph_precs'[i - 1]]
  BY <1>2 DEF Buffered
<1>7. \A i \in 1 .. ph_irec : ph_precs'[i - 1] = ph_precs[i - 1]
  BY <1>1, <1>2, <1>3, BufAssumption
<1>8. ph_precs'[ph_irec] = r
  BY <1>1, <1>2, <1>3, BufAssumption
<1>9. Buffered' \in Seq(Recs)
  <2>1. \A i \in 1 .. ph_irec + 1 : ph_precs'[i - 1] \in Recs
    BY <1>1, <1>3, <1>4, <1>7, <1>8, BufAssumption DEF FilledOK
  <2>2. ph_irec + 1 \in Nat
    BY <1>1, BufAssumption
  <2> QED BY <1>6, <2>1, <2>2
<1>10. Append(Buffered, r) \in Seq(Recs) /\ Len(Append(Buffered, r)) = ph_irec + 1
  BY <1>4, <1>5, AppendProperties
<1>11. Len(Buffered') = ph_irec + 1
  BY <1>1, <1>6, BufAssumption
<1>12. \A i \in 1 .. ph_irec + 1 : Buffered'[i] = Append(Buffered, r)[i]
  BY <1>1, <1>4, <1>5, <1>6, <1>7, <1>8, BufAssumption
<1>13. Buffered' = Append(Buffered, r)
  BY <1>9, <1>10, <1>11, <1>12, SeqEqual
<1> QED
  BY <1>13 DEF r

(* Append after a concatenation.                                           *)
LEMMA ConcatAppend ==
  ASSUME NEW S, NEW s \in Seq(S), NEW t \in Seq(S), NEW x \in S
  PROVE  s \o Append(t, x) = Append(s \o t, x)
<1>1. /\ s \o Append(t, x) \in Seq(S) /\ Append(s \o t, x) \in Seq(S)
      /\ Len(s \o Append(t, x)) = Len(s) + Len(t) + 1
      /\ Len(Append(s \o t, x)) = Len(s) + Len(t) + 1
  OBVIOUS
<1>2. \A i \in 1 .. Len(s) + Len(t) + 1 : (s \o Append(t, x))[i] = Append(s \o t, x)[i]
  OBVIOUS
<1> QED
  BY <1>1, <1>2, SeqEqual

(* A prefix by concatenation.                                              *)
LEMMA ConcatPrefix ==
  ASSUME NEW S, NEW s \in Seq(S), NEW t \in Seq(S)
  PROVE  IsPrefix(s, s \o t) /\ Len(s \o t) = Len(s) + Len(t)
<1>1. Len(s \o t) = Len(s) + Len(t) /\ s \o t \in Seq(S)
  OBVIOUS
<1>2. SubSeq(s, 1, Len(s)) = s
  OBVIOUS
<1>3. SubSeq(s \o t, 1, Len(s)) = s
  BY SubSeqOfConcat1, SubSeqFull
<1> QED
  BY <1>1, <1>2, <1>3 DEF IsPrefix

(* A sequence from its tail.                                               *)
LEMMA FromTail ==
  ASSUME NEW S, NEW s \in Seq(S), s # <<>>
  PROVE  /\ \A x : Tail(s) = <<x>> => Len(s) = 2 /\ s[2] = x
         /\ \A x, y : Tail(s) = <<x, y>> => Len(s) = 3 /\ s[2] = x
<1> DEFINE u == Tail(s)
<1>1. Len(s) \in Nat /\ Len(u) = Len(s) - 1
  BY HeadTailProperties, LenProperties
<1>2. \A i \in 1 .. Len(u) : u[i] = s[i + 1]
  BY HeadTailProperties
<1> HIDE DEF u
<1>3. (Len(u) = 1 => Len(s) = 2) /\ (Len(u) = 2 => Len(s) = 3)
  BY <1>1
<1>4. \A n \in {1, 2} : 1 \in 1 .. n /\ 1 + 1 = 2
  OBVIOUS
<1>6. Len(u) \in {1, 2} => s[2] = u[1]
  BY <1>2, <1>4, Zenon
<1>5. /\ \A x : Len(<<x>>) = 1 /\ <<x>>[1] = x
      /\ \A x, y : Len(<<x, y>>) = 2 /\ <<x, y>>[1] = x
  OBVIOUS
<1> QED
  BY <1>3, <1>5, <1>6, Zenon DEF u

(* Stacks of a given length.                                               *)
LEMMA StackLength ==
  ASSUME StackInv
  PROVE  /\ Len(todo) = 2 =>
              todo \in {<<"mkrec", "S_main">>, <<"wtrec", "E_dump">>, <<"flush", "wtinfo">>}
         /\ Len(todo) = 3 =>
              todo \in {<<"S_dump", "wtrec", "E_dump">>, <<"E_dump", "wtrec", "E_dump">>,
                        <<"E_main", "flush", "wtinfo">>, <<"E_dump", "flush", "wtinfo">>}
<1>1. \/ todo = <<>>
      \/ \E a : todo = <<a>>
      \/ todo \in {<<"mkrec", "S_main">>, <<"wtrec", "E_dump">>, <<"flush", "wtinfo">>}
      \/ todo \in {<<"S_dump", "wtrec", "E_dump">>, <<"E_dump", "wtrec", "E_dump">>,
                    <<"E_main", "flush", "wtinfo">>, <<"E_dump", "flush", "wtinfo">>}
      \/ \E a, b, c, d : todo = <<a, b, c, d>>
      \/ \E a, b, c, d, e : todo = <<a, b, c, d, e>>
  BY Zenon DEF StackInv, StackShape
<1>2. /\ Len(<<>>) = 0
      /\ \A a : Len(<<a>>) = 1
      /\ \A a, b : Len(<<a, b>>) = 2
      /\ \A a, b, c : Len(<<a, b, c>>) = 3
      /\ \A a, b, c, d : Len(<<a, b, c, d>>) = 4
      /\ \A a, b, c, d, e : Len(<<a, b, c, d, e>>) = 5
  OBVIOUS
<1>3. /\ 2 # 0 /\ 2 # 1 /\ 2 # 3 /\ 2 # 4 /\ 2 # 5
      /\ 3 # 0 /\ 3 # 1 /\ 3 # 2 /\ 3 # 4 /\ 3 # 5
  OBVIOUS
<1> QED
  BY <1>1, <1>2, <1>3, Zenon

(* Only ph_commit puts the header write on top of the stack, and only the  *)
(* last flush is followed by ph_io_wtinfo.                                 *)
LEMMA StepTop ==
  ASSUME TInv, TInv', todo # <<>>,
         todo' = Tail(todo) \/ todo' = DumpSteps \o Tail(todo)
  PROVE  ~At("mkrec")' /\ (At("wtinfo")' => Head(todo) = "flush")
<1> DEFINE S == Tags \cup Ops
<1>1. todo \in Seq(S)
  BY DEF TInv, TypeOK
<1>2. DumpSteps \in Seq(S) /\ Len(DumpSteps) = 3
  <2>1. "S_dump" \in S /\ "wtrec" \in S /\ "E_dump" \in S
    BY DEF Tags, ProbeTags, DumpTags, Ops
  <2> HIDE DEF S
  <2>2. \A a, b, c \in S : <<a, b, c>> \in Seq(S) /\ Len(<<a, b, c>>) = 3
    OBVIOUS
  <2> QED BY <2>1, <2>2, Zenon DEF DumpSteps
<1> HIDE DEF S
<1>3. Len(DumpSteps \o Tail(todo)) >= 3
  <2>1. Tail(todo) \in Seq(S)
    BY <1>1
  <2>2. Len(DumpSteps \o Tail(todo)) = Len(DumpSteps) + Len(Tail(todo))
    BY <1>2, <2>1, ConcatProperties
  <2>3. Len(Tail(todo)) \in Nat
    BY <2>1, LenProperties
  <2> QED BY <1>2, <2>2, <2>3
<1>4. At("mkrec")' => todo' = <<"mkrec", "S_main">>
  BY TagAssumption DEF TInv, IInv, StackInv, StackShape, At, Ops
<1>5. At("wtinfo")' => todo' = <<"wtinfo">>
  BY TagAssumption DEF TInv, IInv, StackInv, StackShape, At, Ops
<1>6. StackInv
  BY DEF TInv, IInv
<1>7. ASSUME todo' = <<"mkrec", "S_main">> PROVE FALSE
  <2>1. Len(todo') = 2
    BY <1>7
  <2>2. Tail(todo) = <<"mkrec", "S_main">>
    <3>1. Len(todo') # Len(DumpSteps \o Tail(todo))
      BY <1>3, <2>1
    <3> QED BY <1>7, <3>1, Zenon
  <2>3. Len(todo) = 3 /\ todo[2] = "mkrec"
    BY <1>1, <2>2, FromTail, Zenon
  <2> QED
    BY <1>6, <2>3, StackLength
<1>8. ASSUME todo' = <<"wtinfo">> PROVE Head(todo) = "flush"
  <2>1. Len(todo') = 1
    BY <1>8
  <2>2. Tail(todo) = <<"wtinfo">>
    <3>1. Len(todo') # Len(DumpSteps \o Tail(todo))
      BY <1>3, <2>1
    <3> QED BY <1>8, <3>1, Zenon
  <2>3. Len(todo) = 2 /\ todo[2] = "wtinfo"
    BY <1>1, <2>2, FromTail, Zenon
  <2> QED
    BY <1>6, <2>3, StackLength
<1> QED
  BY <1>4, <1>5, <1>7, <1>8

(* No buffered record.                                                     *)
LEMMA EmptyBuffer ==
  ASSUME NEW f
  PROVE  [i \in 1 .. 0 |-> f[i - 1]] = <<>>
  OBVIOUS

(* What the stack says about a step that is about to be executed.          *)
LEMMA ActiveStack ==
  ASSUME TInv
  PROVE  /\ todo # <<>> => phase \in {"open", "closing"}
         /\ At("mkrec") => todo = <<"mkrec", "S_main">>
         /\ At("flush") => todo = <<"flush", "wtinfo">>
         /\ At("wtrec") => Head(todo) # "flush"
         /\ \A t \in Tags : At(t) => Head(todo) # "flush" /\ ~At("wtinfo")
         /\ At("flush") \/ At("wtrec") => ~At("wtinfo")
<1>1. todo # <<>> => phase \in {"open", "closing"}
  BY DEF TInv, IInv, StackInv, StackShape
<1>2. At("mkrec") => todo = <<"mkrec", "S_main">>
  BY TagAssumption DEF TInv, IInv, StackInv, StackShape, At, Ops
<1>3. At("flush") => todo = <<"flush", "wtinfo">>
  BY TagAssumption DEF TInv, IInv, StackInv, StackShape, At, Ops
<1>4. At("wtrec") => Head(todo) # "flush"
  BY DEF At
<1>5. \A t \in Tags : At(t) => Head(todo) # "flush" /\ ~At("wtinfo")
  BY TagAssumption DEF At, Tags, ProbeTags, DumpTags, Ops
<1>6. At("flush") \/ At("wtrec") => ~At("wtinfo")
  BY DEF At
<1> QED
  BY <1>1, <1>2, <1>3, <1>4, <1>5, <1>6

(* A call moves no record; the step that follows it is not the last write. *)
Calls ==
  \/ \E e \in Events : ph_set_evt(e)
  \/ ph_commit
  \/ \E t \in UserTags : ph_read(t)
  \/ ph_dump
  \/ ph_finalize

LEMMA CallContents ==
  ASSUME TInv, Calls
  PROVE  /\ UNCHANGED <<rec_rows, nrec_tot, log, fails, run_info>>
         /\ Buffered' = Buffered /\ ph_irec' = ph_irec
         /\ ~At("wtinfo") /\ ~At("wtinfo")'
         /\ phase \in {"setup", "open"} /\ phase' # "done" /\ phase' # "dead"
         /\ phase' = "setup" \/ At("mkrec")' => phase = "setup"
<1> USE DEF Call, Idle, memory, disk, At
<1>1. CASE \E e \in Events : ph_set_evt(e)
  BY <1>1 DEF ph_set_evt, Buffered
<1>2. CASE ph_commit
  BY <1>2 DEF ph_commit, Buffered
<1>3. CASE \E t \in UserTags : ph_read(t)
  <2>1. PICK t \in UserTags : ph_read(t)
    BY <1>3
  <2>2. t \notin Ops
    BY TagAssumption
  <2>3. todo' = <<t>> /\ phase = "open" /\ phase' = "open" /\ todo = <<>>
    BY <2>1 DEF ph_read
  <2>4. ~At("wtinfo") /\ ~At("wtinfo")' /\ ~At("mkrec")'
    BY <2>2, <2>3 DEF Ops
  <2>5. UNCHANGED <<rec_rows, nrec_tot, log, fails, run_info, ph_irec, ph_precs>>
    BY <2>1 DEF ph_read
  <2> QED
    BY <2>3, <2>4, <2>5 DEF Buffered
<1>4. CASE ph_dump
  BY <1>4 DEF ph_dump, Buffered, DumpSteps
<1>5. CASE ph_finalize
  BY <1>5 DEF ph_finalize, Buffered
<1> QED
  BY <1>1, <1>2, <1>3, <1>4, <1>5 DEF Calls

(* The header write happens before the first record.                       *)
LEMMA MkRecContents ==
  ASSUME TInv, TInv', Fresh, NEW ok \in BOOLEAN, MkRec(ok)
  PROVE  /\ \/ phase' = "dead" /\ todo' = <<>> /\ fails' > 0
            \/ /\ phase' = phase /\ fails' = fails
               /\ Buffered' = <<>> /\ Len(Buffered') = 0
               /\ ~At("mkrec")' /\ ~At("wtinfo")'
         /\ rec_rows' = <<>> /\ rec_rows = <<>> /\ log' = <<>> /\ log = <<>> /\ nrec_tot' = 0
         /\ UNCHANGED run_info
<1>1. todo = <<"mkrec", "S_main">> /\ phase = "open" /\ At("mkrec")
  BY ActiveStack DEF MkRec, StackInv, TInv, IInv, StackShape
<1>2. rec_rows = <<>> /\ log = <<>> /\ nrec_tot = 0
  BY <1>1 DEF Fresh
<1>3. UNCHANGED <<log, nrec_tot, run_info>> /\ rec_rows' = <<>>
  BY <1>2, Zenon DEF MkRec
<1>4. CASE ok
  <2>1. ph_irec' = 0 /\ todo' = Tail(todo) /\ phase' = phase /\ fails' = fails
    BY <1>4 DEF MkRec, Open
  <2>2. todo' = <<"S_main">>
    BY <1>1, <2>1
  <2>3. Buffered' = <<>>
    BY <2>1, EmptyBuffer DEF Buffered
  <2>4. Len(Buffered') = 0
    BY <2>3
  <2> QED
    BY <1>2, <1>3, <2>1, <2>2, <2>3, <2>4 DEF At
<1>5. CASE ~ok
  <2>1. phase' = "dead" /\ todo' = <<>> /\ fails' = fails + 1
    BY <1>5 DEF MkRec, Open
  <2>2. fails' > 0
    BY <2>1, BoundAssumption DEF TInv, TypeOK
  <2> QED
    BY <1>2, <1>3, <2>1, <2>2
<1> QED
  BY <1>4, <1>5

(* A store appends the record to the buffer.                               *)
LEMMA PutContents ==
  ASSUME TInv, TInv', NEW t \in Tags, Put(t)
  PROVE  /\ \E r \in Recs : Buffered' = Append(Buffered, r) /\ log' = Append(log, r)
         /\ UNCHANGED <<rec_rows, nrec_tot, fails, run_info, phase>>
         /\ ~At("wtinfo") /\ ~At("wtinfo")' /\ ~At("mkrec")'
         /\ phase \in {"open", "closing"}
<1>1. At(t) /\ todo # <<>>
  BY DEF Put, At, Store
<1>2. todo' = Tail(todo) \/ todo' = DumpSteps \o Tail(todo)
  BY DEF Put, Store
<1>3. phase \in {"open", "closing"} /\ ~At("wtinfo") /\ Head(todo) # "flush"
  BY <1>1, ActiveStack
<1>4. ~At("wtinfo")' /\ ~At("mkrec")'
  BY <1>1, <1>2, <1>3, StepTop
<1>5. [tag |-> t, uval |-> Uval(t)] \in Recs
  BY BufAssumption, PutStack DEF TInv, TypeOK, Recs, Uval
<1>6. log' = Append(log, [tag |-> t, uval |-> Uval(t)])
      /\ UNCHANGED <<rec_rows, nrec_tot, fails, run_info, phase>>
  BY DEF Put, disk, Store
<1>7. Buffered' = Append(Buffered, [tag |-> t, uval |-> Uval(t)])
  BY BufferedPut
<1> QED
  BY <1>3, <1>4, <1>5, <1>6, <1>7, Zenon

(* A write counts the buffer, stores it in the file unless fopen fails,    *)
(* and leaves nothing to be written.                                       *)
LEMMA WriteContents ==
  ASSUME TInv, TInv', NEW ok \in BOOLEAN, WtRec(ok) \/ Flush(ok)
  PROVE  /\ \/ rec_rows' = rec_rows \o Buffered /\ fails' = fails
            \/ rec_rows' = rec_rows /\ fails' > 0
         /\ nrec_tot' = nrec_tot + ph_irec
         /\ Unwritten = Buffered /\ Unwritten' = <<>> /\ Len(Unwritten') = 0
         /\ UNCHANGED <<log, run_info, phase>>
         /\ phase \in {"open", "closing"} /\ ~At("mkrec")'
<1>1. WriteRows(ok) /\ UNCHANGED <<log, run_info, phase>>
      /\ todo # <<>> /\ todo' = Tail(todo)
  BY DEF WtRec, Flush, At, Reset
<1>2. phase \in {"open", "closing"}
  BY <1>1, ActiveStack
<1>3. ~At("mkrec")'
  BY <1>1, StepTop
<1>4. \/ rec_rows' = rec_rows \o Buffered /\ fails' = fails
      \/ rec_rows' = rec_rows /\ fails' > 0
  <2>1. \/ rec_rows' = rec_rows \o Buffered /\ fails' = fails
        \/ rec_rows' = rec_rows /\ fails' = fails + 1
    <3>1. \/ rec_rows' = rec_rows \o Buffered /\ fails' = fails
          \/ rec_rows' = rec_rows \o <<>> /\ fails' = fails + 1
      BY <1>1, Zenon DEF WriteRows, Open, Rows
    <3>2. rec_rows \o <<>> = rec_rows
      BY ConcatEmptySeq DEF TInv, TypeOK
    <3> QED BY <3>1, <3>2, Zenon
  <2>2. fails \in Nat
    BY BoundAssumption DEF TInv, TypeOK
  <2>3. fails' = fails + 1 => fails' > 0
    BY <2>2
  <2> QED BY <2>1, <2>3, Zenon
<1>5. nrec_tot' = nrec_tot + ph_irec
  BY <1>1 DEF WriteRows, Count
<1>6. Unwritten = Buffered
  BY <1>2, ActiveStack DEF Unwritten, WtRec, Flush, Reset
<1>7. Unwritten' = <<>>
  <2>1. CASE WtRec(ok)
    <3>1. ph_irec' = 0
      BY <2>1 DEF WtRec, Reset
    <3>2. Buffered' = <<>>
      BY <3>1, EmptyBuffer DEF Buffered
    <3> QED BY <3>2 DEF Unwritten
  <2>2. CASE Flush(ok)
    <3>1. todo = <<"flush", "wtinfo">>
      BY <2>2, ActiveStack DEF Flush
    <3>2. todo' = <<"wtinfo">>
      BY <1>1, <3>1
    <3> QED BY <3>2 DEF Unwritten, At
  <2> QED BY <2>1, <2>2
<1>8. Len(Unwritten') = 0
  BY <1>7
<1> QED
  BY <1>1, <1>2, <1>3, <1>4, <1>5, <1>6, <1>7, <1>8, Zenon

(* run_info.csv gets its row from the last step, and only a kill leaves a  *)
(* line unfinished.                                                        *)
InfoLast == (run_info # <<>> => phase = "done") /\ (torn => phase = "dead")

(* The inductive invariant behind NothingLost, CrashLoss, Accounted and    *)
(* InfoExact.                                                              *)
CInv == TInv /\ Fresh /\ NothingLost /\ CrashLoss /\ Accounted /\ InfoExact /\ InfoLast

(* What Buffered and the file weigh.                                       *)
LEMMA Weights ==
  ASSUME TInv
  PROVE  /\ Buffered \in Seq(Recs) /\ Len(Buffered) = ph_irec
         /\ rec_rows \in Seq(Recs) /\ log \in Seq(Recs)
         /\ ph_irec \in 0 .. BufNrec /\ nrec_tot \in Nat /\ fails \in Nat
  BY BufferedSeq, BufAssumption, BoundAssumption DEF TInv, TypeOK

(* A file that lacks at most a buffer is a prefix of the log.              *)
LEMMA LossOf ==
  ASSUME NEW rows \in Seq(Recs), NEW rest \in Seq(Recs), Len(rest) <= BufNrec
  PROVE  IsPrefix(rows, rows \o rest) /\ Len(rows \o rest) - Len(rows) <= BufNrec
<1>1. IsPrefix(rows, rows \o rest) /\ Len(rows \o rest) = Len(rows) + Len(rest)
  BY ConcatPrefix
<1>2. Len(rows) \in Nat /\ Len(rest) \in Nat
  BY LenProperties
<1> QED
  BY <1>1, <1>2, BufAssumption

LEMMA InitContents == Init => CInv
<1> SUFFICES ASSUME Init PROVE CInv
  OBVIOUS
<1>1. TInv
  BY InitStack, InitTyped DEF TInv
<1>2. Buffered = <<>> /\ Len(Buffered) = 0
  <2>1. ph_irec = 0
    BY DEF Init
  <2>2. Buffered = <<>>
    BY <2>1, EmptyBuffer DEF Buffered
  <2> QED BY <2>2
<1>3. Unwritten = <<>> /\ Len(Unwritten) = 0
  BY <1>2 DEF Init, Unwritten
<1>4. NothingLost /\ phase # "dead"
  BY <1>3, EmptySeq, ConcatEmptySeq DEF Init, NothingLost
<1>5. CrashLoss
  <2>1. rec_rows = <<>> /\ log = <<>>
    BY DEF Init
  <2>2. <<>> \in Seq(Recs) /\ <<>> \o <<>> = <<>> /\ Len(<<>>) = 0
    BY EmptySeq, ConcatEmptySeq
  <2>3. IsPrefix(<<>>, <<>>)
    <3>1. <<>> \in Seq(Recs) /\ Len(<<>>) <= BufNrec
      BY EmptySeq, BufAssumption
    <3>2. IsPrefix(<<>>, <<>> \o <<>>)
      BY <3>1, LossOf, Zenon
    <3> QED BY <2>2, <3>2, Zenon
  <2> QED BY <2>1, <2>2, <2>3, BufAssumption DEF CrashLoss
<1>6. Accounted
  BY <1>3 DEF Init, Accounted
<1>7. Fresh /\ InfoExact /\ InfoLast
  BY DEF Init, Fresh, InfoExact, InfoLast
<1> QED
  BY <1>1, <1>4, <1>5, <1>6, <1>7 DEF CInv

(* NothingLost and Accounted step by step.                                 *)
LEMMA NextContents ==
  ASSUME CInv, TInv', [Next]_vars
  PROVE  NothingLost' /\ Accounted' /\ Fresh'
<1> USE DEF CInv
<1>1. CASE Calls
  <2>1. /\ UNCHANGED <<rec_rows, nrec_tot, log, fails>> /\ Buffered' = Buffered
        /\ phase # "dead" /\ Unwritten = Buffered /\ Unwritten' = Buffered
        /\ ph_irec' = ph_irec
        /\ phase' = "setup" \/ At("mkrec")' => phase = "setup"
    BY <1>1, CallContents DEF Unwritten
  <2> QED BY <2>1 DEF NothingLost, Accounted, Fresh
<1>2. ASSUME NEW ok \in BOOLEAN, MkRec(ok) PROVE NothingLost' /\ Accounted' /\ Fresh'
  <2>1. CASE phase' = "dead" /\ todo' = <<>>
    BY <2>1 DEF NothingLost, Accounted, Fresh, At
  <2>2. CASE ~(phase' = "dead" /\ todo' = <<>>)
    <3>1. /\ Buffered' = <<>> /\ Len(Buffered') = 0
          /\ ~At("mkrec")' /\ ~At("wtinfo")' /\ phase' = phase
          /\ rec_rows' = <<>> /\ log' = <<>> /\ nrec_tot' = 0
      BY <1>2, <2>2, MkRecContents
    <3>2. Unwritten' = <<>> /\ Len(Unwritten') = 0
      BY <3>1 DEF Unwritten
    <3>3. phase' # "setup"
      BY <1>2, <3>1, ActiveStack DEF MkRec, At
    <3>4. Len(log') = 0 /\ rec_rows' \o Unwritten' = log'
      BY <3>1, <3>2, EmptySeq, ConcatEmptySeq
    <3> QED BY <3>1, <3>2, <3>3, <3>4 DEF NothingLost, Accounted, Fresh
  <2> QED BY <2>1, <2>2
<1>3. ASSUME NEW t \in Tags, Put(t) PROVE NothingLost' /\ Accounted' /\ Fresh'
  <2>1. PICK r \in Recs : Buffered' = Append(Buffered, r) /\ log' = Append(log, r)
    BY <1>3, PutContents
  <2>2. /\ UNCHANGED <<rec_rows, nrec_tot, fails, phase>>
        /\ Unwritten = Buffered /\ Unwritten' = Buffered'
        /\ phase \in {"open", "closing"} /\ ~At("mkrec")'
    BY <1>3, PutContents DEF Unwritten
  <2>3. Buffered \in Seq(Recs) /\ rec_rows \in Seq(Recs) /\ log \in Seq(Recs) /\ nrec_tot \in Nat
    BY Weights
  <2>4. NothingLost'
    <3>1. rec_rows \o Append(Buffered, r) = Append(rec_rows \o Buffered, r)
      BY <2>3, ConcatAppend
    <3> QED BY <2>1, <2>2, <3>1 DEF NothingLost
  <2>5. Accounted'
    <3>1. Len(Append(Buffered, r)) = Len(Buffered) + 1 /\ Len(Append(log, r)) = Len(log) + 1
      BY <2>3, AppendProperties
    <3>2. Len(Buffered) \in Nat /\ Len(log) \in Nat
      BY <2>3, LenProperties
    <3>3. nrec_tot + Len(Buffered) = Len(log)
      BY <2>2 DEF Accounted
    <3>4. nrec_tot + Len(Append(Buffered, r)) = Len(Append(log, r))
      BY <2>3, <3>1, <3>2, <3>3
    <3> QED BY <2>1, <2>2, <3>4 DEF Accounted
  <2>6. Fresh'
    BY <2>2 DEF Fresh
  <2> QED BY <2>4, <2>5, <2>6
<1>4. ASSUME NEW ok \in BOOLEAN, WtRec(ok) \/ Flush(ok)
      PROVE  NothingLost' /\ Accounted' /\ Fresh'
  <2>1. /\ \/ rec_rows' = rec_rows \o Buffered /\ fails' = fails
           \/ rec_rows' = rec_rows /\ fails' > 0
        /\ nrec_tot' = nrec_tot + ph_irec
        /\ Unwritten = Buffered /\ Unwritten' = <<>> /\ Len(Unwritten') = 0
        /\ log' = log /\ phase' = phase
        /\ phase \in {"open", "closing"} /\ ~At("mkrec")'
    BY <1>4, WriteContents
  <2>2. Buffered \in Seq(Recs) /\ rec_rows \in Seq(Recs) /\ Len(Buffered) = ph_irec
        /\ nrec_tot \in Nat /\ ph_irec \in Nat
    BY Weights, BufAssumption
  <2>3. NothingLost'
    <3>1. CASE fails' > 0
      BY <3>1 DEF NothingLost
    <3>2. CASE rec_rows' = rec_rows \o Buffered /\ fails' = fails
      <4>1. rec_rows \o Buffered \in Seq(Recs)
        BY <2>2, ConcatProperties
      <4>2. (rec_rows \o Buffered) \o <<>> = rec_rows \o Buffered
        BY <4>1, ConcatEmptySeq
      <4>3. fails = 0 => rec_rows \o Buffered = log
        BY <2>1 DEF NothingLost
      <4>4. rec_rows' \o Unwritten' = rec_rows \o Buffered
        BY <2>1, <3>2, <4>2
      <4> QED BY <2>1, <3>2, <4>3, <4>4, Zenon DEF NothingLost
    <3> QED BY <2>1, <3>1, <3>2
  <2>4. Accounted'
    <3>1. nrec_tot + ph_irec = Len(log)
      BY <2>1, <2>2 DEF Accounted
    <3>2. nrec_tot' + Len(Unwritten') = Len(log')
      BY <2>1, <2>2, <3>1
    <3> QED BY <3>2 DEF Accounted
  <2>5. Fresh'
    BY <2>1 DEF Fresh
  <2> QED BY <2>3, <2>4, <2>5
<1>5. ASSUME NEW ok \in BOOLEAN, WtInfo(ok) PROVE NothingLost' /\ Accounted' /\ Fresh'
  <2>1. /\ UNCHANGED <<rec_rows, nrec_tot, log>> /\ phase' = "done" /\ todo' = <<>>
        /\ Unwritten = <<>> /\ Unwritten' = <<>>
    BY <1>5 DEF WtInfo, memory, Unwritten
  <2>2. fails' = 0 => fails = 0
    <3>1. fails' = fails \/ fails' = fails + 1
      BY <1>5, Zenon DEF WtInfo, Open
    <3>2. fails \in Nat
      BY Weights
    <3> QED BY <3>1, <3>2
  <2>3. phase # "dead"
    BY <1>5, ActiveStack DEF WtInfo, At
  <2>4. NothingLost'
    <3>1. fails = 0 => rec_rows \o <<>> = log
      BY <2>1, <2>3 DEF NothingLost
    <3> QED BY <2>1, <2>2, <3>1 DEF NothingLost
  <2>5. Accounted'
    BY <2>1, <2>3 DEF Accounted
  <2>6. Fresh'
    BY <2>1 DEF Fresh, At
  <2> QED BY <2>4, <2>5, <2>6
<1>6. CASE Crash
  BY <1>6 DEF Crash, NothingLost, Accounted, Fresh, At, Rows
<1>7. CASE UNCHANGED vars
  BY <1>7 DEF vars, memory, disk, NothingLost, Accounted, Fresh, Unwritten, Buffered, At
<1> QED
  BY <1>1, <1>2, <1>3, <1>4, <1>5, <1>6, <1>7 DEF Next, Step, Stopped, Calls

(* A crash keeps a prefix and loses at most the buffer.                    *)
LEMMA NextLoss ==
  ASSUME CInv, TInv', NothingLost', [Next]_vars
  PROVE  CrashLoss'
<1> USE DEF CInv
<1>1. CASE Crash
  <2>1. PICK k \in 0 .. (IF At("wtrec") \/ At("flush") THEN ph_irec ELSE 0) :
          rec_rows' = rec_rows \o SubSeq(Buffered, 1, k)
    BY <1>1 DEF Crash, Rows
  <2>2. log' = log /\ fails' = fails /\ phase \in {"setup", "open", "closing"}
    BY <1>1 DEF Crash, Rows
  <2>3. CASE k = 0
    <3>1. SubSeq(Buffered, 1, k) = <<>>
      BY <2>3, Weights, SubSeqEmpty
    <3>2. rec_rows' = rec_rows
      BY <2>1, <3>1, Weights, ConcatEmptySeq
    <3> QED BY <2>2, <3>2 DEF CrashLoss
  <2>4. CASE k # 0 /\ fails = 0
    <3>1. k \in 1 .. ph_irec /\ (At("wtrec") \/ At("flush"))
      BY <2>1, <2>4, Weights, BufAssumption
    <3>2. rec_rows \o Buffered = log
      BY <2>2, <2>4, <3>1, ActiveStack DEF NothingLost, Unwritten
    <3> DEFINE b == Buffered
               m == Len(rec_rows) + k
    <3>3. b \in Seq(Recs) /\ Len(b) = ph_irec /\ rec_rows \in Seq(Recs) /\ ph_irec \in Nat
          /\ ph_irec <= BufNrec
      BY Weights, BufAssumption
    <3>4. Len(rec_rows) \in Nat /\ m \in Nat
      BY <3>1, <3>3, LenProperties
    <3>5. Len(rec_rows \o b) = Len(rec_rows) + Len(b) /\ rec_rows \o b \in Seq(Recs)
      BY <3>3, ConcatProperties
    <3>6. rec_rows \o SubSeq(b, 1, k) = SubSeq(rec_rows \o b, 1, m)
      BY <3>1, <3>3
    <3> HIDE DEF b
    <3>7. Len(SubSeq(rec_rows \o b, 1, m)) = m /\ m <= Len(log)
      BY <3>1, <3>2, <3>3, <3>4, <3>5 DEF b
    <3>8. rec_rows' = SubSeq(log, 1, m) /\ Len(rec_rows') = m
      BY <2>1, <3>2, <3>6, <3>7, Zenon DEF b
    <3>9. SubSeq(rec_rows', 1, m) = SubSeq(log, 1, m)
      <4>1. SubSeq(rec_rows', 1, Len(rec_rows')) = rec_rows'
        BY SubSeqFull DEF TInv, TypeOK
      <4> QED BY <3>8, <4>1, Zenon
    <3>10. Len(log) - m <= BufNrec
      <4>1. Len(log) = Len(rec_rows) + ph_irec
        BY <3>2, <3>3, <3>5, Zenon DEF b
      <4> QED BY <3>1, <3>3, <3>4, <4>1, BufAssumption
    <3>11. IsPrefix(rec_rows', log)
      BY <3>7, <3>8, <3>9, Zenon DEF IsPrefix
    <3> QED BY <2>2, <3>8, <3>10, <3>11, Zenon DEF CrashLoss
  <2>5. CASE fails # 0
    BY <2>2, <2>5 DEF CrashLoss
  <2> QED BY <2>3, <2>4, <2>5
<1>2. CASE phase' # "dead"
  <2>1. rec_rows' \in Seq(Recs) /\ ph_irec' \in 0 .. BufNrec
        /\ \A i \in 0 .. ph_irec' - 1 : ph_precs'[i] \in Recs
    BY DEF TInv, TypeOK, FilledOK
  <2>2. Buffered' \in Seq(Recs) /\ Len(Buffered') = ph_irec'
    BY <2>1, SlotsSeq DEF Buffered
  <2>3. Unwritten' \in Seq(Recs) /\ Len(Unwritten') <= BufNrec
    BY <2>1, <2>2, BufAssumption, EmptySeq DEF Unwritten
  <2>4. fails' = 0 => rec_rows' \o Unwritten' = log'
    BY <1>2 DEF NothingLost
  <2>5. /\ IsPrefix(rec_rows', rec_rows' \o Unwritten')
        /\ Len(rec_rows' \o Unwritten') - Len(rec_rows') <= BufNrec
    BY <2>1, <2>3, LossOf
  <2> QED BY <2>4, <2>5 DEF CrashLoss
<1>3. CASE phase' = "dead" /\ ~Crash
  <2>1. CASE UNCHANGED vars
    BY <2>1 DEF vars, memory, disk, CrashLoss
  <2>2. CASE Calls
    BY <1>3, <2>2, CallContents
  <2>3. ASSUME NEW ok \in BOOLEAN, MkRec(ok) PROVE CrashLoss'
    <3>1. phase' # phase
      BY <1>3, <2>3, ActiveStack DEF MkRec, At
    <3>2. fails' > 0
      BY <2>3, <3>1, MkRecContents
    <3> QED BY <3>2 DEF CrashLoss
  <2>4. ASSUME NEW t \in Tags, Put(t) PROVE CrashLoss'
    BY <1>3, <2>4, PutContents
  <2>5. ASSUME NEW ok \in BOOLEAN, WtRec(ok) \/ Flush(ok) PROVE CrashLoss'
    BY <1>3, <2>5, WriteContents
  <2>6. ASSUME NEW ok \in BOOLEAN, WtInfo(ok) PROVE CrashLoss'
    BY <1>3, <2>6 DEF WtInfo
  <2> QED
    BY <1>3, <2>1, <2>2, <2>3, <2>4, <2>5, <2>6 DEF Next, Step, Stopped, Calls
<1> QED
  BY <1>1, <1>2, <1>3

LEMMA NextInfo ==
  ASSUME CInv, TInv', [Next]_vars
  PROVE  InfoExact' /\ InfoLast'
<1> USE DEF CInv
<1>0. torn' => phase' = "dead"
  <2>1. CASE Crash
    BY <2>1, Zenon DEF Crash
  <2>2. CASE ~Crash
    <3>1. torn' = torn
      <4>1. Calls => torn' = torn
        BY DEF Calls, ph_set_evt, ph_commit, ph_read, ph_dump, ph_finalize, Call, disk
      <4>2. \A ok \in BOOLEAN : MkRec(ok) \/ WtRec(ok) \/ Flush(ok) \/ WtInfo(ok) => torn' = torn
        BY Zenon DEF MkRec, WtRec, Flush, WtInfo, Reset
      <4>3. \A t \in Tags : Put(t) => torn' = torn
        BY Zenon DEF Put, disk, Store
      <4>4. UNCHANGED vars => torn' = torn
        BY DEF vars, disk
      <4> QED BY <2>2, <4>1, <4>2, <4>3, <4>4, Zenon DEF Next, Step, Stopped, Calls
    <3>2. CASE UNCHANGED vars
      BY <3>1, <3>2 DEF vars, InfoLast
    <3>3. CASE phase # "dead"
      BY <3>1, <3>3 DEF InfoLast
    <3>4. CASE phase = "dead" /\ ~UNCHANGED vars
      <4>1. todo = <<>>
        BY <3>4, ActiveStack
      <4>2. ~Calls
        BY <3>4, CallContents
      <4> QED BY <2>2, <3>4, <4>1, <4>2 DEF Next, Step, Stopped, Calls, MkRec, Put, WtRec, Flush, WtInfo, At
    <3> QED BY <3>2, <3>3, <3>4
  <2> QED BY <2>1, <2>2
<1>1. CASE run_info' = run_info /\ run_info = <<>>
  BY <1>0, <1>1 DEF InfoExact, InfoLast
<1>2. CASE UNCHANGED vars
  BY <1>2 DEF vars, disk, memory, InfoExact, InfoLast
<1>3. CASE run_info' # run_info
  <2>1. PICK ok \in BOOLEAN : WtInfo(ok)
    <3>1. Calls => run_info' = run_info
      BY CallContents
    <3>2. \A b \in BOOLEAN : MkRec(b) => run_info' = run_info
      BY Zenon DEF MkRec
    <3>3. \A t \in Tags : Put(t) => run_info' = run_info
      BY Zenon DEF Put, disk, Store
    <3>4. \A b \in BOOLEAN : WtRec(b) \/ Flush(b) => run_info' = run_info
      BY Zenon DEF WtRec, Flush, Reset
    <3>5. Crash => run_info' = run_info
      BY DEF Crash, Rows
    <3>6. UNCHANGED vars => run_info' = run_info
      BY DEF vars, disk
    <3> QED
      BY <1>3, <3>1, <3>2, <3>3, <3>4, <3>5, <3>6, Zenon DEF Next, Step, Stopped, Calls
  <2>2. At("wtinfo") /\ phase \in {"open", "closing"} /\ run_info = <<>>
    BY <2>1, ActiveStack DEF WtInfo, At, InfoLast
  <2>3. /\ run_info' = Append(<<>>, [nevent |-> ph_nev, ngroup |-> nrec_tot])
        /\ UNCHANGED <<rec_rows, log>> /\ phase' = "done"
        /\ fails' = fails
    <3>1. \/ run_info' = Append(run_info, [nevent |-> ph_nev, ngroup |-> nrec_tot]) /\ ok
          \/ run_info' = run_info
      BY <2>1, Zenon DEF WtInfo
    <3>2. UNCHANGED <<rec_rows, log>> /\ phase' = "done"
      BY <2>1 DEF WtInfo
    <3>3. ok => fails' = fails
      BY <2>1, Zenon DEF WtInfo, Open
    <3> QED BY <1>3, <2>2, <3>1, <3>2, <3>3
  <2>4. fails = 0 => rec_rows = log /\ nrec_tot = Len(rec_rows)
    <3>1. Unwritten = <<>> /\ Len(Unwritten) = 0
      BY <2>2 DEF Unwritten
    <3>2. rec_rows \o <<>> = rec_rows /\ nrec_tot \in Nat
      BY Weights, ConcatEmptySeq
    <3>3. nrec_tot = Len(log)
      BY <2>2, <3>1, <3>2 DEF Accounted
    <3>4. fails = 0 => rec_rows = log
      BY <2>2, <3>1, <3>2 DEF NothingLost
    <3> QED BY <3>3, <3>4
  <2>5. \A i \in DOMAIN run_info' : run_info'[i].ngroup = nrec_tot
    BY <2>3
  <2> QED
    BY <1>0, <2>3, <2>4, <2>5 DEF InfoExact, InfoLast
<1>4. CASE run_info' = run_info /\ run_info # <<>> /\ ~UNCHANGED vars
  <2>1. phase = "done" /\ todo = <<>>
    BY <1>4, ActiveStack DEF InfoLast
  <2>2. ~Calls
    BY <2>1, CallContents
  <2> QED
    BY <1>4, <2>1, <2>2 DEF Next, Step, Stopped, Calls, MkRec, Put, WtRec, Flush, WtInfo, At, Crash, Store, Reset, Rows
<1> QED
  BY <1>1, <1>2, <1>3, <1>4

LEMMA NextC == CInv /\ [Next]_vars => CInv'
<1> SUFFICES ASSUME CInv, [Next]_vars PROVE CInv'
  OBVIOUS
<1>1. TInv'
  BY NextStack, NextTyped DEF CInv, TInv
<1> QED
  BY <1>1, NextContents, NextLoss, NextInfo DEF CInv

(* No nesting of ph_read and ph_dump loses, doubles or reorders a record.  *)
THEOREM Complete == Spec => []NothingLost
<1>1. CInv => NothingLost
  BY DEF CInv
<1> QED
  BY InitContents, NextC, <1>1, PTL DEF Spec

(* A killed run leaves a prefix of its records, short of at most a buffer. *)
THEOREM CrashKeepsPrefix == Spec => []CrashLoss
<1>1. CInv => CrashLoss
  BY DEF CInv
<1> QED
  BY InitContents, NextC, <1>1, PTL DEF Spec

(* nrec_tot and the buffer account for every record, even when the disk    *)
(* refuses some of them.                                                   *)
THEOREM EveryRecordAccounted == Spec => []Accounted
<1>1. CInv => Accounted
  BY DEF CInv
<1> QED
  BY InitContents, NextC, <1>1, PTL DEF Spec

(* A row of run_info.csv vouches for a complete file.                      *)
THEOREM InfoVouches == Spec => []InfoExact
<1>1. CInv => InfoExact
  BY DEF CInv
<1> QED
  BY InitContents, NextC, <1>1, PTL DEF Spec

(* No step takes rows away: the header write finds an empty log.           *)
LEMMA NextGrows ==
  ASSUME CInv, [Next]_vars
  PROVE  IsPrefix(rec_rows, rec_rows')
<1> USE DEF CInv
<1>1. rec_rows \in Seq(Recs) /\ Buffered \in Seq(Recs) /\ Len(Buffered) = ph_irec
  BY Weights
<1>2. IsPrefix(rec_rows, rec_rows)
  <2>1. <<>> \in Seq(Recs) /\ rec_rows \o <<>> = rec_rows
    BY <1>1, EmptySeq, ConcatEmptySeq
  <2>2. IsPrefix(rec_rows, rec_rows \o <<>>)
    BY <1>1, <2>1, ConcatPrefix
  <2> QED BY <2>1, <2>2, Zenon
<1>3. IsPrefix(rec_rows, rec_rows \o Buffered)
  BY <1>1, ConcatPrefix
<1>4. TInv'
  BY NextStack, NextTyped DEF TInv
<1>5. CASE Calls
  BY <1>2, <1>5, CallContents
<1>6. ASSUME NEW ok \in BOOLEAN, MkRec(ok) PROVE IsPrefix(rec_rows, rec_rows')
  BY <1>2, <1>4, <1>6, MkRecContents
<1>7. ASSUME NEW t \in Tags, Put(t) PROVE IsPrefix(rec_rows, rec_rows')
  <2>1. rec_rows' = rec_rows
    BY <1>7, Zenon DEF Put, disk, Store
  <2> QED BY <1>2, <2>1
<1>8. ASSUME NEW ok \in BOOLEAN, WtRec(ok) \/ Flush(ok) PROVE IsPrefix(rec_rows, rec_rows')
  BY <1>2, <1>3, <1>4, <1>8, WriteContents
<1>9. ASSUME NEW ok \in BOOLEAN, WtInfo(ok) PROVE IsPrefix(rec_rows, rec_rows')
  BY <1>2, <1>9 DEF WtInfo
<1>10. CASE Crash
  <2>1. PICK k \in 0 .. (IF At("wtrec") \/ At("flush") THEN ph_irec ELSE 0) :
          rec_rows' = rec_rows \o SubSeq(Buffered, 1, k)
    BY <1>10 DEF Crash, Rows
  <2>2. k \in 0 .. Len(Buffered) /\ Len(Buffered) \in Nat
    BY <1>1, <2>1, Weights, BufAssumption
  <2>3. SubSeq(Buffered, 1, k) \in Seq(Recs)
    BY <1>1, <2>2, SubSeqProperties
  <2> QED BY <1>1, <2>1, <2>3, ConcatPrefix
<1>11. CASE UNCHANGED vars
  BY <1>2, <1>11 DEF vars, disk
<1> QED
  BY <1>5, <1>6, <1>7, <1>8, <1>9, <1>10, <1>11 DEF Next, Step, Stopped, Calls

(* Once its header is written the record file is only appended to.         *)
THEOREM FileGrows == Spec => AppendOnly
<1>1. CInv /\ [Next]_vars => (rec_hdr # NoFile => IsPrefix(rec_rows, rec_rows'))
  BY NextGrows
<1> QED
  BY InitContents, NextC, <1>1, PTL DEF Spec, AppendOnly

-----------------------------------------------------------------------------
(* Refinement of RecordLog.                                                *)

(* A step that moves the file from one prefix of the log to a longer one.  *)
LEMMA PrefixStep ==
  ASSUME CInv, CInv', [Next]_vars, log' = log, fails' = 0
  PROVE  RL!Extend
<1>1. rec_rows \in Seq(Recs) /\ log \in Seq(Recs) /\ rec_rows' \in Seq(Recs)
  BY DEF CInv, TInv, TypeOK
<1>2. IsPrefix(rec_rows, rec_rows')
  BY NextGrows
<1>3. IsPrefix(rec_rows', log)
  BY DEF CInv, CrashLoss
<1>4. SubSeq(rec_rows', 1, Len(rec_rows')) = rec_rows'
  BY <1>1, SubSeqFull
<1>5. rec_rows' = SubSeq(log, 1, Len(rec_rows')) /\ Len(rec_rows') <= Len(log)
  BY <1>3, <1>4, Zenon DEF IsPrefix
<1>6. Len(rec_rows) <= Len(rec_rows')
  BY <1>2 DEF IsPrefix
<1>7. Len(rec_rows') \in Len(rec_rows) .. Len(log)
  <2>1. Len(rec_rows) \in Nat /\ Len(rec_rows') \in Nat /\ Len(log) \in Nat
    BY <1>1, LenProperties
  <2> QED BY <1>5, <1>6, <2>1
<1> QED
  BY <1>5, <1>7, Zenon DEF RL!Extend

(* A failure is never forgotten.                                           *)
LEMMA FailsGrow ==
  ASSUME TypeOK, [Next]_vars, fails' = 0
  PROVE  fails = 0
<1>1. fails \in Nat
  BY BoundAssumption DEF TypeOK
<1>2. fails' = fails \/ fails' = fails + 1
  <2>1. ASSUME NEW ok \in BOOLEAN, MkRec(ok) \/ WtRec(ok) \/ Flush(ok) \/ WtInfo(ok)
        PROVE  fails' = fails \/ fails' = fails + 1
    BY <2>1 DEF MkRec, WtRec, Flush, WriteRows, WtInfo, Open
  <2>2. ASSUME NEW t \in Tags, Put(t) PROVE fails' = fails
    BY <2>2 DEF Put
  <2>3. CASE \/ \E e \in Events : ph_set_evt(e)
             \/ ph_commit
             \/ \E t \in UserTags : ph_read(t)
             \/ ph_dump
             \/ ph_finalize
    BY <2>3 DEF ph_set_evt, ph_commit, ph_read, ph_dump, ph_finalize
  <2>4. CASE Crash \/ UNCHANGED vars
    BY <2>4 DEF Crash, vars
  <2> QED
    BY <2>1, <2>2, <2>3, <2>4 DEF Next, Step, Stopped
<1> QED
  BY <1>1, <1>2

(* As long as no fopen fails the probe implements RecordLog: buffering,    *)
(* nested dumps and crashes in the middle of a write are not seen.         *)
THEOREM Refinement == Spec => ImplementsLog
<1>1. Init => RL!RLInit
  BY DEF Init, RL!RLInit, LogStatus
<1>2. CInv /\ CInv' /\ [Next]_vars => [fails' = 0 => [RL!RLNext]_(RL!rlvars)]_vars
  <2> SUFFICES ASSUME CInv, CInv', [Next]_vars, fails' = 0 PROVE [RL!RLNext]_(RL!rlvars)
    OBVIOUS
  <2> USE DEF CInv
  <2>1. fails = 0 /\ fails' = 0
    <3>1. TypeOK
      BY DEF TInv
    <3>2. fails = 0
      BY <3>1, FailsGrow
    <3> QED BY <3>2
  <2>2. CASE Calls
    BY <2>2, CallContents DEF RL!rlvars, LogStatus
  <2>3. ASSUME NEW ok \in BOOLEAN, MkRec(ok) PROVE [RL!RLNext]_(RL!rlvars)
    BY <2>1, <2>3, MkRecContents DEF RL!rlvars, LogStatus
  <2>4. ASSUME NEW t \in Tags, Put(t) PROVE [RL!RLNext]_(RL!rlvars)
    <3>1. /\ \E r \in Recs : log' = Append(log, r)
          /\ rec_rows' = rec_rows /\ LogStatus' = LogStatus /\ LogStatus = "open"
      BY <2>4, PutContents DEF LogStatus
    <3> QED BY <3>1, Zenon DEF RL!RLNext, RL!Measure
  <2>5. ASSUME NEW ok \in BOOLEAN, WtRec(ok) \/ Flush(ok) PROVE [RL!RLNext]_(RL!rlvars)
    <3>1. log' = log /\ LogStatus' = LogStatus /\ LogStatus = "open"
      BY <2>5, WriteContents DEF LogStatus
    <3> QED BY <2>1, <3>1, PrefixStep, Zenon DEF RL!RLNext, RL!Persist
  <2>6. ASSUME NEW ok \in BOOLEAN, WtInfo(ok) PROVE [RL!RLNext]_(RL!rlvars)
    <3>1. /\ log' = log /\ rec_rows' = rec_rows /\ phase' = "done"
          /\ At("wtinfo") /\ phase \in {"open", "closing"}
      BY <2>6, ActiveStack DEF WtInfo, At
    <3>2. rec_rows \o <<>> = log
      BY <2>1, <3>1 DEF NothingLost, Unwritten
    <3>3. rec_rows = log
      BY <3>2, Weights, ConcatEmptySeq
    <3>4. LogStatus = "open" /\ LogStatus' = "done"
      BY <3>1 DEF LogStatus
    <3> QED BY <3>1, <3>3, <3>4 DEF RL!RLNext, RL!Close
  <2>7. CASE Crash
    <3>1. log' = log /\ LogStatus = "open" /\ LogStatus' = "dead"
      BY <2>7 DEF Crash, LogStatus, Rows
    <3> QED BY <2>1, <3>1, PrefixStep, Zenon DEF RL!RLNext, RL!Lose
  <2>8. CASE UNCHANGED vars
    BY <2>8 DEF vars, disk, RL!rlvars, LogStatus
  <2> QED
    BY <2>2, <2>3, <2>4, <2>5, <2>6, <2>7, <2>8 DEF Next, Step, Stopped, Calls
<1> QED
  BY InitContents, NextC, <1>1, <1>2, PTL DEF Spec, ImplementsLog

-----------------------------------------------------------------------------
(* Columns.                                                                *)

(* The events are fixed when the header is written.                        *)
HeaderInv ==
  /\ phase = "setup" \/ At("mkrec") => rec_cols = {}
  /\ phase \in {"open", "closing"} /\ ~At("mkrec") => ph_ready /\ rec_hdr = ph_nev
  /\ rec_cols \subseteq {rec_hdr}
Accepted == {i \in DOMAIN etag : etag[i].name \in Supported}
EtagInv ==
  /\ {etag[i].id : i \in Accepted} = 1 .. ph_nev
  /\ \A i \in Accepted : etag[i].name = ph_evcodes[etag[i].id - 1]
  /\ \A i, j \in Accepted : i < j => etag[i].id < etag[j].id
ColumnsInv == TInv /\ HeaderInv /\ EtagInv

LEMMA RowAccepted ==
  ASSUME TInv, EtagInv, NEW e \in Supported, ph_nev <= NevMax,
         ph_nev' = ph_nev + 1, ph_evcodes' = [ph_evcodes EXCEPT ![ph_nev] = e],
         etag' = Append(etag, [id |-> ph_nev + 1, name |-> e])
  PROVE  EtagInv'
<1> DEFINE n == Len(etag)  row == [id |-> ph_nev + 1, name |-> e]
<1>1. /\ ph_nev \in Nat /\ NevMax \in Nat /\ ph_evcodes \in [0 .. NevMax -> Events \cup {"none"}]
      /\ etag \in Seq([id : Nat, name : Events])
  BY EventAssumption DEF TInv, TypeOK
<1>2. /\ n \in Nat /\ DOMAIN etag = 1 .. n /\ DOMAIN etag' = 1 .. n + 1
      /\ (\A i \in 1 .. n : etag'[i] = etag[i]) /\ etag'[n + 1] = row
  <2>1. \A S, x : etag \in Seq(S) /\ x \in S =>
          /\ DOMAIN Append(etag, x) = 1 .. n + 1 /\ Append(etag, x)[n + 1] = x
          /\ \A i \in 1 .. n : Append(etag, x)[i] = etag[i]
    BY AppendProperties
  <2>2. etag \in Seq([id : Nat, name : Events]) /\ row \in [id : Nat, name : Events]
    BY <1>1, EventAssumption
  <2>3. n \in Nat /\ DOMAIN etag = 1 .. n
    BY <1>1
  <2> HIDE DEF row, n
  <2>4. etag' = Append(etag, row)
    BY DEF row
  <2> QED BY <2>1, <2>2, <2>3, <2>4
<1>3. row.id = ph_nev + 1 /\ row.name = e
  OBVIOUS
<1> HIDE DEF n, row
<1>4. Accepted' = Accepted \cup {n + 1} /\ Accepted \subseteq 1 .. n
  BY <1>1, <1>2, <1>3 DEF Accepted
<1>5. \A i \in Accepted : etag'[i] = etag[i] /\ etag[i].id \in 1 .. ph_nev /\ i < n + 1
  BY <1>1, <1>2, <1>4 DEF EtagInv
<1>6. etag'[n + 1].id = ph_nev + 1 /\ etag'[n + 1].name = e
  BY <1>2, <1>3
<1>7. {etag'[i].id : i \in Accepted'} = 1 .. ph_nev + 1
  <2>1. {etag'[i].id : i \in Accepted'} = {etag[i].id : i \in Accepted} \cup {ph_nev + 1}
    BY <1>4, <1>5, <1>6
  <2>2. {etag[i].id : i \in Accepted} = 1 .. ph_nev
    BY DEF EtagInv
  <2>3. 1 .. ph_nev + 1 = (1 .. ph_nev) \cup {ph_nev + 1}
    BY <1>1
  <2> QED BY <2>1, <2>2, <2>3
<1>8. \A i \in Accepted' : etag'[i].name = ph_evcodes'[etag'[i].id - 1]
  <2>1. ph_evcodes'[ph_nev] = e /\ \A k \in 0 .. ph_nev - 1 : ph_evcodes'[k] = ph_evcodes[k]
    BY <1>1
  <2>2. \A i \in Accepted : etag[i].id - 1 \in 0 .. ph_nev - 1
    BY <1>1, <1>5
  <2>3. \A i \in Accepted : etag[i].name = ph_evcodes[etag[i].id - 1]
    BY DEF EtagInv
  <2>4. \A i \in Accepted : etag'[i].name = ph_evcodes'[etag'[i].id - 1]
    BY <1>5, <2>1, <2>2, <2>3, ZenonT(40)
  <2>5. ph_nev + 1 - 1 = ph_nev
    BY <1>1
  <2>6. etag'[n + 1].id - 1 = ph_nev
    <3>1. ph_nev + 1 \in Int /\ \A x \in Int : x = ph_nev + 1 => x - 1 = ph_nev
      BY <1>1
    <3> QED BY <1>6, <3>1, Zenon
  <2>7. etag'[n + 1].name = ph_evcodes'[etag'[n + 1].id - 1]
    BY ONLY <1>6, <2>1, <2>6
  <2> QED BY <1>4, <2>4, <2>7
<1>9. \A i, j \in Accepted' : i < j => etag'[i].id < etag'[j].id
  <2> SUFFICES ASSUME NEW i \in Accepted', NEW j \in Accepted', i < j
               PROVE  etag'[i].id < etag'[j].id
    OBVIOUS
  <2>1. i \in Accepted
    BY <1>2, <1>4
  <2>2. CASE j \in Accepted
    BY <1>5, <2>1, <2>2 DEF EtagInv
  <2>3. CASE j = n + 1
    <3>1. etag'[i].id \in 1 .. ph_nev
      BY <1>5, <2>1
    <3>2. etag'[j].id = ph_nev + 1
      BY <1>6, <2>3
    <3>3. \A a \in 1 .. ph_nev : a < ph_nev + 1
      BY <1>1
    <3> QED BY <3>1, <3>2, <3>3
  <2> QED BY <1>4, <2>2, <2>3
<1> QED
  BY <1>7, <1>8, <1>9 DEF EtagInv

(* A row of a rejected event is not one of the columns.                    *)
LEMMA RowRejected ==
  ASSUME TInv, EtagInv, NEW e \in Events, e \notin Supported, ph_nev' = ph_nev, ph_evcodes' = ph_evcodes,
         etag' = Append(etag, [id |-> ph_nev, name |-> e])
  PROVE  EtagInv'
<1> DEFINE n == Len(etag)  row == [id |-> ph_nev, name |-> e]
<1>1. /\ ph_nev \in Nat /\ etag \in Seq([id : Nat, name : Events])
  BY DEF TInv, TypeOK
<1>2. /\ n \in Nat /\ DOMAIN etag = 1 .. n /\ DOMAIN etag' = 1 .. n + 1
      /\ (\A i \in 1 .. n : etag'[i] = etag[i]) /\ etag'[n + 1] = row
  <2>1. \A S, x : etag \in Seq(S) /\ x \in S =>
          /\ DOMAIN Append(etag, x) = 1 .. n + 1 /\ Append(etag, x)[n + 1] = x
          /\ \A i \in 1 .. n : Append(etag, x)[i] = etag[i]
    BY AppendProperties
  <2>2. row \in [id : Nat, name : Events]
    BY <1>1
  <2>3. n \in Nat /\ DOMAIN etag = 1 .. n
    BY <1>1
  <2> HIDE DEF row, n
  <2>4. etag' = Append(etag, row)
    BY DEF row
  <2> QED BY <1>1, <2>1, <2>2, <2>3, <2>4
<1>3. row.name = e
  OBVIOUS
<1> HIDE DEF n, row
<1>4. Accepted' = Accepted /\ \A i \in Accepted : etag'[i] = etag[i]
  BY <1>2, <1>3 DEF Accepted
<1> QED
  BY <1>4, ZenonT(40) DEF EtagInv

LEMMA NextColumns ==
  ASSUME ColumnsInv, TInv', [Next]_vars
  PROVE  ColumnsInv'
<1> USE DEF ColumnsInv
<1>1. ASSUME UNCHANGED <<etag, ph_nev, ph_evcodes>> PROVE EtagInv'
  BY <1>1 DEF EtagInv, Accepted
<1>2. ASSUME NEW e \in Events, ph_set_evt(e) PROVE ColumnsInv'
  <2>1. Idle /\ phase \in {"setup", "open"} /\ UNCHANGED <<phase, todo, ph_ready, rec_hdr, rec_cols>>
    BY <1>2 DEF ph_set_evt, Call
  <2>2. CASE UNCHANGED <<ph_nev, ph_evcodes, etag>>
    <3>1. HeaderInv'
      BY <2>1, <2>2 DEF HeaderInv, At
    <3> QED BY <1>1, <2>2, <3>1
  <2>3. CASE MaySet /\ ~UNCHANGED <<ph_nev, ph_evcodes, etag>>
    <3>1. phase = "setup" /\ ph_nev <= NevMax /\ ~At("mkrec")
      BY <2>1, <2>3 DEF HeaderInv, MaySet, At, Idle
    <3>2. HeaderInv'
      BY <2>1, <3>1 DEF HeaderInv, At
    <3>3. EtagInv'
      BY <1>2, <2>3, <3>1, RowAccepted, RowRejected DEF ph_set_evt, EtagRow
    <3> QED BY <3>2, <3>3
  <2> QED BY <1>2, <2>2, <2>3 DEF ph_set_evt
<1>3. CASE ph_commit
  <2>1. /\ UNCHANGED <<etag, ph_nev, ph_evcodes, rec_hdr, rec_cols>> /\ phase = "setup" /\ phase' = "open"
        /\ todo' = <<"mkrec", "S_main">>
    BY <1>3 DEF ph_commit, memory, disk
  <2>2. At("mkrec")'
    BY <2>1 DEF At
  <2>3. HeaderInv'
    BY <2>1, <2>2 DEF HeaderInv
  <2> QED BY <1>1, <2>1, <2>3
<1>4. CASE (\E t \in UserTags : ph_read(t)) \/ ph_dump \/ ph_finalize
  <2>1. /\ UNCHANGED <<etag, ph_nev, ph_evcodes, rec_hdr, rec_cols, ph_ready>>
        /\ phase = "open" /\ phase' \in {"open", "closing"} /\ ~At("mkrec")
    BY <1>4 DEF ph_read, ph_dump, ph_finalize, Call, Idle, At, memory, disk
  <2>2. ~At("mkrec")'
    BY <1>4, CallContents, <2>1 DEF Calls
  <2>3. HeaderInv'
    BY <2>1, <2>2 DEF HeaderInv
  <2> QED BY <1>1, <2>1, <2>3
<1>5. ASSUME NEW ok \in BOOLEAN, MkRec(ok) PROVE ColumnsInv'
  <2>1. UNCHANGED <<etag, ph_nev, ph_evcodes>> /\ At("mkrec")
    BY <1>5 DEF MkRec
  <2>2. todo = <<"mkrec", "S_main">>
    BY <2>1, ActiveStack
  <2>3. CASE ok
    <3>1. rec_hdr' = ph_nev /\ rec_cols' = {} /\ ph_ready' = TRUE /\ todo' = Tail(todo)
      BY <1>5, <2>3 DEF MkRec
    <3>2. todo' = <<"S_main">>
      BY <2>2, <3>1
    <3>3. HeaderInv'
      BY <2>1, <3>1, <3>2 DEF HeaderInv, At
    <3> QED BY <1>1, <2>1, <3>3
  <2>4. CASE ~ok
    <3>1. rec_hdr' = rec_hdr /\ rec_cols' = rec_cols /\ phase' = "dead" /\ todo' = <<>>
      BY <1>5, <2>4 DEF MkRec
    <3>2. HeaderInv'
      BY <2>1, <3>1 DEF HeaderInv, At
    <3> QED BY <1>1, <2>1, <3>2
  <2> QED BY <2>3, <2>4
<1>6. ASSUME UNCHANGED <<etag, ph_nev, ph_evcodes, rec_hdr, phase, ph_ready>>, rec_cols' \subseteq rec_cols \cup {ph_nev},
             phase \in {"open", "closing"}, ~At("mkrec"), ~At("mkrec")'
      PROVE  ColumnsInv'
  <2>1. HeaderInv'
    BY <1>6 DEF HeaderInv
  <2> QED BY <1>1, <1>6, <2>1
<1>7. ASSUME NEW t \in Tags, Put(t) PROVE ColumnsInv'
  <2>1. UNCHANGED <<etag, ph_nev, ph_evcodes, rec_hdr, phase, ph_ready, rec_cols>>
    BY <1>7 DEF Put, Store, disk
  <2>2. phase \in {"open", "closing"} /\ ~At("mkrec")'
    BY <1>7, PutContents
  <2>3. ~At("mkrec")
    BY <1>7, TagAssumption DEF Put, At, Tags, ProbeTags, DumpTags, Ops
  <2> QED BY <1>6, <2>1, <2>2, <2>3
<1>8. ASSUME NEW ok \in BOOLEAN, WtRec(ok) \/ Flush(ok) PROVE ColumnsInv'
  <2>1. UNCHANGED <<etag, ph_nev, ph_evcodes, rec_hdr, phase, ph_ready>> /\ ~At("mkrec")
    BY <1>8 DEF WtRec, Flush, At, Reset
  <2>2. rec_cols' \subseteq rec_cols \cup {ph_nev}
    BY <1>8 DEF WtRec, Flush, WriteRows, Rows
  <2>3. phase \in {"open", "closing"} /\ ~At("mkrec")'
    BY <1>8, WriteContents
  <2> QED BY <1>6, <2>1, <2>2, <2>3
<1>9. ASSUME NEW ok \in BOOLEAN, WtInfo(ok) PROVE ColumnsInv'
  <2>1. UNCHANGED <<etag, ph_nev, ph_evcodes, rec_hdr, rec_cols>> /\ phase' = "done" /\ todo' = <<>>
    BY <1>9 DEF WtInfo, memory
  <2>2. HeaderInv'
    BY <2>1 DEF HeaderInv, At
  <2> QED BY <1>1, <2>1, <2>2
<1>10. CASE Crash
  <2>1. /\ UNCHANGED <<etag, ph_nev, ph_evcodes, rec_hdr>> /\ phase' = "dead" /\ todo' = <<>>
        /\ phase \in {"setup", "open", "closing"}
    BY <1>10 DEF Crash, memory
  <2>2. PICK k \in 0 .. (IF At("wtrec") \/ At("flush") THEN ph_irec ELSE 0) :
          rec_cols' = IF SubSeq(Buffered, 1, k) = <<>> THEN rec_cols ELSE rec_cols \cup {ph_nev}
    BY <1>10 DEF Crash, Rows
  <2>3. rec_cols' \subseteq {rec_hdr}
    <3>1. CASE At("wtrec") \/ At("flush")
      <4>1. rec_hdr = ph_nev
        <5>1. phase \in {"open", "closing"} /\ ~At("mkrec")
          BY <3>1, ActiveStack DEF At
        <5> QED BY <5>1 DEF HeaderInv
      <4> QED BY <2>2, <4>1 DEF HeaderInv
    <3>2. CASE ~(At("wtrec") \/ At("flush"))
      <4>1. k = 0
        BY <2>2, <3>2
      <4>2. SubSeq(Buffered, 1, k) = <<>>
        BY <4>1, Weights, SubSeqEmpty
      <4> QED BY <2>2, <4>2 DEF HeaderInv
    <3> QED BY <3>1, <3>2
  <2>4. HeaderInv'
    BY <2>1, <2>3 DEF HeaderInv, At
  <2> QED BY <1>1, <2>1, <2>4
<1>11. CASE UNCHANGED vars
  BY <1>1, <1>11 DEF vars, memory, disk, HeaderInv, At
<1> QED
  BY <1>2, <1>3, <1>4, <1>5, <1>7, <1>8, <1>9, <1>10, <1>11 DEF Next, Step, Stopped

(* Rows have the columns of their header, and etag.csv names them, for     *)
(* every order of set_evt calls, also those the probe rejects.             *)
THEOREM ColumnsMatchHolds == Spec => []ColumnsMatch
<1>1. Init => ColumnsInv
  <2> SUFFICES ASSUME Init PROVE ColumnsInv
    OBVIOUS
  <2>1. TInv
    BY InitStack, InitTyped DEF TInv
  <2>2. Accepted = {}
    BY DEF Init, Accepted
  <2>3. EtagInv
    BY <2>2 DEF Init, EtagInv
  <2>4. HeaderInv
    BY DEF Init, HeaderInv, At
  <2> QED BY <2>1, <2>3, <2>4 DEF ColumnsInv
<1>2. ColumnsInv /\ [Next]_vars => ColumnsInv'
  <2> SUFFICES ASSUME ColumnsInv, [Next]_vars PROVE ColumnsInv'
    OBVIOUS
  <2>1. TInv'
    BY NextStack, NextTyped DEF ColumnsInv, TInv
  <2> QED BY <2>1, NextColumns
<1>3. ColumnsInv => ColumnsMatch
  BY DEF ColumnsInv, HeaderInv, EtagInv, Accepted, ColumnsMatch
<1> QED
  BY <1>1, <1>2, <1>3, PTL DEF Spec

-----------------------------------------------------------------------------
(* Dumps.                                                                  *)

(* The dumps that a call stack has started and not ended.                  *)
OneOpen ==
  {<<"wtrec", "E_dump">>, <<"E_dump">>, <<"S_dump", "wtrec", "E_dump", "wtrec", "E_dump">>,
   <<"wtrec", "E_dump", "flush", "wtinfo">>, <<"E_dump", "flush", "wtinfo">>}
TwoOpen == {<<"wtrec", "E_dump", "wtrec", "E_dump">>, <<"E_dump", "wtrec", "E_dump">>}
Opened(stack) == IF stack \in OneOpen THEN 1 ELSE IF stack \in TwoOpen THEN 2 ELSE 0

Tagged(t) == {i \in DOMAIN log : log[i].tag = t}
PairInv == phase # "dead" => TagCount("S_dump") = TagCount("E_dump") + Opened(todo)

(* The last record tells where the dump is.                                *)
LastInv ==
  phase # "dead" =>
    /\ log # <<>> /\ log[Len(log)].tag = "S_dump" => At("S_dump") \/ At("wtrec") \/ At("E_dump")
    /\ At("wtrec") \/ At("E_dump") => log # <<>> /\ log[Len(log)].tag \in DumpTags

(* The batch in the buffer starts at the last (0,4) row.                   *)
StartsAt(s) == s \in {1} \cup Tagged("E_dump") /\ \A q \in Tagged("E_dump") : q <= s
BatchInv ==
  phase \in {"open", "closing"} /\ ~At("mkrec") =>
    At("E_dump") \/ \E s \in Nat : StartsAt(s) /\ ph_irec = Len(log) - s + 1

AdjacentInv ==
  /\ \A i \in 1 .. Len(log) - 1 : log[i].tag = "S_dump" => log[i + 1].tag \in DumpTags
  /\ \A i \in 1 .. Len(log) : log[i].tag = "E_dump" => i > 1 /\ log[i - 1].tag \in DumpTags
EndsBefore(p) == {q \in 1 .. p - 1 : log[q].tag = "E_dump"}
ValueInv ==
  \A p \in DOMAIN log : log[p].tag = "S_dump" =>
    log[p].uval = p - Max({1} \cup EndsBefore(p)) + 1

DumpInv == CInv /\ PairInv /\ LastInv /\ BatchInv /\ AdjacentInv /\ ValueInv

(* What a store does to the call stack.                                    *)
LEMMA PutDump ==
  ASSUME IInv, NEW t \in Tags, Put(t)
  PROVE  /\ t = "S_dump" => /\ At("wtrec")' \/ At("S_dump")'
                            /\ Opened(todo') = Opened(todo) + 1
         /\ t = "E_dump" => /\ ~At("E_dump")' /\ ph_irec = 0
                            /\ Opened(todo) \in Nat /\ Opened(todo') + 1 = Opened(todo)
         /\ t \notin DumpTags => /\ ~At("wtrec")' /\ ~At("E_dump")'
                                 /\ Opened(todo') = Opened(todo)
<1> USE BufAssumption DEF IInv, OneOpen, TwoOpen, Opened, At
<1>1. /\ todo # <<>> /\ Head(todo) = t
      /\ IF ph_irec + 2 = BufNrec THEN todo' = DumpSteps \o Tail(todo)
                                  ELSE todo' = Tail(todo)
  BY DEF Put, NeedDump, Store
<1>2. t \notin Ops
  BY TagAssumption DEF Tags, ProbeTags, DumpTags, Ops
<1>3. CASE todo = <<"S_main">> /\ ph_irec = 0
  <2>1. todo' = <<>>
    BY <1>1, <1>3
  <2>2. t \notin DumpTags
    BY <1>1, <1>3 DEF DumpTags
  <2> QED BY <1>3, <2>1, <2>2 DEF DumpTags
<1>4. CASE \E u \in UserTags : todo = <<u>>
  <2>1. Tail(todo) = <<>> /\ t \in UserTags /\ todo = <<t>>
    BY <1>1, <1>4
  <2>2. todo' = <<>> \/ todo' = <<"S_dump", "wtrec", "E_dump">>
    BY <1>1, <2>1, PushOnNothing
  <2>3. t \notin DumpTags
    BY <2>1, TagAssumption DEF ProbeTags
  <2>4. Opened(todo) = 0 /\ Opened(todo') = 0
    BY <2>1, <2>2, <2>3 DEF DumpTags
  <2> QED BY <2>2, <2>3, <2>4 DEF DumpTags
<1>5. CASE todo = <<"S_dump", "wtrec", "E_dump">>
  <2>1. Tail(todo) = <<"wtrec", "E_dump">> /\ t = "S_dump"
    BY <1>1, <1>5
  <2>2. todo' = <<"S_dump", "wtrec", "E_dump", "wtrec", "E_dump">> \/ todo' = <<"wtrec", "E_dump">>
    BY <1>1, <2>1, PushOnTwo
  <2> QED BY <1>5, <2>1, <2>2 DEF DumpTags
<1>6. CASE todo = <<"S_dump", "wtrec", "E_dump", "wtrec", "E_dump">> /\ ph_irec = BufNrec - 1
  <2>1. todo' = <<"wtrec", "E_dump", "wtrec", "E_dump">> /\ t = "S_dump"
    BY <1>1, <1>6
  <2> QED BY <1>6, <2>1 DEF DumpTags
<1>7. CASE todo = <<"E_dump">> /\ ph_irec = 0
  <2>1. todo' = <<>> /\ t = "E_dump"
    BY <1>1, <1>7
  <2> QED BY <1>7, <2>1 DEF DumpTags
<1>8. CASE todo = <<"E_dump", "wtrec", "E_dump">> /\ ph_irec = 0
  <2>1. todo' = <<"wtrec", "E_dump">> /\ t = "E_dump"
    BY <1>1, <1>8
  <2> QED BY <1>8, <2>1 DEF DumpTags
<1>9. CASE todo = <<"E_main", "flush", "wtinfo">>
  <2>1. Tail(todo) = <<"flush", "wtinfo">> /\ t = "E_main"
    BY <1>1, <1>9
  <2>2. todo' = <<"S_dump", "wtrec", "E_dump", "flush", "wtinfo">> \/ todo' = <<"flush", "wtinfo">>
    BY <1>1, <2>1, PushOnTwo
  <2> QED BY <1>9, <2>1, <2>2 DEF DumpTags
<1>10. CASE todo = <<"S_dump", "wtrec", "E_dump", "flush", "wtinfo">> /\ ph_irec = BufNrec - 1
  <2>1. todo' = <<"wtrec", "E_dump", "flush", "wtinfo">> /\ t = "S_dump"
    BY <1>1, <1>10
  <2> QED BY <1>10, <2>1 DEF DumpTags
<1>11. CASE todo = <<"E_dump", "flush", "wtinfo">> /\ ph_irec = 0
  <2>1. todo' = <<"flush", "wtinfo">> /\ t = "E_dump"
    BY <1>1, <1>11
  <2> QED BY <1>11, <2>1 DEF DumpTags
<1> QED
  BY <1>1, <1>2, <1>3, <1>4, <1>5, <1>6, <1>7, <1>8, <1>9, <1>10, <1>11
  DEF StackInv, StackShape, Ops

(* What the other steps do to it.                                          *)
LEMMA OtherDump ==
  ASSUME IInv, NEW ok \in BOOLEAN
  PROVE  /\ WtRec(ok) => At("E_dump")' /\ Opened(todo') = Opened(todo)
         /\ Flush(ok) => Opened(todo') = Opened(todo) /\ ~At("wtrec")' /\ ~At("E_dump")'
         /\ MkRec(ok) \/ WtInfo(ok) => /\ Opened(todo) = 0 /\ Opened(todo') = 0
                                       /\ ~At("wtrec")' /\ ~At("E_dump")'
<1> USE TagAssumption DEF IInv, StackInv, StackShape, OneOpen, TwoOpen, Opened, At, Ops
<1>1. ASSUME WtRec(ok) PROVE At("E_dump")' /\ Opened(todo') = Opened(todo)
  <2>1. todo # <<>> /\ Head(todo) = "wtrec" /\ todo' = Tail(todo)
    BY <1>1 DEF WtRec
  <2>2. todo \in {<<"wtrec", "E_dump">>, <<"wtrec", "E_dump", "wtrec", "E_dump">>,
                  <<"wtrec", "E_dump", "flush", "wtinfo">>}
    BY <2>1
  <2>3. \/ todo = <<"wtrec", "E_dump">> /\ todo' = <<"E_dump">>
        \/ todo = <<"wtrec", "E_dump", "wtrec", "E_dump">> /\ todo' = <<"E_dump", "wtrec", "E_dump">>
        \/ todo = <<"wtrec", "E_dump", "flush", "wtinfo">> /\ todo' = <<"E_dump", "flush", "wtinfo">>
    <3>1. todo = <<"wtrec", "E_dump">> => Tail(todo) = <<"E_dump">>
      OBVIOUS
    <3>2. todo = <<"wtrec", "E_dump", "wtrec", "E_dump">> => Tail(todo) = <<"E_dump", "wtrec", "E_dump">>
      OBVIOUS
    <3>3. todo = <<"wtrec", "E_dump", "flush", "wtinfo">> => Tail(todo) = <<"E_dump", "flush", "wtinfo">>
      OBVIOUS
    <3> QED BY ONLY <2>1, <2>2, <3>1, <3>2, <3>3
  <2> QED BY ONLY <2>3, SMTT(20) DEF OneOpen, TwoOpen, Opened, At
<1>2. ASSUME Flush(ok) PROVE Opened(todo') = Opened(todo) /\ ~At("wtrec")' /\ ~At("E_dump")'
  <2>1. todo # <<>> /\ Head(todo) = "flush" /\ todo' = Tail(todo)
    BY <1>2 DEF Flush
  <2>2. todo = <<"flush", "wtinfo">>
    BY <2>1
  <2>3. todo' = <<"wtinfo">>
    BY <2>1, <2>2
  <2> QED BY ONLY <2>2, <2>3 DEF OneOpen, TwoOpen, Opened, At
<1>3. ASSUME MkRec(ok) PROVE Opened(todo) = 0 /\ Opened(todo') = 0 /\ ~At("wtrec")' /\ ~At("E_dump")'
  <2>1. todo # <<>> /\ Head(todo) = "mkrec" /\ (todo' = Tail(todo) \/ todo' = <<>>)
    BY <1>3 DEF MkRec
  <2>2. todo = <<"mkrec", "S_main">>
    BY <2>1
  <2>3. todo' = <<"S_main">> \/ todo' = <<>>
    BY <2>1, <2>2
  <2> QED BY ONLY <2>2, <2>3 DEF OneOpen, TwoOpen, Opened, At
<1>4. ASSUME WtInfo(ok) PROVE Opened(todo) = 0 /\ Opened(todo') = 0 /\ ~At("wtrec")' /\ ~At("E_dump")'
  <2>1. todo # <<>> /\ Head(todo) = "wtinfo" /\ todo' = <<>>
    BY <1>4 DEF WtInfo
  <2>2. todo = <<"wtinfo">>
    BY <2>1
  <2> QED BY ONLY <2>1, <2>2 DEF OneOpen, TwoOpen, Opened, At
<1> QED
  BY <1>1, <1>2, <1>3, <1>4

(* The log after a store.                                                  *)
LEMMA PutLog ==
  ASSUME TInv, NEW t \in Tags, Put(t)
  PROVE  /\ Len(log) \in Nat /\ DOMAIN log = 1 .. Len(log)
         /\ Len(log') = Len(log) + 1 /\ DOMAIN log' = 1 .. Len(log) + 1
         /\ \A i \in 1 .. Len(log) : log'[i] = log[i]
         /\ log'[Len(log) + 1].tag = t /\ log'[Len(log) + 1].uval = Uval(t)
<1> DEFINE r == [tag |-> t, uval |-> Uval(t)]
<1>1. log \in Seq(Recs)
  BY DEF TInv, TypeOK
<1>2. log' = Append(log, r)
  BY DEF Put
<1>3. r \in Recs
  BY BufAssumption, PutStack DEF TInv, TypeOK, Recs, Uval
<1>4. r.tag = t /\ r.uval = Uval(t)
  OBVIOUS
<1> HIDE DEF r
<1>5. \A S, x : log \in Seq(S) /\ x \in S =>
        /\ Len(Append(log, x)) = Len(log) + 1 /\ Append(log, x)[Len(log) + 1] = x
        /\ DOMAIN Append(log, x) = 1 .. Len(log) + 1
        /\ \A i \in 1 .. Len(log) : Append(log, x)[i] = log[i]
  BY AppendProperties
<1>6. Len(log) \in Nat /\ DOMAIN log = 1 .. Len(log)
  BY <1>1
<1> QED
  BY <1>1, <1>2, <1>3, <1>4, <1>5, <1>6

(* The largest element.                                                    *)
LEMMA MaxOf ==
  ASSUME NEW S \in SUBSET Nat, NEW s \in S, \A q \in S : q <= s
  PROVE  Max(S) = s
<1>1. \E x \in S : \A y \in S : x >= y
  BY SMT
<1>2. Max(S) \in S /\ \A y \in S : Max(S) >= y
  BY <1>1 DEF Max
<1>3. Max(S) >= s /\ Max(S) <= s
  BY <1>2
<1>4. Max(S) \in Nat /\ s \in Nat
  BY <1>2
<1> QED BY <1>3, <1>4

(* The records with a tag are finitely many.                               *)
LEMMA TagsFinite ==
  ASSUME log \in Seq(Recs), NEW t
  PROVE  IsFiniteSet(Tagged(t)) /\ TagCount(t) \in Nat /\ TagCount(t) = Cardinality(Tagged(t))
         /\ Tagged(t) \subseteq 1 .. Len(log)
<1>1. Len(log) \in Nat /\ DOMAIN log = 1 .. Len(log)
  OBVIOUS
<1>2. IsFiniteSet(1 .. Len(log)) /\ Tagged(t) \subseteq 1 .. Len(log)
  BY <1>1, FS_Interval DEF Tagged
<1>3. IsFiniteSet(Tagged(t))
  BY <1>2, FS_Subset
<1>4. TagCount(t) = Cardinality(Tagged(t))
  BY DEF TagCount, Tagged
<1> QED
  BY <1>2, <1>3, <1>4, FS_CardinalityType

(* A store counts for its own tag only.                                    *)
LEMMA PutCount ==
  ASSUME TInv, NEW t \in Tags, Put(t), NEW u
  PROVE  /\ u = t => TagCount(u)' = TagCount(u) + 1 /\ Tagged(u)' = Tagged(u) \cup {Len(log) + 1}
         /\ u # t => TagCount(u)' = TagCount(u) /\ Tagged(u)' = Tagged(u)
         /\ TagCount(u) \in Nat
<1>1. /\ Len(log) \in Nat /\ DOMAIN log = 1 .. Len(log) /\ DOMAIN log' = 1 .. Len(log) + 1
      /\ \A i \in 1 .. Len(log) : log'[i] = log[i]
      /\ log'[Len(log) + 1].tag = t
  BY PutLog
<1>2. log \in Seq(Recs)
  BY DEF TInv, TypeOK
<1>3. /\ IsFiniteSet(Tagged(u)) /\ TagCount(u) \in Nat /\ TagCount(u) = Cardinality(Tagged(u))
      /\ Tagged(u) \subseteq 1 .. Len(log)
  BY <1>2, TagsFinite
<1>4. TagCount(u)' = Cardinality(Tagged(u)')
  BY DEF TagCount, Tagged
<1>5. u = t => Tagged(u)' = Tagged(u) \cup {Len(log) + 1}
  BY <1>1 DEF Tagged
<1>6. u # t => Tagged(u)' = Tagged(u)
  BY <1>1 DEF Tagged
<1>7. Len(log) + 1 \notin Tagged(u)
  BY <1>1, <1>3
<1>8. u = t => Cardinality(Tagged(u)') = Cardinality(Tagged(u)) + 1
  BY <1>3, <1>5, <1>7, FS_AddElement
<1> QED
  BY <1>3, <1>4, <1>5, <1>6, <1>8

LEMMA PutBrackets ==
  ASSUME TInv, TInv', PairInv, LastInv, BatchInv, AdjacentInv, ValueInv, NEW t \in Tags, Put(t)
  PROVE  PairInv' /\ LastInv' /\ BatchInv' /\ AdjacentInv' /\ ValueInv'
<1>0. PICK n \in Nat : n = Len(log)
  BY PutLog
<1>1. /\ n \in Nat /\ DOMAIN log = 1 .. n /\ Len(log') = n + 1 /\ DOMAIN log' = 1 .. n + 1
      /\ (\A i \in 1 .. n : log'[i] = log[i])
      /\ log'[n + 1].tag = t /\ log'[n + 1].uval = Uval(t)
  BY <1>0, PutLog
<1>2. At(t) /\ phase' = phase /\ phase \in {"open", "closing"} /\ ph_irec' = ph_irec + 1 /\ ph_irec \in Nat
      /\ todo # <<>>
  <2>1. phase' = phase /\ phase \in {"open", "closing"}
    BY PutContents
  <2> QED BY <2>1 DEF Put, At, Store, TInv, IInv
<1>3. \A u \in Tags \cup Ops : At(u) <=> u = t
  BY <1>2 DEF At
<1>4. "S_dump" \in Tags /\ "E_dump" \in Tags /\ {"wtrec", "mkrec"} \subseteq Ops /\ t \notin {"wtrec", "mkrec"}
  BY TagAssumption DEF Tags, ProbeTags, DumpTags, Ops
<1>5. ~At("mkrec") /\ ~At("wtrec")
  BY <1>2, <1>4 DEF At
<1>6. /\ t = "S_dump" => /\ At("wtrec")' \/ At("S_dump")'
                         /\ Opened(todo') = Opened(todo) + 1
      /\ t = "E_dump" => /\ ~At("E_dump")' /\ ph_irec = 0
                         /\ Opened(todo) \in Nat /\ Opened(todo') + 1 = Opened(todo)
      /\ t \notin DumpTags => /\ ~At("wtrec")' /\ ~At("E_dump")'
                              /\ Opened(todo') = Opened(todo)
  BY PutDump DEF TInv
<1>7. Opened(todo) \in Nat /\ Opened(todo') \in Nat
  BY DEF Opened
<1>8. \A u : /\ u = t => TagCount(u)' = TagCount(u) + 1 /\ Tagged(u)' = Tagged(u) \cup {n + 1}
             /\ u # t => TagCount(u)' = TagCount(u) /\ Tagged(u)' = Tagged(u)
             /\ TagCount(u) \in Nat
  BY <1>0, PutCount
<1>9. log \in Seq(Recs)
  BY DEF TInv, TypeOK
<1>10. Tagged("E_dump") \subseteq 1 .. n
  BY <1>0, <1>9, TagsFinite
<1>11. PairInv'
  <2>1. TagCount("S_dump") = TagCount("E_dump") + Opened(todo)
    BY <1>2 DEF PairInv
  <2>2. TagCount("S_dump") \in Nat /\ TagCount("E_dump") \in Nat
    BY <1>8
  <2>3. CASE t = "S_dump"
    <3>1. /\ TagCount("S_dump")' = TagCount("S_dump") + 1 /\ TagCount("E_dump")' = TagCount("E_dump")
          /\ Opened(todo') = Opened(todo) + 1
      BY <1>6, <1>8, <2>3
    <3>2. TagCount("S_dump")' = TagCount("E_dump")' + Opened(todo')
      BY <1>7, <2>1, <2>2, <3>1
    <3> QED BY <3>2 DEF PairInv
  <2>4. CASE t = "E_dump"
    <3>1. /\ TagCount("S_dump")' = TagCount("S_dump") /\ TagCount("E_dump")' = TagCount("E_dump") + 1
          /\ Opened(todo') + 1 = Opened(todo)
      BY <1>6, <1>8, <2>4
    <3>2. TagCount("S_dump")' = TagCount("E_dump")' + Opened(todo')
      BY <1>7, <2>1, <2>2, <3>1
    <3> QED BY <3>2 DEF PairInv
  <2>5. CASE t \notin DumpTags
    <3>1. /\ TagCount("S_dump")' = TagCount("S_dump") /\ TagCount("E_dump")' = TagCount("E_dump")
          /\ Opened(todo') = Opened(todo)
      BY <1>6, <1>8, <2>5 DEF DumpTags
    <3> QED BY <2>1, <3>1 DEF PairInv
  <2> QED BY <2>3, <2>4, <2>5 DEF DumpTags
<1>12. LastInv'
  <2>1. log'[Len(log')].tag = t
    BY <1>1
  <2>2. log' # <<>>
    BY <1>1
  <2>3. t = "S_dump" => (At("S_dump") \/ At("wtrec") \/ At("E_dump"))'
    BY <1>6
  <2>4. (At("wtrec") \/ At("E_dump"))' => t \in DumpTags
    BY <1>6
  <2> QED BY <2>1, <2>2, <2>3, <2>4, Zenon DEF LastInv
<1>13. CASE t = "E_dump"
  <2>1. Tagged("E_dump")' = Tagged("E_dump") \cup {n + 1}
    BY <1>8, <1>13
  <2>2. StartsAt(n + 1)'
    BY <1>1, <1>10, <2>1 DEF StartsAt
  <2>3. ph_irec' = Len(log') - (n + 1) + 1
    BY <1>1, <1>2, <1>6, <1>13
  <2>4. n + 1 \in Nat
    BY <1>1
  <2>5. \E s \in Nat : StartsAt(s)' /\ ph_irec' = Len(log') - s + 1
    BY <2>2, <2>3, <2>4, Zenon
  <2>6. BatchInv'
    BY <2>5, Zenon DEF BatchInv
  <2>7. AdjacentInv'
    <3>1. n > 0 /\ log[n].tag \in DumpTags
      <4>1. log # <<>> /\ log[Len(log)].tag \in DumpTags
        BY <1>2, <1>13 DEF LastInv
      <4>2. Len(log) > 0
        BY <1>9, <4>1
      <4> QED BY <1>0, <4>1, <4>2
    <3>2. \A i \in 1 .. n : log'[i].tag = "S_dump" => log'[i + 1].tag \in DumpTags
      <4> SUFFICES ASSUME NEW i \in 1 .. n, log'[i].tag = "S_dump"
                   PROVE  log'[i + 1].tag \in DumpTags
        OBVIOUS
      <4>1. CASE i = n
        BY <1>1, <1>13, <4>1 DEF DumpTags
      <4>2. CASE i # n
        <5>1. i \in 1 .. Len(log) - 1 /\ i + 1 \in 1 .. n
          BY <1>0, <1>1, <4>2
        <5> QED BY <1>1, <5>1 DEF AdjacentInv
      <4> QED BY <4>1, <4>2
    <3>3. \A i \in 1 .. n + 1 : log'[i].tag = "E_dump" => i > 1 /\ log'[i - 1].tag \in DumpTags
      <4> SUFFICES ASSUME NEW i \in 1 .. n + 1, log'[i].tag = "E_dump"
                   PROVE  i > 1 /\ log'[i - 1].tag \in DumpTags
        OBVIOUS
      <4>1. CASE i = n + 1
        <5>1. i > 1 /\ i - 1 = n /\ n \in 1 .. n
          BY <1>1, <3>1, <4>1
        <5> QED BY <1>1, <3>1, <5>1
      <4>2. CASE i # n + 1
        <5>1. i \in 1 .. Len(log) /\ i \in 1 .. n
          BY <1>0, <1>1, <4>2
        <5>2. i > 1 /\ log[i - 1].tag \in DumpTags
          BY <1>1, <5>1 DEF AdjacentInv
        <5>3. i - 1 \in 1 .. n
          BY <1>1, <5>1, <5>2
        <5> QED BY <1>1, <5>2, <5>3
      <4> QED BY <4>1, <4>2
    <3>4. 1 .. Len(log') - 1 = 1 .. n /\ 1 .. Len(log') = 1 .. n + 1
      BY <1>1
    <3> QED BY <3>2, <3>3, <3>4, Zenon DEF AdjacentInv
  <2>8. ValueInv'
    <3> SUFFICES ASSUME NEW p \in 1 .. n + 1, log'[p].tag = "S_dump"
                 PROVE  log'[p].uval = p - Max({1} \cup EndsBefore(p)') + 1
      BY <1>1 DEF ValueInv
    <3>1. p \in 1 .. n
      BY <1>1, <1>13
    <3>2. EndsBefore(p)' = EndsBefore(p)
      BY <1>1, <3>1 DEF EndsBefore
    <3> QED BY <1>1, <3>1, <3>2 DEF ValueInv
  <2> QED BY <1>11, <1>12, <2>6, <2>7, <2>8
<1>14. CASE t # "E_dump"
  <2>1. Tagged("E_dump")' = Tagged("E_dump")
    BY <1>8, <1>14
  <2>2. PICK s \in Nat : StartsAt(s) /\ ph_irec = Len(log) - s + 1
    BY <1>2, <1>3, <1>4, <1>5, <1>14 DEF BatchInv
  <2>3. StartsAt(s)'
    BY <2>1, <2>2 DEF StartsAt
  <2>4. ph_irec' = Len(log') - s + 1
    BY <1>0, <1>1, <1>2, <2>2
  <2>5. BatchInv'
    BY <2>3, <2>4, Zenon DEF BatchInv
  <2>6. AdjacentInv'
    <3>1. \A i \in 1 .. n : log'[i].tag = "S_dump" => log'[i + 1].tag \in DumpTags
      <4> SUFFICES ASSUME NEW i \in 1 .. n, log'[i].tag = "S_dump"
                   PROVE  log'[i + 1].tag \in DumpTags
        OBVIOUS
      <4>1. CASE i = n
        <5>1. log[Len(log)].tag = "S_dump" /\ log # <<>>
          BY <1>0, <1>1, <1>9, <4>1
        <5>2. At("S_dump") \/ At("wtrec") \/ At("E_dump")
          BY <1>2, <5>1 DEF LastInv
        <5>3. t = "S_dump"
          BY <1>3, <1>4, <1>5, <1>14, <5>2
        <5> QED BY <1>1, <4>1, <5>3 DEF DumpTags
      <4>2. CASE i # n
        <5>1. i \in 1 .. Len(log) - 1 /\ i + 1 \in 1 .. n
          BY <1>0, <1>1, <4>2
        <5> QED BY <1>1, <5>1 DEF AdjacentInv
      <4> QED BY <4>1, <4>2
    <3>2. \A i \in 1 .. n + 1 : log'[i].tag = "E_dump" => i > 1 /\ log'[i - 1].tag \in DumpTags
      <4> SUFFICES ASSUME NEW i \in 1 .. n + 1, log'[i].tag = "E_dump"
                   PROVE  i > 1 /\ log'[i - 1].tag \in DumpTags
        OBVIOUS
      <4>1. i \in 1 .. Len(log) /\ i \in 1 .. n
        BY <1>0, <1>1, <1>14
      <4>2. i > 1 /\ log[i - 1].tag \in DumpTags
        BY <1>1, <4>1 DEF AdjacentInv
      <4>3. i - 1 \in 1 .. n
        BY <1>1, <4>1, <4>2
      <4> QED BY <1>1, <4>2, <4>3
    <3>3. 1 .. Len(log') - 1 = 1 .. n /\ 1 .. Len(log') = 1 .. n + 1
      BY <1>1
    <3> QED BY <3>1, <3>2, <3>3, Zenon DEF AdjacentInv
  <2>7. ValueInv'
    <3> SUFFICES ASSUME NEW p \in 1 .. n + 1, log'[p].tag = "S_dump"
                 PROVE  log'[p].uval = p - Max({1} \cup EndsBefore(p)') + 1
      BY <1>1 DEF ValueInv
    <3>1. CASE p \in 1 .. n
      <4>1. EndsBefore(p)' = EndsBefore(p)
        BY <1>1, <3>1 DEF EndsBefore
      <4> QED BY <1>1, <3>1, <4>1 DEF ValueInv
    <3>2. CASE p = n + 1
      <4>1. EndsBefore(p)' = Tagged("E_dump")
        BY <1>1, <3>2 DEF EndsBefore, Tagged
      <4>2. Max({1} \cup Tagged("E_dump")) = s
        <5>1. {1} \cup Tagged("E_dump") \in SUBSET Nat
          BY <1>1, <1>10
        <5>2. s \in {1} \cup Tagged("E_dump") /\ \A q \in {1} \cup Tagged("E_dump") : q <= s
          BY <1>1, <1>10, <2>2 DEF StartsAt
        <5> QED BY <5>1, <5>2, MaxOf
      <4>3. t = "S_dump"
        BY <1>1, <3>2
      <4>4. log'[p].uval = ph_irec + 1
        BY <1>1, <3>2, <4>3 DEF Uval
      <4>5. ph_irec + 1 = n + 1 - s + 1
        BY <1>0, <1>1, <2>2
      <4>6. log'[p].uval = p - s + 1
        BY <3>2, <4>4, <4>5
      <4> QED BY <4>1, <4>2, <4>6
    <3> QED BY <1>1, <3>1, <3>2
  <2> QED BY <1>11, <1>12, <2>5, <2>6, <2>7
<1> QED BY <1>13, <1>14

(* A step that takes no record keeps the bracketing of the log.            *)
LEMMA KeepBrackets ==
  ASSUME log' = log, AdjacentInv, ValueInv
  PROVE  /\ AdjacentInv' /\ ValueInv'
         /\ \A t : TagCount(t)' = TagCount(t)
         /\ \A s : StartsAt(s)' <=> StartsAt(s)
  BY DEF AdjacentInv, ValueInv, EndsBefore, TagCount, StartsAt, Tagged

LEMMA NextBrackets ==
  ASSUME DumpInv, CInv', [Next]_vars
  PROVE  DumpInv'
<1> USE DEF DumpInv, CInv
<1>1. ASSUME log' = log, phase' = "dead" \/ PairInv', phase' = "dead" \/ LastInv', BatchInv' PROVE DumpInv'
  BY <1>1, KeepBrackets, Zenon DEF PairInv, LastInv
<1>2. ASSUME phase' = "dead", log' = log PROVE DumpInv'
  BY <1>1, <1>2 DEF BatchInv
<1>3. CASE Calls
  <2>1. log' = log /\ ph_irec' = ph_irec /\ phase \in {"setup", "open"} /\ todo = <<>>
    BY <1>3, CallContents DEF Calls, ph_set_evt, ph_commit, ph_read, ph_dump, ph_finalize, Call, Idle
  <2>2. \/ phase' = phase /\ todo' = todo
        \/ phase = "setup" /\ todo' = <<"mkrec", "S_main">>
        \/ phase = "open" /\ \E t \in UserTags : todo' = <<t>>
        \/ phase = "open" /\ todo' \in {<<"S_dump", "wtrec", "E_dump">>, <<"E_main", "flush", "wtinfo">>}
    BY <1>3 DEF Calls, ph_set_evt, ph_commit, ph_read, ph_dump, ph_finalize, DumpSteps
  <2>3. Opened(todo) = 0 /\ Opened(todo') = 0
    BY <2>1, <2>2, TagAssumption DEF Opened, OneOpen, TwoOpen, ProbeTags, DumpTags, Ops
  <2>4. /\ ~At("S_dump") /\ ~At("wtrec") /\ ~At("E_dump") /\ ~At("mkrec")
        /\ ~At("wtrec")' /\ ~At("E_dump")'
    BY <2>1, <2>2, TagAssumption DEF At, ProbeTags, DumpTags, Ops
  <2>5. PairInv'
    BY <2>1, <2>3, KeepBrackets DEF PairInv
  <2>6. LastInv'
    BY <2>1, <2>4 DEF LastInv
  <2>7. BatchInv'
    <3>1. CASE phase = "open"
      <4>1. \E s \in Nat : StartsAt(s) /\ ph_irec = Len(log) - s + 1
        BY <2>4, <3>1 DEF BatchInv
      <4> QED BY <2>1, <4>1, KeepBrackets, Zenon DEF BatchInv
    <3>2. CASE phase = "setup"
      <4>1. phase' = "setup" \/ At("mkrec")'
        BY <2>2, <3>2 DEF At
      <4> QED BY <4>1 DEF BatchInv
    <3> QED BY <2>1, <3>1, <3>2
  <2> QED BY <1>1, <2>1, <2>5, <2>6, <2>7
<1>4. ASSUME NEW t \in Tags, Put(t) PROVE DumpInv'
  BY <1>4, PutBrackets
<1>5. ASSUME NEW ok \in BOOLEAN, MkRec(ok) PROVE DumpInv'
  <2>1. log' = log /\ At("mkrec")
    BY <1>5 DEF MkRec
  <2>2. CASE ok
    <3>1. ph_irec' = 0 /\ phase' = phase /\ phase # "dead"
      BY <1>5, <2>1, <2>2, ActiveStack DEF MkRec, At
    <3>2. log = <<>>
      BY <2>1 DEF Fresh
    <3>3. Opened(todo) = 0 /\ Opened(todo') = 0 /\ ~At("wtrec")' /\ ~At("E_dump")'
      BY <1>5, OtherDump DEF TInv
    <3>4. PairInv'
      BY <2>1, <3>1, <3>3, KeepBrackets DEF PairInv
    <3>5. LastInv'
      BY <2>1, <3>2, <3>3 DEF LastInv
    <3>6. BatchInv'
      <4>1. Tagged("E_dump") = {} /\ Len(log) = 0
        BY <3>2 DEF Tagged
      <4>2. StartsAt(1)
        BY <4>1 DEF StartsAt
      <4>3. ph_irec' = Len(log') - 1 + 1 /\ 1 \in Nat
        BY <2>1, <3>1, <4>1
      <4> QED BY <2>1, <4>2, <4>3, KeepBrackets, Zenon DEF BatchInv
    <3> QED BY <1>1, <2>1, <3>4, <3>5, <3>6
  <2>3. CASE ~ok
    BY <1>2, <1>5, <2>1, <2>3 DEF MkRec
  <2> QED BY <2>2, <2>3
<1>6. ASSUME NEW ok \in BOOLEAN, WtRec(ok) PROVE DumpInv'
  <2>1. log' = log /\ phase' = phase /\ At("wtrec") /\ phase # "dead"
    BY <1>6, WriteContents DEF WtRec
  <2>2. At("E_dump")' /\ Opened(todo') = Opened(todo)
    BY <1>6, OtherDump DEF TInv
  <2>3. PairInv'
    BY <2>1, <2>2, KeepBrackets DEF PairInv
  <2>4. LastInv'
    BY <2>1, <2>2 DEF LastInv
  <2>5. BatchInv'
    BY <2>2 DEF BatchInv
  <2> QED BY <1>1, <2>1, <2>3, <2>4, <2>5
<1>7. ASSUME NEW ok \in BOOLEAN, Flush(ok) PROVE DumpInv'
  <2>1. log' = log /\ phase' = phase /\ At("flush") /\ phase \in {"open", "closing"} /\ ph_irec' = ph_irec
    BY <1>7, WriteContents DEF Flush
  <2>2. Opened(todo') = Opened(todo) /\ ~At("wtrec")' /\ ~At("E_dump")'
    BY <1>7, OtherDump DEF TInv
  <2>3. ~At("mkrec") /\ ~At("wtrec") /\ ~At("E_dump") /\ ~At("S_dump")
    BY <2>1 DEF At
  <2>4. PairInv'
    BY <2>1, <2>2, KeepBrackets DEF PairInv
  <2>5. LastInv'
    BY <2>1, <2>2, <2>3 DEF LastInv
  <2>6. BatchInv'
    <3>1. \E s \in Nat : StartsAt(s) /\ ph_irec = Len(log) - s + 1
      BY <2>1, <2>3 DEF BatchInv
    <3> QED BY <2>1, <3>1, KeepBrackets, Zenon DEF BatchInv
  <2> QED BY <1>1, <2>1, <2>4, <2>5, <2>6
<1>8. ASSUME NEW ok \in BOOLEAN, WtInfo(ok) PROVE DumpInv'
  <2>1. log' = log /\ phase' = "done" /\ At("wtinfo") /\ phase # "dead"
    BY <1>8, ActiveStack DEF WtInfo, At
  <2>2. Opened(todo) = 0 /\ Opened(todo') = 0 /\ ~At("wtrec")' /\ ~At("E_dump")'
    BY <1>8, OtherDump DEF TInv
  <2>3. ~At("mkrec") /\ ~At("wtrec") /\ ~At("E_dump") /\ ~At("S_dump")
    BY <2>1 DEF At
  <2>4. PairInv'
    BY <2>1, <2>2, KeepBrackets DEF PairInv
  <2>5. LastInv'
    BY <2>1, <2>2, <2>3 DEF LastInv
  <2>6. BatchInv'
    BY <2>1 DEF BatchInv
  <2> QED BY <1>1, <2>1, <2>4, <2>5, <2>6
<1>9. CASE Crash
  BY <1>2, <1>9 DEF Crash
<1>10. CASE UNCHANGED vars
  BY <1>10 DEF vars, memory, disk, AdjacentInv, ValueInv, EndsBefore, PairInv, TagCount, LastInv, BatchInv,
               StartsAt, Tagged, At
<1> QED
  BY <1>3, <1>4, <1>5, <1>6, <1>7, <1>8, <1>9, <1>10 DEF Next, Step, Stopped, Calls

LEMMA InitBrackets == Init => PairInv /\ LastInv /\ BatchInv /\ AdjacentInv /\ ValueInv
<1> SUFFICES ASSUME Init PROVE PairInv /\ LastInv /\ BatchInv /\ AdjacentInv /\ ValueInv
  OBVIOUS
<1>1. log = <<>> /\ Len(log) = 0 /\ DOMAIN log = {} /\ todo = <<>> /\ phase = "setup"
  BY DEF Init
<1>2. TagCount("S_dump") = 0 /\ TagCount("E_dump") = 0
  <2>1. \A t : {i \in DOMAIN log : log[i].tag = t} = {}
    BY <1>1
  <2> QED BY <2>1, FS_EmptySet DEF TagCount
<1>3. Opened(todo) = 0
  BY <1>1 DEF Opened, OneOpen, TwoOpen
<1> QED
  BY <1>1, <1>2, <1>3 DEF PairInv, LastInv, BatchInv, AdjacentInv, ValueInv, At

(* The overhead markers bracket every dump: a (0,3) row is followed by a   *)
(* marker and a (0,4) row preceded by one, every dump that has returned    *)
(* has both, and the value of a (0,3) row is the size of its batch, for    *)
(* every buffer size and wherever an automatic dump cuts into an explicit  *)
(* one.                                                                    *)
THEOREM DumpBracketedHolds == Spec => []DumpBracketed
<1>1. DumpInv => DumpBracketed
  <2> SUFFICES ASSUME DumpInv PROVE DumpBracketed
    OBVIOUS
  <2>1. Idle /\ phase # "dead" => TagCount("S_dump") = TagCount("E_dump")
    <3> SUFFICES ASSUME Idle, phase # "dead" PROVE TagCount("S_dump") = TagCount("E_dump")
      OBVIOUS
    <3>1. Opened(todo) = 0
      BY DEF Idle, Opened, OneOpen, TwoOpen
    <3>2. log \in Seq(Recs)
      BY DEF DumpInv, CInv, TInv, TypeOK
    <3>3. TagCount("E_dump") \in Nat
      BY <3>2, TagsFinite
    <3>4. TagCount("S_dump") = TagCount("E_dump") + 0
      BY <3>1 DEF DumpInv, PairInv
    <3> QED BY <3>3, <3>4
  <2> QED BY <2>1 DEF DumpInv, AdjacentInv, ValueInv, EndsBefore, DumpBracketed
<1>2. Init => DumpInv
  BY InitContents, InitBrackets DEF DumpInv
<1>3. DumpInv /\ [Next]_vars => DumpInv'
  BY NextC, NextBrackets DEF DumpInv
<1> QED
  BY <1>1, <1>2, <1>3, PTL DEF Spec
=============================================================================
