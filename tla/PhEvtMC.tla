------------------------------- MODULE PhEvtMC -------------------------------
(* Entries of the tables whose names begin with one another, and texts that *)
(* combine them with numbers, comparisons, modes and what does not belong;  *)
(* the last entry has two umasks of one name.                               *)
EXTENDS PhEvt

Entry(val, name) == [umask_val |-> val, name |-> name]
SomeEvents == <<
  [evt_num |-> 3, name |-> <<Name("ld_blocks")>>,
   umasks |-> <<Entry(2, <<Name("store_forward")>>), Entry(8, <<Name("no_sr")>>)>>],
  [evt_num |-> 7, name |-> <<Name("ld_blocks"), Name("_partial")>>,
   umasks |-> <<Entry(1, <<Name("address_alias")>>)>>],
  [evt_num |-> 200, name |-> <<Name("hle_retired")>>,
   umasks |-> <<Entry(4, <<Name("aborted")>>), Entry(8, <<Name("aborted"), Name("_mem")>>),
                Entry(64, <<Name("aborted"), Name("_mem"), Name("type")>>)>>],
  [evt_num |-> 88, name |-> <<Name("move_elimination")>>,
   umasks |-> <<Entry(4, <<Name("int_not_eliminated")>>), Entry(8, <<Name("simd_not_eliminated")>>),
                Entry(1, <<Name("int_not_eliminated")>>), Entry(2, <<Name("simd_eliminated")>>)>>]>>

Junk == <<Name("x")>>
SomeInputs ==
  [star : BOOLEAN, dot : BOOLEAN,
   event : {e.name : e \in Range(SomeEvents)}
             \cup {<<Num(7)>>, <<Num(200)>>, <<Num(5)>>, <<Num(300)>>, Junk, <<>>},
   umask : {<<Name("store_forward")>>, <<Name("aborted")>>, <<Name("aborted"), Name("_mem")>>,
            <<Name("aborted"), Name("_mem"), Name("type")>>, <<Name("int_not_eliminated")>>,
            <<Num(255)>>, <<Num(256)>>, Junk, <<>>},
   cmp : {<<>>}, operand : {<<>>},
   modes : {<<>>} \cup {<<Sym(":")>> \o l : l \in {<<>>, <<Name("u")>>, <<Name("a"), Name("k")>>,
                                                <<Name("k"), Name("x"), Name("u")>>,
                                                <<Name("u"), Sym("."), Name("k")>>}}]
Comparing ==
  {[p EXCEPT !.cmp = <<Sym(c)>>, !.operand = o] :
     p \in SomeInputs, c \in {">=", "<"}, o \in {<<>>, Junk, <<Num(1)>>, <<Num(511)>>, <<Num(2), Name("x")>>}}
AllInputs == SomeInputs \cup Comparing
=============================================================================
