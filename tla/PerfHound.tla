------------------------------ MODULE PerfHound ------------------------------
(***************************************************************************)
(* The serial probe (src/probe/perfhound.c) with the record, event and     *)
(* run-info files it writes (src/probe/ph_io.c).                           *)
(*                                                                         *)
(* One process calls the API in the documented order (set_evt*, commit,    *)
(* {read, dump}*, finalize).  A call is not atomic: ph_read may enter      *)
(* ph_dump, which enters ph_read again, and the process may be killed      *)
(* between any two steps or in the middle of a file write.  `todo' is the  *)
(* C call stack flattened to the sequence of steps still to be executed.   *)
(*                                                                         *)
(* Records are abstracted to the tag and the user value; the timestamps    *)
(* and counter readings are not told apart by any property.  `log' is a    *)
(* history variable: every record taken since ph_commit, in order.         *)
(***************************************************************************)
EXTENDS Integers, Sequences, FiniteSets, SequencesExt, FiniteSetsExt

CONSTANTS
  BufNrec,      \* buf_nrec: records the buffer holds
  NevMax,       \* ph_nev_max = PH_NEV: events the build supports
  UserTags,     \* tags the program under test records
  Events,       \* event names the program asks for
  Supported,    \* the ones _ph_parse_event knows
  MaxCalls,     \* bound: set_evt, read and dump calls of the program
  MaxFail       \* bound: failing fopen calls

DumpTags == {"S_dump", "E_dump"}
ProbeTags == {"S_main", "E_main"} \cup DumpTags
Tags == ProbeTags \cup UserTags
Ops == {"mkrec", "wtrec", "flush", "wtinfo"}

(* PH_BUFSIZE is at least 1 KiB and a rec_t at most 128 bytes, so the      *)
(* program has BufNrec >= 8; the argument only needs 3.                    *)
ASSUME BufAssumption == BufNrec \in Nat /\ BufNrec >= 3
ASSUME EventAssumption == NevMax \in Nat /\ Supported \subseteq Events
ASSUME TagAssumption == UserTags \cap (ProbeTags \cup Ops) = {}
ASSUME BoundAssumption == MaxCalls \in Nat /\ MaxFail \in Nat

VARIABLES
  phase,        \* where the program is in the documented call order
  todo,         \* steps of the current API call still to be executed
  ph_ready,     \* set by ph_commit
  ph_irec,      \* next free slot of the buffer
  ph_precs,     \* the record buffer
  ph_nev,       \* number of accepted events
  ph_evcodes,   \* accepted events; slot NevMax is behind the array
  nrec_tot,     \* records handed to ph_io_wtrec so far
  rec_hdr,      \* event columns of the header of r<rank>c<cpu>.csv
  rec_rows,     \* its rows
  torn,         \* it ends in the middle of a line
  rec_cols,     \* history: numbers of event columns its rows were written with
  etag,         \* rows of etag.csv
  run_info,     \* rows this run appended to run_info.csv
  log,          \* history: every record taken since ph_commit
  calls, fails  \* bounds

memory == <<ph_ready, ph_irec, ph_precs, ph_nev, ph_evcodes, nrec_tot>>
disk == <<rec_hdr, rec_rows, torn, rec_cols, etag, run_info>>
vars == <<phase, todo, memory, disk, log, calls, fails>>

Slots == 0 .. BufNrec - 1
NoFile == -1
NoRec == [tag |-> "none", uval |-> 0]
Recs == [tag : Tags, uval : 0 .. BufNrec]

Idle == todo = <<>>

(* The records ph_io_wtrec writes.                                         *)
Buffered_Short == [i \in 1 .. ph_irec - 1 |-> ph_precs[i - 1]]
Buffered == [i \in 1 .. ph_irec |-> ph_precs[i - 1]]

-----------------------------------------------------------------------------
(* The state ph_init leaves behind.                                        *)
Init ==
  /\ phase = "setup" /\ todo = <<>>
  /\ ph_ready = FALSE /\ ph_irec = 0
  /\ ph_precs = [i \in Slots |-> NoRec]
  /\ ph_nev = 0 /\ ph_evcodes = [i \in 0 .. NevMax |-> "none"]
  /\ nrec_tot = 0
  /\ rec_hdr = NoFile /\ rec_rows = <<>> /\ torn = FALSE /\ rec_cols = {}
  /\ etag = <<>> /\ run_info = <<>>
  /\ log = <<>> /\ calls = 0 /\ fails = 0

-----------------------------------------------------------------------------
(* Calls of the program under test.                                        *)

Call ==
  /\ Idle
  /\ calls < MaxCalls
  /\ calls' = calls + 1

(* The two early returns of ph_set_evt.                                    *)
MaySet_Late == ph_nev <= NevMax
MaySet == ~ph_ready /\ ph_nev <= NevMax

(* ph_io_wtetag.                                                           *)
EtagRow(nev, e) == [id |-> nev, name |-> e]

(* An unsupported event still gets a row, with the id of the one before.   *)
(* With PH_OPT_EV the code of event NevMax + 1 is stored behind            *)
(* ph_evcodes[4]; in the build of the Makefile that is a buffer of ph_io.c *)
(* which ph_io_wtinfo fills before it uses it, so nothing else changes.    *)
ph_set_evt(e) ==
  /\ phase \in {"setup", "open"}
  /\ Call
  /\ \/ ~MaySet /\ UNCHANGED <<ph_nev, ph_evcodes, etag>>
     \/ /\ MaySet /\ e \in Supported
        /\ ph_evcodes' = [ph_evcodes EXCEPT ![ph_nev] = e]
        /\ ph_nev' = ph_nev + 1
        /\ etag' = Append(etag, EtagRow(ph_nev + 1, e))
     \/ /\ MaySet /\ e \notin Supported
        /\ etag' = Append(etag, EtagRow(ph_nev, e))
        /\ UNCHANGED <<ph_nev, ph_evcodes>>
  /\ UNCHANGED <<phase, todo, ph_ready, ph_irec, ph_precs, nrec_tot,
                 rec_hdr, rec_rows, torn, rec_cols, run_info, log, fails>>

ph_commit ==
  /\ phase = "setup" /\ Idle
  /\ phase' = "open"
  /\ todo' = <<"mkrec", "S_main">>
  /\ UNCHANGED <<memory, disk, log, calls, fails>>

ph_read(t) ==
  /\ phase = "open" /\ Call
  /\ todo' = <<t>>
  /\ UNCHANGED <<phase, memory, disk, log, fails>>

DumpSteps_NoEnd == <<"S_dump", "wtrec">>
DumpSteps == <<"S_dump", "wtrec", "E_dump">>

ph_dump ==
  /\ phase = "open" /\ Call
  /\ todo' = DumpSteps
  /\ UNCHANGED <<phase, memory, disk, log, fails>>

ph_finalize_InfoFirst ==
  /\ phase = "open" /\ Idle
  /\ phase' = "closing"
  /\ todo' = <<"E_main", "wtinfo", "flush">>
  /\ UNCHANGED <<memory, disk, log, calls, fails>>

ph_finalize ==
  /\ phase = "open" /\ Idle
  /\ phase' = "closing"
  /\ todo' = <<"E_main", "flush", "wtinfo">>
  /\ UNCHANGED <<memory, disk, log, calls, fails>>

-----------------------------------------------------------------------------
(* Steps of the calls.                                                     *)

At(op) == todo # <<>> /\ Head(todo) = op

(* fopen: may fail as long as the bound allows.                            *)
Open(ok) ==
  /\ ok \/ fails < MaxFail
  /\ fails' = IF ok THEN fails ELSE fails + 1

(* ph_io_mkrec truncates the file and writes the header; a failure makes   *)
(* ph_commit exit.                                                         *)
MkRec(ok) ==
  /\ At("mkrec") /\ Open(ok)
  /\ \/ /\ ok
        /\ rec_hdr' = ph_nev /\ rec_rows' = <<>> /\ rec_cols' = {}
        /\ ph_ready' = TRUE /\ ph_irec' = 0
        /\ todo' = Tail(todo)
        /\ UNCHANGED phase
     \/ /\ ~ok
        /\ phase' = "dead" /\ todo' = <<>>
        /\ UNCHANGED <<rec_hdr, rec_rows, rec_cols, ph_ready, ph_irec>>
  /\ UNCHANGED <<ph_precs, ph_nev, ph_evcodes, nrec_tot, torn, etag, run_info, log, calls>>

(* ph_dump passes ph_irec + 1 to its first ph_read, every other call 0.    *)
Uval(t) == IF t = "S_dump" THEN ph_irec + 1 ELSE 0

NeedDump_Full(irec) == irec = BufNrec
NeedDump(irec) == irec + 1 = BufNrec

(* The record goes to the next free slot.                                  *)
Store_Waits(r) ==
  /\ ph_irec + 1 < BufNrec
  /\ ph_precs' = [ph_precs EXCEPT ![ph_irec] = r] /\ ph_irec' = ph_irec + 1
Store(r) == ph_precs' = [ph_precs EXCEPT ![ph_irec] = r] /\ ph_irec' = ph_irec + 1

(* ph_read: store, and enter ph_dump if only one slot is left.             *)
Put(t) ==
  LET r == [tag |-> t, uval |-> Uval(t)] IN
  /\ At(t)
  /\ Store(r)
  /\ todo' = IF NeedDump(ph_irec + 1) THEN DumpSteps \o Tail(todo) ELSE Tail(todo)
  /\ log' = Append(log, r)
  /\ UNCHANGED <<phase, ph_ready, ph_nev, ph_evcodes, nrec_tot, disk, calls, fails>>

(* ph_io_wtrec counts the records before it opens the file.                *)
Count_Assign(ok) == nrec_tot' = ph_irec
Count_Opened(ok) == nrec_tot' = IF ok THEN nrec_tot + ph_irec ELSE nrec_tot
Count(ok) == nrec_tot' = nrec_tot + ph_irec

(* Rows are appended, each with ph_nev event columns.                      *)
Rows(batch) ==
  /\ rec_rows' = rec_rows \o batch
  /\ rec_cols' = IF batch = <<>> THEN rec_cols ELSE rec_cols \cup {ph_nev}

WriteRows(ok) == Count(ok) /\ Open(ok) /\ Rows(IF ok THEN Buffered ELSE <<>>)

(* The write of ph_dump, whose result is not looked at.                    *)
Reset == ph_irec' = 0
WtRec(ok) ==
  /\ At("wtrec")
  /\ WriteRows(ok)
  /\ Reset
  /\ todo' = Tail(todo)
  /\ UNCHANGED <<phase, ph_ready, ph_precs, ph_nev, ph_evcodes, rec_hdr, torn,
                 etag, run_info, log, calls>>

(* The write of ph_finalize, which leaves ph_irec alone.                   *)
Flush(ok) ==
  /\ At("flush")
  /\ WriteRows(ok)
  /\ todo' = Tail(todo)
  /\ UNCHANGED <<phase, ph_ready, ph_irec, ph_precs, ph_nev, ph_evcodes, rec_hdr,
                 torn, etag, run_info, log, calls>>

WtInfo(ok) ==
  /\ At("wtinfo") /\ Open(ok)
  /\ run_info' = IF ok THEN Append(run_info, [nevent |-> ph_nev, ngroup |-> nrec_tot])
                       ELSE run_info
  /\ phase' = "done" /\ todo' = <<>>
  /\ UNCHANGED <<memory, rec_hdr, rec_rows, torn, rec_cols, etag, log, calls>>

Step ==
  \/ \E t \in Tags : Put(t)
  \/ \E ok \in BOOLEAN : MkRec(ok) \/ WtRec(ok) \/ Flush(ok) \/ WtInfo(ok)

-----------------------------------------------------------------------------
(* The process is killed, or exits without ph_finalize.  In the middle of  *)
(* a write the stdio buffer may have reached the file up to any byte: some *)
(* rows are there, and perhaps a part of the next one or of the header.    *)
Crash ==
  /\ phase \in {"setup", "open", "closing"}
  /\ LET due == IF At("wtrec") \/ At("flush") THEN ph_irec ELSE 0
     IN  \E k \in 0 .. due, cut \in BOOLEAN :
           /\ Rows(SubSeq(Buffered, 1, k))
           /\ cut => At("mkrec") \/ k < due
           /\ torn' = cut
  /\ phase' = "dead" /\ todo' = <<>>
  /\ UNCHANGED <<memory, rec_hdr, etag, run_info, log, calls, fails>>

Stopped == phase \in {"done", "dead"} /\ UNCHANGED vars

Next ==
  \/ \E e \in Events : ph_set_evt(e)
  \/ ph_commit
  \/ \E t \in UserTags : ph_read(t)
  \/ ph_dump
  \/ ph_finalize
  \/ Step
  \/ Crash
  \/ Stopped

(* A running process executes its next instruction; nothing makes the      *)
(* program call the API.                                                   *)
Spec == Init /\ [][Next]_vars /\ WF_vars(Step)

-----------------------------------------------------------------------------
(* Types of the state.  How many events there may be is EventLimit.        *)
TypeOK ==
  /\ phase \in {"setup", "open", "closing", "done", "dead"}
  /\ todo \in Seq(Tags \cup Ops)
  /\ ph_ready \in BOOLEAN
  /\ ph_irec \in 0 .. BufNrec
  /\ ph_precs \in [Slots -> Recs \cup {NoRec}]
  /\ ph_nev \in Nat
  /\ ph_evcodes \in [0 .. NevMax -> Events \cup {"none"}]
  /\ nrec_tot \in Nat
  /\ rec_hdr \in {NoFile} \cup Nat
  /\ rec_rows \in Seq(Recs)
  /\ torn \in BOOLEAN
  /\ rec_cols \subseteq Nat
  /\ etag \in Seq([id : Nat, name : Events])
  /\ run_info \in Seq([nevent : Nat, ngroup : Nat])
  /\ log \in Seq(Recs)
  /\ calls \in 0 .. MaxCalls /\ fails \in 0 .. MaxFail

(* The shapes the call stack can take, each with the range of ph_irec: the *)
(* strengthening that makes NoOverrun inductive.  An automatic dump starts *)
(* with one slot left; the only nested one is inside a ph_dump that found  *)
(* two, or under ph_finalize; both return with one record in the buffer.   *)
StackShape(stack, p, irec) ==
  \/ /\ stack = <<>> /\ p # "closing"
     /\ p = "setup" => irec = 0
     /\ p = "open" => irec \in 1 .. BufNrec - 2
  \/ /\ p = "open"
     /\ \/ stack = <<"mkrec", "S_main">>
        \/ stack = <<"S_main">> /\ irec = 0
        \/ \E t \in UserTags : stack = <<t>> /\ irec \in 1 .. BufNrec - 2
        \/ stack = <<"S_dump", "wtrec", "E_dump">> /\ irec \in 1 .. BufNrec - 1
        \/ stack = <<"S_dump", "wtrec", "E_dump", "wtrec", "E_dump">> /\ irec = BufNrec - 1
        \/ stack \in {<<"wtrec", "E_dump">>, <<"wtrec", "E_dump", "wtrec", "E_dump">>}
           /\ irec \in 1 .. BufNrec
        \/ stack \in {<<"E_dump">>, <<"E_dump", "wtrec", "E_dump">>} /\ irec = 0
  \/ /\ p = "closing"
     /\ \/ stack = <<"E_main", "flush", "wtinfo">> /\ irec \in 1 .. BufNrec - 2
        \/ stack = <<"S_dump", "wtrec", "E_dump", "flush", "wtinfo">> /\ irec = BufNrec - 1
        \/ stack \in {<<"wtrec", "E_dump", "flush", "wtinfo">>, <<"flush", "wtinfo">>, <<"wtinfo">>}
           /\ irec \in 1 .. BufNrec
        \/ stack = <<"E_dump", "flush", "wtinfo">> /\ irec = 0

StackInv == StackShape(todo, phase, ph_irec)

(* A record is never stored past the end of the buffer, although ph_read   *)
(* does not check the index before it stores: the dump it starts with one  *)
(* slot left, and the nested dump of an explicit ph_dump, keep it in range.*)
NoOverrun == \A t \in Tags : At(t) => ph_irec < BufNrec

(* ph_finalize writes the buffer and leaves the index as it was.           *)
Unwritten == IF phase = "done" \/ At("wtinfo") THEN <<>> ELSE Buffered

(* Through every nesting of ph_read and ph_dump the file followed by the   *)
(* buffer is exactly the records taken: none lost, doubled or reordered.   *)
NothingLost == fails = 0 /\ phase # "dead" => rec_rows \o Unwritten = log

(* Killed at any point, even inside a write, a run leaves, in the complete *)
(* rows of its file, a prefix of its records that lacks at most one buffer.*)
CrashLoss ==
  fails = 0 => IsPrefix(rec_rows, log) /\ Len(log) - Len(rec_rows) <= BufNrec

(* A row in run_info.csv means that the record file is complete, down to   *)
(* its last line, and its ngroup is the number of rows, as long as no      *)
(* fopen failed.                                                           *)
InfoExact ==
  fails = 0 => \A i \in DOMAIN run_info :
                 /\ rec_rows = log /\ ~torn
                 /\ run_info[i].ngroup = Len(rec_rows)

(* Whatever the disk does, nrec_tot and the buffer account for every       *)
(* record: a batch whose file does not open is dropped as a whole.         *)
Accounted == phase # "dead" => nrec_tot + Len(Unwritten) = Len(log)

TagCount(t) == Cardinality({i \in DOMAIN log : log[i].tag = t})

(* The overhead markers (0,3) and (0,4) bracket every dump, nested dumps   *)
(* included: no other record comes between a start and its end, when no    *)
(* call is active each start has its end, and the user value of a (0,3)    *)
(* row is the number of rows of its batch, its position since the last     *)
(* (0,4) row.                                                              *)
DumpBracketed ==
  /\ \A i \in 1 .. Len(log) - 1 :
       (log[i].tag = "S_dump" => log[i + 1].tag \in DumpTags)
  /\ \A i \in 1 .. Len(log) :
       log[i].tag = "E_dump" => i > 1 /\ log[i - 1].tag \in DumpTags
  /\ Idle /\ phase # "dead" => TagCount("S_dump") = TagCount("E_dump")
  /\ \A p \in DOMAIN log : log[p].tag = "S_dump" =>
       LET start == {1} \cup {q \in 1 .. p - 1 : log[q].tag = "E_dump"}
       IN log[p].uval = p - Max(start) + 1

(* Every row has as many event columns as the header that ph_commit wrote, *)
(* and the rows of etag.csv that name a supported event are, in order,     *)
(* these columns: whatever set_evt calls came before and after, and        *)
(* whatever rows of rejected events stand between.                         *)
ColumnsMatch ==
  LET accepted == {i \in DOMAIN etag : etag[i].name \in Supported}
  IN  /\ rec_cols \subseteq {rec_hdr}
      /\ {etag[i].id : i \in accepted} = 1 .. ph_nev
      /\ \A i \in accepted : etag[i].name = ph_evcodes[etag[i].id - 1]
      /\ \A i, j \in accepted : i < j => etag[i].id < etag[j].id

(* The documents promise at most NevMax events: no code is stored behind   *)
(* ph_evcodes, and neither header nor rows have more event columns.        *)
(* The comparison of ph_set_evt lets one more in, so this does not hold.   *)
EventLimit == ph_nev <= NevMax /\ \A n \in {rec_hdr} \cup rec_cols : n <= NevMax

(* Once the header is there the record file is only appended to.           *)
AppendOnly == [][rec_hdr # NoFile => IsPrefix(rec_rows, rec_rows')]_vars

(* Every API call returns: ph_read and ph_dump do not recurse for ever.    *)
CallsReturn == todo # <<>> ~> Idle

(* The probe implements the log of RecordLog: every step without a failing *)
(* fopen before or in it is a step of the log, or does not change it.      *)
LogStatus == IF phase \in {"done", "dead"} THEN phase ELSE "open"
RL == INSTANCE RecordLog WITH
        Record <- Recs, taken <- log, stored <- rec_rows, status <- LogStatus
ImplementsLog == RL!RLInit /\ [][fails' = 0 => [RL!RLNext]_(RL!rlvars)]_vars
=============================================================================
