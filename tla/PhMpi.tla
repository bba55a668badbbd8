-------------------------------- MODULE PhMpi --------------------------------
(***************************************************************************)
(* The MPI probe after phmpi_init (src/probe/ph_mpi.c): every rank calls   *)
(* {set_tag, set_evt}*, commit, {read, fastread, dump}*, finalize.  The    *)
(* ranks have their own buffers and record files and meet in the barriers  *)
(* of set_tag, commit and finalize; rank 0 alone writes ctag.csv, etag.csv *)
(* and run_info.csv.  (PhInit models phmpi_init.)                          *)
(*                                                                         *)
(* phmpi_read dumps by itself, phmpi_fastread does not look at the buffer: *)
(* FastLimit says how full it may be when the program calls it.  A record  *)
(* is its tag and its place in the order of the rank, which stands for its *)
(* time stamps.                                                            *)
(***************************************************************************)
EXTENDS Integers, Sequences, SequencesExt, FiniteSetsExt

CONSTANTS
  NRank,      \* number of ranks
  BufNrec,    \* buf_nrec
  FastLimit,  \* phmpi_fastread is called only while ph_irec < FastLimit
  NSetTag,    \* set_tag calls of the program, the same on every rank
  NevMax,     \* ph_nev_max = PH_NEV
  MaxCalls,   \* bound: set_evt, read, fastread and dump calls of all ranks
  MaxFail     \* bound: fopen calls that fail

ASSUME MpiAssumption ==
  /\ NRank \in Nat \ {0} /\ BufNrec \in Nat /\ BufNrec >= 3
  /\ FastLimit \in Nat /\ NSetTag \in Nat
  /\ NevMax \in Nat /\ MaxCalls \in Nat /\ MaxFail \in Nat

Ranks == 0 .. NRank - 1

VARIABLES
  phase,    \* where each rank is in the documented call order
  todo,     \* steps of its current call still to be executed
  ph_ready, ph_irec, ph_precs, ph_nev,
  nrec_tot,
  rec_hdr,  \* event columns in the header of its record file
  rec_rows, \* complete rows of its record file
  torn,     \* its record file ends in the middle of a line
  ctags,    \* rows of ctag.csv
  etag,     \* rows of etag.csv: the id, and if the event is supported
  run_info, \* rows this job appended to run_info.csv
  log,      \* history: tags of the records of each rank, in order
  fast,     \* history: the rank has called phmpi_fastread
  calls, settags, fails

memory == <<ph_ready, ph_irec, ph_precs, ph_nev, nrec_tot>>
disk == <<rec_hdr, rec_rows, torn, ctags, etag, run_info>>
bounds == <<calls, settags, fails>>
vars == <<phase, todo, memory, disk, log, fast, bounds>>

Slots == 0 .. BufNrec - 1
Tags == {"S_main", "E_main", "S_dump", "E_dump", "user"}
Ops == {"put", "read", "mkrec", "barrier", "check", "dump", "zero", "wtrec", "flush", "wtctag",
        "wtinfo", "return"}
NoFile == -1
Put(t) == <<"put", t>>
Read(t) == <<"read", t>>
Do(op) == <<op, "none">>

Idle(r) == todo[r] = <<>>
At(r, op) == ~Idle(r) /\ Head(todo[r])[1] = op
Rest(r) == Tail(todo[r])
Then(r, steps) == todo' = [todo EXCEPT ![r] = steps]
Buffered(r) == [i \in 1 .. ph_irec[r] |-> ph_precs[r][i - 1]]

Init ==
  /\ phase = [r \in Ranks |-> "setup"] /\ todo = [r \in Ranks |-> <<>>]
  /\ ph_irec = [r \in Ranks |-> 0] /\ ph_precs = [r \in Ranks |-> [i \in Slots |-> 0]]
  /\ ph_ready = [r \in Ranks |-> FALSE] /\ ph_nev = [r \in Ranks |-> 0]
  /\ nrec_tot = [r \in Ranks |-> 0]
  /\ rec_hdr = [r \in Ranks |-> NoFile] /\ rec_rows = [r \in Ranks |-> <<>>]
  /\ torn = [r \in Ranks |-> FALSE]
  /\ ctags = 0 /\ etag = <<>> /\ run_info = <<>>
  /\ log = [r \in Ranks |-> <<>>]
  /\ calls = 0 /\ settags = [r \in Ranks |-> 0]
  /\ fast = [r \in Ranks |-> FALSE] /\ fails = 0

-----------------------------------------------------------------------------
(* Calls of the program.                                                   *)

phmpi_set_tag(r) ==
  /\ phase[r] = "setup" /\ Idle(r) /\ settags[r] < NSetTag
  /\ settags' = [settags EXCEPT ![r] = @ + 1]
  /\ Then(r, IF r = 0 THEN <<Do("wtctag"), Do("barrier")>> ELSE <<Do("barrier")>>)
  /\ UNCHANGED <<phase, memory, disk, log, fast, calls, fails>>

(* The two early returns; rank 0 writes the etag row, for an event that is *)
(* not supported too.                                                      *)
MaySet_Serial(r) == ~ph_ready[r] /\ ph_nev[r] <= NevMax
MaySet(r) == ~ph_ready[r] /\ ph_nev[r] < NevMax
phmpi_set_evt(r, supported) ==
  /\ phase[r] \in {"setup", "open"} /\ Idle(r) /\ calls < MaxCalls
  /\ calls' = calls + 1
  /\ ph_nev' = IF MaySet(r) /\ supported THEN [ph_nev EXCEPT ![r] = @ + 1] ELSE ph_nev
  /\ etag' = IF MaySet(r) /\ r = 0 THEN Append(etag, <<ph_nev'[r], supported>>) ELSE etag
  /\ UNCHANGED <<phase, todo, ph_ready, ph_irec, ph_precs, nrec_tot, rec_hdr, rec_rows, torn,
                 ctags, run_info, log, fast, settags, fails>>

CommitSteps_NoBarrier == <<Do("mkrec"), Put("S_main")>>
CommitSteps == <<Do("mkrec"), Do("barrier"), Put("S_main")>>
phmpi_commit(r) ==
  /\ phase[r] = "setup" /\ Idle(r) /\ settags[r] = NSetTag
  /\ phase' = [phase EXCEPT ![r] = "open"]
  /\ Then(r, CommitSteps)
  /\ UNCHANGED <<memory, disk, log, fast, bounds>>

Call(r) ==
  /\ phase[r] = "open" /\ Idle(r) /\ calls < MaxCalls
  /\ calls' = calls + 1
  /\ UNCHANGED <<phase, memory, disk, log, settags, fails>>

phmpi_read(r) == Call(r) /\ Then(r, <<Read("user")>>) /\ UNCHANGED fast
phmpi_fastread(r) ==
  /\ Call(r) /\ ph_irec[r] < FastLimit
  /\ Then(r, <<Put("user")>>) /\ fast' = [fast EXCEPT ![r] = TRUE]
phmpi_dump(r) == Call(r) /\ Then(r, <<Do("dump")>>) /\ UNCHANGED fast

FinalSteps_NoBarrier(r) ==
  <<Do("barrier"), Read("E_main"), Do("flush")>> \o (IF r = 0 THEN <<Do("wtinfo")>> ELSE <<>>)
    \o <<Do("return")>>
FinalSteps_RankZero(r) ==
  <<Do("barrier"), Read("E_main"), Do("flush")>>
    \o (IF r = 0 THEN <<Do("wtinfo"), Do("barrier")>> ELSE <<>>) \o <<Do("return")>>
FinalSteps(r) ==
  <<Do("barrier"), Read("E_main"), Do("flush")>> \o (IF r = 0 THEN <<Do("wtinfo")>> ELSE <<>>)
    \o <<Do("barrier"), Do("return")>>
phmpi_finalize(r) ==
  /\ phase[r] = "open" /\ Idle(r)
  /\ phase' = [phase EXCEPT ![r] = "closing"]
  /\ Then(r, FinalSteps(r))
  /\ UNCHANGED <<memory, disk, log, fast, bounds>>

-----------------------------------------------------------------------------
(* Steps of the calls.                                                     *)

Open(ok) ==
  /\ ok \/ fails < MaxFail
  /\ fails' = IF ok THEN fails ELSE fails + 1

WtCtag(r) ==
  /\ At(r, "wtctag") /\ ctags' = ctags + 1 /\ Then(r, Rest(r))
  /\ UNCHANGED <<phase, memory, rec_hdr, rec_rows, torn, etag, run_info, log, fast, bounds>>

(* A failing fopen ends the rank.                                          *)
MkRec(r, ok) ==
  /\ At(r, "mkrec") /\ Open(ok)
  /\ rec_hdr' = IF ok THEN [rec_hdr EXCEPT ![r] = ph_nev[r]] ELSE rec_hdr
  /\ phase' = [phase EXCEPT ![r] = IF ok THEN "open" ELSE "gone"]
  /\ Then(r, IF ok THEN Rest(r) ELSE <<>>)
  /\ ph_ready' = [ph_ready EXCEPT ![r] = ok] /\ ph_irec' = [ph_irec EXCEPT ![r] = 0]
  /\ UNCHANGED <<ph_precs, ph_nev, nrec_tot, rec_rows, torn, ctags, etag, run_info, log,
                 fast, calls, settags>>

(* phmpi_fastread: no look at the index.  Past the buffer the store hits   *)
(* other memory of the heap.                                               *)
Fastread(r) ==
  /\ At(r, "put")
  /\ ph_precs' = IF ph_irec[r] \in Slots
                   THEN [ph_precs EXCEPT ![r][ph_irec[r]] = Len(log[r]) + 1] ELSE ph_precs
  /\ ph_irec' = [ph_irec EXCEPT ![r] = @ + 1]
  /\ log' = [log EXCEPT ![r] = Append(@, Head(todo[r])[2])]
  /\ Then(r, Rest(r))
  /\ UNCHANGED <<phase, ph_ready, ph_nev, nrec_tot, disk, fast, bounds>>

Full_Late(r) == ph_irec[r] >= BufNrec
Full(r) == ph_irec[r] + 1 >= BufNrec

(* phmpi_read on a full buffer dumps and starts again at slot 0, over the  *)
(* (0,4) record; otherwise it stores, and dumps if that filled the buffer. *)
EnterRead(r) ==
  /\ At(r, "read")
  /\ LET put == Put(Head(todo[r])[2]) IN
     Then(r, (IF Full(r) THEN <<Do("dump"), Do("zero"), put>> ELSE <<put, Do("check")>>)
               \o Rest(r))
  /\ UNCHANGED <<phase, memory, disk, log, fast, bounds>>

Check(r) ==
  /\ At(r, "check")
  /\ Then(r, (IF Full(r) THEN <<Do("dump")>> ELSE <<>>) \o Rest(r))
  /\ UNCHANGED <<phase, memory, disk, log, fast, bounds>>

(* phmpi_dump returns on an empty buffer and gives up the last record of a *)
(* full one for its (0,3) record.                                          *)
StepBack_No(i) == i
StepBack(i) == IF i >= BufNrec THEN BufNrec - 1 ELSE i
EnterDump(r) ==
  /\ At(r, "dump")
  /\ ph_irec' = [ph_irec EXCEPT ![r] = StepBack(@)]
  /\ Then(r, (IF ph_irec[r] = 0 THEN <<>>
              ELSE <<Put("S_dump"), Do("wtrec"), Do("zero"), Put("E_dump")>>) \o Rest(r))
  /\ UNCHANGED <<phase, ph_ready, ph_precs, ph_nev, nrec_tot, disk, log, fast, bounds>>

Zero_One(r) ==
  At(r, "zero") /\ ph_irec' = [ph_irec EXCEPT ![r] = 1] /\ Then(r, Rest(r))
    /\ UNCHANGED <<phase, ph_ready, ph_precs, ph_nev, nrec_tot, disk, log, fast, bounds>>
Zero(r) ==
  /\ At(r, "zero")
  /\ ph_irec' = [ph_irec EXCEPT ![r] = 0] /\ Then(r, Rest(r))
  /\ UNCHANGED <<phase, ph_ready, ph_precs, ph_nev, nrec_tot, disk, log, fast, bounds>>

(* ph_io_wtrec of phmpi_dump and of phmpi_finalize.                        *)
WtRec(r, ok) ==
  /\ At(r, "wtrec") \/ At(r, "flush")
  /\ Open(ok)
  /\ nrec_tot' = [nrec_tot EXCEPT ![r] = @ + ph_irec[r]]
  /\ rec_rows' = [rec_rows EXCEPT ![r] = IF ok THEN @ \o Buffered(r) ELSE @]
  /\ Then(r, Rest(r))
  /\ UNCHANGED <<phase, ph_ready, ph_irec, ph_precs, ph_nev, rec_hdr, torn, ctags, etag,
                 run_info, log, fast, calls, settags>>

(* Rank 0: the number of ranks of the job, its own numbers of events and   *)
(* of records.                                                             *)
WtInfo(r, ok) ==
  /\ At(r, "wtinfo") /\ Open(ok)
  /\ run_info' =
       IF ok THEN Append(run_info, [nrank |-> NRank, nevent |-> ph_nev[r], ngroup |-> nrec_tot[r]])
       ELSE run_info
  /\ Then(r, Rest(r))
  /\ UNCHANGED <<phase, memory, rec_hdr, rec_rows, torn, ctags, etag, log, fast, calls, settags>>

Return(r) ==
  /\ At(r, "return")
  /\ phase' = [phase EXCEPT ![r] = "done"] /\ Then(r, <<>>)
  /\ UNCHANGED <<memory, disk, log, fast, bounds>>

Barrier ==
  /\ \A r \in Ranks : At(r, "barrier")
  /\ todo' = [r \in Ranks |-> Rest(r)]
  /\ UNCHANGED <<phase, memory, disk, log, fast, bounds>>

(* A rank ends; in the middle of a write its file has some of the rows,    *)
(* and perhaps a part of the next one or of the header.                    *)
Die(r) ==
  /\ phase' = [phase EXCEPT ![r] = "gone"] /\ Then(r, <<>>)
  /\ LET due == IF At(r, "wtrec") \/ At(r, "flush") THEN ph_irec[r] ELSE 0
     IN  \E k \in 0 .. due, cut \in BOOLEAN :
           /\ rec_rows' = [rec_rows EXCEPT ![r] = @ \o SubSeq(Buffered(r), 1, k)]
           /\ cut => At(r, "mkrec") \/ k < due
           /\ torn' = [torn EXCEPT ![r] = cut]
  /\ UNCHANGED <<memory, rec_hdr, ctags, etag, run_info, log, fast, calls, settags>>

(* It crashes: killed, or ph_io_wtctag or ph_io_wtetag cannot open the     *)
(* file and write through a null pointer.                                  *)
Crash(r) ==
  /\ phase[r] \in {"setup", "open", "closing"} /\ fails < MaxFail
  /\ fails' = fails + 1 /\ Die(r)

(* mpirun ends the ranks of a job that lost one.                           *)
Launcher(r) ==
  /\ phase[r] # "gone" /\ \E q \in Ranks : phase[q] = "gone"
  /\ Die(r) /\ UNCHANGED fails

Step(r) ==
  \/ WtCtag(r) \/ Fastread(r) \/ EnterRead(r) \/ Check(r) \/ EnterDump(r) \/ Zero(r) \/ Return(r)
  \/ \E ok \in BOOLEAN : MkRec(r, ok) \/ WtRec(r, ok) \/ WtInfo(r, ok)

Collective(r) == phmpi_set_tag(r) \/ phmpi_commit(r) \/ phmpi_finalize(r)

Ended == (\A r \in Ranks : phase[r] \in {"done", "gone"}) /\ UNCHANGED vars

Next ==
  \/ \E r \in Ranks : phmpi_read(r) \/ phmpi_fastread(r) \/ phmpi_dump(r) \/ Collective(r) \/ Step(r)
                      \/ Crash(r) \/ Launcher(r)
                      \/ \E supported \in BOOLEAN : phmpi_set_evt(r, supported)
  \/ Barrier \/ Ended

(* Ranks run, barriers complete, the launcher notices a lost rank, and the *)
(* program makes its collective calls on every rank.                       *)
Fairness ==
  /\ \A r \in Ranks : WF_vars(Step(r)) /\ WF_vars(Collective(r)) /\ WF_vars(Launcher(r))
  /\ WF_vars(Barrier)

Spec == Init /\ [][Next]_vars /\ Fairness

-----------------------------------------------------------------------------
TypeOK ==
  /\ phase \in [Ranks -> {"setup", "open", "closing", "done", "gone"}]
  /\ todo \in [Ranks -> Seq(Ops \X (Tags \cup {"none"}))]
  /\ ph_precs \in [Ranks -> [Slots -> Nat]] /\ ph_irec \in [Ranks -> 0 .. BufNrec]
  /\ rec_rows \in [Ranks -> Seq(Nat)] /\ torn \in [Ranks -> BOOLEAN]
  /\ log \in [Ranks -> Seq(Tags)]
  /\ ph_ready \in [Ranks -> BOOLEAN] /\ ph_nev \in [Ranks -> 0 .. NevMax]
  /\ nrec_tot \in [Ranks -> Nat] /\ rec_hdr \in [Ranks -> {NoFile} \cup 0 .. NevMax]
  /\ ctags \in 0 .. NSetTag /\ etag \in Seq((0 .. NevMax) \X BOOLEAN)
  /\ run_info \in Seq([nrank : {NRank}, nevent : 0 .. NevMax, ngroup : Nat])
  /\ calls \in 0 .. MaxCalls /\ settags \in [Ranks -> 0 .. NSetTag]
  /\ fast \in [Ranks -> BOOLEAN] /\ fails \in 0 .. MaxFail

(* The records of a rank that are in its file or will be written to it.    *)
Unwritten(r) ==
  IF \E s \in Range(todo[r]) : s[1] = "flush" THEN Buffered(r)
  ELSE IF phase[r] = "open" THEN Buffered(r) ELSE <<>>
InDump(r) == At(r, "zero")
Kept(r) == IF InDump(r) THEN rec_rows[r] ELSE rec_rows[r] \o Unwritten(r)

(* As long as a rank calls phmpi_read and phmpi_dump alone, every record   *)
(* of it is kept, in order and once.  Whatever fails, and wherever a rank  *)
(* is killed, the complete rows of a file are records of the rank in the   *)
(* order they were taken, none of them twice.                              *)
NothingLost ==
  \A r \in Ranks :
    /\ fails = 0 /\ phase[r] # "gone" /\ ~fast[r] => Kept(r) = [i \in 1 .. Len(log[r]) |-> i]
    /\ Range(rec_rows[r]) \subseteq 1 .. Len(log[r])
    /\ \A i \in 1 .. Len(rec_rows[r]) - 1 : rec_rows[r][i] < rec_rows[r][i + 1]

(* With fast reads that leave the buffer in range, a record is lost in two *)
(* ways only: a (0,4) record under the read that found the buffer full,    *)
(* and the record given up for a (0,3) record.                             *)
LossExplained ==
  fails = 0 =>
    \A r \in Ranks : phase[r] # "gone" =>
      /\ \A i \in 1 .. Len(Kept(r)) - 1 : Kept(r)[i] < Kept(r)[i + 1]
      /\ \A n \in 1 .. Len(log[r]) :
           \/ n \in Range(Kept(r))
           \/ log[r][n] = "E_dump"
           \/ ph_irec[r] = BufNrec - 1 /\ n = Len(log[r])
           \/ n < Len(log[r]) /\ log[r][n + 1] = "S_dump"

(* Nothing is measured before every rank has its record file and rank 0    *)
(* has written all tags.                                                   *)
StartTogether ==
  (\E r \in Ranks : log[r] # <<>>) => (\A q \in Ranks : rec_hdr[q] # NoFile) /\ ctags = NSetTag

(* When phmpi_finalize returns anywhere, the files of all ranks are        *)
(* complete down to their last line, each rank has counted the rows of its *)
(* own, and rank 0 has written one run info.                               *)
EndTogether ==
  (\E r \in Ranks : phase[r] = "done") /\ fails = 0 =>
    /\ \A q \in Ranks : log[q] # <<>> /\ nrec_tot[q] = Len(rec_rows[q]) /\ "E_main" \in Range(log[q])
                          /\ Len(log[q]) \in Range(rec_rows[q]) /\ ~torn[q]
    /\ Len(run_info) = 1

(* The documents call ngroup of run_info.csv the total number of records   *)
(* of the run: the rows of the files of all ranks.  Rank 0 writes the      *)
(* count of its own records, so with more than one rank this does not hold.*)
InfoTotal ==
  (\A r \in Ranks : phase[r] = "done") /\ fails = 0 =>
    \A i \in DOMAIN run_info :
      run_info[i].ngroup = MapThenSumSet(LAMBDA r : Len(rec_rows[r]), Ranks)

(* What the files of a job say of its events: the header of a rank, the    *)
(* accepted rows of etag.csv (numbered 1, 2, ...) and nevent of            *)
(* run_info.csv agree with the events the rank records, whatever set_evt   *)
(* calls come after commit.                                                *)
EventColumns ==
  LET accepted == {i \in DOMAIN etag : etag[i][2]} IN
  /\ \A r \in Ranks : ph_nev[r] <= NevMax /\ (rec_hdr[r] # NoFile => rec_hdr[r] = ph_nev[r])
  /\ {etag[i][1] : i \in accepted} = 1 .. ph_nev[0]
  /\ \A a, b \in accepted : a < b => etag[a][1] < etag[b][1]
  /\ \A i \in DOMAIN run_info : run_info[i].nevent = rec_hdr[0]

(* A store is inside the buffer.                                           *)
NoOverrun == \A r \in Ranks : At(r, "put") => ph_irec[r] < BufNrec

(* Every job ends: all ranks return from phmpi_finalize, or all are gone.  *)
JobEnds == <>[](\/ \A r \in Ranks : phase[r] = "done"
                \/ \A r \in Ranks : phase[r] = "gone")
=============================================================================
