---------------------------- MODULE Interval2csv ----------------------------
(***************************************************************************)
(* pfh_interval2csv.c: an MPI program that turns the record files of a run *)
(* into files of intervals, from a start point to an end point.  Rank 0    *)
(* reads rankmap.csv and deals the record files out; each rank works       *)
(* through its files, and a token that goes from rank to rank once per     *)
(* file orders what they append to all.csv.                                *)
(*                                                                         *)
(* A record file is the sequence of its lines, and a line is the point it  *)
(* names; a row is <<f, a, b>>, the interval from line a to line b of file *)
(* f.  What the program computes from uninitialized memory is Junk.        *)
(***************************************************************************)
EXTENDS Integers, Sequences, FiniteSets, SequencesExt, FiniteSetsExt

CONSTANTS
  Sizes,      \* numbers of ranks mpirun is given
  Counts,     \* numbers of record files in the run
  Texts,      \* contents of a record file
  Start, End, \* the points of the command line
  MaxFail     \* bound: files that are missing or cannot be opened

(* Of the sizes one is the largest.                                        *)
ASSUME SizeAssumption ==
  /\ Sizes \subseteq Nat \ {0} /\ \E n \in Sizes : \A m \in Sizes : n >= m
  /\ Counts \subseteq Nat \ {0} /\ MaxFail \in Nat

VARIABLES
  cmd,      \* [np, nf, eager, args]: ranks, files, sends are buffered, good points
  pc,       \* next step of each rank
  inbar,    \* the rank is in a barrier
  bar,      \* barriers each rank has entered
  bcast,    \* fcount is broadcast
  dest,     \* loop counter of rank 0 that deals
  jobs,     \* file lists under way to each rank
  files,    \* arg->ranks: the files of each rank
  count,    \* myjob messages under way, by receiver
  nextjob,  \* nextjob of each rank
  nth,      \* loop counter over a rank's files, from 1
  tok,      \* tokens under way, by receiver
  outstr,   \* outstr of each rank
  diff,     \* diff[f]: [text, rows] read from file f and written for it, or None
  all,      \* all.csv
  fails     \* bound

links == <<bcast, jobs, count, tok>>
outs == <<outstr, diff, all>>
vars == <<cmd, pc, inbar, bar, dest, files, nextjob, nth, fails, links, outs>>

Junk == <<0, 0, 0>>
None == [text |-> <<>>, rows |-> <<Junk, Junk>>]
(* A part of all.csv: the text for the nth file of a rank leaves the       *)
(* buffer of the stream in two writes.                                     *)
Part(r, n, k) == [rank |-> r, nth |-> n, part |-> k]
Header == Part(-1, 0, 1)
OldRun == Part(-2, 0, 1)

AllRanks == 0 .. Max(Sizes) - 1
Ranks == 0 .. cmd.np - 1
LastRank == cmd.np - 1
Mod == cmd.nf % cmd.np
Quot == cmd.nf \div cmd.np

(* The share a rank works out for itself, and the slice rank 0 sends it.   *)
NFiles(r) == Quot + (IF r < Mod THEN 1 ELSE 0)
Slice_First(r) ==
  LET n == IF r < Mod THEN Quot + 1 ELSE Quot IN [k \in 1 .. n |-> r * n + k]
Slice(r) ==
  LET n   == IF r < Mod THEN Quot + 1 ELSE Quot
      off == IF r < Mod THEN r * n ELSE Mod * (n + 1) + (r - Mod) * n
  IN  [k \in 1 .. n |-> off + k]
(* The two loops of rank 0 together: from 1, or from 0 when Mod is 0.      *)
FirstDest == IF Mod = 0 THEN 0 ELSE 1

-----------------------------------------------------------------------------
(* The scan of a file.  A start line is taken with the line after it: an   *)
(* interval if that is an end line, else both are dropped.                 *)
ScanLine(f, text, st, a) ==
  CASE st.open = 0 -> [st EXCEPT !.open = IF text[a] = Start THEN a ELSE 0]
    [] st.open # 0 -> [open |-> 0,
         rows |-> IF text[a] = End THEN Append(st.rows, <<f, st.open, a>>) ELSE st.rows]
Scan(f, text) ==
  FoldLeft(LAMBDA st, a : ScanLine(f, text, st, a),
           [open |-> 0, rows |-> <<>>], [a \in 1 .. Len(text) |-> a])
(* After a start on the last line the scan reads on behind the text.       *)
Tails(st) == IF st.open = 0 THEN {<<>>} ELSE {<<>>, <<Junk>>}
(* A file without rows leaves outstr as it is: what the file before put    *)
(* there, or whatever malloc returned.                                     *)
Output_Stale(r, rows) == {outstr[r] \o rows}
Output(r, rows) ==
  CASE rows # <<>> -> {rows}
    [] rows = <<>> /\ nth[r] > 1 -> {outstr[r]}
    [] OTHER -> {<<>>, <<Junk>>}

-----------------------------------------------------------------------------
Init ==
  /\ cmd \in [np : Sizes, nf : Counts, eager : BOOLEAN, args : BOOLEAN]
  /\ pc = [r \in AllRanks |-> IF r \in Ranks THEN "map" ELSE "none"]
  /\ inbar = [r \in AllRanks |-> FALSE] /\ bar = [r \in AllRanks |-> 0]
  /\ bcast = FALSE /\ dest = FirstDest
  /\ jobs = [r \in AllRanks |-> <<>>] /\ files = [r \in AllRanks |-> <<>>]
  /\ count = [r \in AllRanks |-> <<>>] /\ nextjob = [r \in AllRanks |-> 0]
  /\ nth = [r \in AllRanks |-> 1] /\ tok = [r \in AllRanks |-> 0]
  /\ outstr = [r \in AllRanks |-> <<>>]
  /\ diff = [f \in 1 .. cmd.nf |-> None]
  /\ all \in {<<>>, <<OldRun>>} /\ fails = 0

Goto(r, step) == pc' = [pc EXCEPT ![r] = step]
Fail == fails < MaxFail /\ fails' = fails + 1

(* MPI_Send: a rank goes on at once when the message is buffered, else     *)
(* when it has been received.                                              *)
Sent(r) ==
  \/ cmd.eager
  \/ /\ r = 0 => \A q \in Ranks : jobs[q] = <<>>
     /\ r > 0 => count[r - 1] = <<>>
     /\ r < LastRank => tok[r + 1] = 0

-----------------------------------------------------------------------------
(* init_rankmap.  Rank 0 copies the host names of its own files without    *)
(* their end into memory it has not cleared: with a rest behind its name a *)
(* host's file does not open, which is one of the failures that OpenFirst  *)
(* and Convert have anyway.                                                *)
ReadMap ==
  /\ pc[0] = "map"
  /\ \/ /\ files' = [files EXCEPT ![0] = [k \in 1 .. NFiles(0) |-> k]]
        /\ bcast' = TRUE /\ Goto(0, "deal") /\ UNCHANGED fails
     \/ Fail /\ Goto(0, "exit") /\ UNCHANGED <<files, bcast>>
  /\ UNCHANGED <<cmd, inbar, bar, dest, jobs, count, nextjob, nth, tok, outs>>

Deal ==
  /\ pc[0] = "deal" /\ Sent(0)
  /\ IF dest < cmd.np
     THEN /\ jobs' = [jobs EXCEPT ![dest] = Append(@, Slice(dest))]
          /\ dest' = dest + 1 /\ UNCHANGED pc
     ELSE Goto(0, "dealt") /\ UNCHANGED <<jobs, dest>>
  /\ UNCHANGED <<cmd, inbar, bar, bcast, files, count, nextjob, nth, tok, fails, outs>>

RecvJobs(r) ==
  /\ r > 0 /\ pc[r] = "map" /\ bcast /\ jobs[r] # <<>>
  /\ files' = [files EXCEPT ![r] = Head(jobs[r])]
  /\ jobs' = [jobs EXCEPT ![r] = Tail(@)]
  /\ Goto(r, "dealt")
  /\ UNCHANGED <<cmd, inbar, bar, bcast, dest, count, nextjob, nth, tok, fails, outs>>

(* init_arg: with bad points it returns before its barrier; only rank 0    *)
(* acts on the error of a call.                                            *)
InitArg(r) ==
  /\ pc[r] = "args"
  /\ \/ cmd.args /\ Goto(r, "dir") /\ UNCHANGED fails
     \/ cmd.args /\ r = 0 /\ Fail /\ Goto(r, "exit")
     \/ ~cmd.args /\ Goto(r, IF r = 0 THEN "exit" ELSE "calc") /\ UNCHANGED fails
  /\ UNCHANGED <<cmd, inbar, bar, dest, files, nextjob, nth, links, outs>>

-----------------------------------------------------------------------------
(* Barriers match by the order in which a rank enters them, not by place:  *)
(* "finish" is the one after calc_interval, which an error return reaches  *)
(* too.                                                                    *)
AfterBarrier(r) == [dealt |-> "main", main |-> "args", dir |-> "calc",
                    told |-> "loop", finish |-> "final",
                    failed |-> IF r = 0 THEN "exit" ELSE "final"]
BarrierSites == DOMAIN AfterBarrier(0)

Enter(r) ==
  /\ pc[r] \in BarrierSites /\ ~inbar[r] /\ Sent(r)
  /\ inbar' = [inbar EXCEPT ![r] = TRUE] /\ bar' = [bar EXCEPT ![r] = @ + 1]
  /\ UNCHANGED <<cmd, pc, dest, files, nextjob, nth, fails, links, outs>>

Leave(r) ==
  /\ pc[r] \in BarrierSites /\ inbar[r] /\ \A q \in Ranks : bar[q] >= bar[r]
  /\ inbar' = [inbar EXCEPT ![r] = FALSE] /\ Goto(r, AfterBarrier(r)[pc[r]])
  /\ UNCHANGED <<cmd, bar, dest, files, nextjob, nth, fails, links, outs>>

-----------------------------------------------------------------------------
(* calc_interval, up to its barrier: the first file gives the number of    *)
(* columns (without one, the file name is uninitialized and does not       *)
(* open), rank 0 starts all.csv, and each rank learns how many files its   *)
(* successor has.                                                          *)
OpenFirst(r) ==
  /\ pc[r] = "calc"
  /\ \/ files[r] # <<>> /\ Goto(r, IF r = 0 THEN "head" ELSE "tell") /\ UNCHANGED fails
     \/ files[r] = <<>> /\ Goto(r, "failed") /\ UNCHANGED fails
     \/ files[r] # <<>> /\ Fail /\ Goto(r, "failed")
  /\ UNCHANGED <<cmd, inbar, bar, dest, files, nextjob, nth, links, outs>>

WriteHead ==
  /\ pc[0] = "head"
  /\ \/ all' = <<Header>> /\ Goto(0, "tell") /\ UNCHANGED fails
     \/ Fail /\ Goto(0, "failed") /\ UNCHANGED all
  /\ UNCHANGED <<cmd, inbar, bar, dest, files, nextjob, nth, links, outstr, diff>>

(* A receive from rank 1 in a job of one rank aborts the job.              *)
Tell(r) ==
  /\ pc[r] = "tell"
  /\ \/ /\ r < LastRank /\ count[r] # <<>> /\ nextjob' = [nextjob EXCEPT ![r] = Head(count[r])]
        /\ Goto(r, "told")
        /\ count' = IF r = 0 THEN [count EXCEPT ![r] = Tail(@)]
                    ELSE [count EXCEPT ![r] = Tail(@), ![r - 1] = Append(@, Len(files[r]))]
     \/ /\ r = LastRank /\ r > 0
        /\ Goto(r, "told")
        /\ count' = [count EXCEPT ![r - 1] = Append(@, Len(files[r]))]
        /\ UNCHANGED nextjob
     \/ cmd.np = 1 /\ Goto(r, "exit") /\ UNCHANGED <<count, nextjob>>
  /\ UNCHANGED <<cmd, inbar, bar, bcast, dest, jobs, files, nth, tok, fails, outs>>

-----------------------------------------------------------------------------
(* One pass of the main loop: read a file and write its intervals, take    *)
(* the token, append to all.csv, pass the token on.  A file that is        *)
(* missing here, the first one too when it has gone since OpenFirst, is a  *)
(* null stream, which ends the process.                                    *)
Convert(r) ==
  /\ pc[r] = "loop" /\ Sent(r) /\ nth[r] <= Len(files[r])
  /\ LET f == files[r][nth[r]] IN
     \/ \E text \in Texts : LET st == Scan(f, text) IN
        \E tail \in Tails(st) : \E out \in Output(r, st.rows \o tail) :
          /\ outstr' = [outstr EXCEPT ![r] = out]
          /\ diff' = [diff EXCEPT ![f] = [text |-> text, rows |-> out]]
          /\ Goto(r, "token") /\ UNCHANGED fails
     \/ Fail /\ Goto(r, "exit") /\ UNCHANGED <<outstr, diff>>
     \/ Fail /\ Goto(r, "failed") /\ UNCHANGED <<outstr, diff>>
  /\ UNCHANGED <<cmd, inbar, bar, dest, files, nextjob, nth, links, all>>

TokenHere_Always(r) == TRUE
TokenHere(r) == r # 0 => tok[r] > 0
TakeToken(r) ==
  /\ pc[r] = "token" /\ TokenHere(r)
  /\ tok' = [tok EXCEPT ![r] = IF r = 0 THEN 0 ELSE @ - 1]
  /\ \/ all' = Append(all, Part(r, nth[r], 1)) /\ Goto(r, "append") /\ UNCHANGED fails
     \/ Fail /\ Goto(r, "failed") /\ UNCHANGED all
  /\ UNCHANGED <<cmd, inbar, bar, bcast, dest, jobs, files, count, nextjob, nth, outstr, diff>>

Passes_All(r) == r < LastRank
Passes_Once(r) == r < LastRank /\ nextjob[r] > 1
Passes(r) == r < LastRank /\ nextjob[r] # 0
PassToken(r) ==
  /\ pc[r] = "append"
  /\ all' = Append(all, Part(r, nth[r], 2))
  /\ IF Passes(r)
     THEN tok' = [tok EXCEPT ![r + 1] = @ + 1] /\ nextjob' = [nextjob EXCEPT ![r] = @ - 1]
     ELSE UNCHANGED <<tok, nextjob>>
  /\ nth' = [nth EXCEPT ![r] = @ + 1] /\ Goto(r, "loop")
  /\ UNCHANGED <<cmd, inbar, bar, bcast, dest, jobs, files, count, fails, outstr, diff>>

EndLoop(r) ==
  /\ pc[r] = "loop" /\ Sent(r) /\ nth[r] > Len(files[r]) /\ Goto(r, "finish")
  /\ UNCHANGED <<cmd, inbar, bar, dest, files, nextjob, nth, fails, links, outs>>

(* A rank that ends without MPI_Finalize takes the others with it.         *)
Launcher(r) ==
  /\ pc[r] \notin {"final", "exit", "killed"} /\ \E q \in Ranks : pc[q] = "exit"
  /\ Goto(r, "killed")
  /\ UNCHANGED <<cmd, inbar, bar, dest, files, nextjob, nth, fails, links, outs>>

Rank(r) ==
  \/ r = 0 /\ (ReadMap \/ Deal \/ WriteHead)
  \/ RecvJobs(r) \/ InitArg(r) \/ Enter(r) \/ Leave(r) \/ OpenFirst(r) \/ Tell(r)
  \/ Convert(r) \/ TakeToken(r) \/ PassToken(r) \/ EndLoop(r)

Next == \E r \in Ranks : Rank(r) \/ Launcher(r)
Spec == Init /\ [][Next]_vars
FairSpec == Spec /\ \A r \in AllRanks : WF_vars(r \in Ranks /\ Rank(r))

-----------------------------------------------------------------------------
RankSteps == {"none", "map", "deal", "args", "calc", "head", "tell", "loop", "token",
              "append", "exit", "final", "killed"} \cup BarrierSites
FileNos == 1 .. cmd.nf

(* No value leaves its range: the loop counter of rank 0, the tokens and   *)
(* files still to be announced, and the barriers a rank has entered.       *)
TypeOK ==
  /\ cmd \in [np : Sizes, nf : Counts, eager : BOOLEAN, args : BOOLEAN]
  /\ pc \in [AllRanks -> RankSteps] /\ inbar \in [AllRanks -> BOOLEAN]
  /\ bar \in [AllRanks -> 0 .. 5] /\ bcast \in BOOLEAN /\ dest \in 0 .. cmd.np
  /\ \A r \in AllRanks :
       /\ Len(jobs[r]) <= 1 /\ Len(count[r]) <= 1
       /\ files[r] \in BoundedSeq(FileNos, cmd.nf)
       /\ nextjob[r] \in 0 .. cmd.nf /\ tok[r] \in 0 .. cmd.nf
       /\ nth[r] \in 1 .. cmd.nf + 1
  /\ fails \in 0 .. MaxFail

(* Rows only follow the header of this run: no rank appends before rank 0  *)
(* has emptied all.csv, on error returns too, which meet the others in a   *)
(* barrier of another place.  And a rank appends its nth file only after   *)
(* its predecessor has completely written its own nth file: what the token *)
(* is for.                                                                 *)
TokenOrder ==
  \A b \in DOMAIN all :
    /\ all[b].rank >= 0 => b > 1 /\ all[1] = Header
    /\ all[b].rank > 0 => \E a \in 1 .. b - 1 : all[a] = Part(all[b].rank - 1, all[b].nth, 2)

(* When every rank has reached MPI_Finalize without an error, all.csv has  *)
(* the header and both parts of the text of every record file, once, and   *)
(* no message is left, apart from the list that rank 0 sends itself when   *)
(* the files divide evenly: tokens and files of neighbours agree.          *)
Complete ==
  (fails = 0 /\ \A r \in Ranks : pc[r] = "final") =>
    /\ Len(all) = 1 + 2 * cmd.nf
    /\ \A f \in FileNos, k \in 1 .. 2 : \E b \in 2 .. Len(all) :
         /\ all[b].rank \in Ranks /\ all[b].part = k
         /\ files[all[b].rank][all[b].nth] = f
    /\ \A r \in Ranks : /\ tok[r] = 0 /\ count[r] = <<>>
                        /\ jobs[r] # <<>> => r = 0 /\ Mod = 0

(* The intervals of a file: from a start line to an end line right after   *)
(* it, when the start lines that lead up to it are odd in number (an even  *)
(* number of them is dropped in pairs).                                    *)
RunUpTo(text, a) == Cardinality({b \in 1 .. a : \A c \in b .. a : text[c] = Start})
Intervals(f, text) ==
  {<<f, a, a + 1>> : a \in {b \in 1 .. Len(text) - 1 :
                        text[b + 1] = End /\ RunUpTo(text, b) % 2 = 1}}

(* A file that has intervals gets all of them and no row of another file,  *)
(* in the order of its lines; at most Junk follows.                        *)
IntervalsKept ==
  \A f \in FileNos :
    (diff[f] # None /\ Intervals(f, diff[f].text) # {}) =>
      SelectSeq(diff[f].rows, LAMBDA w : w # Junk)
        = SetToSortSeq(Intervals(f, diff[f].text), LAMBDA v, w : v[2] < w[2])

(* With at least two ranks, a file for each, points that parse, and sends  *)
(* that are buffered if the files divide evenly, every rank ends unless    *)
(* something fails: no rank waits for a token or a barrier for ever.       *)
Ends ==
  (/\ [](fails = 0) /\ cmd.args /\ cmd.np \in 2 .. cmd.nf
   /\ cmd.eager \/ Mod # 0) => <>(\A r \in Ranks : pc[r] = "final")

(* What the usage comment says of the output: the rows of r*c*.csv are     *)
(* differences of records in the record file of the same name.             *)
OwnRows ==
  \A f \in FileNos : diff[f] # None => \A k \in DOMAIN diff[f].rows : diff[f].rows[k][1] \in {f, 0}
=============================================================================
