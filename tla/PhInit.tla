------------------------------- MODULE PhInit -------------------------------
(***************************************************************************)
(* ph_init and phmpi_init: how the processes of several jobs, started with *)
(* the same data root, build the directory tree of their runs (perfhound.c,*)
(* ph_mpi.c, mpi_op.c and ph_io.c), up to the record file that the commit  *)
(* call opens.                                                             *)
(*                                                                         *)
(* A job is a set of ranks.  A job of Serial is one process that calls     *)
(* ph_init; the ranks of any other job call phmpi_init and meet in MPI     *)
(* barriers and in the ring of ph_mpi_mkhost.  All share a file system, on *)
(* which every system call is one step.  A rank that calls exit(1) leaves  *)
(* its job; the launcher then ends the other ranks.                        *)
(***************************************************************************)
EXTENDS Integers, Sequences, FiniteSets, SequencesExt, FiniteSetsExt

CONSTANTS
  Jobs,       \* jobs started with the same root
  Serial,     \* the ones that are a serial program
  NRank,      \* NRank[j]: number of ranks of job j
  Hosts,      \* host names
  HostOf,     \* HostOf[r]: the host rank r runs on
  NTags,      \* predefined tags, 5 in the code
  MaxFail     \* bound: system calls that fail

Ranks(j) == 0 .. NRank[j] - 1
Procs == UNION {{j} \X Ranks(j) : j \in Jobs}
(* A job names its run before it creates it, so the names 1 .. |Jobs| do.  *)
Runs == 1 .. Cardinality(Jobs)

ASSUME JobAssumption ==
  /\ IsFiniteSet(Jobs) /\ "none" \notin Jobs /\ Serial \subseteq Jobs
  /\ NRank \in [Jobs -> Nat \ {0}] /\ \A j \in Serial : NRank[j] = 1
  /\ \A j \in Jobs : \A r \in Ranks(j) : HostOf[r] \in Hosts
  /\ NTags \in Nat \ {0} /\ MaxFail \in Nat

VARIABLES
  pc,       \* next step of each process
  runid,    \* runid of ph_io_mkname, 0 before
  token,    \* ring messages under way, by <<job, receiver>>
  root,     \* the data root exists
  creator,  \* creator[n]: the job that made run_<n>, "none" if it is not there
  hostdirs, \* <<n, host>> with a host directory in run_<n>
  rankmap,  \* rows of rankmap.csv of each run: the processes that wrote them
  ctags,    \* rows of ctag.csv of each run
  recfiles, \* <<n, host, rank, process>>: the process that opened the record file
  fails     \* bound

files == <<root, creator, hostdirs, rankmap, ctags, recfiles>>
vars == <<pc, runid, token, files, fails>>

Barriers == {"b_root", "b_name", "b_host", "b_tag", "b_end"}
IOSteps == {"root", "name", "file", "files", "mkhost", "mkdir", "row", "tag", "commit"}
Steps == IOSteps \cup Barriers \cup {"recv", "send", "close", "done", "gone"}

Mpi(p) == p[1] \notin Serial
Host(p) == HostOf[p[2]]
Run(p) == runid[p]

Init ==
  /\ pc = [p \in Procs |-> IF p[2] = 0 THEN "root" ELSE "b_root"]
  /\ runid = [p \in Procs |-> 0]
  /\ token = {}
  /\ root = FALSE /\ creator = [n \in Runs |-> "none"]
  /\ hostdirs = {}
  /\ rankmap = [n \in Runs |-> <<>>] /\ ctags = [n \in Runs |-> 0]
  /\ recfiles = {} /\ fails = 0

Goto(p, step) == pc' = [pc EXCEPT ![p] = step]
Exit(p) == Goto(p, "gone")

-----------------------------------------------------------------------------
(* The root: ph_io_mkdir takes EEXIST for success.                         *)
MkRoot(p) ==
  /\ pc[p] = "root"
  /\ root' = TRUE
  /\ Goto(p, IF Mpi(p) THEN "b_root" ELSE "name")
  /\ UNCHANGED <<runid, token, creator, hostdirs, rankmap, ctags, recfiles, fails>>

(* ph_io_mkname: the first run_<n> that is not there.  Directories are     *)
(* never removed, so the last access() call decides.                       *)
FreeRun == Min({n \in Runs : creator[n] = "none"})
MkName(p) ==
  /\ pc[p] = "name"
  /\ runid' = [runid EXCEPT ![p] = FreeRun]
  /\ Goto(p, IF Mpi(p) THEN "b_name" ELSE "file")
  /\ UNCHANGED <<token, files, fails>>

(* ph_io_mkfile: mkdir of the run directory, which must not exist.         *)
MkRun_Exists(p) ==
  /\ pc[p] = "file"
  /\ creator' = [creator EXCEPT ![Run(p)] = p[1]] /\ Goto(p, "files")
  /\ UNCHANGED <<runid, token, root, hostdirs, rankmap, ctags, recfiles, fails>>
MkRun(p) ==
  /\ pc[p] = "file"
  /\ \/ /\ creator[Run(p)] = "none"
        /\ creator' = [creator EXCEPT ![Run(p)] = p[1]] /\ Goto(p, "files")
     \/ /\ creator[Run(p)] # "none"
        /\ Exit(p) /\ UNCHANGED creator
  /\ UNCHANGED <<runid, token, root, hostdirs, rankmap, ctags, recfiles, fails>>

(* run_info.csv is opened to append; ctag, etag and rankmap are created.   *)
(* These four calls are one step: of the files only the last, the rank     *)
(* map, is ever opened by another job, whose rows behind it stay.          *)
MkFiles(p) ==
  /\ pc[p] = "files"
  /\ rankmap' = [rankmap EXCEPT ![Run(p)] = <<>>]
  /\ ctags' = [ctags EXCEPT ![Run(p)] = 0]
  /\ Goto(p, "mkhost")
  /\ UNCHANGED <<runid, token, root, creator, hostdirs, recfiles, fails>>

-----------------------------------------------------------------------------
(* ph_mpi_mkhost: rank 0 starts, every other rank waits for the one before.*)

AfterName(p) == IF p[2] = 0 THEN "file" ELSE "recv"

Recv_Any(p) == pc[p] = "recv" /\ Goto(p, "mkhost") /\ UNCHANGED <<runid, token, files, fails>>
Recv(p) ==
  /\ pc[p] = "recv" /\ p \in token
  /\ token' = token \ {p}
  /\ Goto(p, "mkhost")
  /\ UNCHANGED <<runid, files, fails>>

(* ph_io_mkhost: access ...                                                *)
SeeHost_Skip(p) ==
  pc[p] = "mkhost" /\ Goto(p, "row") /\ UNCHANGED <<runid, token, files, fails>>
SeeHost(p) ==
  /\ pc[p] = "mkhost"
  /\ Goto(p, IF <<Run(p), Host(p)>> \in hostdirs THEN "row" ELSE "mkdir")
  /\ UNCHANGED <<runid, token, files, fails>>

(* ... and mkdir, which another process may have done meanwhile: -1 is     *)
(* returned for EEXIST too, and the caller exits.                          *)
MkHost(p) ==
  /\ pc[p] = "mkdir"
  /\ \/ /\ <<Run(p), Host(p)>> \notin hostdirs
        /\ hostdirs' = hostdirs \cup {<<Run(p), Host(p)>>}
        /\ Goto(p, "row")
     \/ /\ <<Run(p), Host(p)>> \in hostdirs
        /\ Exit(p) /\ UNCHANGED hostdirs
  /\ UNCHANGED <<runid, token, root, creator, rankmap, ctags, recfiles, fails>>

WtRankmap(p) ==
  /\ pc[p] = "row"
  /\ rankmap' = [rankmap EXCEPT ![Run(p)] = Append(@, p)]
  /\ Goto(p, IF Mpi(p) THEN "send" ELSE "tag")
  /\ UNCHANGED <<runid, token, root, creator, hostdirs, ctags, recfiles, fails>>

NextRank_NoWrap(p) == <<p[1], p[2] + 1>>
NextRank(p) == <<p[1], (p[2] + 1) % NRank[p[1]]>>

(* With one rank the message goes to rank 1, which does not exist: MPI     *)
(* ends the job.                                                           *)
Send(p) ==
  /\ pc[p] = "send"
  /\ \/ /\ NRank[p[1]] > 1
        /\ token' = token \cup {NextRank(p)}
        /\ Goto(p, IF p[2] = 0 THEN "close" ELSE "b_host")
     \/ NRank[p[1]] = 1 /\ Exit(p) /\ UNCHANGED token
  /\ UNCHANGED <<runid, files, fails>>

(* Rank 0 waits for the message of the last rank.                          *)
CloseRing(p) ==
  /\ pc[p] = "close" /\ p \in token
  /\ token' = token \ {p}
  /\ Goto(p, "b_host")
  /\ UNCHANGED <<runid, files, fails>>

-----------------------------------------------------------------------------
(* The predefined tags, written by rank 0 or the serial process.           *)
SetTag(p) ==
  /\ pc[p] = "tag"
  /\ ctags' = [ctags EXCEPT ![Run(p)] = IF p[2] = 0 THEN @ + 1 ELSE @]
  /\ Goto(p, IF Mpi(p) THEN "b_tag" ELSE IF ctags[Run(p)] + 1 = NTags THEN "commit" ELSE "tag")
  /\ UNCHANGED <<runid, token, root, creator, hostdirs, rankmap, recfiles, fails>>

(* The commit call opens the record file.  Its name also has the cpu,      *)
(* which here follows from host and rank, as when mpirun binds the ranks.  *)
MkRec(p) ==
  /\ pc[p] = "commit"
  /\ recfiles' = recfiles \cup {<<Run(p), Host(p), p[2], p>>}
  /\ Goto(p, "done")
  /\ UNCHANGED <<runid, token, root, creator, hostdirs, rankmap, ctags, fails>>

(* MPI_Barrier: all ranks of the job are there, and all go on.             *)
After(p, b) ==
  CASE b = "b_root" -> "name"
    [] b = "b_name" -> AfterName(p)
    [] b = "b_host" -> "tag"
    [] b = "b_tag" -> IF ctags[Run(<<p[1], 0>>)] < NTags THEN "tag" ELSE "b_end"
    [] b = "b_end" -> "commit"

Barrier(j) ==
  /\ \E b \in Barriers :
       /\ \A r \in Ranks(j) : pc[<<j, r>>] = b
       /\ pc' = [p \in Procs |-> IF p[1] = j THEN After(p, b) ELSE pc[p]]
  /\ UNCHANGED <<runid, token, files, fails>>

-----------------------------------------------------------------------------
(* A system call fails, or the process crashes at it (a null FILE* of      *)
(* ph_io_wtrankmap and ph_io_wtctag).  ph_init does not look at the result *)
(* of ph_io_mkname.  Only rank 0 does I/O for a tag; the other ranks end   *)
(* there too when they find no memory or no counters.                      *)
Fail(p) ==
  /\ fails < MaxFail
  /\ pc[p] \in IOSteps /\ (pc[p] = "name" => Mpi(p))
  /\ Exit(p) /\ fails' = fails + 1
  /\ UNCHANGED <<runid, token, files>>

(* mpirun ends a job that lost a process.                                  *)
Launcher(j) ==
  /\ \E p \in Procs : p[1] = j /\ pc[p] = "gone"
  /\ pc' = [p \in Procs |-> IF p[1] = j THEN "gone" ELSE pc[p]]
  /\ UNCHANGED <<runid, token, files, fails>>

Proc(p) ==
  \/ MkRoot(p) \/ MkName(p) \/ MkRun(p) \/ MkFiles(p)
  \/ Recv(p) \/ SeeHost(p) \/ MkHost(p) \/ WtRankmap(p) \/ Send(p) \/ CloseRing(p)
  \/ SetTag(p) \/ MkRec(p)

Ended == (\A p \in Procs : pc[p] \in {"done", "gone"}) /\ UNCHANGED vars

Next ==
  \/ \E p \in Procs : Proc(p) \/ Fail(p)
  \/ \E j \in Jobs : Barrier(j) \/ Launcher(j)
  \/ Ended

(* Processes run, barriers complete and the launcher notices a lost rank.  *)
Fairness ==
  /\ \A p \in Procs : WF_vars(Proc(p))
  /\ \A j \in Jobs : WF_vars(Barrier(j)) /\ WF_vars(Launcher(j))

Spec == Init /\ [][Next]_vars /\ Fairness

-----------------------------------------------------------------------------
TypeOK ==
  /\ pc \in [Procs -> Steps]
  /\ runid \in [Procs -> {0} \cup Runs]
  /\ token \subseteq Procs
  /\ root \in BOOLEAN /\ creator \in [Runs -> Jobs \cup {"none"}]
  /\ hostdirs \subseteq Runs \X Hosts
  /\ rankmap \in [Runs -> Seq(Procs)] /\ ctags \in [Runs -> Nat]
  /\ recfiles \subseteq Runs \X Hosts \X Nat \X Procs
  /\ fails \in 0 .. MaxFail

Ready(j) == \E r \in Ranks(j) : pc[<<j, r>>] \in {"commit", "done"}
Agree(j) == \A r \in Ranks(j) : runid[<<j, r>>] = runid[<<j, 0>>]
(* The rows of a job in the rank map of run n: every rank, in rank order.  *)
RanksInOrder(j, n) ==
  LET rows == {i \in DOMAIN rankmap[n] : rankmap[n][i][1] = j}
  IN  /\ \A r \in Ranks(j) : \E i \in rows : rankmap[n][i] = <<j, r>>
      /\ \A a, b \in rows : a < b => rankmap[n][a][2] < rankmap[n][b][2]

(* Jobs that race for a run directory: mkdir picks one of them, and no two *)
(* jobs that go on hold the same run id, so run_info.csv rows differ too.  *)
OneOwner ==
  \A j, k \in Jobs :
    j # k /\ pc[<<j, 0>>] \in {"commit", "done"} /\ pc[<<k, 0>>] \in {"commit", "done"}
      => runid[<<j, 0>>] # runid[<<k, 0>>]

(* A rank that the ring lets through finds the directory it named, though  *)
(* rank 0 created it and named it at another moment: the mkdir and the     *)
(* fopen calls that follow cannot miss their parent.  When any rank leaves *)
(* phmpi_init, every rank has its row, in rank order, and its host         *)
(* directory, and the tags are there.                                      *)
InitComplete ==
  /\ \A p \in Procs :
       pc[p] \in {"mkhost", "mkdir", "row", "send", "close", "tag", "commit", "done"}
         => creator[Run(p)] # "none"
  /\ \A j \in Jobs : Ready(j) /\ Agree(j) =>
       LET n == runid[<<j, 0>>] IN
       /\ RanksInOrder(j, n)
       /\ \A r \in Ranks(j) : <<n, HostOf[r]>> \in hostdirs
       /\ ctags[n] = NTags

(* A job that no other job disturbed by creating a run: its ranks name the *)
(* same run, and only a failing call ends it (a job of one MPI rank aside):*)
(* no process meets EEXIST on its run or host directory.                   *)
Undisturbed ==
  \A j \in Jobs : (\A n \in Runs : creator[n] \in {j, "none"}) =>
    /\ Ready(j) => Agree(j)
    /\ fails = 0 /\ (j \in Serial \/ NRank[j] > 1) => \A r \in Ranks(j) : pc[<<j, r>>] # "gone"

(* Every job gets through or is gone as a whole: nobody waits for ever in  *)
(* a barrier or in the ring.                                               *)
InitEnds ==
  \A j \in Jobs : <>[](\/ \A r \in Ranks(j) : pc[<<j, r>>] = "done"
                       \/ \A r \in Ranks(j) : pc[<<j, r>>] = "gone")

-----------------------------------------------------------------------------
(* A statement of the documentation that the code does not keep when two   *)
(* jobs start on the same root.                                            *)

(* "No two processes write the same file": every record file is opened by  *)
(* one process.                                                            *)
OneWriter ==
  \A f, g \in recfiles : f[1] = g[1] /\ f[2] = g[2] /\ f[3] = g[3] => f[4] = g[4]
=============================================================================
