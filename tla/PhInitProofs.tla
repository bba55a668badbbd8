----------------------------- MODULE PhInitProofs -----------------------------
(***************************************************************************)
(* Theorems about the initialisation for every number of jobs, ranks, hosts*)
(* and failing calls.                                                      *)
(***************************************************************************)
EXTENDS PhInit, FiniteSetTheorems, SequenceTheorems, TLAPS

(* The stages of an initialisation, between which all ranks of a job meet. *)
Naming == {"root", "b_root", "name", "b_name"}
Building == {"file", "files", "recv", "mkhost", "mkdir", "row", "send", "close", "b_host"}
Tagging == {"tag", "b_tag"}
Finishing == {"b_end", "commit", "done"}

(* Rank 0 has the run directory, and the ring has come to a rank.          *)
InRing == {"mkhost", "mkdir", "row", "send", "close", "b_host"}
Rowed == {"send", "close", "b_host"} \cup Tagging \cup Finishing
Passed == {"close", "b_host"} \cup Tagging \cup Finishing
Past == {"files"} \cup InRing \cup Tagging \cup Finishing

Live(p) == pc[p] # "gone"
Root(j) == runid[<<j, 0>>]
Owns(j) == Root(j) \in Runs /\ creator[Root(j)] = j

(* Which process may be where.                                             *)
Roles ==
  \A p \in Procs :
    /\ pc[p] \in {"root", "file", "files", "close"} => p[2] = 0
    /\ pc[p] = "recv" => p[2] # 0
    /\ ~Mpi(p) => pc[p] \notin Barriers \cup {"recv", "send", "close"}

(* The ranks of a job that are not gone are in the same stage.             *)
Together ==
  \A p, q \in Procs :
    p[1] = q[1] /\ Live(p) /\ Live(q) =>
      \/ pc[p] \in Naming /\ pc[q] \in Naming
      \/ pc[p] \in Building /\ pc[q] \in Building
      \/ pc[p] \in Tagging /\ pc[q] \in Tagging
      \/ pc[p] \in Finishing /\ pc[q] \in Finishing

(* A process named the first run that was not there then, and nobody goes  *)
(* on before all ranks of the job have named one.                          *)
Named ==
  \A p \in Procs :
    /\ \A m \in Runs : m < runid[p] => creator[m] # "none"
    /\ pc[p] = "b_name" => runid[p] # 0
    /\ pc[p] \notin Naming \cup {"gone"} => \A q \in Procs : q[1] = p[1] => runid[q] # 0

(* A job creates one run, after all its ranks have named theirs; a rank    *)
(* that named a later one would have seen it, made by another job.         *)
Creators ==
  \A n \in Runs, p \in Procs : creator[n] = p[1] =>
    /\ Root(p[1]) = n /\ pc[<<p[1], 0>>] # "file"
    /\ pc[p] \notin Naming /\ runid[p] \in 1 .. n

(* The ring: nobody is in it before rank 0 owns the run directory, and     *)
(* whom it has reached finds all ranks before it past their sends.         *)
Ring ==
  \A p \in Procs :
    /\ pc[p] \in Past \/ p \in token => Owns(p[1])
    /\ p[2] # 0 /\ (pc[p] \in InRing \/ p \in token) =>
         \A q \in Procs : q[1] = p[1] /\ q[2] < p[2] => pc[q] \in Passed \cup {"gone"}

OwnInv == TypeOK /\ Roles /\ Together /\ Named /\ Creators /\ Ring

(* A process whose row is in the rank map of the run of its job, unless it *)
(* named another one.                                                      *)
RowThere(p) ==
  creator[runid[p]] = p[1] => \E i \in DOMAIN rankmap[runid[p]] : rankmap[runid[p]][i] = p
HostThere(p) == <<runid[p], Host(p)>> \in hostdirs

Rows ==
  /\ \A p \in Procs :
       /\ pc[p] \in Rowed => RowThere(p)
       /\ p[2] # 0 /\ (pc[p] \in InRing \/ p \in token) =>
            \A q \in Procs : q[1] = p[1] /\ q[2] < p[2] => RowThere(q)
       /\ pc[p] \in Tagging \cup Finishing => \A q \in Procs : q[1] = p[1] => RowThere(q)
       (* What is written is ordered, and a row to come belongs behind it. *)
       /\ \A n \in Runs : \A i \in DOMAIN rankmap[n] :
            rankmap[n][i][1] = p[1] /\ pc[p] \in (Naming \cup Building) \ Rowed
              => rankmap[n][i][2] < p[2]
  /\ \A n \in Runs : \A a, b \in DOMAIN rankmap[n] :
       a < b /\ rankmap[n][a][1] = rankmap[n][b][1] => rankmap[n][a][2] < rankmap[n][b][2]

HostDirs ==
  \A p \in Procs :
    /\ pc[p] \in {"row"} \cup Rowed => HostThere(p)
    /\ pc[p] \in Tagging \cup Finishing => \A q \in Procs : q[1] = p[1] => HostThere(q)

(* The tags of the run of a job, which only its rank 0 counts.             *)
Tags ==
  \A p \in Procs :
    LET n == Root(p[1]) IN
    /\ p[2] = 0 /\ pc[p] \in InRing => ctags[n] = 0
    /\ p[2] = 0 /\ pc[p] = "tag" => ctags[n] < NTags
    /\ p[2] = 0 /\ pc[p] = "b_tag" => ctags[n] <= NTags
    /\ pc[p] \in Finishing => ctags[n] = NTags

TreeInv == OwnInv /\ Rows /\ HostDirs /\ Tags

(* A job that is alone: its ranks name run 1, and nobody gets in between   *)
(* the test for a host directory and its creation.                         *)
Alone(j) == \A n \in Runs : creator[n] \in {j, "none"}
AloneInv ==
  \A p \in Procs : Alone(p[1]) =>
    /\ runid[p] \in {0, 1}
    /\ pc[p] = "mkdir" => ~HostThere(p)
    /\ fails = 0 /\ (p[1] \in Serial \/ NRank[p[1]] > 1) => Live(p)

-----------------------------------------------------------------------------
(* The least element of a set of natural numbers.                          *)
LEMMA MinOfNat ==
  ASSUME NEW S, S \subseteq Nat, S # {}
  PROVE  Min(S) \in S /\ \A n \in S : Min(S) <= n
<1> DEFINE T == {1 .. n : n \in S}
<1>1. T \subseteq FiniteSubsetsOf(Nat) /\ T # {}
  <2>1. ASSUME NEW n \in S PROVE 1 .. n \in FiniteSubsetsOf(Nat)
    <3>1. IsFiniteSet(1 .. n) /\ 1 .. n \in SUBSET Nat
      BY FS_Interval
    <3> QED BY <3>1 DEF FiniteSubsetsOf
  <2>2. PICK n \in S : TRUE
    OBVIOUS
  <2>3. 1 .. n \in T
    OBVIOUS
  <2> QED BY <2>1, <2>3
<1>2. PICK X \in T : \A Y \in T : <<Y, X>> \notin StrictSubsetOrdering(Nat)
  <2> HIDE DEF T
  <2> QED BY <1>1, FS_StrictSubsetOrderingWellFounded, WFMin
<1>3. PICK m \in S : X = 1 .. m
  OBVIOUS
<1>4. ASSUME NEW n \in S PROVE m <= n
  <2>1. <<1 .. n, 1 .. m>> \notin StrictSubsetOrdering(Nat)
    BY <1>2, <1>3
  <2>2. ~ (1 .. n \subseteq 1 .. m /\ 1 .. n # 1 .. m)
    BY <2>1 DEF StrictSubsetOrdering
  <2>3. SUFFICES ASSUME n < m PROVE FALSE
    OBVIOUS
  <2>4. m \in 1 .. m /\ m \notin 1 .. n /\ 1 .. n \subseteq 1 .. m
    BY <2>3
  <2> QED BY <2>2, <2>4
<1> QED
  BY <1>4 DEF Min

(* A process is its job and its rank.                                      *)
LEMMA ProcParts ==
  /\ \A p \in Procs : p[1] \in Jobs /\ p[2] \in Ranks(p[1]) /\ p[2] \in Nat /\ p = <<p[1], p[2]>>
  /\ \A j \in Jobs : \A r \in Ranks(j) : <<j, r>> \in Procs
  /\ \A j \in Jobs : 0 \in Ranks(j)
  /\ \A j \in Serial : j \in Jobs /\ Ranks(j) = {0}
<1> USE JobAssumption DEF Ranks
<1>1. ASSUME NEW p \in Procs
      PROVE  p[1] \in Jobs /\ p[2] \in Ranks(p[1]) /\ p[2] \in Nat /\ p = <<p[1], p[2]>>
  BY DEF Procs
<1>2. ASSUME NEW j \in Jobs, NEW r \in Ranks(j) PROVE <<j, r>> \in Procs
  BY DEF Procs
<1>3. ASSUME NEW j \in Jobs PROVE 0 \in Ranks(j)
  OBVIOUS
<1>4. ASSUME NEW j \in Serial PROVE j \in Jobs /\ Ranks(j) = {0}
  OBVIOUS
<1> QED
  BY <1>1, <1>2, <1>3, <1>4

(* The rank after a rank.                                                  *)
LEMMA NextRankType ==
  ASSUME NEW p \in Procs
  PROVE  /\ NextRank(p) \in Procs /\ NextRank(p)[1] = p[1]
         /\ NextRank(p)[2] # 0 => NextRank(p)[2] = p[2] + 1
<1>1. p[1] \in Jobs /\ p[2] \in 0 .. NRank[p[1]] - 1 /\ NRank[p[1]] \in Nat \ {0}
  BY ProcParts, JobAssumption DEF Ranks
<1>2. ASSUME NEW n \in Nat \ {0}, NEW r \in 0 .. n - 1
      PROVE  (r + 1) % n \in 0 .. n - 1 /\ ((r + 1) % n # 0 => (r + 1) % n = r + 1)
  OBVIOUS
<1>3. (p[2] + 1) % NRank[p[1]] \in Ranks(p[1])
  BY <1>1, <1>2 DEF Ranks
<1>4. (p[2] + 1) % NRank[p[1]] # 0 => (p[2] + 1) % NRank[p[1]] = p[2] + 1
  BY <1>1, <1>2
<1> QED
  BY <1>1, <1>3, <1>4, ProcParts DEF NextRank

(* A barrier and the launcher move the ranks of one job.                   *)
LEMMA BarrierMoves ==
  ASSUME TypeOK, Roles, NEW j \in Jobs, Barrier(j)
  PROVE  /\ j \notin Serial
         /\ \E b \in Barriers :
              /\ \A p \in Procs : p[1] = j => pc[p] = b /\ pc'[p] = After(p, b)
              /\ \A p \in Procs : p[1] # j => pc'[p] = pc[p]
         /\ UNCHANGED <<runid, token, root, creator, hostdirs, rankmap, ctags, recfiles, fails>>
<1>1. PICK b \in Barriers :
        /\ \A r \in Ranks(j) : pc[<<j, r>>] = b
        /\ pc' = [p \in Procs |-> IF p[1] = j THEN After(p, b) ELSE pc[p]]
  BY DEF Barrier
<1>2. \A p \in Procs : p[1] = j => pc[p] = b
  BY <1>1, ProcParts
<1>3. j \notin Serial
  <2>1. <<j, 0>> \in Procs /\ <<j, 0>>[1] = j
    BY ProcParts
  <2> QED BY <1>2, <2>1 DEF Roles, Mpi
<1> QED
  BY <1>1, <1>2, <1>3 DEF Barrier, files

LEMMA LauncherMoves ==
  ASSUME TypeOK, NEW j \in Jobs, Launcher(j)
  PROVE  /\ \A p \in Procs : pc'[p] = IF p[1] = j THEN "gone" ELSE pc[p]
         /\ UNCHANGED <<runid, token, root, creator, hostdirs, rankmap, ctags, recfiles, fails>>
  BY DEF Launcher, files

LEMMA RolesKept == TypeOK /\ Roles /\ [Next]_vars => Roles'
<1> SUFFICES ASSUME TypeOK, Roles, [Next]_vars PROVE Roles'
  OBVIOUS
<1> USE ProcParts DEF TypeOK, Roles, Mpi, Barriers
<1>1. ASSUME NEW p \in Procs, Proc(p) PROVE Roles'
  BY <1>1 DEF Proc, MkRoot, MkName, MkRun, MkFiles, Recv, SeeHost, MkHost, WtRankmap, Send, CloseRing, SetTag, MkRec, Goto, Exit
<1>2. ASSUME NEW p \in Procs, Fail(p) PROVE Roles'
  BY <1>2 DEF Fail, Exit, Goto
<1>3. ASSUME NEW j \in Jobs, Barrier(j) PROVE Roles'
  BY <1>3, BarrierMoves DEF After, AfterName
<1>4. ASSUME NEW j \in Jobs, Launcher(j) PROVE Roles'
  BY <1>4, LauncherMoves
<1>5. CASE UNCHANGED vars
  BY <1>5 DEF vars
<1> QED
  BY <1>1, <1>2, <1>3, <1>4, <1>5 DEF Next, Ended

(* Who looks for a free run finds one: there are as many names as jobs, no *)
(* job creates two runs, and its own has not created any yet.              *)
LEMMA FreeRunThere ==
  ASSUME TypeOK, Creators, NEW p \in Procs, pc[p] = "name"
  PROVE  FreeRun \in Runs /\ creator[FreeRun] = "none" /\ \A m \in Runs : m < FreeRun => creator[m] # "none"
<1> DEFINE Free == {n \in Runs : creator[n] = "none"}
<1>1. Free # {}
  <2>1. SUFFICES ASSUME Free = {} PROVE FALSE
    OBVIOUS
  <2> DEFINE Others == Jobs \ {p[1]}
             f == [n \in Runs |-> creator[n]]
  <2>2. Cardinality(Jobs) \in Nat /\ Cardinality(Others) = Cardinality(Jobs) - 1 /\ IsFiniteSet(Others)
    BY FS_CardinalityType, FS_RemoveElement, ProcParts, JobAssumption
  <2>3. IsFiniteSet(Runs) /\ Cardinality(Runs) = Cardinality(Jobs)
    <3>1. 1 \in Int /\ Cardinality(Jobs) \in Int
      BY <2>2
    <3>2. IsFiniteSet(1 .. Cardinality(Jobs)) /\ Cardinality(1 .. Cardinality(Jobs)) =
             IF 1 > Cardinality(Jobs) THEN 0 ELSE Cardinality(Jobs) - 1 + 1
      BY <3>1, FS_Interval
    <3> QED BY <2>2, <3>2 DEF Runs
  <2>4. ASSUME NEW n \in Runs PROVE creator[n] \in Others
    <3>1. creator[n] \in Jobs
      BY <2>1 DEF TypeOK
    <3>2. creator[n] # p[1]
      BY DEF Creators, Naming
    <3> QED BY <3>1, <3>2
  <2>5. f \in [Runs -> Others]
    BY <2>4
  <2>6. PICK m \in Runs, n \in Runs : m # n /\ f[m] = f[n]
    <3> HIDE DEF f, Others
    <3> QED BY <2>2, <2>3, <2>5, FS_PigeonHole
  <2>7. creator[m] = creator[n] /\ creator[m] \in Jobs
    BY <2>6, <2>4
  <2>8. PICK q \in Procs : q[1] = creator[m]
    BY <2>7, ProcParts
  <2> QED
    BY <2>6, <2>7, <2>8 DEF Creators
<1>2. Free \subseteq Nat
  BY DEF Runs
<1>3. Min(Free) \in Free /\ \A n \in Free : Min(Free) <= n
  <2> HIDE DEF Free
  <2> QED BY <1>1, <1>2, MinOfNat
<1>4. FreeRun = Min(Free)
  BY DEF FreeRun
<1> QED
  BY <1>3, <1>4 DEF Runs

LEMMA TypeKept == TypeOK /\ Roles /\ Named /\ Creators /\ [Next]_vars => TypeOK'
<1> SUFFICES ASSUME TypeOK, Roles, Named, Creators, [Next]_vars PROVE TypeOK'
  OBVIOUS
<1> USE ProcParts, JobAssumption DEF TypeOK
<1>1. ASSUME NEW p \in Procs, Proc(p) PROVE TypeOK'
  <2> USE DEF Steps, IOSteps, Barriers
  <2>0. pc[p] \notin {"root", "b_root", "name", "gone"} => runid[p] \in Runs
    BY DEF Named, Naming
  <2>1. CASE MkRoot(p)
    BY <2>1 DEF MkRoot, Goto
  <2>2. CASE MkName(p)
    BY <2>2, FreeRunThere DEF MkName, Goto, files
  <2>3. CASE MkRun(p)
    BY <2>3 DEF MkRun, Goto, Exit
  <2>4. CASE MkFiles(p)
    BY <2>4, <2>0 DEF MkFiles, Goto, Run
  <2>5. CASE Recv(p) \/ SeeHost(p) \/ CloseRing(p)
    BY <2>5 DEF Recv, SeeHost, CloseRing, Goto, files
  <2>6. CASE MkHost(p)
    <3>1. <<Run(p), Host(p)>> \in Runs \X Hosts
      BY <2>6, <2>0 DEF MkHost, Run, Host
    <3> QED BY <2>6, <3>1 DEF MkHost, Goto, Exit
  <2>7. CASE WtRankmap(p)
    <3>1. Append(rankmap[Run(p)], p) \in Seq(Procs)
      BY <2>7, <2>0, AppendProperties DEF WtRankmap, Run
    <3> QED BY <2>7, <3>1 DEF WtRankmap, Goto
  <2>8. CASE Send(p)
    BY <2>8, NextRankType DEF Send, Goto, Exit, files
  <2>9. CASE SetTag(p)
    BY <2>9, <2>0 DEF SetTag, Goto, Run
  <2>10. CASE MkRec(p)
    <3>1. <<Run(p), Host(p), p[2], p>> \in Runs \X Hosts \X Nat \X Procs
      BY <2>10, <2>0 DEF MkRec, Run, Host
    <3> QED BY <2>10, <3>1 DEF MkRec, Goto
  <2> HIDE DEF TypeOK
  <2> QED
    BY ONLY <1>1, <2>1, <2>2, <2>3, <2>4, <2>5, <2>6, <2>7, <2>8, <2>9, <2>10 DEF Proc
<1>2. ASSUME NEW p \in Procs, Fail(p) PROVE TypeOK'
  <2>1. "gone" \in Steps
    BY DEF Steps
  <2>2. pc' \in [Procs -> Steps]
    BY <1>2, <2>1 DEF Fail, Exit, Goto
  <2>3. fails' \in 0 .. MaxFail
    BY <1>2 DEF Fail
  <2> QED BY <1>2, <2>2, <2>3 DEF Fail, Exit, files
<1>3. ASSUME NEW j \in Jobs, Barrier(j) PROVE TypeOK'
  BY <1>3, SMTT(20) DEF Barrier, After, AfterName, Steps, IOSteps, Barriers, files
<1>4. ASSUME NEW j \in Jobs, Launcher(j) PROVE TypeOK'
  BY <1>4 DEF Launcher, Steps, files
<1>5. CASE UNCHANGED vars
  BY <1>5 DEF vars, files
<1> QED
  BY <1>1, <1>2, <1>3, <1>4, <1>5 DEF Next, Ended

LEMMA TogetherKept == TypeOK /\ Roles /\ Together /\ [Next]_vars => Together'
<1> SUFFICES ASSUME TypeOK, Roles, Together, [Next]_vars PROVE Together'
  OBVIOUS
<1> USE ProcParts DEF TypeOK, Roles, Mpi, Barriers, Together, Live, Naming, Building, Tagging, Finishing
<1>1. ASSUME NEW p \in Procs, Proc(p) PROVE Together'
  <2>1. CASE p[1] \in Serial
    <3>1. \A q \in Procs : q[1] = p[1] => q = p
      BY <2>1, ProcParts
    <3>2. /\ \A q \in Procs : q # p => pc'[q] = pc[q]
          /\ pc'[p] \in Naming \cup Building \cup Tagging \cup Finishing \cup {"gone"}
      BY <1>1, <2>1 DEF Proc, MkRoot, MkName, MkRun, MkFiles, Recv, SeeHost, MkHost, WtRankmap, Send, CloseRing, SetTag, MkRec, Goto, Exit
    <3> QED BY <3>1, <3>2
  <2>2. CASE p[1] \notin Serial
    BY <1>1, <2>2 DEF Proc, MkRoot, MkName, MkRun, MkFiles, Recv, SeeHost, MkHost, WtRankmap, Send, CloseRing, SetTag, MkRec, Goto, Exit
  <2> QED BY <2>1, <2>2
<1>2. ASSUME NEW p \in Procs, Fail(p) PROVE Together'
  BY <1>2 DEF Fail, Exit, Goto
<1>3. ASSUME NEW j \in Jobs, Barrier(j) PROVE Together'
  <2>1. PICK b \in Barriers :
          /\ \A p \in Procs : p[1] = j => pc[p] = b /\ pc'[p] = After(p, b)
          /\ \A p \in Procs : p[1] # j => pc'[p] = pc[p]
    BY <1>3, BarrierMoves
  <2>2. ASSUME NEW p \in Procs, NEW q \in Procs, p[1] = j, q[1] = j
        PROVE  \/ pc'[p] \in Naming /\ pc'[q] \in Naming
               \/ pc'[p] \in Building /\ pc'[q] \in Building
               \/ pc'[p] \in Tagging /\ pc'[q] \in Tagging
               \/ pc'[p] \in Finishing /\ pc'[q] \in Finishing
    <3>1. pc'[p] = After(p, b) /\ pc'[q] = After(q, b)
      BY <2>1, <2>2
    <3>2. After(q, "b_tag") = After(p, "b_tag")
      BY <2>2 DEF After
    <3> QED BY <3>1, <3>2 DEF After, AfterName
  <2>3. \A p \in Procs : p[1] # j => pc'[p] = pc[p]
    BY <2>1
  <2> QED BY <2>2, <2>3
<1>4. ASSUME NEW j \in Jobs, Launcher(j) PROVE Together'
  BY <1>4, LauncherMoves
<1>5. CASE UNCHANGED vars
  BY <1>5 DEF vars
<1> QED
  BY <1>1, <1>2, <1>3, <1>4, <1>5 DEF Next, Ended

LEMMA NamedKept == TypeOK /\ Roles /\ Named /\ Creators /\ [Next]_vars => Named'
<1> SUFFICES ASSUME TypeOK, Roles, Named, Creators, [Next]_vars PROVE Named'
  OBVIOUS
<1> USE ProcParts, JobAssumption DEF TypeOK, Named, Naming
<1>1. ASSUME NEW p \in Procs, Proc(p) PROVE Named'
  <2>1. CASE MkName(p)
    <3>1. runid'[p] \in Runs /\ \A m \in Runs : m < runid'[p] => creator[m] # "none"
      BY <2>1, FreeRunThere DEF MkName
    <3>2. \A q \in Procs : q # p => runid'[q] = runid[q] /\ pc'[q] = pc[q]
      BY <2>1 DEF MkName, Goto
    <3>3. creator' = creator /\ pc'[p] = IF Mpi(p) THEN "b_name" ELSE "file"
      BY <2>1 DEF MkName, Goto, files
    <3>4. ~Mpi(p) => \A q \in Procs : q[1] = p[1] => q = p
      BY DEF Mpi
    <3>5. runid'[p] # 0
      BY <3>1 DEF Runs
    <3> QED BY <3>1, <3>2, <3>3, <3>4, <3>5
  <2>2. CASE ~MkName(p)
    <3>1. runid' = runid /\ \A m \in Runs : creator[m] # "none" => creator'[m] # "none"
      BY <1>1, <2>2 DEF Proc, MkRoot, MkRun, MkFiles, Recv, SeeHost, MkHost, WtRankmap, Send, CloseRing, SetTag, MkRec, files
    <3>2. /\ \A q \in Procs : q # p => pc'[q] = pc[q]
          /\ pc[p] # "b_name" /\ pc'[p] # "b_name"
          /\ pc[p] \in Naming \cup {"gone"} => pc'[p] \in Naming \cup {"gone"}
      BY <1>1, <2>2 DEF Proc, MkRoot, MkRun, MkFiles, Recv, SeeHost, MkHost, WtRankmap, Send, CloseRing, SetTag, MkRec, Goto, Exit
    <3> QED BY <3>1, <3>2
  <2> QED BY <2>1, <2>2
<1>2. ASSUME NEW p \in Procs, Fail(p) PROVE Named'
  BY <1>2 DEF Fail, Exit, Goto, files
<1>3. ASSUME NEW j \in Jobs, Barrier(j) PROVE Named'
  <2>1. PICK b \in Barriers :
          /\ \A p \in Procs : p[1] = j => pc[p] = b /\ pc'[p] = After(p, b)
          /\ \A p \in Procs : p[1] # j => pc'[p] = pc[p]
    BY <1>3, BarrierMoves
  <2>2. UNCHANGED <<runid, creator>>
    BY <1>3, BarrierMoves
  <2>3. ASSUME NEW p \in Procs, p[1] = j
        PROVE  /\ pc'[p] # "b_name"
               /\ pc'[p] \notin Naming \cup {"gone"} => \A q \in Procs : q[1] = p[1] => runid[q] # 0
    <3>1. pc'[p] # "b_name" /\ (b = "b_root" => pc'[p] = "name")
      BY <2>1, <2>3 DEF After, AfterName, Barriers
    <3>2. b \in Barriers \ {"b_root"} => \A q \in Procs : q[1] = p[1] => runid[q] # 0
      BY <2>1, <2>3 DEF Barriers
    <3> QED BY <3>1, <3>2
  <2> QED BY <2>1, <2>2, <2>3
<1>4. ASSUME NEW j \in Jobs, Launcher(j) PROVE Named'
  BY <1>4, LauncherMoves, SMTT(20)
<1>5. CASE UNCHANGED vars
  BY <1>5 DEF vars, files
<1> QED
  BY <1>1, <1>2, <1>3, <1>4, <1>5 DEF Next, Ended

LEMMA CreatorsKept == TypeOK /\ Roles /\ Together /\ Named /\ Creators /\ [Next]_vars => Creators'
<1> SUFFICES ASSUME TypeOK, Roles, Together, Named, Creators, [Next]_vars PROVE Creators'
  OBVIOUS
<1> USE ProcParts, JobAssumption DEF TypeOK, Creators, Root, Naming
<1>1. ASSUME NEW p \in Procs, Proc(p) PROVE Creators'
  <2>1. CASE MkName(p)
    BY <2>1 DEF MkName, Goto, files
  <2>2. CASE MkRun(p)
    <3>1. pc[p] = "file" /\ p[2] = 0 /\ p = <<p[1], 0>> /\ runid[p] \in Runs
      <4>1. pc[p] = "file"
        BY <2>2 DEF MkRun
      <4>2. p[2] = 0
        BY <4>1 DEF Roles
      <4>3. p = <<p[1], 0>>
        BY <4>2
      <4>4. runid[p] # 0 /\ runid[p] \in {0} \cup Runs
        BY <4>1 DEF Named
      <4> QED BY <4>1, <4>2, <4>3, <4>4
    <3>2. CASE creator[Run(p)] # "none"
      BY <2>2, <3>2 DEF MkRun, Goto, Exit
    <3>3. CASE creator[Run(p)] = "none"
      <4>1. /\ creator' = [creator EXCEPT ![runid[p]] = p[1]] /\ pc' = [pc EXCEPT ![p] = "files"]
            /\ runid' = runid
        BY <2>2, <3>3 DEF MkRun, Goto, Run
      <4>2. ASSUME NEW q \in Procs, q[1] = p[1] PROVE pc[q] \notin Naming /\ runid[q] \in 1 .. runid[p]
        <5>1. pc[q] \notin Naming
          BY <3>1, <4>2 DEF Together, Live, Building, Tagging, Finishing
        <5>2. ~(runid[p] < runid[q])
          BY <3>1, <3>3 DEF Named, Run
        <5>3. runid[q] \in {0} \cup Runs /\ runid[q] # 0
          BY <3>1, <4>2, ZenonT(40) DEF Named
        <5> QED BY <3>1, <5>1, <5>2, <5>3 DEF Runs
      <4>3. \A n \in Runs : creator[n] # p[1]
        BY <3>1
      <4>4. ASSUME NEW n \in Runs, NEW q \in Procs, creator'[n] = q[1], q[1] = p[1]
            PROVE  Root(q[1])' = n /\ pc'[<<q[1], 0>>] # "file" /\ pc'[q] \notin Naming /\ runid'[q] \in 1 .. n
        BY <3>1, <4>1, <4>2, <4>3, <4>4, ZenonT(40)
      <4>5. ASSUME NEW n \in Runs, NEW q \in Procs, creator'[n] = q[1], q[1] # p[1]
            PROVE  Root(q[1])' = n /\ pc'[<<q[1], 0>>] # "file" /\ pc'[q] \notin Naming /\ runid'[q] \in 1 .. n
        BY <3>1, <4>1, <4>5
      <4> QED BY <4>4, <4>5
    <3> QED BY <3>2, <3>3
  <2>3. CASE ~MkName(p) /\ ~MkRun(p)
    BY <1>1, <2>3 DEF Proc, MkRoot, MkFiles, Recv, SeeHost, MkHost, WtRankmap, Send, CloseRing, SetTag, MkRec, Goto, Exit, files
  <2> QED BY <2>1, <2>2, <2>3
<1>2. ASSUME NEW p \in Procs, Fail(p) PROVE Creators'
  BY <1>2 DEF Fail, Exit, Goto, files
<1>3. ASSUME NEW j \in Jobs, Barrier(j) PROVE Creators'
  <2>1. PICK b \in Barriers :
          /\ \A p \in Procs : p[1] = j => pc[p] = b /\ pc'[p] = After(p, b)
          /\ \A p \in Procs : p[1] # j => pc'[p] = pc[p]
    BY <1>3, BarrierMoves
  <2>2. UNCHANGED <<runid, creator>>
    BY <1>3, BarrierMoves
  <2>3. ASSUME NEW n \in Runs, NEW p \in Procs, creator'[n] = p[1]
        PROVE  Root(p[1])' = n /\ pc'[<<p[1], 0>>] # "file" /\ pc'[p] \notin Naming /\ runid'[p] \in 1 .. n
    <3>1. Root(p[1]) = n /\ pc[<<p[1], 0>>] # "file" /\ pc[p] \notin Naming /\ runid[p] \in 1 .. n
      BY <2>2, <2>3
    <3>2. <<p[1], 0>> \in Procs /\ <<p[1], 0>>[1] = p[1]
      OBVIOUS
    <3>3. CASE p[1] # j
      BY <2>1, <2>2, <3>1, <3>2, <3>3
    <3>4. CASE p[1] = j
      <4>1. pc[p] = b /\ b \notin {"b_root", "b_name"}
        <5>1. pc[p] = b /\ pc[<<p[1], 0>>] = b
          BY <2>1, <3>2, <3>4
        <5>2. ASSUME b = "b_name" PROVE FALSE
          BY <5>1, <5>2, <3>1
        <5> QED BY <5>1, <5>2, <3>1
      <4>2. After(p, b) \notin Naming /\ After(<<p[1], 0>>, b) # "file"
        BY <4>1 DEF After, Barriers
      <4> QED BY <2>1, <2>2, <3>1, <3>2, <3>4, <4>2
    <3> QED BY <3>3, <3>4
  <2> QED BY <2>3
<1>4. ASSUME NEW j \in Jobs, Launcher(j) PROVE Creators'
  <2>1. \A p \in Procs : pc'[p] = pc[p] \/ pc'[p] = "gone"
    BY <1>4, LauncherMoves
  <2>2. UNCHANGED <<runid, creator>>
    BY <1>4, LauncherMoves
  <2>3. \A p \in Procs : <<p[1], 0>> \in Procs
    OBVIOUS
  <2> QED BY <2>1, <2>2, <2>3
<1>5. CASE UNCHANGED vars
  BY <1>5 DEF vars, files
<1> QED
  BY <1>1, <1>2, <1>3, <1>4, <1>5 DEF Next, Ended

(* A run directory stays with its job.                                     *)
LEMMA OwnsKept ==
  ASSUME TypeOK, Creators, Named, Roles, [Next]_vars, NEW j \in Jobs, Owns(j)
  PROVE  Owns(j)' /\ Root(j)' = Root(j)
<1> USE ProcParts, JobAssumption DEF TypeOK, Owns, Root
<1>1. ASSUME NEW p \in Procs, Proc(p) PROVE Owns(j)' /\ Root(j)' = Root(j)
  <2>1. CASE MkName(p)
    BY <2>1 DEF MkName, Goto, files, Creators, Naming
  <2>2. CASE MkRun(p)
    BY <2>2 DEF MkRun, Goto, Exit, Run
  <2>3. CASE ~MkName(p) /\ ~MkRun(p)
    BY <1>1, <2>3 DEF Proc, MkRoot, MkFiles, Recv, SeeHost, MkHost, WtRankmap, Send, CloseRing, SetTag, MkRec, files
  <2> QED BY <2>1, <2>2, <2>3
<1>2. CASE UNCHANGED <<runid, creator>>
  BY <1>2
<1> QED
  BY <1>1, <1>2 DEF Next, Ended, Fail, Barrier, Launcher, vars, files

LEMMA RingKept == OwnInv /\ [Next]_vars => Ring'
<1> SUFFICES ASSUME OwnInv, [Next]_vars PROVE Ring'
  OBVIOUS
<1> USE DEF OwnInv
<1>1. ASSUME NEW p \in Procs, pc'[p] \in Past \/ p \in token' PROVE Owns(p[1])'
  <2> USE ProcParts, JobAssumption DEF TypeOK, Ring, Past, InRing, Tagging, Finishing
  <2>1. CASE pc[p] \in Past \/ p \in token
    BY <2>1, OwnsKept
  <2>2. CASE MkRun(p)
    <3>1. pc[p] = "file" /\ p[2] = 0 /\ runid[p] # 0
      BY <2>2 DEF MkRun, Roles, Named, Naming
    <3>2. p = <<p[1], 0>> /\ runid[p] \in Runs
      BY <3>1
    <3>3. token' = token /\ runid' = runid
      BY <2>2 DEF MkRun
    <3>4. CASE pc'[p] = "gone"
      BY <1>1, <2>1, <3>3, <3>4
    <3>5. CASE creator' = [creator EXCEPT ![runid[p]] = p[1]]
      BY <3>2, <3>3, <3>5 DEF Owns, Root
    <3> QED BY <2>2, <3>4, <3>5 DEF MkRun, Run, Goto, Exit
  <2>3. CASE pc[p] \notin Past /\ p \notin token /\ ~MkRun(p)
    <3>1. ASSUME NEW q \in Procs, Proc(q), pc'[p] \in Past, pc[p] \notin Past PROVE MkRun(p) \/ p \in token
      BY <3>1, <2>3 DEF Proc, MkRoot, MkName, MkRun, MkFiles, Recv, SeeHost, MkHost, WtRankmap, Send, CloseRing, SetTag, MkRec, Goto, Exit
    <3>2. ASSUME NEW q \in Procs, Proc(q), p \in token', p \notin token PROVE Owns(p[1])
      <4>1. Send(q) /\ p = NextRank(q) /\ q[1] = p[1]
        BY <3>2, NextRankType, SMTT(20) DEF Proc, MkRoot, MkName, MkRun, MkFiles, Recv, SeeHost, MkHost, WtRankmap, Send, CloseRing, SetTag, MkRec
      <4> QED BY <4>1 DEF Send
    <3>3. ASSUME NEW q \in Procs, Fail(q) PROVE FALSE
      BY <1>1, <2>3, <3>3 DEF Fail, Exit, Goto
    <3>4. ASSUME NEW j \in Jobs, Barrier(j) PROVE FALSE
      BY <1>1, <2>3, <3>4, BarrierMoves, ZenonT(40) DEF After, AfterName, Barriers
    <3>5. ASSUME NEW j \in Jobs, Launcher(j) PROVE FALSE
      BY <1>1, <2>3, <3>5, LauncherMoves
    <3>6. CASE UNCHANGED vars
      BY <1>1, <2>3, <3>6 DEF vars
    <3>7. CASE \E q \in Procs : Proc(q)
      BY <1>1, <2>3, <3>1, <3>2, <3>7, OwnsKept
    <3> QED BY <3>3, <3>4, <3>5, <3>6, <3>7 DEF Next, Ended
  <2> QED BY <2>1, <2>2, <2>3
<1>2. ASSUME NEW p \in Procs, p[2] # 0, pc'[p] \in InRing \/ p \in token',
             NEW q \in Procs, q[1] = p[1], q[2] < p[2]
      PROVE  pc'[q] \in Passed \cup {"gone"}
  <2> USE ProcParts DEF TypeOK, InRing, Passed, Tagging, Finishing
  <2>1. pc[q] \in Passed \cup {"gone"} => pc'[q] \in Passed \cup {"gone"}
    <3>1. ASSUME NEW r \in Procs, Proc(r), pc[q] \in Passed \cup {"gone"} PROVE pc'[q] \in Passed \cup {"gone"}
      BY <3>1 DEF Proc, MkRoot, MkName, MkRun, MkFiles, Recv, SeeHost, MkHost, WtRankmap, Send, CloseRing, SetTag, MkRec, Goto, Exit
    <3>2. ASSUME NEW r \in Procs, Fail(r), pc[q] \in Passed \cup {"gone"} PROVE pc'[q] \in Passed \cup {"gone"}
      BY <3>2 DEF Fail, Exit, Goto
    <3>3. ASSUME NEW j \in Jobs, Barrier(j), pc[q] \in Passed \cup {"gone"} PROVE pc'[q] \in Passed \cup {"gone"}
      BY <3>3, BarrierMoves DEF After, AfterName, Barriers
    <3>4. ASSUME NEW j \in Jobs, Launcher(j) PROVE pc'[q] \in Passed \cup {"gone"} \/ pc'[q] = pc[q]
      BY <3>4, LauncherMoves
    <3>5. UNCHANGED vars => pc'[q] = pc[q]
      BY DEF vars
    <3> QED BY <3>1, <3>2, <3>3, <3>4, <3>5 DEF Next, Ended
  <2>2. CASE pc[p] \in InRing \/ p \in token
    BY <1>2, <2>1, <2>2 DEF Ring
  <2>3. CASE pc[p] \notin InRing /\ p \notin token
    <3>1. ASSUME NEW r \in Procs, Proc(r), pc'[p] \in InRing PROVE FALSE
      BY <3>1, <2>3, <1>2 DEF Roles, Proc, MkRoot, MkName, MkRun, MkFiles, Recv, SeeHost, MkHost, WtRankmap, Send, CloseRing, SetTag, MkRec, Goto, Exit
    <3>2. ASSUME NEW r \in Procs, Proc(r), p \in token' PROVE pc'[q] \in Passed \cup {"gone"}
      <4>1. Send(r) /\ p = NextRank(r) /\ r[1] = p[1] /\ p[2] = r[2] + 1 /\ pc'[r] \in Passed /\ pc[r] = "send"
        BY <1>2, <2>3, <3>2, NextRankType DEF Proc, MkRoot, MkName, MkRun, MkFiles, Recv, SeeHost, MkHost, WtRankmap, Send, CloseRing, SetTag, MkRec, Goto
      <4>2. CASE q[2] = r[2]
        <5>1. q = <<q[1], q[2]>> /\ r = <<r[1], r[2]>>
          BY ProcParts
        <5>2. q = r
          BY <5>1, <4>1, <4>2, <1>2
        <5> QED BY <4>1, <5>2
      <4>3. CASE q[2] # r[2]
        <5>1. q[2] < r[2] /\ r[2] # 0
          BY <1>2, <4>1, <4>3
        <5> QED BY <1>2, <2>1, <4>1, <5>1 DEF Ring
      <4> QED BY <4>2, <4>3
    <3>3. ASSUME NEW r \in Procs, Fail(r) PROVE FALSE
      BY <1>2, <2>3, <3>3 DEF Fail, Exit, Goto
    <3>4. ASSUME NEW j \in Jobs, Barrier(j) PROVE FALSE
      BY <1>2, <2>3, <3>4, BarrierMoves DEF After, AfterName, Barriers
    <3>5. ASSUME NEW j \in Jobs, Launcher(j) PROVE FALSE
      BY <1>2, <2>3, <3>5, LauncherMoves
    <3>6. CASE UNCHANGED vars
      BY <1>2, <2>3, <3>6 DEF vars
    <3> QED BY <1>2, <3>1, <3>2, <3>3, <3>4, <3>5, <3>6 DEF Next, Ended
  <2> QED BY <2>2, <2>3
<1> QED
  BY <1>1, <1>2 DEF Ring
LEMMA InitOwn == Init => OwnInv
<1> SUFFICES ASSUME Init PROVE OwnInv
  OBVIOUS
<1>1. TypeOK
  <2>1. [n \in Runs |-> <<>>] \in [Runs -> Seq(Procs)]
    <3>1. <<>> \in Seq(Procs)
      OBVIOUS
    <3> QED BY <3>1
  <2>2. 0 \in 0 .. MaxFail
    BY JobAssumption
  <2> QED BY <2>1, <2>2 DEF Init, TypeOK, Steps, IOSteps, Barriers
<1>2. \A p \in Procs : pc[p] = (IF p[2] = 0 THEN "root" ELSE "b_root") /\ runid[p] = 0
  BY DEF Init
<1>3. Roles
  <2>1. \A p \in Procs : ~Mpi(p) => p[2] = 0
    BY ProcParts DEF Mpi
  <2> QED BY <1>2, <2>1 DEF Roles, Barriers
<1>4. Together
  BY <1>2 DEF Together, Naming
<1>5. Named
  BY <1>2 DEF Named, Naming, Runs
<1>6. Creators
  <2>1. \A n \in Runs, p \in Procs : creator[n] # p[1]
    BY ProcParts, JobAssumption DEF Init
  <2> QED BY <2>1 DEF Creators
<1>7. Ring
  BY <1>2 DEF Ring, Init, Past, InRing, Tagging, Finishing
<1> QED
  BY <1>1, <1>3, <1>4, <1>5, <1>6, <1>7 DEF OwnInv

LEMMA OwnNext == OwnInv /\ [Next]_vars => OwnInv'
  BY TypeKept, RolesKept, TogetherKept, NamedKept, CreatorsKept, RingKept DEF OwnInv

(* The types of all variables, at every step of every job.                 *)
THEOREM TypeCorrect == Spec => []TypeOK
<1>1. OwnInv => TypeOK
  BY DEF OwnInv
<1> QED
  BY InitOwn, OwnNext, <1>1, PTL DEF Spec

(* Of the jobs that race for a run directory, at most one goes on with it: *)
(* mkdir of run_<n> lets one rank 0 pass, and every other one has left.    *)
THEOREM OneOwnerHolds == Spec => []OneOwner
<1>1. ASSUME OwnInv PROVE OneOwner
  <2>1. SUFFICES ASSUME NEW j \in Jobs, NEW k \in Jobs, j # k,
                        pc[<<j, 0>>] \in {"commit", "done"}, pc[<<k, 0>>] \in {"commit", "done"}
                 PROVE  runid[<<j, 0>>] # runid[<<k, 0>>]
    BY DEF OneOwner
  <2>2. ASSUME NEW i \in Jobs, pc[<<i, 0>>] \in {"commit", "done"} PROVE Owns(i)
    <3>1. <<i, 0>> \in Procs /\ <<i, 0>>[1] = i
      BY ProcParts
    <3> QED BY <1>1, <2>2, <3>1 DEF OwnInv, Ring, Past, Finishing
  <2>3. Owns(j) /\ Owns(k)
    BY <2>1, <2>2
  <2> QED BY <2>1, <2>3 DEF Owns, Root
<1> QED
  BY InitOwn, OwnNext, <1>1, PTL DEF Spec
-----------------------------------------------------------------------------
(* What the job that owns a run has in it.                                 *)

(* Once its run is there, no rank of the job names another one.            *)
LEMMA OwnersNamed ==
  ASSUME OwnInv, NEW p \in Procs, Owns(p[1])
  PROVE  /\ Root(p[1]) \in Runs /\ creator[Root(p[1])] = p[1]
         /\ pc[p] \notin Naming /\ pc[<<p[1], 0>>] # "file"
         /\ runid[p] \in Runs
<1>1. runid[p] \in {0} \cup Runs
  BY DEF OwnInv, TypeOK
<1>2. Root(p[1]) \in Runs /\ creator[Root(p[1])] = p[1]
  BY DEF Owns
<1>3. pc[p] \notin Naming /\ pc[<<p[1], 0>>] # "file" /\ runid[p] \in 1 .. Root(p[1])
  BY <1>2 DEF OwnInv, Creators
<1> QED
  BY <1>1, <1>2, <1>3 DEF Runs

(* A row of an owner stays, unless rank 0 has the files to create yet.     *)
LEMMA RowStays ==
  ASSUME OwnInv, [Next]_vars, NEW p \in Procs, Owns(p[1]), pc[<<p[1], 0>>] # "files", RowThere(p)
  PROVE  RowThere(p)'
<1> DEFINE n == runid[p]
<1>1. /\ pc[p] \notin Naming /\ pc[<<p[1], 0>>] \notin {"file", "files"}
      /\ n \in Runs /\ TypeOK
  BY OwnersNamed DEF OwnInv
<1>2. ASSUME NEW q \in Procs, Proc(q) PROVE RowThere(p)'
  <2>1. runid'[p] = n
    BY <1>1, <1>2 DEF Naming, TypeOK, Proc, MkRoot, MkName, MkRun, MkFiles, Recv, SeeHost, MkHost, WtRankmap, Send, CloseRing, SetTag, MkRec
  <2>2. pc[q] \in {"file", "files"} => q[2] = 0 /\ q = <<q[1], q[2]>> /\ q[1] # p[1] /\ runid[q] \in Runs
    <3>1. SUFFICES ASSUME pc[q] \in {"file", "files"} PROVE q[2] = 0 /\ q = <<q[1], q[2]>> /\ q[1] # p[1] /\ runid[q] \in Runs
      OBVIOUS
    <3>2. q[2] = 0 /\ q = <<q[1], q[2]>>
      BY <3>1, ProcParts DEF OwnInv, Roles
    <3>3. runid[q] \in {0} \cup Runs /\ runid[q] # 0
      BY <3>1 DEF OwnInv, TypeOK, Named, Naming
    <3> QED BY <1>1, <3>1, <3>2, <3>3
  <2>3. SUFFICES ASSUME creator'[n] = p[1] PROVE \E i \in DOMAIN rankmap'[n] : rankmap'[n][i] = p
    BY <2>1 DEF RowThere
  <2>4. creator[n] = p[1]
    <3>1. CASE MkRun(q)
      <4>1. creator' = creator \/ creator' = [creator EXCEPT ![runid[q]] = q[1]]
        BY <3>1 DEF MkRun, Run
      <4> QED BY <1>1, <2>2, <2>3, <3>1, <4>1 DEF MkRun, TypeOK
    <3>2. CASE ~MkRun(q)
      BY <1>2, <2>3, <3>2 DEF Proc, MkRoot, MkName, MkFiles, Recv, SeeHost, MkHost, WtRankmap, Send, CloseRing, SetTag, MkRec, files
    <3> QED BY <3>1, <3>2
  <2>5. PICK i \in DOMAIN rankmap[n] : rankmap[n][i] = p
    BY <2>4 DEF RowThere
  <2>6. CASE MkFiles(q)
    <3>1. Owns(q[1]) /\ q = <<q[1], 0>> /\ q[1] # p[1]
      BY <2>2, <2>6 DEF MkFiles, OwnInv, Ring, Past
    <3>2. runid[q] # n
      BY <2>4, <3>1 DEF Owns, Root
    <3>3. rankmap'[n] = rankmap[n]
      BY <1>1, <2>6, <3>2 DEF MkFiles, Run, TypeOK
    <3> QED BY <2>5, <3>3
  <2>7. CASE WtRankmap(q)
    <3>1. rankmap'[n] = rankmap[n] \/ rankmap'[n] = Append(rankmap[n], q)
      BY <1>1, <2>7 DEF WtRankmap, Run, TypeOK
    <3>2. rankmap[n] \in Seq(Procs)
      BY <1>1 DEF TypeOK
    <3>3. i \in DOMAIN Append(rankmap[n], q) /\ Append(rankmap[n], q)[i] = rankmap[n][i]
      BY <2>5, <3>2
    <3> QED BY <2>5, <3>1, <3>3
  <2>8. CASE ~MkFiles(q) /\ ~WtRankmap(q)
    <3>1. rankmap' = rankmap
      BY <1>2, <2>8 DEF Proc, MkRoot, MkName, MkRun, Recv, SeeHost, MkHost, Send, CloseRing, SetTag, MkRec, files
    <3> QED BY <2>5, <3>1
  <2> QED BY <2>6, <2>7, <2>8
<1>3. CASE UNCHANGED <<runid, creator, rankmap>>
  BY <1>3 DEF RowThere
<1> QED
  BY <1>2, <1>3 DEF Next, Ended, Fail, Barrier, Launcher, vars, files

(* So does its host directory,                                             *)
LEMMA HostStays ==
  ASSUME OwnInv, [Next]_vars, NEW p \in Procs, Owns(p[1]), HostThere(p)
  PROVE  HostThere(p)'
<1>1. pc[p] \notin Naming /\ TypeOK
  BY OwnersNamed DEF OwnInv
<1>2. ASSUME NEW q \in Procs, Proc(q) PROVE runid'[p] = runid[p] /\ hostdirs \subseteq hostdirs'
  BY <1>1, <1>2 DEF Naming, TypeOK, Proc, MkRoot, MkName, MkRun, MkFiles, Recv, SeeHost, MkHost, WtRankmap, Send, CloseRing, SetTag, MkRec, files
<1>3. CASE UNCHANGED <<runid, hostdirs>>
  BY <1>3 DEF HostThere, Host
<1> QED
  BY <1>2, <1>3 DEF Next, Ended, Fail, Barrier, Launcher, vars, files, HostThere, Host

(* and its tags, which only its own rank 0 counts.                         *)
LEMMA TagsStay ==
  ASSUME OwnInv, [Next]_vars, NEW j \in Jobs, Owns(j), ~MkFiles(<<j, 0>>), ~SetTag(<<j, 0>>)
  PROVE  ctags'[Root(j)] = ctags[Root(j)]
<1>1. TypeOK /\ Root(j) \in Runs /\ creator[Root(j)] = j
  BY DEF OwnInv, Owns
<1>2. ASSUME NEW q \in Procs, MkFiles(q) \/ SetTag(q) PROVE ctags'[Root(j)] = ctags[Root(j)]
  <2>1. (MkFiles(q) \/ SetTag(q)) /\ Owns(q[1]) /\ q = <<q[1], q[2]>> /\ runid[q] \in Runs
    BY <1>2, ProcParts, OwnersNamed DEF MkFiles, SetTag, OwnInv, Ring, Past, Tagging
  <2>2. CASE q[2] = 0
    <3>1. q[1] # j
      BY <2>1, <2>2
    <3>2. runid[q] # Root(j)
      BY <1>1, <2>1, <2>2, <3>1 DEF Owns, Root
    <3> QED BY <1>1, <1>2, <2>1, <3>2 DEF MkFiles, SetTag, Run, TypeOK
  <2>3. CASE q[2] # 0
    <3>1. SetTag(q)
      BY <1>2, <2>3 DEF MkFiles, OwnInv, Roles
    <3> QED BY <1>1, <2>1, <2>3, <3>1 DEF SetTag, Run, TypeOK
  <2> QED BY <2>2, <2>3
<1>3. ASSUME NEW q \in Procs, Proc(q), ~(MkFiles(q) \/ SetTag(q)) PROVE ctags' = ctags
  BY <1>3 DEF Proc, MkRoot, MkName, MkRun, Recv, SeeHost, MkHost, WtRankmap, Send, CloseRing, MkRec, files
<1>4. CASE UNCHANGED ctags
  BY <1>4
<1> QED
  BY <1>2, <1>3, <1>4 DEF Next, Ended, Fail, Barrier, Launcher, vars, files
(* The moment the ranks of a job leave the ring: all of them are there.    *)
LEMMA Finished ==
  ASSUME OwnInv, [Next]_vars, NEW p \in Procs,
         pc'[p] \in Tagging \cup Finishing, pc[p] \notin Tagging \cup Finishing
  PROVE  \/ WtRankmap(p) /\ p[1] \in Serial
         \/ \A q \in Procs : q[1] = p[1] => pc[q] = "b_host"
<1> USE DEF Tagging, Finishing
<1>1. TypeOK /\ Roles
  BY DEF OwnInv
<1>2. ASSUME NEW q \in Procs, Proc(q) PROVE WtRankmap(p) /\ p[1] \in Serial
  BY <1>1, <1>2 DEF Roles, TypeOK, Mpi, Proc, MkRoot, MkName, MkRun, MkFiles, Recv, SeeHost, MkHost, WtRankmap, Send, CloseRing, SetTag, MkRec, Goto, Exit
<1>3. ASSUME NEW q \in Procs, Fail(q) PROVE FALSE
  BY <1>1, <1>3 DEF TypeOK, Fail, Exit, Goto
<1>4. ASSUME NEW j \in Jobs, Barrier(j) PROVE \A q \in Procs : q[1] = p[1] => pc[q] = "b_host"
  <2>1. PICK b \in Barriers :
          /\ \A q \in Procs : q[1] = j => pc[q] = b /\ pc'[q] = After(q, b)
          /\ \A q \in Procs : q[1] # j => pc'[q] = pc[q]
    BY <1>1, <1>4, BarrierMoves
  <2>2. p[1] = j /\ b = "b_host"
    BY <2>1 DEF After, AfterName, Barriers
  <2> QED BY <2>1, <2>2
<1>5. ASSUME NEW j \in Jobs, Launcher(j) PROVE FALSE
  BY <1>1, <1>5, LauncherMoves
<1>6. CASE UNCHANGED vars
  BY <1>6 DEF vars
<1> QED
  BY <1>2, <1>3, <1>4, <1>5, <1>6 DEF Next, Ended

(* Who gets behind the creation of the run has the run directory before.   *)
LEMMA OwnsBefore ==
  ASSUME OwnInv, [Next]_vars, NEW p \in Procs, pc'[p] \in InRing \cup Tagging \cup Finishing
  PROVE  Owns(p[1]) /\ Owns(p[1])' /\ Root(p[1])' = Root(p[1])
<1> USE DEF InRing, Tagging, Finishing
<1>1. TypeOK /\ Roles /\ p[1] \in Jobs
  BY ProcParts DEF OwnInv
<1>2. pc[p] \in Past \/ p \in token
  <2> USE DEF Past
  <2>1. ASSUME NEW q \in Procs, Proc(q) PROVE pc[p] \in Past \/ p \in token
    BY <1>1, <2>1 DEF TypeOK, Roles, Proc, MkRoot, MkName, MkRun, MkFiles, Recv, SeeHost, MkHost, WtRankmap, Send, CloseRing, SetTag, MkRec, Goto, Exit
  <2>2. ASSUME NEW q \in Procs, Fail(q) PROVE pc[p] \in Past
    BY <1>1, <2>2 DEF TypeOK, Fail, Exit, Goto
  <2>3. ASSUME NEW j \in Jobs, Barrier(j) PROVE pc[p] \in Past
    <3>1. PICK b \in Barriers :
            /\ \A q \in Procs : q[1] = j => pc[q] = b /\ pc'[q] = After(q, b)
            /\ \A q \in Procs : q[1] # j => pc'[q] = pc[q]
      BY <1>1, <2>3, BarrierMoves
    <3> QED BY <3>1 DEF After, AfterName, Barriers
  <2>4. ASSUME NEW j \in Jobs, Launcher(j) PROVE pc[p] \in Past
    BY <1>1, <2>4, LauncherMoves
  <2>5. CASE UNCHANGED vars
    BY <2>5 DEF vars
  <2> QED
    BY <2>1, <2>2, <2>3, <2>4, <2>5 DEF Next, Ended
<1>3. Owns(p[1])
  BY <1>2 DEF OwnInv, Ring
<1> QED
  BY <1>1, <1>3, OwnsKept DEF OwnInv

LEMMA TagsKept == OwnInv /\ Tags /\ [Next]_vars => Tags'
<1> DEFINE n(p) == Root(p[1])
<1> SUFFICES ASSUME OwnInv, Tags, [Next]_vars,
                    NEW p \in Procs, pc'[p] \in InRing \cup Tagging \cup Finishing
             PROVE  /\ p[2] = 0 /\ pc'[p] \in InRing => ctags'[n(p)] = 0
                    /\ p[2] = 0 /\ pc'[p] = "tag" => ctags'[n(p)] < NTags
                    /\ p[2] = 0 /\ pc'[p] = "b_tag" => ctags'[n(p)] <= NTags
                    /\ pc'[p] \in Finishing => ctags'[n(p)] = NTags
  <2>1. ASSUME NEW p \in Procs, OwnInv, [Next]_vars, pc'[p] \in InRing \cup Tagging \cup Finishing
        PROVE  Root(p[1])' = n(p)
    BY <2>1, OwnsBefore
  <2> QED BY <2>1 DEF Tags, Tagging
<1> DEFINE z == <<p[1], 0>>
<1> USE DEF InRing, Tagging, Finishing
<1>1. /\ TypeOK /\ Roles /\ p[1] \in Jobs /\ NTags \in Nat \ {0}
      /\ z \in Procs /\ z[1] = p[1] /\ z[2] = 0 /\ (p[2] = 0 => p = z)
  BY ProcParts, JobAssumption DEF OwnInv
<1>2. Owns(p[1]) /\ n(p) \in Runs /\ ctags[n(p)] \in Nat /\ runid[z] = n(p)
  BY <1>1, OwnsBefore DEF Owns, Root, TypeOK
<1>3. ASSUME p # z, pc'[p] = pc[p], pc[p] \in Finishing PROVE pc[z] \in Finishing \cup {"gone"}
  BY <1>1, <1>3 DEF OwnInv, Together, Live, Naming, Building
<1>4. CASE MkFiles(z)
  <2>1. pc[z] = "files" /\ ctags'[n(p)] = 0 /\ pc'[z] = "mkhost" /\ (p # z => pc'[p] = pc[p])
    BY <1>1, <1>2, <1>4 DEF MkFiles, Goto, Run, TypeOK
  <2> QED BY <1>1, <1>3, <2>1
<1>5. CASE SetTag(z)
  <2>1. /\ pc[z] = "tag" /\ ctags'[n(p)] = ctags[n(p)] + 1 /\ (p # z => pc'[p] = pc[p])
        /\ pc'[z] \in {"b_tag", "commit", "tag"}
        /\ pc'[z] = "commit" => ctags[n(p)] + 1 = NTags
        /\ pc'[z] = "tag" => ctags[n(p)] + 1 # NTags
    BY <1>1, <1>2, <1>5 DEF SetTag, Goto, Run, TypeOK
  <2>2. ctags[n(p)] < NTags
    BY <1>1, <2>1 DEF Tags
  <2>3. CASE p = z
    BY <1>1, <1>2, <2>1, <2>2, <2>3
  <2>4. CASE p # z
    BY <1>1, <1>3, <2>1, <2>4
  <2> QED BY <2>3, <2>4
<1>6. CASE ~MkFiles(z) /\ ~SetTag(z)
  <2>1. ctags'[n(p)] = ctags[n(p)]
    BY <1>1, <1>2, <1>6, TagsStay
  <2>2. CASE pc'[p] = pc[p]
    BY <2>1, <2>2 DEF Tags
  <2>3. ASSUME NEW q \in Procs, Proc(q), pc'[p] # pc[p]
        PROVE  /\ p[2] = 0 => \/ pc[p] \in InRing /\ pc'[p] \in InRing \cup {"tag"}
                              \/ pc[p] \in Finishing /\ pc'[p] \in Finishing
               /\ pc'[p] \in Finishing => pc[p] \in Finishing
    <3>1. p = q
      BY <1>1, <2>3 DEF TypeOK, Proc, MkRoot, MkName, MkRun, MkFiles, Recv, SeeHost, MkHost, WtRankmap, Send, CloseRing, SetTag, MkRec, Goto, Exit
    <3>2. p[2] = 0 => ~MkFiles(p) /\ ~SetTag(p)
      BY <1>1, <1>6
    <3>3. p[1] \in Serial => p[2] = 0
      BY ProcParts
    <3>4. CASE MkFiles(p) \/ SetTag(p)
      <4>1. p[2] # 0 /\ p[1] \notin Serial
        BY <3>2, <3>3, <3>4
      <4> QED BY <1>1, <3>4, <4>1 DEF TypeOK, MkFiles, SetTag, Mpi, Goto
    <3>5. CASE MkRoot(p) \/ MkName(p) \/ MkRun(p) \/ Recv(p)
      BY <1>1, <3>5 DEF TypeOK, Roles, MkRoot, MkName, MkRun, Recv, Goto, Exit
    <3>6. CASE SeeHost(p) \/ MkHost(p) \/ WtRankmap(p) \/ Send(p) \/ CloseRing(p) \/ MkRec(p)
      BY <1>1, <3>6 DEF TypeOK, SeeHost, MkHost, WtRankmap, Send, CloseRing, MkRec, Goto, Exit
    <3> QED BY <2>3, <3>1, <3>4, <3>5, <3>6 DEF Proc
  <2>4. ASSUME NEW q \in Procs, Fail(q), pc'[p] # pc[p] PROVE FALSE
    BY <1>1, <2>4 DEF TypeOK, Fail, Exit, Goto
  <2>5. ASSUME NEW j \in Jobs, Barrier(j), pc'[p] # pc[p]
        PROVE  \/ pc[p] \in InRing /\ pc'[p] = "tag"
               \/ pc'[p] = "tag" /\ ctags[n(p)] < NTags
               \/ pc'[p] = "b_end" /\ ctags[n(p)] = NTags
               \/ pc[p] \in Finishing /\ pc'[p] \in Finishing
    <3>1. PICK b \in Barriers :
            /\ \A q \in Procs : q[1] = j => pc[q] = b /\ pc'[q] = After(q, b)
            /\ \A q \in Procs : q[1] # j => pc'[q] = pc[q]
      BY <1>1, <2>5, BarrierMoves
    <3>2. pc[p] = b /\ pc'[p] = After(p, b) /\ pc[z] = b
      BY <1>1, <2>5, <3>1
    <3>3. b = "b_tag" => ctags[n(p)] <= NTags
      BY <1>1, <3>2 DEF Tags
    <3>4. CASE b = "b_tag"
      <4>1. pc'[p] = IF ctags[n(p)] < NTags THEN "tag" ELSE "b_end"
        BY <1>2, <3>2, <3>4 DEF After, Run
      <4> QED BY <1>1, <1>2, <3>3, <3>4, <4>1
    <3>5. CASE b # "b_tag"
      BY <3>2, <3>5 DEF After, AfterName, Barriers
    <3> QED BY <3>4, <3>5
  <2>6. ASSUME NEW j \in Jobs, Launcher(j), pc'[p] # pc[p] PROVE FALSE
    BY <1>1, <2>6, LauncherMoves
  <2>7. CASE UNCHANGED vars
    BY <2>2, <2>7 DEF vars
  <2>8. CASE \E q \in Procs : Proc(q)
    BY <1>1, <2>1, <2>2, <2>3, <2>8 DEF Tags
  <2>9. CASE \E j \in Jobs : Barrier(j)
    BY <1>1, <2>1, <2>2, <2>5, <2>9 DEF Tags
  <2> QED BY <2>2, <2>4, <2>6, <2>7, <2>8, <2>9 DEF Next, Ended
<1> QED
  BY <1>4, <1>5, <1>6
LEMMA HostDirsKept == OwnInv /\ HostDirs /\ [Next]_vars => HostDirs'
<1> SUFFICES ASSUME OwnInv, HostDirs, [Next]_vars PROVE HostDirs'
  OBVIOUS
<1>1. TypeOK /\ Roles /\ Together
  BY DEF OwnInv
<1>2. ASSUME NEW p \in Procs, pc'[p] \in {"row"} \cup Rowed PROVE HostThere(p)'
  <2> USE DEF Rowed
  <2>1. CASE pc[p] \in {"row"} \cup Rowed
    <3>1. HostThere(p)
      BY <2>1 DEF HostDirs
    <3> QED BY <1>2, <3>1, OwnsBefore, HostStays DEF InRing
  <2>2. CASE pc[p] \notin {"row"} \cup Rowed
    <3>1. ASSUME NEW q \in Procs, Proc(q) PROVE p = q /\ (SeeHost(p) \/ MkHost(p))
      <4>1. pc \in [Procs -> Steps]
        BY <1>1 DEF TypeOK
      <4>2. CASE SeeHost(q) \/ MkHost(q)
        <5>1. \E s : pc' = [pc EXCEPT ![q] = s]
          BY <4>2 DEF SeeHost, MkHost, Goto, Exit
        <5>2. p = q
          BY <1>2, <2>2, <4>1, <5>1
        <5> QED BY <4>2, <5>2
      <4>3. CASE MkRoot(q) \/ MkName(q) \/ MkRun(q) \/ MkFiles(q) \/ Recv(q)
        <5>1. \A s : pc' = [pc EXCEPT ![q] = s] => pc'[q] = s
          BY <4>1
        <5>2. (\E s : pc' = [pc EXCEPT ![q] = s]) => p = q
          BY <1>2, <2>2, <4>1
        <5>3. \E s \in {"b_root", "name", "b_name", "file", "gone", "files", "mkhost"} : pc' = [pc EXCEPT ![q] = s]
          <6>1. CASE MkRoot(q)
            BY <6>1 DEF MkRoot, Goto
          <6>2. CASE MkName(q)
            BY <6>2 DEF MkName, Goto
          <6>3. CASE MkRun(q) \/ MkFiles(q) \/ Recv(q)
            BY <6>3 DEF MkRun, MkFiles, Recv, Goto, Exit
          <6> QED BY <4>3, <6>1, <6>2, <6>3
        <5> QED BY <1>2, <5>1, <5>2, <5>3 DEF Tagging, Finishing
      <4>4. CASE WtRankmap(q) \/ Send(q) \/ CloseRing(q) \/ SetTag(q) \/ MkRec(q)
        <5>1. pc[q] \in {"row"} \cup Rowed /\ \E s : pc' = [pc EXCEPT ![q] = s]
          BY <4>4 DEF WtRankmap, Send, CloseRing, SetTag, MkRec, Goto, Exit, Tagging, Finishing
        <5> QED BY <1>2, <2>2, <4>1, <5>1
      <4> QED BY ONLY <3>1, <4>2, <4>3, <4>4 DEF Proc
    <3>2. ASSUME NEW q \in Procs, Proc(q) PROVE HostThere(p)'
      BY <1>1, <1>2, <2>2, <3>1, <3>2 DEF SeeHost, MkHost, HostThere, Run, Host, Goto, Exit, TypeOK, files, Tagging, Finishing
    <3>3. ASSUME NEW q \in Procs, Fail(q) PROVE FALSE
      BY <1>1, <1>2, <2>2, <3>3 DEF TypeOK, Fail, Exit, Goto, Tagging, Finishing
    <3>4. ASSUME NEW j \in Jobs, Barrier(j) PROVE FALSE
      BY <1>1, <1>2, <2>2, <3>4, BarrierMoves DEF After, AfterName, Barriers, Tagging, Finishing
    <3>5. ASSUME NEW j \in Jobs, Launcher(j) PROVE FALSE
      BY <1>1, <1>2, <2>2, <3>5, LauncherMoves DEF Tagging, Finishing
    <3>6. ~ UNCHANGED vars
      BY <1>2, <2>2 DEF vars
    <3> QED BY <3>2, <3>3, <3>4, <3>5, <3>6 DEF Next, Ended
  <2> QED BY <2>1, <2>2
<1>3. ASSUME NEW p \in Procs, pc'[p] \in Tagging \cup Finishing, NEW q \in Procs, q[1] = p[1]
      PROVE  HostThere(q)'
  <2>1. CASE p[1] \in Serial
    <3>1. p = q
      BY <1>3, <2>1, ProcParts
    <3> QED BY <1>2, <1>3, <3>1 DEF Rowed
  <2>2. CASE p[1] \notin Serial
    <3>1. HostThere(q)
      <4>1. CASE pc[p] \in Tagging \cup Finishing
        BY <1>3, <4>1 DEF HostDirs
      <4>2. CASE pc[q] = "b_host"
        BY <4>2 DEF HostDirs, Rowed
      <4> QED BY <1>3, <2>2, <4>1, <4>2, Finished
    <3>2. Owns(q[1])
      BY <1>3, OwnsBefore
    <3> QED BY <3>1, <3>2, HostStays
  <2> QED BY <2>1, <2>2
<1> QED
  BY <1>2, <1>3 DEF HostDirs
LEMMA RowsKept == OwnInv /\ Rows /\ [Next]_vars => Rows'
<1> SUFFICES ASSUME OwnInv, Rows, [Next]_vars PROVE Rows'
  OBVIOUS
<1>1. TypeOK /\ Roles /\ Together /\ Ring
  BY DEF OwnInv
(* Rank 0 of a job in the ring or behind it has created the files.         *)
<1>2. ASSUME NEW p \in Procs, pc[p] \in Rowed \/ (p[2] # 0 /\ (pc[p] \in InRing \/ p \in token))
      PROVE  Owns(p[1]) /\ pc[<<p[1], 0>>] # "files"
  <2> DEFINE z == <<p[1], 0>>
  <2>1. z \in Procs /\ z[1] = p[1] /\ z[2] = 0 /\ (p[2] = 0 => p = z) /\ p[2] \in Nat
    BY ProcParts
  <2>2. Owns(p[1])
    BY <1>1, <1>2 DEF Ring, Past, Rowed, InRing
  <2>3. CASE pc[p] \in Tagging \cup Finishing
    BY <1>1, <2>1, <2>2, <2>3 DEF Together, Live, Tagging, Finishing, Naming, Building
  <2>4. CASE pc[p] \in Rowed /\ p = z
    BY <2>2, <2>4 DEF Rowed, Tagging, Finishing
  <2>5. CASE p[2] # 0 /\ (pc[p] \in InRing \/ p \in token)
    <3>1. pc[z] \in Passed \cup {"gone"}
      BY <1>1, <2>1, <2>5 DEF Ring
    <3> QED BY <2>2, <3>1 DEF Passed, Tagging, Finishing
  <2> QED BY <1>2, <2>1, <2>3, <2>4, <2>5 DEF Rowed, InRing
<1>3. ASSUME NEW p \in Procs, pc'[p] \in Rowed PROVE RowThere(p)'
  <2> USE DEF Rowed
  <2>1. CASE pc[p] \in Rowed
    BY <1>2, <2>1, RowStays DEF Rows
  <2>2. CASE pc[p] \notin Rowed
    <3>1. ASSUME NEW q \in Procs, Proc(q) PROVE p = q /\ WtRankmap(p)
      BY <1>1, <1>3, <2>2, <3>1 DEF TypeOK, Roles, Tagging, Finishing, Proc, MkRoot, MkName, MkRun, MkFiles, Recv, SeeHost, MkHost, WtRankmap, Send, CloseRing, SetTag, MkRec, Goto, Exit
    <3>2. ASSUME WtRankmap(p) PROVE RowThere(p)'
      <4>1. runid[p] \in Runs
        BY <1>1, <3>2, OwnersNamed DEF WtRankmap, Ring, Past, InRing
      <4>2. rankmap'[runid[p]] = Append(rankmap[runid[p]], p) /\ runid' = runid /\ rankmap[runid[p]] \in Seq(Procs)
        BY <1>1, <3>2, <4>1 DEF WtRankmap, Run, TypeOK
      <4> DEFINE m == rankmap[runid[p]]
      <4>3. Len(m) + 1 \in DOMAIN Append(m, p) /\ Append(m, p)[Len(m) + 1] = p
        BY <4>2
      <4> QED BY <4>2, <4>3 DEF RowThere
    <3>3. ASSUME NEW q \in Procs, Fail(q) PROVE FALSE
      BY <1>1, <1>3, <2>2, <3>3 DEF TypeOK, Fail, Exit, Goto, Tagging, Finishing
    <3>4. ASSUME NEW j \in Jobs, Barrier(j) PROVE FALSE
      BY <1>1, <1>3, <2>2, <3>4, BarrierMoves DEF After, AfterName, Barriers, Tagging, Finishing
    <3>5. ASSUME NEW j \in Jobs, Launcher(j) PROVE FALSE
      BY <1>1, <1>3, <2>2, <3>5, LauncherMoves DEF Tagging, Finishing
    <3>6. ~ UNCHANGED vars
      BY <1>3, <2>2 DEF vars
    <3> QED BY <3>1, <3>2, <3>3, <3>4, <3>5, <3>6 DEF Next, Ended
  <2> QED BY <2>1, <2>2
<1>4. ASSUME NEW p \in Procs, p[2] # 0, pc'[p] \in InRing \/ p \in token',
             NEW q \in Procs, q[1] = p[1], q[2] < p[2]
      PROVE  RowThere(q)'
  <2>1. CASE pc[p] \in InRing \/ p \in token
    <3>1. RowThere(q)
      BY <1>4, <2>1 DEF Rows
    <3>2. Owns(q[1]) /\ pc[<<q[1], 0>>] # "files"
      BY <1>2, <1>4, <2>1
    <3> QED BY <3>1, <3>2, RowStays
  <2>2. CASE pc[p] \notin InRing /\ p \notin token
    <3>1. PICK r \in Procs : Send(r) /\ p = NextRank(r) /\ NRank[r[1]] > 1
      <4>1. ASSUME NEW r \in Procs, Proc(r) PROVE Send(r) /\ p = NextRank(r) /\ NRank[r[1]] > 1
        <5>1. pc'[p] \notin InRing
          BY <1>1, <1>4, <2>2, <4>1 DEF InRing, TypeOK, Roles, Proc, MkRoot, MkName, MkRun, MkFiles, Recv, SeeHost, MkHost, WtRankmap, Send, CloseRing, SetTag, MkRec, Goto, Exit
        <5> QED BY <1>4, <2>2, <4>1, <5>1 DEF Proc, MkRoot, MkName, MkRun, MkFiles, Recv, SeeHost, MkHost, WtRankmap, Send, CloseRing, SetTag, MkRec
      <4>2. ASSUME NEW r \in Procs, Fail(r) PROVE FALSE
        BY <1>1, <1>4, <2>2, <4>2 DEF InRing, TypeOK, Fail, Exit, Goto
      <4>3. ASSUME NEW j \in Jobs, Barrier(j) PROVE FALSE
        BY <1>1, <1>4, <2>2, <4>3, BarrierMoves DEF InRing, After, AfterName, Barriers
      <4>4. ASSUME NEW j \in Jobs, Launcher(j) PROVE FALSE
        BY <1>1, <1>4, <2>2, <4>4, LauncherMoves DEF InRing
      <4>5. ~ UNCHANGED vars
        BY <1>4, <2>2 DEF vars
      <4> QED BY <4>1, <4>2, <4>3, <4>4, <4>5 DEF Next, Ended
    <3>2. r[1] = p[1] /\ p[2] = r[2] + 1 /\ pc[r] = "send"
      BY <1>4, <3>1, NextRankType DEF Send
    <3>3. Owns(r[1]) /\ pc[<<r[1], 0>>] # "files"
      BY <1>2, <3>2 DEF Rowed
    <3>4. CASE q = r
      BY <3>2, <3>3, <3>4, RowStays DEF Rows, Rowed
    <3>5. CASE q # r
      <4>1. q[2] # r[2]
        BY <1>4, <3>2, <3>5, ProcParts
      <4>2. q[2] \in Nat /\ r[2] \in Nat
        BY ProcParts
      <4>3. q[2] < r[2] /\ r[2] # 0
        BY <1>4, <3>2, <4>1, <4>2
      <4>4. RowThere(q)
        BY <1>4, <3>2, <4>3 DEF Rows, InRing
      <4> QED BY <1>4, <3>2, <3>3, <4>4, RowStays
    <3> QED BY <3>4, <3>5
  <2> QED BY <2>1, <2>2
<1>5. ASSUME NEW p \in Procs, pc'[p] \in Tagging \cup Finishing, NEW q \in Procs, q[1] = p[1]
      PROVE  RowThere(q)'
  <2>1. CASE p[1] \in Serial
    <3>1. p = q
      BY <1>5, <2>1, ProcParts
    <3> QED BY <1>3, <1>5, <3>1 DEF Rowed
  <2>2. CASE p[1] \notin Serial
    <3>1. CASE pc[p] \in Tagging \cup Finishing
      <4>1. RowThere(q) /\ Owns(p[1]) /\ pc[<<p[1], 0>>] # "files"
        BY <1>2, <1>5, <3>1 DEF Rows, Rowed
      <4> QED BY <1>5, <4>1, RowStays
    <3>2. CASE pc[q] = "b_host"
      BY <1>2, <3>2, RowStays DEF Rows, Rowed
    <3> QED BY <1>5, <2>2, <3>1, <3>2, Finished
  <2> QED BY <2>1, <2>2
(* A row is appended behind the rows of all ranks before.                  *)
<1> DEFINE Early == (Naming \cup Building) \ Rowed
<1>6. ASSUME NEW q \in Procs, WtRankmap(q), NEW p \in Procs, p[1] = q[1], pc'[p] \in Early
      PROVE  q[2] < p[2]
  <2>1. pc[q] = "row" /\ pc'[q] \in Rowed /\ p # q
    BY <1>1, <1>6 DEF WtRankmap, Goto, TypeOK, Rowed, Tagging
  <2>2. pc'[p] = pc[p] /\ p[2] # q[2] /\ p[2] \in Nat /\ q[2] \in Nat
    BY <1>1, <1>6, <2>1, ProcParts DEF WtRankmap, Goto, TypeOK
  <2>3. SUFFICES ASSUME p[2] < q[2] PROVE FALSE
    BY <2>2
  <2>4. pc[p] \in Passed \cup {"gone"}
    BY <1>1, <1>6, <2>1, <2>2, <2>3 DEF Ring, InRing
  <2> QED BY <1>6, <2>2, <2>4 DEF Passed, Rowed, Naming, Building, Tagging, Finishing
<1>7. ASSUME NEW p \in Procs, pc'[p] \in Early PROVE pc[p] \in Early
  <2> USE DEF Naming, Building, Rowed, Tagging, Finishing
  <2>1. ASSUME NEW q \in Procs, Proc(q) PROVE pc[p] \in Early
    BY <1>1, <1>7, <2>1 DEF TypeOK, Roles, Proc, MkRoot, MkName, MkRun, MkFiles, Recv, SeeHost, MkHost, WtRankmap, Send, CloseRing, SetTag, MkRec, Goto, Exit
  <2>2. ASSUME NEW q \in Procs, Fail(q) PROVE pc[p] \in Early
    BY <1>1, <1>7, <2>2 DEF TypeOK, Fail, Exit, Goto
  <2>3. ASSUME NEW j \in Jobs, Barrier(j) PROVE pc[p] \in Early
    BY <1>1, <1>7, <2>3, BarrierMoves DEF After, AfterName, Barriers
  <2>4. ASSUME NEW j \in Jobs, Launcher(j) PROVE pc[p] \in Early
    BY <1>1, <1>7, <2>4, LauncherMoves
  <2>5. CASE UNCHANGED vars
    BY <1>7, <2>5 DEF vars
  <2> QED BY <2>1, <2>2, <2>3, <2>4, <2>5 DEF Next, Ended
<1>8. ASSUME NEW n \in Runs
      PROVE  \/ rankmap'[n] \in {rankmap[n], <<>>}
             \/ \E q \in Procs : WtRankmap(q) /\ rankmap'[n] = Append(rankmap[n], q)
  <2>1. ASSUME NEW q \in Procs, MkFiles(q) PROVE rankmap'[n] \in {rankmap[n], <<>>}
    BY <1>1, <2>1 DEF MkFiles, TypeOK
  <2>2. ASSUME NEW q \in Procs, WtRankmap(q) PROVE rankmap'[n] \in {rankmap[n], Append(rankmap[n], q)}
    BY <1>1, <2>2 DEF WtRankmap, TypeOK
  <2>3. ASSUME NEW q \in Procs, Proc(q), ~MkFiles(q), ~WtRankmap(q) PROVE rankmap' = rankmap
    BY <2>3 DEF Proc, MkRoot, MkName, MkRun, Recv, SeeHost, MkHost, Send, CloseRing, SetTag, MkRec, files
  <2>4. CASE UNCHANGED rankmap
    BY <2>4
  <2> QED BY <2>1, <2>2, <2>3, <2>4 DEF Next, Ended, Fail, Barrier, Launcher, vars, files
<1>9. ASSUME NEW p \in Procs, NEW n \in Runs, NEW i \in DOMAIN rankmap'[n],
             rankmap'[n][i][1] = p[1], pc'[p] \in Early
      PROVE  rankmap'[n][i][2] < p[2]
  <2>1. ASSUME NEW k \in DOMAIN rankmap[n], rankmap[n][k][1] = p[1] PROVE rankmap[n][k][2] < p[2]
    BY <1>7, <1>9, <2>1 DEF Rows
  <2>2. CASE rankmap'[n] \in {rankmap[n], <<>>}
    BY <1>9, <2>1, <2>2
  <2>3. ASSUME NEW q \in Procs, WtRankmap(q), rankmap'[n] = Append(rankmap[n], q)
        PROVE  rankmap'[n][i][2] < p[2]
    <3> DEFINE m == rankmap[n]
    <3>1. m \in Seq(Procs)
      BY <1>1 DEF TypeOK
    <3>2. (i \in DOMAIN m /\ Append(m, q)[i] = m[i]) \/ Append(m, q)[i] = q
      BY <3>1, <2>3, <1>9
    <3> QED BY <1>6, <1>9, <2>1, <2>3, <3>2
  <2> QED BY <1>8, <2>2, <2>3
<1>10. ASSUME NEW n \in Runs, NEW a \in DOMAIN rankmap'[n], NEW b \in DOMAIN rankmap'[n],
              a < b, rankmap'[n][a][1] = rankmap'[n][b][1]
       PROVE  rankmap'[n][a][2] < rankmap'[n][b][2]
  <2>1. CASE rankmap'[n] \in {rankmap[n], <<>>}
    BY <1>10, <2>1 DEF Rows
  <2>2. ASSUME NEW q \in Procs, WtRankmap(q), rankmap'[n] = Append(rankmap[n], q)
        PROVE  rankmap'[n][a][2] < rankmap'[n][b][2]
    <3> DEFINE m == rankmap[n]
    <3>1. m \in Seq(Procs)
      BY <1>1 DEF TypeOK
    <3>2. a \in DOMAIN m /\ Append(m, q)[a] = m[a]
      BY <3>1, <2>2, <1>10
    <3>3. (b \in DOMAIN m /\ Append(m, q)[b] = m[b]) \/ Append(m, q)[b] = q
      BY <3>1, <2>2, <1>10
    <3>4. CASE b \in DOMAIN m /\ Append(m, q)[b] = m[b]
      BY <1>10, <2>2, <3>2, <3>4 DEF Rows
    <3>5. CASE Append(m, q)[b] = q
      <4>1. pc[q] \in Early
        BY <2>2 DEF WtRankmap, Naming, Building, Rowed, Tagging, Finishing
      <4>2. m[a][1] = q[1]
        BY <1>10, <2>2, <3>2, <3>5
      <4>3. m[a][2] < q[2]
        BY <3>2, <4>1, <4>2 DEF Rows
      <4> QED BY <2>2, <3>2, <3>5, <4>3
    <3> QED BY <3>3, <3>4, <3>5
  <2> QED BY <1>8, <2>1, <2>2
<1> QED
  BY <1>3, <1>4, <1>5, <1>9, <1>10 DEF Rows
LEMMA InitTree == Init => TreeInv
<1> SUFFICES ASSUME Init PROVE TreeInv
  OBVIOUS
<1>1. \A p \in Procs : pc[p] \in {"root", "b_root"} /\ token = {}
  BY DEF Init
<1>2. \A n \in Runs : DOMAIN rankmap[n] = {}
  BY DEF Init
<1>3. Rows
  BY <1>1, <1>2 DEF Rows, Rowed, InRing, Tagging, Finishing
<1>4. HostDirs /\ Tags
  BY <1>1 DEF HostDirs, Tags, Rowed, InRing, Tagging, Finishing
<1> QED
  BY <1>3, <1>4, InitOwn DEF TreeInv

LEMMA TreeNext == TreeInv /\ [Next]_vars => TreeInv'
  BY OwnNext, RowsKept, HostDirsKept, TagsKept DEF TreeInv

(* No process works in a directory that is not there, and whoever leaves   *)
(* phmpi_init finds the whole tree of the run: the rows of all ranks in    *)
(* rank order, all host directories and all predefined tags.               *)
THEOREM Complete == Spec => []InitComplete
<1>1. ASSUME TreeInv PROVE InitComplete
  <2>1. TypeOK /\ OwnInv /\ JobAssumption
    BY <1>1, JobAssumption DEF TreeInv, OwnInv
  <2>2. ASSUME NEW p \in Procs,
               pc[p] \in {"mkhost", "mkdir", "row", "send", "close", "tag", "commit", "done"}
        PROVE  creator[Run(p)] # "none"
    <3> DEFINE z == <<p[1], 0>>
    <3>1. Owns(p[1]) /\ p[1] \in Jobs /\ z \in Procs
      BY <2>1, <2>2, ProcParts DEF OwnInv, Ring, Past, InRing, Tagging, Finishing
    <3>2. Root(p[1]) \in Runs /\ creator[Root(p[1])] = p[1] /\ runid[z] = Root(p[1])
      BY <3>1 DEF Owns, Root
    <3>3. runid[p] \in 1 .. Root(p[1])
      BY <2>1, <3>2 DEF OwnInv, Creators
    <3>4. CASE runid[p] = Root(p[1])
      BY <2>1, <3>1, <3>2, <3>4 DEF Run, JobAssumption
    <3>5. CASE runid[p] # Root(p[1])
      <4>1. runid[p] \in Runs /\ runid[p] < runid[z]
        BY <2>1, <3>2, <3>3, <3>5, FS_CardinalityType DEF Runs, JobAssumption
      <4> QED BY <2>1, <3>1, <4>1 DEF OwnInv, Named, Run
    <3> QED BY <3>4, <3>5
  <2>3. ASSUME NEW j \in Jobs, Ready(j), Agree(j)
        PROVE  /\ RanksInOrder(j, runid[<<j, 0>>])
               /\ \A r \in Ranks(j) : <<runid[<<j, 0>>], HostOf[r]>> \in hostdirs
               /\ ctags[runid[<<j, 0>>]] = NTags
    <3> DEFINE n == runid[<<j, 0>>]
    <3>1. PICK t \in Ranks(j) : pc[<<j, t>>] \in {"commit", "done"}
      BY <2>3 DEF Ready
    <3> DEFINE p == <<j, t>>
    <3>2. p \in Procs /\ p[1] = j /\ pc[p] \in Finishing
      BY <3>1, ProcParts DEF Finishing
    <3>3. Owns(j) /\ Root(j) = n
      BY <2>1, <3>2 DEF OwnInv, Ring, Past, Root
    <3>4. n \in Runs /\ creator[n] = j
      BY <3>3 DEF Owns
    <3>5. ASSUME NEW r \in Ranks(j)
          PROVE  /\ \E i \in DOMAIN rankmap[n] : rankmap[n][i] = <<j, r>>
                 /\ <<n, HostOf[r]>> \in hostdirs
      <4>1. <<j, r>> \in Procs /\ runid[<<j, r>>] = n
        BY <2>3, ProcParts DEF Agree
      <4>2. RowThere(<<j, r>>) /\ HostThere(<<j, r>>)
        BY <1>1, <3>2, <4>1 DEF TreeInv, Rows, HostDirs
      <4> QED BY <3>4, <4>1, <4>2 DEF RowThere, HostThere, Host
    <3>6. ASSUME NEW a \in DOMAIN rankmap[n], NEW b \in DOMAIN rankmap[n],
                 rankmap[n][a][1] = j, rankmap[n][b][1] = j, a < b
          PROVE  rankmap[n][a][2] < rankmap[n][b][2]
      BY <1>1, <3>4, <3>6 DEF TreeInv, Rows
    <3>7. RanksInOrder(j, n)
      <4>1. ASSUME NEW r \in Ranks(j)
            PROVE  \E i \in {k \in DOMAIN rankmap[n] : rankmap[n][k][1] = j} : rankmap[n][i] = <<j, r>>
        <5>1. PICK i \in DOMAIN rankmap[n] : rankmap[n][i] = <<j, r>>
          BY <3>5
        <5>2. rankmap[n][i][1] = j
          BY <5>1
        <5> QED BY <5>1, <5>2
      <4> QED BY <3>6, <4>1 DEF RanksInOrder
    <3>8. ctags[n] = NTags
      BY <1>1, <3>2, <3>3 DEF TreeInv, Tags
    <3> QED BY <3>5, <3>7, <3>8
  <2> QED BY <2>2, <2>3 DEF InitComplete
<1> QED
  BY InitTree, TreeNext, <1>1, PTL DEF Spec

-----------------------------------------------------------------------------
(* A job that no other job disturbs.                                       *)

LEMMA InitAlone == Init => AloneInv
<1> SUFFICES ASSUME Init PROVE AloneInv
  OBVIOUS
<1>1. \A p \in Procs : pc[p] \in {"root", "b_root"} /\ runid[p] = 0
  BY DEF Init
<1> QED
  BY <1>1 DEF AloneInv, Live

LEMMA AloneKept == OwnInv /\ AloneInv /\ [Next]_vars => AloneInv'
<1> SUFFICES ASSUME OwnInv, AloneInv, [Next]_vars,
                    NEW p \in Procs, Alone(p[1])'
             PROVE  /\ runid'[p] \in {0, 1}
                    /\ pc'[p] = "mkdir" => ~HostThere(p)'
                    /\ fails' = 0 /\ (p[1] \in Serial \/ NRank[p[1]] > 1) => pc'[p] # "gone"
  BY DEF AloneInv, Live
<1>1. /\ TypeOK /\ Roles /\ p[1] \in Jobs /\ "none" \notin Jobs
      /\ \A q \in Procs : q[1] \in Jobs /\ q = <<q[1], q[2]>> /\ q[2] \in Nat
  BY ProcParts, JobAssumption DEF OwnInv
(* What stands in a run stays there.                                       *)
<1>2. Alone(p[1])
  <2>1. ASSUME NEW q \in Procs, Proc(q), NEW n \in Runs PROVE creator[n] = "none" \/ creator'[n] = creator[n]
    <3>1. CASE MkRun(q)
      BY <1>1, <3>1 DEF MkRun, TypeOK, Run
    <3>2. CASE ~MkRun(q)
      BY <2>1, <3>2 DEF Proc, MkRoot, MkName, MkFiles, Recv, SeeHost, MkHost, WtRankmap, Send, CloseRing, SetTag, MkRec, files
    <3> QED BY <3>1, <3>2
  <2>2. CASE UNCHANGED creator
    BY <2>2 DEF Alone
  <2> QED BY <2>1, <2>2 DEF Next, Ended, Fail, Barrier, Launcher, vars, files, Alone
<1>3. /\ runid[p] \in {0, 1}
      /\ pc[p] = "mkdir" => ~HostThere(p)
      /\ fails = 0 /\ (p[1] \in Serial \/ NRank[p[1]] > 1) => pc[p] # "gone"
  BY <1>2 DEF AloneInv, Live
<1>4. ASSUME NEW q \in Procs, Proc(q)
      PROVE  /\ runid'[p] \in {0, 1}
             /\ pc'[p] = "mkdir" => ~HostThere(p)'
             /\ fails' = 0 /\ (p[1] \in Serial \/ NRank[p[1]] > 1) => pc'[p] # "gone"
  <2>1. runid'[p] \in {0, 1}
    <3>1. CASE MkName(p)
      <4>1. FreeRun \in Runs /\ \A m \in Runs : m < FreeRun => creator[m] # "none"
        BY <3>1, FreeRunThere DEF MkName, OwnInv
      <4>2. \A n \in Runs : creator[n] # p[1]
        BY <3>1 DEF MkName, OwnInv, Creators, Naming
      <4>3. \A n \in Runs : creator[n] = "none"
        BY <1>2, <4>2 DEF Alone
      <4>4. FreeRun = 1
        BY <4>1, <4>3, FS_CardinalityType, JobAssumption DEF Runs
      <4> QED BY <1>1, <3>1, <4>4 DEF MkName, TypeOK
    <3>2. CASE ~MkName(p)
      <4>1. runid'[p] = runid[p]
        BY <1>1, <1>4, <3>2 DEF TypeOK, Proc, MkRoot, MkName, MkRun, MkFiles, Recv, SeeHost, MkHost, WtRankmap, Send, CloseRing, SetTag, MkRec
      <4> QED BY <1>3, <4>1
    <3> QED BY <3>1, <3>2
  <2>2. ASSUME pc'[p] = "mkdir" PROVE ~HostThere(p)'
    <3>1. CASE pc[p] # "mkdir"
      <4>1. SeeHost(p) /\ p = q
        BY <1>1, <1>4, <2>2, <3>1 DEF TypeOK, Proc, MkRoot, MkName, MkRun, MkFiles, Recv, SeeHost, MkHost, WtRankmap, Send, CloseRing, SetTag, MkRec, Goto, Exit
      <4> QED BY <1>1, <2>2, <4>1 DEF SeeHost, Goto, HostThere, Run, Host, files, TypeOK
    <3>2. CASE pc[p] = "mkdir"
      <4>1. ~HostThere(p)
        BY <1>3, <3>2
      <4>2. Owns(p[1])
        BY <3>2 DEF OwnInv, Ring, Past, InRing
      <4>3. runid'[p] = runid[p]
        BY <1>1, <1>4, <3>2 DEF TypeOK, Proc, MkRoot, MkName, MkRun, MkFiles, Recv, SeeHost, MkHost, WtRankmap, Send, CloseRing, SetTag, MkRec
      <4>4. CASE MkHost(q)
        <5>1. p # q
          BY <1>1, <2>2, <4>4 DEF MkHost, Goto, Exit, TypeOK
        <5>2. Owns(q[1]) /\ pc[q] = "mkdir"
          BY <4>4 DEF MkHost, OwnInv, Ring, Past, InRing
        <5>3. q[1] = p[1]
          BY <1>1, <1>2, <5>2 DEF Owns, Alone
        <5>4. q[2] # p[2]
          BY <1>1, <5>1, <5>3
        <5>5. ASSUME NEW a \in Procs, NEW b \in Procs, a[1] = b[1], a[2] < b[2], pc[a] = "mkdir", pc[b] = "mkdir"
              PROVE  FALSE
          <6>1. b[2] # 0
            BY <1>1, <5>5
          <6> QED BY <5>5, <6>1 DEF OwnInv, Ring, InRing, Passed, Tagging, Finishing
        <5> QED BY <1>1, <3>2, <5>2, <5>3, <5>4, <5>5
      <4>5. CASE ~MkHost(q)
        <5>1. hostdirs' = hostdirs
          BY <1>4, <4>5 DEF Proc, MkRoot, MkName, MkRun, MkFiles, Recv, SeeHost, WtRankmap, Send, CloseRing, SetTag, MkRec, files
        <5> QED BY <4>1, <4>3, <5>1 DEF HostThere, Host
      <4> QED BY <4>4, <4>5
    <3> QED BY <3>1, <3>2
  <2>3. ASSUME fails' = 0, p[1] \in Serial \/ NRank[p[1]] > 1, pc'[p] = "gone" PROVE FALSE
    <3>1. fails = 0 /\ pc[p] # "gone"
      BY <1>3, <1>4, <2>3 DEF Proc, MkRoot, MkName, MkRun, MkFiles, Recv, SeeHost, MkHost, WtRankmap, Send, CloseRing, SetTag, MkRec
    <3>2. p = q /\ (MkRun(p) \/ MkHost(p) \/ Send(p))
      BY <1>1, <1>4, <2>3, <3>1 DEF TypeOK, Proc, MkRoot, MkName, MkRun, MkFiles, Recv, SeeHost, MkHost, WtRankmap, Send, CloseRing, SetTag, MkRec, Goto, Exit
    <3>3. CASE MkRun(p)
      <4>1. pc[p] = "file" /\ p[2] = 0 /\ creator[runid[p]] # "none"
        BY <1>1, <2>3, <3>3 DEF MkRun, Roles, Run, Goto, Exit, TypeOK
      <4>2. runid[p] \in Runs
        BY <1>1, <4>1 DEF OwnInv, Named, Naming, TypeOK
      <4>3. creator[runid[p]] = p[1]
        BY <1>2, <4>1, <4>2 DEF Alone
      <4>4. pc[<<p[1], 0>>] # "file"
        BY <4>2, <4>3 DEF OwnInv, Creators
      <4> QED BY <1>1, <4>1, <4>4
    <3>4. CASE MkHost(p)
      BY <1>1, <1>3, <2>3, <3>4 DEF MkHost, HostThere, Run, Host, Goto, TypeOK
    <3>5. CASE Send(p)
      <4>1. NRank[p[1]] = 1 /\ p[1] \notin Serial
        BY <1>1, <2>3, <3>5 DEF Send, Roles, Mpi, Goto, TypeOK
      <4> QED BY <2>3, <4>1
    <3> QED BY <3>2, <3>3, <3>4, <3>5
  <2> QED BY <2>1, <2>2, <2>3
<1>5. ASSUME NEW q \in Procs, Fail(q)
      PROVE  /\ runid'[p] \in {0, 1}
             /\ pc'[p] = "mkdir" => ~HostThere(p)'
             /\ fails' # 0
  BY <1>1, <1>3, <1>5 DEF Fail, Exit, Goto, TypeOK, HostThere, Host, files
<1>6. ASSUME NEW j \in Jobs, Barrier(j)
      PROVE  runid'[p] = runid[p] /\ hostdirs' = hostdirs /\ fails' = fails /\ (pc'[p] = pc[p] \/ pc'[p] \notin {"mkdir", "gone"})
  <2>1. PICK b \in Barriers :
          /\ \A q \in Procs : q[1] = j => pc[q] = b /\ pc'[q] = After(q, b)
          /\ \A q \in Procs : q[1] # j => pc'[q] = pc[q]
    BY <1>1, <1>6, BarrierMoves
  <2>2. UNCHANGED <<runid, hostdirs, fails>>
    BY <1>1, <1>6, BarrierMoves
  <2> QED BY <2>1, <2>2 DEF After, AfterName, Barriers
<1>7. ASSUME NEW j \in Jobs, Launcher(j)
      PROVE  /\ runid'[p] = runid[p] /\ hostdirs' = hostdirs /\ fails' = fails
             /\ pc'[p] = pc[p] \/ (pc'[p] = "gone" /\ \E q \in Procs : q[1] = p[1] /\ pc[q] = "gone")
  <2>1. PICK q \in Procs : q[1] = j /\ pc[q] = "gone"
    BY <1>7 DEF Launcher
  <2> QED BY <1>1, <1>7, <2>1, LauncherMoves
<1>8. \A q \in Procs : q[1] = p[1] /\ fails = 0 /\ (p[1] \in Serial \/ NRank[p[1]] > 1) => pc[q] # "gone"
  BY <1>2 DEF AloneInv, Live
<1>9. CASE UNCHANGED vars
  BY <1>3, <1>9 DEF vars, files, HostThere, Host
<1>10. CASE \E j \in Jobs : Barrier(j)
  BY <1>3, <1>6, <1>10 DEF HostThere, Host
<1>11. CASE \E j \in Jobs : Launcher(j)
  BY <1>3, <1>7, <1>8, <1>11 DEF HostThere, Host
<1> QED
  BY <1>4, <1>5, <1>9, <1>10, <1>11 DEF Next, Ended

(* No process of a job that no other one disturbs meets EEXIST on a run or *)
(* host directory: its ranks agree on the run, and it loses none without a *)
(* failing call.                                                           *)
THEOREM UndisturbedHolds == Spec => []Undisturbed
<1>1. ASSUME OwnInv, AloneInv PROVE Undisturbed
  <2>1. SUFFICES ASSUME NEW j \in Jobs, Alone(j)
                 PROVE  /\ Ready(j) => Agree(j)
                        /\ fails = 0 /\ (j \in Serial \/ NRank[j] > 1) => \A r \in Ranks(j) : pc[<<j, r>>] # "gone"
    BY DEF Undisturbed, Alone
  <2>2. ASSUME NEW r \in Ranks(j)
        PROVE  <<j, r>> \in Procs /\ runid[<<j, r>>] \in {0, 1} /\ (fails = 0 /\ (j \in Serial \/ NRank[j] > 1) => pc[<<j, r>>] # "gone")
    <3>1. <<j, r>> \in Procs /\ <<j, r>>[1] = j
      BY ProcParts
    <3> QED BY <1>1, <2>1, <3>1 DEF AloneInv, Live
  <2>3. ASSUME Ready(j) PROVE Agree(j)
    <3>1. PICK t \in Ranks(j) : pc[<<j, t>>] \in {"commit", "done"}
      BY <2>3 DEF Ready
    <3>2. \A r \in Ranks(j) : runid[<<j, r>>] # 0
      BY <1>1, <2>2, <3>1 DEF OwnInv, Named, Naming
    <3>3. 0 \in Ranks(j)
      BY ProcParts
    <3> QED BY <2>2, <3>2, <3>3 DEF Agree
  <2> QED BY <2>2, <2>3
<1>2. Init => OwnInv /\ AloneInv
  BY InitOwn, InitAlone
<1>3. OwnInv /\ AloneInv /\ [Next]_vars => OwnInv' /\ AloneInv'
  BY OwnNext, AloneKept
<1> QED
  BY <1>1, <1>2, <1>3, PTL DEF Spec
=============================================================================
