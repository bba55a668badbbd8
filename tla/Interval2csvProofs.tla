------------------------- MODULE Interval2csvProofs -------------------------
(***************************************************************************)
(* Theorems about the interval tool for every number of ranks, files and   *)
(* failures, and whatever the files contain.                               *)
(***************************************************************************)
EXTENDS Interval2csv, SequenceTheorems, FiniteSetTheorems, TLAPS

Parts == [rank : Int, nth : Nat, part : {1, 2}]
Typed ==
  /\ cmd \in [np : Sizes, nf : Counts, eager : BOOLEAN, args : BOOLEAN]
  /\ pc \in [AllRanks -> RankSteps] /\ inbar \in [AllRanks -> BOOLEAN]
  /\ bar \in [AllRanks -> Nat] /\ bcast \in BOOLEAN /\ dest \in 0 .. cmd.np
  /\ jobs \in [AllRanks -> Seq(Seq(FileNos))] /\ files \in [AllRanks -> Seq(FileNos)]
  /\ count \in [AllRanks -> Seq(0 .. cmd.nf)] /\ nextjob \in [AllRanks -> 0 .. cmd.nf]
  /\ nth \in [AllRanks -> Nat \ {0}] /\ tok \in [AllRanks -> Nat]
  /\ all \in Seq(Parts) /\ fails \in 0 .. MaxFail

(* The steps before the loop over the files, and those of rank 0 that have *)
(* the header behind them.                                                 *)
BeforeTell == {"map", "deal", "dealt", "main", "args", "dir", "calc", "head", "tell"}
Early == BeforeTell \cup {"told"}
Looping == {"loop", "token", "append", "finish"}
Headed == {"tell", "told"} \cup Looping

(* How many barriers a rank has behind it, and how many files.             *)
Passed(p) ==
  CASE p \in {"map", "deal", "dealt"} -> {0}
    [] p = "main" -> {1}
    [] p \in {"args", "dir"} -> {2}
    [] p \in {"calc", "head", "tell", "told"} -> IF cmd.args THEN {3} ELSE {2}
    [] p \in Looping -> IF cmd.args THEN {4} ELSE {3}
    [] p = "failed" -> IF cmd.args THEN {3, 4} ELSE {2, 3}
    [] OTHER -> 0 .. 5
Sites == {"dealt", "main", "dir", "told", "finish", "failed"}
FitIn(r, p, in, b, n, l) ==
  /\ p # "none" /\ b <= 5 /\ (p = "dir" => cmd.args)
  /\ IF in THEN b - 1 \in Passed(p) ELSE b \in Passed(p)
  /\ in => p \in Sites \cup {"killed"}
  /\ p \in Early => n = 1
  /\ p \in {"deal", "head"} => r = 0
  /\ n <= l + 1 /\ (p \in {"token", "append"} => n <= l)
  /\ l <= cmd.nf
PlaceOf(r) == FitIn(r, pc[r], inbar[r], bar[r], nth[r], Len(files[r]))

(* At most one message of a kind is under way to a rank.                   *)
LinkOf(r) ==
  /\ r >= dest => jobs[r] = <<>>
  /\ jobs[r] = <<>> \/ jobs[r] = <<Slice(r)>>
  /\ Len(count[r]) <= 1
  /\ r < LastRank /\ pc[r + 1] \in BeforeTell => count[r] = <<>>

(* A rank that the job does not have.                                      *)
Absent(r) ==
  bar[r] = 0 /\ jobs[r] = <<>> /\ count[r] = <<>> /\ files[r] = <<>> /\ nth[r] = 1 /\ tok[r] = 0

(* A token stands for a file that the rank before has written and this one *)
(* has not.                                                                *)
Here(r) == IF pc[r] = "append" THEN 1 ELSE 0
TokensOf(r) ==
  /\ nth[r] <= nth[0]
  /\ IF r = 0 THEN tok[r] = 0 ELSE tok[r] + nth[r] + Here(r) <= nth[r - 1]

LogInv ==
  /\ pc[0] \in Headed => all # <<>> /\ all[1] = Header
  /\ \A b \in DOMAIN all : all[b].rank >= 0 => pc[0] \notin Early
  /\ \A r \in Ranks : \A n \in 1 .. nth[r] - 1 : \E b \in DOMAIN all : all[b] = Part(r, n, 2)

CtlInv ==
  Typed /\ (\A r \in Ranks : PlaceOf(r) /\ LinkOf(r)) /\ \A r \in AllRanks \ Ranks : Absent(r)
TokInv == CtlInv /\ \A r \in Ranks : TokensOf(r)

-----------------------------------------------------------------------------
LEMMA MaxSize == Max(Sizes) \in Sizes /\ \A n \in Sizes : n <= Max(Sizes)
<1>1. \E n \in Sizes : \A m \in Sizes : n >= m
  BY SizeAssumption
<1>2. Max(Sizes) \in Sizes /\ \A n \in Sizes : Max(Sizes) >= n
  BY <1>1 DEF Max
<1> QED BY <1>2, SizeAssumption

LEMMA Division ==
  ASSUME NEW a \in Nat, NEW b \in Nat \ {0}
  PROVE  a \div b \in Nat /\ a % b \in 0 .. b - 1 /\ a = b * (a \div b) + (a % b)
  BY Z3

(* Products grow with their factors.                                       *)
LEMMA Product ==
  ASSUME NEW a \in Nat, NEW b \in Nat, NEW c \in Nat, a <= b
  PROVE  a * c <= b * c /\ a * c \in Nat /\ b * c \in Nat
  BY Z3

LEMMA Numbers ==
  ASSUME Typed
  PROVE  /\ cmd.np \in Nat \ {0} /\ cmd.nf \in Nat \ {0}
         /\ Ranks \subseteq AllRanks /\ Ranks \subseteq Nat /\ 0 \in Ranks /\ LastRank \in Ranks
         /\ \A r \in Ranks : r <= LastRank /\ (r # 0 => r - 1 \in Ranks) /\ (r < LastRank => r + 1 \in Ranks)
         /\ Mod \in 0 .. cmd.np - 1 /\ Quot \in Nat /\ cmd.nf = cmd.np * Quot + Mod
<1>1. cmd.np \in Sizes /\ cmd.nf \in Counts
  BY DEF Typed
<1>2. cmd.np \in Nat \ {0} /\ cmd.nf \in Nat \ {0} /\ cmd.np <= Max(Sizes) /\ Max(Sizes) \in Nat
  BY <1>1, MaxSize, SizeAssumption
<1>3. Mod \in 0 .. cmd.np - 1 /\ Quot \in Nat /\ cmd.nf = cmd.np * Quot + Mod
  BY <1>2, Division DEF Mod, Quot
<1> QED BY <1>2, <1>3 DEF Ranks, AllRanks, LastRank

(* Where the slice of a rank starts and how long it is.                    *)
Size(r) == IF r < Mod THEN Quot + 1 ELSE Quot
Offset(r) == IF r < Mod THEN r * (Quot + 1) ELSE Mod * (Quot + 1) + (r - Mod) * Quot

LEMMA SliceIs ==
  ASSUME Typed, NEW r \in Ranks
  PROVE  /\ Slice(r) = [k \in 1 .. Size(r) |-> Offset(r) + k]
         /\ Size(r) \in Nat /\ Offset(r) \in Nat /\ Offset(r) + Size(r) <= cmd.nf
<1>1. /\ cmd.np \in Nat \ {0} /\ r \in Nat /\ r <= cmd.np - 1 /\ Mod \in Nat /\ Mod <= cmd.np - 1 /\ Quot \in Nat
      /\ cmd.nf = cmd.np * Quot + Mod
  BY Numbers DEF Ranks
<1>2. Slice(r) = [k \in 1 .. Size(r) |-> Offset(r) + k]
  BY <1>1 DEF Slice, Size, Offset
<1>3. cmd.nf = Mod * (Quot + 1) + (cmd.np - Mod) * Quot
  BY <1>1, Z3
<1>4. CASE r < Mod
  <2>1. (r + 1) * (Quot + 1) <= Mod * (Quot + 1) /\ r * (Quot + 1) \in Nat /\ Mod * (Quot + 1) \in Nat
    BY <1>1, <1>4, Product
  <2>2. (cmd.np - Mod) * Quot \in Nat
    BY <1>1, Product
  <2>3. (r + 1) * (Quot + 1) = r * (Quot + 1) + (Quot + 1)
    BY <1>1, Z3
  <2>4. Offset(r) = r * (Quot + 1) /\ Size(r) = Quot + 1
    BY <1>4 DEF Offset, Size
  <2> DEFINE a == r * (Quot + 1)  b == (r + 1) * (Quot + 1)  c == Mod * (Quot + 1)  e == (cmd.np - Mod) * Quot
  <2>5. a \in Nat /\ c \in Nat /\ e \in Nat /\ b <= c /\ b = a + (Quot + 1) /\ cmd.nf = c + e
    BY <1>3, <2>1, <2>2, <2>3
  <2>6. Offset(r) = a /\ Size(r) = Quot + 1
    BY <2>4
  <2> HIDE DEF a, b, c, e
  <2>7. Offset(r) \in Nat /\ Offset(r) + Size(r) <= cmd.nf
    BY <1>1, <2>5, <2>6
  <2> QED BY <1>1, <1>2, <2>6, <2>7
<1>5. CASE ~(r < Mod)
  <2>1. r - Mod \in Nat /\ r - Mod + 1 <= cmd.np - Mod /\ cmd.np - Mod \in Nat
    BY <1>1, <1>5
  <2>2. (r - Mod + 1) * Quot <= (cmd.np - Mod) * Quot /\ (r - Mod) * Quot \in Nat /\ (cmd.np - Mod) * Quot \in Nat
    BY <1>1, <2>1, Product
  <2>3. (r - Mod + 1) * Quot = (r - Mod) * Quot + Quot
    BY <1>1, <2>1, Z3
  <2>4. Mod * (Quot + 1) \in Nat
    BY <1>1, Product
  <2>5. Offset(r) = Mod * (Quot + 1) + (r - Mod) * Quot /\ Size(r) = Quot
    BY <1>5 DEF Offset, Size
  <2> DEFINE a == Mod * (Quot + 1)  b == (r - Mod) * Quot  c == (cmd.np - Mod) * Quot
  <2>6. b + Quot <= c
    BY <2>2, <2>3
  <2>7. a \in Nat /\ b \in Nat /\ c \in Nat /\ Offset(r) = a + b /\ cmd.nf = a + c
    BY <1>3, <2>2, <2>4, <2>5
  <2> HIDE DEF a, b, c
  <2>8. Offset(r) \in Nat /\ Offset(r) + Quot <= cmd.nf
    BY <1>1, <2>6, <2>7
  <2> QED BY <1>1, <1>2, <2>5, <2>8
<1> QED BY <1>4, <1>5

(* A list of files is one, and has no more files than there are.           *)
LEMMA Lists ==
  ASSUME Typed
  PROVE  /\ \A r \in Ranks : /\ Slice(r) \in Seq(FileNos) /\ Len(Slice(r)) = Size(r)
                             /\ Len(Slice(r)) <= cmd.nf
         /\ [k \in 1 .. NFiles(0) |-> k] = Slice(0) /\ NFiles(0) = Size(0)
<1>1. ASSUME NEW r \in Ranks PROVE Slice(r) \in Seq(FileNos) /\ Len(Slice(r)) = Size(r) /\ Len(Slice(r)) <= cmd.nf
  <2>1. /\ Slice(r) = [k \in 1 .. Size(r) |-> Offset(r) + k]
        /\ Size(r) \in Nat /\ Offset(r) \in Nat /\ Offset(r) + Size(r) <= cmd.nf
    BY <1>1, SliceIs
  <2>2. \A k \in 1 .. Size(r) : Offset(r) + k \in FileNos
    <3>1. cmd.nf \in Nat
      BY Numbers
    <3> QED BY <2>1, <3>1 DEF FileNos
  <2>3. Len(Slice(r)) = Size(r) /\ Size(r) <= cmd.nf
    BY <2>1, Numbers
  <2> QED BY <2>1, <2>2, <2>3
<1>2. 0 \in Ranks /\ Mod \in Nat /\ Quot \in Nat
  BY Numbers
<1>3. NFiles(0) = Size(0) /\ Offset(0) = 0
  <2>1. CASE 0 < Mod
    BY <1>2, <2>1 DEF NFiles, Size, Offset
  <2>2. CASE ~(0 < Mod)
    <3>1. Mod = 0
      BY <1>2, <2>2
    <3> QED BY <1>2, <2>2, <3>1 DEF NFiles, Size, Offset
  <2> QED BY <2>1, <2>2
<1>4. Slice(0) = [k \in 1 .. NFiles(0) |-> 0 + k]
  BY <1>2, <1>3, SliceIs
<1>5. [k \in 1 .. NFiles(0) |-> 0 + k] = [k \in 1 .. NFiles(0) |-> k]
  <2>1. \A k \in 1 .. NFiles(0) : 0 + k = k
    BY <1>2, <1>3 DEF Size
  <2> QED BY <2>1
<1> QED BY <1>1, <1>3, <1>4, <1>5

-----------------------------------------------------------------------------
(* One step of one rank.                                                   *)
Done(r) ==
  \/ r = 0 /\ (ReadMap \/ Deal \/ WriteHead)
  \/ RecvJobs(r) \/ InitArg(r) \/ Enter(r) \/ Leave(r) \/ OpenFirst(r) \/ Tell(r)
  \/ Convert(r) \/ TakeToken(r) \/ PassToken(r) \/ EndLoop(r) \/ Launcher(r)

LEMMA NextDone == Next => \E r \in Ranks : Done(r)
  BY DEF Next, Rank, Done

LEMMA Barriers == BarrierSites = Sites
  BY DEF BarrierSites, AfterBarrier, Sites

LEMMA AfterIs ==
  ASSUME NEW r
  PROVE  /\ AfterBarrier(r)["dealt"] = "main" /\ AfterBarrier(r)["main"] = "args"
         /\ AfterBarrier(r)["dir"] = "calc" /\ AfterBarrier(r)["told"] = "loop"
         /\ AfterBarrier(r)["finish"] = "final" /\ AfterBarrier(r)["failed"] \in {"exit", "final"}
  BY DEF AfterBarrier

(* What a step of a rank leaves alone.                                     *)
LEMMA StepFrame ==
  ASSUME Typed, NEW r \in Ranks, Done(r)
  PROVE  /\ cmd' = cmd
         /\ \A q \in AllRanks \ {r} :
              /\ pc'[q] = pc[q] /\ inbar'[q] = inbar[q] /\ bar'[q] = bar[q]
              /\ nth'[q] = nth[q] /\ files'[q] = files[q] /\ nextjob'[q] = nextjob[q]
<1> USE Numbers DEF Typed, Goto, links, outs
<1>1. CASE r = 0 /\ (ReadMap \/ Deal \/ WriteHead)
  BY <1>1 DEF ReadMap, Deal, WriteHead
<1>2. CASE RecvJobs(r) \/ InitArg(r) \/ Enter(r) \/ Leave(r) \/ OpenFirst(r)
  BY <1>2 DEF RecvJobs, InitArg, Enter, Leave, OpenFirst
<1>3. CASE Tell(r)
  BY <1>3 DEF Tell
<1>4. CASE Convert(r)
  BY <1>4, Zenon DEF Convert
<1>5. CASE TakeToken(r) \/ EndLoop(r) \/ Launcher(r)
  BY <1>5 DEF TakeToken, EndLoop, Launcher
<1>6. CASE PassToken(r)
  BY <1>6 DEF PassToken
<1> QED BY <1>1, <1>2, <1>3, <1>4, <1>5, <1>6 DEF Done

(* A pass of the loop without what it writes.                              *)
LEMMA ConvertIs ==
  ASSUME Typed, NEW r \in Ranks, Convert(r)
  PROVE  /\ pc[r] = "loop" /\ nth[r] <= Len(files[r]) /\ Sent(r)
         /\ \E step \in {"token", "exit", "failed"} :
              pc' = [pc EXCEPT ![r] = step] /\ (step = "token" => fails' = fails)
         /\ UNCHANGED <<cmd, inbar, bar, dest, files, nextjob, nth, links, all>>
         /\ fails' \in 0 .. MaxFail
         /\ fails' = fails \/ fails' = fails + 1
<1>1. \/ pc' = [pc EXCEPT ![r] = "token"] /\ fails' = fails
      \/ pc' = [pc EXCEPT ![r] = "exit"] /\ Fail
      \/ pc' = [pc EXCEPT ![r] = "failed"] /\ Fail
  BY Zenon DEF Convert, Goto
<1>2. /\ pc[r] = "loop" /\ nth[r] <= Len(files[r]) /\ Sent(r)
      /\ UNCHANGED <<cmd, inbar, bar, dest, files, nextjob, nth, links, all>>
  BY DEF Convert
<1>3. Fail => fails' \in 0 .. MaxFail /\ fails' = fails + 1
  BY SizeAssumption DEF Fail, Typed
<1>4. fails \in 0 .. MaxFail
  BY DEF Typed
<1> QED BY <1>1, <1>2, <1>3, <1>4

-----------------------------------------------------------------------------
(* Types.                                                                  *)

LEMMA MayFail ==
  ASSUME Typed
  PROVE  /\ Fail => fails' \in 0 .. MaxFail
         /\ 0 \in 0 .. MaxFail
  BY SizeAssumption DEF Fail, Typed

LEMMA StepsAre ==
  RankSteps = {"none", "map", "deal", "args", "calc", "head", "tell", "loop", "token", "append", "exit",
               "final", "killed", "dealt", "main", "dir", "told", "finish", "failed"}
  BY Barriers DEF RankSteps, Sites

LEMMA Update ==
  ASSUME NEW A, NEW B, NEW f \in [A -> B], NEW a \in A, NEW v \in B
  PROVE  [f EXCEPT ![a] = v] \in [A -> B]
  OBVIOUS

LEMMA GotoTyped ==
  ASSUME Typed, NEW r \in Ranks, NEW step \in RankSteps, pc' = [pc EXCEPT ![r] = step]
  PROVE  pc' \in [AllRanks -> RankSteps]
<1>1. pc \in [AllRanks -> RankSteps] /\ r \in AllRanks
  BY Numbers DEF Typed
<1> QED BY <1>1

LEMMA TypedKept ==
  ASSUME CtlInv, NEW r \in Ranks, Done(r)
  PROVE  Typed'
<1>0. Typed /\ PlaceOf(r)
  BY DEF CtlInv
<1>1. /\ r \in AllRanks /\ 0 \in AllRanks /\ 0 \in Ranks /\ cmd.nf \in Nat \ {0} /\ cmd.np \in Nat \ {0}
      /\ Ranks \subseteq AllRanks /\ (r # 0 => r - 1 \in AllRanks) /\ (r < LastRank => r + 1 \in AllRanks)
  BY <1>0, Numbers
<1>2. Len(files[r]) \in 0 .. cmd.nf
  BY <1>0, <1>1 DEF PlaceOf, FitIn, Typed
<1>3. FileNos' = FileNos /\ cmd' = cmd
  BY <1>0, StepFrame DEF FileNos
<1>4. CASE r = 0 /\ ReadMap
  <2>1. Slice(0) \in Seq(FileNos) /\ [k \in 1 .. NFiles(0) |-> k] = Slice(0)
    BY <1>0, <1>1, Lists
  <2>2. files' \in [AllRanks -> Seq(FileNos)]
    <3>1. files \in [AllRanks -> Seq(FileNos)]
      BY <1>0 DEF Typed
    <3>2. files' = [files EXCEPT ![0] = Slice(0)] \/ files' = files
      BY <1>4, <2>1 DEF ReadMap
    <3> QED BY <1>1, <2>1, <3>1, <3>2, Update
  <2>3. fails' \in 0 .. MaxFail
    BY <1>0, <1>4, MayFail DEF ReadMap, Typed
  <2>4. pc' \in [AllRanks -> RankSteps]
    BY <1>0, <1>1, <1>4, GotoTyped, StepsAre DEF ReadMap, Goto
  <2> QED BY <1>0, <1>3, <1>4, <2>2, <2>3, <2>4 DEF ReadMap, Typed, outs
<1>5. CASE r = 0 /\ Deal
  <2>1. CASE dest < cmd.np
    <3>1. dest \in Ranks /\ dest + 1 \in 0 .. cmd.np
      <4>1. dest \in 0 .. cmd.np
        BY <1>0 DEF Typed
      <4> QED BY <1>1, <2>1, <4>1 DEF Ranks
    <3>2. Slice(dest) \in Seq(FileNos) /\ dest \in AllRanks
      BY <1>0, <1>1, <3>1, Lists
    <3>3. \A S, x, y : x \in Seq(S) /\ y \in S => Append(x, y) \in Seq(S)
      BY AppendProperties
    <3>4. Append(jobs[dest], Slice(dest)) \in Seq(Seq(FileNos))
      BY <1>0, <3>2, <3>3 DEF Typed
    <3>5. jobs' \in [AllRanks -> Seq(Seq(FileNos))]
      BY <1>0, <1>5, <2>1, <3>2, <3>4 DEF Deal, Typed
    <3> QED BY <1>0, <1>3, <1>5, <2>1, <3>1, <3>5 DEF Deal, Typed, outs
  <2>2. CASE ~(dest < cmd.np)
    <3>1. pc' \in [AllRanks -> RankSteps]
      BY <1>0, <1>1, <1>5, <2>2, GotoTyped, StepsAre DEF Deal, Goto
    <3> QED BY <1>0, <1>3, <1>5, <2>2, <3>1 DEF Deal, Typed, outs
  <2> QED BY <2>1, <2>2
<1>6. CASE r = 0 /\ WriteHead
  <2>1. <<Header>> \in Seq(Parts)
    BY DEF Header, Part, Parts
  <2>2. all' \in Seq(Parts)
    BY <1>0, <1>6, <2>1 DEF WriteHead, Typed
  <2>3. fails' \in 0 .. MaxFail
    BY <1>0, <1>6, MayFail DEF WriteHead, Typed
  <2>4. pc' \in [AllRanks -> RankSteps]
    BY <1>0, <1>1, <1>6, GotoTyped, StepsAre DEF WriteHead, Goto
  <2> QED BY <1>0, <1>3, <1>6, <2>2, <2>3, <2>4 DEF WriteHead, Typed, links
<1>7. CASE RecvJobs(r)
  <2>1. Head(jobs[r]) \in Seq(FileNos) /\ Tail(jobs[r]) \in Seq(Seq(FileNos))
    <3>1. \A S, x : x \in Seq(S) /\ x # <<>> => Head(x) \in S /\ Tail(x) \in Seq(S)
      BY HeadTailProperties
    <3> QED BY <1>0, <1>1, <1>7, <3>1 DEF RecvJobs, Typed
  <2>2. jobs' \in [AllRanks -> Seq(Seq(FileNos))] /\ files' \in [AllRanks -> Seq(FileNos)]
    BY <1>0, <1>1, <1>7, <2>1 DEF RecvJobs, Typed
  <2>3. pc' \in [AllRanks -> RankSteps]
    BY <1>0, <1>1, <1>7, GotoTyped, StepsAre DEF RecvJobs, Goto
  <2> QED BY <1>0, <1>3, <1>7, <2>2, <2>3 DEF RecvJobs, Typed, outs
<1>8. CASE InitArg(r) \/ OpenFirst(r)
  <2>1. fails' \in 0 .. MaxFail
    BY <1>0, <1>8, MayFail DEF InitArg, OpenFirst, Typed
  <2>2. pc' \in [AllRanks -> RankSteps]
    BY <1>0, <1>1, <1>8, GotoTyped, StepsAre DEF InitArg, OpenFirst, Goto
  <2> QED BY <1>0, <1>3, <1>8, <2>1, <2>2 DEF InitArg, OpenFirst, Typed, links, outs
<1>9. CASE Enter(r)
  <2>1. inbar \in [AllRanks -> BOOLEAN] /\ bar \in [AllRanks -> Nat]
    BY <1>0 DEF Typed
  <2>2. inbar' = [inbar EXCEPT ![r] = TRUE] /\ bar' = [bar EXCEPT ![r] = bar[r] + 1]
    BY <1>9 DEF Enter
  <2>3. inbar' \in [AllRanks -> BOOLEAN] /\ bar' \in [AllRanks -> Nat]
    BY <1>1, <2>1, <2>2
  <2> QED BY <1>0, <1>3, <1>9, <2>3 DEF Enter, Typed, links, outs
<1>10. CASE Leave(r)
  <2>1. AfterBarrier(r)[pc[r]] \in RankSteps
    BY <1>10, Barriers, AfterIs, StepsAre DEF Leave, Sites
  <2>2. pc' \in [AllRanks -> RankSteps]
    BY <1>0, <1>10, <2>1, GotoTyped DEF Leave, Goto
  <2> QED BY <1>0, <1>1, <1>3, <1>10, <2>2 DEF Leave, Typed, links, outs
<1>11. CASE Tell(r)
  <2>1. pc' \in [AllRanks -> RankSteps]
    BY <1>0, <1>1, <1>11, GotoTyped, StepsAre DEF Tell, Goto
  <2>2. \A S, x : x \in Seq(S) /\ x # <<>> => Head(x) \in S /\ Tail(x) \in Seq(S)
    BY HeadTailProperties
  <2>3. nextjob' \in [AllRanks -> 0 .. cmd.nf]
    <3>1. nextjob \in [AllRanks -> 0 .. cmd.nf] /\ count[r] \in Seq(0 .. cmd.nf)
      BY <1>0, <1>1 DEF Typed
    <3>2. \/ count[r] # <<>> /\ nextjob' = [nextjob EXCEPT ![r] = Head(count[r])]
          \/ nextjob' = nextjob
      BY <1>11 DEF Tell
    <3>3. CASE count[r] # <<>> /\ nextjob' = [nextjob EXCEPT ![r] = Head(count[r])]
      <4>1. Head(count[r]) \in 0 .. cmd.nf
        BY <2>2, <3>1, <3>3
      <4> QED BY <1>1, <3>1, <3>3, <4>1, Update
    <3> QED BY <3>1, <3>2, <3>3
  <2>4. \A S, x, y : x \in Seq(S) /\ y \in S => Append(x, y) \in Seq(S)
    BY AppendProperties
  <2>5. \A q \in AllRanks : Append(count[q], Len(files[r])) \in Seq(0 .. cmd.nf)
    BY <1>0, <1>2, <2>4 DEF Typed
  <2>6. count' \in [AllRanks -> Seq(0 .. cmd.nf)]
    <3>1. CASE r < LastRank /\ count[r] # <<>> /\ r = 0 /\ count' = [count EXCEPT ![r] = Tail(@)]
      BY <1>0, <1>1, <2>2, <3>1 DEF Typed
    <3>2. CASE /\ r < LastRank /\ count[r] # <<>> /\ r # 0
               /\ count' = [count EXCEPT ![r] = Tail(@), ![r - 1] = Append(@, Len(files[r]))]
      <4>1. r - 1 # r /\ r - 1 \in AllRanks
        BY <1>1, <3>2 DEF AllRanks
      <4>2. Tail(count[r]) \in Seq(0 .. cmd.nf) /\ Append(count[r - 1], Len(files[r])) \in Seq(0 .. cmd.nf)
        BY <1>0, <1>1, <2>2, <2>5, <3>2, <4>1 DEF Typed
      <4> QED BY <1>0, <1>1, <3>2, <4>1, <4>2 DEF Typed
    <3>3. CASE r > 0 /\ count' = [count EXCEPT ![r - 1] = Append(@, Len(files[r]))]
      <4>1. r - 1 \in AllRanks
        BY <1>1, <3>3
      <4>2. Append(count[r - 1], Len(files[r])) \in Seq(0 .. cmd.nf)
        BY <2>5, <4>1
      <4> QED BY <1>0, <3>3, <4>1, <4>2 DEF Typed
    <3>4. CASE count' = count
      BY <1>0, <3>4 DEF Typed
    <3> QED BY <1>11, <3>1, <3>2, <3>3, <3>4 DEF Tell
  <2> QED BY <1>0, <1>3, <1>11, <2>1, <2>3, <2>6 DEF Tell, Typed, outs
<1>12. CASE Convert(r)
  <2>1. pc' \in [AllRanks -> RankSteps]
    BY <1>0, <1>12, ConvertIs, GotoTyped, StepsAre
  <2> QED BY <1>0, <1>3, <1>12, <2>1, ConvertIs DEF Typed, links
<1>13. CASE TakeToken(r)
  <2>1. pc' \in [AllRanks -> RankSteps]
    BY <1>0, <1>1, <1>13, GotoTyped, StepsAre DEF TakeToken, Goto
  <2>2. tok' \in [AllRanks -> Nat]
    <3>1. tok \in [AllRanks -> Nat]
      BY <1>0 DEF Typed
    <3>2. tok' = [tok EXCEPT ![r] = IF r = 0 THEN 0 ELSE tok[r] - 1] /\ (r # 0 => tok[r] > 0)
      BY <1>13 DEF TakeToken, TokenHere
    <3>3. (IF r = 0 THEN 0 ELSE tok[r] - 1) \in Nat
      BY <1>1, <3>1, <3>2
    <3> QED BY <1>1, <3>1, <3>2, <3>3, Update
  <2>3. all' \in Seq(Parts)
    <3>1. Part(r, nth[r], 1) \in Parts
      <4>1. r \in Int /\ nth[r] \in Nat
        BY <1>0, <1>1 DEF Typed, AllRanks
      <4> QED BY <4>1 DEF Part, Parts
    <3>2. \A S, x, y : x \in Seq(S) /\ y \in S => Append(x, y) \in Seq(S)
      BY AppendProperties
    <3>3. all \in Seq(Parts) /\ (all' = all \/ all' = Append(all, Part(r, nth[r], 1)))
      BY <1>0, <1>13 DEF TakeToken, Typed
    <3> QED BY <3>1, <3>2, <3>3
  <2>4. fails' \in 0 .. MaxFail
    BY <1>0, <1>13, MayFail DEF TakeToken, Typed
  <2> QED BY <1>0, <1>3, <1>13, <2>1, <2>2, <2>3, <2>4 DEF TakeToken, Typed
<1>14. CASE PassToken(r)
  <2>1. pc' \in [AllRanks -> RankSteps]
    BY <1>0, <1>1, <1>14, GotoTyped, StepsAre DEF PassToken, Goto
  <2>2. tok' \in [AllRanks -> Nat] /\ nextjob' \in [AllRanks -> 0 .. cmd.nf]
    <3>1. tok \in [AllRanks -> Nat] /\ nextjob \in [AllRanks -> 0 .. cmd.nf]
      BY <1>0 DEF Typed
    <3>2. \/ tok' = tok /\ nextjob' = nextjob
          \/ /\ r < LastRank /\ nextjob[r] # 0
             /\ tok' = [tok EXCEPT ![r + 1] = tok[r + 1] + 1] /\ nextjob' = [nextjob EXCEPT ![r] = nextjob[r] - 1]
      BY <1>14 DEF PassToken, Passes
    <3>3. CASE tok' = tok /\ nextjob' = nextjob
      BY <3>1, <3>3
    <3>4. CASE /\ r < LastRank /\ nextjob[r] # 0
               /\ tok' = [tok EXCEPT ![r + 1] = tok[r + 1] + 1] /\ nextjob' = [nextjob EXCEPT ![r] = nextjob[r] - 1]
      <4>1. r + 1 \in AllRanks /\ tok[r + 1] + 1 \in Nat /\ nextjob[r] - 1 \in 0 .. cmd.nf
        BY <1>1, <3>1, <3>4
      <4> QED BY <1>1, <3>1, <3>4, <4>1, Update
    <3> QED BY <3>2, <3>3, <3>4
  <2>3. all' \in Seq(Parts)
    <3>1. Part(r, nth[r], 2) \in Parts
      <4>1. r \in Int /\ nth[r] \in Nat
        BY <1>0, <1>1 DEF Typed, AllRanks
      <4> QED BY <4>1 DEF Part, Parts
    <3>2. \A S, x, y : x \in Seq(S) /\ y \in S => Append(x, y) \in Seq(S)
      BY AppendProperties
    <3>3. all \in Seq(Parts) /\ all' = Append(all, Part(r, nth[r], 2))
      BY <1>0, <1>14 DEF PassToken, Typed
    <3> QED BY <3>1, <3>2, <3>3
  <2>4. nth' \in [AllRanks -> Nat \ {0}]
    <3>1. nth \in [AllRanks -> Nat \ {0}] /\ nth' = [nth EXCEPT ![r] = nth[r] + 1]
      BY <1>0, <1>14 DEF PassToken, Typed
    <3>2. nth[r] + 1 \in Nat \ {0}
      BY <1>1, <3>1
    <3> QED BY <1>1, <3>1, <3>2, Update
  <2> QED BY <1>0, <1>3, <1>14, <2>1, <2>2, <2>3, <2>4 DEF PassToken, Typed
<1>15. CASE EndLoop(r) \/ Launcher(r)
  <2>1. pc' \in [AllRanks -> RankSteps]
    BY <1>0, <1>1, <1>15, GotoTyped, StepsAre DEF EndLoop, Launcher, Goto
  <2> QED BY <1>0, <1>3, <1>15, <2>1 DEF EndLoop, Launcher, Typed, links, outs
<1> QED
  BY <1>4, <1>5, <1>6, <1>7, <1>8, <1>9, <1>10, <1>11, <1>12, <1>13, <1>14, <1>15 DEF Done

-----------------------------------------------------------------------------
(* Where each rank is.                                                     *)

LEMMA PassedIs ==
  /\ Passed("map") = {0} /\ Passed("deal") = {0} /\ Passed("dealt") = {0} /\ Passed("main") = {1}
  /\ Passed("args") = {2} /\ Passed("dir") = {2}
  /\ \A p \in {"calc", "head", "tell", "told"} : Passed(p) = IF cmd.args THEN {3} ELSE {2}
  /\ \A p \in Looping : Passed(p) = IF cmd.args THEN {4} ELSE {3}
  /\ Passed("failed") = IF cmd.args THEN {3, 4} ELSE {2, 3}
  /\ \A p \in {"final", "exit", "killed"} : Passed(p) = 0 .. 5
  /\ \A p : Passed(p) \subseteq 0 .. 5
<1>1. \A p : Passed(p) \subseteq 0 .. 5
  BY DEF Passed
<1> QED BY <1>1 DEF Passed, Looping

(* A step to the next place, and what it asks of the counters.             *)
LEMMA Hop ==
  ASSUME NEW r, NEW p, NEW s, NEW in, NEW b, NEW n, NEW l, FitIn(r, p, in, b, n, l),
         p \notin Sites \cup {"killed"}, s # "none", Passed(p) \subseteq Passed(s), s = "dir" => cmd.args,
         s \in Early => p \in Early, s \in {"deal", "head"} => r = 0, s \in {"token", "append"} => n <= l
  PROVE  FitIn(r, s, in, b, n, l)
  BY DEF FitIn

LEMMA PlaceKept ==
  ASSUME CtlInv, NEW r \in Ranks, Done(r)
  PROVE  \A q \in Ranks : PlaceOf(q)'
<1>0. Typed /\ PlaceOf(r) /\ LinkOf(r) /\ cmd' = cmd
  BY StepFrame DEF CtlInv
<1>1. ASSUME NEW q, NEW p, NEW in, NEW b, NEW n, NEW l, FitIn(q, p, in, b, n, l),
             pc'[q] = p, inbar'[q] = in, bar'[q] = b, nth'[q] = n, Len(files'[q]) = l
      PROVE  PlaceOf(q)'
  BY <1>0, <1>1 DEF PlaceOf, FitIn, Passed
<1>2. ASSUME NEW q \in Ranks, q # r PROVE PlaceOf(q)'
  <2>1. FitIn(q, pc[q], inbar[q], bar[q], nth[q], Len(files[q]))
    BY DEF CtlInv, PlaceOf
  <2>2. pc'[q] = pc[q] /\ inbar'[q] = inbar[q] /\ bar'[q] = bar[q] /\ nth'[q] = nth[q] /\ files'[q] = files[q]
    BY <1>0, <1>2, StepFrame, Numbers
  <2> QED BY <1>1, <2>1, <2>2
<1>3. /\ r \in AllRanks /\ pc \in [AllRanks -> RankSteps] /\ inbar \in [AllRanks -> BOOLEAN]
      /\ bar \in [AllRanks -> Nat] /\ nth \in [AllRanks -> Nat \ {0}] /\ files \in [AllRanks -> Seq(FileNos)]
  BY <1>0, Numbers DEF Typed
<1>4. /\ r \in Nat /\ bar[r] \in Nat /\ nth[r] \in Nat \ {0} /\ Len(files[r]) \in Nat /\ cmd.nf \in Nat
      /\ inbar[r] \in BOOLEAN
  BY <1>0, <1>3, Numbers
<1>5. FitIn(r, pc[r], inbar[r], bar[r], nth[r], Len(files[r]))
  BY <1>0 DEF PlaceOf
<1> DEFINE Still == inbar'[r] = inbar[r] /\ bar'[r] = bar[r] /\ nth'[r] = nth[r] /\ files'[r] = files[r]
           Way(p, s) == /\ s # "none" /\ Passed(p) \subseteq Passed(s) /\ (s = "dir" => cmd.args)
                        /\ (s \in Early => p \in Early) /\ (s \in {"deal", "head"} => r = 0)
                        /\ (s \in {"token", "append"} => nth[r] <= Len(files[r]))
                        /\ p \notin Sites \cup {"killed"}
<1>6. ASSUME Still, Way(pc[r], pc'[r]) PROVE PlaceOf(r)'
  <2>1. FitIn(r, pc'[r], inbar[r], bar[r], nth[r], Len(files[r]))
    BY <1>5, <1>6, Hop
  <2> QED BY <1>1, <1>6, <2>1
<1>7. ASSUME NEW l, Len(files'[r]) = l, l \in Nat, l <= cmd.nf, inbar'[r] = inbar[r], bar'[r] = bar[r],
             nth'[r] = nth[r], pc[r] = "map", Way(pc[r], pc'[r]), pc'[r] \notin {"token", "append"}
      PROVE  PlaceOf(r)'
  <2>1. FitIn(r, pc'[r], inbar[r], bar[r], nth[r], Len(files[r]))
    BY <1>5, <1>7, Hop
  <2>2. nth[r] = 1
    BY <1>5, <1>7 DEF FitIn, Early, BeforeTell
  <2>3. FitIn(r, pc'[r], inbar[r], bar[r], nth[r], l)
    BY <1>7, <2>1, <2>2 DEF FitIn
  <2> QED BY <1>1, <1>7, <2>3
<1> SUFFICES PlaceOf(r)'
  BY <1>2
<1> HIDE DEF Still
<1> USE DEF Goto, Sites, Early, BeforeTell
<1>8. CASE r = 0 /\ ReadMap
  <2>1. pc[r] = "map" /\ pc'[r] \in {"deal", "exit"} /\ inbar'[r] = inbar[r] /\ bar'[r] = bar[r] /\ nth'[r] = nth[r]
    BY <1>3, <1>8 DEF ReadMap
  <2>2. files'[r] = files[r] \/ files'[r] = Slice(0)
    BY <1>0, <1>3, <1>8, Lists DEF ReadMap
  <2>3. Len(files'[r]) \in Nat /\ Len(files'[r]) <= cmd.nf
    BY <1>4, <1>5, <1>8, <1>0, <2>2, Lists, SliceIs DEF FitIn
  <2>4. Way(pc[r], pc'[r])
    BY <1>8, <2>1, PassedIs
  <2> QED BY <1>7, <2>1, <2>3, <2>4
<1>9. CASE r = 0 /\ (Deal \/ WriteHead)
  <2>1. Still /\ \/ pc[r] = "deal" /\ pc'[r] \in {"deal", "dealt"}
                 \/ pc[r] = "head" /\ pc'[r] \in {"tell", "failed"}
    BY <1>3, <1>9 DEF Deal, WriteHead, Still
  <2>2. Way(pc[r], pc'[r])
    BY <1>9, <2>1, PassedIs
  <2> QED BY <1>6, <2>1, <2>2
<1>10. CASE RecvJobs(r)
  <2>1. pc[r] = "map" /\ pc'[r] = "dealt" /\ inbar'[r] = inbar[r] /\ bar'[r] = bar[r] /\ nth'[r] = nth[r]
        /\ files'[r] = Head(jobs[r]) /\ jobs[r] # <<>>
    BY <1>3, <1>10 DEF RecvJobs
  <2>2. files'[r] = Slice(r)
    BY <1>0, <2>1 DEF LinkOf
  <2>3. Len(files'[r]) \in Nat /\ Len(files'[r]) <= cmd.nf
    BY <1>0, <2>2, Lists, SliceIs
  <2>4. Way(pc[r], pc'[r])
    BY <2>1, PassedIs
  <2> QED BY <1>7, <2>1, <2>3, <2>4
<1>11. CASE InitArg(r) \/ OpenFirst(r) \/ Tell(r)
  <2>1. Still /\ \/ pc[r] = "args" /\ pc'[r] = "dir" /\ cmd.args
                 \/ pc[r] = "args" /\ pc'[r] = "exit"
                 \/ pc[r] = "args" /\ pc'[r] = "calc" /\ ~cmd.args
                 \/ pc[r] = "calc" /\ pc'[r] \in {"head", "tell", "failed"} /\ (pc'[r] = "head" => r = 0)
                 \/ pc[r] = "tell" /\ pc'[r] \in {"told", "exit"}
    BY <1>3, <1>11 DEF InitArg, OpenFirst, Tell, Still
  <2>2. Way(pc[r], pc'[r])
    BY <2>1, PassedIs
  <2> QED BY <1>6, <2>1, <2>2
<1>12. CASE Enter(r)
  <2>1. pc[r] \in Sites /\ pc'[r] = pc[r] /\ ~inbar[r] /\ inbar'[r] = TRUE
        /\ bar'[r] = bar[r] + 1 /\ nth'[r] = nth[r] /\ files'[r] = files[r]
    BY <1>3, <1>12, Barriers DEF Enter
  <2>2. bar[r] \in Passed(pc[r])
    BY <1>5, <2>1 DEF FitIn
  <2>3. bar[r] <= 4
    BY <2>1, <2>2, PassedIs DEF Looping
  <2>4. bar'[r] - 1 = bar[r] /\ bar'[r] <= 5
    BY <1>4, <2>1, <2>3
  <2>5. FitIn(r, pc[r], inbar'[r], bar'[r], nth[r], Len(files[r]))
    BY <1>5, <2>1, <2>2, <2>4 DEF FitIn
  <2> QED BY <1>1, <2>1, <2>5
<1>13. CASE Leave(r)
  <2>1. inbar[r] /\ inbar'[r] = FALSE /\ bar'[r] = bar[r] /\ nth'[r] = nth[r] /\ files'[r] = files[r]
    BY <1>3, <1>13 DEF Leave
  <2>2. pc[r] \in Sites /\ pc'[r] = AfterBarrier(r)[pc[r]]
    <3>1. pc[r] \in Sites /\ pc' = [pc EXCEPT ![r] = AfterBarrier(r)[pc[r]]]
      BY <1>13, Barriers DEF Leave
    <3> QED BY <1>3, <3>1
  <2>3. \/ pc[r] = "dealt" /\ pc'[r] = "main"
        \/ pc[r] = "main" /\ pc'[r] = "args"
        \/ pc[r] = "dir" /\ pc'[r] = "calc"
        \/ pc[r] = "told" /\ pc'[r] = "loop"
        \/ pc[r] = "finish" /\ pc'[r] = "final"
        \/ pc[r] = "failed" /\ pc'[r] \in {"exit", "final"}
    <3>1. /\ AfterBarrier(r)["dealt"] = "main" /\ AfterBarrier(r)["main"] = "args"
          /\ AfterBarrier(r)["dir"] = "calc" /\ AfterBarrier(r)["told"] = "loop"
          /\ AfterBarrier(r)["finish"] = "final" /\ AfterBarrier(r)["failed"] \in {"exit", "final"}
      BY AfterIs
    <3>2. pc[r] \in {"dealt", "main", "dir", "told", "finish", "failed"} /\ pc'[r] = AfterBarrier(r)[pc[r]]
      BY <2>2
    <3> QED BY ONLY <3>1, <3>2
  <2>4. bar[r] - 1 \in Passed(pc[r]) /\ (pc[r] = "dir" => cmd.args) /\ bar[r] <= 5
    BY <1>5, <2>1 DEF FitIn
  <2>5. bar[r] \in Passed(pc'[r])
    BY <1>4, <2>3, <2>4, PassedIs DEF Looping
  <2>6. FitIn(r, pc'[r], FALSE, bar[r], nth[r], Len(files[r]))
    BY <1>5, <2>3, <2>5 DEF FitIn
  <2> QED BY <1>1, <2>1, <2>6
<1>14. CASE Convert(r)
  <2>1. pc[r] = "loop" /\ pc'[r] \in {"token", "exit", "failed"} /\ nth[r] <= Len(files[r]) /\ Still
    BY <1>0, <1>3, <1>14, ConvertIs DEF Still
  <2>2. Way(pc[r], pc'[r])
    BY <2>1, PassedIs DEF Looping
  <2> QED BY <1>6, <2>1, <2>2
<1>15. CASE TakeToken(r) \/ EndLoop(r)
  <2>1. Still /\ \/ pc[r] = "token" /\ pc'[r] \in {"append", "failed"}
                 \/ pc[r] = "loop" /\ pc'[r] = "finish"
    BY <1>3, <1>15 DEF TakeToken, EndLoop, Still
  <2>2. pc[r] = "token" => nth[r] <= Len(files[r])
    BY <1>5 DEF FitIn
  <2>3. Way(pc[r], pc'[r])
    BY <2>1, <2>2, PassedIs DEF Looping
  <2> QED BY <1>6, <2>1, <2>3
<1>16. CASE PassToken(r)
  <2>1. pc[r] = "append" /\ pc'[r] = "loop" /\ inbar'[r] = inbar[r] /\ bar'[r] = bar[r] /\ nth'[r] = nth[r] + 1
        /\ files'[r] = files[r]
    BY <1>3, <1>16 DEF PassToken
  <2>2. nth[r] <= Len(files[r])
    BY <1>5, <2>1 DEF FitIn
  <2>3. nth[r] + 1 <= Len(files[r]) + 1
    BY <1>4, <2>2
  <2>4. Passed(pc[r]) = Passed(pc'[r])
    BY <2>1, PassedIs DEF Looping
  <2>5. FitIn(r, pc'[r], inbar[r], bar[r], nth[r] + 1, Len(files[r]))
    BY <1>5, <2>1, <2>3, <2>4 DEF FitIn
  <2> QED BY <1>1, <2>1, <2>5
<1>17. CASE Launcher(r)
  <2>1. pc'[r] = "killed" /\ Still
    BY <1>3, <1>17 DEF Launcher, Still
  <2>2. IF inbar[r] THEN bar[r] - 1 \in Passed("killed") ELSE bar[r] \in Passed("killed")
    BY <1>5, PassedIs DEF FitIn
  <2>3. FitIn(r, pc'[r], inbar[r], bar[r], nth[r], Len(files[r]))
    BY <1>5, <2>1, <2>2 DEF FitIn
  <2> QED BY <1>1, <2>1, <2>3 DEF Still
<1> QED
  BY <1>8, <1>9, <1>10, <1>11, <1>12, <1>13, <1>14, <1>15, <1>16, <1>17, Zenon DEF Done

(* The order of the places, and the steps that are the only ones to touch  *)
(* the messages, the tokens and all.csv.                                   *)
LEMMA Moves ==
  ASSUME Typed, NEW r \in Ranks, Done(r)
  PROVE  /\ pc'[r] \in BeforeTell => pc[r] \in BeforeTell
         /\ pc'[r] \in Early => pc[r] \in Early
         /\ pc'[r] = "append" => TakeToken(r)
         /\ r = 0 /\ pc'[r] \in Headed => pc[r] \in Headed \/ WriteHead
         /\ Tell(r) => pc'[r] \notin BeforeTell
<1>1. r \in AllRanks /\ pc \in [AllRanks -> RankSteps]
  BY Numbers DEF Typed
<1> USE DEF Goto, BeforeTell, Early, Looping, Headed
<1>2. CASE r = 0 /\ (ReadMap \/ Deal \/ WriteHead)
  BY <1>1, <1>2 DEF ReadMap, Deal, WriteHead, Tell
<1>3. CASE RecvJobs(r) \/ InitArg(r) \/ Enter(r) \/ OpenFirst(r)
  BY <1>1, <1>3, Barriers DEF RecvJobs, InitArg, Enter, OpenFirst, Tell, Sites
<1>4. CASE Leave(r)
  <2>1. pc[r] \in Sites /\ pc' = [pc EXCEPT ![r] = AfterBarrier(r)[pc[r]]]
    BY <1>4, Barriers DEF Leave
  <2>2. pc'[r] = AfterBarrier(r)[pc[r]] /\ pc[r] \in {"dealt", "main", "dir", "told", "finish", "failed"}
    BY <1>1, <2>1 DEF Sites
  <2>3. ~Tell(r)
    BY <2>2 DEF Tell
  <2> QED BY <2>2, <2>3, AfterIs
<1>5. CASE Tell(r)
  BY <1>1, <1>5 DEF Tell
<1>6. CASE Convert(r)
  <2>1. pc[r] = "loop" /\ pc'[r] \in {"token", "exit", "failed"}
    BY <1>1, <1>6, ConvertIs
  <2> QED BY <2>1 DEF Tell
<1>7. CASE TakeToken(r) \/ PassToken(r) \/ EndLoop(r) \/ Launcher(r)
  BY <1>1, <1>7 DEF TakeToken, PassToken, EndLoop, Launcher, Tell
<1> QED BY <1>2, <1>3, <1>4, <1>5, <1>6, <1>7, Zenon DEF Done

LEMMA Quiet ==
  ASSUME Typed, NEW r \in Ranks, Done(r)
  PROVE  /\ (r = 0 /\ Deal) \/ dest' = dest
         /\ (r = 0 /\ Deal) \/ RecvJobs(r) \/ jobs' = jobs
         /\ Tell(r) \/ count' = count
         /\ TakeToken(r) \/ PassToken(r) \/ tok' = tok
         /\ PassToken(r) \/ nth' = nth
         /\ TakeToken(r) \/ PassToken(r) \/ (r = 0 /\ WriteHead) \/ all' = all
<1> USE DEF links, outs
<1>1. CASE r = 0 /\ (ReadMap \/ Deal \/ WriteHead)
  BY <1>1 DEF ReadMap, Deal, WriteHead
<1>2. CASE RecvJobs(r) \/ InitArg(r) \/ Enter(r) \/ Leave(r) \/ OpenFirst(r)
  BY <1>2 DEF RecvJobs, InitArg, Enter, Leave, OpenFirst
<1>3. CASE Tell(r)
  BY <1>3 DEF Tell
<1>4. CASE Convert(r)
  BY <1>4, ConvertIs
<1>5. CASE TakeToken(r) \/ PassToken(r) \/ EndLoop(r) \/ Launcher(r)
  BY <1>5 DEF TakeToken, PassToken, EndLoop, Launcher
<1> QED BY <1>1, <1>2, <1>3, <1>4, <1>5, Zenon DEF Done

-----------------------------------------------------------------------------
(* The messages.                                                           *)

LEMMA LinkKept ==
  ASSUME CtlInv, NEW r \in Ranks, Done(r)
  PROVE  \A q \in Ranks : LinkOf(q)'
<1>0. Typed /\ PlaceOf(r) /\ cmd' = cmd /\ Ranks' = Ranks /\ LastRank' = LastRank
  BY StepFrame DEF CtlInv, Ranks, LastRank
<1> SUFFICES ASSUME NEW q \in Ranks PROVE LinkOf(q)'
  BY <1>0
<1>1. /\ q \in AllRanks /\ r \in AllRanks /\ q \in Nat /\ r \in Nat /\ q <= LastRank /\ r <= LastRank
      /\ (r # 0 => r - 1 \in Ranks) /\ (q < LastRank => q + 1 \in Ranks /\ q + 1 \in AllRanks) /\ LastRank \in Nat
  BY <1>0, Numbers
<1>2. dest \in 0 .. cmd.np /\ jobs \in [AllRanks -> Seq(Seq(FileNos))] /\ count \in [AllRanks -> Seq(0 .. cmd.nf)]
      /\ cmd.np \in Nat
  BY <1>0, Numbers DEF Typed
<1>3. LinkOf(q) /\ Slice(q)' = Slice(q)
  BY <1>0 DEF CtlInv, Slice, Mod, Quot
<1>4. (q >= dest' => jobs'[q] = <<>>) /\ (jobs'[q] = <<>> \/ jobs'[q] = <<Slice(q)>>)
  <2>1. CASE r = 0 /\ Deal
    <3>1. CASE dest < cmd.np /\ q = dest
      <4>1. dest' = dest + 1 /\ jobs'[q] = Append(jobs[q], Slice(q))
        BY <1>1, <1>2, <2>1, <3>1 DEF Deal
      <4>2. jobs[q] = <<>>
        BY <1>1, <1>3, <3>1 DEF LinkOf
      <4>3. jobs'[q] = <<Slice(q)>>
        BY <4>1, <4>2
      <4> QED BY <1>1, <3>1, <4>1, <4>3
    <3>2. CASE ~(dest < cmd.np /\ q = dest)
      <4>1. jobs'[q] = jobs[q] /\ dest' \in {dest, dest + 1}
        BY <1>1, <1>2, <2>1, <3>2 DEF Deal
      <4>2. q >= dest' => q >= dest
        BY <1>1, <1>2, <4>1
      <4> QED BY <1>3, <4>1, <4>2 DEF LinkOf
    <3> QED BY <3>1, <3>2
  <2>2. CASE RecvJobs(r)
    <3>1. dest' = dest /\ jobs' = [jobs EXCEPT ![r] = Tail(jobs[r])] /\ jobs[r] # <<>>
      BY <2>2 DEF RecvJobs
    <3>2. CASE q = r
      <4>1. jobs[r] = <<Slice(r)>>
        BY <1>3, <3>1, <3>2 DEF LinkOf
      <4>2. jobs'[q] = <<>>
        BY <1>1, <1>2, <3>1, <3>2, <4>1
      <4> QED BY <4>2
    <3>3. CASE q # r
      <4>1. jobs'[q] = jobs[q]
        BY <1>1, <1>2, <3>1, <3>3
      <4> QED BY <1>3, <3>1, <4>1 DEF LinkOf
    <3> QED BY <3>2, <3>3
  <2>3. CASE dest' = dest /\ jobs' = jobs
    BY <1>3, <2>3 DEF LinkOf
  <2> QED BY <1>0, <2>1, <2>2, <2>3, Quiet
<1>5. ASSUME q < LastRank, pc'[q + 1] \in BeforeTell
      PROVE  pc[q + 1] \in BeforeTell /\ ~(Tell(r) /\ r = q + 1)
  <2>1. CASE r = q + 1
    BY <1>0, <1>5, <2>1, Moves
  <2>2. CASE r # q + 1
    BY <1>0, <1>1, <1>5, <2>2, StepFrame
  <2> QED BY <2>1, <2>2
<1>6. Len(count'[q]) <= 1 /\ (q < LastRank /\ pc'[q + 1] \in BeforeTell => count'[q] = <<>>)
  <2>1. CASE Tell(r) /\ q = r
    <3>1. \/ r < LastRank /\ count[r] # <<>> /\ count'[r] = Tail(count[r])
          \/ count'[r] = count[r]
      <4>1. r - 1 # r
        BY <1>1
      <4> QED BY <1>1, <1>2, <2>1, <4>1 DEF Tell
    <3>2. Len(count[r]) <= 1 /\ (q < LastRank /\ pc[q + 1] \in BeforeTell => count[r] = <<>>)
      BY <1>3, <2>1 DEF LinkOf
    <3>3. CASE count[r] # <<>> /\ count'[r] = Tail(count[r])
      <4>1. \A s : s \in Seq(0 .. cmd.nf) /\ Len(s) <= 1 /\ s # <<>> => Tail(s) = <<>>
        <5>1. ASSUME NEW s \in Seq(0 .. cmd.nf), Len(s) <= 1, s # <<>> PROVE Tail(s) = <<>>
          <6>1. Len(Tail(s)) = Len(s) - 1 /\ Tail(s) \in Seq(0 .. cmd.nf) /\ Len(s) \in Nat
            BY <5>1, HeadTailProperties
          <6>2. Len(Tail(s)) = 0
            BY <5>1, <6>1
          <6> QED BY <6>1, <6>2, EmptySeq
        <5> QED BY <5>1
      <4>2. count'[r] = <<>>
        BY <1>1, <1>2, <3>2, <3>3, <4>1
      <4> QED BY <2>1, <4>2
    <3>4. CASE count'[r] = count[r]
      BY <1>5, <2>1, <3>2, <3>4
    <3> QED BY <3>1, <3>3, <3>4
  <2>2. CASE Tell(r) /\ r > 0 /\ q = r - 1
    <3>1. r = q + 1 /\ q < LastRank /\ q # r /\ pc[r] = "tell"
      BY <1>1, <2>2 DEF Tell
    <3>2. count[q] = <<>>
      BY <1>3, <3>1 DEF LinkOf, BeforeTell
    <3>3. count'[q] = Append(count[q], Len(files[r])) \/ count'[q] = count[q]
      BY <1>1, <1>2, <2>2, <3>1 DEF Tell
    <3>4. Len(count'[q]) <= 1
      <4>1. \A x : Len(Append(<<>>, x)) = 1
        OBVIOUS
      <4>2. Len(<<>>) = 0
        OBVIOUS
      <4>3. \E n \in {0, 1} : Len(count'[q]) = n
        BY <3>2, <3>3, <4>1, <4>2
      <4>4. \A n \in {0, 1} : n <= 1
        OBVIOUS
      <4> QED BY ONLY <4>3, <4>4
    <3> QED BY <1>5, <2>2, <3>1, <3>4
  <2>3. CASE ~(Tell(r) /\ (q = r \/ (r > 0 /\ q = r - 1)))
    <3>1. count'[q] = count[q]
      <4>1. CASE Tell(r)
        <5>1. q # r /\ (r > 0 => q # r - 1)
          BY <2>3, <4>1
        <5> QED BY <1>1, <1>2, <4>1, <5>1 DEF Tell
      <4> QED BY <1>0, <4>1, Quiet
    <3> QED BY <1>3, <1>5, <3>1 DEF LinkOf
  <2> QED BY <2>1, <2>2, <2>3
<1> QED BY <1>0, <1>3, <1>4, <1>6 DEF LinkOf, BeforeTell

(* A rank the job does not have takes part in nothing.                     *)
LEMMA AbsentKept ==
  ASSUME CtlInv, NEW r \in Ranks, Done(r)
  PROVE  \A q \in AllRanks \ Ranks : Absent(q)'
<1>0. Typed
  BY DEF CtlInv
<1> SUFFICES ASSUME NEW q \in AllRanks \ Ranks PROVE Absent(q)'
  OBVIOUS
<1>1. Absent(q) /\ q # r /\ r \in AllRanks /\ (r # 0 => q # r - 1) /\ (r < LastRank => q # r + 1)
  BY <1>0, Numbers DEF CtlInv
<1>2. bar'[q] = bar[q] /\ files'[q] = files[q] /\ nth'[q] = nth[q]
  BY <1>0, <1>1, StepFrame
<1>3. /\ jobs \in [AllRanks -> Seq(Seq(FileNos))] /\ count \in [AllRanks -> Seq(0 .. cmd.nf)]
      /\ tok \in [AllRanks -> Nat] /\ dest \in 0 .. cmd.np /\ cmd.np \in Nat /\ r \in Nat
  BY <1>0, Numbers DEF Typed
<1>4. jobs'[q] = jobs[q]
  <2>1. CASE r = 0 /\ Deal
    <3>1. dest < cmd.np => q # dest
      BY <1>3 DEF Ranks
    <3> QED BY <1>3, <2>1, <3>1 DEF Deal
  <2>2. CASE RecvJobs(r)
    BY <1>1, <1>3, <2>2 DEF RecvJobs
  <2> QED BY <1>0, <2>1, <2>2, Quiet
<1>5. count'[q] = count[q]
  <2>1. CASE Tell(r)
    BY <1>1, <1>3, <2>1 DEF Tell
  <2> QED BY <1>0, <2>1, Quiet
<1>6. tok'[q] = tok[q]
  <2>1. CASE TakeToken(r)
    BY <1>1, <1>3, <2>1 DEF TakeToken
  <2>2. CASE PassToken(r)
    BY <1>1, <1>3, <2>2 DEF PassToken, Passes
  <2> QED BY <1>0, <2>1, <2>2, Quiet
<1> QED BY <1>1, <1>2, <1>4, <1>5, <1>6 DEF Absent

LEMMA CtlKept ==
  ASSUME CtlInv, [Next]_vars
  PROVE  CtlInv'
<1>1. CASE Next
  <2>1. PICK r \in Ranks : Done(r)
    BY <1>1, NextDone
  <2>2. cmd' = cmd
    BY <2>1, StepFrame DEF CtlInv
  <2>3. Ranks' = Ranks /\ AllRanks' = AllRanks
    BY <2>2 DEF Ranks, AllRanks
  <2> QED BY <2>1, <2>3, TypedKept, PlaceKept, LinkKept, AbsentKept DEF CtlInv
<1>2. CASE UNCHANGED vars
  BY <1>2 DEF vars, links, outs, CtlInv, Typed, PlaceOf, FitIn, Passed, LinkOf, Absent, Ranks, LastRank, Slice,
     Mod, Quot, FileNos, RankSteps, BarrierSites, AfterBarrier
<1> QED BY <1>1, <1>2

LEMMA InitCtl ==
  ASSUME Init
  PROVE  CtlInv
<1>1. cmd \in [np : Sizes, nf : Counts, eager : BOOLEAN, args : BOOLEAN]
  BY DEF Init
<1>2. cmd.np \in Nat \ {0} /\ cmd.nf \in Nat \ {0}
  BY <1>1, SizeAssumption
<1>3. dest \in 0 .. cmd.np
  <2>1. CASE cmd.np = 1
    <3>1. Mod = 0
      BY <1>2, <2>1, Division DEF Mod
    <3> QED BY <1>2, <3>1 DEF Init, FirstDest
  <2>2. CASE cmd.np # 1
    BY <1>2, <2>2 DEF Init, FirstDest
  <2> QED BY <2>1, <2>2
<1>4. all \in Seq(Parts) /\ fails \in 0 .. MaxFail
  <2>1. <<OldRun>> \in Seq(Parts) /\ <<>> \in Seq(Parts)
    BY DEF OldRun, Part, Parts
  <2>2. all \in {<<>>, <<OldRun>>} /\ fails = 0
    BY DEF Init
  <2>3. fails \in 0 .. MaxFail
    BY <2>2, SizeAssumption
  <2> QED BY ONLY <2>1, <2>2, <2>3
<1>5. pc \in [AllRanks -> RankSteps]
  BY StepsAre DEF Init
<1>6. Typed
  <2>1. /\ <<>> \in Seq(Seq(FileNos)) /\ <<>> \in Seq(FileNos) /\ <<>> \in Seq(0 .. cmd.nf)
        /\ 0 \in 0 .. cmd.nf /\ 0 \in Nat /\ 1 \in Nat \ {0}
    BY <1>2
  <2>2. jobs \in [AllRanks -> Seq(Seq(FileNos))] /\ files \in [AllRanks -> Seq(FileNos)]
    BY <2>1 DEF Init
  <2>3. count \in [AllRanks -> Seq(0 .. cmd.nf)] /\ nextjob \in [AllRanks -> 0 .. cmd.nf]
    BY <2>1 DEF Init
  <2>4. inbar \in [AllRanks -> BOOLEAN] /\ bar \in [AllRanks -> Nat] /\ bcast \in BOOLEAN
        /\ nth \in [AllRanks -> Nat \ {0}] /\ tok \in [AllRanks -> Nat]
    BY <2>1 DEF Init
  <2> QED BY <1>1, <1>3, <1>4, <1>5, <2>2, <2>3, <2>4 DEF Typed
<1>7. Ranks \subseteq AllRanks /\ cmd.nf \in Nat
  BY <1>6, Numbers
<1>8. ASSUME NEW r \in AllRanks
      PROVE  /\ inbar[r] = FALSE /\ bar[r] = 0 /\ jobs[r] = <<>> /\ files[r] = <<>> /\ count[r] = <<>>
             /\ nth[r] = 1 /\ tok[r] = 0 /\ (r \in Ranks => pc[r] = "map") /\ Len(<<>>) = 0
  BY <1>8 DEF Init
<1>9. ASSUME NEW r \in Ranks PROVE PlaceOf(r)
  <2>1. /\ inbar[r] = FALSE /\ bar[r] = 0 /\ nth[r] = 1 /\ pc[r] = "map" /\ Len(files[r]) = 0
    BY <1>7, <1>8
  <2>2. FitIn(r, "map", FALSE, 0, 1, 0)
    BY <1>7, PassedIs DEF FitIn
  <2> QED BY <2>1, <2>2 DEF PlaceOf
<1>10. ASSUME NEW r \in Ranks PROVE LinkOf(r)
  <2>1. jobs[r] = <<>> /\ count[r] = <<>> /\ Len(count[r]) = 0
    BY <1>7, <1>8
  <2>2. Len(count[r]) <= 1
    BY ONLY <2>1
  <2> QED BY ONLY <2>1, <2>2 DEF LinkOf
<1>11. ASSUME NEW r \in AllRanks \ Ranks PROVE Absent(r)
  BY <1>8 DEF Absent
<1> QED BY <1>6, <1>9, <1>10, <1>11 DEF CtlInv

-----------------------------------------------------------------------------
(* The tokens.                                                             *)

(* What TakeToken and PassToken do to the counters.                        *)
LEMMA TokenSteps ==
  ASSUME Typed, NEW r \in Ranks
  PROVE  /\ TakeToken(r) =>
              /\ nth' = nth /\ tok' = [tok EXCEPT ![r] = IF r = 0 THEN 0 ELSE tok[r] - 1] /\ (r # 0 => tok[r] > 0)
              /\ pc[r] = "token" /\ pc'[r] \in {"append", "failed"}
         /\ PassToken(r) =>
              /\ nth' = [nth EXCEPT ![r] = nth[r] + 1] /\ pc[r] = "append" /\ pc'[r] = "loop"
              /\ tok' = tok \/ (r < LastRank /\ tok' = [tok EXCEPT ![r + 1] = tok[r + 1] + 1])
<1>1. r \in AllRanks /\ pc \in [AllRanks -> RankSteps]
  BY Numbers DEF Typed
<1>2. TakeToken(r) =>
        /\ nth' = nth /\ tok' = [tok EXCEPT ![r] = IF r = 0 THEN 0 ELSE tok[r] - 1] /\ (r # 0 => tok[r] > 0)
        /\ pc[r] = "token" /\ pc'[r] \in {"append", "failed"}
  BY <1>1 DEF TakeToken, TokenHere, Goto
<1>3. PassToken(r) =>
        /\ nth' = [nth EXCEPT ![r] = nth[r] + 1] /\ pc[r] = "append" /\ pc'[r] = "loop"
        /\ tok' = tok \/ (r < LastRank /\ tok' = [tok EXCEPT ![r + 1] = tok[r + 1] + 1])
  BY <1>1 DEF PassToken, Passes, Goto
<1> QED BY <1>2, <1>3

LEMMA TokensKept ==
  ASSUME TokInv, NEW r \in Ranks, Done(r)
  PROVE  \A q \in Ranks : TokensOf(q)'
<1>0. CtlInv /\ Typed /\ cmd' = cmd
  BY StepFrame DEF TokInv, CtlInv
<1> SUFFICES ASSUME NEW q \in Ranks PROVE TokensOf(q)'
  BY <1>0 DEF Ranks
<1>1. /\ nth \in [AllRanks -> Nat \ {0}] /\ tok \in [AllRanks -> Nat] /\ pc \in [AllRanks -> RankSteps]
  BY <1>0 DEF Typed
<1>2. /\ q \in AllRanks /\ r \in AllRanks /\ 0 \in AllRanks /\ 0 \in Ranks /\ q \in Nat /\ r \in Nat
      /\ (q # 0 => q - 1 \in Ranks /\ q - 1 \in AllRanks /\ q - 1 # q) /\ (r < LastRank => r + 1 \in AllRanks)
  BY <1>0, Numbers
<1>3. nth[q] \in Nat /\ nth[0] \in Nat /\ tok[q] \in Nat /\ nth[r] \in Nat /\ (q # 0 => nth[q - 1] \in Nat)
      /\ Here(q) \in {0, 1}
  BY <1>1, <1>2 DEF Here
<1>4. /\ nth[q] <= nth[0] /\ (q = 0 => tok[q] = 0)
      /\ (q # 0 => tok[q] + nth[q] + Here(q) <= nth[q - 1] /\ nth[q - 1] <= nth[0])
  BY <1>2 DEF TokInv, TokensOf
<1> HIDE DEF Here
<1>5. CASE TakeToken(r)
  <2>1. /\ nth' = nth /\ tok' = [tok EXCEPT ![r] = IF r = 0 THEN 0 ELSE tok[r] - 1] /\ (r # 0 => tok[r] > 0)
        /\ pc[r] = "token" /\ pc'[r] \in {"append", "failed"}
    BY <1>0, <1>5, TokenSteps
  <2>2. CASE q = r
    <3>1. Here(q) = 0 /\ Here(q)' \in {0, 1} /\ nth'[q] = nth[q] /\ nth'[0] = nth[0] /\ nth'[q - 1] = nth[q - 1]
      BY <2>1, <2>2 DEF Here
    <3>2. tok'[q] = IF q = 0 THEN 0 ELSE tok[q] - 1
      BY <1>1, <1>2, <2>1, <2>2
    <3>3. q # 0 => tok'[q] + nth'[q] + Here(q)' <= nth'[q - 1]
      BY <1>3, <1>4, <2>1, <2>2, <3>1, <3>2
    <3> QED BY <1>4, <3>1, <3>2, <3>3 DEF TokensOf
  <2>3. CASE q # r
    <3>1. tok'[q] = tok[q] /\ pc'[q] = pc[q]
      BY <1>0, <1>1, <1>2, <2>1, <2>3, StepFrame
    <3>2. Here(q)' = Here(q)
      BY <3>1 DEF Here
    <3> QED BY <1>2, <1>4, <2>1, <3>1, <3>2 DEF TokensOf
  <2> QED BY <2>2, <2>3
<1>6. CASE PassToken(r)
  <2>1. /\ nth' = [nth EXCEPT ![r] = nth[r] + 1] /\ pc[r] = "append" /\ pc'[r] = "loop"
        /\ tok' = tok \/ (r < LastRank /\ tok' = [tok EXCEPT ![r + 1] = tok[r + 1] + 1])
    BY <1>0, <1>6, TokenSteps
  <2>2. nth'[0] = (IF r = 0 THEN nth[0] + 1 ELSE nth[0]) /\ nth'[q] = (IF q = r THEN nth[q] + 1 ELSE nth[q])
        /\ (q # 0 => nth'[q - 1] = IF q - 1 = r THEN nth[q - 1] + 1 ELSE nth[q - 1])
    BY <1>1, <1>2, <2>1
  <2>3. tok'[q] = tok[q] \/ (q = r + 1 /\ tok'[q] = tok[q] + 1)
    BY <1>1, <1>2, <2>1
  <2>4. Here(q)' = IF q = r THEN 0 ELSE Here(q)
    <3>1. q # r => pc'[q] = pc[q]
      BY <1>0, <1>2, StepFrame
    <3> QED BY <2>1, <3>1 DEF Here
  <2>5. q = r => Here(q) = 1
    BY <2>1 DEF Here
  <2>6. q = 0 => tok'[q] = 0
    BY <1>2, <1>4, <2>3
  <2>7. q # 0 => tok'[q] + nth'[q] + Here(q)' <= nth'[q - 1]
    BY <1>2, <1>3, <1>4, <2>2, <2>3, <2>4, <2>5
  <2>8. nth'[q] <= nth'[0]
    <3>1. CASE q = 0
      BY <1>3, <2>2, <3>1
    <3>2. CASE q # 0
      BY <1>2, <1>3, <1>4, <2>2, <2>5, <3>2
    <3> QED BY <3>1, <3>2
  <2> QED BY <2>6, <2>7, <2>8 DEF TokensOf
<1>7. CASE ~TakeToken(r) /\ ~PassToken(r)
  <2>1. tok' = tok /\ nth' = nth
    BY <1>0, <1>7, Quiet
  <2>2. Here(q)' = Here(q) \/ (Here(q)' = 0 /\ Here(q) = 1)
    <3>1. CASE q = r
      BY <1>0, <1>7, <3>1, Moves DEF Here
    <3>2. CASE q # r
      <4>1. pc'[q] = pc[q]
        BY <1>0, <1>2, <3>2, StepFrame
      <4> QED BY <4>1 DEF Here
    <3> QED BY <3>1, <3>2
  <2>3. q # 0 => tok[q] + nth[q] + Here(q)' <= nth[q - 1]
    BY <1>3, <1>4, <2>2
  <2> QED BY <1>4, <2>1, <2>3 DEF TokensOf
<1> QED BY <1>5, <1>6, <1>7

LEMMA TokKept ==
  ASSUME TokInv, [Next]_vars
  PROVE  TokInv'
<1>1. CtlInv'
  BY CtlKept DEF TokInv
<1>2. CASE Next
  <2>1. PICK r \in Ranks : Done(r)
    BY <1>2, NextDone
  <2>2. Ranks' = Ranks
    BY <2>1, StepFrame DEF TokInv, CtlInv, Ranks
  <2> QED BY <1>1, <2>1, <2>2, TokensKept DEF TokInv
<1>3. CASE UNCHANGED vars
  BY <1>1, <1>3 DEF vars, links, outs, TokInv, TokensOf, Here, Ranks
<1> QED BY <1>2, <1>3

LEMMA InitTok ==
  ASSUME Init
  PROVE  TokInv
<1>1. CtlInv
  BY InitCtl
<1>2. ASSUME NEW r \in Ranks PROVE TokensOf(r)
  <2>1. /\ Ranks \subseteq AllRanks /\ 0 \in Ranks /\ (r # 0 => r - 1 \in Ranks)
    BY <1>1, Numbers DEF CtlInv
  <2>2. \A q \in Ranks : nth[q] = 1 /\ tok[q] = 0 /\ pc[q] = "map"
    BY <2>1 DEF Init
  <2>3. Here(r) = 0
    BY <2>2 DEF Here
  <2>4. 0 + 1 + 0 <= 1
    OBVIOUS
  <2> QED BY <2>1, <2>2, <2>3, <2>4 DEF TokensOf
<1> QED BY <1>1, <1>2 DEF TokInv

-----------------------------------------------------------------------------
(* What is in all.csv.                                                     *)
OrderInv == TokInv /\ LogInv /\ TokenOrder

(* A part that a rank appends: its file is the next that the rank before   *)
(* has written, and rank 0 has the header behind it.                       *)
LEMMA Due ==
  ASSUME OrderInv, NEW r \in Ranks, pc[r] = "append" \/ (pc[r] = "token" /\ (r # 0 => tok[r] > 0))
  PROVE  /\ pc[0] \notin Early /\ all # <<>> /\ all[1] = Header
         /\ r # 0 => \E b \in DOMAIN all : all[b] = Part(r - 1, nth[r], 2)
<1>0. CtlInv /\ Typed
  BY DEF OrderInv, TokInv, CtlInv
<1>1. /\ nth \in [AllRanks -> Nat \ {0}] /\ tok \in [AllRanks -> Nat] /\ all \in Seq(Parts)
  BY <1>0 DEF Typed
<1>2. /\ 0 \in Ranks /\ r \in Nat /\ Ranks \subseteq AllRanks /\ (r # 0 => r - 1 \in Ranks)
  BY <1>0, Numbers
<1>3. CASE r = 0
  <2>1. pc[0] \in Headed /\ pc[0] \notin Early
    BY <1>3 DEF Headed, Looping, Early, BeforeTell
  <2> QED BY <1>3, <2>1 DEF OrderInv, LogInv
<1>4. CASE r # 0
  <2>1. /\ nth[r] \in Nat \ {0} /\ nth[r - 1] \in Nat /\ nth[0] \in Nat /\ tok[r] \in Nat
    BY <1>1, <1>2, <1>4
  <2>2. tok[r] + nth[r] + Here(r) <= nth[r - 1] /\ nth[r - 1] <= nth[0]
    BY <1>2, <1>4 DEF OrderInv, TokInv, TokensOf
  <2>3. Here(r) \in {0, 1} /\ (tok[r] > 0 \/ Here(r) = 1)
    BY <1>4 DEF Here
  <2>4. nth[r] \in 1 .. nth[r - 1] - 1 /\ nth[0] # 1
    BY <2>1, <2>2, <2>3
  <2>5. pc[0] \notin Early
    BY <1>0, <1>2, <2>4 DEF CtlInv, PlaceOf, FitIn
  <2>6. PICK b \in DOMAIN all : all[b] = Part(r - 1, nth[r], 2)
    BY <1>2, <1>4, <2>4 DEF OrderInv, LogInv
  <2>7. all[b].rank >= 0
    BY <1>2, <1>4, <2>6 DEF Part
  <2>8. all[1] = Header /\ all # <<>>
    BY <1>1, <2>6, <2>7 DEF OrderInv, TokenOrder
  <2> QED BY <2>5, <2>6, <2>8
<1> QED BY <1>3, <1>4

(* Another part at the end.                                                *)
LEMMA PartKept ==
  ASSUME OrderInv, NEW r \in Ranks, NEW n \in Nat \ {0}, NEW k \in {1, 2}, all' = Append(all, Part(r, n, k)),
         n = nth[r], pc[r] = "append" \/ (pc[r] = "token" /\ (r # 0 => tok[r] > 0))
  PROVE  /\ all' # <<>> /\ all'[1] = Header /\ TokenOrder'
         /\ \A b \in DOMAIN all : b \in DOMAIN all' /\ all'[b] = all[b]
         /\ \E b \in DOMAIN all' : all'[b] = Part(r, n, k)
<1>0. Typed
  BY DEF OrderInv, TokInv, CtlInv
<1>1. all \in Seq(Parts) /\ Len(all) \in Nat /\ DOMAIN all = 1 .. Len(all)
  BY <1>0 DEF Typed
<1>2. Part(r, n, k) \in Parts /\ Part(r, n, k).rank = r /\ Part(r, n, k).nth = n /\ r \in Nat
  <2>1. r \in Nat
    BY <1>0, Numbers
  <2> QED BY <2>1 DEF Part, Parts
<1>3. /\ DOMAIN all' = 1 .. Len(all) + 1 /\ all'[Len(all) + 1] = Part(r, n, k) /\ all' # <<>>
      /\ \A b \in 1 .. Len(all) : all'[b] = all[b]
  <2>1. \A S, x, y : x \in Seq(S) /\ y \in S =>
          /\ Append(x, y) \in Seq(S) /\ Len(Append(x, y)) = Len(x) + 1 /\ Append(x, y)[Len(x) + 1] = y
          /\ \A i \in 1 .. Len(x) : Append(x, y)[i] = x[i]
    BY AppendProperties
  <2>2. /\ all' \in Seq(Parts) /\ Len(all') = Len(all) + 1 /\ all'[Len(all) + 1] = Part(r, n, k)
        /\ \A b \in 1 .. Len(all) : all'[b] = all[b]
    BY <1>1, <1>2, <2>1
  <2> QED BY <1>1, <2>2
<1>4. all # <<>> /\ all[1] = Header /\ (r # 0 => \E b \in DOMAIN all : all[b] = Part(r - 1, n, 2))
  BY Due
<1>5. 1 \in 1 .. Len(all) /\ all'[1] = Header /\ Len(all) + 1 > 1
  BY <1>1, <1>3, <1>4
<1>6. TokenOrder'
  <2> SUFFICES ASSUME NEW b \in 1 .. Len(all) + 1
               PROVE  /\ all'[b].rank >= 0 => b > 1 /\ all'[1] = Header
                      /\ all'[b].rank > 0 =>
                           \E a \in 1 .. b - 1 : all'[a] = Part(all'[b].rank - 1, all'[b].nth, 2)
    BY <1>3 DEF TokenOrder
  <2>1. CASE b \in 1 .. Len(all)
    <3>1. /\ all[b].rank >= 0 => b > 1
          /\ all[b].rank > 0 => \E a \in 1 .. b - 1 : all[a] = Part(all[b].rank - 1, all[b].nth, 2)
      BY <1>1, <2>1 DEF OrderInv, TokenOrder
    <3>2. all'[b] = all[b] /\ \A a \in 1 .. b - 1 : all'[a] = all[a]
      BY <1>1, <1>3, <2>1
    <3> QED BY <1>5, <3>1, <3>2
  <2>2. CASE b = Len(all) + 1
    <3>1. all'[b].rank = r /\ all'[b].nth = n /\ b > 1 /\ b - 1 = Len(all)
      BY <1>1, <1>2, <1>3, <1>5, <2>2
    <3>2. r # 0 => \E a \in 1 .. b - 1 : all'[a] = Part(r - 1, n, 2)
      BY <1>1, <1>3, <1>4, <3>1
    <3> QED BY <1>2, <1>5, <3>1, <3>2
  <2> QED BY <1>1, <2>1, <2>2
<1>7. Len(all) + 1 \in DOMAIN all'
  BY <1>1, <1>3
<1> QED BY <1>1, <1>3, <1>5, <1>6, <1>7

LEMMA OrderKept ==
  ASSUME OrderInv, NEW r \in Ranks, Done(r)
  PROVE  LogInv' /\ TokenOrder'
<1>0. Typed /\ cmd' = cmd /\ Ranks' = Ranks
  BY StepFrame DEF OrderInv, TokInv, CtlInv, Ranks
<1>1. /\ r \in AllRanks /\ r \in Nat /\ 0 \in Ranks /\ 0 \in AllRanks /\ Ranks \subseteq AllRanks
  BY <1>0, Numbers
<1>2. /\ nth \in [AllRanks -> Nat \ {0}] /\ all \in Seq(Parts) /\ DOMAIN all = 1 .. Len(all)
      /\ pc \in [AllRanks -> RankSteps]
  BY <1>0 DEF Typed
<1>3. pc'[0] \in Early => pc[0] \in Early
  BY <1>0, <1>1, Moves, StepFrame
<1>4. pc'[0] \in Headed => pc[0] \in Headed \/ (r = 0 /\ WriteHead)
  BY <1>0, <1>1, Moves, StepFrame
<1>5. /\ pc[0] \in Headed => all # <<>> /\ all[1] = Header
      /\ \A b \in DOMAIN all : all[b].rank >= 0 => pc[0] \notin Early
      /\ \A q \in Ranks : \A n \in 1 .. nth[q] - 1 : \E b \in DOMAIN all : all[b] = Part(q, n, 2)
  BY DEF OrderInv, LogInv
<1>6. CASE TakeToken(r)
  <2>1. nth' = nth /\ pc[r] = "token" /\ (r # 0 => tok[r] > 0)
    BY <1>0, <1>6, TokenSteps
  <2>2. CASE all' = all
    <3>1. ~WriteHead \/ r # 0
      BY <2>1 DEF WriteHead
    <3> QED BY <1>0, <1>3, <1>4, <1>5, <2>1, <2>2, <3>1 DEF LogInv, TokenOrder, OrderInv
  <2>3. CASE all' = Append(all, Part(r, nth[r], 1))
    <3>1. /\ all' # <<>> /\ all'[1] = Header /\ TokenOrder'
          /\ \A b \in DOMAIN all : b \in DOMAIN all' /\ all'[b] = all[b]
      BY <1>1, <1>2, <2>1, <2>3, PartKept
    <3>2. pc'[0] \notin Early
      BY <1>3, <2>1, Due
    <3>3. \A q \in Ranks : \A n \in 1 .. nth[q] - 1 : \E b \in DOMAIN all' : all'[b] = Part(q, n, 2)
      BY <1>5, <3>1
    <3> QED BY <1>0, <2>1, <3>1, <3>2, <3>3 DEF LogInv
  <2> QED BY <1>6, <2>2, <2>3 DEF TakeToken
<1>7. CASE PassToken(r)
  <2>1. nth' = [nth EXCEPT ![r] = nth[r] + 1] /\ pc[r] = "append"
    BY <1>0, <1>7, TokenSteps
  <2>2. all' = Append(all, Part(r, nth[r], 2))
    BY <1>7 DEF PassToken
  <2>3. /\ all' # <<>> /\ all'[1] = Header /\ TokenOrder'
        /\ \A b \in DOMAIN all : b \in DOMAIN all' /\ all'[b] = all[b]
        /\ \E b \in DOMAIN all' : all'[b] = Part(r, nth[r], 2)
    BY <1>1, <1>2, <2>1, <2>2, PartKept
  <2>4. pc'[0] \notin Early
    BY <1>3, <2>1, Due
  <2>5. ASSUME NEW q \in Ranks, NEW n \in 1 .. nth'[q] - 1 PROVE \E b \in DOMAIN all' : all'[b] = Part(q, n, 2)
    <3>1. CASE n \in 1 .. nth[q] - 1
      BY <1>5, <2>3, <3>1
    <3>2. CASE n \notin 1 .. nth[q] - 1
      <4>1. nth'[q] = IF q = r THEN nth[q] + 1 ELSE nth[q]
        BY <1>1, <1>2, <2>1
      <4>2. q = r /\ n = nth[r]
        <5>1. nth[q] \in Nat
          BY <1>1, <1>2
        <5> QED BY <2>5, <3>2, <4>1, <5>1
      <4> QED BY <2>3, <4>2
    <3> QED BY <3>1, <3>2
  <2> QED BY <1>0, <2>3, <2>4, <2>5 DEF LogInv
<1>8. CASE r = 0 /\ WriteHead /\ all' # all
  <2>1. all' = <<Header>> /\ pc[0] = "head" /\ nth' = nth
    BY <1>8 DEF WriteHead
  <2>2. all'[1] = Header /\ all' # <<>> /\ DOMAIN all' = 1 .. 1 /\ \A b \in DOMAIN all' : all'[b] = Header
    BY <2>1
  <2>3. ~(Header.rank >= 0) /\ ~(Header.rank > 0)
    BY DEF Header, Part
  <2>4. \A q \in Ranks : nth'[q] = 1
    <3>1. nth[0] = 1
      BY <1>1, <2>1 DEF OrderInv, TokInv, CtlInv, PlaceOf, FitIn, Early, BeforeTell
    <3>2. ASSUME NEW q \in Ranks PROVE nth[q] = 1
      <4>1. nth[q] <= nth[0] /\ nth[q] \in Nat \ {0}
        BY <1>1, <1>2 DEF OrderInv, TokInv, TokensOf
      <4> QED BY <3>1, <4>1
    <3> QED BY <2>1, <3>2
  <2>5. LogInv'
    BY <1>0, <2>2, <2>3, <2>4 DEF LogInv
  <2>6. TokenOrder'
    BY <2>2, <2>3 DEF TokenOrder
  <2> QED BY <2>5, <2>6
<1>9. CASE ~TakeToken(r) /\ ~PassToken(r) /\ all' = all
  <2>1. nth' = nth
    BY <1>0, <1>9, Quiet
  <2>2. ASSUME r = 0, WriteHead PROVE (all # <<>> /\ all[1] = Header) \/ pc'[0] \notin Headed
    <3>1. all' = <<Header>> \/ pc'[0] = "failed"
      BY <1>1, <1>2, <2>2 DEF WriteHead, Goto
    <3>2. <<Header>> # <<>> /\ <<Header>>[1] = Header
      OBVIOUS
    <3> QED BY <1>9, <3>1, <3>2 DEF Headed, Looping
  <2>3. pc'[0] \in Headed => all # <<>> /\ all[1] = Header
    BY <1>4, <1>5, <2>2
  <2>4. LogInv'
    BY <1>0, <1>3, <1>5, <1>9, <2>1, <2>3 DEF LogInv
  <2>5. TokenOrder'
    BY <1>9 DEF TokenOrder, OrderInv
  <2> QED BY <2>4, <2>5
<1>10. TakeToken(r) \/ PassToken(r) \/ (r = 0 /\ WriteHead) \/ all' = all
  BY <1>0, Quiet
<1>11. WriteHead => pc[0] = "head"
  BY DEF WriteHead
<1>12. r = 0 /\ WriteHead => ~TakeToken(r) /\ ~PassToken(r)
  BY <1>11 DEF TakeToken, PassToken
<1> QED BY <1>6, <1>7, <1>8, <1>9, <1>10, <1>12

LEMMA OrderAtFirst ==
  ASSUME Init
  PROVE  OrderInv
<1>1. TokInv
  BY InitTok
<1>2. all \in {<<>>, <<OldRun>>}
  BY DEF Init
<1>3. \A b \in DOMAIN all : ~(all[b].rank >= 0) /\ ~(all[b].rank > 0)
  <2>1. ~(OldRun.rank >= 0) /\ ~(OldRun.rank > 0)
    BY DEF OldRun, Part
  <2>2. DOMAIN <<>> = {} /\ DOMAIN <<OldRun>> = 1 .. 1 /\ \A b \in 1 .. 1 : <<OldRun>>[b] = OldRun
    OBVIOUS
  <2> QED BY <1>2, <2>1, <2>2
<1>4. \A r \in Ranks : nth[r] = 1 /\ pc[r] = "map"
  <2>1. Ranks \subseteq AllRanks
    BY <1>1, Numbers DEF TokInv, CtlInv
  <2> QED BY <2>1 DEF Init
<1>5. pc[0] \notin Headed
  <2>1. 0 \in Ranks
    BY <1>1, Numbers DEF TokInv, CtlInv
  <2> QED BY <1>4, <2>1 DEF Headed, Looping
<1> QED BY <1>1, <1>3, <1>4, <1>5 DEF OrderInv, LogInv, TokenOrder

LEMMA OrderStep ==
  ASSUME OrderInv, [Next]_vars
  PROVE  OrderInv'
<1>1. TokInv'
  BY TokKept DEF OrderInv
<1>2. CASE Next
  <2>1. PICK r \in Ranks : Done(r)
    BY <1>2, NextDone
  <2> QED BY <1>1, <2>1, OrderKept DEF OrderInv
<1>3. CASE UNCHANGED vars
  BY <1>1, <1>3 DEF vars, links, outs, OrderInv, LogInv, TokenOrder, Ranks
<1> QED BY <1>2, <1>3

LEMMA OrderHolds == Spec => []OrderInv
<1>1. Init => OrderInv
  BY OrderAtFirst
<1>2. OrderInv /\ [Next]_vars => OrderInv'
  BY OrderStep
<1> QED BY <1>1, <1>2, PTL DEF Spec

-----------------------------------------------------------------------------
(* No value leaves its range: rank 0 stops dealing at the last rank, no    *)
(* rank has more than one list or count under way to it, no more tokens    *)
(* than files are, a rank never reads a file beyond its list, and it meets *)
(* the others in at most five barriers.                                    *)
THEOREM TypeCorrect == Spec => []TypeOK
<1>1. ASSUME OrderInv PROVE TypeOK
  <2>0. Typed /\ CtlInv
    BY <1>1 DEF OrderInv, TokInv, CtlInv
  <2>1. /\ cmd.nf \in Nat \ {0} /\ Ranks \subseteq Nat /\ Ranks \subseteq AllRanks
        /\ \A r \in Ranks : r # 0 => r - 1 \in Ranks
    BY <2>0, Numbers
  <2>2. /\ nth \in [AllRanks -> Nat \ {0}] /\ tok \in [AllRanks -> Nat] /\ files \in [AllRanks -> Seq(FileNos)]
        /\ bar \in [AllRanks -> Nat] /\ nextjob \in [AllRanks -> 0 .. cmd.nf]
    BY <2>0 DEF Typed
  <2>3. ASSUME NEW r \in Ranks PROVE nth[r] \in 1 .. cmd.nf + 1 /\ bar[r] \in 0 .. 5 /\ Len(files[r]) <= cmd.nf
    <3>1. /\ nth[r] \in Nat \ {0} /\ bar[r] \in Nat /\ Len(files[r]) \in Nat
      BY <2>1, <2>2
    <3>2. nth[r] <= Len(files[r]) + 1 /\ Len(files[r]) <= cmd.nf /\ bar[r] <= 5
      BY <2>0 DEF CtlInv, PlaceOf, FitIn
    <3> QED BY <2>1, <3>1, <3>2
  <2>4. ASSUME NEW r \in Ranks PROVE tok[r] \in 0 .. cmd.nf
    <3>1. CASE r = 0
      <4>1. tok[r] = 0
        BY <1>1, <3>1 DEF OrderInv, TokInv, TokensOf
      <4> QED BY <2>1, <4>1
    <3>2. CASE r # 0
      <4>1. tok[r] + nth[r] + Here(r) <= nth[r - 1]
        BY <1>1, <3>2 DEF OrderInv, TokInv, TokensOf
      <4>2. /\ tok[r] \in Nat /\ nth[r] \in 1 .. cmd.nf + 1 /\ nth[r - 1] \in 1 .. cmd.nf + 1 /\ Here(r) \in {0, 1}
        BY <2>1, <2>2, <2>3, <3>2 DEF Here
      <4> QED BY <2>1, <4>1, <4>2
    <3> QED BY <3>1, <3>2
  <2>5. ASSUME NEW r \in Ranks PROVE Len(jobs[r]) <= 1 /\ Len(count[r]) <= 1
    <3>1. (jobs[r] = <<>> \/ jobs[r] = <<Slice(r)>>) /\ Len(count[r]) <= 1
      BY <2>0 DEF CtlInv, LinkOf
    <3>2. \A x : Len(<<x>>) = 1 /\ Len(<<>>) = 0
      OBVIOUS
    <3>3. \E n \in {0, 1} : Len(jobs[r]) = n
      BY <3>1, <3>2
    <3>4. \A n \in {0, 1} : n <= 1
      OBVIOUS
    <3> QED BY ONLY <3>1, <3>3, <3>4
  <2>6. ASSUME NEW r \in AllRanks \ Ranks
        PROVE  /\ nth[r] \in 1 .. cmd.nf + 1 /\ bar[r] \in 0 .. 5 /\ Len(files[r]) <= cmd.nf
               /\ tok[r] \in 0 .. cmd.nf /\ Len(jobs[r]) <= 1 /\ Len(count[r]) <= 1
    <3>1. Absent(r)
      BY <2>0 DEF CtlInv
    <3>2. Len(<<>>) = 0 /\ 0 <= 1 /\ 0 <= cmd.nf /\ 0 \in 0 .. cmd.nf /\ 1 \in 1 .. cmd.nf + 1 /\ 0 \in 0 .. 5
      BY <2>1
    <3> QED BY ONLY <3>1, <3>2 DEF Absent
  <2>7. ASSUME NEW r \in AllRanks PROVE files[r] \in BoundedSeq(FileNos, cmd.nf)
    <3>1. files[r] \in Seq(FileNos) /\ Len(files[r]) \in Nat /\ Len(files[r]) <= cmd.nf
      BY <2>2, <2>3, <2>6
    <3>2. Len(files[r]) \in 0 .. cmd.nf /\ files[r] \in [1 .. Len(files[r]) -> FileNos]
      BY <2>1, <3>1
    <3> QED BY <3>2 DEF BoundedSeq, SeqOf
  <2> QED BY <2>0, <2>2, <2>3, <2>4, <2>5, <2>6, <2>7 DEF TypeOK, Typed
<1> QED BY <1>1, OrderHolds, PTL

(* No rank appends to all.csv before rank 0 has written the header of this *)
(* run, whichever barriers they meet in after an error, and no rank        *)
(* appends its nth file before the rank before it has completely written   *)
(* its own nth file: the token of calc_interval orders them, whatever      *)
(* fails and however MPI buffers the messages.                             *)
THEOREM TokenOrderHolds == Spec => []TokenOrder
<1>1. OrderInv => TokenOrder
  BY DEF OrderInv
<1> QED BY <1>1, OrderHolds, PTL

=============================================================================
