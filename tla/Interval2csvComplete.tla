------------------------ MODULE Interval2csvComplete ------------------------
(***************************************************************************)
(* That a run of the interval tool without errors leaves a complete        *)
(* all.csv, for every number of ranks and files: the slices of the ranks   *)
(* make up the record files, what neighbours announce, pass on and use     *)
(* agrees, and nothing is written twice.                                   *)
(***************************************************************************)
EXTENDS Interval2csvProofs

(* Nothing has failed and no rank has ended early.                         *)
Clean == fails = 0 /\ \A r \in Ranks : pc[r] \notin {"exit", "killed"}

(* The rank has told the one before it how many files it has.              *)
Told(r) == pc[r] \in {"told"} \cup Looping \/ (pc[r] = "final" /\ files[r] # <<>>)

(* Without failures, a rank has the slice that is meant for it once it has *)
(* any, and returns early only if the slice is empty.                      *)
ShareOf(r) ==
  /\ pc[r] # "map" => files[r] = Slice(r) /\ (r # 0 => r < dest /\ jobs[r] = <<>>)
  /\ pc[r] = "failed" => files[r] = <<>>
  /\ pc[r] = "head" \/ pc[r] \in Headed => files[r] # <<>>
  /\ pc[r] \in {"finish", "final"} => nth[r] = Len(files[r]) + 1
ToItself == Mod # 0 => dest # 0 /\ jobs[0] = <<>>

(* The counts go from the last rank to the first, so whoever has one knows *)
(* that all ranks behind it have told theirs.                              *)
CountOf(r) ==
  /\ Told(r) \/ count[r] # <<>> => \A q \in Ranks : q > r => Told(q)
  /\ Told(r) \/ r = LastRank => count[r] = <<>>
  /\ r < LastRank => count[r] = <<>> \/ count[r] = <<Len(files[r + 1])>>
(* The tokens a rank has still to send make up, with those under way and   *)
(* those used, the files of the next rank.                                 *)
OwedOf(r) ==
  Told(r) /\ r < LastRank =>
    tok[r + 1] + (nth[r + 1] - 1) + Here(r + 1) + nextjob[r] = Len(files[r + 1])

(* all.csv is what the ranks have written, each part once.                 *)
Written(r, n, k) == n < nth[r] \/ (n = nth[r] /\ k = 1 /\ pc[r] = "append")
Exact ==
  /\ pc[0] = "final" => all # <<>> /\ all[1] = Header
  /\ \A b \in DOMAIN all :
       \/ all[b].rank < 0 /\ b = 1
       \/ /\ all[b].rank \in Ranks /\ all[b].nth # 0
          /\ Written(all[b].rank, all[b].nth, all[b].part)
  /\ \A r \in Ranks, k \in {1, 2}, n \in Nat \ {0} :
       Written(r, n, k) => \E b \in DOMAIN all : all[b] = Part(r, n, k)
  /\ \A a, b \in DOMAIN all : all[a] = all[b] => a = b

Shares == ToItself /\ \A r \in Ranks : ShareOf(r)
Counted == \A r \in Ranks : CountOf(r) /\ OwedOf(r)
CompleteInv == OrderInv /\ (Clean => Shares /\ Counted /\ Exact)

-----------------------------------------------------------------------------
(* Steps of a run without errors.                                          *)

LEMMA NumbersIn ==
  ASSUME Typed, NEW r \in Ranks
  PROVE  /\ r \in AllRanks /\ r \in Nat /\ fails \in Nat /\ nth[r] \in Nat \ {0} /\ tok[r] \in Nat
         /\ nextjob[r] \in Nat /\ dest \in Nat /\ Len(files[r]) \in Nat /\ files[r] \in Seq(FileNos)
         /\ Here(r) \in {0, 1} /\ LastRank \in Nat
<1>1. r \in AllRanks /\ r \in Nat /\ LastRank \in Nat
  BY Numbers
<1>2. fails \in Nat /\ dest \in Nat
  BY SizeAssumption, Numbers DEF Typed
<1>3. nth[r] \in Nat \ {0} /\ tok[r] \in Nat /\ files[r] \in Seq(FileNos) /\ nextjob[r] \in 0 .. cmd.nf
  BY <1>1 DEF Typed
<1> QED BY <1>1, <1>2, <1>3 DEF Here

(* Failures are counted, and a rank that has ended stays so.               *)
LEMMA CleanBefore ==
  ASSUME Typed, NEW r \in Ranks, Done(r), Clean'
  PROVE  Clean /\ fails' = fails /\ pc'[r] \notin {"exit", "killed"}
<1>1. r \in AllRanks /\ pc \in [AllRanks -> RankSteps] /\ fails \in Nat /\ Ranks' = Ranks
  BY NumbersIn, StepFrame DEF Typed, Ranks
<1>2. fails' = fails \/ fails' = fails + 1
  <2> USE DEF Fail, links, outs
  <2>1. CASE r = 0 /\ (ReadMap \/ Deal \/ WriteHead)
    BY <2>1 DEF ReadMap, Deal, WriteHead
  <2>2. CASE RecvJobs(r) \/ InitArg(r) \/ Enter(r) \/ Leave(r) \/ OpenFirst(r)
    BY <2>2 DEF RecvJobs, InitArg, Enter, Leave, OpenFirst
  <2>3. CASE Tell(r) \/ TakeToken(r) \/ PassToken(r) \/ EndLoop(r) \/ Launcher(r)
    BY <2>3 DEF Tell, TakeToken, PassToken, EndLoop, Launcher
  <2>4. CASE Convert(r)
    BY <2>4, ConvertIs
  <2> QED BY <2>1, <2>2, <2>3, <2>4, Zenon DEF Done
<1>3. fails' = fails /\ fails = 0 /\ pc'[r] \notin {"exit", "killed"}
  BY <1>1, <1>2 DEF Clean
<1>4. pc[r] \notin {"exit", "killed"}
  <2>1. CASE r = 0 /\ (ReadMap \/ Deal \/ WriteHead)
    BY <2>1 DEF ReadMap, Deal, WriteHead
  <2>2. CASE RecvJobs(r) \/ InitArg(r) \/ Enter(r) \/ Leave(r) \/ OpenFirst(r)
    BY <2>2, Barriers DEF RecvJobs, InitArg, Enter, Leave, OpenFirst, Sites
  <2>3. CASE Tell(r) \/ TakeToken(r) \/ PassToken(r) \/ EndLoop(r) \/ Launcher(r)
    BY <2>3 DEF Tell, TakeToken, PassToken, EndLoop, Launcher
  <2>4. CASE Convert(r)
    BY <2>4, ConvertIs
  <2> QED BY <2>1, <2>2, <2>3, <2>4, Zenon DEF Done
<1>5. \A q \in Ranks : q # r => pc'[q] = pc[q]
  BY StepFrame, Numbers
<1>6. \A q \in Ranks : pc'[q] \notin {"exit", "killed"}
  BY <1>1 DEF Clean
<1> QED BY <1>3, <1>4, <1>5, <1>6 DEF Clean

(* Where the steps of such a run lead.                                     *)
LEMMA CleanMoves ==
  ASSUME Typed, NEW r \in Ranks, Done(r), Clean'
  PROVE  \/ r = 0 /\ ReadMap /\ pc[r] = "map" /\ pc'[r] = "deal" /\ files'[0] = Slice(0)
         \/ r = 0 /\ Deal /\ pc[r] = "deal" /\ pc'[r] \in {"deal", "dealt"}
         \/ r = 0 /\ WriteHead /\ pc[r] = "head" /\ pc'[r] = "tell" /\ all' = <<Header>>
         \/ RecvJobs(r) /\ pc[r] = "map" /\ pc'[r] = "dealt"
         \/ InitArg(r) /\ pc[r] = "args" /\ pc'[r] \in {"dir", "calc"}
         \/ Enter(r) /\ pc[r] \in Sites /\ pc'[r] = pc[r]
         \/ Leave(r) /\ pc[r] = "dealt" /\ pc'[r] = "main"
         \/ Leave(r) /\ pc[r] = "main" /\ pc'[r] = "args"
         \/ Leave(r) /\ pc[r] = "dir" /\ pc'[r] = "calc"
         \/ Leave(r) /\ pc[r] = "told" /\ pc'[r] = "loop"
         \/ Leave(r) /\ pc[r] = "finish" /\ pc'[r] = "final"
         \/ Leave(r) /\ pc[r] = "failed" /\ pc'[r] = "final" /\ r # 0
         \/ OpenFirst(r) /\ pc[r] = "calc" /\ pc'[r] \in {"head", "tell"} /\ files[r] # <<>>
         \/ OpenFirst(r) /\ pc[r] = "calc" /\ pc'[r] = "failed" /\ files[r] = <<>>
         \/ Tell(r) /\ pc[r] = "tell" /\ pc'[r] = "told"
         \/ Convert(r) /\ pc[r] = "loop" /\ pc'[r] = "token"
         \/ TakeToken(r) /\ pc[r] = "token" /\ pc'[r] = "append" /\ all' = Append(all, Part(r, nth[r], 1))
         \/ PassToken(r) /\ pc[r] = "append" /\ pc'[r] = "loop" /\ all' = Append(all, Part(r, nth[r], 2))
         \/ EndLoop(r) /\ pc[r] = "loop" /\ pc'[r] = "finish" /\ nth[r] > Len(files[r])
<1>1. r \in AllRanks /\ pc \in [AllRanks -> RankSteps] /\ files \in [AllRanks -> Seq(FileNos)] /\ fails \in Nat
  BY NumbersIn DEF Typed
<1>2. fails' = fails /\ pc'[r] \notin {"exit", "killed"}
  BY CleanBefore
<1>3. ~Fail
  BY <1>1, <1>2 DEF Fail
<1> USE DEF Goto
<1>4. CASE r = 0 /\ ReadMap
  <2>1. files' = [files EXCEPT ![0] = Slice(0)] /\ pc' = [pc EXCEPT ![0] = "deal"] /\ pc[0] = "map"
    BY <1>3, <1>4, Lists DEF ReadMap
  <2>2. files'[0] = Slice(0) /\ pc'[r] = "deal"
    BY <1>1, <1>4, <2>1
  <2> QED BY <1>4, <2>1, <2>2
<1>5. CASE r = 0 /\ (Deal \/ WriteHead)
  BY <1>1, <1>3, <1>5 DEF Deal, WriteHead
<1>6. CASE RecvJobs(r) \/ InitArg(r) \/ Enter(r)
  BY <1>1, <1>2, <1>3, <1>6, Barriers DEF RecvJobs, InitArg, Enter
<1>7. CASE Leave(r)
  <2>1. pc[r] \in {"dealt", "main", "dir", "told", "finish", "failed"} /\ pc'[r] = AfterBarrier(r)[pc[r]]
    <3>1. pc[r] \in Sites /\ pc' = [pc EXCEPT ![r] = AfterBarrier(r)[pc[r]]]
      BY <1>7, Barriers DEF Leave
    <3> QED BY <1>1, <3>1 DEF Sites
  <2>2. AfterBarrier(r)["failed"] = "final" => r # 0
    BY DEF AfterBarrier
  <2> QED BY <1>2, <1>7, <2>1, <2>2, AfterIs
<1>8. CASE OpenFirst(r) \/ Tell(r)
  BY <1>1, <1>2, <1>3, <1>8 DEF OpenFirst, Tell
<1>9. CASE Convert(r)
  <2>1. pc[r] = "loop"
    BY <1>9, ConvertIs
  <2>2. pc' = [pc EXCEPT ![r] = "token"]
    BY <1>3, <1>9, Zenon DEF Convert
  <2> QED BY <1>1, <1>9, <2>1, <2>2
<1>10. CASE TakeToken(r) \/ PassToken(r) \/ EndLoop(r)
  BY <1>1, <1>3, <1>10 DEF TakeToken, PassToken, EndLoop
<1>11. CASE Launcher(r)
  BY <1>1, <1>2, <1>11 DEF Launcher
<1> QED BY <1>4, <1>5, <1>6, <1>7, <1>8, <1>9, <1>10, <1>11, Zenon DEF Done

-----------------------------------------------------------------------------
(* The shares.                                                             *)

LEMMA SharesKept ==
  ASSUME CtlInv, Shares, NEW r \in Ranks, Done(r), Clean'
  PROVE  Shares'
<1>0. Typed /\ cmd' = cmd /\ Ranks' = Ranks /\ Mod' = Mod /\ \A q \in Ranks : Slice(q)' = Slice(q)
  BY StepFrame DEF CtlInv, Ranks, Mod, Slice, Quot
<1>1. /\ r \in AllRanks /\ r \in Nat /\ 0 \in Ranks /\ 0 \in AllRanks /\ Ranks \subseteq AllRanks /\ Ranks \subseteq Nat
      /\ pc \in [AllRanks -> RankSteps] /\ files \in [AllRanks -> Seq(FileNos)]
      /\ jobs \in [AllRanks -> Seq(Seq(FileNos))] /\ dest \in Nat
  <2>1. r \in AllRanks /\ r \in Nat /\ dest \in Nat
    BY <1>0, NumbersIn
  <2>2. 0 \in Ranks /\ Ranks \subseteq AllRanks /\ Ranks \subseteq Nat
    BY <1>0, Numbers
  <2> QED BY <1>0, <2>1, <2>2 DEF Typed
<1>2. ToItself /\ ShareOf(r)
  BY DEF Shares
(* Lists already dealt do not come again.                                  *)
<1>3. \A q \in Ranks : (q < dest => q < dest') /\ (q < dest /\ jobs[q] = <<>> => jobs'[q] = <<>>)
  <2>1. CASE r = 0 /\ Deal
    <3>1. \/ jobs' = [jobs EXCEPT ![dest] = Append(jobs[dest], Slice(dest))] /\ dest' = dest + 1
          \/ jobs' = jobs /\ dest' = dest
      BY <2>1 DEF Deal
    <3> QED BY <1>1, <3>1
  <2>2. CASE RecvJobs(r)
    <3>1. jobs' = [jobs EXCEPT ![r] = Tail(jobs[r])] /\ jobs[r] # <<>> /\ dest' = dest
      BY <2>2 DEF RecvJobs
    <3> QED BY <1>1, <3>1
  <2>3. CASE ~(r = 0 /\ Deal) /\ ~RecvJobs(r)
    BY <1>0, <2>3, Quiet
  <2> QED BY <2>1, <2>2, <2>3
<1>4. ToItself'
  <2>1. dest # 0 /\ jobs[0] = <<>> => dest' # 0 /\ jobs'[0] = <<>>
    BY <1>1, <1>3
  <2> QED BY <1>0, <1>2, <2>1 DEF ToItself
<1>5. ASSUME NEW q \in Ranks, q # r PROVE ShareOf(q)'
  <2>1. pc'[q] = pc[q] /\ files'[q] = files[q] /\ nth'[q] = nth[q] /\ ShareOf(q)
    BY <1>0, <1>1, <1>5, StepFrame DEF Shares
  <2> QED BY <1>0, <1>3, <2>1 DEF ShareOf
<1>6. ShareOf(r)'
  <2>1. /\ nth[r] \in Nat \ {0} /\ Len(files[r]) \in Nat /\ nth[r] <= Len(files[r]) + 1
        /\ LinkOf(r)
    BY <1>0, NumbersIn DEF CtlInv, PlaceOf, FitIn
  <2> DEFINE Stay == files'[r] = files[r] /\ nth'[r] = nth[r]
  <2>2. files[r] = <<>> => nth[r] = Len(files[r]) + 1
    BY <2>1
  <2>3. ASSUME Stay, pc[r] # "map", pc'[r] # "map",
               pc'[r] = "failed" => pc[r] = "failed" \/ files[r] = <<>>,
               pc'[r] = "head" \/ pc'[r] \in Headed => pc[r] = "head" \/ pc[r] \in Headed \/ files[r] # <<>>,
               pc'[r] \in {"finish", "final"} =>
                 pc[r] \in {"finish", "final", "failed"} \/ nth[r] > Len(files[r])
        PROVE  ShareOf(r)'
    <3>1. nth[r] > Len(files[r]) => nth[r] = Len(files[r]) + 1
      BY <2>1
    <3>2. pc'[r] \in {"finish", "final"} => nth[r] = Len(files[r]) + 1
      BY <1>2, <2>2, <2>3, <3>1 DEF ShareOf
    <3> QED BY <1>0, <1>2, <1>3, <2>3, <3>2 DEF ShareOf
  <2>4. CASE r = 0 /\ ReadMap /\ pc[r] = "map" /\ pc'[r] = "deal" /\ files'[0] = Slice(0)
    BY <1>0, <2>4 DEF ShareOf, Headed, Looping
  <2>5. CASE RecvJobs(r) /\ pc[r] = "map" /\ pc'[r] = "dealt"
    <3>1. /\ files' = [files EXCEPT ![r] = Head(jobs[r])] /\ jobs' = [jobs EXCEPT ![r] = Tail(jobs[r])]
          /\ jobs[r] # <<>> /\ dest' = dest
      BY <2>5 DEF RecvJobs
    <3>2. jobs[r] = <<Slice(r)>> /\ r < dest
      BY <1>1, <2>1, <3>1 DEF LinkOf
    <3>3. files'[r] = Slice(r) /\ jobs'[r] = <<>>
      BY <1>1, <3>1, <3>2
    <3> QED BY <1>0, <2>5, <3>1, <3>2, <3>3 DEF ShareOf, Headed, Looping
  <2>6. CASE ~(r = 0 /\ ReadMap) /\ ~RecvJobs(r) /\ ~PassToken(r)
    <3>1. Stay
      <4> USE DEF links, outs
      <4>1. CASE r = 0 /\ (ReadMap \/ Deal \/ WriteHead)
        BY <2>6, <4>1 DEF Deal, WriteHead
      <4>2. CASE InitArg(r) \/ Enter(r) \/ Leave(r) \/ OpenFirst(r)
        BY <4>2 DEF InitArg, Enter, Leave, OpenFirst
      <4>3. CASE Tell(r) \/ TakeToken(r) \/ EndLoop(r) \/ Launcher(r)
        BY <4>3 DEF Tell, TakeToken, EndLoop, Launcher
      <4>4. CASE Convert(r)
        BY <1>0, <4>4, ConvertIs
      <4> QED BY <2>6, <4>1, <4>2, <4>3, <4>4, Zenon DEF Done
    <3> HIDE DEF Stay
    <3>2. /\ pc[r] # "map" /\ pc'[r] # "map"
          /\ pc'[r] = "failed" => pc[r] = "failed" \/ files[r] = <<>>
          /\ pc'[r] = "head" \/ pc'[r] \in Headed => pc[r] = "head" \/ pc[r] \in Headed \/ files[r] # <<>>
          /\ pc'[r] \in {"finish", "final"} =>
               pc[r] \in {"finish", "final", "failed"} \/ nth[r] > Len(files[r])
      <4>1. /\ Sites = {"dealt", "main", "dir", "told", "finish", "failed"}
            /\ Headed = {"tell", "told", "loop", "token", "append", "finish"}
        BY DEF Sites, Headed, Looping
      <4> QED BY <1>0, <2>6, <4>1, CleanMoves
    <3> QED BY <2>3, <3>1, <3>2
  <2>7. CASE PassToken(r)
    <3>1. pc[r] = "append" /\ pc'[r] = "loop" /\ files' = files
      BY <1>0, <2>7, TokenSteps DEF PassToken
    <3> QED BY <1>0, <1>2, <1>3, <3>1 DEF ShareOf, Headed, Looping
  <2>8. ReadMap => pc[0] = "map"
    BY DEF ReadMap
  <2>9. RecvJobs(r) => r # 0 /\ pc[r] = "map"
    BY <1>1 DEF RecvJobs
  <2>10. r = 0 /\ ReadMap => pc'[r] = "deal" /\ files'[0] = Slice(0)
    BY <1>0, <2>8, <2>9, CleanMoves DEF Sites
  <2>11. RecvJobs(r) => pc'[r] = "dealt"
    BY <1>0, <2>9, CleanMoves DEF Sites
  <2> QED BY <2>4, <2>5, <2>6, <2>7, <2>8, <2>9, <2>10, <2>11
<1> QED BY <1>0, <1>4, <1>5, <1>6 DEF Shares

-----------------------------------------------------------------------------
(* What neighbours announce and pass on.                                   *)

(* Only Tell makes a rank one that has told.                               *)
LEMMA ToldKept ==
  ASSUME CtlInv, Shares, NEW r \in Ranks, Done(r), Clean', NEW q \in Ranks
  PROVE  /\ Told(q) => Told(q)'
         /\ Told(q)' => Told(q) \/ (q = r /\ Tell(r))
         /\ Tell(r) => Told(r)' /\ ~Told(r) /\ pc[r] = "tell"
         /\ pc[q] # "map" => files'[q] = files[q]
<1>0. Typed /\ ShareOf(r) /\ Shares' /\ Ranks' = Ranks
  BY SharesKept, StepFrame DEF CtlInv, Shares, Ranks
<1>1. q # r => pc'[q] = pc[q] /\ files'[q] = files[q]
  BY <1>0, StepFrame, Numbers
<1>2. pc[r] # "map" => files'[r] = files[r]
  <2>1. Slice(r)' = Slice(r)
    BY <1>0, StepFrame DEF Slice, Mod, Quot
  <2>2. pc[r] # "map" => pc'[r] # "map"
    BY <1>0, CleanMoves DEF Sites
  <2> QED BY <1>0, <2>1, <2>2 DEF ShareOf, Shares
<1>3. Told(r) => Told(r)'
  <2>1. files[r] # <<>> => pc[r] # "failed" \/ ~Told(r)
    BY DEF Told, Looping
  <2>2. Told(r) => pc[r] # "map" /\ files[r] # <<>>
    BY <1>0 DEF Told, Looping, ShareOf, Headed
  <2>3. pc[r] \in {"told"} \cup Looping => pc'[r] \in {"told", "final"} \cup Looping
    BY <1>0, CleanMoves DEF Looping, Sites
  <2>4. pc[r] = "final" => pc'[r] = "final"
    BY <1>0, CleanMoves DEF Sites
  <2> QED BY <1>2, <2>2, <2>3, <2>4 DEF Told
<1>4. Told(r)' => Told(r) \/ Tell(r)
  <2>1. pc'[r] \in {"told"} \cup Looping => pc[r] \in {"told"} \cup Looping \/ Tell(r)
    BY <1>0, CleanMoves DEF Looping, Sites
  <2>2. pc'[r] = "final" => pc[r] \in {"finish", "failed", "final"}
    BY <1>0, CleanMoves DEF Sites
  <2>3. CASE pc[r] = "failed"
    <3>1. files'[r] = <<>> \/ pc'[r] # "final"
      BY <1>0, <1>2, <2>3 DEF ShareOf
    <3> QED BY <2>1, <2>2, <3>1 DEF Told
  <2>4. CASE pc[r] = "final"
    BY <1>2, <2>1, <2>4 DEF Told
  <2>5. CASE pc[r] = "finish"
    BY <2>5 DEF Told, Looping
  <2> QED BY <2>1, <2>2, <2>3, <2>4, <2>5 DEF Told
<1>5. Tell(r) => Told(r)' /\ ~Told(r) /\ pc[r] = "tell"
  <2>1. Tell(r) => pc[r] = "tell"
    BY DEF Tell
  <2>2. Tell(r) => pc'[r] = "told"
    BY <1>0, <2>1, CleanMoves DEF Sites
  <2> QED BY <2>1, <2>2 DEF Told, Looping
<1> QED BY <1>1, <1>2, <1>3, <1>4, <1>5 DEF Told

(* What Tell does with the counts.                                         *)
LEMMA TellIs ==
  ASSUME CtlInv, Counted, NEW r \in Ranks, Tell(r), Clean'
  PROVE  /\ r = LastRank => r # 0 /\ nextjob' = nextjob
         /\ r # LastRank => /\ r < LastRank /\ count[r] = <<Len(files[r + 1])>>
                            /\ nextjob' = [nextjob EXCEPT ![r] = Len(files[r + 1])]
         /\ \A q \in Ranks : count'[q] = IF q = r THEN <<>>
                                         ELSE IF q = r - 1 THEN <<Len(files[r])>> ELSE count[q]
<1>0. Typed /\ Done(r) /\ CountOf(r) /\ (r # 0 => LinkOf(r - 1))
  <2>1. r # 0 => r - 1 \in Ranks
    BY Numbers DEF CtlInv
  <2> QED BY <2>1 DEF CtlInv, Counted, Done
<1>1. /\ r \in AllRanks /\ r \in Nat /\ r <= LastRank /\ LastRank \in Nat /\ cmd.np \in Nat
      /\ (r # 0 => r - 1 \in Ranks /\ r - 1 < LastRank) /\ Ranks \subseteq AllRanks
      /\ pc \in [AllRanks -> RankSteps] /\ count \in [AllRanks -> Seq(0 .. cmd.nf)]
      /\ Ranks \subseteq Nat
  <2>1. r \in Nat /\ r <= LastRank /\ (r # 0 => r - 1 \in Ranks) /\ Ranks \subseteq AllRanks /\ cmd.np \in Nat
        /\ Ranks \subseteq Nat
    BY <1>0, Numbers
  <2>2. LastRank \in Nat
    BY <1>0, NumbersIn
  <2> QED BY <1>0, <2>1, <2>2 DEF Typed
<1>2. pc[r] = "tell" /\ pc'[r] # "exit"
  BY <1>0, CleanBefore DEF Tell
<1>3. r # 0 => count[r - 1] = <<>>
  <2>1. r # 0 => r - 1 + 1 = r
    BY <1>1
  <2> QED BY <1>0, <1>1, <1>2, <2>1 DEF LinkOf, BeforeTell
<1>4. r # 0 => Append(count[r - 1], Len(files[r])) = <<Len(files[r])>>
  <2>1. \A x : Append(<<>>, x) = <<x>>
    OBVIOUS
  <2> QED BY <1>3, <2>1
<1> DEFINE There == /\ nextjob' = [nextjob EXCEPT ![r] = Head(count[r])]
                    /\ count' = IF r = 0 THEN [count EXCEPT ![r] = Tail(@)]
                                ELSE [count EXCEPT ![r] = Tail(@), ![r - 1] = Append(@, Len(files[r]))]
           ToFirst == nextjob' = nextjob /\ count' = [count EXCEPT ![r - 1] = Append(@, Len(files[r]))]
<1>7. \/ r < LastRank /\ count[r] # <<>> /\ There
      \/ r = LastRank /\ r > 0 /\ ToFirst
  <2>1. pc' # [pc EXCEPT ![r] = "exit"]
    BY <1>1, <1>2
  <2> QED BY <2>1 DEF Tell, Goto
<1> HIDE DEF There, ToFirst
<1>5. CASE r < LastRank /\ count[r] # <<>> /\ There
  <2>1. count[r] = <<Len(files[r + 1])>>
    BY <1>0, <1>5 DEF CountOf
  <2>2. Head(count[r]) = Len(files[r + 1]) /\ Tail(count[r]) = <<>>
    BY <2>1
  <2>3. /\ nextjob' = [nextjob EXCEPT ![r] = Len(files[r + 1])]
        /\ count' = IF r = 0 THEN [count EXCEPT ![r] = <<>>]
                    ELSE [count EXCEPT ![r] = <<>>, ![r - 1] = Append(@, Len(files[r]))]
    BY <1>5, <2>2 DEF There
  <2>4. \A q \in Ranks : count'[q] = IF q = r THEN <<>>
                                     ELSE IF q = r - 1 THEN <<Len(files[r])>> ELSE count[q]
    <3>1. CASE r = 0
      <4>1. \A q \in Ranks : q # r - 1
        BY <1>1, <3>1
      <4> QED BY <1>1, <2>3, <3>1, <4>1
    <3>2. CASE r # 0
      <4>1. r - 1 # r /\ r - 1 \in AllRanks
        BY <1>1, <3>2
      <4>2. count' = [count EXCEPT ![r] = <<>>, ![r - 1] = <<Len(files[r])>>]
        BY <1>1, <1>4, <2>3, <3>2, <4>1
      <4> QED BY <1>1, <3>2, <4>1, <4>2
    <3> QED BY <3>1, <3>2
  <2> QED BY <1>1, <1>5, <2>1, <2>3, <2>4
<1>6. CASE r = LastRank /\ r > 0 /\ ToFirst
  <2>1. nextjob' = nextjob /\ count' = [count EXCEPT ![r - 1] = <<Len(files[r])>>]
    <3>1. nextjob' = nextjob /\ count' = [count EXCEPT ![r - 1] = Append(count[r - 1], Len(files[r]))]
      BY <1>6 DEF ToFirst
    <3>2. Append(count[r - 1], Len(files[r])) = <<Len(files[r])>>
      BY <1>1, <1>4, <1>6
    <3> QED BY <3>1, <3>2
  <2>2. r - 1 # r /\ r - 1 \in AllRanks /\ count[r] = <<>>
    BY <1>0, <1>1, <1>6 DEF CountOf
  <2> QED BY <1>1, <1>6, <2>1, <2>2
<1> QED BY <1>5, <1>6, <1>7

LEMMA CountKept ==
  ASSUME CtlInv, Shares, Counted, NEW r \in Ranks, Done(r), Clean'
  PROVE  \A q \in Ranks : CountOf(q)'
<1>0. Typed /\ Ranks' = Ranks /\ LastRank' = LastRank
  BY StepFrame DEF CtlInv, Ranks, LastRank
<1> SUFFICES ASSUME NEW q \in Ranks PROVE CountOf(q)'
  BY <1>0
<1>1. /\ q \in Nat /\ r \in Nat /\ LastRank \in Nat /\ q <= LastRank /\ Ranks \subseteq Nat
      /\ (q < LastRank => q + 1 \in Ranks)
  BY <1>0, NumbersIn, Numbers
<1>2. CountOf(q) /\ CountOf(r)
  BY DEF Counted
<1>3. \A p \in Ranks : /\ Told(p) => Told(p)'
                       /\ Told(p)' => Told(p) \/ (p = r /\ Tell(r))
                       /\ pc[p] # "map" => files'[p] = files[p]
  BY ToldKept
(* The list of a rank that has told stays.                                 *)
<1>4. \A p \in Ranks : Told(p) => pc[p] # "map"
  BY DEF Told, Looping
<1>5. CASE ~Tell(r)
  <2>1. count' = count /\ (Told(q)' <=> Told(q))
    BY <1>0, <1>3, <1>5, Quiet
  <2>2. count[q] # <<>> /\ q < LastRank => Told(q + 1) /\ files'[q + 1] = files[q + 1]
    <3>1. q + 1 > q
      BY <1>1
    <3> QED BY <1>1, <1>2, <1>3, <1>4, <3>1 DEF CountOf
  <2>3. Told(q)' \/ count'[q] # <<>> => \A p \in Ranks : p > q => Told(p)'
    BY <1>2, <1>3, <2>1 DEF CountOf
  <2>4. Told(q)' \/ q = LastRank => count'[q] = <<>>
    BY <1>2, <2>1 DEF CountOf
  <2>5. q < LastRank => count'[q] = <<>> \/ count'[q] = <<Len(files'[q + 1])>>
    BY <1>2, <2>1, <2>2 DEF CountOf
  <2> QED BY <1>0, <2>3, <2>4, <2>5 DEF CountOf
<1>6. CASE Tell(r)
  <2>1. /\ r # LastRank => count[r] = <<Len(files[r + 1])>>
        /\ count'[q] = IF q = r THEN <<>> ELSE IF q = r - 1 THEN <<Len(files[r])>> ELSE count[q]
    BY <1>6, TellIs
  <2>2. Told(r)' /\ ~Told(r) /\ pc[r] = "tell" /\ files'[r] = files[r]
    BY <1>6, ToldKept
  <2>3. \A p \in Ranks : p > r => Told(p)
    <3>1. CASE r = LastRank
      <4>1. \A p \in Ranks : p <= LastRank
        BY <1>0, Numbers
      <4> QED BY <1>1, <3>1, <4>1
    <3>2. CASE r # LastRank
      <4>1. count[r] # <<>>
        <5>1. \A x : <<x>> # <<>>
          OBVIOUS
        <5> QED BY <2>1, <3>2, <5>1
      <4> QED BY <1>2, <4>1 DEF CountOf
    <3> QED BY <3>1, <3>2
  <2>4. CASE q = r
    <3>1. count'[q] = <<>>
      BY <2>1, <2>4
    <3> QED BY <1>0, <1>3, <2>3, <2>4, <3>1 DEF CountOf
  <2>5. CASE q = r - 1
    <3>1. count'[q] = <<Len(files'[q + 1])>> /\ q # LastRank
      <4>1. q + 1 = r /\ q # r /\ r <= LastRank
        BY <1>0, <1>1, <2>5, Numbers
      <4> QED BY <1>1, <2>1, <2>2, <2>5, <4>1
    <3>2. ~Told(q)'
      <4>1. ~Told(q)
        BY <1>1, <1>2, <2>2, <2>5 DEF CountOf
      <4> QED BY <1>1, <1>3, <2>5, <4>1
    <3>3. \A p \in Ranks : p > q => Told(p)'
      <4>1. \A p \in Ranks : p > q => p = r \/ p > r
        BY <1>1, <2>5
      <4> QED BY <1>3, <2>2, <2>3, <4>1
    <3> QED BY <1>0, <3>1, <3>2, <3>3 DEF CountOf
  <2>6. CASE q # r /\ q # r - 1
    <3>1. count'[q] = count[q] /\ (Told(q)' <=> Told(q))
      BY <1>3, <2>1, <2>6
    <3>2. count[q] # <<>> /\ q < LastRank => Told(q + 1) /\ files'[q + 1] = files[q + 1]
      <4>1. q + 1 > q
        BY <1>1
      <4> QED BY <1>1, <1>2, <1>3, <1>4, <4>1 DEF CountOf
    <3>3. Told(q)' \/ count'[q] # <<>> => \A p \in Ranks : p > q => Told(p)'
      BY <1>2, <1>3, <3>1 DEF CountOf
    <3>4. Told(q)' \/ q = LastRank => count'[q] = <<>>
      BY <1>2, <3>1 DEF CountOf
    <3>5. q < LastRank => count'[q] = <<>> \/ count'[q] = <<Len(files'[q + 1])>>
      BY <1>2, <3>1, <3>2 DEF CountOf
    <3> QED BY <1>0, <3>3, <3>4, <3>5 DEF CountOf
  <2> QED BY <2>4, <2>5, <2>6
<1> QED BY <1>5, <1>6

(* Only Tell and PassToken change the files that are still to announce.    *)
LEMMA JobsStay ==
  ASSUME Typed, NEW r \in Ranks, Done(r), ~Tell(r), ~PassToken(r)
  PROVE  nextjob' = nextjob
<1>1. CASE r = 0 /\ (ReadMap \/ Deal \/ WriteHead)
  BY <1>1 DEF ReadMap, Deal, WriteHead
<1>2. CASE RecvJobs(r) \/ InitArg(r) \/ Enter(r) \/ Leave(r) \/ OpenFirst(r)
  BY <1>2 DEF RecvJobs, InitArg, Enter, Leave, OpenFirst
<1>3. CASE TakeToken(r) \/ EndLoop(r) \/ Launcher(r)
  BY <1>3 DEF TakeToken, EndLoop, Launcher
<1>4. CASE Convert(r)
  BY <1>4, ConvertIs
<1> QED BY <1>1, <1>2, <1>3, <1>4, Zenon DEF Done

LEMMA OwedKept ==
  ASSUME TokInv, Shares, Counted, NEW r \in Ranks, Done(r), Clean'
  PROVE  \A q \in Ranks : OwedOf(q)'
<1>0. CtlInv /\ Typed /\ Ranks' = Ranks /\ LastRank' = LastRank
  BY StepFrame DEF TokInv, CtlInv, Ranks, LastRank
<1> SUFFICES ASSUME NEW q \in Ranks, q < LastRank, Told(q)'
             PROVE  tok'[q + 1] + (nth'[q + 1] - 1) + Here(q + 1)' + nextjob'[q] = Len(files'[q + 1])
  BY <1>0 DEF OwedOf
<1>1. /\ q \in Nat /\ q + 1 \in Ranks /\ q + 1 \in AllRanks /\ q \in AllRanks /\ r \in AllRanks /\ r \in Nat
      /\ q + 1 # q /\ q + 1 > q /\ q # LastRank
  BY <1>0, Numbers, NumbersIn
<1>2. /\ nth \in [AllRanks -> Nat \ {0}] /\ tok \in [AllRanks -> Nat] /\ nextjob \in [AllRanks -> 0 .. cmd.nf]
      /\ pc \in [AllRanks -> RankSteps]
  BY <1>0 DEF Typed
<1> DEFINE t == tok[q + 1]  n == nth[q + 1]  h == Here(q + 1)  j == nextjob[q]  l == Len(files[q + 1])
<1>3. t \in Nat /\ n \in Nat /\ h \in {0, 1} /\ j \in Nat /\ l \in Nat
  BY <1>0, <1>1, NumbersIn
<1>4. \A p \in Ranks : p # r => Here(p)' = Here(p)
  <2>1. \A p \in Ranks : p # r => pc'[p] = pc[p]
    BY <1>0, StepFrame, Numbers
  <2> QED BY <2>1 DEF Here
<1>5. CASE q = r /\ Tell(r)
  <2>1. nextjob'[q] = l
    <3>1. nextjob' = [nextjob EXCEPT ![r] = Len(files[r + 1])]
      BY <1>0, <1>1, <1>5, TellIs
    <3> QED BY <1>1, <1>2, <1>5, <3>1
  <2>2. tok' = tok /\ nth' = nth
    BY <1>5 DEF Tell
  <2>3. Told(q + 1)
    <3>1. count[r] # <<>>
      <4>1. \A x : <<x>> # <<>>
        OBVIOUS
      <4>2. count[r] = <<Len(files[r + 1])>>
        BY <1>0, <1>1, <1>5, TellIs
      <4> QED BY <4>1, <4>2
    <3> QED BY <1>1, <1>5, <3>1 DEF Counted, CountOf
  <2>4. files'[q + 1] = files[q + 1]
    <3>1. pc[q + 1] # "map"
      BY <2>3 DEF Told, Looping
    <3> QED BY <1>0, <1>1, <3>1, ToldKept
  <2>5. t + n + h <= 1
    <3>1. pc[q] = "tell" /\ q + 1 # 0 /\ q + 1 - 1 = q
      BY <1>1, <1>5 DEF Tell
    <3>2. nth[q] = 1
      BY <1>0, <3>1 DEF CtlInv, PlaceOf, FitIn, Early, BeforeTell
    <3> QED BY <1>1, <3>1, <3>2 DEF TokInv, TokensOf
  <2>6. t = 0 /\ n = 1 /\ h = 0
    <3>1. n # 0
      BY <1>1, <1>2
    <3> QED BY <1>3, <2>5, <3>1
  <2>7. Here(q + 1)' = h
    BY <1>1, <1>4, <1>5
  <2> QED BY <1>3, <2>1, <2>2, <2>4, <2>6, <2>7
<1>6. CASE ~(q = r /\ Tell(r))
  <2>1. Told(q) /\ Told(q + 1) /\ t + (n - 1) + h + j = l /\ files'[q + 1] = files[q + 1]
    <3>1. Told(q)
      BY <1>0, <1>6, ToldKept
    <3>2. Told(q + 1)
      BY <1>1, <3>1 DEF Counted, CountOf
    <3>3. pc[q + 1] # "map"
      BY <3>2 DEF Told, Looping
    <3>4. files'[q + 1] = files[q + 1]
      BY <1>0, <1>1, <3>3, ToldKept
    <3> QED BY <3>1, <3>2, <3>4 DEF Counted, OwedOf
  <2>2. CASE TakeToken(r)
    <3>1. /\ nth' = nth /\ tok' = [tok EXCEPT ![r] = IF r = 0 THEN 0 ELSE tok[r] - 1] /\ (r # 0 => tok[r] > 0)
          /\ pc[r] = "token" /\ nextjob' = nextjob
      BY <1>0, <2>2, TokenSteps DEF TakeToken
    <3>2. CASE q + 1 = r
      <4>1. h = 0 /\ Here(q + 1)' = 1
        <5>1. pc'[r] = "append"
          BY <1>0, <3>1, CleanMoves DEF Sites
        <5> QED BY <3>1, <3>2, <5>1 DEF Here
      <4>2. tok'[q + 1] = t - 1 /\ t > 0
        BY <1>1, <1>2, <3>1, <3>2
      <4> QED BY <1>3, <2>1, <3>1, <4>1, <4>2
    <3>3. CASE q + 1 # r
      <4>1. tok'[q + 1] = t
        BY <1>1, <1>2, <3>1, <3>3
      <4> QED BY <1>1, <1>3, <1>4, <2>1, <3>1, <3>3, <4>1
    <3> QED BY <3>2, <3>3
  <2>3. CASE PassToken(r)
    <3>1. /\ nth' = [nth EXCEPT ![r] = nth[r] + 1] /\ pc[r] = "append" /\ pc'[r] = "loop"
          /\ \/ tok' = tok /\ nextjob' = nextjob /\ ~Passes(r)
             \/ /\ tok' = [tok EXCEPT ![r + 1] = tok[r + 1] + 1] /\ Passes(r)
                /\ nextjob' = [nextjob EXCEPT ![r] = nextjob[r] - 1]
      BY <1>0, <2>3, TokenSteps DEF PassToken
    <3>2. CASE q + 1 = r
      <4>1. h = 1 /\ Here(q + 1)' = 0
        BY <3>1, <3>2 DEF Here
      <4>2. nth'[q + 1] = n + 1
        BY <1>1, <1>2, <3>1, <3>2
      <4>3. tok'[q + 1] = t /\ nextjob'[q] = j
        BY <1>1, <1>2, <3>1, <3>2
      <4> QED BY <1>3, <2>1, <4>1, <4>2, <4>3
    <3>3. CASE q = r
      <4>1. nth'[q + 1] = n /\ Here(q + 1)' = h
        BY <1>1, <1>2, <1>4, <3>1, <3>3
      <4>2. \/ tok'[q + 1] = t /\ nextjob'[q] = j
            \/ tok'[q + 1] = t + 1 /\ nextjob'[q] = j - 1
        BY <1>1, <1>2, <3>1, <3>3
      <4>3. t + (n - 1) + h + j = t + 1 + (n - 1) + h + (j - 1)
        <5>1. \A a, b, c, d \in Int : a + (b - 1) + c + d = a + 1 + (b - 1) + c + (d - 1)
          OBVIOUS
        <5>2. t \in Int /\ n \in Int /\ h \in Int /\ j \in Int
          BY <1>3
        <5> QED BY <5>1, <5>2
      <4> QED BY <2>1, <4>1, <4>2, <4>3
    <3>4. CASE q + 1 # r /\ q # r
      <4>1. nth'[q + 1] = n /\ Here(q + 1)' = h
        BY <1>1, <1>2, <1>4, <3>1, <3>4
      <4>2. tok'[q + 1] = t /\ nextjob'[q] = j
        BY <1>1, <1>2, <3>1, <3>4
      <4> QED BY <2>1, <4>1, <4>2
    <3> QED BY <3>2, <3>3, <3>4
  <2>4. CASE ~TakeToken(r) /\ ~PassToken(r)
    <3>1. tok' = tok /\ nth' = nth
      BY <1>0, <2>4, Quiet
    <3>2. nextjob'[q] = j
      <4>1. CASE Tell(r)
        <5>1. nextjob' = nextjob \/ nextjob' = [nextjob EXCEPT ![r] = Len(files[r + 1])]
          BY <1>0, <4>1, TellIs
        <5> QED BY <1>1, <1>2, <1>6, <4>1, <5>1
      <4>2. CASE ~Tell(r)
        <5>1. nextjob' = nextjob
          BY <2>4, <4>2, JobsStay, <1>0
        <5> QED BY <5>1
      <4> QED BY <4>1, <4>2
    <3>3. Here(q + 1)' = h
      <4>1. pc[r] # "append" /\ pc'[r] # "append"
        BY <1>0, <2>4, CleanMoves DEF Sites
      <4> QED BY <1>1, <1>4, <4>1 DEF Here
    <3> QED BY <2>1, <3>1, <3>2, <3>3
  <2> QED BY <2>2, <2>3, <2>4
<1> QED BY <1>5, <1>6

-----------------------------------------------------------------------------
(* What is in all.csv.                                                     *)

(* Written, after a step.                                                  *)
Then(r, n, k) == n < nth'[r] \/ (n = nth'[r] /\ k = 1 /\ pc'[r] = "append")

(* A rank appends the part that comes next, and all.csv stays exact.       *)
LEMMA ExactGrows ==
  ASSUME OrderInv, Exact, NEW r \in Ranks, NEW j \in {1, 2}, all' = Append(all, Part(r, nth[r], j)), Ranks' = Ranks,
         ~Written(r, nth[r], j), Then(r, nth[r], j), pc'[0] = "final" => pc[0] = "final",
         \A q \in Ranks, k \in {1, 2}, n \in Nat \ {0} :
           Then(q, n, k) <=> Written(q, n, k) \/ (q = r /\ n = nth[r] /\ k = j)
  PROVE  Exact'
<1>0. Typed
  BY DEF OrderInv, TokInv, CtlInv
<1>1. all \in Seq(Parts) /\ Len(all) \in Nat /\ DOMAIN all = 1 .. Len(all) /\ nth[r] \in Nat \ {0} /\ r \in Nat
  BY <1>0, NumbersIn DEF Typed
<1> DEFINE new == Part(r, nth[r], j)
<1>2. new \in Parts /\ new.rank = r /\ new.nth = nth[r] /\ new.part = j
  BY <1>1 DEF Part, Parts
<1>3. /\ DOMAIN all' = 1 .. Len(all) + 1 /\ all'[Len(all) + 1] = new
      /\ \A b \in 1 .. Len(all) : all'[b] = all[b]
  <2>1. \A S, x, y : x \in Seq(S) /\ y \in S =>
          /\ Append(x, y) \in Seq(S) /\ Len(Append(x, y)) = Len(x) + 1 /\ Append(x, y)[Len(x) + 1] = y
          /\ \A i \in 1 .. Len(x) : Append(x, y)[i] = x[i]
    BY AppendProperties
  <2>2. /\ all' \in Seq(Parts) /\ Len(all') = Len(all) + 1 /\ all'[Len(all) + 1] = new
        /\ \A b \in 1 .. Len(all) : all'[b] = all[b]
    BY <1>1, <1>2, <2>1
  <2> QED BY <1>1, <2>2
<1>4. \A b \in DOMAIN all : all[b] \in Parts
  BY <1>1
<1>5. \A b \in DOMAIN all : \/ all[b].rank < 0 /\ b = 1
                            \/ /\ all[b].rank \in Ranks /\ all[b].nth # 0
                               /\ Written(all[b].rank, all[b].nth, all[b].part)
  BY DEF Exact
<1>6. \A b \in DOMAIN all : all[b] # new
  <2> SUFFICES ASSUME NEW b \in DOMAIN all, all[b] = new PROVE FALSE
    OBVIOUS
  <2>1. all[b].rank = r /\ all[b].nth = nth[r] /\ all[b].part = j
    BY <1>2
  <2>2. ~(r < 0)
    BY <1>1
  <2> QED BY <1>5, <2>1, <2>2
<1> HIDE DEF new
<1>7. pc'[0] = "final" => all' # <<>> /\ all'[1] = Header
  <2>1. pc'[0] = "final" => all # <<>> /\ all[1] = Header
    BY DEF Exact
  <2>2. all # <<>> => 1 \in 1 .. Len(all)
    BY <1>1
  <2>3. 1 \in DOMAIN all' => all' # <<>>
    OBVIOUS
  <2> QED BY <1>1, <1>3, <2>1, <2>2, <2>3
<1>8. ASSUME NEW b \in DOMAIN all'
      PROVE  \/ all'[b].rank < 0 /\ b = 1
             \/ /\ all'[b].rank \in Ranks /\ all'[b].nth # 0
                /\ Then(all'[b].rank, all'[b].nth, all'[b].part)
  <2>1. CASE b \in DOMAIN all
    <3>1. all'[b] = all[b] /\ all[b].nth \in Nat /\ all[b].part \in {1, 2}
      BY <1>1, <1>3, <1>4, <2>1 DEF Parts
    <3>2. CASE all[b].rank < 0 /\ b = 1
      BY <3>1, <3>2
    <3>3. CASE all[b].rank \in Ranks /\ all[b].nth # 0 /\ Written(all[b].rank, all[b].nth, all[b].part)
      <4>1. all[b].nth \in Nat \ {0}
        BY <3>1, <3>3
      <4> QED BY <3>1, <3>3, <4>1
    <3> QED BY <1>5, <2>1, <3>2, <3>3
  <2>2. CASE b = Len(all) + 1
    <3>1. all'[b].rank = r /\ all'[b].nth = nth[r] /\ all'[b].part = j
      BY <1>2, <1>3, <2>2
    <3> QED BY <1>1, <3>1
  <2> QED BY <1>1, <1>3, <2>1, <2>2
<1>9. ASSUME NEW q \in Ranks, NEW k \in {1, 2}, NEW n \in Nat \ {0}, Then(q, n, k)
      PROVE  \E b \in DOMAIN all' : all'[b] = Part(q, n, k)
  <2>1. CASE Written(q, n, k)
    <3>1. PICK b \in DOMAIN all : all[b] = Part(q, n, k)
      BY <2>1 DEF Exact
    <3>2. b \in DOMAIN all' /\ all'[b] = all[b]
      BY <1>1, <1>3
    <3> QED BY <3>1, <3>2
  <2>2. CASE q = r /\ n = nth[r] /\ k = j
    <3>1. Len(all) + 1 \in DOMAIN all' /\ all'[Len(all) + 1] = Part(q, n, k)
      BY <1>1, <1>3, <2>2 DEF new
    <3> QED BY <3>1
  <2> QED BY <1>9, <2>1, <2>2
<1>10. ASSUME NEW a \in DOMAIN all', NEW b \in DOMAIN all', all'[a] = all'[b] PROVE a = b
  <2>1. \A c \in DOMAIN all' : c # Len(all) + 1 => c \in DOMAIN all /\ all'[c] = all[c] /\ all[c] # new
    BY <1>1, <1>3, <1>6
  <2>2. \A c, d \in DOMAIN all : all[c] = all[d] => c = d
    BY DEF Exact
  <2>3. CASE a = Len(all) + 1 /\ b # Len(all) + 1
    <3>1. all'[b] # all'[a]
      BY <1>3, <2>1, <2>3
    <3> QED BY <1>10, <3>1
  <2>4. CASE b = Len(all) + 1 /\ a # Len(all) + 1
    <3>1. all'[b] # all'[a]
      BY <1>3, <2>1, <2>4
    <3> QED BY <1>10, <3>1
  <2>5. CASE a # Len(all) + 1 /\ b # Len(all) + 1
    <3>1. all[a] = all[b]
      BY <1>10, <2>1, <2>5
    <3> QED BY <2>1, <2>2, <2>5, <3>1
  <2> QED BY <2>3, <2>4, <2>5
<1> QED BY <1>7, <1>8, <1>9, <1>10 DEF Exact, Written, Then

LEMMA ExactKept ==
  ASSUME OrderInv, Shares, Exact, NEW r \in Ranks, Done(r), Clean'
  PROVE  Exact'
<1>0. CtlInv /\ Typed /\ Ranks' = Ranks
  BY StepFrame DEF OrderInv, TokInv, CtlInv, Ranks
<1>1. /\ r \in AllRanks /\ r \in Nat /\ 0 \in Ranks /\ nth \in [AllRanks -> Nat \ {0}] /\ Ranks \subseteq AllRanks
      /\ nth[r] \in Nat \ {0}
  BY <1>0, Numbers, NumbersIn DEF Typed
<1>2. \A q \in Ranks : q # r => pc'[q] = pc[q]
  BY <1>0, <1>1, StepFrame
<1>3. CASE TakeToken(r)
  <2>1. /\ nth' = nth /\ pc[r] = "token" /\ pc'[r] = "append" /\ all' = Append(all, Part(r, nth[r], 1))
    <3>1. pc[r] = "token" /\ nth' = nth
      BY <1>0, <1>3, TokenSteps
    <3> QED BY <1>0, <3>1, CleanMoves DEF Sites
  <2>2. ASSUME NEW q \in Ranks, NEW k \in {1, 2}, NEW n \in Nat \ {0}
        PROVE  Then(q, n, k) <=> Written(q, n, k) \/ (q = r /\ n = nth[r] /\ k = 1)
    <3>1. CASE q = r
      BY <2>1, <3>1 DEF Written, Then
    <3>2. CASE q # r
      BY <1>2, <2>1, <3>2 DEF Written, Then
    <3> QED BY <3>1, <3>2
  <2>3. ~Written(r, nth[r], 1) /\ Then(r, nth[r], 1)
    BY <1>1, <2>1 DEF Written, Then
  <2>4. pc'[0] = "final" => pc[0] = "final"
    BY <1>1, <1>2, <2>1
  <2> QED BY <1>0, <2>1, <2>2, <2>3, <2>4, ExactGrows
<1>4. CASE PassToken(r)
  <2>1. /\ nth' = [nth EXCEPT ![r] = nth[r] + 1] /\ pc[r] = "append" /\ pc'[r] = "loop"
        /\ all' = Append(all, Part(r, nth[r], 2))
    BY <1>0, <1>4, TokenSteps DEF PassToken
  <2>2. nth'[r] = nth[r] + 1 /\ \A q \in Ranks : q # r => nth'[q] = nth[q]
    BY <1>1, <2>1
  <2>3. ASSUME NEW q \in Ranks, NEW k \in {1, 2}, NEW n \in Nat \ {0}
        PROVE  Then(q, n, k) <=> Written(q, n, k) \/ (q = r /\ n = nth[r] /\ k = 2)
    <3>1. CASE q = r
      <4>1. n < nth[r] + 1 <=> n < nth[r] \/ n = nth[r]
        BY <1>1
      <4> QED BY <1>1, <2>1, <2>2, <3>1, <4>1 DEF Written, Then
    <3>2. CASE q # r
      BY <1>2, <2>2, <3>2 DEF Written, Then
    <3> QED BY <3>1, <3>2
  <2>4. ~Written(r, nth[r], 2) /\ Then(r, nth[r], 2)
    BY <1>1, <2>1, <2>2 DEF Written, Then
  <2>5. pc'[0] = "final" => pc[0] = "final"
    BY <1>1, <1>2, <2>1
  <2> QED BY <1>0, <2>1, <2>3, <2>4, <2>5, ExactGrows
<1>5. CASE ~TakeToken(r) /\ ~PassToken(r)
  <2>1. nth' = nth /\ (pc'[r] = "append" <=> pc[r] = "append")
    <3>1. nth' = nth
      BY <1>0, <1>5, Quiet
    <3>2. pc'[r] # "append" /\ pc[r] # "append"
      BY <1>0, <1>5, CleanMoves DEF Sites
    <3> QED BY <3>1, <3>2
  <2>2. \A q \in Ranks : pc'[q] = "append" <=> pc[q] = "append"
    BY <1>2, <2>1
  <2>3. CASE r = 0 /\ WriteHead
    <3>1. all' = <<Header>> /\ pc[0] = "head" /\ pc'[0] = "tell"
      <4>1. pc[0] = "head"
        BY <2>3 DEF WriteHead
      <4> QED BY <1>0, <2>3, <4>1, CleanMoves DEF Sites
    <3>2. \A q \in Ranks : nth[q] = 1 /\ pc[q] # "append"
      <4>1. nth[0] = 1
        BY <1>0, <1>1, <3>1 DEF CtlInv, PlaceOf, FitIn, Early, BeforeTell
      <4>2. ASSUME NEW q \in Ranks PROVE nth[q] = 1 /\ pc[q] # "append"
        <5>1. nth[q] <= 1 /\ nth[q] \in Nat \ {0} /\ tok[q] \in Nat /\ (q # 0 => q - 1 \in Ranks)
          BY <1>0, <4>1, NumbersIn, Numbers DEF OrderInv, TokInv, TokensOf
        <5>2. q # 0 => tok[q] + nth[q] + Here(q) <= nth[q - 1] /\ nth[q - 1] <= 1
          BY <4>1, <5>1 DEF OrderInv, TokInv, TokensOf
        <5>3. q # 0 => nth[q - 1] \in Nat /\ Here(q) \in {0, 1}
          BY <1>0, <5>1, NumbersIn
        <5>4. q # 0 => Here(q) = 0
          BY <5>1, <5>2, <5>3
        <5>5. q # 0 => pc[q] # "append"
          BY <5>4 DEF Here
        <5>6. nth[q] = 1
          BY <5>1
        <5> QED BY <3>1, <5>5, <5>6
      <4> QED BY <4>2
    <3>3. \A q \in Ranks, k \in {1, 2}, n \in Nat \ {0} : ~Then(q, n, k)
      BY <2>1, <2>2, <3>2 DEF Written, Then
    <3>4. DOMAIN all' = 1 .. 1 /\ all'[1] = Header
      BY <3>1
    <3>5. Header.rank < 0
      BY DEF Header, Part
    <3> QED BY <1>0, <3>1, <3>3, <3>4, <3>5 DEF Exact, Written, Then
  <2>4. CASE ~(r = 0 /\ WriteHead)
    <3>1. all' = all
      BY <1>0, <1>5, <2>4, Quiet
    <3>2. pc'[0] = "final" => all # <<>> /\ all[1] = Header
      <4>1. pc'[0] = "final" => pc[0] \in {"final", "finish"}
        <5>1. r = 0 /\ pc'[0] = "final" => pc[0] \in {"final", "finish"}
          BY <1>0, CleanMoves DEF Sites
        <5> QED BY <1>1, <1>2, <5>1
      <4> QED BY <4>1 DEF Exact, OrderInv, LogInv, Headed, Looping
    <3>3. \A q \in Ranks : \A k, n : Then(q, n, k) <=> Written(q, n, k)
      BY <2>1, <2>2 DEF Written, Then
    <3>4. ASSUME NEW b \in DOMAIN all'
          PROVE  \/ all'[b].rank < 0 /\ b = 1
                 \/ /\ all'[b].rank \in Ranks /\ all'[b].nth # 0
                    /\ Then(all'[b].rank, all'[b].nth, all'[b].part)
      BY <3>1, <3>3 DEF Exact
    <3>5. \A q \in Ranks, k \in {1, 2}, n \in Nat \ {0} :
            Then(q, n, k) => \E b \in DOMAIN all : all[b] = Part(q, n, k)
      BY <3>3 DEF Exact
    <3>6. \A a, b \in DOMAIN all : all[a] = all[b] => a = b
      BY DEF Exact
    <3> QED BY <1>0, <3>1, <3>2, <3>4, <3>5, <3>6 DEF Exact, Written, Then
  <2> QED BY <2>3, <2>4
<1> QED BY <1>3, <1>4, <1>5

LEMMA InvHolds == Spec => []CompleteInv
<1>1. ASSUME Init PROVE CompleteInv
  <2>1. OrderInv /\ Typed
    BY <1>1, OrderAtFirst DEF OrderInv, TokInv, CtlInv
  <2>2. Ranks \subseteq AllRanks /\ 0 \in Ranks /\ 0 \in AllRanks
    BY <2>1, Numbers
  <2>3. \A r \in Ranks : /\ pc[r] = "map" /\ count[r] = <<>> /\ jobs[r] = <<>> /\ nth[r] = 1
    BY <1>1, <2>2 DEF Init
  <2>4. Shares
    <3>1. Mod # 0 => dest # 0 /\ jobs[0] = <<>>
      BY <1>1, <2>2, <2>3 DEF Init, FirstDest
    <3> QED BY <2>3, <3>1 DEF Shares, ToItself, ShareOf, Headed, Looping
  <2>5. Counted
    BY <2>3 DEF Counted, CountOf, OwedOf, Told, Looping
  <2>6. Exact
    <3>1. all \in {<<>>, <<OldRun>>} /\ OldRun.rank < 0
      BY <1>1 DEF Init, OldRun, Part
    <3>2. DOMAIN <<>> = {} /\ DOMAIN <<OldRun>> = 1 .. 1 /\ \A b \in 1 .. 1 : <<OldRun>>[b] = OldRun /\ b = 1
      OBVIOUS
    <3>3. DOMAIN all \subseteq 1 .. 1 /\ \A b \in DOMAIN all : all[b].rank < 0 /\ b = 1
      BY <3>1, <3>2
    <3>4. \A r \in Ranks, k \in {1, 2}, n \in Nat \ {0} : ~Written(r, n, k)
      BY <2>3 DEF Written
    <3>5. \A a, b \in DOMAIN all : a = b
      BY <3>3
    <3> QED BY <2>2, <2>3, <3>3, <3>4, <3>5 DEF Exact
  <2> QED BY <2>1, <2>4, <2>5, <2>6 DEF CompleteInv
<1>2. ASSUME CompleteInv, [Next]_vars PROVE CompleteInv'
  <2>1. OrderInv'
    BY <1>2, OrderStep DEF CompleteInv
  <2>2. CASE Next
    <3>1. PICK r \in Ranks : Done(r)
      BY <2>2, NextDone
    <3>2. OrderInv /\ TokInv /\ CtlInv /\ Typed /\ Ranks' = Ranks
      BY <1>2, <3>1, StepFrame DEF CompleteInv, OrderInv, TokInv, CtlInv, Ranks
    <3>3. ASSUME Clean' PROVE Shares' /\ Counted' /\ Exact'
      <4>1. Shares /\ Counted /\ Exact
        BY <1>2, <3>1, <3>2, <3>3, CleanBefore DEF CompleteInv
      <4>2. Shares'
        BY <3>1, <3>2, <3>3, <4>1, SharesKept
      <4>3. Counted'
        BY <3>1, <3>2, <3>3, <4>1, CountKept, OwedKept DEF Counted
      <4>4. Exact'
        BY <3>1, <3>2, <3>3, <4>1, ExactKept
      <4> QED BY <4>2, <4>3, <4>4
    <3> QED BY <2>1, <3>3 DEF CompleteInv
  <2>3. CASE UNCHANGED vars
    <3>1. Clean' <=> Clean
      BY <2>3 DEF vars, links, outs, Clean, Ranks
    <3>2. Shares => Shares'
      BY <2>3 DEF vars, links, outs, Shares, ToItself, ShareOf, Ranks, Slice, Mod, Quot
    <3>3. Counted => Counted'
      BY <2>3 DEF vars, links, outs, Counted, CountOf, OwedOf, Told, Here, Ranks, LastRank
    <3>4. Exact => Exact'
      BY <2>3 DEF vars, links, outs, Exact, Written, Ranks
    <3> QED BY <1>2, <2>1, <3>1, <3>2, <3>3, <3>4 DEF CompleteInv
  <2> QED BY <1>2, <2>2, <2>3
<1> QED BY <1>1, <1>2, PTL DEF Spec

-----------------------------------------------------------------------------
(* The slices make up the record files.                                    *)

LEMMA SlicesApart ==
  ASSUME Typed, NEW r \in Ranks, NEW s \in Ranks, r < s
  PROVE  Offset(r) + Size(r) <= Offset(s)
<1>1. /\ r \in Nat /\ s \in Nat /\ Mod \in Nat /\ Quot \in Nat /\ r + 1 <= s
  BY Numbers
<1>2. CASE s < Mod
  <2>1. Offset(r) = r * (Quot + 1) /\ Size(r) = Quot + 1 /\ Offset(s) = s * (Quot + 1)
    BY <1>1, <1>2 DEF Offset, Size
  <2>2. (r + 1) * (Quot + 1) <= s * (Quot + 1)
    BY <1>1, Product
  <2>3. (r + 1) * (Quot + 1) = r * (Quot + 1) + (Quot + 1)
    BY <1>1, Z3
  <2> QED BY <2>1, <2>2, <2>3
<1>3. CASE r < Mod /\ ~(s < Mod)
  <2>1. Offset(r) = r * (Quot + 1) /\ Size(r) = Quot + 1 /\ Offset(s) = Mod * (Quot + 1) + (s - Mod) * Quot
    BY <1>1, <1>3 DEF Offset, Size
  <2>2. (r + 1) * (Quot + 1) <= Mod * (Quot + 1) /\ (r + 1) * (Quot + 1) \in Nat /\ Mod * (Quot + 1) \in Nat
    BY <1>1, <1>3, Product
  <2>3. (r + 1) * (Quot + 1) = r * (Quot + 1) + (Quot + 1)
    BY <1>1, Z3
  <2>4. (s - Mod) * Quot \in Nat
    <3>1. s - Mod \in Nat
      BY <1>1, <1>3
    <3> QED BY <1>1, <3>1, Product
  <2>5. \A a, b, c \in Nat : a <= b => a <= b + c
    OBVIOUS
  <2> QED BY <2>1, <2>2, <2>3, <2>4, <2>5
<1>4. CASE ~(r < Mod)
  <2>1. /\ Offset(r) = Mod * (Quot + 1) + (r - Mod) * Quot /\ Size(r) = Quot
        /\ Offset(s) = Mod * (Quot + 1) + (s - Mod) * Quot
    BY <1>1, <1>4 DEF Offset, Size
  <2>2. r - Mod \in Nat /\ r - Mod + 1 \in Nat /\ s - Mod \in Nat /\ r - Mod + 1 <= s - Mod
    BY <1>1, <1>4
  <2>3. (r - Mod + 1) * Quot <= (s - Mod) * Quot /\ (s - Mod) * Quot \in Nat /\ (r - Mod) * Quot \in Nat
    BY <1>1, <2>2, Product
  <2>4. (r - Mod + 1) * Quot = (r - Mod) * Quot + Quot
    BY <1>1, <2>2, Z3
  <2>5. Mod * (Quot + 1) \in Nat
    BY <1>1, Product
  <2>6. \A a, b, c, d \in Nat : b + d <= c => a + b + d <= a + c
    OBVIOUS
  <2> QED BY <1>1, <2>1, <2>3, <2>4, <2>5, <2>6
<1> QED BY <1>1, <1>2, <1>3, <1>4

LEMMA SlicesCover ==
  ASSUME Typed, NEW f \in FileNos
  PROVE  \E r \in Ranks : \E n \in 1 .. Size(r) : Offset(r) + n = f
<1>1. /\ Mod \in Nat /\ Mod <= cmd.np - 1 /\ Quot \in Nat /\ cmd.np \in Nat /\ cmd.nf \in Nat
      /\ cmd.nf = cmd.np * Quot + Mod
  BY Numbers
<1>2. f - 1 \in Nat /\ f \in Nat /\ f <= cmd.nf
  BY <1>1 DEF FileNos
<1>3. cmd.nf = Mod * (Quot + 1) + (cmd.np - Mod) * Quot
  BY <1>1, Z3
<1> DEFINE long == Mod * (Quot + 1)
<1>4. long \in Nat
  BY <1>1, Product
<1> HIDE DEF long
<1>5. CASE f - 1 < long
  <2> DEFINE w == Quot + 1
  <2>0. w \in Nat \ {0} /\ w - 1 = Quot
    BY <1>1
  <2> HIDE DEF w
  <2> DEFINE r == (f - 1) \div w  m == (f - 1) % w
  <2>1. r \in Nat /\ m \in 0 .. Quot /\ f - 1 = (Quot + 1) * r + m
    <3>1. r \in Nat /\ m \in 0 .. w - 1 /\ f - 1 = w * r + m
      BY <1>2, <2>0, Division
    <3> QED BY <2>0, <3>1 DEF w
  <2> HIDE DEF r, m
  <2>2. r < Mod
    <3> SUFFICES ASSUME Mod <= r PROVE FALSE
      BY <1>1, <2>1
    <3>1. Mod * (Quot + 1) <= r * (Quot + 1) /\ r * (Quot + 1) \in Nat
      BY <1>1, <2>1, Product
    <3>2. r * (Quot + 1) = (Quot + 1) * r
      BY <1>1, <2>1, Z3
    <3> QED BY <1>1, <1>4, <1>5, <2>1, <3>1, <3>2 DEF long
  <2>3. r \in Ranks /\ Size(r) = Quot + 1 /\ Offset(r) = r * (Quot + 1)
    BY <1>1, <2>1, <2>2 DEF Ranks, Size, Offset
  <2>4. r * (Quot + 1) + (m + 1) = f
    <3>1. r * (Quot + 1) = (Quot + 1) * r /\ r * (Quot + 1) \in Nat
      BY <1>1, <2>1, Product, Z3
    <3> QED BY <1>2, <2>1, <3>1
  <2>5. m + 1 \in 1 .. Quot + 1
    BY <1>1, <2>1
  <2> QED BY <2>3, <2>4, <2>5
<1>6. CASE ~(f - 1 < long)
  <2> DEFINE g == f - 1 - long
  <2>1. g \in Nat /\ cmd.np - Mod \in Nat
    BY <1>1, <1>2, <1>4, <1>6
  <2>2. g < (cmd.np - Mod) * Quot
    <3>1. (cmd.np - Mod) * Quot \in Nat
      BY <1>1, <2>1, Product
    <3> QED BY <1>2, <1>3, <1>4, <3>1 DEF long
  <2> HIDE DEF g
  <2>3. Quot \in Nat \ {0}
    <3>1. Quot = 0 => (cmd.np - Mod) * Quot = 0
      BY <2>1
    <3> QED BY <1>1, <2>1, <2>2, <3>1
  <2> DEFINE d == g \div Quot  m == g % Quot
  <2>4. d \in Nat /\ m \in 0 .. Quot - 1 /\ g = Quot * d + m
    BY <2>1, <2>3, Division
  <2> HIDE DEF d, m
  <2>5. d < cmd.np - Mod
    <3> SUFFICES ASSUME cmd.np - Mod <= d PROVE FALSE
      BY <2>1, <2>4
    <3>1. (cmd.np - Mod) * Quot <= d * Quot /\ d * Quot \in Nat /\ (cmd.np - Mod) * Quot \in Nat
      BY <1>1, <2>1, <2>4, Product
    <3>2. d * Quot = Quot * d
      BY <1>1, <2>4, Z3
    <3> QED BY <1>1, <2>1, <2>2, <2>4, <3>1, <3>2
  <2>6. /\ Mod + d \in Ranks /\ Size(Mod + d) = Quot /\ Mod + d - Mod = d
        /\ Offset(Mod + d) = Mod * (Quot + 1) + (Mod + d - Mod) * Quot
    BY <1>1, <2>1, <2>4, <2>5 DEF Ranks, Size, Offset
  <2>7. Mod * (Quot + 1) + d * Quot + (m + 1) = f
    <3>1. d * Quot = Quot * d /\ d * Quot \in Nat
      BY <1>1, <2>4, Product, Z3
    <3>2. g = f - 1 - Mod * (Quot + 1) /\ Mod * (Quot + 1) \in Nat
      BY <1>4 DEF g, long
    <3>5. m \in Int /\ f \in Int
      BY <1>2, <2>3, <2>4
    <3> DEFINE X == Mod * (Quot + 1)  Y == d * Quot
    <3>6. X \in Int /\ Y \in Int /\ g = f - 1 - X /\ g = Y + m /\ g \in Int
      BY <2>1, <2>4, <3>1, <3>2
    <3> HIDE DEF X, Y
    <3>7. X + Y + (m + 1) = f
      BY ONLY <3>5, <3>6
    <3> QED BY <3>7 DEF X, Y
  <2>8. m + 1 \in 1 .. Quot
    BY <2>3, <2>4
  <2> QED BY <2>6, <2>7, <2>8
<1> QED BY <1>5, <1>6

LEMMA SliceUnique ==
  ASSUME Typed, NEW r \in Ranks, NEW s \in Ranks, NEW m \in 1 .. Size(r), NEW n \in 1 .. Size(s),
         Offset(r) + m = Offset(s) + n
  PROVE  r = s /\ m = n
<1>1. /\ r \in Nat /\ s \in Nat /\ Size(r) \in Nat /\ Size(s) \in Nat /\ Offset(r) \in Nat /\ Offset(s) \in Nat
  BY SliceIs, Numbers
<1>2. CASE r < s
  <2>1. Offset(r) + Size(r) <= Offset(s)
    BY <1>2, SlicesApart
  <2> QED BY <1>1, <2>1
<1>3. CASE s < r
  <2>1. Offset(s) + Size(s) <= Offset(r)
    BY <1>3, SlicesApart
  <2> QED BY <1>1, <2>1
<1>4. CASE r = s
  BY <1>1, <1>4
<1> QED BY <1>1, <1>2, <1>3, <1>4

(* all.csv when every rank has written its slice: its entries behind the   *)
(* header and the parts of the record files are equally many.              *)
LEMMA EntriesCounted ==
  ASSUME Typed, Exact, all # <<>>, all[1] = Header,
         \A r \in Ranks : files[r] = Slice(r) /\ nth[r] = Len(files[r]) + 1 /\ pc[r] = "final"
  PROVE  /\ Len(all) = 1 + 2 * cmd.nf
         /\ \A f \in FileNos, k \in 1 .. 2 : \E b \in 2 .. Len(all) :
              /\ all[b].rank \in Ranks /\ all[b].part = k
              /\ files[all[b].rank][all[b].nth] = f
<1>1. /\ all \in Seq(Parts) /\ Len(all) \in Nat /\ DOMAIN all = 1 .. Len(all) /\ cmd.nf \in Nat /\ Ranks \subseteq Nat
  <2>1. cmd.nf \in Nat /\ Ranks \subseteq Nat
    BY Numbers
  <2> QED BY <2>1 DEF Typed
<1>2. 1 <= Len(all)
  BY <1>1
<1>3. \A r \in Ranks : /\ nth[r] = Size(r) + 1 /\ Size(r) \in Nat /\ Offset(r) \in Nat
                       /\ Offset(r) + Size(r) <= cmd.nf
                       /\ \A n \in 1 .. Size(r) : files[r][n] = Offset(r) + n /\ Offset(r) + n \in FileNos
  <2>1. \A r \in Ranks : /\ nth[r] = Size(r) + 1 /\ Size(r) \in Nat /\ Offset(r) \in Nat
                         /\ Offset(r) + Size(r) <= cmd.nf
                         /\ \A n \in 1 .. Size(r) : files[r][n] = Offset(r) + n
    BY SliceIs, Lists
  <2>2. \A o, s \in Nat : o + s <= cmd.nf => \A n \in 1 .. s : o + n \in FileNos
    BY <1>1 DEF FileNos
  <2> QED BY <2>1, <2>2
<1> DEFINE E == 2 .. Len(all)
           File(b) == Offset(all[b].rank) + all[b].nth
           Place(b) == 2 * (File(b) - 1) + all[b].part
(* Each entry behind the header is a part of a file.                       *)
<1>4. ASSUME NEW b \in E
      PROVE  /\ all[b].rank \in Ranks /\ all[b].nth \in 1 .. Size(all[b].rank) /\ all[b].part \in {1, 2}
             /\ File(b) \in FileNos /\ files[all[b].rank][all[b].nth] = File(b)
             /\ all[b] = Part(all[b].rank, all[b].nth, all[b].part)
  <2>1. b \in DOMAIN all /\ b # 1 /\ all[b] \in Parts
    BY <1>1
  <2>2. all[b].nth \in Nat /\ all[b].part \in {1, 2} /\ all[b] = Part(all[b].rank, all[b].nth, all[b].part)
    BY <2>1 DEF Parts, Part
  <2>3. all[b].rank \in Ranks /\ all[b].nth # 0 /\ Written(all[b].rank, all[b].nth, all[b].part)
    BY <2>1 DEF Exact
  <2>4. all[b].nth < nth[all[b].rank]
    BY <2>3 DEF Written
  <2>5. all[b].nth \in 1 .. Size(all[b].rank)
    BY <1>3, <2>2, <2>3, <2>4
  <2>6. files[all[b].rank][all[b].nth] = File(b)
    BY <1>3, <2>3, <2>5
  <2>7. File(b) \in FileNos
    BY <1>3, <2>3, <2>5
  <2> QED BY <2>2, <2>3, <2>5, <2>6, <2>7
(* Each part of a file has such an entry.                                  *)
<1>5. ASSUME NEW f \in FileNos, NEW k \in {1, 2}
      PROVE  \E b \in E : all[b].rank \in Ranks /\ all[b].part = k /\ File(b) = f
  <2>1. PICK r \in Ranks : \E n \in 1 .. Size(r) : Offset(r) + n = f
    BY SlicesCover
  <2>2. PICK n \in 1 .. Size(r) : Offset(r) + n = f
    BY <2>1
  <2>3. n \in Nat \ {0} /\ Written(r, n, k)
    BY <1>3 DEF Written
  <2>4. PICK b \in DOMAIN all : all[b] = Part(r, n, k)
    BY <2>3 DEF Exact
  <2>5. all[b].rank = r /\ all[b].nth = n /\ all[b].part = k
    BY <2>4 DEF Part
  <2>6. b # 1
    <3>1. Header.rank = -1
      BY DEF Header, Part
    <3> QED BY <1>1, <2>5, <3>1
  <2>7. b \in E
    BY <1>1, <2>6
  <2> QED BY <2>2, <2>5, <2>7
<1> HIDE DEF File
<1>6. \A b \in E : Place(b) \in 1 .. 2 * cmd.nf
  <2>1. \A f \in 1 .. cmd.nf, k \in {1, 2} : 2 * (f - 1) + k \in 1 .. 2 * cmd.nf
    BY <1>1
  <2> QED BY <1>4, <2>1 DEF FileNos
<1>7. ASSUME NEW a \in E, NEW b \in E, Place(a) = Place(b) PROVE a = b
  <2>1. \A e, f \in Nat, j, k \in {1, 2} : 2 * (e - 1) + j = 2 * (f - 1) + k => e = f /\ j = k
    OBVIOUS
  <2>2. File(a) = File(b) /\ all[a].part = all[b].part
    <3>1. FileNos \subseteq Nat
      BY <1>1 DEF FileNos
    <3>2. File(a) \in Nat /\ File(b) \in Nat /\ all[a].part \in {1, 2} /\ all[b].part \in {1, 2}
      BY <1>4, <3>1
    <3>3. 2 * (File(a) - 1) + all[a].part = 2 * (File(b) - 1) + all[b].part
      BY <1>7
    <3> QED BY ONLY <2>1, <3>2, <3>3
  <2>3. all[a].rank = all[b].rank /\ all[a].nth = all[b].nth
    BY <1>4, <2>2, SliceUnique DEF File
  <2>4. all[a] = all[b]
    BY <1>4, <2>2, <2>3
  <2> QED BY <1>1, <2>4 DEF Exact
<1>8. ASSUME NEW p \in 1 .. 2 * cmd.nf PROVE \E b \in E : Place(b) = p
  <2>1. PICK f \in FileNos, k \in {1, 2} : 2 * (f - 1) + k = p
    <3> DEFINE q == (p - 1) \div 2  m == (p - 1) % 2
    <3>1. q \in Nat /\ m \in 0 .. 1 /\ p - 1 = 2 * q + m
      <4>1. p - 1 \in Nat /\ 2 \in Nat \ {0} /\ 2 - 1 = 1
        BY <1>1
      <4>2. q \in Nat /\ m \in 0 .. 2 - 1 /\ p - 1 = 2 * q + m
        BY <4>1, Division
      <4> QED BY <4>1, <4>2
    <3> HIDE DEF q, m
    <3>2. p \in Nat /\ p <= 2 * cmd.nf /\ m \in {0, 1}
      BY <1>1, <3>1
    <3>3. q + 1 <= cmd.nf
      BY <1>1, <3>1, <3>2
    <3>4. q + 1 \in FileNos
      BY <1>1, <3>1, <3>3 DEF FileNos
    <3>5. m + 1 \in {1, 2} /\ 2 * ((q + 1) - 1) + (m + 1) = p
      BY <3>1, <3>2
    <3> DEFINE e == q + 1  i == m + 1
    <3>6. e \in FileNos /\ i \in {1, 2} /\ 2 * (e - 1) + i = p
      BY <3>4, <3>5
    <3> HIDE DEF e, i
    <3> QED BY <3>6
  <2>2. PICK b \in E : all[b].part = k /\ File(b) = f
    BY <1>5
  <2> QED BY <2>1, <2>2
<1> DEFINE G == [b \in E |-> Place(b)]
<1>9. G \in Injection(E, 1 .. 2 * cmd.nf) /\ G \in Surjection(E, 1 .. 2 * cmd.nf)
  <2> HIDE DEF E, Place
  <2>1. G \in [E -> 1 .. 2 * cmd.nf]
    BY <1>6
  <2>2. \A a, b \in E : G[a] = G[b] => a = b
    BY <1>7
  <2>3. \A p \in 1 .. 2 * cmd.nf : \E b \in E : G[b] = p
    BY <1>8
  <2>4. DOMAIN G = E
    OBVIOUS
  <2> HIDE DEF G
  <2> QED BY <2>1, <2>2, <2>3, <2>4 DEF Injection, IsInjective, Surjection
<1>10. Cardinality(E) = Cardinality(1 .. 2 * cmd.nf)
  <2>1. IsFiniteSet(1 .. 2 * cmd.nf)
    <3>1. 2 * cmd.nf \in Int /\ 1 \in Int
      BY <1>1
    <3> QED BY ONLY <3>1, FS_Interval
  <2> HIDE DEF E, G
  <2> QED BY <1>9, <2>1, FS_Injection
<1>11. Cardinality(1 .. 2 * cmd.nf) = 2 * cmd.nf
  <2>1. 2 * cmd.nf \in Nat /\ 1 \in Int
    BY <1>1
  <2>2. Cardinality(1 .. 2 * cmd.nf) = IF 1 > 2 * cmd.nf THEN 0 ELSE 2 * cmd.nf - 1 + 1
    BY <2>1, FS_Interval
  <2> QED BY <2>1, <2>2
<1>12. Cardinality(E) = Len(all) - 1
  <2>1. Cardinality(E) = IF 2 > Len(all) THEN 0 ELSE Len(all) - 2 + 1
    <3>1. Len(all) \in Int /\ 2 \in Int
      BY <1>1
    <3> QED BY <3>1, FS_Interval
  <2> QED BY <1>1, <1>2, <2>1
<1>13. Len(all) = 1 + 2 * cmd.nf
  BY <1>1, <1>10, <1>11, <1>12
<1>14. \A k \in 1 .. 2 : k \in {1, 2}
  OBVIOUS
<1>15. \A f \in FileNos, k \in 1 .. 2 : \E b \in E :
         all[b].rank \in Ranks /\ all[b].part = k /\ files[all[b].rank][all[b].nth] = f
  BY <1>4, <1>5, <1>14
<1> QED BY <1>13, <1>15

(* When every rank has reached MPI_Finalize without an error, all.csv has  *)
(* the header and both parts of the text of every record file, once, and   *)
(* no message is left apart from the list that rank 0 sends itself: the    *)
(* slices rank 0 deals are those the ranks count on, and the number of     *)
(* files each rank announces is the number of tokens it is sent.           *)
THEOREM CompleteHolds == Spec => []Complete
<1>1. ASSUME CompleteInv, fails = 0, \A r \in Ranks : pc[r] = "final"
      PROVE  /\ Len(all) = 1 + 2 * cmd.nf
             /\ \A f \in FileNos, k \in 1 .. 2 : \E b \in 2 .. Len(all) :
                  /\ all[b].rank \in Ranks /\ all[b].part = k
                  /\ files[all[b].rank][all[b].nth] = f
             /\ \A r \in Ranks : /\ tok[r] = 0 /\ count[r] = <<>>
                                 /\ jobs[r] # <<>> => r = 0 /\ Mod = 0
  <2>1. OrderInv /\ TokInv /\ Typed /\ Shares /\ Counted /\ Exact
    BY <1>1 DEF CompleteInv, OrderInv, TokInv, CtlInv, Clean
  <2>2. 0 \in Ranks /\ Ranks \subseteq Nat /\ LastRank \in Nat /\ \A r \in Ranks : r <= LastRank
    BY <2>1, Numbers, NumbersIn
  <2>3. \A r \in Ranks : /\ files[r] = Slice(r) /\ nth[r] = Len(files[r]) + 1
                         /\ (r # 0 => jobs[r] = <<>>)
    BY <1>1, <2>1 DEF Shares, ShareOf
  <2>4. files[0] # <<>>
    <3>1. Quot = 0 => Mod # 0
      BY <2>1, Numbers
    <3>2. Size(0) # 0
      BY <2>1, <3>1, Numbers DEF Size
    <3>3. Len(files[0]) # 0
      BY <2>1, <2>2, <2>3, <3>2, Lists
    <3> QED BY <3>3
  <2>5. \A r \in Ranks : Told(r)
    <3>1. Told(0)
      BY <1>1, <2>2, <2>4 DEF Told
    <3>2. \A r \in Ranks : r > 0 => Told(r)
      BY <2>1, <2>2, <3>1 DEF Counted, CountOf
    <3> QED BY <2>2, <3>1, <3>2
  <2>6. ASSUME NEW r \in Ranks PROVE tok[r] = 0
    <3>1. CASE r = 0
      BY <2>1, <3>1 DEF TokInv, TokensOf
    <3>2. CASE r # 0
      <4>1. r - 1 \in Ranks /\ r - 1 < LastRank /\ r - 1 + 1 = r
        BY <2>1, <2>2, <3>2, Numbers
      <4>2. tok[r] + (nth[r] - 1) + Here(r) + nextjob[r - 1] = Len(files[r])
        BY <2>1, <2>5, <4>1 DEF Counted, OwedOf
      <4>3. tok[r] \in Nat /\ Here(r) \in {0, 1} /\ nextjob[r - 1] \in Nat /\ Len(files[r]) \in Nat
        BY <2>1, <4>1, NumbersIn
      <4> QED BY <2>3, <4>2, <4>3
    <3> QED BY <3>1, <3>2
  <2>7. \A r \in Ranks : count[r] = <<>> /\ (jobs[r] # <<>> => r = 0 /\ Mod = 0)
    BY <2>1, <2>2, <2>3, <2>5 DEF Counted, CountOf, Shares, ToItself
  <2>8. all # <<>> /\ all[1] = Header
    BY <1>1, <2>1, <2>2 DEF Exact
  <2>9. /\ Len(all) = 1 + 2 * cmd.nf
        /\ \A f \in FileNos, k \in 1 .. 2 : \E b \in 2 .. Len(all) :
             /\ all[b].rank \in Ranks /\ all[b].part = k
             /\ files[all[b].rank][all[b].nth] = f
    BY <1>1, <2>1, <2>3, <2>8, EntriesCounted
  <2> QED BY <2>6, <2>7, <2>9
<1>2. CompleteInv => Complete
  BY <1>1 DEF Complete
<1> QED BY <1>2, InvHolds, PTL
=============================================================================
