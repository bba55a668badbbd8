----------------------------- MODULE PhMpiProofs -----------------------------
(***************************************************************************)
(* Theorems about the MPI probe for every number of ranks, buffer size,    *)
(* number of tags and number of calls and failures.  A fast read takes no  *)
(* care of the buffer, so the theorems about stored records are about      *)
(* programs that call it in range: FastLimit <= BufNrec.                   *)
(***************************************************************************)
EXTENDS PhMpi, SequenceTheorems, TLAPS

(* What is left of phmpi_finalize after the last record and its dump.      *)
AtEnd == Cons(Do("return"), <<>>)
Leave == Cons(Do("barrier"), AtEnd)
Info(r) == IF r = 0 THEN Cons(Do("wtinfo"), Leave) ELSE Leave
Finish(r) == Cons(Do("flush"), Info(r))

(* Inside phmpi_dump, with the steps rest to follow.                       *)
Dumping(r, rest) ==
  \/ /\ todo[r] = Cons(Do("dump"), rest) /\ ph_irec[r] \in 1 .. BufNrec
     /\ ~fast[r] => ph_irec[r] < BufNrec
  \/ /\ todo[r] = Cons(Put("S_dump"), Cons(Do("wtrec"), Cons(Do("zero"), Cons(Put("E_dump"), rest))))
     /\ ph_irec[r] \in 1 .. BufNrec - 1
  \/ /\ todo[r] = Cons(Do("wtrec"), Cons(Do("zero"), Cons(Put("E_dump"), rest)))
     /\ ph_irec[r] \in 1 .. BufNrec
  \/ todo[r] = Cons(Do("zero"), Cons(Put("E_dump"), rest))
  \/ todo[r] = Cons(Put("E_dump"), rest) /\ ph_irec[r] = 0

(* The buffer of a rank that reads: with phmpi_read alone it never fills.  *)
Room(r) == ph_irec[r] \in 1 .. BufNrec /\ (~fast[r] => ph_irec[r] <= BufNrec - 2)

(* Inside phmpi_read of tag t or a fast read, before and after its record. *)
Again(t, rest) == Cons(Do("zero"), Cons(Put(t), rest))
Before(r, t, rest) ==
  \/ todo[r] = Cons(Read(t), rest) /\ Room(r)
  \/ todo[r] = Cons(Put(t), Cons(Do("check"), rest)) /\ ph_irec[r] \in 1 .. BufNrec - 2
  \/ /\ fast[r]
     /\ \/ Dumping(r, Again(t, rest))
        \/ todo[r] = Again(t, rest) /\ ph_irec[r] = 1
        \/ todo[r] = Cons(Put(t), rest) /\ ph_irec[r] < BufNrec
After(r, rest) ==
  \/ todo[r] = Cons(Do("check"), rest) /\ ph_irec[r] \in 2 .. BufNrec - 1
  \/ Dumping(r, rest)
  \/ todo[r] = rest /\ Room(r)

Wrote(r) == \E i \in DOMAIN log[r] : log[r][i] = "E_main"

(* Where a rank is when it has passed k barriers, and what it has done.    *)
Setup(r, k) ==
  /\ phase[r] = "setup" /\ ph_irec[r] = 0
  /\ \/ todo[r] = <<>> /\ settags[r] = k /\ (r = 0 => ctags = k)
     \/ todo[r] = Cons(Do("barrier"), <<>>) /\ settags[r] = k + 1 /\ (r = 0 => ctags = k + 1)
     \/ /\ r = 0 /\ todo[r] = Cons(Do("wtctag"), Cons(Do("barrier"), <<>>))
        /\ settags[r] = k + 1 /\ ctags = k
Opening(r, k) ==
  /\ phase[r] = "open" /\ k = NSetTag /\ (r = 0 => ctags = NSetTag) /\ ph_irec[r] = 0
  /\ \/ todo[r] = Cons(Do("mkrec"), Cons(Do("barrier"), Cons(Put("S_main"), <<>>)))
     \/ todo[r] = Cons(Do("barrier"), Cons(Put("S_main"), <<>>)) /\ rec_hdr[r] # NoFile
Running(r, k) ==
  /\ phase[r] = "open" /\ k = NSetTag + 1
  /\ \/ todo[r] = Cons(Put("S_main"), <<>>) /\ ph_irec[r] = 0
     \/ Before(r, "user", <<>>)
     \/ After(r, <<>>)
Closing(r, k) ==
  /\ phase[r] = "closing"
  /\ \/ k = NSetTag + 1 /\ todo[r] = Cons(Do("barrier"), Cons(Read("E_main"), Finish(r))) /\ Room(r)
     \/ k = NSetTag + 2 /\ Before(r, "E_main", Finish(r))
     \/ k = NSetTag + 2 /\ After(r, Finish(r)) /\ Wrote(r)
     \/ k = NSetTag + 2 /\ todo[r] \in {Info(r), Leave} /\ Wrote(r)
     \/ k = NSetTag + 3 /\ todo[r] = AtEnd /\ Wrote(r)
Finished(r, k) == phase[r] = "done" /\ k = NSetTag + 3 /\ todo[r] = <<>> /\ Wrote(r)
Gone(r) == phase[r] = "gone" /\ todo[r] = <<>> /\ fails # 0

Stage(r, k) == Setup(r, k) \/ Opening(r, k) \/ Running(r, k) \/ Closing(r, k) \/ Finished(r, k)

(* The ranks that are left have passed the same barriers; behind the one   *)
(* of phmpi_commit all record files are open and all tags written.         *)
AllOpen == (\A q \in Ranks : rec_hdr[q] # NoFile) /\ ctags = NSetTag
Control(k) ==
  /\ \A r \in Ranks : Stage(r, k) \/ Gone(r)
  /\ k > NSetTag \/ (\E r \in Ranks : log[r] # <<>>) => AllOpen

ControlInv == TypeOK /\ \E k \in Nat : Control(k)

(* With the steps s still to do in phase p: the records of the buffer are  *)
(* in the file, a dump begins, the run info is written.                    *)
Stored(p, s) ==
  \/ p \in {"done", "gone"}
  \/ s # <<>> /\ Head(s)[1] \in {"zero", "wtinfo", "return"}
  \/ s = Leave
DumpBegins(s) == s # <<>> /\ Head(s)[1] = "put" /\ Head(s)[2] = "S_dump"
Reported(p, s) == p = "done" \/ (s # <<>> /\ Head(s)[1] = "return") \/ s = Leave
InFileNow(r) == Stored(phase[r], todo[r])

InBuffer(r, n) == \E j \in 0 .. ph_irec[r] - 1 : ph_precs[r][j] = n
InFile(r, n) == \E i \in DOMAIN rec_rows[r] : rec_rows[r][i] = n

RowsInv(r) ==
  /\ \A i \in DOMAIN rec_rows[r] : rec_rows[r][i] \in 1 .. Len(log[r])
  /\ \A i, j \in DOMAIN rec_rows[r] : i < j => rec_rows[r][i] < rec_rows[r][j]
  /\ \A i \in 0 .. ph_irec[r] - 1 : ph_precs[r][i] \in 1 .. Len(log[r])
  /\ \A i, j \in 0 .. ph_irec[r] - 1 : i < j => ph_precs[r][i] < ph_precs[r][j]
  /\ ~InFileNow(r) => \A i \in DOMAIN rec_rows[r] : \A j \in 0 .. ph_irec[r] - 1 :
                     rec_rows[r][i] < ph_precs[r][j]
  /\ phase[r] # "gone" /\ ph_irec[r] >= 1 /\ ~DumpBegins(todo[r]) => ph_precs[r][ph_irec[r] - 1] = Len(log[r])

(* Without fast reads and failures nothing is missing.                     *)
CompleteInv(r) ==
  fails = 0 /\ phase[r] # "gone" /\ ~fast[r] =>
    /\ \A i \in DOMAIN rec_rows[r] : rec_rows[r][i] = i
    /\ Len(log[r]) = Len(rec_rows[r]) + IF InFileNow(r) THEN 0 ELSE ph_irec[r]
    /\ ~InFileNow(r) => \A j \in 0 .. ph_irec[r] - 1 : ph_precs[r][j] = Len(rec_rows[r]) + 1 + j

(* With them, the missing records are known.                               *)
LossInv(r) ==
  fails = 0 /\ phase[r] # "gone" =>
    \A n \in 1 .. Len(log[r]) :
      \/ InFile(r, n)
      \/ ~InFileNow(r) /\ InBuffer(r, n)
      \/ log[r][n] = "E_dump"
      \/ n < Len(log[r]) /\ log[r][n + 1] = "S_dump"
      \/ DumpBegins(todo[r]) /\ ph_irec[r] = BufNrec - 1 /\ n = Len(log[r])

EndInv(r) ==
  fails = 0 /\ phase[r] # "gone" =>
    /\ nrec_tot[r] = Len(rec_rows[r])
    /\ phase[r] \in {"closing", "done"} /\ InFileNow(r) /\ ~At(r, "zero") => InFile(r, Len(log[r]))
    /\ r = 0 => IF Reported(phase[r], todo[r])
                THEN Len(run_info) = 1 ELSE run_info = <<>>

DataOf(r) == RowsInv(r) /\ CompleteInv(r) /\ LossInv(r) /\ EndInv(r)
DataInv == ControlInv /\ \A r \in Ranks : DataOf(r)

(* The events of a rank are fixed when its record file is there, and the   *)
(* accepted rows of etag.csv are numbered like the events of rank 0.       *)
HeaderInv ==
  \A r \in Ranks : rec_hdr[r] # NoFile => rec_hdr[r] = ph_nev[r] /\ (ph_ready[r] \/ phase[r] = "gone")
InfoInv == \A i \in DOMAIN run_info : run_info[i].nevent = rec_hdr[0]
EtagInv ==
  /\ \A i \in DOMAIN etag : etag[i][2] => etag[i][1] \in 1 .. ph_nev[0]
  /\ \A n \in 1 .. ph_nev[0] : \E i \in DOMAIN etag : etag[i][1] = n /\ etag[i][2]
  /\ \A a, b \in DOMAIN etag : a < b /\ etag[a][2] /\ etag[b][2] => etag[a][1] < etag[b][1]
EventInv == ControlInv /\ HeaderInv /\ InfoInv /\ EtagInv

-----------------------------------------------------------------------------
(* Sequences of steps.                                                     *)
StepSet == Ops \X (Tags \cup {"none"})

LEMMA StepTypes ==
  /\ \A op \in Ops : Do(op) \in StepSet /\ Do(op)[1] = op /\ Do(op)[2] = "none"
  /\ \A t \in Tags : Put(t) \in StepSet /\ Put(t)[1] = "put" /\ Put(t)[2] = t
  /\ \A t \in Tags : Read(t) \in StepSet /\ Read(t)[1] = "read" /\ Read(t)[2] = t
  BY DEF StepSet, Do, Put, Read, Ops, Tags

(* A step put in front of others comes first and leaves the others.        *)
LEMMA ConsFacts ==
  \A a \in StepSet : \A s \in Seq(StepSet) :
    Cons(a, s) \in Seq(StepSet) /\ Cons(a, s) # <<>> /\ Head(Cons(a, s)) = a /\ Tail(Cons(a, s)) = s
<1> SUFFICES ASSUME NEW a \in StepSet, NEW s \in Seq(StepSet), NEW c, c = Cons(a, s)
             PROVE  c \in Seq(StepSet) /\ c # <<>> /\ Head(c) = a /\ Tail(c) = s
  OBVIOUS
<1>1. /\ c \in Seq(StepSet) /\ Len(c) = 1 + Len(s)
      /\ \A i \in 1 .. 1 + Len(s) : c[i] = IF i <= 1 THEN a ELSE s[i - 1]
  <2>1. <<a>> \in Seq(StepSet) /\ Len(<<a>>) = 1 /\ <<a>>[1] = a
    OBVIOUS
  <2> QED BY <2>1, ConcatProperties DEF Cons
<1>2. Len(s) \in Nat /\ \A i \in 1 .. Len(s) : s[i] \in StepSet
  OBVIOUS
<1>3. c # <<>> /\ Head(c) = a
  <2>1. 1 \in 1 .. 1 + Len(s)
    BY <1>2
  <2>2. c[1] = a
    BY <1>1, <2>1
  <2> QED BY <1>1, <1>2, <2>2
<1>4. Tail(c) \in Seq(StepSet) /\ Len(Tail(c)) = Len(s) /\ \A i \in 1 .. Len(s) : Tail(c)[i] = s[i]
  <2>1. Tail(c) \in Seq(StepSet) /\ Len(Tail(c)) = Len(c) - 1 /\ \A i \in 1 .. Len(Tail(c)) : Tail(c)[i] = c[i + 1]
    BY <1>1, <1>3, HeadTailProperties
  <2>2. ASSUME NEW i \in 1 .. Len(s) PROVE c[i + 1] = s[i]
    <3>1. i + 1 \in 1 .. 1 + Len(s) /\ ~(i + 1 <= 1) /\ i + 1 - 1 = i
      BY <1>2
    <3> QED BY <1>1, <3>1
  <2> QED BY <1>1, <1>2, <2>1, <2>2
<1>5. Tail(c) = s
  BY <1>4, SeqEqual
<1> QED
  BY <1>1, <1>3, <1>5

(* Short sequences, step by step.                                          *)
LEMMA Glue ==
  /\ \A a, b \in StepSet : <<a>> \o <<b>> = <<a, b>>
  /\ \A a, b, c \in StepSet : <<a>> \o <<b, c>> = <<a, b, c>>
  /\ \A a, b, c, d \in StepSet : <<a>> \o <<b, c, d>> = <<a, b, c, d>>
<1> SUFFICES ASSUME NEW a \in StepSet
             PROVE  /\ \A b \in StepSet : <<a>> \o <<b>> = <<a, b>>
                    /\ \A b, c \in StepSet : <<a>> \o <<b, c>> = <<a, b, c>>
                    /\ \A b, c, d \in StepSet : <<a>> \o <<b, c, d>> = <<a, b, c, d>>
  OBVIOUS
<1>1. ASSUME NEW s \in Seq(StepSet), NEW t \in Seq(StepSet), Len(t) = Len(s) + 1, t[1] = a,
             \A i \in 1 .. Len(s) : t[i + 1] = s[i]
      PROVE  <<a>> \o s = t
  <2>1. <<a>> \in Seq(StepSet) /\ Len(<<a>>) = 1 /\ <<a>>[1] = a
    OBVIOUS
  <2>2. /\ <<a>> \o s \in Seq(StepSet) /\ Len(<<a>> \o s) = 1 + Len(s)
        /\ \A i \in 1 .. 1 + Len(s) : (<<a>> \o s)[i] = IF i <= 1 THEN a ELSE s[i - 1]
    BY <2>1, ConcatProperties
  <2>3. ASSUME NEW i \in 1 .. 1 + Len(s) PROVE (<<a>> \o s)[i] = t[i]
    <3>1. CASE i = 1
      BY <1>1, <2>2, <3>1
    <3>2. CASE i # 1
      <4>1. i - 1 \in 1 .. Len(s) /\ i - 1 + 1 = i /\ ~(i <= 1)
        BY <3>2
      <4>2. t[i] = s[i - 1]
        BY <1>1, <4>1
      <4> QED BY <2>2, <4>1, <4>2
    <3> QED BY <3>1, <3>2
  <2> QED BY <1>1, <2>2, <2>3, SeqEqual
<1>2. ASSUME NEW b \in StepSet PROVE <<a>> \o <<b>> = <<a, b>>
  <2>1. <<b>> \in Seq(StepSet) /\ <<a, b>> \in Seq(StepSet) /\ Len(<<a, b>>) = Len(<<b>>) + 1
        /\ <<a, b>>[1] = a /\ \A i \in 1 .. Len(<<b>>) : <<a, b>>[i + 1] = <<b>>[i]
    OBVIOUS
  <2> QED BY <1>1, <2>1
<1>3. ASSUME NEW b \in StepSet, NEW c \in StepSet PROVE <<a>> \o <<b, c>> = <<a, b, c>>
  <2>1. <<b, c>> \in Seq(StepSet) /\ <<a, b, c>> \in Seq(StepSet) /\ Len(<<a, b, c>>) = Len(<<b, c>>) + 1
        /\ <<a, b, c>>[1] = a /\ \A i \in 1 .. Len(<<b, c>>) : <<a, b, c>>[i + 1] = <<b, c>>[i]
    OBVIOUS
  <2> QED BY <1>1, <2>1
<1>4. ASSUME NEW b \in StepSet, NEW c \in StepSet, NEW d \in StepSet
      PROVE  <<a>> \o <<b, c, d>> = <<a, b, c, d>>
  <2>1. <<b, c, d>> \in Seq(StepSet) /\ <<a, b, c, d>> \in Seq(StepSet)
        /\ Len(<<a, b, c, d>>) = Len(<<b, c, d>>) + 1
        /\ <<a, b, c, d>>[1] = a /\ \A i \in 1 .. Len(<<b, c, d>>) : <<a, b, c, d>>[i + 1] = <<b, c, d>>[i]
    OBVIOUS
  <2> QED BY <1>1, <2>1
<1> QED
  BY <1>2, <1>3, <1>4

LEMMA PushOne ==
  \A a \in StepSet : \A s \in Seq(StepSet) : <<a>> \o s = Cons(a, s) /\ <<a>> = Cons(a, <<>>)
  BY DEF Cons

LEMMA PushLast ==
  \A a \in StepSet : <<a>> = Cons(a, <<>>)
<1>1. <<>> \in Seq(StepSet)
  OBVIOUS
<1> QED
  BY <1>1, PushOne

LEMMA PushTwo ==
  \A a, b \in StepSet : \A s \in Seq(StepSet) :
    <<a, b>> \o s = Cons(a, Cons(b, s)) /\ <<a, b>> = Cons(a, Cons(b, <<>>))
<1> SUFFICES ASSUME NEW a \in StepSet, NEW b \in StepSet, NEW s \in Seq(StepSet)
             PROVE  <<a, b>> \o s = Cons(a, Cons(b, s)) /\ <<a, b>> = Cons(a, Cons(b, <<>>))
  OBVIOUS
<1>0. <<a>> \in Seq(StepSet) /\ <<b>> \in Seq(StepSet)
  OBVIOUS
<1>1. <<a>> \in Seq(StepSet) /\ <<b>> \in Seq(StepSet) /\ <<a>> \o <<b>> = <<a, b>>
  BY <1>0, Glue
<1>2. (<<a>> \o <<b>>) \o s = <<a>> \o (<<b>> \o s)
  BY <1>1, ConcatAssociative
<1>3. <<a>> \o (<<b>> \o s) = Cons(a, Cons(b, s)) /\ <<a>> \o <<b>> = Cons(a, Cons(b, <<>>))
  BY PushOne DEF Cons
<1> QED
  BY <1>1, <1>2, <1>3

LEMMA PushThree ==
  \A a, b, c \in StepSet : \A s \in Seq(StepSet) :
    <<a, b, c>> \o s = Cons(a, Cons(b, Cons(c, s))) /\ <<a, b, c>> = Cons(a, Cons(b, Cons(c, <<>>)))
<1> SUFFICES ASSUME NEW a \in StepSet, NEW b \in StepSet, NEW c \in StepSet, NEW s \in Seq(StepSet)
             PROVE  /\ <<a, b, c>> \o s = Cons(a, Cons(b, Cons(c, s)))
                    /\ <<a, b, c>> = Cons(a, Cons(b, Cons(c, <<>>)))
  OBVIOUS
<1>0. <<a>> \in Seq(StepSet) /\ <<b, c>> \in Seq(StepSet)
  OBVIOUS
<1>1. <<a>> \in Seq(StepSet) /\ <<b, c>> \in Seq(StepSet) /\ <<a>> \o <<b, c>> = <<a, b, c>>
  BY <1>0, Glue
<1>2. (<<a>> \o <<b, c>>) \o s = <<a>> \o (<<b, c>> \o s)
  BY <1>1, ConcatAssociative
<1> QED
  BY <1>1, <1>2, PushTwo DEF Cons

LEMMA PushFour ==
  \A a, b, c, d \in StepSet : \A s \in Seq(StepSet) :
    <<a, b, c, d>> \o s = Cons(a, Cons(b, Cons(c, Cons(d, s))))
<1> SUFFICES ASSUME NEW a \in StepSet, NEW b \in StepSet, NEW c \in StepSet, NEW d \in StepSet,
                    NEW s \in Seq(StepSet)
             PROVE  <<a, b, c, d>> \o s = Cons(a, Cons(b, Cons(c, Cons(d, s))))
  OBVIOUS
<1>0. <<a>> \in Seq(StepSet) /\ <<b, c, d>> \in Seq(StepSet)
  OBVIOUS
<1>1. <<a>> \in Seq(StepSet) /\ <<b, c, d>> \in Seq(StepSet) /\ <<a>> \o <<b, c, d>> = <<a, b, c, d>>
  BY <1>0, Glue
<1>2. (<<a>> \o <<b, c, d>>) \o s = <<a>> \o (<<b, c, d>> \o s)
  BY <1>1, ConcatAssociative
<1>3. <<b, c, d>> \o s = Cons(b, Cons(c, Cons(d, s)))
  BY PushThree
<1>4. <<a>> \o (<<b, c, d>> \o s) = Cons(a, <<b, c, d>> \o s)
  BY DEF Cons
<1> QED
  BY <1>1, <1>2, <1>3, <1>4

LEMMA FinishType ==
  \A r : Finish(r) \in Seq(StepSet) /\ Info(r) \in Seq(StepSet) /\ Leave \in Seq(StepSet)
         /\ AtEnd \in Seq(StepSet) /\ <<>> \in Seq(StepSet)
<1>1. <<>> \in Seq(StepSet) /\ Do("return") \in StepSet /\ Do("barrier") \in StepSet /\ Do("wtinfo") \in StepSet
      /\ Do("flush") \in StepSet
  BY StepTypes DEF Ops
<1>2. AtEnd \in Seq(StepSet)
  BY <1>1, ConsFacts DEF AtEnd
<1>3. Leave \in Seq(StepSet)
  BY <1>1, <1>2, ConsFacts DEF Leave
<1>4. \A r : Info(r) \in Seq(StepSet)
  BY <1>1, <1>3, ConsFacts DEF Info
<1>5. \A r : Finish(r) \in Seq(StepSet)
  BY <1>1, <1>4, ConsFacts DEF Finish
<1> QED
  BY <1>1, <1>2, <1>3, <1>4, <1>5

(* The steps of phmpi_finalize.                                            *)
LEMMA FinalStepsAre ==
  ASSUME NEW r
  PROVE  FinalSteps(r) = Cons(Do("barrier"), Cons(Read("E_main"), Finish(r)))
<1> DEFINE a == Do("barrier")  b == Read("E_main")  c == Do("flush")  d == Do("wtinfo")  e == Do("return")
           m == IF r = 0 THEN <<d>> ELSE <<>>
<1>1. /\ a \in StepSet /\ b \in StepSet /\ c \in StepSet /\ d \in StepSet /\ e \in StepSet
      /\ <<a, b, c>> \in Seq(StepSet) /\ m \in Seq(StepSet) /\ <<a, e>> \in Seq(StepSet)
  BY StepTypes DEF Ops, Tags
<1>2. FinalSteps(r) = (<<a, b, c>> \o m) \o <<a, e>>
  BY DEF FinalSteps
<1> HIDE DEF a, b, c, d, e
<1>3. (<<a, b, c>> \o m) \o <<a, e>> = <<a, b, c>> \o (m \o <<a, e>>)
  <2> HIDE DEF m
  <2> QED BY <1>1, ConcatAssociative
<1>4. m \o <<a, e>> = IF r = 0 THEN Cons(d, Cons(a, Cons(e, <<>>))) ELSE Cons(a, Cons(e, <<>>))
  <2>1. <<d>> \o <<a, e>> = Cons(d, <<a, e>>)
    BY <1>1, PushOne
  <2>2. <<>> \o <<a, e>> = <<a, e>>
    BY <1>1, ConcatEmptySeq
  <2>3. <<a, e>> = Cons(a, Cons(e, <<>>))
    BY <1>1, PushTwo
  <2> QED BY <2>1, <2>2, <2>3
<1>5. m \o <<a, e>> \in Seq(StepSet)
  <2> HIDE DEF m
  <2> QED BY <1>1, ConcatProperties
<1>6. <<a, b, c>> \o (m \o <<a, e>>) = Cons(a, Cons(b, Cons(c, m \o <<a, e>>)))
  <2>1. ASSUME NEW s \in Seq(StepSet) PROVE <<a, b, c>> \o s = Cons(a, Cons(b, Cons(c, s)))
    BY <1>1, PushThree
  <2> HIDE DEF m
  <2> QED BY <1>5, <2>1
<1> QED
  BY <1>2, <1>3, <1>4, <1>6 DEF Finish, Info, Leave, AtEnd, a, b, c, d, e
-----------------------------------------------------------------------------
(* Where a rank goes.                                                      *)

(* The head of todo says which step is next.                               *)
LEMMA ByHead ==
  ASSUME NEW r \in Ranks, Step(r)
  PROVE  /\ todo[r] # <<>>
         /\ LET op == Head(todo[r])[1] IN
            \/ op = "wtctag" /\ WtCtag(r)
            \/ op = "put" /\ Fastread(r)
            \/ op = "read" /\ EnterRead(r)
            \/ op = "check" /\ Check(r)
            \/ op = "dump" /\ EnterDump(r)
            \/ op = "zero" /\ Zero(r)
            \/ op = "return" /\ Return(r)
            \/ op = "mkrec" /\ \E ok \in BOOLEAN : MkRec(r, ok)
            \/ op \in {"wtrec", "flush"} /\ \E ok \in BOOLEAN : WtRec(r, ok)
            \/ op = "wtinfo" /\ \E ok \in BOOLEAN : WtInfo(r, ok)
  BY DEF Step, WtCtag, Fastread, EnterRead, Check, EnterDump, Zero, Return, MkRec, WtRec, WtInfo, At, Idle

(* What a rank still has to do after a step, and how full its buffer is.   *)
LEMMA StepMoves ==
  ASSUME TypeOK, NEW r \in Ranks, Step(r)
  PROVE  LET op == Head(todo[r])[1]
             tl == Tail(todo[r])
         IN  /\ op \in {"wtctag", "put", "wtrec", "flush", "wtinfo", "zero"} => todo'[r] = tl
             /\ op = "put" => ph_irec'[r] = ph_irec[r] + 1 /\ log'[r] = Append(log[r], Head(todo[r])[2])
             /\ op = "zero" => ph_irec'[r] = 0
             /\ op = "check" =>
                  todo'[r] = (IF Full(r) THEN <<Do("dump")>> ELSE <<>>) \o tl /\ ph_irec'[r] = ph_irec[r]
             /\ op = "read" =>
                  LET put == Put(Head(todo[r])[2]) IN
                  /\ todo'[r] = (IF Full(r) THEN <<Do("dump"), Do("zero"), put>>
                                 ELSE <<put, Do("check")>>) \o tl
                  /\ ph_irec'[r] = ph_irec[r]
             /\ op = "dump" =>
                  /\ todo'[r] = (IF ph_irec[r] = 0 THEN <<>>
                                 ELSE <<Put("S_dump"), Do("wtrec"), Do("zero"), Put("E_dump")>>) \o tl
                  /\ ph_irec'[r] = StepBack(ph_irec[r])
             /\ op \in {"wtrec", "flush", "wtinfo", "wtctag"} => ph_irec'[r] = ph_irec[r]
             /\ op # "put" => log' = log
             /\ op \notin {"mkrec", "return"} => phase' = phase
             /\ fast' = fast /\ settags' = settags
             /\ op # "mkrec" => rec_hdr' = rec_hdr
             /\ op # "wtctag" => ctags' = ctags
<1> USE DEF TypeOK
<1>1. CASE WtCtag(r)
  BY <1>1 DEF WtCtag, Then, Rest, At, memory, bounds
<1>2. CASE Fastread(r)
  BY <1>2 DEF Fastread, Then, Rest, At, disk, bounds
<1>3. CASE EnterRead(r)
  BY <1>3 DEF EnterRead, Then, Rest, At, memory, disk, bounds
<1>4. CASE Check(r)
  BY <1>4 DEF Check, Then, Rest, At, memory, disk, bounds
<1>5. CASE EnterDump(r)
  BY <1>5 DEF EnterDump, Then, Rest, At, disk, bounds
<1>6. CASE Zero(r)
  BY <1>6 DEF Zero, Then, Rest, At, disk, bounds
<1>7. CASE Return(r)
  BY <1>7 DEF Return, Then, Rest, At, memory, disk, bounds
<1>8. CASE \E ok \in BOOLEAN : MkRec(r, ok)
  BY <1>8 DEF MkRec, Then, Rest, At, disk
<1>9. CASE \E ok \in BOOLEAN : WtRec(r, ok)
  BY <1>9 DEF WtRec, Then, Rest, At, disk
<1>10. CASE \E ok \in BOOLEAN : WtInfo(r, ok)
  BY <1>10 DEF WtInfo, Then, Rest, At, memory
<1> QED
  BY <1>1, <1>2, <1>3, <1>4, <1>5, <1>6, <1>7, <1>8, <1>9, <1>10 DEF Step

(* A record once taken stays in the history.                               *)
LEMMA WroteStays ==
  ASSUME TypeOK, NEW r \in Ranks, Step(r), Wrote(r)
  PROVE  Wrote(r)'
<1>1. log[r] \in Seq(Tags)
  BY DEF TypeOK
<1>2. log'[r] = log[r] \/ log'[r] = Append(log[r], Head(todo[r])[2])
  BY StepMoves
<1>3. PICK i \in DOMAIN log[r] : log[r][i] = "E_main"
  BY DEF Wrote
<1>4. \A x : i \in DOMAIN Append(log[r], x) /\ Append(log[r], x)[i] = log[r][i]
  BY <1>1, <1>3
<1> QED
  BY <1>2, <1>3, <1>4 DEF Wrote

(* A phmpi_dump ends with one record in the buffer.                        *)
LEMMA DumpingStep ==
  ASSUME TypeOK, NEW r \in Ranks, NEW rest \in Seq(StepSet), Dumping(r, rest), Step(r)
  PROVE  /\ Dumping(r, rest)' \/ (todo'[r] = rest /\ ph_irec'[r] = 1)
         /\ phase' = phase /\ fast' = fast /\ ctags' = ctags
         /\ Wrote(r) => Wrote(r)'
<1> DEFINE e == Cons(Put("E_dump"), rest)
           z == Cons(Do("zero"), e)
           w == Cons(Do("wtrec"), z)
<1>1. /\ Put("E_dump") \in StepSet /\ Put("E_dump")[1] = "put"
      /\ Put("S_dump") \in StepSet /\ Put("S_dump")[1] = "put"
      /\ \A op \in {"zero", "wtrec", "dump"} : Do(op) \in StepSet /\ Do(op)[1] = op
  BY StepTypes DEF Ops, Tags
<1>2. e \in Seq(StepSet) /\ Head(e) = Put("E_dump") /\ Tail(e) = rest
  BY <1>1, ConsFacts
<1>3. z \in Seq(StepSet) /\ Head(z) = Do("zero") /\ Tail(z) = e
  <2> HIDE DEF e
  <2> QED BY <1>1, <1>2, ConsFacts
<1>4. w \in Seq(StepSet) /\ Head(w) = Do("wtrec") /\ Tail(w) = z
  <2> HIDE DEF z
  <2> QED BY <1>1, <1>3, ConsFacts
<1>5. Dumping(r, rest) <=>
        \/ todo[r] = Cons(Do("dump"), rest) /\ ph_irec[r] \in 1 .. BufNrec /\ (~fast[r] => ph_irec[r] < BufNrec)
        \/ todo[r] = Cons(Put("S_dump"), w) /\ ph_irec[r] \in 1 .. BufNrec - 1
        \/ todo[r] = w /\ ph_irec[r] \in 1 .. BufNrec
        \/ todo[r] = z
        \/ todo[r] = e /\ ph_irec[r] = 0
  BY DEF Dumping
<1>6. Dumping(r, rest)' <=>
        \/ todo'[r] = Cons(Do("dump"), rest) /\ ph_irec'[r] \in 1 .. BufNrec /\ (~fast'[r] => ph_irec'[r] < BufNrec)
        \/ todo'[r] = Cons(Put("S_dump"), w) /\ ph_irec'[r] \in 1 .. BufNrec - 1
        \/ todo'[r] = w /\ ph_irec'[r] \in 1 .. BufNrec
        \/ todo'[r] = z
        \/ todo'[r] = e /\ ph_irec'[r] = 0
  BY DEF Dumping
<1> HIDE DEF e, z, w
<1>7. Wrote(r) => Wrote(r)'
  BY WroteStays
<1>8. ph_irec[r] \in 0 .. BufNrec /\ BufNrec \in Nat /\ BufNrec >= 3
  BY MpiAssumption DEF TypeOK
<1>9. CASE todo[r] = Cons(Do("dump"), rest) /\ ph_irec[r] \in 1 .. BufNrec
  <2>1. Head(todo[r]) = Do("dump") /\ Tail(todo[r]) = rest
    BY <1>1, <1>9, ConsFacts
  <2>2. <<Put("S_dump"), Do("wtrec"), Do("zero"), Put("E_dump")>> \o rest = Cons(Put("S_dump"), w)
    BY <1>1, PushFour DEF w, z, e
  <2>3. todo'[r] = Cons(Put("S_dump"), w) /\ ph_irec'[r] = StepBack(ph_irec[r])
        /\ phase' = phase /\ fast' = fast /\ ctags' = ctags
    <3>1. ph_irec[r] # 0
      BY <1>8, <1>9
    <3>2. /\ todo'[r] = <<Put("S_dump"), Do("wtrec"), Do("zero"), Put("E_dump")>> \o rest
          /\ ph_irec'[r] = StepBack(ph_irec[r]) /\ phase' = phase /\ fast' = fast /\ ctags' = ctags
      BY <1>1, <2>1, <3>1, StepMoves
    <3> QED BY <2>2, <3>2
  <2>4. ph_irec'[r] \in 1 .. BufNrec - 1
    BY <1>8, <1>9, <2>3 DEF StepBack
  <2> QED BY <1>6, <1>7, <2>3, <2>4
<1>10. CASE todo[r] = Cons(Put("S_dump"), w) /\ ph_irec[r] \in 1 .. BufNrec - 1
  <2>1. Head(todo[r]) = Put("S_dump") /\ Tail(todo[r]) = w
    BY <1>1, <1>4, <1>10, ConsFacts
  <2>2. todo'[r] = w /\ ph_irec'[r] = ph_irec[r] + 1 /\ phase' = phase /\ fast' = fast /\ ctags' = ctags
    BY <1>1, <2>1, StepMoves
  <2> QED BY <1>6, <1>7, <1>8, <1>10, <2>2
<1>11. CASE todo[r] = w /\ ph_irec[r] \in 1 .. BufNrec
  <2>1. todo'[r] = z /\ phase' = phase /\ fast' = fast /\ ctags' = ctags
    BY <1>1, <1>4, <1>11, StepMoves
  <2> QED BY <1>6, <1>7, <2>1
<1>12. CASE todo[r] = z
  <2>1. todo'[r] = e /\ ph_irec'[r] = 0 /\ phase' = phase /\ fast' = fast /\ ctags' = ctags
    BY <1>1, <1>3, <1>12, StepMoves
  <2> QED BY <1>6, <1>7, <2>1
<1>13. CASE todo[r] = e /\ ph_irec[r] = 0
  <2>1. todo'[r] = rest /\ ph_irec'[r] = 1 /\ phase' = phase /\ fast' = fast /\ ctags' = ctags
    <3>1. Head(todo[r])[1] = "put" /\ Tail(todo[r]) = rest
      BY <1>1, <1>2, <1>13
    <3>2. todo'[r] = rest /\ ph_irec'[r] = ph_irec[r] + 1 /\ phase' = phase /\ fast' = fast /\ ctags' = ctags
      BY <3>1, StepMoves
    <3> QED BY <1>13, <3>2
  <2> QED BY <1>7, <2>1
<1> QED
  BY <1>5, <1>9, <1>10, <1>11, <1>12, <1>13

(* What follows the record of a phmpi_read: the look at the buffer, and a  *)
(* dump.                                                                   *)
LEMMA AfterStep ==
  ASSUME TypeOK, NEW r \in Ranks, NEW rest \in Seq(StepSet), After(r, rest), todo[r] # rest, Step(r)
  PROVE  /\ After(r, rest)'
         /\ phase' = phase /\ fast' = fast /\ ctags' = ctags
         /\ Wrote(r) => Wrote(r)'
<1>1. Do("check") \in StepSet /\ Do("check")[1] = "check"
  BY StepTypes DEF Ops
<1>2. ph_irec[r] \in 0 .. BufNrec /\ BufNrec \in Nat /\ BufNrec >= 3
  BY MpiAssumption DEF TypeOK
<1>3. CASE todo[r] = Cons(Do("check"), rest) /\ ph_irec[r] \in 2 .. BufNrec - 1
  <2>1. Head(todo[r])[1] = "check" /\ Tail(todo[r]) = rest
    BY <1>1, <1>3, ConsFacts
  <2>2. /\ todo'[r] = (IF Full(r) THEN <<Do("dump")>> ELSE <<>>) \o rest /\ ph_irec'[r] = ph_irec[r]
        /\ phase' = phase /\ fast' = fast /\ ctags' = ctags
    BY <2>1, StepMoves
  <2>3. Wrote(r) => Wrote(r)'
    BY WroteStays
  <2>4. CASE Full(r)
    <3>1. <<Do("dump")>> \o rest = Cons(Do("dump"), rest)
      BY DEF Cons
    <3>2. todo'[r] = Cons(Do("dump"), rest)
      BY <2>2, <2>4, <3>1
    <3>3. ph_irec'[r] \in 1 .. BufNrec /\ ph_irec'[r] < BufNrec
      BY <1>2, <1>3, <2>2
    <3> QED BY <2>2, <2>3, <3>2, <3>3 DEF After, Dumping
  <2>5. CASE ~Full(r)
    <3>1. <<>> \o rest = rest
      BY ConcatEmptySeq
    <3>2. todo'[r] = rest
      BY <2>2, <2>5, <3>1
    <3>3. ph_irec'[r] \in 1 .. BufNrec /\ ph_irec'[r] <= BufNrec - 2
      BY <1>2, <1>3, <2>2, <2>5 DEF Full
    <3> QED BY <2>2, <2>3, <3>2, <3>3 DEF After, Room
  <2> QED BY <2>4, <2>5
<1>4. CASE Dumping(r, rest)
  <2>1. /\ Dumping(r, rest)' \/ (todo'[r] = rest /\ ph_irec'[r] = 1)
        /\ phase' = phase /\ fast' = fast /\ ctags' = ctags
        /\ Wrote(r) => Wrote(r)'
    BY <1>4, DumpingStep
  <2>2. ph_irec'[r] = 1 => ph_irec'[r] \in 1 .. BufNrec /\ ph_irec'[r] <= BufNrec - 2
    BY <1>2
  <2> QED BY <2>1, <2>2 DEF After, Room
<1> QED
  BY <1>3, <1>4 DEF After

(* A read comes to its record.                                             *)
LEMMA BeforeStep ==
  ASSUME TypeOK, NEW r \in Ranks, NEW t \in Tags, NEW rest \in Seq(StepSet), Before(r, t, rest), Step(r)
  PROVE  /\ Before(r, t, rest)' \/ (After(r, rest)' /\ (t = "E_main" => Wrote(r)'))
         /\ phase' = phase /\ fast' = fast /\ ctags' = ctags
<1> DEFINE p == Cons(Put(t), rest)
           c == Cons(Do("check"), rest)
           d == Cons(Do("zero"), p)
<1>1. /\ \A op \in {"zero", "check", "dump"} : Do(op) \in StepSet /\ Do(op)[1] = op
      /\ Put(t) \in StepSet /\ Put(t)[1] = "put" /\ Put(t)[2] = t
      /\ Read(t) \in StepSet /\ Read(t)[1] = "read" /\ Read(t)[2] = t
  BY StepTypes DEF Ops
<1>2. ph_irec[r] \in 0 .. BufNrec /\ BufNrec \in Nat /\ BufNrec >= 3 /\ log[r] \in Seq(Tags)
  BY MpiAssumption DEF TypeOK
<1>3. p \in Seq(StepSet) /\ Head(p) = Put(t) /\ Tail(p) = rest /\ c \in Seq(StepSet)
  BY <1>1, ConsFacts
<1>4. d \in Seq(StepSet) /\ Head(d) = Do("zero") /\ Tail(d) = p
  <2> HIDE DEF p
  <2> QED BY <1>1, <1>3, ConsFacts
<1>5. Before(r, t, rest) <=>
        \/ todo[r] = Cons(Read(t), rest) /\ Room(r)
        \/ todo[r] = Cons(Put(t), c) /\ ph_irec[r] \in 1 .. BufNrec - 2
        \/ fast[r] /\ Dumping(r, d)
        \/ fast[r] /\ todo[r] = d /\ ph_irec[r] = 1
        \/ fast[r] /\ todo[r] = p /\ ph_irec[r] < BufNrec
  BY DEF Before, Again
<1>6. Before(r, t, rest)' <=>
        \/ todo'[r] = Cons(Read(t), rest) /\ Room(r)'
        \/ todo'[r] = Cons(Put(t), c) /\ ph_irec'[r] \in 1 .. BufNrec - 2
        \/ fast'[r] /\ Dumping(r, d)'
        \/ fast'[r] /\ todo'[r] = d /\ ph_irec'[r] = 1
        \/ fast'[r] /\ todo'[r] = p /\ ph_irec'[r] < BufNrec
  BY DEF Before, Again
<1>7. c = Cons(Do("check"), rest)
  OBVIOUS
<1> HIDE DEF p, c, d
<1>8. ASSUME Head(todo[r])[1] = "put", Head(todo[r])[2] = t
      PROVE  t = "E_main" => Wrote(r)'
  <2>1. log'[r] = Append(log[r], t)
    BY <1>8, StepMoves
  <2>2. Len(log[r]) + 1 \in DOMAIN Append(log[r], t) /\ Append(log[r], t)[Len(log[r]) + 1] = t
    BY <1>2
  <2> QED BY <2>1, <2>2 DEF Wrote
<1>9. CASE todo[r] = Cons(Read(t), rest) /\ Room(r)
  <2>1. Head(todo[r]) = Read(t) /\ Tail(todo[r]) = rest
    BY <1>1, <1>9, ConsFacts
  <2>2. Head(todo[r])[1] = "read" /\ Head(todo[r])[2] = t
    BY <1>1, <2>1
  <2>3. /\ todo'[r] = (IF Full(r) THEN <<Do("dump"), Do("zero"), Put(t)>> ELSE <<Put(t), Do("check")>>) \o rest
        /\ ph_irec'[r] = ph_irec[r]
        /\ phase' = phase /\ fast' = fast /\ ctags' = ctags
    BY <2>1, <2>2, StepMoves
  <2>4. CASE Full(r)
    <3>1. <<Do("dump"), Do("zero"), Put(t)>> \o rest = Cons(Do("dump"), d)
      BY <1>1, PushThree DEF d, p
    <3>2. todo'[r] = Cons(Do("dump"), d)
      BY <2>3, <2>4, <3>1
    <3>3. fast[r] /\ ph_irec'[r] \in 1 .. BufNrec
      BY <1>2, <1>9, <2>3, <2>4 DEF Full, Room
    <3>4. Dumping(r, d)' /\ fast'[r]
      BY <2>3, <3>2, <3>3 DEF Dumping
    <3> QED BY <1>6, <2>3, <3>4
  <2>5. CASE ~Full(r)
    <3>1. <<Put(t), Do("check")>> \o rest = Cons(Put(t), c)
      BY <1>1, PushTwo DEF c
    <3>2. todo'[r] = Cons(Put(t), c)
      BY <2>3, <2>5, <3>1
    <3>3. ph_irec'[r] \in 1 .. BufNrec - 2
      BY <1>2, <1>9, <2>3, <2>5 DEF Full, Room
    <3> QED BY <1>6, <2>3, <3>2, <3>3
  <2> QED BY <2>4, <2>5
<1>10. CASE todo[r] = Cons(Put(t), c) /\ ph_irec[r] \in 1 .. BufNrec - 2
  <2>1. Head(todo[r])[1] = "put" /\ Head(todo[r])[2] = t /\ Tail(todo[r]) = c
    BY <1>1, <1>3, <1>10, ConsFacts
  <2>2. todo'[r] = c /\ ph_irec'[r] = ph_irec[r] + 1 /\ phase' = phase /\ fast' = fast /\ ctags' = ctags
    BY <2>1, StepMoves
  <2>3. ph_irec'[r] \in 2 .. BufNrec - 1
    BY <1>2, <1>10, <2>2
  <2> QED BY <1>7, <1>8, <2>1, <2>2, <2>3 DEF After
<1>11. CASE fast[r] /\ Dumping(r, d)
  <2>1. Dumping(r, d)' \/ (todo'[r] = d /\ ph_irec'[r] = 1)
    BY <1>4, <1>11, DumpingStep
  <2>2. phase' = phase /\ fast' = fast /\ ctags' = ctags
    BY <1>4, <1>11, DumpingStep
  <2> QED BY <1>6, <1>11, <2>1, <2>2
<1>12. CASE fast[r] /\ todo[r] = d
  <2>1. Head(todo[r])[1] = "zero" /\ Tail(todo[r]) = p
    BY <1>1, <1>4, <1>12
  <2>2. todo'[r] = p /\ ph_irec'[r] = 0 /\ phase' = phase /\ fast' = fast /\ ctags' = ctags
    BY <2>1, StepMoves
  <2>3. ph_irec'[r] < BufNrec
    BY <1>2, <2>2
  <2> QED BY <1>6, <1>12, <2>2, <2>3
<1>13. CASE fast[r] /\ todo[r] = p /\ ph_irec[r] < BufNrec
  <2>1. Head(todo[r])[1] = "put" /\ Head(todo[r])[2] = t /\ Tail(todo[r]) = rest
    BY <1>1, <1>3, <1>13
  <2>2. todo'[r] = rest /\ ph_irec'[r] = ph_irec[r] + 1 /\ phase' = phase /\ fast' = fast /\ ctags' = ctags
    BY <2>1, StepMoves
  <2>3. ph_irec'[r] \in 1 .. BufNrec
    BY <1>2, <1>13, <2>2
  <2> QED BY <1>8, <1>13, <2>1, <2>2, <2>3 DEF After, Room
<1> QED
  BY <1>5, <1>9, <1>10, <1>11, <1>12, <1>13

(* A step of a rank keeps it between its barriers, or ends it.             *)
LEMMA AtBarrier ==
  ASSUME NEW r \in Ranks, NEW s \in Seq(StepSet), todo[r] = Cons(Do("barrier"), s)
  PROVE  ~Step(r)
<1>1. Do("barrier") \in StepSet /\ Do("barrier")[1] = "barrier"
  BY StepTypes DEF Ops
<1>2. Head(todo[r])[1] = "barrier"
  BY <1>1, ConsFacts
<1> QED
  BY <1>2, ByHead

LEMMA SetupStep ==
  ASSUME TypeOK, NEW r \in Ranks, NEW k \in Nat, Setup(r, k), Step(r)
  PROVE  Setup(r, k)'
<1>1. <<>> \in Seq(StepSet) /\ Do("barrier") \in StepSet /\ Do("wtctag") \in StepSet /\ Do("wtctag")[1] = "wtctag"
  BY StepTypes DEF Ops
<1> DEFINE b == Cons(Do("barrier"), <<>>)
<1>2. b \in Seq(StepSet)
  BY <1>1, ConsFacts
<1>3. todo[r] # <<>>
  BY ByHead
<1>4. todo[r] # b
  BY <1>1, AtBarrier
<1>5. r = 0 /\ todo[r] = Cons(Do("wtctag"), b) /\ settags[r] = k + 1 /\ ctags = k
  BY <1>3, <1>4 DEF Setup
<1> HIDE DEF b
<1>6. Head(todo[r])[1] = "wtctag" /\ Tail(todo[r]) = b
  BY <1>1, <1>2, <1>5, ConsFacts
<1>7. todo'[r] = b /\ ph_irec'[r] = ph_irec[r] /\ phase' = phase /\ settags' = settags
  BY <1>6, StepMoves
<1>8. ctags' = k + 1
  <2>1. WtCtag(r)
    BY <1>6, ByHead
  <2> QED BY <1>5, <2>1 DEF WtCtag
<1> QED
  BY <1>5, <1>7, <1>8 DEF Setup, b

LEMMA OpeningStep ==
  ASSUME TypeOK, NEW r \in Ranks, NEW k \in Nat, Opening(r, k), Step(r)
  PROVE  (Opening(r, k)' /\ rec_hdr'[r] # NoFile) \/ Gone(r)'
<1> DEFINE s == Cons(Put("S_main"), <<>>)
           b == Cons(Do("barrier"), s)
<1>1. /\ <<>> \in Seq(StepSet) /\ Do("barrier") \in StepSet /\ Put("S_main") \in StepSet
      /\ Do("mkrec") \in StepSet /\ Do("mkrec")[1] = "mkrec"
  BY StepTypes DEF Ops, Tags
<1>2. s \in Seq(StepSet)
  BY <1>1, ConsFacts
<1>3. b \in Seq(StepSet)
  <2> HIDE DEF s
  <2> QED BY <1>1, <1>2, ConsFacts
<1>4. todo[r] # b
  BY <1>2, AtBarrier
<1>5. /\ todo[r] = Cons(Do("mkrec"), b) /\ phase[r] = "open" /\ k = NSetTag /\ (r = 0 => ctags = NSetTag)
      /\ ph_irec[r] = 0
  BY <1>4 DEF Opening
<1> HIDE DEF s, b
<1>6. Head(todo[r])[1] = "mkrec" /\ Tail(todo[r]) = b
  BY <1>1, <1>3, <1>5, ConsFacts
<1>7. PICK ok \in BOOLEAN : MkRec(r, ok)
  BY <1>6, ByHead
<1>8. ctags' = ctags /\ ph_irec'[r] = 0
  BY <1>7 DEF MkRec, TypeOK
<1>9. CASE ok
  <2>1. phase'[r] = "open" /\ todo'[r] = b /\ rec_hdr'[r] = ph_nev[r]
    BY <1>6, <1>7, <1>9 DEF MkRec, Then, Rest, TypeOK
  <2>2. rec_hdr'[r] # NoFile
    <3>1. ph_nev[r] \in Nat /\ NevMax \in Nat
      BY MpiAssumption DEF TypeOK
    <3> QED BY <2>1, <3>1 DEF NoFile
  <2> QED BY <1>5, <1>8, <2>1, <2>2 DEF Opening, b, s
<1>10. CASE ~ok
  <2>1. phase'[r] = "gone" /\ todo'[r] = <<>> /\ fails' = fails + 1
    BY <1>7, <1>10 DEF MkRec, Then, Open, TypeOK
  <2>2. fails \in Nat
    BY MpiAssumption DEF TypeOK
  <2> QED BY <2>1, <2>2 DEF Gone
<1> QED
  BY <1>9, <1>10

LEMMA RunningStep ==
  ASSUME TypeOK, NEW r \in Ranks, NEW k \in Nat, Running(r, k), Step(r)
  PROVE  Running(r, k)'
<1>1. <<>> \in Seq(StepSet) /\ Put("S_main") \in StepSet /\ Put("S_main")[1] = "put" /\ "user" \in Tags
  BY StepTypes DEF Tags
<1>2. todo[r] # <<>>
  BY ByHead
<1>3. phase[r] = "open" /\ k = NSetTag + 1
  BY DEF Running
<1>4. CASE todo[r] = Cons(Put("S_main"), <<>>) /\ ph_irec[r] = 0
  <2>1. Head(todo[r])[1] = "put" /\ Tail(todo[r]) = <<>>
    BY <1>1, <1>4, ConsFacts
  <2>2. todo'[r] = <<>> /\ ph_irec'[r] = ph_irec[r] + 1 /\ phase' = phase
    BY <2>1, StepMoves
  <2>3. ph_irec'[r] \in 1 .. BufNrec /\ ph_irec'[r] <= BufNrec - 2
    BY <1>4, <2>2, MpiAssumption
  <2> QED BY <1>3, <2>2, <2>3 DEF Running, After, Room
<1>5. CASE Before(r, "user", <<>>)
  <2>1. (Before(r, "user", <<>>)' \/ After(r, <<>>)') /\ phase' = phase
    BY <1>1, <1>5, BeforeStep
  <2> QED BY <1>3, <2>1 DEF Running
<1>6. CASE After(r, <<>>)
  <2>1. After(r, <<>>)' /\ phase' = phase
    BY <1>1, <1>2, <1>6, AfterStep
  <2> QED BY <1>3, <2>1 DEF Running
<1> QED
  BY <1>4, <1>5, <1>6 DEF Running

LEMMA ClosingStep ==
  ASSUME TypeOK, NEW r \in Ranks, NEW k \in Nat, Closing(r, k), Step(r)
  PROVE  Closing(r, k)' \/ Finished(r, k)'
<1>1. /\ Finish(r) \in Seq(StepSet) /\ Info(r) \in Seq(StepSet) /\ Leave \in Seq(StepSet)
      /\ AtEnd \in Seq(StepSet) /\ <<>> \in Seq(StepSet)
  BY FinishType
<1>2. /\ "E_main" \in Tags /\ Read("E_main") \in StepSet
      /\ \A op \in {"flush", "wtinfo", "return"} : Do(op) \in StepSet /\ Do(op)[1] = op
  BY StepTypes DEF Ops, Tags
<1>3. phase[r] = "closing"
  BY DEF Closing
<1>4. todo[r] # Cons(Do("barrier"), Cons(Read("E_main"), Finish(r)))
  <2>1. Cons(Read("E_main"), Finish(r)) \in Seq(StepSet)
    BY <1>1, <1>2, ConsFacts
  <2> QED BY <2>1, AtBarrier
<1>5. todo[r] # Leave
  BY <1>1, AtBarrier DEF Leave
<1>6. CASE k = NSetTag + 2 /\ Before(r, "E_main", Finish(r))
  <2>1. (Before(r, "E_main", Finish(r))' \/ (After(r, Finish(r))' /\ Wrote(r)')) /\ phase' = phase
    BY <1>1, <1>2, <1>6, BeforeStep
  <2>2. phase'[r] = "closing"
    BY <1>3, <2>1
  <2> QED BY <1>6, <2>1, <2>2 DEF Closing
<1>7. CASE k = NSetTag + 2 /\ After(r, Finish(r)) /\ Wrote(r)
  <2>1. CASE todo[r] # Finish(r)
    <3>1. After(r, Finish(r))' /\ Wrote(r)' /\ phase' = phase
      BY <1>1, <1>7, <2>1, AfterStep
    <3> QED BY <1>3, <1>7, <3>1 DEF Closing
  <2>2. CASE todo[r] = Finish(r)
    <3>1. Head(todo[r])[1] = "flush" /\ Tail(todo[r]) = Info(r)
      BY <1>1, <1>2, <2>2, ConsFacts DEF Finish
    <3>2. todo'[r] = Info(r) /\ phase' = phase
      BY <3>1, StepMoves
    <3>3. Wrote(r)'
      BY <1>7, WroteStays
    <3> QED BY <1>3, <1>7, <3>2, <3>3 DEF Closing
  <2> QED BY <2>1, <2>2
<1>8. CASE k = NSetTag + 2 /\ todo[r] \in {Info(r), Leave} /\ Wrote(r)
  <2>1. todo[r] = Cons(Do("wtinfo"), Leave)
    BY <1>5, <1>8 DEF Info
  <2>2. Head(todo[r])[1] = "wtinfo" /\ Tail(todo[r]) = Leave
    BY <1>1, <1>2, <2>1, ConsFacts
  <2>3. todo'[r] = Leave /\ phase' = phase
    BY <2>2, StepMoves
  <2>4. Wrote(r)'
    BY <1>8, WroteStays
  <2> QED BY <1>3, <1>8, <2>3, <2>4 DEF Closing
<1>9. CASE k = NSetTag + 3 /\ todo[r] = AtEnd /\ Wrote(r)
  <2>1. Head(todo[r])[1] = "return"
    BY <1>1, <1>2, <1>9, ConsFacts DEF AtEnd
  <2>2. Return(r)
    BY <2>1, ByHead
  <2>3. phase'[r] = "done" /\ todo'[r] = <<>>
    BY <2>2 DEF Return, Then, TypeOK
  <2>4. Wrote(r)'
    BY <1>9, WroteStays
  <2> QED BY <1>9, <2>3, <2>4 DEF Finished
<1> QED
  BY <1>4, <1>6, <1>7, <1>8, <1>9 DEF Closing

LEMMA StageStep ==
  ASSUME TypeOK, NEW r \in Ranks, NEW k \in Nat, Stage(r, k), Step(r)
  PROVE  /\ Stage(r, k)' \/ Gone(r)'
         /\ log'[r] = log[r] \/ k > NSetTag
<1>1. todo[r] # <<>>
  BY ByHead
<1>2. ~Finished(r, k)
  BY <1>1 DEF Finished
<1>3. CASE Setup(r, k) \/ Opening(r, k)
  <2>1. Stage(r, k)' \/ Gone(r)'
    BY <1>3, SetupStep, OpeningStep DEF Stage
  <2>2. Head(todo[r])[1] # "put"
    <3>1. /\ <<>> \in Seq(StepSet) /\ Put("S_main") \in StepSet
          /\ \A op \in {"barrier", "wtctag", "mkrec"} : Do(op) \in StepSet /\ Do(op)[1] = op
      BY StepTypes DEF Ops, Tags
    <3> DEFINE s == Cons(Put("S_main"), <<>>)
               b == Cons(Do("barrier"), s)
               e == Cons(Do("barrier"), <<>>)
    <3>2. s \in Seq(StepSet) /\ e \in Seq(StepSet) /\ Head(e) = Do("barrier")
      BY <3>1, ConsFacts
    <3>3. todo[r] \in {e, Cons(Do("wtctag"), e), Cons(Do("mkrec"), b), b}
      BY <1>1, <1>3 DEF Setup, Opening
    <3> HIDE DEF s, e
    <3>4. b \in Seq(StepSet) /\ Head(b) = Do("barrier")
      BY <3>1, <3>2, ConsFacts
    <3> HIDE DEF b
    <3>5. Head(Cons(Do("wtctag"), e)) = Do("wtctag") /\ Head(Cons(Do("mkrec"), b)) = Do("mkrec")
      BY <3>1, <3>2, <3>4, ConsFacts
    <3> QED BY <3>1, <3>2, <3>3, <3>4, <3>5
  <2>3. log' = log
    BY <2>2, StepMoves
  <2> QED BY <2>1, <2>3
<1>4. CASE Running(r, k)
  <2>1. k > NSetTag
    BY <1>4, MpiAssumption DEF Running
  <2> QED BY <1>4, <2>1, RunningStep DEF Stage
<1>5. CASE Closing(r, k)
  <2>1. k > NSetTag
    BY <1>5, MpiAssumption DEF Closing
  <2> QED BY <1>5, <2>1, ClosingStep DEF Stage
<1> QED
  BY <1>2, <1>3, <1>4, <1>5 DEF Stage

(* Which steps stand first, and where a record is stored.                  *)
LEMMA DumpingHead ==
  ASSUME TypeOK, NEW r \in Ranks, NEW rest \in Seq(StepSet), Dumping(r, rest)
  PROVE  /\ todo[r] # <<>> /\ Head(todo[r])[1] \in {"dump", "put", "wtrec", "zero"}
         /\ Head(todo[r])[1] = "put" => ph_irec[r] < BufNrec /\ Head(todo[r])[2] \in Tags
<1> DEFINE e == Cons(Put("E_dump"), rest)
           z == Cons(Do("zero"), e)
           w == Cons(Do("wtrec"), z)
           s == Cons(Put("S_dump"), w)
           d == Cons(Do("dump"), rest)
<1>1. /\ \A t \in {"E_dump", "S_dump"} : Put(t) \in StepSet /\ Put(t)[1] = "put" /\ Put(t)[2] = t
      /\ \A op \in {"zero", "wtrec", "dump"} : Do(op) \in StepSet /\ Do(op)[1] = op
  BY StepTypes DEF Ops, Tags
<1>2. /\ e \in Seq(StepSet) /\ e # <<>> /\ Head(e) = Put("E_dump")
      /\ d \in Seq(StepSet) /\ d # <<>> /\ Head(d) = Do("dump")
  BY <1>1, ConsFacts
<1>3. \/ todo[r] = d
      \/ todo[r] = s /\ ph_irec[r] \in 1 .. BufNrec - 1
      \/ todo[r] = w
      \/ todo[r] = z
      \/ todo[r] = e /\ ph_irec[r] = 0
  BY DEF Dumping
<1> HIDE DEF e, d
<1>4. z \in Seq(StepSet) /\ z # <<>> /\ Head(z) = Do("zero")
  BY <1>1, <1>2, ConsFacts
<1> HIDE DEF z
<1>5. w \in Seq(StepSet) /\ w # <<>> /\ Head(w) = Do("wtrec")
  BY <1>1, <1>4, ConsFacts
<1> HIDE DEF w
<1>6. s # <<>> /\ Head(s) = Put("S_dump")
  BY <1>1, <1>5, ConsFacts
<1> HIDE DEF s
<1>7. BufNrec \in Nat /\ BufNrec >= 3 /\ {"E_dump", "S_dump"} \subseteq Tags
  BY MpiAssumption DEF Tags
<1> QED
  BY <1>1, <1>2, <1>3, <1>4, <1>5, <1>6, <1>7

LEMMA BeforeHead ==
  ASSUME TypeOK, NEW r \in Ranks, NEW t \in Tags, NEW rest \in Seq(StepSet), Before(r, t, rest)
  PROVE  /\ todo[r] # <<>> /\ Head(todo[r])[1] \in {"read", "dump", "put", "wtrec", "zero"}
         /\ Head(todo[r])[1] = "put" => ph_irec[r] < BufNrec /\ Head(todo[r])[2] \in Tags
<1> DEFINE p == Cons(Put(t), rest)
           c == Cons(Do("check"), rest)
           d == Cons(Do("zero"), p)
<1>1. /\ \A op \in {"zero", "check"} : Do(op) \in StepSet /\ Do(op)[1] = op
      /\ Put(t) \in StepSet /\ Put(t)[1] = "put" /\ Put(t)[2] = t
      /\ Read(t) \in StepSet /\ Read(t)[1] = "read"
  BY StepTypes DEF Ops
<1>2. p \in Seq(StepSet) /\ p # <<>> /\ Head(p) = Put(t) /\ c \in Seq(StepSet)
  BY <1>1, ConsFacts
<1>3. d \in Seq(StepSet) /\ d # <<>> /\ Head(d) = Do("zero")
  <2> HIDE DEF p
  <2> QED BY <1>1, <1>2, ConsFacts
<1>4. \/ todo[r] = Cons(Read(t), rest)
      \/ todo[r] = Cons(Put(t), c) /\ ph_irec[r] \in 1 .. BufNrec - 2
      \/ Dumping(r, d)
      \/ todo[r] = d
      \/ todo[r] = p /\ ph_irec[r] < BufNrec
  BY DEF Before, Again
<1> HIDE DEF p, c, d
<1>5. BufNrec \in Nat
  BY MpiAssumption
<1>6. CASE todo[r] = Cons(Read(t), rest)
  BY <1>1, <1>6, ConsFacts
<1>7. CASE todo[r] = Cons(Put(t), c) /\ ph_irec[r] \in 1 .. BufNrec - 2
  <2>1. todo[r] # <<>> /\ Head(todo[r]) = Put(t)
    BY <1>1, <1>2, <1>7, ConsFacts
  <2>2. ph_irec[r] < BufNrec
    BY <1>5, <1>7
  <2> QED BY <1>1, <2>1, <2>2
<1>8. CASE Dumping(r, d)
  BY <1>3, <1>8, DumpingHead
<1> QED
  BY <1>1, <1>2, <1>3, <1>4, <1>6, <1>7, <1>8

LEMMA AfterHead ==
  ASSUME TypeOK, NEW r \in Ranks, NEW rest \in Seq(StepSet), After(r, rest), todo[r] # rest
  PROVE  /\ todo[r] # <<>> /\ Head(todo[r])[1] \in {"check", "dump", "put", "wtrec", "zero"}
         /\ Head(todo[r])[1] = "put" => ph_irec[r] < BufNrec /\ Head(todo[r])[2] \in Tags
<1>1. Do("check") \in StepSet /\ Do("check")[1] = "check"
  BY StepTypes DEF Ops
<1>2. CASE todo[r] = Cons(Do("check"), rest)
  BY <1>1, <1>2, ConsFacts
<1>3. CASE Dumping(r, rest)
  BY <1>3, DumpingHead
<1> QED
  BY <1>2, <1>3 DEF After

LEMMA FinishHeads ==
  ASSUME NEW r
  PROVE  /\ Finish(r) # <<>> /\ Head(Finish(r))[1] = "flush" /\ Tail(Finish(r)) = Info(r)
         /\ Leave # <<>> /\ Head(Leave)[1] = "barrier" /\ Tail(Leave) = AtEnd
         /\ AtEnd # <<>> /\ Head(AtEnd)[1] = "return" /\ Tail(AtEnd) = <<>>
         /\ Info(r) # <<>> /\ Head(Info(r))[1] = (IF r = 0 THEN "wtinfo" ELSE "barrier")
         /\ Tail(Info(r)) = (IF r = 0 THEN Leave ELSE AtEnd)
<1>1. /\ Finish(r) \in Seq(StepSet) /\ Info(r) \in Seq(StepSet) /\ Leave \in Seq(StepSet)
      /\ AtEnd \in Seq(StepSet) /\ <<>> \in Seq(StepSet)
  BY FinishType
<1>2. \A op \in {"flush", "wtinfo", "return", "barrier"} : Do(op) \in StepSet /\ Do(op)[1] = op
  BY StepTypes DEF Ops
<1>3. Finish(r) # <<>> /\ Head(Finish(r))[1] = "flush" /\ Tail(Finish(r)) = Info(r)
  BY <1>1, <1>2, ConsFacts DEF Finish
<1>4. Leave # <<>> /\ Head(Leave)[1] = "barrier" /\ Tail(Leave) = AtEnd
  BY <1>1, <1>2, ConsFacts DEF Leave
<1>5. AtEnd # <<>> /\ Head(AtEnd)[1] = "return" /\ Tail(AtEnd) = <<>>
  BY <1>1, <1>2, ConsFacts DEF AtEnd
<1>6. r = 0 => Info(r) # <<>> /\ Head(Info(r))[1] = "wtinfo" /\ Tail(Info(r)) = Leave
  BY <1>1, <1>2, ConsFacts DEF Info
<1>7. r # 0 => Info(r) # <<>> /\ Head(Info(r))[1] = "barrier" /\ Tail(Info(r)) = AtEnd
  BY <1>4 DEF Info
<1> QED
  BY <1>3, <1>4, <1>5, <1>6, <1>7

(* What stands first in a stage.                                           *)
LEMMA SetupHead ==
  ASSUME NEW r \in Ranks, NEW k, Setup(r, k), todo[r] # <<>>
  PROVE  /\ Head(todo[r])[1] \in {"barrier", "wtctag"}
         /\ Head(todo[r])[1] = "wtctag" =>
              r = 0 /\ settags[r] = k + 1 /\ ctags = k /\ Tail(todo[r]) = Cons(Do("barrier"), <<>>)
         /\ Head(todo[r])[1] = "barrier" =>
              settags[r] = k + 1 /\ Tail(todo[r]) = <<>> /\ (r = 0 => ctags = k + 1)
<1>1. <<>> \in Seq(StepSet) /\ \A op \in {"barrier", "wtctag"} : Do(op) \in StepSet /\ Do(op)[1] = op
  BY StepTypes DEF Ops
<1> DEFINE b == Cons(Do("barrier"), <<>>)
<1>2. b \in Seq(StepSet) /\ Head(b)[1] = "barrier" /\ Tail(b) = <<>>
  BY <1>1, ConsFacts
<1>3. \/ todo[r] = b /\ settags[r] = k + 1 /\ (r = 0 => ctags = k + 1)
      \/ r = 0 /\ todo[r] = Cons(Do("wtctag"), b) /\ settags[r] = k + 1 /\ ctags = k
  BY DEF Setup
<1> HIDE DEF b
<1>4. Head(Cons(Do("wtctag"), b))[1] = "wtctag" /\ Tail(Cons(Do("wtctag"), b)) = b
  BY <1>1, <1>2, ConsFacts
<1> QED
  BY <1>2, <1>3, <1>4 DEF b

LEMMA OpeningHead ==
  ASSUME NEW r \in Ranks, NEW k, Opening(r, k)
  PROVE  /\ todo[r] # <<>> /\ Head(todo[r])[1] \in {"barrier", "mkrec"}
         /\ Head(todo[r])[1] = "barrier" =>
              rec_hdr[r] # NoFile /\ Tail(todo[r]) = Cons(Put("S_main"), <<>>)
         /\ Head(todo[r])[1] = "mkrec" => Tail(todo[r]) = Cons(Do("barrier"), Cons(Put("S_main"), <<>>))
<1>1. /\ <<>> \in Seq(StepSet) /\ Put("S_main") \in StepSet
      /\ \A op \in {"barrier", "mkrec"} : Do(op) \in StepSet /\ Do(op)[1] = op
  BY StepTypes DEF Ops, Tags
<1> DEFINE s == Cons(Put("S_main"), <<>>)
           b == Cons(Do("barrier"), s)
<1>2. s \in Seq(StepSet)
  BY <1>1, ConsFacts
<1>3. todo[r] = Cons(Do("mkrec"), b) \/ (todo[r] = b /\ rec_hdr[r] # NoFile)
  BY DEF Opening
<1> HIDE DEF s
<1>4. b \in Seq(StepSet) /\ b # <<>> /\ Head(b)[1] = "barrier" /\ Tail(b) = s
  BY <1>1, <1>2, ConsFacts
<1> HIDE DEF b
<1>5. /\ Cons(Do("mkrec"), b) # <<>> /\ Head(Cons(Do("mkrec"), b))[1] = "mkrec"
      /\ Tail(Cons(Do("mkrec"), b)) = b
  BY <1>1, <1>4, ConsFacts
<1> QED
  BY <1>3, <1>4, <1>5 DEF s, b

LEMMA RunningHead ==
  ASSUME TypeOK, NEW r \in Ranks, NEW k, Running(r, k)
  PROVE  /\ todo[r] # <<>> => Head(todo[r])[1] \in {"read", "dump", "put", "wtrec", "zero", "check"}
         /\ todo[r] # <<>> /\ Head(todo[r])[1] = "put" => ph_irec[r] < BufNrec /\ Head(todo[r])[2] \in Tags
         /\ todo[r] = <<>> => Room(r)
<1>1. /\ <<>> \in Seq(StepSet) /\ "user" \in Tags /\ "S_main" \in Tags
      /\ Put("S_main") \in StepSet /\ Put("S_main")[1] = "put" /\ Put("S_main")[2] = "S_main"
  BY StepTypes DEF Tags
<1>2. CASE todo[r] = Cons(Put("S_main"), <<>>) /\ ph_irec[r] = 0
  <2>1. 0 < BufNrec
    BY MpiAssumption
  <2> QED BY <1>1, <1>2, <2>1, ConsFacts
<1>3. CASE Before(r, "user", <<>>)
  BY <1>1, <1>3, BeforeHead
<1>4. CASE After(r, <<>>) /\ todo[r] # <<>>
  BY <1>1, <1>4, AfterHead
<1>5. CASE After(r, <<>>) /\ todo[r] = <<>>
  <2>1. ~Dumping(r, <<>>)
    BY <1>1, <1>5, DumpingHead
  <2>2. Cons(Do("check"), <<>>) # <<>>
    <3>1. Do("check") \in StepSet
      BY StepTypes DEF Ops
    <3> QED BY <1>1, <3>1, ConsFacts
  <2> QED BY <1>5, <2>1, <2>2 DEF After
<1> QED
  BY <1>2, <1>3, <1>4, <1>5 DEF Running

LEMMA ClosingHead ==
  ASSUME TypeOK, NEW r \in Ranks, NEW k, Closing(r, k)
  PROVE  /\ todo[r] # <<>> /\ Head(todo[r])[1] \in {"read", "dump", "put", "wtrec", "zero", "check", "flush",
                                                    "wtinfo", "barrier", "return"}
         /\ Head(todo[r])[1] = "put" => ph_irec[r] < BufNrec /\ Head(todo[r])[2] \in Tags
         /\ Head(todo[r])[1] = "barrier" =>
              \/ /\ k = NSetTag + 1 /\ Room(r) /\ Tail(todo[r]) = Cons(Read("E_main"), Finish(r))
              \/ k = NSetTag + 2 /\ Wrote(r) /\ Tail(todo[r]) = AtEnd /\ todo[r] = Leave
<1>1. /\ "E_main" \in Tags /\ Read("E_main") \in StepSet /\ Do("barrier") \in StepSet /\ Do("barrier")[1] = "barrier"
      /\ Finish(r) \in Seq(StepSet)
  BY StepTypes, FinishType DEF Ops, Tags
<1>2. CASE /\ k = NSetTag + 1 /\ todo[r] = Cons(Do("barrier"), Cons(Read("E_main"), Finish(r))) /\ Room(r)
  <2>1. Cons(Read("E_main"), Finish(r)) \in Seq(StepSet)
    BY <1>1, ConsFacts
  <2> QED BY <1>1, <1>2, <2>1, ConsFacts
<1>3. CASE Before(r, "E_main", Finish(r))
  BY <1>1, <1>3, BeforeHead
<1>4. CASE After(r, Finish(r))
  BY <1>1, <1>4, AfterHead, FinishHeads
<1>5. CASE k = NSetTag + 2 /\ todo[r] \in {Info(r), Leave} /\ Wrote(r)
  BY <1>5, FinishHeads DEF Info
<1>6. CASE todo[r] = AtEnd
  BY <1>6, FinishHeads
<1> QED
  BY <1>2, <1>3, <1>4, <1>5, <1>6 DEF Closing

-----------------------------------------------------------------------------
(* The ranks together.                                                     *)

(* A step of one rank leaves what the stage of another one speaks of.      *)
Same(q) ==
  /\ phase'[q] = phase[q] /\ todo'[q] = todo[q] /\ ph_irec'[q] = ph_irec[q] /\ fast'[q] = fast[q]
  /\ settags'[q] = settags[q] /\ log'[q] = log[q] /\ rec_hdr'[q] = rec_hdr[q]
  /\ q = 0 => ctags' = ctags

LEMMA SameDumping ==
  ASSUME NEW q, NEW rest, Same(q)
  PROVE  Dumping(q, rest) => Dumping(q, rest)'
  BY DEF Same, Dumping

LEMMA SameReading ==
  ASSUME NEW q, NEW t, NEW rest, Same(q)
  PROVE  (Before(q, t, rest) => Before(q, t, rest)') /\ (After(q, rest) => After(q, rest)')
<1>1. \A s : Dumping(q, s) => Dumping(q, s)'
  BY SameDumping
<1>2. Room(q) => Room(q)'
  BY DEF Same, Room
<1>3. Before(q, t, rest) => Before(q, t, rest)'
  BY <1>1, <1>2 DEF Same, Before
<1>4. After(q, rest) => After(q, rest)'
  BY <1>1, <1>2 DEF Same, After
<1> QED
  BY <1>3, <1>4

LEMMA SameStage ==
  ASSUME NEW q, NEW k, Same(q)
  PROVE  Stage(q, k) => Stage(q, k)'
<1>1. /\ \A t, s : Before(q, t, s) => Before(q, t, s)'
      /\ \A s : After(q, s) => After(q, s)'
  BY SameReading
<1>2. (Room(q) => Room(q)') /\ (Wrote(q) => Wrote(q)')
  BY DEF Same, Room, Wrote
<1>3. Setup(q, k) => Setup(q, k)'
  BY DEF Same, Setup
<1>4. Opening(q, k) => Opening(q, k)'
  BY DEF Same, Opening
<1>5. Running(q, k) => Running(q, k)'
  BY <1>1 DEF Same, Running
<1>6. Closing(q, k) => Closing(q, k)'
  BY <1>1, <1>2 DEF Same, Closing
<1>7. Finished(q, k) => Finished(q, k)'
  BY <1>2 DEF Same, Finished
<1> QED
  BY <1>3, <1>4, <1>5, <1>6, <1>7 DEF Stage

(* A rank that was lost stays so.                                          *)
LEMMA SameGone ==
  ASSUME NEW q, Same(q), fails' = fails \/ fails' = fails + 1, fails \in Nat, Gone(q)
  PROVE  Gone(q)'
  BY DEF Same, Gone

(* The steps of a rank leave the other ranks alone, and rank 0 alone       *)
(* writes tags.                                                            *)
LEMMA OthersSame ==
  ASSUME TypeOK, NEW r \in Ranks, NEW q \in Ranks, q # r,
         \/ Step(r) /\ (Head(todo[r])[1] = "wtctag" => r = 0)
         \/ Crash(r) \/ Launcher(r) \/ Collective(r)
         \/ phmpi_read(r) \/ phmpi_fastread(r) \/ phmpi_dump(r)
  PROVE  Same(q)
<1> USE DEF TypeOK
<1>1. ASSUME Step(r), Head(todo[r])[1] = "wtctag" => r = 0 PROVE Same(q)
  <2>1. CASE WtCtag(r)
    BY <1>1, <2>1 DEF WtCtag, Then, At, memory, bounds, Same
  <2>2. CASE Fastread(r)
    BY <2>2 DEF Fastread, Then, disk, bounds, Same
  <2>3. CASE EnterRead(r)
    BY <2>3 DEF EnterRead, Then, memory, disk, bounds, Same
  <2>4. CASE Check(r)
    BY <2>4 DEF Check, Then, memory, disk, bounds, Same
  <2>5. CASE EnterDump(r)
    BY <2>5 DEF EnterDump, Then, disk, bounds, Same
  <2>6. CASE Zero(r)
    BY <2>6 DEF Zero, Then, disk, bounds, Same
  <2>7. CASE Return(r)
    BY <2>7 DEF Return, Then, memory, disk, bounds, Same
  <2>8. ASSUME NEW ok \in BOOLEAN, MkRec(r, ok) PROVE Same(q)
    BY <2>8 DEF MkRec, Then, Same
  <2>9. ASSUME NEW ok \in BOOLEAN, WtRec(r, ok) PROVE Same(q)
    BY <2>9 DEF WtRec, Then, Same
  <2>10. ASSUME NEW ok \in BOOLEAN, WtInfo(r, ok) PROVE Same(q)
    BY <2>10 DEF WtInfo, Then, memory, Same
  <2> QED BY <1>1, <2>1, <2>2, <2>3, <2>4, <2>5, <2>6, <2>7, <2>8, <2>9, <2>10 DEF Step
<1>2. CASE Crash(r)
  BY <1>2 DEF Crash, Die, Then, memory, Same
<1>3. CASE Launcher(r)
  BY <1>3 DEF Launcher, Die, Then, memory, Same
<1>4. CASE phmpi_set_tag(r)
  BY <1>4 DEF phmpi_set_tag, Then, memory, disk, Same
<1>5. CASE phmpi_commit(r)
  BY <1>5 DEF phmpi_commit, Then, memory, disk, bounds, Same
<1>6. CASE phmpi_finalize(r)
  BY <1>6 DEF phmpi_finalize, Then, memory, disk, bounds, Same
<1>7. CASE phmpi_read(r)
  BY <1>7 DEF phmpi_read, Call, Then, memory, disk, Same
<1>8. CASE phmpi_fastread(r)
  BY <1>8 DEF phmpi_fastread, Call, Then, memory, disk, Same
<1>9. CASE phmpi_dump(r)
  BY <1>9 DEF phmpi_dump, Call, Then, memory, disk, Same
<1> QED
  BY <1>1, <1>2, <1>3, <1>4, <1>5, <1>6, <1>7, <1>8, <1>9 DEF Collective

(* The calls of the program.                                               *)
LEMMA IdleStage ==
  ASSUME TypeOK, NEW r \in Ranks, NEW k, Stage(r, k), Idle(r)
  PROVE  /\ phase[r] = "setup" => Setup(r, k) /\ settags[r] = k /\ (r = 0 => ctags = k)
         /\ phase[r] = "open" => Running(r, k) /\ Room(r)
<1>1. todo[r] = <<>>
  BY DEF Idle
<1>2. ~Opening(r, k) /\ ~Closing(r, k)
  BY <1>1, OpeningHead, ClosingHead
<1>3. CASE Setup(r, k)
  <2>1. <<>> \in Seq(StepSet) /\ \A op \in {"barrier", "wtctag"} : Do(op) \in StepSet
    BY StepTypes DEF Ops
  <2>2. Cons(Do("barrier"), <<>>) \in Seq(StepSet) /\ Cons(Do("barrier"), <<>>) # <<>>
    BY <2>1, ConsFacts
  <2>3. Cons(Do("wtctag"), Cons(Do("barrier"), <<>>)) # <<>>
    BY <2>1, <2>2, ConsFacts
  <2> QED BY <1>1, <1>3, <2>2, <2>3 DEF Setup
<1>4. CASE Running(r, k)
  BY <1>1, <1>4, RunningHead DEF Running
<1> QED
  BY <1>2, <1>3, <1>4 DEF Stage, Finished

LEMMA SetTagStage ==
  ASSUME TypeOK, NEW r \in Ranks, NEW k \in Nat, Stage(r, k), phmpi_set_tag(r)
  PROVE  Stage(r, k)'
<1>1. phase[r] = "setup" /\ Idle(r) /\ settags'[r] = settags[r] + 1 /\ phase' = phase /\ ph_irec' = ph_irec
      /\ ctags' = ctags
  BY DEF phmpi_set_tag, memory, disk, TypeOK
<1>2. Setup(r, k) /\ settags[r] = k /\ (r = 0 => ctags = k)
  BY <1>1, IdleStage
<1>3. Do("wtctag") \in StepSet /\ Do("barrier") \in StepSet
  BY StepTypes DEF Ops
<1>4. todo'[r] = IF r = 0 THEN <<Do("wtctag"), Do("barrier")>> ELSE <<Do("barrier")>>
  BY DEF phmpi_set_tag, Then, TypeOK
<1>5. CASE r = 0
  <2>1. <<Do("wtctag"), Do("barrier")>> = Cons(Do("wtctag"), Cons(Do("barrier"), <<>>))
    <3>1. <<>> \in Seq(StepSet)
      OBVIOUS
    <3> QED BY <1>3, <3>1, PushTwo
  <2>2. todo'[r] = Cons(Do("wtctag"), Cons(Do("barrier"), <<>>))
    BY <1>4, <1>5, <2>1
  <2> QED BY <1>1, <1>2, <1>5, <2>2 DEF Setup, Stage
<1>6. CASE r # 0
  <2>1. <<Do("barrier")>> = Cons(Do("barrier"), <<>>)
    BY <1>3, PushLast
  <2>2. todo'[r] = Cons(Do("barrier"), <<>>)
    BY <1>4, <1>6, <2>1
  <2> QED BY <1>1, <1>2, <1>6, <2>2 DEF Setup, Stage
<1> QED
  BY <1>5, <1>6

LEMMA CommitStage ==
  ASSUME TypeOK, NEW r \in Ranks, NEW k \in Nat, Stage(r, k), phmpi_commit(r)
  PROVE  Stage(r, k)'
<1>1. phase[r] = "setup" /\ Idle(r) /\ settags[r] = NSetTag /\ phase'[r] = "open" /\ ph_irec' = ph_irec
      /\ ctags' = ctags /\ todo'[r] = CommitSteps
  BY DEF phmpi_commit, memory, disk, Then, TypeOK
<1>2. Setup(r, k) /\ settags[r] = k /\ (r = 0 => ctags = k)
  BY <1>1, IdleStage
<1>3. CommitSteps = Cons(Do("mkrec"), Cons(Do("barrier"), Cons(Put("S_main"), <<>>)))
  <2>1. Do("mkrec") \in StepSet /\ Do("barrier") \in StepSet /\ Put("S_main") \in StepSet /\ <<>> \in Seq(StepSet)
    BY StepTypes DEF Ops, Tags
  <2> QED BY <2>1, PushThree DEF CommitSteps
<1> QED
  BY <1>1, <1>2, <1>3 DEF Setup, Opening, Stage

LEMMA CallStage ==
  ASSUME TypeOK, FastLimit <= BufNrec, NEW r \in Ranks, NEW k \in Nat, Stage(r, k),
         phmpi_read(r) \/ phmpi_fastread(r) \/ phmpi_dump(r)
  PROVE  Stage(r, k)'
<1>1. phase[r] = "open" /\ Idle(r) /\ phase' = phase /\ ph_irec' = ph_irec
  BY DEF phmpi_read, phmpi_fastread, phmpi_dump, Call, memory
<1>2. Running(r, k) /\ Room(r)
  BY <1>1, IdleStage
<1>3. Read("user") \in StepSet /\ Put("user") \in StepSet /\ Do("dump") \in StepSet
  BY StepTypes DEF Ops, Tags
<1>4. ph_irec[r] \in 0 .. BufNrec /\ BufNrec \in Nat /\ BufNrec >= 3 /\ FastLimit \in Nat
  BY MpiAssumption DEF TypeOK
<1>5. CASE phmpi_read(r)
  <2>1. todo'[r] = <<Read("user")>> /\ fast' = fast
    BY <1>5 DEF phmpi_read, Then, TypeOK
  <2>2. todo'[r] = Cons(Read("user"), <<>>) /\ Room(r)'
    <3>1. todo'[r] = Cons(Read("user"), <<>>)
      BY <1>3, <2>1, PushLast
    <3>2. Room(r)'
      BY <1>1, <1>2, <2>1 DEF Room
    <3> QED BY <3>1, <3>2
  <2>3. Before(r, "user", <<>>)'
    BY <2>2 DEF Before
  <2> QED BY <1>1, <1>2, <2>3 DEF Running, Stage
<1>6. CASE phmpi_fastread(r)
  <2>1. todo'[r] = <<Put("user")>> /\ fast'[r] /\ ph_irec[r] < FastLimit
    BY <1>6 DEF phmpi_fastread, Then, TypeOK
  <2>2. todo'[r] = Cons(Put("user"), <<>>)
    BY <1>3, <2>1, PushLast
  <2>3. ph_irec'[r] < BufNrec
    BY <1>1, <1>4, <2>1
  <2>4. Before(r, "user", <<>>)'
    BY <2>1, <2>2, <2>3 DEF Before
  <2> QED BY <1>1, <1>2, <2>4 DEF Running, Stage
<1>7. CASE phmpi_dump(r)
  <2>1. todo'[r] = <<Do("dump")>> /\ fast' = fast
    BY <1>7 DEF phmpi_dump, Then, TypeOK
  <2>2. todo'[r] = Cons(Do("dump"), <<>>)
    BY <1>3, <2>1, PushLast
  <2>3. ph_irec'[r] \in 1 .. BufNrec /\ (~fast'[r] => ph_irec'[r] < BufNrec)
    BY <1>1, <1>2, <1>4, <2>1 DEF Room
  <2>4. After(r, <<>>)'
    BY <2>2, <2>3 DEF After, Dumping
  <2> QED BY <1>1, <1>2, <2>4 DEF Running, Stage
<1> QED
  BY <1>5, <1>6, <1>7

LEMMA FinalizeStage ==
  ASSUME TypeOK, NEW r \in Ranks, NEW k \in Nat, Stage(r, k), phmpi_finalize(r)
  PROVE  Stage(r, k)'
<1>1. phase[r] = "open" /\ Idle(r) /\ phase'[r] = "closing" /\ ph_irec' = ph_irec /\ fast' = fast
      /\ todo'[r] = FinalSteps(r)
  BY DEF phmpi_finalize, memory, bounds, Then, TypeOK
<1>2. Running(r, k) /\ Room(r)
  BY <1>1, IdleStage
<1>3. todo'[r] = Cons(Do("barrier"), Cons(Read("E_main"), Finish(r)))
  BY <1>1, FinalStepsAre
<1>4. Room(r)'
  BY <1>1, <1>2 DEF Room
<1> QED
  BY <1>1, <1>2, <1>3, <1>4 DEF Running, Closing, Stage

(* A rank that ends is marked; it ends only after a failure.               *)
LEMMA DieGone ==
  ASSUME TypeOK, NEW k, Control(k), NEW r \in Ranks, Crash(r) \/ Launcher(r)
  PROVE  Gone(r)' /\ (fails' = fails \/ fails' = fails + 1)
<1>1. phase'[r] = "gone" /\ todo'[r] = <<>>
  BY DEF Crash, Launcher, Die, Then, TypeOK
<1>2. fails \in Nat
  BY MpiAssumption DEF TypeOK
<1>3. CASE Crash(r)
  BY <1>1, <1>2, <1>3 DEF Crash, Gone
<1>4. CASE Launcher(r)
  <2>1. PICK q \in Ranks : phase[q] = "gone"
    BY <1>4 DEF Launcher
  <2>2. Gone(q)
    BY <2>1 DEF Control, Stage, Setup, Opening, Running, Closing, Finished
  <2> QED BY <1>1, <1>4, <2>2 DEF Launcher, Gone
<1> QED
  BY <1>3, <1>4

(* The ranks pass a barrier together; behind the one of phmpi_commit every *)
(* record file is open and all tags are written.                           *)
LEMMA BarrierControl ==
  ASSUME TypeOK, NEW k \in Nat, Control(k), Barrier
  PROVE  Control(k + 1)'
<1>1. \A r \in Ranks : todo[r] # <<>> /\ Head(todo[r])[1] = "barrier" /\ todo'[r] = Tail(todo[r])
  BY DEF Barrier, At, Idle, Rest
<1>2. /\ phase' = phase /\ ph_irec' = ph_irec /\ fast' = fast /\ settags' = settags /\ log' = log
      /\ rec_hdr' = rec_hdr /\ ctags' = ctags
  BY DEF Barrier, memory, disk, bounds
<1>3. \A r \in Ranks : Stage(r, k)
  BY <1>1 DEF Control, Gone
<1>4. 0 \in Ranks /\ NSetTag \in Nat
  BY MpiAssumption DEF Ranks
<1>5. ASSUME NEW r \in Ranks
      PROVE  /\ Stage(r, k + 1)'
             /\ k = NSetTag => rec_hdr[r] # NoFile /\ (r = 0 => ctags = NSetTag)
  <2>1. todo[r] # <<>> /\ Head(todo[r])[1] = "barrier" /\ todo'[r] = Tail(todo[r])
    BY <1>1
  <2>2. CASE Setup(r, k)
    <3>1. settags[r] = k + 1 /\ Tail(todo[r]) = <<>> /\ (r = 0 => ctags = k + 1)
      BY <2>1, <2>2, SetupHead
    <3>2. k # NSetTag
      <4>1. settags[r] <= NSetTag
        BY <1>4 DEF TypeOK
      <4> QED BY <1>4, <3>1, <4>1
    <3>3. Setup(r, k + 1)'
      BY <1>2, <2>1, <2>2, <3>1 DEF Setup
    <3> QED BY <3>2, <3>3 DEF Stage
  <2>3. CASE Opening(r, k)
    <3>1. rec_hdr[r] # NoFile /\ Tail(todo[r]) = Cons(Put("S_main"), <<>>)
      BY <2>1, <2>3, OpeningHead
    <3>2. Running(r, k + 1)'
      BY <1>2, <2>1, <2>3, <3>1 DEF Opening, Running
    <3> QED BY <2>3, <3>1, <3>2 DEF Opening, Stage
  <2>4. CASE Running(r, k)
    BY <2>1, <2>4, RunningHead
  <2>5. CASE Closing(r, k)
    <3>1. \/ k = NSetTag + 1 /\ Room(r) /\ Tail(todo[r]) = Cons(Read("E_main"), Finish(r))
          \/ k = NSetTag + 2 /\ Wrote(r) /\ Tail(todo[r]) = AtEnd
      BY <2>1, <2>5, ClosingHead
    <3>2. phase'[r] = "closing"
      BY <1>2, <2>5 DEF Closing
    <3>3. CASE k = NSetTag + 1 /\ Room(r) /\ Tail(todo[r]) = Cons(Read("E_main"), Finish(r))
      <4>1. Room(r)' /\ todo'[r] = Cons(Read("E_main"), Finish(r))
        BY <1>2, <2>1, <3>3 DEF Room
      <4>2. Before(r, "E_main", Finish(r))'
        BY <4>1 DEF Before
      <4>3. k + 1 = NSetTag + 2 /\ k # NSetTag
        BY <1>4, <3>3
      <4> QED BY <3>2, <4>2, <4>3 DEF Closing, Stage
    <3>4. CASE k = NSetTag + 2 /\ Wrote(r) /\ Tail(todo[r]) = AtEnd
      <4>1. Wrote(r)' /\ todo'[r] = AtEnd
        BY <1>2, <2>1, <3>4 DEF Wrote
      <4>2. k + 1 = NSetTag + 3 /\ k # NSetTag
        BY <1>4, <3>4
      <4> QED BY <3>2, <4>1, <4>2 DEF Closing, Stage
    <3> QED BY <3>1, <3>3, <3>4
  <2>6. CASE Finished(r, k)
    BY <2>1, <2>6 DEF Finished
  <2> QED BY <1>3, <2>2, <2>3, <2>4, <2>5, <2>6 DEF Stage
<1>6. k = NSetTag => AllOpen
  BY <1>4, <1>5 DEF AllOpen
<1>7. k + 1 > NSetTag \/ (\E r \in Ranks : log[r] # <<>>) => AllOpen
  BY <1>4, <1>6 DEF Control
<1>8. (k + 1 > NSetTag \/ (\E r \in Ranks : log[r] # <<>>) => AllOpen)'
  BY <1>2, <1>7 DEF AllOpen
<1> QED
  BY <1>5, <1>8 DEF Control

(* One rank moves and the others keep their stages.                        *)
LEMMA OneMoves ==
  ASSUME TypeOK, NEW k \in Nat, Control(k), NEW r \in Ranks,
         \A q \in Ranks : q # r => Same(q),
         Stage(r, k)' \/ Gone(r)', fails' = fails \/ fails' = fails + 1,
         AllOpen => AllOpen',
         log'[r] = log[r] \/ k > NSetTag
  PROVE  Control(k)'
<1>1. fails \in Nat
  BY MpiAssumption DEF TypeOK
<1>2. ASSUME NEW q \in Ranks PROVE Stage(q, k)' \/ Gone(q)'
  <2>1. CASE q = r
    BY <2>1
  <2>2. CASE q # r
    BY <1>1, <2>2, SameStage, SameGone DEF Control
  <2> QED BY <2>1, <2>2
<1>3. \A q \in Ranks : log'[q] = log[q] \/ k > NSetTag
  BY DEF Same
<1>4. (k > NSetTag \/ (\E q \in Ranks : log[q] # <<>>) => AllOpen)'
  BY <1>3 DEF Control
<1> QED
  BY <1>2, <1>4 DEF Control

(* Files stay open and tags written.                                       *)
LEMMA OpenStays ==
  ASSUME TypeOK, AllOpen, rec_hdr' = rec_hdr \/ (\E q \in Ranks : rec_hdr' = [rec_hdr EXCEPT ![q] = ph_nev[q]]),
         ctags' = ctags
  PROVE  AllOpen'
<1>1. ASSUME NEW q \in Ranks PROVE ph_nev[q] # NoFile
  <2>1. ph_nev[q] \in 0 .. NevMax
    BY DEF TypeOK
  <2> QED BY <2>1, MpiAssumption DEF NoFile
<1>2. \A q \in Ranks : rec_hdr'[q] # NoFile
  BY <1>1 DEF AllOpen, TypeOK
<1> QED
  BY <1>2 DEF AllOpen

LEMMA StepControl ==
  ASSUME TypeOK, NEW k \in Nat, Control(k), NEW r \in Ranks, Step(r)
  PROVE  Control(k)'
<1>1. todo[r] # <<>>
  BY ByHead
<1>2. Stage(r, k)
  BY <1>1 DEF Control, Gone
<1>3. (Stage(r, k)' \/ Gone(r)') /\ (log'[r] = log[r] \/ k > NSetTag)
  BY <1>2, StageStep
<1>4. Head(todo[r])[1] = "wtctag" => r = 0 /\ Setup(r, k) /\ settags[r] = k + 1 /\ ctags = k
  <2>1. CASE Setup(r, k)
    BY <1>1, <2>1, SetupHead
  <2>2. CASE Opening(r, k)
    BY <2>2, OpeningHead
  <2>3. CASE Running(r, k)
    BY <1>1, <2>3, RunningHead
  <2>4. CASE Closing(r, k)
    BY <2>4, ClosingHead
  <2>5. CASE Finished(r, k)
    BY <1>1, <2>5 DEF Finished
  <2> QED BY <1>2, <2>1, <2>2, <2>3, <2>4, <2>5 DEF Stage
<1>5. \A q \in Ranks : q # r => Same(q)
  BY <1>4, OthersSame
<1>6. fails' = fails \/ fails' = fails + 1
  BY DEF Step, WtCtag, Fastread, EnterRead, Check, EnterDump, Zero, Return, MkRec, WtRec, WtInfo, Open, bounds
<1>7. AllOpen => AllOpen'
  <2> SUFFICES ASSUME AllOpen PROVE AllOpen'
    OBVIOUS
  <2>1. Head(todo[r])[1] # "wtctag"
    <3> SUFFICES ASSUME Head(todo[r])[1] = "wtctag" PROVE FALSE
      OBVIOUS
    <3>1. settags[r] = k + 1 /\ ctags = k /\ ctags = NSetTag
      BY <1>4 DEF AllOpen
    <3>2. settags[r] \in 0 .. NSetTag
      BY DEF TypeOK
    <3> QED BY <3>1, <3>2, MpiAssumption
  <2>2. ctags' = ctags
    BY <2>1, StepMoves
  <2>3. rec_hdr' = rec_hdr \/ rec_hdr' = [rec_hdr EXCEPT ![r] = ph_nev[r]]
    BY DEF Step, WtCtag, Fastread, EnterRead, Check, EnterDump, Zero, Return, MkRec, WtRec, WtInfo, memory, disk
  <2> QED BY <2>2, <2>3, OpenStays
<1> QED
  BY <1>3, <1>5, <1>6, <1>7, OneMoves

LEMMA CallControl ==
  ASSUME TypeOK, FastLimit <= BufNrec, NEW k \in Nat, Control(k), NEW r \in Ranks,
         Collective(r) \/ phmpi_read(r) \/ phmpi_fastread(r) \/ phmpi_dump(r)
  PROVE  Control(k)'
<1>1. /\ phase[r] \in {"setup", "open"} /\ fails' = fails /\ log' = log /\ rec_hdr' = rec_hdr /\ ctags' = ctags
  BY DEF Collective, phmpi_set_tag, phmpi_commit, phmpi_finalize, phmpi_read, phmpi_fastread, phmpi_dump, Call,
         disk, bounds
<1>2. Stage(r, k)
  BY <1>1 DEF Control, Gone
<1>3. Stage(r, k)'
  BY <1>2, SetTagStage, CommitStage, FinalizeStage, CallStage DEF Collective
<1>4. \A q \in Ranks : q # r => Same(q)
  BY OthersSame
<1>5. AllOpen => AllOpen'
  BY <1>1 DEF AllOpen
<1> QED
  BY <1>1, <1>3, <1>4, <1>5, OneMoves

LEMMA EndControl ==
  ASSUME TypeOK, NEW k \in Nat, Control(k), NEW r \in Ranks, Crash(r) \/ Launcher(r)
  PROVE  Control(k)'
<1>1. Gone(r)' /\ (fails' = fails \/ fails' = fails + 1)
  BY DieGone
<1>2. log' = log /\ rec_hdr' = rec_hdr /\ ctags' = ctags
  BY DEF Crash, Launcher, Die
<1>3. \A q \in Ranks : q # r => Same(q)
  BY OthersSame
<1>4. AllOpen => AllOpen'
  BY <1>2 DEF AllOpen
<1> QED
  BY <1>1, <1>2, <1>3, <1>4, OneMoves

LEMMA StillControl ==
  ASSUME TypeOK, NEW k \in Nat, Control(k), \A q \in Ranks : Same(q), fails' = fails, ctags' = ctags
  PROVE  Control(k)'
<1>1. 0 \in Ranks
  BY MpiAssumption DEF Ranks
<1>2. fails \in Nat
  BY MpiAssumption DEF TypeOK
<1>3. \A q \in Ranks : Stage(q, k)' \/ Gone(q)'
  BY <1>2, SameStage, SameGone DEF Control
<1>4. \A q \in Ranks : log'[q] = log[q] /\ rec_hdr'[q] = rec_hdr[q]
  BY DEF Same
<1>5. (k > NSetTag \/ (\E q \in Ranks : log[q] # <<>>) => AllOpen)'
  BY <1>4 DEF Control, AllOpen
<1> QED
  BY <1>3, <1>5 DEF Control

(* The barriers keep the ranks together.                                   *)
LEMMA ControlNext ==
  ASSUME TypeOK, FastLimit <= BufNrec, NEW k \in Nat, Control(k), [Next]_vars
  PROVE  \E m \in Nat : Control(m)'
<1>1. ASSUME NEW r \in Ranks,
             \/ Collective(r) \/ Step(r) \/ Crash(r) \/ Launcher(r)
             \/ phmpi_read(r) \/ phmpi_fastread(r) \/ phmpi_dump(r)
      PROVE  Control(k)'
  BY <1>1, StepControl, CallControl, EndControl
<1>2. ASSUME NEW r \in Ranks, NEW supported \in BOOLEAN, phmpi_set_evt(r, supported)
      PROVE  Control(k)'
  <2>1. (\A q \in Ranks : Same(q)) /\ fails' = fails /\ ctags' = ctags
    BY <1>2 DEF phmpi_set_evt, Same
  <2> QED BY <2>1, StillControl
<1>3. CASE Barrier
  <2>1. Control(k + 1)' /\ k + 1 \in Nat
    BY <1>3, BarrierControl
  <2> QED BY <2>1
<1>4. CASE UNCHANGED vars
  <2>1. (\A q \in Ranks : Same(q)) /\ fails' = fails /\ ctags' = ctags
    BY <1>4 DEF vars, memory, disk, bounds, Same
  <2> QED BY <2>1, StillControl
<1> QED
  BY <1>1, <1>2, <1>3, <1>4 DEF Next, Ended

-----------------------------------------------------------------------------
(* Types.                                                                  *)
LEMMA ControlHeads ==
  ASSUME TypeOK, NEW k \in Nat, Control(k), NEW r \in Ranks, todo[r] # <<>>
  PROVE  /\ Head(todo[r])[1] = "put" => ph_irec[r] < BufNrec /\ Head(todo[r])[2] \in Tags
         /\ Head(todo[r])[1] = "wtctag" => ctags < NSetTag
         /\ Head(todo[r])[1] = "put" => k > NSetTag
<1>1. Stage(r, k)
  BY DEF Control, Gone
<1>2. CASE Setup(r, k)
  <2>1. Head(todo[r])[1] # "put" /\ (Head(todo[r])[1] = "wtctag" => settags[r] = k + 1 /\ ctags = k)
    BY <1>2, SetupHead
  <2>2. settags[r] \in 0 .. NSetTag /\ NSetTag \in Nat
    BY MpiAssumption DEF TypeOK
  <2> QED BY <2>1, <2>2
<1>3. CASE Opening(r, k)
  BY <1>3, OpeningHead
<1>4. CASE Running(r, k)
  <2>1. k > NSetTag
    BY <1>4, MpiAssumption DEF Running
  <2> QED BY <1>4, <2>1, RunningHead
<1>5. CASE Closing(r, k)
  <2>1. k > NSetTag
    BY <1>5, MpiAssumption DEF Closing
  <2> QED BY <1>5, <2>1, ClosingHead
<1>6. CASE Finished(r, k)
  BY <1>6 DEF Finished
<1> QED
  BY <1>1, <1>2, <1>3, <1>4, <1>5, <1>6 DEF Stage

(* The buffer as a sequence.                                               *)
LEMMA BufferedType ==
  ASSUME TypeOK, NEW r \in Ranks
  PROVE  /\ Buffered(r) \in Seq(Nat) /\ Len(Buffered(r)) = ph_irec[r] /\ ph_irec[r] \in Nat
         /\ \A i \in 1 .. ph_irec[r] : Buffered(r)[i] = ph_precs[r][i - 1]
<1>1. ph_irec[r] \in 0 .. BufNrec /\ BufNrec \in Nat /\ ph_precs[r] \in [Slots -> Nat]
  BY MpiAssumption DEF TypeOK
<1>2. \A i \in 1 .. ph_irec[r] : i - 1 \in Slots
  BY <1>1 DEF Slots
<1>3. \A i \in 1 .. ph_irec[r] : ph_precs[r][i - 1] \in Nat
  BY <1>1, <1>2
<1> QED
  BY <1>1, <1>3 DEF Buffered

LEMMA ExtendRows ==
  ASSUME TypeOK, NEW r \in Ranks, NEW s \in Seq(Nat)
  PROVE  [rec_rows EXCEPT ![r] = @ \o s] \in [Ranks -> Seq(Nat)]
<1>1. rec_rows[r] \o s \in Seq(Nat)
  BY ConcatProperties DEF TypeOK
<1> QED
  BY <1>1 DEF TypeOK

LEMMA TodoType ==
  ASSUME TypeOK, NEW r \in Ranks, NEW s \in Seq(StepSet), Then(r, s)
  PROVE  todo' \in [Ranks -> Seq(Ops \X (Tags \cup {"none"}))]
  BY DEF TypeOK, Then, StepSet

LEMMA RestType ==
  ASSUME TypeOK, NEW r \in Ranks, todo[r] # <<>>
  PROVE  Rest(r) \in Seq(StepSet) /\ Head(todo[r]) \in StepSet
  BY HeadTailProperties DEF TypeOK, StepSet, Rest

LEMMA PrependType ==
  ASSUME NEW s \in Seq(StepSet), NEW t \in Seq(StepSet)
  PROVE  s \o t \in Seq(StepSet)
  BY ConcatProperties

LEMMA CallTypes ==
  ASSUME TypeOK, NEW r \in Ranks, Collective(r) \/ phmpi_read(r) \/ phmpi_fastread(r) \/ phmpi_dump(r)
  PROVE  TypeOK'
<1>1. /\ Read("user") \in StepSet /\ Put("user") \in StepSet /\ Put("S_main") \in StepSet
      /\ Read("E_main") \in StepSet
      /\ \A op \in Ops : Do(op) \in StepSet
  BY StepTypes DEF Tags
<1>2. \A op \in {"dump", "wtctag", "barrier", "mkrec"} : Do(op) \in StepSet
  BY <1>1 DEF Ops
<1>3. CASE phmpi_set_tag(r)
  <2>1. (IF r = 0 THEN <<Do("wtctag"), Do("barrier")>> ELSE <<Do("barrier")>>) \in Seq(StepSet)
    BY <1>2
  <2>2. todo' \in [Ranks -> Seq(Ops \X (Tags \cup {"none"}))]
    BY <1>3, <2>1, TodoType DEF phmpi_set_tag
  <2>3. settags[r] + 1 \in 0 .. NSetTag
    BY <1>3, MpiAssumption DEF phmpi_set_tag, TypeOK
  <2> QED BY <1>3, <2>2, <2>3 DEF phmpi_set_tag, TypeOK, memory, disk
<1>4. CASE phmpi_commit(r)
  <2>1. CommitSteps \in Seq(StepSet)
    BY <1>1, <1>2 DEF CommitSteps
  <2>2. todo' \in [Ranks -> Seq(Ops \X (Tags \cup {"none"}))]
    BY <1>4, <2>1, TodoType DEF phmpi_commit
  <2> QED BY <1>4, <2>2 DEF phmpi_commit, TypeOK, memory, disk, bounds
<1>5. CASE phmpi_finalize(r)
  <2>1. FinalSteps(r) \in Seq(StepSet)
    <3>1. Cons(Read("E_main"), Finish(r)) \in Seq(StepSet)
      BY <1>1, ConsFacts, FinishType
    <3> QED BY <1>2, <3>1, ConsFacts, FinalStepsAre
  <2>2. todo' \in [Ranks -> Seq(Ops \X (Tags \cup {"none"}))]
    BY <1>5, <2>1, TodoType DEF phmpi_finalize
  <2> QED BY <1>5, <2>2 DEF phmpi_finalize, TypeOK, memory, disk, bounds
<1>6. ASSUME phmpi_read(r) \/ phmpi_fastread(r) \/ phmpi_dump(r) PROVE TypeOK'
  <2>1. todo' \in [Ranks -> Seq(Ops \X (Tags \cup {"none"}))]
    <3>1. <<Read("user")>> \in Seq(StepSet) /\ <<Put("user")>> \in Seq(StepSet) /\ <<Do("dump")>> \in Seq(StepSet)
      BY <1>1, <1>2
    <3> QED BY <1>6, <3>1, TodoType DEF phmpi_read, phmpi_fastread, phmpi_dump
  <2>2. Call(r) /\ fast' \in [Ranks -> BOOLEAN]
    BY <1>6 DEF phmpi_read, phmpi_fastread, phmpi_dump, TypeOK
  <2>3. calls + 1 \in 0 .. MaxCalls
    <3>1. calls < MaxCalls
      BY <2>2 DEF Call
    <3>2. calls \in 0 .. MaxCalls
      BY DEF TypeOK
    <3> QED BY <3>1, <3>2, MpiAssumption
  <2> QED BY <2>1, <2>2, <2>3 DEF Call, TypeOK, memory, disk
<1> QED
  BY <1>3, <1>4, <1>5, <1>6 DEF Collective

LEMMA EventTypes ==
  ASSUME TypeOK, NEW r \in Ranks, NEW supported \in BOOLEAN, phmpi_set_evt(r, supported)
  PROVE  TypeOK'
<1>1. calls' \in 0 .. MaxCalls
  <2>1. calls + 1 \in 0 .. MaxCalls
    <3>1. calls < MaxCalls
      BY DEF phmpi_set_evt
    <3>2. calls \in 0 .. MaxCalls
      BY DEF TypeOK
    <3> QED BY <3>1, <3>2, MpiAssumption
  <2> QED BY <2>1 DEF phmpi_set_evt, TypeOK
<1>2. ph_nev' \in [Ranks -> 0 .. NevMax]
  <2>1. MaySet(r) => ph_nev[r] + 1 \in 0 .. NevMax
    BY MpiAssumption DEF MaySet, TypeOK
  <2> QED BY <2>1 DEF phmpi_set_evt, TypeOK
<1>3. etag' \in Seq((0 .. NevMax) \X BOOLEAN)
  <2>1. <<ph_nev'[r], supported>> \in (0 .. NevMax) \X BOOLEAN
    BY <1>2
  <2> QED BY <2>1 DEF phmpi_set_evt, TypeOK
<1> QED
  BY <1>1, <1>2, <1>3 DEF phmpi_set_evt, TypeOK

LEMMA EndTypes ==
  ASSUME TypeOK, NEW r \in Ranks, Crash(r) \/ Launcher(r)
  PROVE  TypeOK'
<1>1. Die(r) /\ fails' \in 0 .. MaxFail
  <2>1. fails \in 0 .. MaxFail /\ MaxFail \in Nat
    BY MpiAssumption DEF TypeOK
  <2>2. CASE Crash(r)
    BY <2>1, <2>2 DEF Crash
  <2>3. CASE Launcher(r)
    BY <2>1, <2>3 DEF Launcher
  <2> QED BY <2>2, <2>3
<1>2. todo' \in [Ranks -> Seq(Ops \X (Tags \cup {"none"}))]
  <2>1. <<>> \in Seq(StepSet)
    OBVIOUS
  <2> QED BY <1>1, <2>1, TodoType DEF Die
<1>3. rec_rows' \in [Ranks -> Seq(Nat)]
  <2>1. PICK n \in 0 .. (IF At(r, "wtrec") \/ At(r, "flush") THEN ph_irec[r] ELSE 0) :
          rec_rows' = [rec_rows EXCEPT ![r] = @ \o SubSeq(Buffered(r), 1, n)]
    BY <1>1 DEF Die
  <2>2. n \in Nat /\ n <= Len(Buffered(r))
    BY BufferedType
  <2>3. SubSeq(Buffered(r), 1, n) \in Seq(Nat)
    BY <2>2, BufferedType, SubSeqProperties
  <2> QED BY <2>1, <2>3, ExtendRows
<1> QED
  BY <1>1, <1>2, <1>3 DEF Die, TypeOK, memory

LEMMA BarrierTypes ==
  ASSUME TypeOK, Barrier
  PROVE  TypeOK'
<1>1. \A r \in Ranks : Rest(r) \in Seq(StepSet)
  BY RestType DEF Barrier, At, Idle
<1>2. todo' \in [Ranks -> Seq(Ops \X (Tags \cup {"none"}))]
  BY <1>1 DEF Barrier, StepSet
<1> QED
  BY <1>2 DEF Barrier, TypeOK, memory, disk, bounds

LEMMA StepTypesStay ==
  ASSUME TypeOK, NEW k \in Nat, Control(k), NEW r \in Ranks, Step(r)
  PROVE  TypeOK'
<1>1. todo[r] # <<>>
  BY ByHead
<1>2. Rest(r) \in Seq(StepSet) /\ Head(todo[r]) \in StepSet
  BY <1>1, RestType
<1>3. /\ \A op \in Ops : Do(op) \in StepSet
      /\ Put("S_dump") \in StepSet /\ Put("E_dump") \in StepSet
  BY StepTypes DEF Tags
<1>4. \A op \in {"dump", "zero", "wtrec", "check"} : Do(op) \in StepSet
  BY <1>3 DEF Ops
<1>5. \A s \in Seq(StepSet) : Then(r, s) => todo' \in [Ranks -> Seq(Ops \X (Tags \cup {"none"}))]
  BY TodoType
<1>6. \A s \in Seq(StepSet) : s \o Rest(r) \in Seq(StepSet)
  BY <1>2, PrependType
<1>7. ph_irec[r] \in 0 .. BufNrec /\ BufNrec \in Nat /\ BufNrec >= 3 /\ <<>> \in Seq(StepSet)
  BY MpiAssumption DEF TypeOK
<1>8. CASE WtCtag(r)
  <2>1. ctags + 1 \in 0 .. NSetTag
    <3>1. ctags < NSetTag
      BY <1>1, <1>8, ControlHeads DEF WtCtag, At
    <3>2. ctags \in 0 .. NSetTag /\ NSetTag \in Nat
      BY MpiAssumption DEF TypeOK
    <3> QED BY <3>1, <3>2
  <2>2. todo' \in [Ranks -> Seq(Ops \X (Tags \cup {"none"}))]
    BY <1>2, <1>5, <1>8 DEF WtCtag
  <2> QED BY <1>8, <2>1, <2>2 DEF WtCtag, TypeOK, memory, bounds
<1>9. CASE Fastread(r)
  <2>1. Head(todo[r])[2] \in Tags /\ ph_irec[r] < BufNrec
    BY <1>1, <1>9, ControlHeads DEF Fastread, At
  <2>2. todo' \in [Ranks -> Seq(Ops \X (Tags \cup {"none"}))]
    BY <1>2, <1>5, <1>9 DEF Fastread
  <2>3. log' \in [Ranks -> Seq(Tags)]
    BY <1>9, <2>1 DEF Fastread, TypeOK
  <2>4. ph_irec' \in [Ranks -> 0 .. BufNrec]
    <3>1. ph_irec[r] + 1 \in 0 .. BufNrec
      BY <1>7, <2>1
    <3> QED BY <1>9, <3>1 DEF Fastread, TypeOK
  <2>5. ph_precs' \in [Ranks -> [Slots -> Nat]]
    <3>1. Len(log[r]) + 1 \in Nat
      BY DEF TypeOK
    <3> QED BY <1>9, <3>1 DEF Fastread, TypeOK
  <2> QED BY <1>9, <2>2, <2>3, <2>4, <2>5 DEF Fastread, TypeOK, disk, bounds
<1>10. CASE EnterRead(r)
  <2>1. Put(Head(todo[r])[2]) \in StepSet
    BY <1>2 DEF StepSet, Put, Ops
  <2>2. (IF Full(r) THEN <<Do("dump"), Do("zero"), Put(Head(todo[r])[2])>>
         ELSE <<Put(Head(todo[r])[2]), Do("check")>>) \in Seq(StepSet)
    BY <1>4, <2>1
  <2>3. todo' \in [Ranks -> Seq(Ops \X (Tags \cup {"none"}))]
    BY <1>5, <1>6, <1>10, <2>2 DEF EnterRead
  <2> QED BY <1>10, <2>3 DEF EnterRead, TypeOK, memory, disk, bounds
<1>11. CASE Check(r)
  <2>1. (IF Full(r) THEN <<Do("dump")>> ELSE <<>>) \in Seq(StepSet)
    BY <1>4
  <2>2. todo' \in [Ranks -> Seq(Ops \X (Tags \cup {"none"}))]
    BY <1>5, <1>6, <1>11, <2>1 DEF Check
  <2> QED BY <1>11, <2>2 DEF Check, TypeOK, memory, disk, bounds
<1>12. CASE EnterDump(r)
  <2>1. (IF ph_irec[r] = 0 THEN <<>>
         ELSE <<Put("S_dump"), Do("wtrec"), Do("zero"), Put("E_dump")>>) \in Seq(StepSet)
    BY <1>3, <1>4
  <2>2. todo' \in [Ranks -> Seq(Ops \X (Tags \cup {"none"}))]
    BY <1>5, <1>6, <1>12, <2>1 DEF EnterDump
  <2>3. StepBack(ph_irec[r]) \in 0 .. BufNrec
    BY <1>7 DEF StepBack
  <2> QED BY <1>12, <2>2, <2>3 DEF EnterDump, TypeOK, disk, bounds
<1>13. CASE Zero(r)
  <2>1. todo' \in [Ranks -> Seq(Ops \X (Tags \cup {"none"}))]
    BY <1>2, <1>5, <1>13 DEF Zero
  <2>2. ph_irec' \in [Ranks -> 0 .. BufNrec]
    BY <1>7, <1>13 DEF Zero, TypeOK
  <2> QED BY <1>13, <2>1, <2>2 DEF Zero, TypeOK, disk, bounds
<1>14. CASE Return(r)
  <2>1. todo' \in [Ranks -> Seq(Ops \X (Tags \cup {"none"}))]
    BY <1>5, <1>7, <1>14 DEF Return
  <2> QED BY <1>14, <2>1 DEF Return, TypeOK, memory, disk, bounds
<1>15. ASSUME NEW ok \in BOOLEAN, Open(ok) PROVE fails' \in 0 .. MaxFail
  BY <1>15, MpiAssumption DEF Open, TypeOK
<1>16. ASSUME NEW ok \in BOOLEAN, MkRec(r, ok) PROVE TypeOK'
  <2>1. todo' \in [Ranks -> Seq(Ops \X (Tags \cup {"none"}))]
    BY <1>2, <1>5, <1>7, <1>16 DEF MkRec
  <2>2. fails' \in 0 .. MaxFail
    BY <1>15, <1>16 DEF MkRec
  <2>3. phase' \in [Ranks -> {"setup", "open", "closing", "done", "gone"}] /\ ph_ready' \in [Ranks -> BOOLEAN]
    BY <1>16 DEF MkRec, TypeOK
  <2>4. ph_irec' \in [Ranks -> 0 .. BufNrec]
    BY <1>7, <1>16 DEF MkRec, TypeOK
  <2>5. rec_hdr' \in [Ranks -> {NoFile} \cup 0 .. NevMax]
    BY <1>16 DEF MkRec, TypeOK
  <2> QED BY <1>16, <2>1, <2>2, <2>3, <2>4, <2>5 DEF MkRec, TypeOK
<1>17. ASSUME NEW ok \in BOOLEAN, WtRec(r, ok) PROVE TypeOK'
  <2>1. todo' \in [Ranks -> Seq(Ops \X (Tags \cup {"none"}))]
    BY <1>2, <1>5, <1>17 DEF WtRec
  <2>2. fails' \in 0 .. MaxFail
    BY <1>15, <1>17 DEF WtRec
  <2>3. nrec_tot' \in [Ranks -> Nat]
    BY <1>7, <1>17 DEF WtRec, TypeOK
  <2>4. rec_rows' \in [Ranks -> Seq(Nat)]
    <3>1. ok => rec_rows' = [rec_rows EXCEPT ![r] = @ \o Buffered(r)]
      BY <1>17 DEF WtRec
    <3>2. ~ok => rec_rows' = rec_rows
      BY <1>17 DEF WtRec, TypeOK
    <3>3. [rec_rows EXCEPT ![r] = @ \o Buffered(r)] \in [Ranks -> Seq(Nat)]
      BY BufferedType, ExtendRows
    <3> QED BY <3>1, <3>2, <3>3 DEF TypeOK
  <2> QED BY <1>17, <2>1, <2>2, <2>3, <2>4 DEF WtRec, TypeOK
<1>18. ASSUME NEW ok \in BOOLEAN, WtInfo(r, ok) PROVE TypeOK'
  <2>1. todo' \in [Ranks -> Seq(Ops \X (Tags \cup {"none"}))]
    BY <1>2, <1>5, <1>18 DEF WtInfo
  <2>2. fails' \in 0 .. MaxFail
    BY <1>15, <1>18 DEF WtInfo
  <2>3. run_info' \in Seq([nrank : {NRank}, nevent : 0 .. NevMax, ngroup : Nat])
    <3>1. [nrank |-> NRank, nevent |-> ph_nev[r], ngroup |-> nrec_tot[r]]
            \in [nrank : {NRank}, nevent : 0 .. NevMax, ngroup : Nat]
      BY DEF TypeOK
    <3>2. \A S, x : run_info \in Seq(S) /\ x \in S => Append(run_info, x) \in Seq(S)
      OBVIOUS
    <3>3. run_info' = run_info \/
          run_info' = Append(run_info, [nrank |-> NRank, nevent |-> ph_nev[r], ngroup |-> nrec_tot[r]])
      BY <1>18 DEF WtInfo
    <3>4. run_info \in Seq([nrank : {NRank}, nevent : 0 .. NevMax, ngroup : Nat])
      BY DEF TypeOK
    <3> QED BY <3>1, <3>2, <3>3, <3>4
  <2> QED BY <1>18, <2>1, <2>2, <2>3 DEF WtInfo, TypeOK, memory
<1> QED
  BY <1>8, <1>9, <1>10, <1>11, <1>12, <1>13, <1>14, <1>16, <1>17, <1>18 DEF Step

-----------------------------------------------------------------------------
(* The theorems about the order of the ranks.                              *)
LEMMA NextTypes ==
  ASSUME TypeOK, NEW k \in Nat, Control(k), [Next]_vars
  PROVE  TypeOK'
<1>1. ASSUME NEW r \in Ranks,
             \/ Collective(r) \/ Step(r) \/ Crash(r) \/ Launcher(r)
             \/ phmpi_read(r) \/ phmpi_fastread(r) \/ phmpi_dump(r)
      PROVE  TypeOK'
  BY <1>1, CallTypes, StepTypesStay, EndTypes
<1>2. ASSUME NEW r \in Ranks, NEW supported \in BOOLEAN, phmpi_set_evt(r, supported)
      PROVE  TypeOK'
  BY <1>2, EventTypes
<1>3. CASE Barrier
  BY <1>3, BarrierTypes
<1>4. CASE UNCHANGED vars
  BY <1>4 DEF vars, memory, disk, bounds, TypeOK
<1> QED
  BY <1>1, <1>2, <1>3, <1>4 DEF Next, Ended

LEMMA InitControl ==
  ASSUME Init
  PROVE  ControlInv
<1>1. TypeOK
  <2>1. BufNrec \in Nat /\ NevMax \in Nat /\ NSetTag \in Nat /\ MaxCalls \in Nat /\ MaxFail \in Nat
    BY MpiAssumption
  <2>2. \A S : <<>> \in Seq(S)
    OBVIOUS
  <2>3. 0 \in 0 .. BufNrec /\ 0 \in 0 .. NevMax /\ 0 \in 0 .. NSetTag /\ 0 \in 0 .. MaxCalls /\ 0 \in 0 .. MaxFail
    BY <2>1
  <2> QED BY <2>2, <2>3 DEF Init, TypeOK
<1>2. Control(0)
  <2>1. \A r \in Ranks : Setup(r, 0)
    BY DEF Init, Setup
  <2>2. \A r \in Ranks : log[r] = <<>>
    BY DEF Init
  <2>3. 0 > NSetTag => FALSE
    BY MpiAssumption
  <2> QED BY <2>1, <2>2, <2>3 DEF Control, Stage
<1> QED
  BY <1>1, <1>2 DEF ControlInv

LEMMA ControlInvNext ==
  ASSUME FastLimit <= BufNrec, ControlInv, [Next]_vars
  PROVE  ControlInv'
<1>1. PICK k \in Nat : Control(k)
  BY DEF ControlInv
<1>2. TypeOK
  BY DEF ControlInv
<1>3. \E m \in Nat : Control(m)'
  BY <1>1, <1>2, ControlNext
<1>4. TypeOK'
  BY <1>1, <1>2, NextTypes
<1> QED
  BY <1>3, <1>4 DEF ControlInv

LEMMA ControlHolds ==
  ASSUME FastLimit <= BufNrec
  PROVE  Spec => []ControlInv
<1>1. Init => ControlInv
  BY InitControl
<1>2. ControlInv /\ [Next]_vars => ControlInv'
  BY ControlInvNext
<1> QED
  BY <1>1, <1>2, PTL DEF Spec

(* The buffer index of phmpi_read, phmpi_dump and phmpi_finalize, the tags *)
(* and the counts stay in their ranges.                                    *)
THEOREM TypesHold ==
  FastLimit <= BufNrec => (Spec => []TypeOK)
<1> SUFFICES ASSUME FastLimit <= BufNrec PROVE Spec => []TypeOK
  OBVIOUS
<1>1. ControlInv => TypeOK
  BY DEF ControlInv
<1> QED
  BY <1>1, ControlHolds, PTL

(* A program that looks at the buffer before a fast read never stores a    *)
(* record outside it: phmpi_read, phmpi_dump and phmpi_finalize do not.    *)
THEOREM NoOverrunHolds ==
  FastLimit <= BufNrec => (Spec => []NoOverrun)
<1> SUFFICES ASSUME FastLimit <= BufNrec PROVE Spec => []NoOverrun
  OBVIOUS
<1>1. ControlInv => NoOverrun
  BY ControlHeads DEF ControlInv, NoOverrun, At, Idle
<1> QED
  BY <1>1, ControlHolds, PTL

(* No rank takes its first record before every rank has its record file    *)
(* and rank 0 has written all tags: the barrier of phmpi_commit.           *)
THEOREM StartTogetherHolds ==
  FastLimit <= BufNrec => (Spec => []StartTogether)
<1> SUFFICES ASSUME FastLimit <= BufNrec PROVE Spec => []StartTogether
  OBVIOUS
<1>1. ControlInv => StartTogether
  BY DEF ControlInv, Control, AllOpen, StartTogether
<1> QED
  BY <1>1, ControlHolds, PTL

-----------------------------------------------------------------------------
(* Events.                                                                 *)

(* Only phmpi_set_evt changes the events of a rank.                        *)
LEMMA EventsStay ==
  ASSUME NEW r \in Ranks,
         \/ Collective(r) \/ Step(r) \/ Crash(r) \/ Launcher(r)
         \/ phmpi_read(r) \/ phmpi_fastread(r) \/ phmpi_dump(r)
  PROVE  UNCHANGED <<ph_nev, etag>>
<1>1. CASE Step(r)
  BY <1>1 DEF Step, WtCtag, Fastread, EnterRead, Check, EnterDump, Zero, Return, MkRec, WtRec, WtInfo,
              memory, disk
<1> QED
  BY <1>1 DEF Collective, phmpi_set_tag, phmpi_commit, phmpi_finalize, phmpi_read, phmpi_fastread, phmpi_dump,
              Call, Crash, Launcher, Die, memory, disk

LEMMA EtagNext ==
  ASSUME TypeOK, TypeOK', EtagInv, NEW r \in Ranks, NEW supported \in BOOLEAN, phmpi_set_evt(r, supported)
  PROVE  EtagInv'
<1>1. 0 \in Ranks
  BY MpiAssumption DEF Ranks
<1>2. ph_nev[0] \in Nat /\ NevMax \in Nat
  BY <1>1, MpiAssumption DEF TypeOK
<1>3. CASE ~(MaySet(r) /\ r = 0)
  <2>1. etag' = etag /\ ph_nev'[0] = ph_nev[0]
    BY <1>1, <1>3 DEF phmpi_set_evt, TypeOK
  <2> QED BY <2>1 DEF EtagInv
<1>4. CASE MaySet(r) /\ r = 0
  <2> DEFINE n == Len(etag)
  <2>1. etag' = Append(etag, <<ph_nev'[0], supported>>) /\ etag \in Seq((0 .. NevMax) \X BOOLEAN)
    BY <1>4 DEF phmpi_set_evt, TypeOK
  <2>2. /\ n \in Nat /\ DOMAIN etag = 1 .. n /\ DOMAIN etag' = 1 .. n + 1
        /\ \A i \in 1 .. n : etag'[i] = etag[i]
        /\ etag'[n + 1] = <<ph_nev'[0], supported>>
    BY <2>1
  <2>3. etag'[n + 1][1] = ph_nev'[0] /\ etag'[n + 1][2] = supported
    BY <2>2
  <2> HIDE DEF n
  <2>4. CASE supported
    <3>1. ph_nev'[0] = ph_nev[0] + 1
      BY <1>1, <1>4, <2>4 DEF phmpi_set_evt, TypeOK
    <3>2. ASSUME NEW i \in DOMAIN etag', etag'[i][2] PROVE etag'[i][1] \in 1 .. ph_nev'[0]
      <4>1. CASE i = n + 1
        BY <1>2, <2>3, <3>1, <4>1
      <4>2. CASE i # n + 1
        <5>1. i \in 1 .. n
          BY <2>2, <4>2
        <5>2. etag[i][1] \in 1 .. ph_nev[0]
          BY <2>2, <3>2, <5>1 DEF EtagInv
        <5> QED BY <1>2, <2>2, <3>1, <5>1, <5>2
      <4> QED BY <4>1, <4>2
    <3>3. ASSUME NEW m \in 1 .. ph_nev'[0] PROVE \E i \in DOMAIN etag' : etag'[i][1] = m /\ etag'[i][2]
      <4>1. CASE m = ph_nev[0] + 1
        <5>1. n + 1 \in DOMAIN etag' /\ etag'[n + 1][1] = m /\ etag'[n + 1][2]
          BY <2>2, <2>3, <2>4, <3>1, <4>1
        <5> QED BY <5>1
      <4>2. CASE m # ph_nev[0] + 1
        <5>1. m \in 1 .. ph_nev[0]
          BY <1>2, <3>1, <4>2
        <5>2. PICK i \in DOMAIN etag : etag[i][1] = m /\ etag[i][2]
          BY <5>1 DEF EtagInv
        <5>3. i \in DOMAIN etag' /\ etag'[i][1] = m /\ etag'[i][2]
          BY <2>2, <5>2
        <5> QED BY <5>3
      <4> QED BY <4>1, <4>2
    <3>4. ASSUME NEW a \in DOMAIN etag', NEW b \in DOMAIN etag', a < b, etag'[a][2], etag'[b][2]
          PROVE  etag'[a][1] < etag'[b][1]
      <4>1. a \in 1 .. n
        BY <2>2, <3>4
      <4>2. etag[a][2] /\ etag'[a][1] = etag[a][1] /\ etag[a][1] \in 1 .. ph_nev[0]
        BY <2>2, <3>4, <4>1 DEF EtagInv
      <4>3. CASE b = n + 1
        BY <1>2, <2>3, <3>1, <4>2, <4>3
      <4>4. CASE b # n + 1
        <5>1. b \in 1 .. n
          BY <2>2, <4>4
        <5>2. etag[b][2] /\ etag'[b][1] = etag[b][1]
          BY <2>2, <3>4, <5>1
        <5> QED BY <2>2, <3>4, <4>1, <4>2, <5>1, <5>2 DEF EtagInv
      <4> QED BY <4>3, <4>4
    <3> QED BY <3>2, <3>3, <3>4 DEF EtagInv
  <2>5. CASE ~supported
    <3>1. ph_nev' = ph_nev
      BY <2>5 DEF phmpi_set_evt
    <3>2. ASSUME NEW i \in DOMAIN etag', etag'[i][2] PROVE i \in 1 .. n
      BY <2>2, <2>3, <2>5, <3>2
    <3>3. \A m \in 1 .. ph_nev[0] : \E i \in DOMAIN etag' : etag'[i][1] = m /\ etag'[i][2]
      <4> SUFFICES ASSUME NEW m \in 1 .. ph_nev[0] PROVE \E i \in DOMAIN etag' : etag'[i][1] = m /\ etag'[i][2]
        OBVIOUS
      <4>1. PICK i \in DOMAIN etag : etag[i][1] = m /\ etag[i][2]
        BY DEF EtagInv
      <4>2. i \in DOMAIN etag' /\ etag'[i][1] = m /\ etag'[i][2]
        BY <2>2, <4>1
      <4> QED BY <4>2
    <3>4. \A i \in DOMAIN etag' : etag'[i][2] => etag'[i][1] \in 1 .. ph_nev[0]
      BY <2>2, <3>2 DEF EtagInv
    <3>5. \A a, b \in DOMAIN etag' : a < b /\ etag'[a][2] /\ etag'[b][2] => etag'[a][1] < etag'[b][1]
      BY <2>2, <3>2 DEF EtagInv
    <3> QED BY <3>1, <3>3, <3>4, <3>5 DEF EtagInv
  <2> QED BY <2>4, <2>5
<1> QED
  BY <1>3, <1>4

(* phmpi_commit writes the number of events and closes phmpi_set_evt.      *)
LEMMA HeaderNext ==
  ASSUME TypeOK, TypeOK', NEW k \in Nat, Control(k), HeaderInv, [Next]_vars
  PROVE  HeaderInv'
<1> SUFFICES ASSUME NEW q \in Ranks, rec_hdr'[q] # NoFile
             PROVE  rec_hdr'[q] = ph_nev'[q] /\ (ph_ready'[q] \/ phase'[q] = "gone")
  BY DEF HeaderInv
<1>1. ASSUME rec_hdr'[q] = rec_hdr[q], ph_nev'[q] = ph_nev[q], ph_ready'[q] = ph_ready[q],
             phase[q] = "gone" => phase'[q] = "gone"
      PROVE  rec_hdr'[q] = ph_nev'[q] /\ (ph_ready'[q] \/ phase'[q] = "gone")
  BY <1>1 DEF HeaderInv
<1>2. phase[q] = "gone" => todo[q] = <<>>
  BY DEF Control, Gone, Stage, Setup, Opening, Running, Closing, Finished
<1>3. ASSUME NEW r \in Ranks, NEW ok \in BOOLEAN, MkRec(r, ok)
      PROVE  rec_hdr'[q] = ph_nev'[q] /\ (ph_ready'[q] \/ phase'[q] = "gone")
  <2>1. ph_nev' = ph_nev
    BY <1>3 DEF MkRec
  <2>2. CASE q # r
    BY <1>1, <1>3, <2>2 DEF MkRec, TypeOK
  <2>3. CASE q = r /\ ok
    BY <1>3, <2>1, <2>3 DEF MkRec, TypeOK
  <2>4. CASE q = r /\ ~ok
    <3>1. rec_hdr'[q] = rec_hdr[q] /\ phase'[q] = "gone"
      BY <1>3, <2>4 DEF MkRec, TypeOK
    <3> QED BY <2>1, <3>1 DEF HeaderInv
  <2> QED BY <2>2, <2>3, <2>4
<1>4. ASSUME NEW r \in Ranks, NEW supported \in BOOLEAN, phmpi_set_evt(r, supported)
      PROVE  rec_hdr'[q] = ph_nev'[q] /\ (ph_ready'[q] \/ phase'[q] = "gone")
  <2>1. rec_hdr' = rec_hdr /\ ph_ready' = ph_ready /\ phase' = phase /\ phase[r] \in {"setup", "open"}
    BY <1>4 DEF phmpi_set_evt
  <2>2. rec_hdr[q] = ph_nev[q] /\ (ph_ready[q] \/ phase[q] = "gone")
    BY <2>1 DEF HeaderInv
  <2>3. ph_nev'[q] = ph_nev[q]
    <3>1. CASE q = r
      BY <1>4, <2>1, <2>2, <3>1 DEF phmpi_set_evt, MaySet
    <3>2. CASE q # r
      BY <1>4, <3>2 DEF phmpi_set_evt, TypeOK
    <3> QED BY <3>1, <3>2
  <2> QED BY <2>1, <2>2, <2>3
<1>5. ASSUME NEW r \in Ranks, Step(r), \A ok \in BOOLEAN : ~MkRec(r, ok)
      PROVE  rec_hdr'[q] = ph_nev'[q] /\ (ph_ready'[q] \/ phase'[q] = "gone")
  <2>1. todo[r] # <<>>
    BY <1>5, ByHead
  <2>2. rec_hdr' = rec_hdr /\ ph_nev' = ph_nev /\ ph_ready' = ph_ready
    BY <1>5 DEF Step, WtCtag, Fastread, EnterRead, Check, EnterDump, Zero, Return, WtRec, WtInfo, memory, disk
  <2>3. phase' = phase \/ phase' = [phase EXCEPT ![r] = "done"]
    BY <1>5 DEF Step, WtCtag, Fastread, EnterRead, Check, EnterDump, Zero, Return, WtRec, WtInfo
  <2>4. phase[q] = "gone" => phase'[q] = "gone"
    BY <1>2, <2>1, <2>3 DEF TypeOK
  <2> QED BY <1>1, <2>2, <2>4
<1>6. ASSUME NEW r \in Ranks,
             Collective(r) \/ Crash(r) \/ Launcher(r) \/ phmpi_read(r) \/ phmpi_fastread(r) \/ phmpi_dump(r)
      PROVE  rec_hdr'[q] = ph_nev'[q] /\ (ph_ready'[q] \/ phase'[q] = "gone")
  <2>1. rec_hdr' = rec_hdr /\ ph_nev' = ph_nev /\ ph_ready' = ph_ready
    BY <1>6 DEF Collective, phmpi_set_tag, phmpi_commit, phmpi_finalize, phmpi_read, phmpi_fastread, phmpi_dump,
                Call, Crash, Launcher, Die, memory, disk
  <2>2. \/ phase' = phase \/ phase' = [phase EXCEPT ![r] = "gone"]
        \/ phase[r] \in {"setup", "open"} /\ \E p \in {"open", "closing"} : phase' = [phase EXCEPT ![r] = p]
    BY <1>6 DEF Collective, phmpi_set_tag, phmpi_commit, phmpi_finalize, phmpi_read, phmpi_fastread, phmpi_dump,
                Call, Crash, Launcher, Die
  <2>3. phase[q] = "gone" => phase'[q] = "gone"
    BY <2>2 DEF TypeOK
  <2> QED BY <1>1, <2>1, <2>3
<1>7. ASSUME Barrier \/ UNCHANGED vars
      PROVE  rec_hdr'[q] = ph_nev'[q] /\ (ph_ready'[q] \/ phase'[q] = "gone")
  BY <1>1, <1>7 DEF Barrier, vars, memory, disk
<1> QED
  BY <1>3, <1>4, <1>5, <1>6, <1>7 DEF Next, Ended, Step

(* Rank 0 writes the run info with the number of events of its header.     *)
LEMMA InfoRank ==
  ASSUME TypeOK, NEW k \in Nat, Control(k), NEW r \in Ranks, todo[r] # <<>>, Head(todo[r])[1] = "wtinfo"
  PROVE  r = 0 /\ k = NSetTag + 2 /\ todo[r] = Info(r) /\ Tail(todo[r]) = Leave
<1>1. Stage(r, k)
  BY DEF Control, Gone
<1>2. Closing(r, k)
  BY <1>1, SetupHead, OpeningHead, RunningHead DEF Stage, Finished
<1>3. "E_main" \in Tags /\ Read("E_main") \in StepSet /\ Do("barrier") \in StepSet /\ Do("barrier")[1] = "barrier"
      /\ Finish(r) \in Seq(StepSet)
  BY StepTypes, FinishType DEF Ops, Tags
<1>4. todo[r] # Cons(Do("barrier"), Cons(Read("E_main"), Finish(r)))
  <2>1. Cons(Read("E_main"), Finish(r)) \in Seq(StepSet)
    BY <1>3, ConsFacts
  <2> QED BY <1>3, <2>1, ConsFacts
<1>5. ~Before(r, "E_main", Finish(r))
  BY <1>3, BeforeHead
<1>6. ~After(r, Finish(r))
  <2>1. todo[r] # Finish(r)
    BY FinishHeads
  <2> QED BY <1>3, <2>1, AfterHead
<1>7. todo[r] # AtEnd /\ todo[r] # Leave
  BY FinishHeads
<1>8. k = NSetTag + 2 /\ todo[r] = Info(r)
  BY <1>2, <1>4, <1>5, <1>6, <1>7 DEF Closing
<1>9. r = 0 /\ Tail(todo[r]) = Leave
  BY <1>8, FinishHeads
<1> QED
  BY <1>8, <1>9

LEMMA InfoNext ==
  ASSUME TypeOK, TypeOK', NEW k \in Nat, Control(k), HeaderInv, InfoInv, [Next]_vars
  PROVE  InfoInv'
<1>1. 0 \in Ranks /\ NSetTag \in Nat
  BY MpiAssumption DEF Ranks
<1>2. \A i \in DOMAIN run_info : rec_hdr[0] # NoFile
  <2> SUFFICES ASSUME NEW i \in DOMAIN run_info PROVE rec_hdr[0] # NoFile
    OBVIOUS
  <2>1. run_info[i] \in [nrank : {NRank}, nevent : 0 .. NevMax, ngroup : Nat]
    <3>1. \A S : run_info \in Seq(S) => run_info[i] \in S
      OBVIOUS
    <3>2. run_info \in Seq([nrank : {NRank}, nevent : 0 .. NevMax, ngroup : Nat])
      BY DEF TypeOK
    <3> QED BY <3>1, <3>2
  <2>2. run_info[i].nevent \in 0 .. NevMax /\ NevMax \in Nat
    BY <2>1, MpiAssumption
  <2> QED BY <2>2 DEF InfoInv, NoFile
<1>3. ASSUME run_info' = run_info, rec_hdr' = rec_hdr PROVE InfoInv'
  BY <1>3 DEF InfoInv
<1>4. ASSUME NEW r \in Ranks, NEW ok \in BOOLEAN, MkRec(r, ok) PROVE InfoInv'
  <2>1. run_info' = run_info /\ (rec_hdr'[0] = rec_hdr[0] \/ rec_hdr'[0] = ph_nev[0])
    BY <1>1, <1>4 DEF MkRec, TypeOK
  <2>2. rec_hdr[0] # NoFile => rec_hdr[0] = ph_nev[0]
    BY <1>1 DEF HeaderInv
  <2> QED BY <1>2, <2>1, <2>2 DEF InfoInv
<1>5. ASSUME NEW r \in Ranks, NEW ok \in BOOLEAN, WtInfo(r, ok) PROVE InfoInv'
  <2>1. r = 0 /\ k > NSetTag
    BY <1>1, <1>5, InfoRank DEF WtInfo, At, Idle
  <2>2. rec_hdr[0] = ph_nev[0]
    BY <1>1, <2>1 DEF Control, AllOpen, HeaderInv
  <2>3. rec_hdr' = rec_hdr
    BY <1>5 DEF WtInfo
  <2> DEFINE x == [nrank |-> NRank, nevent |-> ph_nev[0], ngroup |-> nrec_tot[0]]
  <2>4. run_info' = run_info \/ run_info' = Append(run_info, x)
    BY <1>5, <2>1 DEF WtInfo
  <2>5. x.nevent = rec_hdr[0]
    BY <2>2
  <2> HIDE DEF x
  <2>6. run_info \in Seq([nrank : {NRank}, nevent : 0 .. NevMax, ngroup : Nat])
    BY DEF TypeOK
  <2>7. \A i \in DOMAIN Append(run_info, x) :
          \/ i \in DOMAIN run_info /\ Append(run_info, x)[i] = run_info[i]
          \/ Append(run_info, x)[i] = x
    BY <2>6
  <2> QED BY <2>3, <2>4, <2>5, <2>7 DEF InfoInv
<1>6. ASSUME NEW r \in Ranks, Step(r), \A ok \in BOOLEAN : ~MkRec(r, ok) /\ ~WtInfo(r, ok) PROVE InfoInv'
  <2>1. rec_hdr' = rec_hdr /\ run_info' = run_info
    BY <1>6 DEF Step, WtCtag, Fastread, EnterRead, Check, EnterDump, Zero, Return, WtRec, memory, disk
  <2> QED BY <1>3, <2>1
<1>7. ASSUME NEW r \in Ranks,
             Collective(r) \/ Crash(r) \/ Launcher(r) \/ phmpi_read(r) \/ phmpi_fastread(r) \/ phmpi_dump(r)
      PROVE  InfoInv'
  <2>1. rec_hdr' = rec_hdr /\ run_info' = run_info
    BY <1>7 DEF Collective, phmpi_set_tag, phmpi_commit, phmpi_finalize, phmpi_read, phmpi_fastread, phmpi_dump,
                Call, Crash, Launcher, Die, memory, disk
  <2> QED BY <1>3, <2>1
<1>8. ASSUME NEW r \in Ranks, NEW supported \in BOOLEAN, phmpi_set_evt(r, supported) PROVE InfoInv'
  BY <1>3, <1>8 DEF phmpi_set_evt
<1>9. ASSUME Barrier \/ UNCHANGED vars PROVE InfoInv'
  BY <1>3, <1>9 DEF Barrier, vars, disk
<1> QED
  BY <1>4, <1>5, <1>6, <1>7, <1>8, <1>9 DEF Next, Ended, Step

(* What the files say of the events of a job agrees.                       *)
LEMMA EventColumnsFollow ==
  ASSUME EventInv
  PROVE  EventColumns
<1> DEFINE accepted == {i \in DOMAIN etag : etag[i][2]}
<1>1. \A r \in Ranks : ph_nev[r] <= NevMax /\ (rec_hdr[r] # NoFile => rec_hdr[r] = ph_nev[r])
  BY MpiAssumption DEF EventInv, ControlInv, TypeOK, HeaderInv
<1>2. {etag[i][1] : i \in accepted} = 1 .. ph_nev[0]
  <2>1. {etag[i][1] : i \in accepted} \subseteq 1 .. ph_nev[0]
    BY DEF EventInv, EtagInv
  <2>2. ASSUME NEW n \in 1 .. ph_nev[0] PROVE \E i \in accepted : etag[i][1] = n
    <3>1. PICK i \in DOMAIN etag : etag[i][1] = n /\ etag[i][2]
      BY DEF EventInv, EtagInv
    <3>2. i \in accepted /\ etag[i][1] = n
      BY <3>1
    <3> QED BY <3>2
  <2>3. 1 .. ph_nev[0] \subseteq {etag[i][1] : i \in accepted}
    BY <2>2
  <2> QED BY <2>1, <2>3
<1>3. \A a, b \in accepted : a < b => etag[a][1] < etag[b][1]
  BY DEF EventInv, EtagInv
<1>4. \A i \in DOMAIN run_info : run_info[i].nevent = rec_hdr[0]
  BY DEF EventInv, InfoInv
<1> QED
  BY <1>1, <1>2, <1>3, <1>4 DEF EventColumns

(* The header of every record file, the accepted rows of etag.csv and      *)
(* nevent of run_info.csv agree, whatever is set after phmpi_commit and    *)
(* whatever fails.                                                         *)
THEOREM EventColumnsHold ==
  FastLimit <= BufNrec => (Spec => []EventColumns)
<1> SUFFICES ASSUME FastLimit <= BufNrec PROVE Spec => []EventColumns
  OBVIOUS
<1>1. Init => EventInv
  <2> SUFFICES ASSUME Init PROVE EventInv
    OBVIOUS
  <2>1. ControlInv
    BY InitControl
  <2>2. 0 \in Ranks
    BY MpiAssumption DEF Ranks
  <2>3. etag = <<>> /\ run_info = <<>> /\ ph_nev[0] = 0 /\ \A r \in Ranks : rec_hdr[r] = NoFile
    BY <2>2 DEF Init
  <2>4. DOMAIN etag = {} /\ DOMAIN run_info = {} /\ 1 .. ph_nev[0] = {}
    BY <2>3
  <2>5. HeaderInv
    BY <2>3 DEF HeaderInv
  <2>6. InfoInv
    BY <2>4 DEF InfoInv
  <2>7. EtagInv
    BY <2>4 DEF EtagInv
  <2> QED BY <2>1, <2>5, <2>6, <2>7 DEF EventInv
<1>2. EventInv /\ [Next]_vars => EventInv'
  <2> SUFFICES ASSUME EventInv, [Next]_vars PROVE EventInv'
    OBVIOUS
  <2>1. ControlInv' /\ TypeOK /\ TypeOK'
    BY ControlInvNext DEF EventInv, ControlInv
  <2>2. PICK k \in Nat : Control(k)
    BY DEF EventInv, ControlInv
  <2>3. HeaderInv'
    BY <2>1, <2>2, HeaderNext DEF EventInv
  <2>4. InfoInv'
    BY <2>1, <2>2, InfoNext DEF EventInv
  <2>5. EtagInv'
    <3>1. ASSUME UNCHANGED <<ph_nev, etag>> PROVE EtagInv'
      BY <3>1 DEF EventInv, EtagInv
    <3>2. CASE Barrier \/ UNCHANGED vars
      BY <3>1, <3>2 DEF Barrier, vars, memory, disk
    <3>3. ASSUME NEW r \in Ranks, NEW supported \in BOOLEAN, phmpi_set_evt(r, supported) PROVE EtagInv'
      BY <2>1, <3>3, EtagNext DEF EventInv
    <3> QED BY <3>1, <3>2, <3>3, EventsStay DEF Next, Ended
  <2> QED BY <2>1, <2>3, <2>4, <2>5 DEF EventInv
<1>3. EventInv => EventColumns
  BY EventColumnsFollow
<1> QED
  BY <1>1, <1>2, <1>3, PTL DEF Spec

-----------------------------------------------------------------------------
(* Records.                                                                *)

(* Which step comes after the next one.                                    *)
NextIs(s, ops) == s # <<>> /\ Head(s)[1] \in ops
Follows(r) ==
  LET h == Head(todo[r])
      tl == Tail(todo[r])
  IN  /\ h[1] = "put" =>
           \/ tl = <<>> \/ NextIs(tl, {"check", "flush"})
           \/ h[2] = "S_dump" /\ NextIs(tl, {"wtrec"})
           \/ h[2] = "E_dump" /\ fast[r] /\ NextIs(tl, {"zero"})
      /\ h[1] = "put" /\ h[2] = "E_dump" => ph_irec[r] = 0
      /\ h[1] = "wtrec" => NextIs(tl, {"zero"})
      /\ h[1] = "zero" => NextIs(tl, {"put"}) /\ Head(tl)[2] # "S_dump"
      /\ h[1] = "check" => tl = <<>> \/ NextIs(tl, {"flush"})
      /\ h[1] = "dump" => ph_irec[r] \in 1 .. BufNrec /\ (~fast[r] => ph_irec[r] < BufNrec)
      /\ h[1] = "read" => h[2] # "S_dump"

LEMMA DumpingFollows ==
  ASSUME TypeOK, NEW r \in Ranks, NEW rest \in Seq(StepSet), Dumping(r, rest),
         rest = <<>> \/ NextIs(rest, {"flush"}) \/ (fast[r] /\ NextIs(rest, {"zero"}))
  PROVE  Follows(r)
<1> DEFINE e == Cons(Put("E_dump"), rest)
           z == Cons(Do("zero"), e)
           w == Cons(Do("wtrec"), z)
           s == Cons(Put("S_dump"), w)
           d == Cons(Do("dump"), rest)
<1>1. /\ \A t \in {"E_dump", "S_dump"} : Put(t) \in StepSet /\ Put(t)[1] = "put" /\ Put(t)[2] = t
      /\ \A op \in {"zero", "wtrec", "dump"} : Do(op) \in StepSet /\ Do(op)[1] = op
  BY StepTypes DEF Ops, Tags
<1>2. /\ e \in Seq(StepSet) /\ e # <<>> /\ Head(e) = Put("E_dump") /\ Tail(e) = rest
      /\ d \in Seq(StepSet) /\ d # <<>> /\ Head(d) = Do("dump")
  BY <1>1, ConsFacts
<1>3. \/ todo[r] = d /\ ph_irec[r] \in 1 .. BufNrec /\ (~fast[r] => ph_irec[r] < BufNrec)
      \/ todo[r] = s
      \/ todo[r] = w
      \/ todo[r] = z
      \/ todo[r] = e /\ ph_irec[r] = 0
  BY DEF Dumping
<1> HIDE DEF e, d
<1>4. z \in Seq(StepSet) /\ z # <<>> /\ Head(z) = Do("zero") /\ Tail(z) = e
  BY <1>1, <1>2, ConsFacts
<1> HIDE DEF z
<1>5. w \in Seq(StepSet) /\ w # <<>> /\ Head(w) = Do("wtrec") /\ Tail(w) = z
  BY <1>1, <1>4, ConsFacts
<1> HIDE DEF w
<1>6. s # <<>> /\ Head(s) = Put("S_dump") /\ Tail(s) = w
  BY <1>1, <1>5, ConsFacts
<1> HIDE DEF s
<1>7. CASE todo[r] = d /\ ph_irec[r] \in 1 .. BufNrec /\ (~fast[r] => ph_irec[r] < BufNrec)
  BY <1>1, <1>2, <1>7 DEF Follows
<1>8. CASE todo[r] = s
  BY <1>1, <1>5, <1>6, <1>8 DEF Follows, NextIs
<1>9. CASE todo[r] = w
  BY <1>1, <1>4, <1>5, <1>9 DEF Follows, NextIs
<1>10. CASE todo[r] = z
  BY <1>1, <1>2, <1>4, <1>10 DEF Follows, NextIs
<1>11. CASE todo[r] = e /\ ph_irec[r] = 0
  BY <1>1, <1>2, <1>11 DEF Follows, NextIs
<1> QED
  BY <1>3, <1>7, <1>8, <1>9, <1>10, <1>11

LEMMA BeforeFollows ==
  ASSUME TypeOK, NEW r \in Ranks, NEW t \in {"user", "E_main"}, NEW rest \in Seq(StepSet), Before(r, t, rest),
         rest = <<>> \/ NextIs(rest, {"flush"})
  PROVE  Follows(r)
<1> DEFINE p == Cons(Put(t), rest)
           c == Cons(Do("check"), rest)
           d == Cons(Do("zero"), p)
<1>1. /\ \A op \in {"zero", "check"} : Do(op) \in StepSet /\ Do(op)[1] = op
      /\ Put(t) \in StepSet /\ Put(t)[1] = "put" /\ Put(t)[2] = t
      /\ Read(t) \in StepSet /\ Read(t)[1] = "read" /\ Read(t)[2] = t
  BY StepTypes DEF Ops, Tags
<1>2. /\ p \in Seq(StepSet) /\ p # <<>> /\ Head(p) = Put(t) /\ Tail(p) = rest
      /\ c \in Seq(StepSet) /\ c # <<>> /\ Head(c) = Do("check")
  BY <1>1, ConsFacts
<1>3. d \in Seq(StepSet) /\ d # <<>> /\ Head(d) = Do("zero") /\ Tail(d) = p
  <2> HIDE DEF p
  <2> QED BY <1>1, <1>2, ConsFacts
<1>4. \/ todo[r] = Cons(Read(t), rest)
      \/ todo[r] = Cons(Put(t), c)
      \/ fast[r] /\ Dumping(r, d)
      \/ todo[r] = d
      \/ todo[r] = p
  BY DEF Before, Again
<1> HIDE DEF p, c, d
<1>5. t # "S_dump" /\ t # "E_dump"
  OBVIOUS
<1>6. CASE todo[r] = Cons(Read(t), rest)
  <2>1. Head(todo[r]) = Read(t)
    BY <1>1, <1>6, ConsFacts
  <2> QED BY <1>1, <1>5, <2>1 DEF Follows
<1>7. CASE todo[r] = Cons(Put(t), c)
  <2>1. Head(todo[r]) = Put(t) /\ Tail(todo[r]) = c
    BY <1>1, <1>2, <1>7, ConsFacts
  <2> QED BY <1>1, <1>2, <1>5, <2>1 DEF Follows, NextIs
<1>8. CASE fast[r] /\ Dumping(r, d)
  <2>1. NextIs(d, {"zero"})
    BY <1>1, <1>3 DEF NextIs
  <2> QED BY <1>3, <1>8, <2>1, DumpingFollows
<1>9. CASE todo[r] = d
  BY <1>1, <1>2, <1>3, <1>5, <1>9 DEF Follows, NextIs
<1>10. CASE todo[r] = p
  BY <1>1, <1>2, <1>5, <1>10 DEF Follows, NextIs
<1> QED
  BY <1>4, <1>6, <1>7, <1>8, <1>9, <1>10

LEMMA AfterFollows ==
  ASSUME TypeOK, NEW r \in Ranks, NEW rest \in Seq(StepSet), After(r, rest), todo[r] # rest,
         rest = <<>> \/ NextIs(rest, {"flush"})
  PROVE  Follows(r)
<1>1. Do("check") \in StepSet /\ Do("check")[1] = "check"
  BY StepTypes DEF Ops
<1>2. CASE todo[r] = Cons(Do("check"), rest)
  <2>1. Head(todo[r]) = Do("check") /\ Tail(todo[r]) = rest
    BY <1>1, <1>2, ConsFacts
  <2> QED BY <1>1, <2>1 DEF Follows
<1>3. CASE Dumping(r, rest)
  BY <1>3, DumpingFollows
<1> QED
  BY <1>2, <1>3 DEF After

LEMMA ControlFollows ==
  ASSUME TypeOK, NEW k \in Nat, Control(k), NEW r \in Ranks, todo[r] # <<>>
  PROVE  Follows(r)
<1>1. Stage(r, k)
  BY DEF Control, Gone
<1>2. <<>> \in Seq(StepSet) /\ Finish(r) \in Seq(StepSet) /\ NextIs(Finish(r), {"flush"})
  BY FinishType, FinishHeads DEF NextIs
<1>3. ASSUME Head(todo[r])[1] \in {"barrier", "wtctag", "mkrec", "flush", "wtinfo", "return"} PROVE Follows(r)
  BY <1>3 DEF Follows
<1>4. CASE Setup(r, k)
  BY <1>3, <1>4, SetupHead
<1>5. CASE Opening(r, k)
  BY <1>3, <1>5, OpeningHead
<1>6. CASE Running(r, k)
  <2>1. CASE todo[r] = Cons(Put("S_main"), <<>>)
    <3>1. Put("S_main") \in StepSet /\ Put("S_main")[1] = "put" /\ Put("S_main")[2] = "S_main"
      BY StepTypes DEF Tags
    <3>2. Head(todo[r]) = Put("S_main") /\ Tail(todo[r]) = <<>>
      BY <1>2, <2>1, <3>1, ConsFacts
    <3> QED BY <3>1, <3>2 DEF Follows
  <2>2. CASE Before(r, "user", <<>>)
    BY <1>2, <2>2, BeforeFollows
  <2>3. CASE After(r, <<>>)
    BY <1>2, <2>3, AfterFollows
  <2> QED BY <1>6, <2>1, <2>2, <2>3 DEF Running
<1>7. CASE Closing(r, k)
  <2>1. CASE todo[r] = Cons(Do("barrier"), Cons(Read("E_main"), Finish(r)))
    <3>1. Read("E_main") \in StepSet /\ Do("barrier") \in StepSet /\ Do("barrier")[1] = "barrier"
      BY StepTypes DEF Ops, Tags
    <3>2. Cons(Read("E_main"), Finish(r)) \in Seq(StepSet)
      BY <1>2, <3>1, ConsFacts
    <3>3. Head(todo[r])[1] = "barrier"
      BY <2>1, <3>1, <3>2, ConsFacts
    <3> QED BY <1>3, <3>3
  <2>2. CASE Before(r, "E_main", Finish(r))
    BY <1>2, <2>2, BeforeFollows
  <2>3. CASE After(r, Finish(r))
    <3>1. CASE todo[r] = Finish(r)
      BY <1>2, <1>3, <3>1 DEF NextIs
    <3> QED BY <1>2, <2>3, <3>1, AfterFollows
  <2>4. CASE todo[r] \in {Info(r), Leave}
    BY <1>3, <2>4, FinishHeads
  <2>5. CASE todo[r] = AtEnd
    BY <1>3, <2>5, FinishHeads
  <2> QED BY <1>7, <2>1, <2>2, <2>3, <2>4, <2>5 DEF Closing
<1> QED
  BY <1>1, <1>4, <1>5, <1>6, <1>7 DEF Stage, Finished

(* The last write of a rank.                                               *)
LEMMA FlushFollows ==
  ASSUME TypeOK, NEW k \in Nat, Control(k), NEW r \in Ranks, todo[r] # <<>>, Head(todo[r])[1] = "flush"
  PROVE  phase[r] = "closing" /\ Tail(todo[r]) = Info(r) /\ ph_irec[r] >= 1
<1>1. Stage(r, k)
  BY DEF Control, Gone
<1>2. Closing(r, k)
  BY <1>1, SetupHead, OpeningHead, RunningHead DEF Stage, Finished
<1>3. "E_main" \in Tags /\ Read("E_main") \in StepSet /\ Do("barrier") \in StepSet /\ Do("barrier")[1] = "barrier"
      /\ Finish(r) \in Seq(StepSet) /\ Do("check") \in StepSet /\ Do("check")[1] = "check"
  BY StepTypes, FinishType DEF Ops, Tags
<1>4. todo[r] # Cons(Do("barrier"), Cons(Read("E_main"), Finish(r)))
  <2>1. Cons(Read("E_main"), Finish(r)) \in Seq(StepSet)
    BY <1>3, ConsFacts
  <2> QED BY <1>3, <2>1, ConsFacts
<1>5. ~Before(r, "E_main", Finish(r))
  BY <1>3, BeforeHead
<1>6. todo[r] # AtEnd /\ todo[r] # Leave /\ todo[r] # Info(r)
  BY FinishHeads
<1>7. After(r, Finish(r)) /\ phase[r] = "closing"
  BY <1>2, <1>4, <1>5, <1>6 DEF Closing
<1>8. todo[r] = Finish(r)
  BY <1>3, <1>7, AfterHead
<1>9. ~Dumping(r, Finish(r)) /\ todo[r] # Cons(Do("check"), Finish(r))
  BY <1>3, DumpingHead, ConsFacts
<1>10. Room(r)
  BY <1>7, <1>9 DEF After
<1> QED
  BY <1>7, <1>8, <1>10, FinishHeads DEF Room

(* A rank in the middle of its steps has not stored its buffer, save       *)
(* before its index is set back and at the end.                            *)
Plain(s) ==
  \/ s = <<>> \/ NextIs(s, {"check", "dump", "flush", "read", "wtrec", "wtctag", "mkrec"})
  \/ NextIs(s, {"put"}) /\ Head(s)[2] # "S_dump"
  \/ NextIs(s, {"barrier"}) /\ Tail(s) # AtEnd

LEMMA PlainFacts ==
  \A p, s : Plain(s) /\ p \in {"setup", "open", "closing"} =>
    ~Stored(p, s) /\ ~DumpBegins(s) /\ ~Reported(p, s) /\ ~NextIs(s, {"zero"})
  BY FinishHeads DEF Plain, NextIs, Stored, DumpBegins, Reported

LEMMA StoredHead ==
  \A p, s : Stored(p, s) /\ p \notin {"done", "gone"} => NextIs(s, {"zero", "wtinfo", "return", "barrier"})
  BY FinishHeads DEF NextIs, Stored

(* The barriers before phmpi_finalize has written anything.                *)
LEMMA PlainBarriers ==
  /\ Plain(Cons(Do("barrier"), <<>>))
  /\ Plain(Cons(Do("barrier"), Cons(Put("S_main"), <<>>))) /\ Plain(Cons(Put("S_main"), <<>>))
  /\ \A r : /\ Plain(Cons(Do("barrier"), Cons(Read("E_main"), Finish(r))))
            /\ Plain(Cons(Read("E_main"), Finish(r)))
<1>1. /\ Do("barrier") \in StepSet /\ Do("barrier")[1] = "barrier"
      /\ Put("S_main") \in StepSet /\ Put("S_main")[1] = "put" /\ Put("S_main")[2] = "S_main"
      /\ Read("E_main") \in StepSet /\ Read("E_main")[1] = "read" /\ <<>> \in Seq(StepSet)
  BY StepTypes DEF Ops, Tags
<1>2. \A s \in Seq(StepSet) : s # AtEnd => Plain(Cons(Do("barrier"), s))
  BY <1>1, ConsFacts DEF Plain, NextIs
<1>3. <<>> # AtEnd /\ \A s : Head(s)[1] # "return" => s # AtEnd
  BY FinishHeads
<1> DEFINE a == Cons(Put("S_main"), <<>>)
<1>4. a \in Seq(StepSet) /\ Head(a)[1] = "put" /\ Plain(a)
  BY <1>1, ConsFacts DEF Plain, NextIs
<1>5. ASSUME NEW r
      PROVE  /\ Plain(Cons(Do("barrier"), Cons(Read("E_main"), Finish(r))))
             /\ Plain(Cons(Read("E_main"), Finish(r)))
  <2>1. Finish(r) \in Seq(StepSet)
    BY FinishType
  <2> DEFINE b == Cons(Read("E_main"), Finish(r))
  <2>2. b \in Seq(StepSet) /\ Head(b)[1] = "read" /\ Plain(b)
    BY <1>1, <2>1, ConsFacts DEF Plain, NextIs
  <2> HIDE DEF b
  <2>3. Plain(Cons(Do("barrier"), b))
    BY <1>2, <1>3, <2>2
  <2> QED BY <2>2, <2>3 DEF b
<1>6. Plain(Cons(Do("barrier"), <<>>))
  BY <1>1, <1>2, <1>3
<1> HIDE DEF a
<1>7. Plain(Cons(Do("barrier"), a))
  BY <1>2, <1>3, <1>4
<1> QED
  BY <1>4, <1>5, <1>6, <1>7 DEF a

(* A step that neither takes, writes nor drops a record.                   *)
LEMMA QuietData ==
  ASSUME NEW r \in Ranks, DataOf(r),
         rec_rows'[r] = rec_rows[r], ph_irec'[r] = ph_irec[r], ph_precs'[r] = ph_precs[r],
         log'[r] = log[r], nrec_tot'[r] = nrec_tot[r], r = 0 => run_info' = run_info,
         fails' = 0 => fails = 0,
         phase'[r] # "gone" => phase[r] # "gone",
         phase'[r] = "gone" => phase[r] = "gone",
         ~fast'[r] => ~fast[r],
         InFileNow(r)' <=> InFileNow(r),
         DumpBegins(todo'[r]) <=> DumpBegins(todo[r]),
         Reported(phase'[r], todo'[r]) <=> Reported(phase[r], todo[r]),
         phase'[r] \in {"closing", "done"} /\ InFileNow(r)' => phase[r] \in {"closing", "done"},
         At(r, "zero")' <=> At(r, "zero")
  PROVE  DataOf(r)'
<1>1. RowsInv(r)'
  <2>1. RowsInv(r)
    BY DEF DataOf
  <2> QED BY <2>1 DEF RowsInv
<1>2. CompleteInv(r)'
  <2>1. CompleteInv(r)
    BY DEF DataOf
  <2> QED BY <2>1 DEF CompleteInv
<1>3. LossInv(r)'
  <2>1. LossInv(r)
    BY DEF DataOf
  <2> QED BY <2>1 DEF LossInv, InFile, InBuffer
<1>4. EndInv(r)'
  <2>1. EndInv(r)
    BY DEF DataOf
  <2> QED BY <2>1 DEF EndInv, InFile
<1> QED
  BY <1>1, <1>2, <1>3, <1>4 DEF DataOf

(* Between two plain places nothing happens to the records.                *)
LEMMA PlainData ==
  ASSUME NEW r \in Ranks, DataOf(r),
         rec_rows'[r] = rec_rows[r], ph_irec'[r] = ph_irec[r], ph_precs'[r] = ph_precs[r],
         log'[r] = log[r], nrec_tot'[r] = nrec_tot[r], r = 0 => run_info' = run_info,
         fails' = 0 => fails = 0, ~fast'[r] => ~fast[r],
         phase[r] \in {"setup", "open", "closing"}, phase'[r] \in {"setup", "open", "closing"},
         Plain(todo[r]), Plain(todo'[r])
  PROVE  DataOf(r)'
<1>1. /\ ~Stored(phase[r], todo[r]) /\ ~DumpBegins(todo[r]) /\ ~Reported(phase[r], todo[r])
      /\ ~NextIs(todo[r], {"zero"})
  BY PlainFacts
<1>2. /\ ~Stored(phase'[r], todo'[r]) /\ ~DumpBegins(todo'[r]) /\ ~Reported(phase'[r], todo'[r])
      /\ ~NextIs(todo'[r], {"zero"})
  BY PlainFacts
<1>3. /\ InFileNow(r)' <=> Stored(phase'[r], todo'[r])
      /\ At(r, "zero")' <=> NextIs(todo'[r], {"zero"})
  BY DEF InFileNow, At, Idle, NextIs
<1>4. /\ InFileNow(r) <=> Stored(phase[r], todo[r])
      /\ At(r, "zero") <=> NextIs(todo[r], {"zero"})
  BY DEF InFileNow, At, Idle, NextIs
<1> QED
  BY <1>1, <1>2, <1>3, <1>4, QuietData

(* More rows of the buffer in the file: rows has s behind the old ones.    *)
Grown(r, s, rows) ==
  /\ rows \in Seq(Nat) /\ Len(rows) = Len(rec_rows[r]) + Len(s)
  /\ \A i \in DOMAIN rec_rows[r] : i \in DOMAIN rows /\ rows[i] = rec_rows[r][i]
  /\ \A j \in 1 .. Len(s) : Len(rec_rows[r]) + j \in DOMAIN rows
                              /\ rows[Len(rec_rows[r]) + j] = ph_precs[r][j - 1]
  /\ \A i \in DOMAIN rows : i \notin DOMAIN rec_rows[r] =>
        \E j \in 1 .. Len(s) : i = Len(rec_rows[r]) + j
  /\ \A i \in DOMAIN rows : rows[i] \in 1 .. Len(log[r])
  /\ \A i, j \in DOMAIN rows : i < j => rows[i] < rows[j]

LEMMA RowsGrow ==
  ASSUME TypeOK, NEW r \in Ranks, RowsInv(r), NEW s \in Seq(Nat), Len(s) <= ph_irec[r],
         \A j \in 1 .. Len(s) : s[j] = ph_precs[r][j - 1],
         Len(s) = 0 \/ ~InFileNow(r), NEW rows, rows = rec_rows[r] \o s
  PROVE  Grown(r, s, rows)
<1> DEFINE n == Len(rec_rows[r])  m == Len(s)
<1>1. rec_rows[r] \in Seq(Nat) /\ n \in Nat /\ m \in Nat /\ DOMAIN rec_rows[r] = 1 .. n /\ ph_irec[r] \in Nat
  <2>1. rec_rows[r] \in Seq(Nat) /\ ph_irec[r] \in Nat
    BY BufferedType DEF TypeOK
  <2> QED BY <2>1
<1>2. /\ rows \in Seq(Nat) /\ Len(rows) = n + m /\ DOMAIN rows = 1 .. n + m
      /\ \A i \in 1 .. n + m : rows[i] = IF i <= n THEN rec_rows[r][i] ELSE s[i - n]
  BY <1>1, ConcatProperties
<1> HIDE DEF n, m
<1>3. \A i \in 1 .. n : i \in 1 .. n + m /\ rows[i] = rec_rows[r][i]
  BY <1>1, <1>2
<1>4. ASSUME NEW j \in 1 .. m PROVE n + j \in 1 .. n + m /\ rows[n + j] = ph_precs[r][j - 1]
  <2>1. n + j \in 1 .. n + m /\ ~(n + j <= n) /\ n + j - n = j
    BY <1>1
  <2>2. s[j] = ph_precs[r][j - 1]
    BY DEF m
  <2>3. rows[n + j] = s[j]
    <3>1. ASSUME NEW i \in 1 .. n + m, i = n + j PROVE rows[i] = s[j]
      <4>1. ~(i <= n) /\ i - n = j
        BY <1>1, <3>1
      <4>2. rows[i] = s[i - n]
        BY <1>2, <4>1
      <4> QED BY <4>1, <4>2
    <3> QED BY <2>1, <3>1
  <2> QED BY <2>1, <2>2, <2>3
<1>5. ASSUME NEW i \in 1 .. n + m, i \notin 1 .. n PROVE \E j \in 1 .. m : i = n + j
  <2>1. i - n \in 1 .. m /\ i = n + (i - n)
    BY <1>1, <1>5
  <2> QED BY <2>1
<1>6. m <= ph_irec[r] /\ (m = 0 \/ ~InFileNow(r))
  BY DEF m
<1>7. ASSUME NEW i \in 1 .. n + m PROVE rows[i] \in 1 .. Len(log[r])
  <2>1. CASE i \in 1 .. n
    BY <1>1, <1>3, <2>1 DEF RowsInv
  <2>2. CASE i \notin 1 .. n
    <3>1. PICK j \in 1 .. m : i = n + j
      BY <1>5, <2>2
    <3>2. j - 1 \in 0 .. ph_irec[r] - 1
      BY <1>1, <1>6
    <3> QED BY <1>4, <3>1, <3>2 DEF RowsInv
  <2> QED BY <2>1, <2>2
<1>8. ASSUME NEW i \in 1 .. n + m, NEW j \in 1 .. n + m, i < j PROVE rows[i] < rows[j]
  <2>1. CASE j \in 1 .. n
    <3>1. i \in 1 .. n
      BY <1>1, <1>8, <2>1
    <3> QED BY <1>1, <1>3, <1>8, <2>1, <3>1 DEF RowsInv
  <2>2. CASE j \notin 1 .. n
    <3>1. PICK b \in 1 .. m : j = n + b
      BY <1>5, <2>2
    <3>2. b - 1 \in 0 .. ph_irec[r] - 1 /\ ~InFileNow(r)
      BY <1>1, <1>6
    <3>3. CASE i \in 1 .. n
      <4>1. rec_rows[r][i] < ph_precs[r][b - 1]
        BY <1>1, <3>2, <3>3 DEF RowsInv
      <4> QED BY <1>3, <1>4, <3>1, <3>3, <4>1
    <3>4. CASE i \notin 1 .. n
      <4>1. PICK a \in 1 .. m : i = n + a
        BY <1>5, <3>4
      <4>2. a - 1 \in 0 .. ph_irec[r] - 1 /\ a - 1 < b - 1
        BY <1>1, <1>6, <1>8, <3>1, <4>1
      <4>3. ph_precs[r][a - 1] < ph_precs[r][b - 1]
        BY <3>2, <4>2 DEF RowsInv
      <4> QED BY <1>4, <3>1, <4>1, <4>3
    <3> QED BY <3>3, <3>4
  <2> QED BY <2>1, <2>2
<1> QED
  BY <1>1, <1>2, <1>3, <1>4, <1>5, <1>7, <1>8 DEF n, m, Grown

(* A record: phmpi_fastread, and the one in phmpi_read.                    *)
LEMMA PutChanges ==
  ASSUME TypeOK, NEW k \in Nat, Control(k), NEW r \in Ranks, Fastread(r)
  PROVE  /\ todo[r] # <<>> /\ Head(todo[r])[1] = "put" /\ todo'[r] = Tail(todo[r])
         /\ phase[r] \in {"setup", "open", "closing"} /\ phase' = phase /\ fast' = fast /\ fails' = fails
         /\ ~InFileNow(r) /\ ~Reported(phase[r], todo[r])
         /\ rec_rows' = rec_rows /\ nrec_tot' = nrec_tot /\ run_info' = run_info
         /\ ph_irec[r] \in 0 .. BufNrec - 1 /\ ph_irec'[r] = ph_irec[r] + 1
         /\ Len(log[r]) \in Nat /\ Len(log'[r]) = Len(log[r]) + 1
         /\ \A n \in 1 .. Len(log[r]) : log'[r][n] = log[r][n]
         /\ log'[r][Len(log[r]) + 1] = Head(todo[r])[2]
         /\ ph_precs'[r][ph_irec[r]] = Len(log[r]) + 1
         /\ \A j \in 0 .. ph_irec[r] - 1 : ph_precs'[r][j] = ph_precs[r][j]
<1>1. todo[r] # <<>> /\ Head(todo[r])[1] = "put" /\ todo'[r] = Tail(todo[r])
  BY DEF Fastread, At, Idle, Then, Rest, TypeOK
<1>2. phase' = phase /\ fast' = fast /\ fails' = fails /\ rec_rows' = rec_rows /\ nrec_tot' = nrec_tot
      /\ run_info' = run_info
  BY DEF Fastread, disk, bounds
<1>3. phase[r] \in {"setup", "open", "closing"}
  BY <1>1 DEF Control, Gone, Stage, Setup, Opening, Running, Closing, Finished
<1>4. ~InFileNow(r)
  BY <1>1, <1>3, StoredHead DEF InFileNow, NextIs
<1>5. ~Reported(phase[r], todo[r])
  BY <1>1, <1>3, FinishHeads DEF Reported
<1>6. ph_irec[r] \in 0 .. BufNrec - 1
  <2>1. ph_irec[r] < BufNrec /\ ph_irec[r] \in 0 .. BufNrec /\ BufNrec \in Nat
    BY <1>1, ControlHeads, MpiAssumption DEF TypeOK
  <2> QED BY <2>1
<1>7. ph_irec'[r] = ph_irec[r] + 1
  BY DEF Fastread, TypeOK
<1>8. log[r] \in Seq(Tags) /\ log'[r] = Append(log[r], Head(todo[r])[2])
  BY DEF Fastread, TypeOK
<1>9. /\ Len(log[r]) \in Nat /\ Len(log'[r]) = Len(log[r]) + 1
      /\ \A n \in 1 .. Len(log[r]) : log'[r][n] = log[r][n]
      /\ log'[r][Len(log[r]) + 1] = Head(todo[r])[2]
  BY <1>8
<1>10. /\ ph_precs'[r][ph_irec[r]] = Len(log[r]) + 1
       /\ \A j \in 0 .. ph_irec[r] - 1 : ph_precs'[r][j] = ph_precs[r][j]
  <2>1. ph_irec[r] \in Slots
    BY <1>6 DEF Slots
  <2>2. ph_precs'[r] = [ph_precs[r] EXCEPT ![ph_irec[r]] = Len(log[r]) + 1] /\ ph_precs[r] \in [Slots -> Nat]
    BY <2>1 DEF Fastread, TypeOK
  <2>3. \A j \in 0 .. ph_irec[r] - 1 : j \in Slots /\ j # ph_irec[r]
    BY <1>6, MpiAssumption DEF Slots
  <2> QED BY <2>1, <2>2, <2>3
<1> QED
  BY <1>1, <1>2, <1>3, <1>4, <1>5, <1>6, <1>7, <1>9, <1>10

LEMMA PutRows ==
  ASSUME TypeOK, NEW k \in Nat, Control(k), NEW r \in Ranks, RowsInv(r), Fastread(r)
  PROVE  RowsInv(r)'
<1> DEFINE i == ph_irec[r]  n == Len(log[r])
<1>1. /\ rec_rows' = rec_rows /\ i \in Nat /\ ph_irec'[r] = i + 1 /\ n \in Nat /\ Len(log'[r]) = n + 1
      /\ ph_precs'[r][i] = n + 1 /\ (\A j \in 0 .. i - 1 : ph_precs'[r][j] = ph_precs[r][j])
      /\ ~InFileNow(r)
  BY PutChanges
<1>2. /\ \A a \in DOMAIN rec_rows[r] : rec_rows[r][a] \in 1 .. n
      /\ \A a, b \in DOMAIN rec_rows[r] : a < b => rec_rows[r][a] < rec_rows[r][b]
      /\ \A j \in 0 .. i - 1 : ph_precs[r][j] \in 1 .. n
      /\ \A a, b \in 0 .. i - 1 : a < b => ph_precs[r][a] < ph_precs[r][b]
      /\ \A a \in DOMAIN rec_rows[r] : \A j \in 0 .. i - 1 : rec_rows[r][a] < ph_precs[r][j]
  BY <1>1 DEF RowsInv
<1> HIDE DEF i, n
<1>3. \A a \in DOMAIN rec_rows[r] : rec_rows[r][a] \in 1 .. n + 1
  BY <1>1, <1>2
<1>4. ASSUME NEW j \in 0 .. i + 1 - 1 PROVE (j \in 0 .. i - 1) \/ j = i
  BY <1>1
<1>5. \A j \in 0 .. i + 1 - 1 : ph_precs'[r][j] \in 1 .. n + 1
  BY <1>1, <1>2, <1>4
<1>6. ASSUME NEW a \in 0 .. i + 1 - 1, NEW b \in 0 .. i + 1 - 1, a < b PROVE ph_precs'[r][a] < ph_precs'[r][b]
  <2>1. a \in 0 .. i - 1
    BY <1>1, <1>6
  <2>2. ph_precs'[r][a] = ph_precs[r][a] /\ ph_precs[r][a] \in 1 .. n
    BY <1>1, <1>2, <2>1
  <2>3. CASE b = i
    BY <1>1, <2>2, <2>3
  <2>4. CASE b \in 0 .. i - 1
    BY <1>1, <1>2, <1>6, <2>1, <2>4
  <2> QED BY <1>4, <2>3, <2>4
<1>7. ASSUME NEW a \in DOMAIN rec_rows[r], NEW j \in 0 .. i + 1 - 1 PROVE rec_rows[r][a] < ph_precs'[r][j]
  <2>1. CASE j = i
    BY <1>1, <1>2, <2>1
  <2>2. CASE j \in 0 .. i - 1
    BY <1>1, <1>2, <2>2
  <2> QED BY <1>4, <2>1, <2>2
<1>8. ph_precs'[r][i + 1 - 1] = n + 1
  BY <1>1
<1> QED
  BY <1>1, <1>2, <1>3, <1>5, <1>6, <1>7, <1>8, SMTT(20) DEF RowsInv, i, n

(* The step after a record does not begin a dump.                          *)
LEMMA PutNext ==
  ASSUME TypeOK, NEW k \in Nat, Control(k), NEW r \in Ranks, Fastread(r)
  PROVE  /\ ~Reported(phase'[r], todo'[r])
         /\ \/ ~InFileNow(r)'
            \/ /\ Head(todo[r])[2] = "E_dump" /\ fast[r] /\ ph_irec[r] = 0 /\ At(r, "zero")'
<1>1. /\ todo[r] # <<>> /\ Head(todo[r])[1] = "put" /\ todo'[r] = Tail(todo[r])
      /\ phase[r] \in {"setup", "open", "closing"} /\ phase' = phase
  BY PutChanges
<1>2. /\ \/ todo'[r] = <<>> \/ NextIs(todo'[r], {"check", "flush"})
         \/ NextIs(todo'[r], {"wtrec"})
         \/ Head(todo[r])[2] = "E_dump" /\ fast[r] /\ NextIs(todo'[r], {"zero"})
      /\ Head(todo[r])[2] = "E_dump" => ph_irec[r] = 0
  BY <1>1, ControlFollows DEF Follows
<1>3. CASE NextIs(todo'[r], {"zero"}) /\ Head(todo[r])[2] = "E_dump" /\ fast[r]
  <2>1. ~Reported(phase'[r], todo'[r])
    BY <1>1, <1>3, FinishHeads DEF NextIs, Reported
  <2>2. At(r, "zero")'
    BY <1>3 DEF NextIs, At, Idle
  <2> QED BY <1>2, <1>3, <2>1, <2>2
<1>4. CASE todo'[r] = <<>> \/ NextIs(todo'[r], {"check", "flush"}) \/ NextIs(todo'[r], {"wtrec"})
  <2>1. Plain(todo'[r])
    BY <1>4 DEF Plain, NextIs
  <2>2. ~Stored(phase'[r], todo'[r]) /\ ~Reported(phase'[r], todo'[r])
    BY <1>1, <2>1, PlainFacts
  <2> QED BY <2>2 DEF InFileNow
<1> QED
  BY <1>2, <1>3, <1>4

LEMMA PutComplete ==
  ASSUME TypeOK, NEW k \in Nat, Control(k), NEW r \in Ranks, CompleteInv(r), Fastread(r)
  PROVE  CompleteInv(r)'
<1> SUFFICES ASSUME fails' = 0, phase'[r] # "gone", ~fast'[r]
             PROVE  /\ \A i \in DOMAIN rec_rows'[r] : rec_rows'[r][i] = i
                    /\ Len(log'[r]) = Len(rec_rows'[r]) + IF InFileNow(r)' THEN 0 ELSE ph_irec'[r]
                    /\ ~InFileNow(r)' => \A j \in 0 .. ph_irec'[r] - 1 : ph_precs'[r][j] = Len(rec_rows'[r]) + 1 + j
  BY DEF CompleteInv
<1> DEFINE i == ph_irec[r]  n == Len(log[r])  m == Len(rec_rows[r])
<1>1. /\ rec_rows' = rec_rows /\ i \in Nat /\ ph_irec'[r] = i + 1 /\ n \in Nat /\ Len(log'[r]) = n + 1
      /\ ph_precs'[r][i] = n + 1 /\ (\A j \in 0 .. i - 1 : ph_precs'[r][j] = ph_precs[r][j])
      /\ ~InFileNow(r) /\ fails' = fails /\ phase' = phase /\ fast' = fast
  BY PutChanges
<1>2. ~InFileNow(r)'
  BY <1>1, PutNext
<1>3. /\ \A a \in DOMAIN rec_rows[r] : rec_rows[r][a] = a
      /\ n = m + i
      /\ \A j \in 0 .. i - 1 : ph_precs[r][j] = m + 1 + j
  BY <1>1 DEF CompleteInv
<1>4. m \in Nat
  BY DEF TypeOK
<1> HIDE DEF i, n, m
<1>5. ASSUME NEW j \in 0 .. i + 1 - 1 PROVE ph_precs'[r][j] = m + 1 + j
  <2>1. CASE j = i
    BY <1>1, <1>3, <1>4, <2>1
  <2>2. CASE j # i
    <3>1. j \in 0 .. i - 1
      BY <1>1, <2>2
    <3> QED BY <1>1, <1>3, <3>1
  <2> QED BY <2>1, <2>2
<1>6. n + 1 = m + (i + 1)
  BY <1>1, <1>3, <1>4
<1> QED
  <2>1. \A a \in DOMAIN rec_rows'[r] : rec_rows'[r][a] = a
    BY <1>1, <1>3
  <2>2. Len(log'[r]) = m + (i + 1) /\ Len(rec_rows'[r]) = m /\ ph_irec'[r] = i + 1
    BY <1>1, <1>6 DEF m
  <2>3. Len(log'[r]) = Len(rec_rows'[r]) + IF InFileNow(r)' THEN 0 ELSE ph_irec'[r]
    BY <1>2, <2>2
  <2>4. \A j \in 0 .. ph_irec'[r] - 1 : ph_precs'[r][j] = Len(rec_rows'[r]) + 1 + j
    BY <1>1, <1>4, <1>5, <2>2
  <2> QED BY <2>1, <2>3, <2>4

LEMMA PutLoss ==
  ASSUME TypeOK, NEW k \in Nat, Control(k), NEW r \in Ranks, LossInv(r), Fastread(r)
  PROVE  LossInv(r)'
<1> DEFINE i == ph_irec[r]  n == Len(log[r])
<1> SUFFICES ASSUME fails' = 0, phase'[r] # "gone", NEW x \in 1 .. Len(log'[r])
             PROVE  \/ InFile(r, x)' \/ (~InFileNow(r)' /\ InBuffer(r, x)') \/ log'[r][x] = "E_dump"
                    \/ (x < Len(log'[r]) /\ log'[r][x + 1] = "S_dump")
  BY DEF LossInv
<1>1. /\ rec_rows' = rec_rows /\ i \in Nat /\ ph_irec'[r] = i + 1 /\ n \in Nat /\ Len(log'[r]) = n + 1
      /\ ph_precs'[r][i] = n + 1 /\ (\A j \in 0 .. i - 1 : ph_precs'[r][j] = ph_precs[r][j])
      /\ (\A a \in 1 .. n : log'[r][a] = log[r][a]) /\ log'[r][n + 1] = Head(todo[r])[2]
      /\ ~InFileNow(r) /\ fails' = fails /\ phase' = phase
  BY PutChanges
<1>2. \/ ~InFileNow(r)'
      \/ Head(todo[r])[2] = "E_dump" /\ i = 0
  BY PutNext
<1>3. \A a \in 1 .. n :
        \/ InFile(r, a) \/ InBuffer(r, a) \/ log[r][a] = "E_dump" \/ (a < n /\ log[r][a + 1] = "S_dump")
        \/ (DumpBegins(todo[r]) /\ a = n)
  BY <1>1 DEF LossInv
<1>4. InFile(r, x) => InFile(r, x)'
  BY <1>1 DEF InFile
<1>5. InBuffer(r, x) => (\E j \in 0 .. i - 1 : ph_precs[r][j] = x)
  BY DEF InBuffer
<1>6. (\E j \in 0 .. i + 1 - 1 : ph_precs'[r][j] = x) => InBuffer(r, x)'
  BY <1>1 DEF InBuffer
<1> HIDE DEF i, n
<1>7. CASE x = n + 1
  <2>1. i \in 0 .. i + 1 - 1 /\ ph_precs'[r][i] = x
    BY <1>1, <1>7
  <2> QED BY <1>1, <1>2, <1>6, <1>7, <2>1
<1>8. CASE x # n + 1
  <2>1. x \in 1 .. n
    BY <1>1, <1>8
  <2>2. log'[r][x] = log[r][x] /\ x < Len(log'[r])
    BY <1>1, <2>1
  <2>3. CASE InBuffer(r, x)
    <3>1. PICK j \in 0 .. i - 1 : ph_precs[r][j] = x
      BY <1>5, <2>3
    <3>2. j \in 0 .. i + 1 - 1 /\ i # 0 /\ ph_precs'[r][j] = x
      BY <1>1, <3>1
    <3> QED BY <1>2, <1>6, <3>2
  <2>4. CASE x < n /\ log[r][x + 1] = "S_dump"
    <3>1. x + 1 \in 1 .. n
      BY <1>1, <2>1, <2>4
    <3> QED BY <1>1, <2>2, <2>4, <3>1
  <2>5. CASE DumpBegins(todo[r]) /\ x = n
    BY <1>1, <2>2, <2>5 DEF DumpBegins
  <2> QED BY <1>3, <1>4, <2>1, <2>2, <2>3, <2>4, <2>5
<1> QED
  BY <1>7, <1>8

LEMMA PutEnd ==
  ASSUME TypeOK, NEW k \in Nat, Control(k), NEW r \in Ranks, EndInv(r), Fastread(r)
  PROVE  EndInv(r)'
<1>1. /\ rec_rows' = rec_rows /\ nrec_tot' = nrec_tot /\ run_info' = run_info /\ fails' = fails /\ phase' = phase
      /\ ~Reported(phase[r], todo[r])
  BY PutChanges
<1>2. ~Reported(phase'[r], todo'[r]) /\ (~InFileNow(r)' \/ At(r, "zero")')
  BY PutNext
<1> QED
  BY <1>1, <1>2 DEF EndInv

(* A dump begins: the last record of a full buffer is given up.            *)
LEMMA DumpData ==
  ASSUME TypeOK, NEW k \in Nat, Control(k), NEW r \in Ranks, DataOf(r), EnterDump(r)
  PROVE  DataOf(r)'
<1>1. todo[r] # <<>> /\ Head(todo[r])[1] = "dump"
  BY DEF EnterDump, At, Idle
<1>2. phase[r] \in {"setup", "open", "closing"}
  BY <1>1 DEF Control, Gone, Stage, Setup, Opening, Running, Closing, Finished
<1>3. ph_irec[r] \in 1 .. BufNrec /\ (~fast[r] => ph_irec[r] < BufNrec) /\ BufNrec \in Nat /\ BufNrec >= 3
  BY <1>1, ControlFollows, MpiAssumption DEF Follows
<1>4. ph_irec'[r] = StepBack(ph_irec[r])
  BY DEF EnterDump, TypeOK
<1>5. /\ ph_precs' = ph_precs /\ log' = log /\ rec_rows' = rec_rows /\ nrec_tot' = nrec_tot /\ run_info' = run_info
      /\ phase' = phase /\ fast' = fast /\ fails' = fails
  BY DEF EnterDump, disk, bounds
<1>6. DumpBegins(todo'[r])
  <2> DEFINE tl == Tail(todo[r])
  <2>1. tl \in Seq(StepSet)
    BY <1>1, RestType DEF Rest
  <2> HIDE DEF tl
  <2>2. /\ Put("S_dump") \in StepSet /\ Put("E_dump") \in StepSet /\ Do("wtrec") \in StepSet /\ Do("zero") \in StepSet
        /\ Put("S_dump")[1] = "put" /\ Put("S_dump")[2] = "S_dump"
    BY StepTypes DEF Ops, Tags
  <2> DEFINE s == Cons(Do("wtrec"), Cons(Do("zero"), Cons(Put("E_dump"), tl)))
  <2>3. <<Put("S_dump"), Do("wtrec"), Do("zero"), Put("E_dump")>> \o tl = Cons(Put("S_dump"), s)
    BY <2>1, <2>2, PushFour
  <2>4. s \in Seq(StepSet)
    BY <2>1, <2>2, ConsFacts
  <2> HIDE DEF s
  <2>5. ph_irec[r] # 0
    BY <1>3
  <2>6. todo'[r] = Cons(Put("S_dump"), s)
    BY <2>3, <2>5 DEF EnterDump, Then, Rest, TypeOK, tl
  <2> QED BY <2>2, <2>4, <2>6, ConsFacts DEF DumpBegins
<1>7. ~InFileNow(r) /\ ~Reported(phase[r], todo[r]) /\ ~DumpBegins(todo[r])
  <2>1. Plain(todo[r])
    BY <1>1 DEF Plain, NextIs
  <2> QED BY <1>2, <2>1, PlainFacts DEF InFileNow
<1>8. ~InFileNow(r)' /\ ~Reported(phase'[r], todo'[r])
  <2>1. Head(todo'[r])[1] = "put" /\ todo'[r] # <<>> /\ phase'[r] \in {"setup", "open", "closing"}
    BY <1>2, <1>5, <1>6 DEF DumpBegins
  <2>2. ~Stored(phase'[r], todo'[r])
    BY <2>1, StoredHead DEF NextIs
  <2> QED BY <2>1, <2>2, FinishHeads DEF InFileNow, Reported
<1> DEFINE i == ph_irec[r]  j == ph_irec'[r]
<1>9. i \in Nat /\ j \in Nat /\ (j = i \/ (i = BufNrec /\ j = BufNrec - 1 /\ fast[r])) /\ 1 <= j /\ j <= i
  BY <1>3, <1>4 DEF StepBack
<1>10. \A x \in 0 .. j - 1 : x \in 0 .. i - 1
  BY <1>9
<1>11. RowsInv(r)'
  BY <1>5, <1>6, <1>7, <1>8, <1>10 DEF DataOf, RowsInv
<1>12. CompleteInv(r)'
  BY <1>5, <1>7, <1>8, <1>9 DEF DataOf, CompleteInv
<1>13. LossInv(r)'
  <2> SUFFICES ASSUME fails' = 0, phase'[r] # "gone", NEW x \in 1 .. Len(log'[r])
               PROVE  \/ InFile(r, x)' \/ (~InFileNow(r)' /\ InBuffer(r, x)') \/ log'[r][x] = "E_dump"
                      \/ (x < Len(log'[r]) /\ log'[r][x + 1] = "S_dump")
                      \/ (DumpBegins(todo'[r]) /\ ph_irec'[r] = BufNrec - 1 /\ x = Len(log'[r]))
    BY DEF LossInv
  <2>1. \/ InFile(r, x) \/ InBuffer(r, x) \/ log[r][x] = "E_dump"
        \/ (x < Len(log[r]) /\ log[r][x + 1] = "S_dump")
    BY <1>5, <1>7 DEF DataOf, LossInv
  <2>2. InFile(r, x) => InFile(r, x)'
    BY <1>5 DEF InFile
  <2>3. CASE InBuffer(r, x)
    <3>1. PICK y \in 0 .. i - 1 : ph_precs[r][y] = x
      BY <2>3 DEF InBuffer
    <3>2. CASE y \in 0 .. j - 1
      BY <1>5, <1>8, <3>1, <3>2 DEF InBuffer
    <3>3. CASE y \notin 0 .. j - 1
      <4>1. y = i - 1 /\ j = BufNrec - 1 /\ i >= 1
        BY <1>9, <3>1, <3>3
      <4>2. ph_precs[r][i - 1] = Len(log[r])
        BY <1>2, <1>7, <4>1 DEF DataOf, RowsInv
      <4> QED BY <1>5, <1>6, <3>1, <4>1, <4>2
    <3> QED BY <3>2, <3>3
  <2> QED BY <1>5, <2>1, <2>2, <2>3
<1>14. EndInv(r)'
  BY <1>5, <1>7, <1>8 DEF DataOf, EndInv
<1> QED
  BY <1>11, <1>12, <1>13, <1>14 DEF DataOf

(* The index goes back to 0 when the buffer is stored.                     *)
LEMMA ZeroData ==
  ASSUME TypeOK, NEW k \in Nat, Control(k), NEW r \in Ranks, DataOf(r), Zero(r)
  PROVE  DataOf(r)'
<1>1. todo[r] # <<>> /\ Head(todo[r])[1] = "zero" /\ todo'[r] = Tail(todo[r]) /\ ph_irec'[r] = 0
  BY DEF Zero, At, Idle, Then, Rest, TypeOK
<1>2. phase[r] \in {"setup", "open", "closing"}
  BY <1>1 DEF Control, Gone, Stage, Setup, Opening, Running, Closing, Finished
<1>3. /\ ph_precs' = ph_precs /\ log' = log /\ rec_rows' = rec_rows /\ nrec_tot' = nrec_tot /\ run_info' = run_info
      /\ phase' = phase /\ fast' = fast /\ fails' = fails
  BY DEF Zero, disk, bounds
<1>4. InFileNow(r) /\ ~DumpBegins(todo[r]) /\ ~Reported(phase[r], todo[r])
  BY <1>1, <1>2, FinishHeads DEF InFileNow, Stored, DumpBegins, Reported
<1>5. ~InFileNow(r)' /\ ~DumpBegins(todo'[r]) /\ ~Reported(phase'[r], todo'[r])
  <2>1. NextIs(todo'[r], {"put"}) /\ Head(todo'[r])[2] # "S_dump"
    BY <1>1, ControlFollows DEF Follows
  <2>2. Plain(todo'[r])
    BY <2>1 DEF Plain
  <2> QED BY <1>2, <1>3, <2>2, PlainFacts DEF InFileNow
<1>6. 0 .. ph_irec'[r] - 1 = {} /\ ~(ph_irec'[r] >= 1)
  BY <1>1
<1>7. Len(rec_rows[r]) \in Nat
  BY DEF TypeOK
<1>8. RowsInv(r)'
  BY <1>3, <1>6 DEF DataOf, RowsInv
<1>9. CompleteInv(r)'
  <2> SUFFICES ASSUME fails' = 0, phase'[r] # "gone", ~fast'[r]
               PROVE  /\ \A i \in DOMAIN rec_rows'[r] : rec_rows'[r][i] = i
                      /\ Len(log'[r]) = Len(rec_rows'[r]) + IF InFileNow(r)' THEN 0 ELSE ph_irec'[r]
                      /\ \A j \in 0 .. ph_irec'[r] - 1 : ph_precs'[r][j] = Len(rec_rows'[r]) + 1 + j
    BY DEF CompleteInv
  <2>1. (\A i \in DOMAIN rec_rows[r] : rec_rows[r][i] = i) /\ Len(log[r]) = Len(rec_rows[r]) + 0
    BY <1>3, <1>4 DEF DataOf, CompleteInv
  <2>2. Len(log'[r]) = Len(rec_rows'[r]) + IF InFileNow(r)' THEN 0 ELSE ph_irec'[r]
    BY <1>1, <1>3, <1>5, <2>1
  <2> QED BY <1>3, <1>6, <2>1, <2>2
<1>10. LossInv(r)'
  BY <1>3, <1>4 DEF DataOf, LossInv, InFile
<1>11. EndInv(r)'
  BY <1>3, <1>4, <1>5 DEF DataOf, EndInv
<1> QED
  BY <1>8, <1>9, <1>10, <1>11 DEF DataOf

(* The run info of rank 0.                                                 *)
LEMMA InfoData ==
  ASSUME TypeOK, NEW k \in Nat, Control(k), NEW r \in Ranks, DataOf(r), NEW ok \in BOOLEAN, WtInfo(r, ok)
  PROVE  DataOf(r)' /\ r = 0
<1>1. todo[r] # <<>> /\ Head(todo[r])[1] = "wtinfo" /\ todo'[r] = Tail(todo[r])
  BY DEF WtInfo, At, Idle, Then, Rest, TypeOK
<1>2. r = 0 /\ todo'[r] = Leave
  BY <1>1, InfoRank
<1>3. phase[r] \in {"setup", "open", "closing"}
  BY <1>1 DEF Control, Gone, Stage, Setup, Opening, Running, Closing, Finished
<1>4. /\ ph_precs' = ph_precs /\ ph_irec' = ph_irec /\ log' = log /\ rec_rows' = rec_rows /\ nrec_tot' = nrec_tot
      /\ phase' = phase /\ fast' = fast
  BY DEF WtInfo, memory
<1>5. InFileNow(r) /\ ~DumpBegins(todo[r]) /\ ~Reported(phase[r], todo[r]) /\ ~At(r, "zero")
  BY <1>1, <1>3, FinishHeads DEF InFileNow, Stored, DumpBegins, Reported, At
<1>6. InFileNow(r)' /\ ~DumpBegins(todo'[r]) /\ Reported(phase'[r], todo'[r]) /\ ~At(r, "zero")'
  BY <1>2, FinishHeads DEF InFileNow, Stored, DumpBegins, Reported, At
<1>7. fails' = 0 => ok /\ fails = 0
  BY MpiAssumption DEF WtInfo, Open, TypeOK
<1>8. RowsInv(r)'
  BY <1>4, <1>5, <1>6 DEF DataOf, RowsInv
<1>9. CompleteInv(r)'
  BY <1>4, <1>5, <1>6, <1>7 DEF DataOf, CompleteInv
<1>10. LossInv(r)'
  BY <1>4, <1>5, <1>6, <1>7 DEF DataOf, LossInv, InFile
<1>11. EndInv(r)'
  <2> SUFFICES ASSUME fails' = 0, phase'[r] # "gone" PROVE EndInv(r)'
    BY DEF EndInv
  <2>1. run_info = <<>> /\ nrec_tot[r] = Len(rec_rows[r])
    BY <1>2, <1>4, <1>5, <1>7 DEF DataOf, EndInv
  <2> DEFINE x == [nrank |-> NRank, nevent |-> ph_nev[r], ngroup |-> nrec_tot[r]]
  <2>2. run_info' = Append(run_info, x)
    BY <1>7 DEF WtInfo
  <2> HIDE DEF x
  <2>5. Len(run_info') = 1
    BY <2>1, <2>2
  <2>6. nrec_tot'[r] = Len(rec_rows'[r])
    BY <1>4, <2>1
  <2>7. phase[r] \in {"closing", "done"} => InFile(r, Len(log[r]))
    BY <1>4, <1>5, <1>7 DEF DataOf, EndInv
  <2>8. phase'[r] \in {"closing", "done"} => InFile(r, Len(log[r]))'
    BY <1>4, <2>7 DEF InFile
  <2> QED BY <1>6, <2>5, <2>6, <2>8 DEF EndInv
<1> QED
  BY <1>2, <1>8, <1>9, <1>10, <1>11 DEF DataOf

(* ph_io_wtrec, of a dump and of phmpi_finalize.                           *)
LEMMA WriteData ==
  ASSUME TypeOK, NEW k \in Nat, Control(k), NEW r \in Ranks, DataOf(r), NEW ok \in BOOLEAN, WtRec(r, ok)
  PROVE  DataOf(r)'
<1>1. todo[r] # <<>> /\ Head(todo[r])[1] \in {"wtrec", "flush"} /\ todo'[r] = Tail(todo[r])
  BY DEF WtRec, At, Idle, Then, Rest, TypeOK
<1>2. phase[r] \in {"setup", "open", "closing"}
  BY <1>1 DEF Control, Gone, Stage, Setup, Opening, Running, Closing, Finished
<1>3. /\ ph_precs' = ph_precs /\ ph_irec' = ph_irec /\ log' = log /\ run_info' = run_info
      /\ phase' = phase /\ fast' = fast
  BY DEF WtRec
<1>4. ~InFileNow(r) /\ ~DumpBegins(todo[r]) /\ ~Reported(phase[r], todo[r])
  <2>1. Plain(todo[r])
    BY <1>1 DEF Plain, NextIs
  <2> QED BY <1>2, <2>1, PlainFacts DEF InFileNow
<1>5. CASE ok
  <2> DEFINE rows == rec_rows'[r]  m == ph_irec[r]  n == Len(rec_rows[r])
  <2>1. rows = rec_rows[r] \o Buffered(r)
    BY <1>5 DEF WtRec, TypeOK
  <2>2. Buffered(r) \in Seq(Nat) /\ Len(Buffered(r)) = m /\ m \in Nat
        /\ \A j \in 1 .. m : Buffered(r)[j] = ph_precs[r][j - 1]
    BY BufferedType
  <2>3. /\ rows \in Seq(Nat) /\ Len(rows) = n + m
        /\ \A i \in DOMAIN rec_rows[r] : i \in DOMAIN rows /\ rows[i] = rec_rows[r][i]
        /\ \A j \in 1 .. m : n + j \in DOMAIN rows /\ rows[n + j] = ph_precs[r][j - 1]
        /\ \A i \in DOMAIN rows : i \notin DOMAIN rec_rows[r] => \E j \in 1 .. m : i = n + j
        /\ \A i \in DOMAIN rows : rows[i] \in 1 .. Len(log[r])
        /\ \A i, j \in DOMAIN rows : i < j => rows[i] < rows[j]
    <3>1. RowsInv(r)
      BY DEF DataOf
    <3> HIDE DEF rows
    <3>2. Grown(r, Buffered(r), rows)
      <4>1. Len(Buffered(r)) <= ph_irec[r]
        BY <2>2
      <4>2. \A j \in 1 .. Len(Buffered(r)) : Buffered(r)[j] = ph_precs[r][j - 1]
        BY <2>2
      <4> QED BY <1>4, <2>1, <2>2, <3>1, <4>1, <4>2, RowsGrow
    <3> QED BY <2>2, <3>2 DEF Grown
  <2>4. n \in Nat /\ DOMAIN rec_rows[r] = 1 .. n
    BY DEF TypeOK
  <2>5. fails' = fails /\ nrec_tot'[r] = nrec_tot[r] + m
    BY <1>5 DEF WtRec, Open, TypeOK
  <2>6. InFileNow(r)' /\ ~DumpBegins(todo'[r]) /\ (r = 0 => ~Reported(phase'[r], todo'[r]))
        /\ (~At(r, "zero")' => m >= 1)
    <3>1. CASE Head(todo[r])[1] = "wtrec"
      <4>1. NextIs(todo'[r], {"zero"})
        BY <1>1, <3>1, ControlFollows DEF Follows
      <4> QED BY <1>2, <1>3, <4>1, FinishHeads DEF NextIs, InFileNow, Stored, DumpBegins, Reported, At, Idle
    <3>2. CASE Head(todo[r])[1] = "flush"
      <4>1. todo'[r] = Info(r) /\ m >= 1 /\ phase[r] = "closing"
        BY <1>1, <3>2, FlushFollows
      <4>2. Stored(phase'[r], todo'[r])
        BY <4>1, FinishHeads DEF Info, Stored
      <4> QED BY <1>3, <4>1, <4>2, FinishHeads DEF InFileNow, DumpBegins, Reported
    <3> QED BY <1>1, <3>1, <3>2
  <2>7. m >= 1 => ph_precs[r][m - 1] = Len(log[r])
    BY <1>2, <1>4 DEF DataOf, RowsInv
  <2>8. RowsInv(r)'
    <3>1. /\ \A i \in 0 .. m - 1 : ph_precs[r][i] \in 1 .. Len(log[r])
          /\ \A i, j \in 0 .. m - 1 : i < j => ph_precs[r][i] < ph_precs[r][j]
      BY DEF DataOf, RowsInv
    <3> HIDE DEF rows, n
    <3> QED BY <1>3, <2>3, <2>6, <2>7, <3>1 DEF RowsInv, rows
  <2> HIDE DEF rows, m, n
  <2>9. CompleteInv(r)'
    <3> SUFFICES ASSUME fails' = 0, phase'[r] # "gone", ~fast'[r]
                 PROVE  (\A i \in DOMAIN rows : rows[i] = i) /\ Len(log[r]) = Len(rows)
      BY <1>3, <2>3, <2>6 DEF CompleteInv, rows
    <3>1. /\ \A i \in DOMAIN rec_rows[r] : rec_rows[r][i] = i
          /\ Len(log[r]) = n + m
          /\ \A j \in 0 .. m - 1 : ph_precs[r][j] = n + 1 + j
      BY <1>3, <1>4, <2>5 DEF DataOf, CompleteInv, m, n
    <3>2. ASSUME NEW i \in DOMAIN rows PROVE rows[i] = i
      <4>1. CASE i \in DOMAIN rec_rows[r]
        BY <2>3, <3>1, <4>1
      <4>2. CASE i \notin DOMAIN rec_rows[r]
        <5>1. PICK j \in 1 .. m : i = n + j
          BY <2>3, <4>2
        <5>2. j - 1 \in 0 .. m - 1 /\ n + 1 + (j - 1) = n + j
          BY <2>2, <2>4
        <5>3. rows[n + j] = n + j
          BY <2>3, <3>1, <5>2
        <5> QED BY <5>1, <5>3
      <4> QED BY <4>1, <4>2
    <3> QED BY <2>3, <3>1, <3>2
  <2>10. \A x : (InFile(r, x) => InFile(r, x)') /\ (InBuffer(r, x) => InFile(r, x)')
    <3>1. ASSUME NEW x, InFile(r, x) PROVE InFile(r, x)'
      <4>1. PICK i \in DOMAIN rec_rows[r] : rec_rows[r][i] = x
        BY <3>1 DEF InFile
      <4> QED BY <2>3, <4>1 DEF InFile, rows
    <3>2. ASSUME NEW x, InBuffer(r, x) PROVE InFile(r, x)'
      <4>1. PICK y \in 0 .. m - 1 : ph_precs[r][y] = x
        BY <3>2 DEF InBuffer, m
      <4>2. y + 1 \in 1 .. m /\ y + 1 - 1 = y
        BY <2>2
      <4>3. n + (y + 1) \in DOMAIN rows /\ rows[n + (y + 1)] = x
        BY <2>3, <4>1, <4>2
      <4> QED BY <4>3 DEF InFile, rows
    <3> QED BY <3>1, <3>2
  <2>11. LossInv(r)'
    BY <1>3, <1>4, <2>5, <2>10 DEF DataOf, LossInv
  <2>12. EndInv(r)'
    <3> SUFFICES ASSUME fails' = 0, phase'[r] # "gone" PROVE EndInv(r)'
      BY DEF EndInv
    <3>1. nrec_tot[r] = n /\ (r = 0 => run_info = <<>>)
      BY <1>3, <1>4, <2>5 DEF DataOf, EndInv, n
    <3>2. nrec_tot'[r] = Len(rec_rows'[r])
      BY <2>3, <2>5, <3>1 DEF rows
    <3>3. ~At(r, "zero")' => InFile(r, Len(log[r]))'
      <4> SUFFICES ASSUME ~At(r, "zero")' PROVE InFile(r, Len(log[r]))'
        OBVIOUS
      <4>1. m >= 1 /\ ph_precs[r][m - 1] = Len(log[r])
        BY <2>6, <2>7
      <4>2. m - 1 \in 0 .. m - 1
        BY <2>2, <4>1
      <4>3. InBuffer(r, Len(log[r]))
        BY <4>1, <4>2 DEF InBuffer, m
      <4> QED BY <1>3, <2>10, <4>3
    <3> QED BY <1>3, <2>6, <3>1, <3>2, <3>3 DEF EndInv
  <2> QED BY <2>8, <2>9, <2>11, <2>12 DEF DataOf
<1>6. CASE ~ok
  <2>1. rec_rows'[r] = rec_rows[r] /\ fails' = fails + 1 /\ fails \in Nat
    BY <1>6, MpiAssumption DEF WtRec, Open, TypeOK
  <2>2. fails' # 0
    BY <2>1
  <2>3. InFileNow(r)'
    <3>1. CASE Head(todo[r])[1] = "wtrec"
      <4>1. NextIs(todo'[r], {"zero"})
        BY <1>1, <3>1, ControlFollows DEF Follows
      <4> QED BY <4>1 DEF NextIs, InFileNow, Stored
    <3>2. CASE Head(todo[r])[1] = "flush"
      <4>1. todo'[r] = Info(r)
        BY <1>1, <3>2, FlushFollows
      <4> QED BY <4>1, FinishHeads DEF Info, InFileNow, Stored
    <3> QED BY <1>1, <3>1, <3>2
  <2>4. RowsInv(r)'
    BY <1>3, <1>4, <2>1, <2>3 DEF DataOf, RowsInv
  <2>5. CompleteInv(r)' /\ LossInv(r)' /\ EndInv(r)'
    BY <2>2 DEF CompleteInv, LossInv, EndInv
  <2> QED BY <2>4, <2>5 DEF DataOf
<1> QED
  BY <1>5, <1>6

(* A rank that ends leaves a part of its buffer in its file at most.       *)
LEMMA GoneData ==
  ASSUME TypeOK, NEW k \in Nat, Control(k), NEW r \in Ranks, DataOf(r), Crash(r) \/ Launcher(r)
  PROVE  DataOf(r)'
<1>1. Die(r) /\ phase[r] # "gone"
  BY DEF Crash, Launcher
<1>2. phase'[r] = "gone" /\ todo'[r] = <<>> /\ ph_precs' = ph_precs /\ ph_irec' = ph_irec /\ log' = log
  BY <1>1 DEF Die, Then, memory, TypeOK
<1>3. PICK m \in 0 .. (IF At(r, "wtrec") \/ At(r, "flush") THEN ph_irec[r] ELSE 0) :
        rec_rows' = [rec_rows EXCEPT ![r] = @ \o SubSeq(Buffered(r), 1, m)]
  BY <1>1 DEF Die
<1>4. /\ Buffered(r) \in Seq(Nat) /\ Len(Buffered(r)) = ph_irec[r] /\ ph_irec[r] \in Nat
      /\ \A i \in 1 .. ph_irec[r] : Buffered(r)[i] = ph_precs[r][i - 1]
  BY BufferedType
<1>5. m \in Nat /\ m <= ph_irec[r]
  BY <1>3, <1>4
<1> DEFINE s == SubSeq(Buffered(r), 1, m)
<1>6. s \in Seq(Nat) /\ Len(s) = m /\ \A j \in 1 .. m : s[j] = Buffered(r)[j]
  <2>1. m <= Len(Buffered(r))
    BY <1>4, <1>5
  <2> QED BY <1>4, <1>5, <2>1, SubSeqProperties
<1>7. m = 0 \/ ~InFileNow(r)
  <2> SUFFICES ASSUME m # 0 PROVE ~InFileNow(r)
    OBVIOUS
  <2>1. At(r, "wtrec") \/ At(r, "flush")
    BY <1>3
  <2>2. NextIs(todo[r], {"wtrec", "flush"})
    BY <2>1 DEF At, Idle, NextIs
  <2>3. phase[r] \in {"setup", "open", "closing"}
    BY <2>2 DEF NextIs, Control, Gone, Stage, Setup, Opening, Running, Closing, Finished
  <2> QED BY <2>2, <2>3, StoredHead DEF NextIs, InFileNow
<1>8. rec_rows'[r] = rec_rows[r] \o s
  BY <1>3 DEF TypeOK
<1> HIDE DEF s
<1>9. RowsInv(r)
  BY DEF DataOf
<1>10. Grown(r, s, rec_rows'[r])
  <2>1. Len(s) <= ph_irec[r] /\ \A j \in 1 .. Len(s) : s[j] = ph_precs[r][j - 1]
    <3>1. Len(s) = m /\ Len(s) <= ph_irec[r]
      BY <1>5, <1>6
    <3>2. ASSUME NEW j \in 1 .. m PROVE s[j] = ph_precs[r][j - 1]
      <4>1. j \in 1 .. ph_irec[r]
        BY <1>4, <1>5
      <4>2. s[j] = Buffered(r)[j]
        BY <1>6
      <4>3. Buffered(r)[j] = ph_precs[r][j - 1]
        BY <1>4, <4>1
      <4> QED BY <4>2, <4>3
    <3> QED BY <3>1, <3>2
  <2>2. Len(s) = 0 \/ ~InFileNow(r)
    BY <1>6, <1>7
  <2> QED BY <1>6, <1>8, <1>9, <2>1, <2>2, RowsGrow
<1>11. InFileNow(r)'
  BY <1>2 DEF InFileNow, Stored
<1>12. RowsInv(r)'
  BY <1>2, <1>9, <1>10, <1>11 DEF RowsInv, Grown
<1>13. CompleteInv(r)' /\ LossInv(r)' /\ EndInv(r)'
  BY <1>2 DEF CompleteInv, LossInv, EndInv
<1> QED
  BY <1>12, <1>13 DEF DataOf

(* phmpi_read and its look at the buffer, the tags and the record file.    *)
LEMMA MoveData ==
  ASSUME TypeOK, NEW k \in Nat, Control(k), NEW r \in Ranks, DataOf(r),
         WtCtag(r) \/ EnterRead(r) \/ Check(r) \/ Return(r)
  PROVE  DataOf(r)'
<1>1. /\ ph_precs' = ph_precs /\ ph_irec' = ph_irec /\ log' = log /\ rec_rows' = rec_rows /\ nrec_tot' = nrec_tot
      /\ run_info' = run_info /\ fast' = fast /\ fails' = fails
  BY DEF WtCtag, EnterRead, Check, Return, memory, disk, bounds
<1>2. todo[r] # <<>>
  BY DEF WtCtag, EnterRead, Check, Return, At, Idle
<1>3. phase[r] \in {"setup", "open", "closing"}
  BY <1>2 DEF Control, Gone, Stage, Setup, Opening, Running, Closing, Finished
<1>4. Tail(todo[r]) \in Seq(StepSet) /\ Head(todo[r]) \in StepSet /\ <<>> \in Seq(StepSet)
  BY <1>2, RestType DEF Rest
<1>5. ASSUME phase' = phase, Plain(todo[r]), Plain(todo'[r]) PROVE DataOf(r)'
  BY <1>1, <1>3, <1>5, PlainData
<1>6. CASE WtCtag(r)
  <2>1. Head(todo[r])[1] = "wtctag" /\ todo'[r] = Tail(todo[r]) /\ phase' = phase
    BY <1>6 DEF WtCtag, At, Then, Rest, TypeOK
  <2>2. Setup(r, k)
    <3>1. Stage(r, k)
      BY <1>2 DEF Control, Gone
    <3> QED BY <1>2, <2>1, <3>1, OpeningHead, RunningHead, ClosingHead DEF Stage, Finished
  <2>3. Tail(todo[r]) = Cons(Do("barrier"), <<>>)
    BY <1>2, <2>1, <2>2, SetupHead
  <2>4. Plain(todo'[r]) /\ Plain(todo[r])
    BY <1>2, <2>1, <2>3, PlainBarriers DEF Plain, NextIs
  <2> QED BY <1>5, <2>1, <2>4
<1>7. CASE EnterRead(r)
  <2> DEFINE t == Head(todo[r])[2]
             tl == Tail(todo[r])
  <2>1. /\ Head(todo[r])[1] = "read" /\ phase' = phase
        /\ todo'[r] = (IF Full(r) THEN <<Do("dump"), Do("zero"), Put(t)>> ELSE <<Put(t), Do("check")>>) \o tl
    BY <1>7 DEF EnterRead, At, Then, Rest, TypeOK
  <2>2. t # "S_dump"
    BY <1>2, <2>1, ControlFollows DEF Follows
  <2>3. /\ Put(t) \in StepSet /\ Put(t)[1] = "put" /\ Put(t)[2] = t
        /\ \A op \in {"dump", "zero", "check"} : Do(op) \in StepSet /\ Do(op)[1] = op
    BY <1>4, StepTypes DEF StepSet, Put, Ops
  <2>4. tl \in Seq(StepSet)
    BY <1>4
  <2> HIDE DEF t, tl
  <2>5. CASE Full(r)
    <3> DEFINE d == Cons(Do("zero"), Cons(Put(t), tl))
    <3>1. <<Do("dump"), Do("zero"), Put(t)>> \o tl = Cons(Do("dump"), d)
      BY <2>3, <2>4, PushThree
    <3>2. d \in Seq(StepSet)
      BY <2>3, <2>4, ConsFacts
    <3> HIDE DEF d
    <3>3. todo'[r] = Cons(Do("dump"), d)
      BY <2>1, <2>5, <3>1
    <3>4. Plain(todo'[r])
      BY <2>3, <3>2, <3>3, ConsFacts DEF Plain, NextIs
    <3> QED BY <1>2, <1>5, <2>1, <3>4 DEF Plain, NextIs
  <2>6. CASE ~Full(r)
    <3> DEFINE d == Cons(Do("check"), tl)
    <3>1. <<Put(t), Do("check")>> \o tl = Cons(Put(t), d)
      BY <2>3, <2>4, PushTwo
    <3>2. d \in Seq(StepSet)
      BY <2>3, <2>4, ConsFacts
    <3> HIDE DEF d
    <3>3. todo'[r] = Cons(Put(t), d)
      BY <2>1, <2>6, <3>1
    <3>4. Plain(todo'[r])
      BY <2>2, <2>3, <3>2, <3>3, ConsFacts DEF Plain, NextIs
    <3> QED BY <1>2, <1>5, <2>1, <3>4 DEF Plain, NextIs
  <2> QED BY <2>5, <2>6
<1>8. CASE Check(r)
  <2> DEFINE tl == Tail(todo[r])
  <2>1. /\ Head(todo[r])[1] = "check" /\ phase' = phase
        /\ todo'[r] = (IF Full(r) THEN <<Do("dump")>> ELSE <<>>) \o tl
    BY <1>8 DEF Check, At, Then, Rest, TypeOK
  <2>2. tl \in Seq(StepSet) /\ (tl = <<>> \/ NextIs(tl, {"flush"}))
    BY <1>2, <1>4, <2>1, ControlFollows DEF Follows
  <2>3. Do("dump") \in StepSet /\ Do("dump")[1] = "dump"
    BY StepTypes DEF Ops
  <2> HIDE DEF tl
  <2>4. Plain(todo'[r])
    <3>1. CASE Full(r)
      <4>1. todo'[r] = Cons(Do("dump"), tl)
        BY <2>1, <3>1 DEF Cons
      <4> QED BY <2>2, <2>3, <4>1, ConsFacts DEF Plain, NextIs
    <3>2. CASE ~Full(r)
      <4>1. todo'[r] = tl
        BY <2>1, <2>2, <3>2, ConcatEmptySeq
      <4> QED BY <2>2, <4>1 DEF Plain, NextIs
    <3> QED BY <3>1, <3>2
  <2> QED BY <1>2, <1>5, <2>1, <2>4 DEF Plain, NextIs
<1>9. CASE Return(r)
  <2>1. Head(todo[r])[1] = "return" /\ todo'[r] = <<>> /\ phase'[r] = "done"
    BY <1>9 DEF Return, At, Then, TypeOK
  <2>2. phase[r] = "closing"
    <3>1. Stage(r, k)
      BY <1>2 DEF Control, Gone
    <3> QED BY <1>2, <2>1, <3>1, SetupHead, OpeningHead, RunningHead DEF Stage, Finished, Closing
  <2>3. InFileNow(r) /\ ~DumpBegins(todo[r]) /\ Reported(phase[r], todo[r]) /\ ~At(r, "zero")
    BY <1>2, <2>1 DEF InFileNow, Stored, DumpBegins, Reported, At
  <2>4. InFileNow(r)' /\ ~DumpBegins(todo'[r]) /\ Reported(phase'[r], todo'[r]) /\ ~At(r, "zero")'
    BY <2>1 DEF InFileNow, Stored, DumpBegins, Reported, At, Idle
  <2> QED BY <1>1, <2>1, <2>2, <2>3, <2>4, QuietData
<1> QED
  BY <1>6, <1>7, <1>8, <1>9

LEMMA OpenData ==
  ASSUME TypeOK, NEW k \in Nat, Control(k), NEW r \in Ranks, DataOf(r), NEW ok \in BOOLEAN, MkRec(r, ok)
  PROVE  DataOf(r)'
<1>1. /\ ph_precs' = ph_precs /\ log' = log /\ rec_rows' = rec_rows /\ nrec_tot' = nrec_tot
      /\ run_info' = run_info /\ fast' = fast
  BY DEF MkRec
<1>2. todo[r] # <<>> /\ Head(todo[r])[1] = "mkrec"
  BY DEF MkRec, At, Idle
<1>3. Opening(r, k)
  <2>1. Stage(r, k)
    BY <1>2 DEF Control, Gone
  <2> QED BY <1>2, <2>1, SetupHead, RunningHead, ClosingHead DEF Stage, Finished
<1>4. phase[r] = "open" /\ ph_irec[r] = 0 /\ Tail(todo[r]) = Cons(Do("barrier"), Cons(Put("S_main"), <<>>))
  BY <1>2, <1>3, OpeningHead DEF Opening
<1>5. ph_irec'[r] = ph_irec[r]
  BY <1>4 DEF MkRec, TypeOK
<1>6. Plain(todo[r])
  BY <1>2 DEF Plain, NextIs
<1>7. CASE ok
  <2>1. phase'[r] = "open" /\ todo'[r] = Tail(todo[r]) /\ fails' = fails
    BY <1>7 DEF MkRec, Open, Then, Rest, TypeOK
  <2>2. Plain(todo'[r])
    BY <1>4, <2>1, PlainBarriers
  <2> QED BY <1>1, <1>4, <1>5, <1>6, <2>1, <2>2, PlainData
<1>8. CASE ~ok
  <2>1. phase'[r] = "gone"
    BY <1>8 DEF MkRec, TypeOK
  <2>2. CompleteInv(r)' /\ LossInv(r)' /\ EndInv(r)'
    BY <2>1 DEF CompleteInv, LossInv, EndInv
  <2>3. InFileNow(r)'
    BY <2>1 DEF InFileNow, Stored
  <2>4. RowsInv(r)'
    BY <1>1, <1>5, <2>1, <2>3 DEF DataOf, RowsInv
  <2> QED BY <2>2, <2>4 DEF DataOf
<1> QED
  BY <1>7, <1>8

LEMMA StepData ==
  ASSUME TypeOK, NEW k \in Nat, Control(k), NEW r \in Ranks, DataOf(r), Step(r)
  PROVE  DataOf(r)'
<1>1. CASE Fastread(r)
  BY <1>1, PutRows, PutComplete, PutLoss, PutEnd DEF DataOf
<1>2. ASSUME NEW ok \in BOOLEAN, MkRec(r, ok) \/ WtRec(r, ok) \/ WtInfo(r, ok) PROVE DataOf(r)'
  BY <1>2, OpenData, WriteData, InfoData
<1> QED
  BY <1>1, <1>2, MoveData, DumpData, ZeroData DEF Step

(* The calls of the program.                                               *)
LEMMA CallData ==
  ASSUME TypeOK, NEW k \in Nat, Control(k), NEW r \in Ranks, DataOf(r),
         Collective(r) \/ phmpi_read(r) \/ phmpi_fastread(r) \/ phmpi_dump(r)
  PROVE  DataOf(r)'
<1>1. /\ ph_precs' = ph_precs /\ ph_irec' = ph_irec /\ log' = log /\ rec_rows' = rec_rows /\ nrec_tot' = nrec_tot
      /\ run_info' = run_info /\ fails' = fails
  BY DEF Collective, phmpi_set_tag, phmpi_commit, phmpi_finalize, phmpi_read, phmpi_fastread, phmpi_dump, Call,
         memory, disk, bounds
<1>2. ~fast'[r] => ~fast[r]
  BY DEF Collective, phmpi_set_tag, phmpi_commit, phmpi_finalize, phmpi_read, phmpi_fastread, phmpi_dump, Call,
         bounds, TypeOK
<1>3. phase[r] \in {"setup", "open", "closing"} /\ phase'[r] \in {"setup", "open", "closing"} /\ Idle(r)
  BY DEF Collective, phmpi_set_tag, phmpi_commit, phmpi_finalize, phmpi_read, phmpi_fastread, phmpi_dump, Call, TypeOK
<1>4. Plain(todo[r])
  BY <1>3 DEF Idle, Plain
<1>5. ASSUME Plain(todo'[r]) PROVE DataOf(r)'
  BY <1>1, <1>2, <1>3, <1>4, <1>5, PlainData
<1>6. /\ Put("user") \in StepSet /\ Put("user")[1] = "put" /\ Put("user")[2] = "user"
      /\ Put("S_main") \in StepSet
      /\ Read("user") \in StepSet /\ Read("user")[1] = "read"
      /\ \A op \in {"dump", "wtctag", "mkrec", "barrier"} : Do(op) \in StepSet /\ Do(op)[1] = op
      /\ <<>> \in Seq(StepSet)
  BY StepTypes DEF Ops, Tags
<1>7. CASE phmpi_set_tag(r)
  <2>1. todo'[r] = IF r = 0 THEN <<Do("wtctag"), Do("barrier")>> ELSE <<Do("barrier")>>
    BY <1>7 DEF phmpi_set_tag, Then, TypeOK
  <2>2. <<Do("barrier")>> = Cons(Do("barrier"), <<>>)
    BY <1>6, PushLast
  <2>3. Plain(<<Do("barrier")>>)
    BY <2>2, PlainBarriers
  <2>4. <<Do("wtctag"), Do("barrier")>> # <<>> /\ Head(<<Do("wtctag"), Do("barrier")>>)[1] = "wtctag"
    BY <1>6
  <2>5. Plain(<<Do("wtctag"), Do("barrier")>>)
    BY <2>4 DEF Plain, NextIs
  <2> QED BY <1>5, <2>1, <2>3, <2>5
<1>8. CASE phmpi_commit(r)
  <2>1. todo'[r] = CommitSteps
    BY <1>8 DEF phmpi_commit, Then, TypeOK
  <2>2. CommitSteps # <<>> /\ Head(CommitSteps)[1] = "mkrec"
    BY <1>6 DEF CommitSteps
  <2> QED BY <1>5, <2>1, <2>2 DEF Plain, NextIs
<1>9. CASE phmpi_finalize(r)
  <2>1. todo'[r] = FinalSteps(r)
    BY <1>9 DEF phmpi_finalize, Then, TypeOK
  <2> QED BY <1>5, <2>1, FinalStepsAre, PlainBarriers
<1>10. CASE phmpi_read(r)
  <2>1. todo'[r] = <<Read("user")>>
    BY <1>10 DEF phmpi_read, Then, TypeOK
  <2>2. todo'[r] # <<>> /\ Head(todo'[r])[1] = "read"
    BY <1>6, <2>1
  <2> QED BY <1>5, <2>2 DEF Plain, NextIs
<1>11. CASE phmpi_fastread(r)
  <2>1. todo'[r] = <<Put("user")>>
    BY <1>11 DEF phmpi_fastread, Then, TypeOK
  <2>2. todo'[r] # <<>> /\ Head(todo'[r])[1] = "put" /\ Head(todo'[r])[2] # "S_dump"
    BY <1>6, <2>1
  <2> QED BY <1>5, <2>2 DEF Plain, NextIs
<1>12. CASE phmpi_dump(r)
  <2>1. todo'[r] = <<Do("dump")>>
    BY <1>12 DEF phmpi_dump, Then, TypeOK
  <2>2. todo'[r] # <<>> /\ Head(todo'[r])[1] = "dump"
    BY <1>6, <2>1
  <2> QED BY <1>5, <2>2 DEF Plain, NextIs
<1> QED
  BY <1>7, <1>8, <1>9, <1>10, <1>11, <1>12 DEF Collective

LEMMA BarrierData ==
  ASSUME TypeOK, NEW k \in Nat, Control(k), NEW r \in Ranks, DataOf(r), Barrier
  PROVE  DataOf(r)'
<1>1. /\ ph_precs' = ph_precs /\ ph_irec' = ph_irec /\ log' = log /\ rec_rows' = rec_rows /\ nrec_tot' = nrec_tot
      /\ run_info' = run_info /\ fails' = fails /\ fast' = fast /\ phase' = phase
  BY DEF Barrier, memory, disk, bounds
<1>2. todo[r] # <<>> /\ Head(todo[r])[1] = "barrier" /\ todo'[r] = Tail(todo[r])
  BY DEF Barrier, At, Idle, Rest
<1>3. Stage(r, k)
  BY <1>2 DEF Control, Gone
<1>4. phase[r] \in {"setup", "open", "closing"}
  BY <1>2 DEF Control, Gone, Stage, Setup, Opening, Running, Closing, Finished
<1>5. ASSUME Plain(todo'[r]), Tail(todo[r]) # AtEnd PROVE DataOf(r)'
  <2>1. Plain(todo[r])
    BY <1>2, <1>5 DEF Plain, NextIs
  <2> QED BY <1>1, <1>4, <1>5, <2>1, PlainData
<1>6. <<>> # AtEnd /\ \A s : Head(s)[1] # "return" => s # AtEnd
  BY FinishHeads
<1>7. CASE Setup(r, k)
  <2>1. Tail(todo[r]) = <<>>
    BY <1>2, <1>7, SetupHead
  <2> QED BY <1>2, <1>5, <1>6, <2>1 DEF Plain
<1>8. CASE Opening(r, k)
  <2>1. Tail(todo[r]) = Cons(Put("S_main"), <<>>)
    BY <1>2, <1>8, OpeningHead
  <2>2. Head(Tail(todo[r]))[1] = "put"
    <3>1. Put("S_main") \in StepSet /\ Put("S_main")[1] = "put" /\ <<>> \in Seq(StepSet)
      BY StepTypes DEF Tags
    <3> QED BY <2>1, <3>1, ConsFacts
  <2> QED BY <1>2, <1>5, <1>6, <2>1, <2>2, PlainBarriers
<1>9. CASE Closing(r, k)
  <2>1. \/ Tail(todo[r]) = Cons(Read("E_main"), Finish(r))
        \/ Tail(todo[r]) = AtEnd /\ todo[r] = Leave
    BY <1>2, <1>9, ClosingHead
  <2>2. CASE Tail(todo[r]) = Cons(Read("E_main"), Finish(r))
    <3>1. Head(Tail(todo[r]))[1] = "read"
      <4>1. Read("E_main") \in StepSet /\ Read("E_main")[1] = "read" /\ Finish(r) \in Seq(StepSet)
        BY StepTypes, FinishType DEF Tags
      <4> QED BY <2>2, <4>1, ConsFacts
    <3> QED BY <1>2, <1>5, <1>6, <2>2, <3>1, PlainBarriers
  <2>3. CASE todo[r] = Leave /\ todo'[r] = AtEnd
    <3>1. InFileNow(r) /\ ~DumpBegins(todo[r]) /\ Reported(phase[r], todo[r]) /\ ~At(r, "zero")
      BY <1>2, <2>3 DEF InFileNow, Stored, DumpBegins, Reported, At
    <3>2. InFileNow(r)' /\ ~DumpBegins(todo'[r]) /\ Reported(phase'[r], todo'[r]) /\ ~At(r, "zero")'
      BY <2>3, FinishHeads DEF InFileNow, Stored, DumpBegins, Reported, At
    <3> QED BY <1>1, <3>1, <3>2, QuietData
  <2> QED BY <1>2, <2>1, <2>2, <2>3
<1> QED
  BY <1>2, <1>3, <1>7, <1>8, <1>9, RunningHead DEF Stage, Finished

(* The other ranks.                                                        *)
LEMMA OtherData ==
  ASSUME TypeOK, NEW q \in Ranks, DataOf(q), Same(q),
         rec_rows'[q] = rec_rows[q], ph_precs'[q] = ph_precs[q], nrec_tot'[q] = nrec_tot[q],
         q = 0 => run_info' = run_info, fails' = fails \/ fails' = fails + 1
  PROVE  DataOf(q)'
<1>1. fails' = 0 => fails = 0
  BY MpiAssumption DEF TypeOK
<1>2. /\ log'[q] = log[q] /\ ph_irec'[q] = ph_irec[q] /\ phase'[q] = phase[q] /\ todo'[q] = todo[q]
      /\ fast'[q] = fast[q]
  BY DEF Same
<1>3. /\ InFileNow(q)' <=> InFileNow(q)
      /\ At(q, "zero")' <=> At(q, "zero")
  BY <1>2 DEF InFileNow, At, Idle
<1> QED
  BY <1>1, <1>2, <1>3, QuietData

LEMMA OthersKept ==
  ASSUME TypeOK, NEW k \in Nat, Control(k), NEW r \in Ranks, NEW q \in Ranks, q # r,
         \/ Collective(r) \/ Step(r) \/ Crash(r) \/ Launcher(r)
         \/ phmpi_read(r) \/ phmpi_fastread(r) \/ phmpi_dump(r)
  PROVE  /\ rec_rows'[q] = rec_rows[q] /\ ph_precs'[q] = ph_precs[q] /\ nrec_tot'[q] = nrec_tot[q]
         /\ q = 0 => run_info' = run_info
         /\ fails' = fails \/ fails' = fails + 1
<1> USE DEF TypeOK
<1>1. CASE WtCtag(r) \/ EnterRead(r) \/ Check(r) \/ EnterDump(r) \/ Zero(r) \/ Return(r)
  BY <1>1 DEF WtCtag, EnterRead, Check, EnterDump, Zero, Return, memory, disk, bounds
<1>2. CASE Fastread(r)
  BY <1>2 DEF Fastread, disk, bounds
<1>3. ASSUME NEW ok \in BOOLEAN, MkRec(r, ok) \/ WtRec(r, ok)
      PROVE  /\ rec_rows'[q] = rec_rows[q] /\ ph_precs'[q] = ph_precs[q] /\ nrec_tot'[q] = nrec_tot[q]
             /\ run_info' = run_info /\ (fails' = fails \/ fails' = fails + 1)
  BY <1>3 DEF MkRec, WtRec, Open
<1>4. ASSUME NEW ok \in BOOLEAN, WtInfo(r, ok)
      PROVE  /\ rec_rows'[q] = rec_rows[q] /\ ph_precs'[q] = ph_precs[q] /\ nrec_tot'[q] = nrec_tot[q]
             /\ q # 0 /\ (fails' = fails \/ fails' = fails + 1)
  <2>1. r = 0
    BY <1>4, InfoRank DEF WtInfo, At, Idle
  <2> QED BY <1>4, <2>1 DEF WtInfo, Open, memory
<1>5. CASE Crash(r) \/ Launcher(r)
  BY <1>5 DEF Crash, Launcher, Die, memory
<1>6. CASE Collective(r) \/ phmpi_read(r) \/ phmpi_fastread(r) \/ phmpi_dump(r)
  BY <1>6 DEF Collective, phmpi_set_tag, phmpi_commit, phmpi_finalize, phmpi_read, phmpi_fastread, phmpi_dump, Call,
              memory, disk, bounds
<1> QED
  BY <1>1, <1>2, <1>3, <1>4, <1>5, <1>6 DEF Step

LEMMA DataNext ==
  ASSUME FastLimit <= BufNrec, DataInv, [Next]_vars
  PROVE  DataInv'
<1>1. PICK k \in Nat : Control(k)
  BY DEF DataInv, ControlInv
<1>2. TypeOK /\ \A q \in Ranks : DataOf(q)
  BY DEF DataInv, ControlInv
<1>3. ControlInv'
  BY ControlInvNext DEF DataInv
<1>4. ASSUME NEW r \in Ranks,
             \/ Collective(r) \/ Step(r) \/ Crash(r) \/ Launcher(r)
             \/ phmpi_read(r) \/ phmpi_fastread(r) \/ phmpi_dump(r),
             NEW q \in Ranks
      PROVE  DataOf(q)'
  <2>1. CASE q = r
    BY <1>1, <1>2, <1>4, <2>1, StepData, GoneData, CallData
  <2>2. CASE q # r
    <3>1. Step(r) => (Head(todo[r])[1] = "wtctag" => r = 0)
      <4> SUFFICES ASSUME Step(r), Head(todo[r])[1] = "wtctag" PROVE r = 0
        OBVIOUS
      <4>1. todo[r] # <<>>
        BY ByHead
      <4>2. Stage(r, k)
        BY <1>1, <4>1 DEF Control, Gone
      <4> QED BY <1>2, <4>1, <4>2, SetupHead, OpeningHead, RunningHead, ClosingHead DEF Stage, Finished
    <3>2. Same(q)
      BY <1>2, <1>4, <2>2, <3>1, OthersSame
    <3>3. /\ rec_rows'[q] = rec_rows[q] /\ ph_precs'[q] = ph_precs[q] /\ nrec_tot'[q] = nrec_tot[q]
          /\ q = 0 => run_info' = run_info
          /\ fails' = fails \/ fails' = fails + 1
      BY <1>1, <1>2, <1>4, <2>2, OthersKept
    <3> QED BY <1>2, <3>2, <3>3, OtherData
  <2> QED BY <2>1, <2>2
<1>5. ASSUME NEW r \in Ranks, NEW supported \in BOOLEAN, phmpi_set_evt(r, supported), NEW q \in Ranks
      PROVE  DataOf(q)'
  <2>1. Same(q) /\ rec_rows' = rec_rows /\ ph_precs' = ph_precs /\ nrec_tot' = nrec_tot /\ run_info' = run_info
        /\ fails' = fails
    BY <1>5 DEF phmpi_set_evt, Same
  <2> QED BY <1>2, <2>1, OtherData
<1>6. ASSUME Barrier, NEW q \in Ranks PROVE DataOf(q)'
  BY <1>1, <1>2, <1>6, BarrierData
<1>7. ASSUME UNCHANGED vars, NEW q \in Ranks PROVE DataOf(q)'
  <2>1. Same(q) /\ rec_rows' = rec_rows /\ ph_precs' = ph_precs /\ nrec_tot' = nrec_tot /\ run_info' = run_info
        /\ fails' = fails
    BY <1>7 DEF vars, memory, disk, bounds, Same
  <2> QED BY <1>2, <2>1, OtherData
<1>8. \A q \in Ranks : DataOf(q)'
  BY <1>4, <1>5, <1>6, <1>7 DEF Next, Ended
<1> QED
  BY <1>3, <1>8 DEF DataInv

LEMMA InitData ==
  ASSUME Init
  PROVE  DataInv
<1>1. ASSUME NEW r \in Ranks PROVE DataOf(r)
  <2>1. /\ rec_rows[r] = <<>> /\ ph_irec[r] = 0 /\ log[r] = <<>> /\ nrec_tot[r] = 0 /\ run_info = <<>>
        /\ phase[r] = "setup" /\ todo[r] = <<>>
    BY <1>1 DEF Init
  <2>2. DOMAIN rec_rows[r] = {} /\ 0 .. ph_irec[r] - 1 = {} /\ Len(log[r]) = 0 /\ 1 .. Len(log[r]) = {}
        /\ Len(rec_rows[r]) = 0
    BY <2>1
  <2>3. Plain(todo[r])
    BY <2>1 DEF Plain
  <2>4. ~InFileNow(r) /\ ~Reported(phase[r], todo[r])
    BY <2>1, <2>3, PlainFacts DEF InFileNow
  <2>5. RowsInv(r)
    BY <2>1, <2>2 DEF RowsInv
  <2>6. CompleteInv(r)
    BY <2>1, <2>2, <2>4 DEF CompleteInv
  <2>7. LossInv(r)
    BY <2>2 DEF LossInv
  <2>8. EndInv(r)
    BY <2>1, <2>2, <2>4 DEF EndInv
  <2> QED BY <2>5, <2>6, <2>7, <2>8 DEF DataOf
<1> QED
  BY <1>1, InitControl DEF DataInv

LEMMA DataHolds ==
  ASSUME FastLimit <= BufNrec
  PROVE  Spec => []DataInv
<1>1. Init => DataInv
  BY InitData
<1>2. DataInv /\ [Next]_vars => DataInv'
  BY DataNext
<1> QED
  BY <1>1, <1>2, PTL DEF Spec

-----------------------------------------------------------------------------
(* What the files hold.                                                    *)

(* Behind the last barrier every rank is about to return or has returned.  *)
LEMMA LastStage ==
  ASSUME TypeOK, NEW k \in Nat, Control(k), fails = 0, NEW r \in Ranks, phase[r] = "done", NEW q \in Ranks
  PROVE  /\ Wrote(q)
         /\ phase[q] = "done" \/ (phase[q] = "closing" /\ todo[q] = AtEnd)
<1>1. \A p \in Ranks : Stage(p, k)
  BY DEF Control, Gone
<1>2. k = NSetTag + 3
  BY <1>1 DEF Stage, Setup, Opening, Running, Closing, Finished
<1>3. NSetTag \in Nat /\ settags[q] \in 0 .. NSetTag
  BY MpiAssumption DEF TypeOK
<1>4. ~Setup(q, k)
  BY <1>2, <1>3 DEF Setup
<1>5. ~Opening(q, k) /\ ~Running(q, k)
  BY <1>2, <1>3 DEF Opening, Running
<1>6. Closing(q, k) \/ Finished(q, k)
  BY <1>1, <1>4, <1>5 DEF Stage
<1>7. CASE Closing(q, k)
  BY <1>2, <1>3, <1>7 DEF Closing
<1>8. CASE Finished(q, k)
  BY <1>8 DEF Finished
<1> QED
  BY <1>6, <1>7, <1>8

(* Only a rank that is gone leaves a line of its file unfinished.          *)
TornInv == \A r \in Ranks : torn[r] => phase[r] = "gone"

LEMMA NextTorn ==
  ASSUME ControlInv, TornInv, [Next]_vars
  PROVE  TornInv'
<1>0. TypeOK /\ \A r \in Ranks : phase[r] = "gone" => todo[r] = <<>>
  BY DEF ControlInv, Control, Stage, Setup, Opening, Running, Closing, Finished, Gone
<1>1. ASSUME NEW r \in Ranks, Die(r) PROVE TornInv'
  <2>1. \E cut \in BOOLEAN : torn' = [torn EXCEPT ![r] = cut]
    BY <1>1, Zenon DEF Die
  <2>2. phase' = [phase EXCEPT ![r] = "gone"]
    BY <1>1 DEF Die
  <2> QED BY <1>0, <2>1, <2>2 DEF TornInv, TypeOK
<1>2. ASSUME torn' = torn, phase' = phase PROVE TornInv'
  BY <1>2 DEF TornInv
<1>3. ASSUME torn' = torn, NEW r \in Ranks, phase[r] # "gone",
             \A q \in Ranks : q # r => phase'[q] = phase[q]
      PROVE  TornInv'
  BY <1>3 DEF TornInv
<1>4. ASSUME NEW r \in Ranks, Crash(r) \/ Launcher(r) PROVE TornInv'
  BY <1>1, <1>4 DEF Crash, Launcher
<1>5. ASSUME NEW r \in Ranks, phmpi_set_tag(r) PROVE TornInv'
  BY <1>2, <1>5 DEF phmpi_set_tag, disk
<1>6. ASSUME NEW r \in Ranks, phmpi_commit(r) \/ phmpi_finalize(r) PROVE TornInv'
  BY <1>0, <1>3, <1>6 DEF phmpi_commit, phmpi_finalize, disk, TypeOK
<1>7. ASSUME NEW r \in Ranks, phmpi_read(r) \/ phmpi_fastread(r) \/ phmpi_dump(r) PROVE TornInv'
  BY <1>2, <1>7 DEF phmpi_read, phmpi_fastread, phmpi_dump, Call, disk
<1>8. ASSUME NEW r \in Ranks, NEW supported \in BOOLEAN, phmpi_set_evt(r, supported) PROVE TornInv'
  BY <1>2, <1>8, Zenon DEF phmpi_set_evt
<1>9. ASSUME NEW r \in Ranks, Step(r) PROVE TornInv'
  <2>0. phase[r] # "gone"
    BY <1>0, <1>9 DEF Step, WtCtag, Fastread, EnterRead, Check, EnterDump, Zero, Return, MkRec, WtRec, WtInfo, At, Idle
  <2>1. CASE \E ok \in BOOLEAN : MkRec(r, ok)
    <3>1. PICK ok \in BOOLEAN : MkRec(r, ok)
      BY <2>1
    <3>2. torn' = torn /\ phase' = [phase EXCEPT ![r] = IF ok THEN "open" ELSE "gone"]
      BY <3>1, Zenon DEF MkRec
    <3>3. CASE ~ok
      BY <1>0, <3>2, <3>3 DEF TornInv, TypeOK
    <3>4. CASE ok
      BY <1>0, <1>3, <3>2, <2>0 DEF TypeOK
    <3> QED BY <3>3, <3>4
  <2>2. CASE Return(r)
    BY <1>0, <1>3, <2>0, <2>2 DEF Return, disk, TypeOK
  <2>3. CASE \E ok \in BOOLEAN : WtRec(r, ok) \/ WtInfo(r, ok)
    BY <1>2, <2>3, Zenon DEF WtRec, WtInfo
  <2>4. CASE WtCtag(r) \/ Fastread(r) \/ EnterRead(r) \/ Check(r) \/ EnterDump(r) \/ Zero(r)
    BY <1>2, <2>4, Zenon DEF WtCtag, Fastread, EnterRead, Check, EnterDump, Zero, disk
  <2> QED BY <1>9, <2>1, <2>2, <2>3, <2>4, Zenon DEF Step
<1>10. CASE Barrier \/ Ended \/ UNCHANGED vars
  BY <1>2, <1>10 DEF Barrier, Ended, vars, disk
<1> QED
  BY <1>4, <1>5, <1>6, <1>7, <1>8, <1>9, <1>10, Zenon DEF Next, Collective

LEMMA EndTogetherFollows ==
  ASSUME DataInv, TornInv
  PROVE  EndTogether
<1> SUFFICES ASSUME NEW r \in Ranks, phase[r] = "done", fails = 0
             PROVE  /\ \A q \in Ranks : log[q] # <<>> /\ nrec_tot[q] = Len(rec_rows[q])
                           /\ "E_main" \in Range(log[q]) /\ Len(log[q]) \in Range(rec_rows[q])
                           /\ ~torn[q]
                    /\ Len(run_info) = 1
  BY DEF EndTogether
<1>1. PICK k \in Nat : Control(k)
  BY DEF DataInv, ControlInv
<1>2. TypeOK /\ \A q \in Ranks : EndInv(q)
  BY DEF DataInv, ControlInv, DataOf
<1>3. ASSUME NEW q \in Ranks
      PROVE  /\ Wrote(q) /\ phase[q] \in {"closing", "done"}
             /\ InFileNow(q) /\ ~At(q, "zero") /\ Reported(phase[q], todo[q])
  <2>1. Wrote(q) /\ (phase[q] = "done" \/ (phase[q] = "closing" /\ todo[q] = AtEnd))
    BY <1>1, <1>2, LastStage
  <2>2. CASE phase[q] = "closing" /\ todo[q] = AtEnd
    BY <2>1, <2>2, FinishHeads DEF InFileNow, Stored, Reported, At
  <2>3. CASE phase[q] = "done"
    <3>1. todo[q] = <<>>
      BY <1>1, <2>3 DEF Control, Gone, Stage, Setup, Opening, Running, Closing, Finished
    <3> QED BY <2>1, <2>3, <3>1 DEF InFileNow, Stored, Reported, At, Idle
  <2> QED BY <2>1, <2>2, <2>3
<1>4. ASSUME NEW q \in Ranks
      PROVE  log[q] # <<>> /\ nrec_tot[q] = Len(rec_rows[q])
             /\ "E_main" \in Range(log[q]) /\ Len(log[q]) \in Range(rec_rows[q])
             /\ ~torn[q]
  <2>1. "E_main" \in Range(log[q]) /\ log[q] # <<>>
    BY <1>3 DEF Wrote, Range
  <2>2. nrec_tot[q] = Len(rec_rows[q]) /\ InFile(q, Len(log[q]))
    BY <1>2, <1>3 DEF EndInv
  <2>3. Len(log[q]) \in Range(rec_rows[q])
    BY <2>2 DEF InFile, Range
  <2>4. ~torn[q]
    BY <1>3 DEF TornInv
  <2> QED BY <2>1, <2>2, <2>3, <2>4
<1>5. 0 \in Ranks
  BY MpiAssumption DEF Ranks
<1>6. Len(run_info) = 1
  BY <1>2, <1>3, <1>5 DEF EndInv
<1> QED
  BY <1>4, <1>6

(* When phmpi_finalize returns anywhere and nothing failed, the record     *)
(* files of all ranks are whole and hold their last record, the number of  *)
(* rows is the one the rank counted, and rank 0 has written one row of     *)
(* run_info.csv: the barrier of phmpi_finalize and the write before it.    *)
THEOREM EndTogetherHolds ==
  FastLimit <= BufNrec => (Spec => []EndTogether)
<1> SUFFICES ASSUME FastLimit <= BufNrec PROVE Spec => []EndTogether
  OBVIOUS
<1>1. DataInv /\ TornInv => EndTogether
  BY EndTogetherFollows
<1>2. Init => TornInv
  BY DEF Init, TornInv
<1>3. DataInv => ControlInv
  BY DEF DataInv
<1>4. ControlInv /\ TornInv /\ [Next]_vars => TornInv'
  BY NextTorn
<1> QED
  BY <1>1, <1>2, <1>3, <1>4, DataHolds, PTL DEF Spec

(* Ahead(s): the write of phmpi_finalize is among the steps s.             *)
Ahead(s) == \E x \in Range(s) : x[1] = "flush"

LEMMA AheadCons ==
  ASSUME NEW a \in StepSet, NEW s \in Seq(StepSet)
  PROVE  Ahead(Cons(a, s)) <=> a[1] = "flush" \/ Ahead(s)
<1> DEFINE c == Cons(a, s)
<1>1. c \in Seq(StepSet) /\ c # <<>> /\ Head(c) = a /\ Tail(c) = s
  BY ConsFacts
<1> HIDE DEF c
<1>2. /\ Len(c) = Len(s) + 1 /\ Len(s) \in Nat /\ c[1] = a
      /\ \A i \in 1 .. Len(s) : c[i + 1] = s[i]
  <2>1. Len(Tail(c)) = Len(c) - 1 /\ \A i \in 1 .. Len(Tail(c)) : Tail(c)[i] = c[i + 1]
    BY <1>1, HeadTailProperties
  <2>2. Len(s) = Len(c) - 1 /\ \A i \in 1 .. Len(s) : s[i] = c[i + 1]
    BY <1>1, <2>1, Zenon
  <2>3. Len(s) \in Nat /\ Len(c) \in Nat
    BY <1>1
  <2>4. c[1] = a
    BY <1>1
  <2>5. Len(c) = Len(s) + 1
    BY <2>2, <2>3
  <2> QED BY <2>2, <2>3, <2>4, <2>5, Zenon
<1>3. DOMAIN c = 1 .. Len(s) + 1 /\ DOMAIN s = 1 .. Len(s)
  BY <1>1, <1>2
<1>4. ASSUME NEW i \in DOMAIN c, c[i][1] = "flush" PROVE a[1] = "flush" \/ Ahead(s)
  <2>1. CASE i = 1
    BY <1>2, <1>4, <2>1
  <2>2. CASE i # 1
    <3>1. i - 1 \in 1 .. Len(s) /\ (i - 1) + 1 = i
      BY <1>2, <1>3, <2>2
    <3>2. c[i] = s[i - 1]
      BY <1>2, <3>1
    <3> QED BY <1>3, <1>4, <3>1, <3>2 DEF Ahead, Range
  <2> QED BY <2>1, <2>2
<1>5. ASSUME a[1] = "flush" PROVE Ahead(c)
  <2>1. 1 \in DOMAIN c
    BY <1>2, <1>3
  <2> QED BY <1>2, <1>5, <2>1 DEF Ahead, Range
<1>6. ASSUME NEW i \in DOMAIN s, s[i][1] = "flush" PROVE Ahead(c)
  <2>1. i + 1 \in DOMAIN c /\ c[i + 1] = s[i]
    BY <1>2, <1>3
  <2> QED BY <1>6, <2>1 DEF Ahead, Range
<1>7. Ahead(c) => a[1] = "flush" \/ Ahead(s)
  BY <1>4 DEF Ahead, Range
<1>8. a[1] = "flush" \/ Ahead(s) => Ahead(c)
  BY <1>5, <1>6 DEF Ahead, Range
<1> QED
  BY <1>7, <1>8 DEF c

LEMMA AheadFinish ==
  ASSUME NEW r
  PROVE  Ahead(Finish(r)) /\ ~Ahead(Info(r)) /\ ~Ahead(Leave) /\ ~Ahead(AtEnd) /\ ~Ahead(<<>>)
<1>1. /\ Finish(r) \in Seq(StepSet) /\ Info(r) \in Seq(StepSet) /\ Leave \in Seq(StepSet)
      /\ AtEnd \in Seq(StepSet) /\ <<>> \in Seq(StepSet)
  BY FinishType
<1>2. \A op \in {"flush", "wtinfo", "return", "barrier"} : Do(op) \in StepSet /\ Do(op)[1] = op
  BY StepTypes DEF Ops
<1>3. ~Ahead(<<>>)
  BY DEF Ahead, Range
<1>4. ~Ahead(AtEnd)
  BY <1>1, <1>2, <1>3, AheadCons DEF AtEnd
<1>5. ~Ahead(Leave)
  BY <1>1, <1>2, <1>4, AheadCons DEF Leave
<1>6. ~Ahead(Info(r))
  BY <1>1, <1>2, <1>5, AheadCons DEF Info
<1>7. Ahead(Finish(r))
  BY <1>1, <1>2, AheadCons DEF Finish
<1> QED
  BY <1>3, <1>4, <1>5, <1>6, <1>7

LEMMA AheadDumping ==
  ASSUME NEW r, NEW rest \in Seq(StepSet), Ahead(rest), Dumping(r, rest)
  PROVE  Ahead(todo[r])
<1> DEFINE e == Cons(Put("E_dump"), rest)
           z == Cons(Do("zero"), e)
           w == Cons(Do("wtrec"), z)
           s == Cons(Put("S_dump"), w)
           d == Cons(Do("dump"), rest)
<1>1. /\ \A t \in {"E_dump", "S_dump"} : Put(t) \in StepSet
      /\ \A op \in {"zero", "wtrec", "dump"} : Do(op) \in StepSet
  BY StepTypes DEF Ops, Tags
<1>2. e \in Seq(StepSet) /\ Ahead(e) /\ Ahead(d)
  BY <1>1, ConsFacts, AheadCons
<1>3. todo[r] \in {d, s, w, z, e}
  BY DEF Dumping
<1> HIDE DEF e, d
<1>4. z \in Seq(StepSet) /\ Ahead(z)
  BY <1>1, <1>2, ConsFacts, AheadCons
<1> HIDE DEF z
<1>5. w \in Seq(StepSet) /\ Ahead(w)
  BY <1>1, <1>4, ConsFacts, AheadCons
<1> HIDE DEF w
<1>6. Ahead(s)
  BY <1>1, <1>5, AheadCons
<1> HIDE DEF s
<1> QED
  BY <1>2, <1>3, <1>4, <1>5, <1>6

LEMMA AheadReading ==
  ASSUME NEW r, NEW t \in Tags, NEW rest \in Seq(StepSet), Ahead(rest), Before(r, t, rest) \/ After(r, rest)
  PROVE  Ahead(todo[r])
<1>1. Do("zero") \in StepSet /\ Do("check") \in StepSet /\ Put(t) \in StepSet /\ Read(t) \in StepSet
  BY StepTypes DEF Ops
<1> DEFINE p == Cons(Put(t), rest)
           c == Cons(Do("check"), rest)
           d == Cons(Do("zero"), p)
<1>2. p \in Seq(StepSet) /\ Ahead(p) /\ c \in Seq(StepSet) /\ Ahead(c) /\ Ahead(Cons(Read(t), rest))
  BY <1>1, ConsFacts, AheadCons
<1>3. \/ todo[r] \in {Cons(Read(t), rest), Cons(Put(t), c), d, p, c, rest}
      \/ Dumping(r, d) \/ Dumping(r, rest)
  BY DEF Before, After, Again
<1> HIDE DEF p, c
<1>4. d \in Seq(StepSet) /\ Ahead(d) /\ Ahead(Cons(Put(t), c))
  BY <1>1, <1>2, ConsFacts, AheadCons
<1> HIDE DEF d
<1> QED
  BY <1>2, <1>3, <1>4, AheadDumping

(* What a rank that runs will still write: its buffer, until it is in the  *)
(* file.                                                                   *)
LEMMA UnwrittenIs ==
  ASSUME TypeOK, NEW k \in Nat, Control(k), NEW r \in Ranks, phase[r] # "gone"
  PROVE  /\ ~InFileNow(r) => Unwritten(r) = Buffered(r) /\ ~At(r, "zero")
         /\ InFileNow(r) => At(r, "zero") \/ Unwritten(r) = <<>>
<1>1. Stage(r, k)
  BY DEF Control, Gone
<1>2. Unwritten(r) = IF Ahead(todo[r]) \/ phase[r] = "open" THEN Buffered(r) ELSE <<>>
  BY DEF Unwritten, Ahead
<1>3. At(r, "zero") => InFileNow(r)
  BY DEF At, Idle, InFileNow, Stored
<1>4. InFileNow(r) /\ phase[r] # "done" => NextIs(todo[r], {"zero", "wtinfo", "return", "barrier"})
  BY StoredHead DEF InFileNow
<1>5. \A s : NextIs(s, {"zero"}) /\ s = todo[r] => At(r, "zero")
  BY DEF NextIs, At, Idle
<1>6. CASE Setup(r, k)
  <2>1. ph_irec[r] = 0 /\ phase[r] = "setup"
    BY <1>6 DEF Setup
  <2>2. Buffered(r) = <<>>
    BY <2>1 DEF Buffered
  <2>3. Unwritten(r) = <<>>
    BY <1>2, <2>1, <2>2
  <2> QED BY ONLY <1>3, <2>2, <2>3
<1>7. CASE Opening(r, k)
  <2>1. Plain(Cons(Do("barrier"), Cons(Put("S_main"), <<>>)))
    BY PlainBarriers
  <2>2. todo[r] = Cons(Do("barrier"), Cons(Put("S_main"), <<>>)) \/ NextIs(todo[r], {"mkrec"})
    <3>1. /\ Put("S_main") \in StepSet /\ <<>> \in Seq(StepSet)
          /\ \A op \in {"barrier", "mkrec"} : Do(op) \in StepSet /\ Do(op)[1] = op
      BY StepTypes DEF Ops, Tags
    <3>2. Cons(Put("S_main"), <<>>) \in Seq(StepSet)
      BY <3>1, ConsFacts
    <3>3. Cons(Do("barrier"), Cons(Put("S_main"), <<>>)) \in Seq(StepSet)
      BY <3>1, <3>2, ConsFacts
    <3>4. NextIs(Cons(Do("mkrec"), Cons(Do("barrier"), Cons(Put("S_main"), <<>>))), {"mkrec"})
      BY <3>1, <3>3, ConsFacts DEF NextIs
    <3> QED BY ONLY <1>7, <3>4 DEF Opening
  <2>3. Plain(todo[r]) /\ phase[r] = "open"
    BY <1>7, <2>1, <2>2 DEF Plain, NextIs, Opening
  <2>4. ~InFileNow(r)
    BY <2>3, PlainFacts DEF InFileNow
  <2> QED BY <1>2, <1>3, <2>3, <2>4
<1>8. CASE Running(r, k)
  <2>1. InFileNow(r) => NextIs(todo[r], {"zero"})
    BY <1>4, <1>8, RunningHead DEF NextIs, Running
  <2> QED BY <1>2, <1>3, <1>5, <1>8, <2>1 DEF Running
<1>9. CASE Closing(r, k)
  <2>1. "E_main" \in Tags /\ Read("E_main") \in StepSet /\ Do("barrier") \in StepSet /\ Finish(r) \in Seq(StepSet)
        /\ Ahead(Finish(r))
    BY StepTypes, FinishType, AheadFinish DEF Ops, Tags
  <2>2. ASSUME Ahead(todo[r]), InFileNow(r) => NextIs(todo[r], {"zero"})
        PROVE  /\ ~InFileNow(r) => Unwritten(r) = Buffered(r) /\ ~At(r, "zero")
               /\ InFileNow(r) => At(r, "zero") \/ Unwritten(r) = <<>>
    BY <1>2, <1>3, <1>5, <2>2
  <2>3. CASE todo[r] = Cons(Do("barrier"), Cons(Read("E_main"), Finish(r)))
    <3>1. Cons(Read("E_main"), Finish(r)) \in Seq(StepSet) /\ Ahead(Cons(Read("E_main"), Finish(r)))
      BY <2>1, ConsFacts, AheadCons
    <3>2. Ahead(todo[r])
      BY <2>1, <2>3, <3>1, AheadCons
    <3>3. ~InFileNow(r)
      BY <1>9, <2>3, PlainBarriers, PlainFacts DEF InFileNow, Closing
    <3> QED BY <2>2, <3>2, <3>3
  <2>4. CASE Before(r, "E_main", Finish(r))
    <3>1. Ahead(todo[r])
      BY <2>1, <2>4, AheadReading
    <3>2. InFileNow(r) => NextIs(todo[r], {"zero"})
      BY <1>4, <1>9, <2>1, <2>4, BeforeHead DEF NextIs, Closing
    <3> QED BY <2>2, <3>1, <3>2
  <2>5. CASE After(r, Finish(r))
    <3>1. Ahead(todo[r])
      BY <2>1, <2>5, AheadReading
    <3>2. Head(todo[r])[1] \in {"check", "dump", "put", "wtrec", "zero", "flush"}
      BY <2>1, <2>5, AfterHead, FinishHeads
    <3>3. InFileNow(r) => NextIs(todo[r], {"zero"})
      BY <1>4, <1>9, <3>2 DEF NextIs, Closing
    <3> QED BY <2>2, <3>1, <3>3
  <2>6. CASE todo[r] \in {Info(r), Leave, AtEnd}
    <3>1. ~Ahead(todo[r]) /\ phase[r] = "closing"
      BY <1>9, <2>6, AheadFinish DEF Closing
    <3>2. InFileNow(r)
      BY <2>6, FinishHeads DEF InFileNow, Stored, Info
    <3> QED BY <1>2, <3>1, <3>2
  <2> QED BY <1>9, <2>3, <2>4, <2>5, <2>6 DEF Closing
<1>10. CASE Finished(r, k)
  <2>1. ~Ahead(todo[r]) /\ phase[r] = "done"
    BY <1>10, AheadFinish DEF Finished
  <2> QED BY <1>2, <1>3, <2>1 DEF InFileNow, Stored
<1> QED
  BY <1>1, <1>6, <1>7, <1>8, <1>9, <1>10 DEF Stage

(* The records that are or will be in the file of a rank: its rows, and    *)
(* the buffer as long as that is not among them.                           *)
KeptIs(r, kept) ==
  /\ kept \in Seq(Nat) /\ Len(kept) = Len(rec_rows[r]) + IF InFileNow(r) THEN 0 ELSE ph_irec[r]
  /\ \A i, j \in DOMAIN kept : i < j => kept[i] < kept[j]
  /\ \A n : InFile(r, n) \/ (~InFileNow(r) /\ InBuffer(r, n)) => n \in Range(kept)
  /\ \A i \in DOMAIN kept :
       \/ i \in DOMAIN rec_rows[r] /\ kept[i] = rec_rows[r][i]
       \/ ~InFileNow(r) /\ \E j \in 0 .. ph_irec[r] - 1 : i = Len(rec_rows[r]) + 1 + j /\ kept[i] = ph_precs[r][j]

LEMMA KeptFacts ==
  ASSUME TypeOK, NEW k \in Nat, Control(k), NEW r \in Ranks, RowsInv(r), phase[r] # "gone"
  PROVE  KeptIs(r, Kept(r))
<1>1. rec_rows[r] \in Seq(Nat) /\ ph_irec[r] \in Nat /\ DOMAIN rec_rows[r] = 1 .. Len(rec_rows[r])
      /\ Len(rec_rows[r]) \in Nat
  <2>1. rec_rows[r] \in Seq(Nat) /\ ph_irec[r] \in Nat
    BY BufferedType DEF TypeOK
  <2> QED BY <2>1
<1>2. CASE InFileNow(r)
  <2>1. Kept(r) = rec_rows[r]
    <3>1. At(r, "zero") \/ Unwritten(r) = <<>>
      BY <1>2, UnwrittenIs
    <3>2. rec_rows[r] \o <<>> = rec_rows[r]
      BY <1>1, ConcatEmptySeq
    <3> QED BY ONLY <3>1, <3>2 DEF Kept, InDump
  <2>2. \A i, j \in DOMAIN rec_rows[r] : i < j => rec_rows[r][i] < rec_rows[r][j]
    BY DEF RowsInv
  <2>3. \A n : InFile(r, n) => n \in Range(rec_rows[r])
    BY DEF InFile, Range
  <2>4. Len(Kept(r)) = Len(rec_rows[r]) + IF InFileNow(r) THEN 0 ELSE ph_irec[r]
    BY <1>1, <1>2, <2>1
  <2> QED BY ONLY <1>1, <1>2, <2>1, <2>2, <2>3, <2>4 DEF KeptIs
<1>3. CASE ~InFileNow(r)
  <2> DEFINE s == Buffered(r)  m == Len(rec_rows[r])
  <2>1. s \in Seq(Nat) /\ Len(s) = ph_irec[r] /\ \A j \in 1 .. Len(s) : s[j] = ph_precs[r][j - 1]
    <3>1. /\ s \in Seq(Nat) /\ Len(s) = ph_irec[r]
          /\ \A j \in 1 .. ph_irec[r] : s[j] = ph_precs[r][j - 1]
      BY BufferedType
    <3> HIDE DEF s
    <3> QED BY <3>1
  <2>2. Kept(r) = rec_rows[r] \o s
    BY <1>3, UnwrittenIs DEF Kept, InDump
  <2> HIDE DEF s
  <2>3. Grown(r, s, Kept(r))
    <3>1. Len(s) <= ph_irec[r]
      BY <1>1, <2>1
    <3>2. \A rows : rows = rec_rows[r] \o s => Grown(r, s, rows)
      BY <1>3, <2>1, <3>1, RowsGrow
    <3> QED BY ONLY <2>2, <3>2
  <2>4. Kept(r) \in Seq(Nat) /\ Len(Kept(r)) = m + ph_irec[r]
        /\ \A i, j \in DOMAIN Kept(r) : i < j => Kept(r)[i] < Kept(r)[j]
    BY <2>1, <2>3 DEF Grown
  <2>5. ASSUME NEW j \in 0 .. ph_irec[r] - 1
        PROVE  m + 1 + j \in DOMAIN Kept(r) /\ Kept(r)[m + 1 + j] = ph_precs[r][j]
    <3>0. Len(s) = ph_irec[r] /\ ph_irec[r] \in Nat /\ m \in Nat
      BY <1>1, <2>1
    <3>1. j + 1 \in 1 .. Len(s) /\ m + (j + 1) = m + 1 + j /\ (j + 1) - 1 = j
      <4> HIDE DEF m
      <4> QED BY <3>0
    <3>2. m + (j + 1) \in DOMAIN Kept(r) /\ Kept(r)[m + (j + 1)] = ph_precs[r][(j + 1) - 1]
      BY <2>3, <3>1 DEF Grown
    <3> QED BY <3>1, <3>2
  <2>6. ASSUME NEW n, InFile(r, n) \/ InBuffer(r, n) PROVE n \in Range(Kept(r))
    <3>1. CASE InFile(r, n)
      BY <2>3, <3>1 DEF Grown, InFile, Range
    <3>2. CASE InBuffer(r, n)
      BY <2>5, <3>2 DEF InBuffer, Range
    <3> QED BY <2>6, <3>1, <3>2
  <2>7. ASSUME NEW i \in DOMAIN Kept(r), i \notin DOMAIN rec_rows[r]
        PROVE  \E j \in 0 .. ph_irec[r] - 1 : i = m + 1 + j /\ Kept(r)[i] = ph_precs[r][j]
    <3>1. PICK j \in 1 .. Len(s) : i = m + j
      BY <2>3, <2>7 DEF Grown
    <3>2. j - 1 \in 0 .. ph_irec[r] - 1 /\ i = m + 1 + (j - 1)
      BY <1>1, <2>1, <3>1
    <3> QED BY <2>5, <3>2
  <2>8. \A i \in DOMAIN rec_rows[r] : Kept(r)[i] = rec_rows[r][i]
    BY <2>3 DEF Grown
  <2> QED BY <1>3, <2>4, <2>6, <2>7, <2>8 DEF KeptIs
<1> QED
  BY <1>2, <1>3

(* Neighbours in increasing order.                                         *)
LEMMA Neighbours ==
  ASSUME NEW s \in Seq(Nat), \A i, j \in DOMAIN s : i < j => s[i] < s[j]
  PROVE  \A i \in 1 .. Len(s) - 1 : s[i] < s[i + 1]
<1> SUFFICES ASSUME NEW i \in 1 .. Len(s) - 1 PROVE s[i] < s[i + 1]
  OBVIOUS
<1>1. Len(s) \in Nat /\ DOMAIN s = 1 .. Len(s)
  OBVIOUS
<1>2. i \in DOMAIN s /\ i + 1 \in DOMAIN s /\ i < i + 1
  BY <1>1
<1> QED
  BY <1>2

LEMMA NothingLostFollows ==
  ASSUME DataInv
  PROVE  NothingLost
<1> SUFFICES ASSUME NEW r \in Ranks
             PROVE  /\ fails = 0 /\ phase[r] # "gone" /\ ~fast[r] => Kept(r) = [i \in 1 .. Len(log[r]) |-> i]
                    /\ Range(rec_rows[r]) \subseteq 1 .. Len(log[r])
                    /\ \A i \in 1 .. Len(rec_rows[r]) - 1 : rec_rows[r][i] < rec_rows[r][i + 1]
  BY DEF NothingLost
<1>1. PICK k \in Nat : Control(k)
  BY DEF DataInv, ControlInv
<1>2. TypeOK /\ RowsInv(r) /\ CompleteInv(r)
  BY DEF DataInv, ControlInv, DataOf
<1>3. rec_rows[r] \in Seq(Nat) /\ Len(log[r]) \in Nat /\ ph_irec[r] \in Nat /\ Len(rec_rows[r]) \in Nat
  <2>1. rec_rows[r] \in Seq(Nat) /\ log[r] \in Seq(Tags) /\ ph_irec[r] \in Nat
    BY <1>2, BufferedType DEF TypeOK
  <2> QED BY <2>1
<1>4. ASSUME fails = 0, phase[r] # "gone", ~fast[r]
      PROVE  Kept(r) = [i \in 1 .. Len(log[r]) |-> i]
  <2>1. KeptIs(r, Kept(r))
    BY <1>1, <1>2, <1>4, KeptFacts
  <2>2. Kept(r) \in Seq(Nat) /\ Len(Kept(r)) = Len(log[r])
    BY <1>2, <1>4, <2>1 DEF KeptIs, CompleteInv
  <2>3. ASSUME NEW i \in DOMAIN Kept(r) PROVE Kept(r)[i] = i
    <3>1. CASE i \in DOMAIN rec_rows[r] /\ Kept(r)[i] = rec_rows[r][i]
      BY <1>2, <1>4, <3>1 DEF CompleteInv
    <3>2. CASE ~InFileNow(r) /\ \E j \in 0 .. ph_irec[r] - 1 :
                 i = Len(rec_rows[r]) + 1 + j /\ Kept(r)[i] = ph_precs[r][j]
      BY <1>2, <1>4, <3>2 DEF CompleteInv
    <3> QED BY <2>1, <3>1, <3>2 DEF KeptIs
  <2>4. DOMAIN Kept(r) = 1 .. Len(log[r])
    BY <2>2
  <2> QED BY <2>2, <2>3, <2>4
<1>5. Range(rec_rows[r]) \subseteq 1 .. Len(log[r])
  BY <1>2 DEF RowsInv, Range
<1>6. \A i \in 1 .. Len(rec_rows[r]) - 1 : rec_rows[r][i] < rec_rows[r][i + 1]
  BY <1>2, <1>3, Neighbours DEF RowsInv
<1> QED
  BY <1>4, <1>5, <1>6

(* No record is lost, doubled or out of order: without fast reads and      *)
(* failures the rows of a file and the buffer still to be written are all  *)
(* records of the rank; whatever fails, the rows are records in the order  *)
(* they were taken.  Index, dump and buffer of phmpi_read and phmpi_dump.  *)
THEOREM NothingLostHolds ==
  FastLimit <= BufNrec => (Spec => []NothingLost)
<1> SUFFICES ASSUME FastLimit <= BufNrec PROVE Spec => []NothingLost
  OBVIOUS
<1>1. DataInv => NothingLost
  BY NothingLostFollows
<1> QED
  BY <1>1, DataHolds, PTL

LEMMA LossExplainedFollows ==
  ASSUME DataInv
  PROVE  LossExplained
<1> SUFFICES ASSUME fails = 0, NEW r \in Ranks, phase[r] # "gone"
             PROVE  /\ \A i \in 1 .. Len(Kept(r)) - 1 : Kept(r)[i] < Kept(r)[i + 1]
                    /\ \A n \in 1 .. Len(log[r]) :
                         \/ n \in Range(Kept(r))
                         \/ log[r][n] = "E_dump"
                         \/ ph_irec[r] = BufNrec - 1 /\ n = Len(log[r])
                         \/ n < Len(log[r]) /\ log[r][n + 1] = "S_dump"
  BY DEF LossExplained
<1>1. PICK k \in Nat : Control(k)
  BY DEF DataInv, ControlInv
<1>2. TypeOK /\ RowsInv(r) /\ LossInv(r)
  BY DEF DataInv, ControlInv, DataOf
<1>3. KeptIs(r, Kept(r))
  BY <1>1, <1>2, KeptFacts
<1>4. \A i \in 1 .. Len(Kept(r)) - 1 : Kept(r)[i] < Kept(r)[i + 1]
  BY <1>3, Neighbours DEF KeptIs
<1>5. ASSUME NEW n \in 1 .. Len(log[r])
      PROVE  \/ n \in Range(Kept(r))
             \/ log[r][n] = "E_dump"
             \/ ph_irec[r] = BufNrec - 1 /\ n = Len(log[r])
             \/ n < Len(log[r]) /\ log[r][n + 1] = "S_dump"
  BY <1>2, <1>3 DEF LossInv, KeptIs
<1> QED
  BY <1>4, <1>5

(* With fast reads in range a record is lost in two ways only: a (0,4)     *)
(* record under the read that found the buffer full (phmpi_read sets the   *)
(* index to 0), and the record given up for a (0,3) record (phmpi_dump     *)
(* steps back on a full buffer).                                           *)
THEOREM LossExplainedHolds ==
  FastLimit <= BufNrec => (Spec => []LossExplained)
<1> SUFFICES ASSUME FastLimit <= BufNrec PROVE Spec => []LossExplained
  OBVIOUS
<1>1. DataInv => LossExplained
  BY LossExplainedFollows
<1> QED
  BY <1>1, DataHolds, PTL
=============================================================================
