--------------------------- MODULE EnablePmuProofs ---------------------------
(***************************************************************************)
(* Theorems about the x86 kernel module and the programs that use it, for  *)
(* every number of CPUs, users, counters, event lists, runs and loads.     *)
(***************************************************************************)
EXTENDS EnablePmu, SequenceTheorems, TLAPS

(* A call is at one of its steps, with a counter left, and what it has     *)
(* read is kept up to the write.                                           *)
Entry == [ctr : Exported, word : Words]
Steps == {"dis", "disw", "cfg", "cfgw", "test", "en", "enw", "cnt"}
Calls == [kind : {"cfg", "cnt"}, todo : Seq(Entry), step : Steps, tmp : SUBSET Counters]
CallOK(x) ==
  \/ x = NoCall
  \/ /\ x \in Calls /\ x.todo # <<>>
     /\ x.step = "cnt" <=> x.kind = "cnt"
     /\ x.tmp # {} => x.step \in {"disw", "cfgw", "enw"}
     /\ x.step = "cfgw" => Head(x.todo).ctr \in Fixed /\ x.tmp \subseteq Fixed

(* Descriptors live as long as the files, and calls as long as the code.   *)
ModInv ==
  /\ \A u \in Users, f \in FileNames : fd[u][f] = "live" => Files
  /\ mod \in {"out", "load"} => \A u \in Users : call[u] = NoCall
CallInv == call \in [Users -> Calls \cup {NoCall}] /\ \A u \in Users : CallOK(call[u])
ControlInv == Typed /\ ModInv /\ CallInv

(* What a program has checked when it is at a step, and the kind of the    *)
(* call it is in.                                                          *)
Setting == {"ts_cfg", "ts_cnt", "ev_cfg", "ev_cnt", "measure"}
ProgramInv(u) ==
  /\ pc[u] = "fault" => NGp \in GpInit .. NevMax[u] - 1
  /\ pc[u] \in Setting \cup {"masks"} => pce
  /\ pc[u] \in Setting => Enough
  /\ call[u] # NoCall => /\ pc[u] \in Setting \ {"ts_cfg"}
                         /\ call[u].kind = IF pc[u] \in {"ts_cnt", "ev_cnt"} THEN "cfg" ELSE "cnt"

(* The counters a program clears, those its events reach, and the word     *)
(* that each of them is given last.                                        *)
Basic == {Ff(i) : i \in 0 .. MaxFf - 1} \cup {Gp(i) : i \in 0 .. GpInit - 1}
FirstGp(n) == {Gp(i) : i \in {k \in 0 .. n - 1 : k < NGp}}
Listed(u) == FirstGp(Len(evs[u]))
Asked(u) == pc[u] \in {"ev_cnt", "measure"}
Targets(u) == IF Asked(u) THEN Basic \cup Listed(u) ELSE Basic
WordFor(u, x) ==
  IF Asked(u) /\ x \in Listed(u) THEN evs[u][x[2] + 1] ELSE IF x \in Fixed THEN "on" ELSE "off"
Left(u) == {t.ctr : t \in Range(call[u].todo)}

(* A counter is configured with a word, and counts if that says so.        *)
HasWord(c, x, w) == IF x \in Fixed THEN x \in fctl[c] <=> w # "off" ELSE sel[c][x] = GpCfg(x[2], w)
Configured(u, x) ==
  HasWord(Cpu(u), x, WordFor(u, x)) /\ (Enables(Cpu(u), x) => x \in glob[Cpu(u)])

(* What the handler has read is still in the register, or the CPU has been *)
(* reset since, and stays without running counters.                        *)
Fresh(u) ==
  /\ call[u].step = "disw" => call[u].tmp = glob[Cpu(u)]
  /\ call[u].step = "enw" => call[u].tmp = glob[Cpu(u)] \cup {Ctr(u)}
  /\ call[u].step = "cfgw" => call[u].tmp = fctl[Cpu(u)]
Stale(u) ==
  \/ /\ call[u].step \in {"disw", "enw"} /\ fctl[Cpu(u)] \cap Exported = {}
     /\ \A g \in General : sel[Cpu(u)][g] = "off"
  \/ call[u].step = "cfgw" /\ glob[Cpu(u)] \cap Exported = {}
FreshInv == ControlInv /\ \A u \in Users : call[u] # NoCall => Fresh(u) \/ Stale(u)

(* A program alone on its CPU finds there what it has set so far: what the *)
(* call it is in has done, and for every counter whether it is configured  *)
(* and whether its value is new.                                           *)
Only(u) == \A v \in Users \ {u} : CpuOf[v] = CpuOf[u] => call[v] = NoCall
Going(u) ==
  /\ Fresh(u)
  /\ Left(u) \subseteq IF Asked(u) THEN Listed(u) ELSE Basic
  /\ call[u].kind = "cfg" => \A t \in Range(call[u].todo) : t.word = WordFor(u, t.ctr)
  /\ call[u].step \in {"test", "en", "enw"} => HasWord(Cpu(u), Ctr(u), Word(u))
  /\ call[u].step \in {"en", "enw"} => Enables(Cpu(u), Ctr(u))
Given(u, x) == (x \in Left(u) /\ pc[u] \in {"ts_cnt", "ev_cnt"}) \/ Configured(u, x)
Counted(u, x) ==
  \/ x \in Left(u) \/ pc[u] = "ts_cnt" \/ (pc[u] = "ev_cnt" /\ x \in Listed(u))
  \/ x \notin old[Cpu(u)]
Reached(u) == \A x \in Targets(u) : Given(u, x) /\ Counted(u, x)
AloneInv(u) ==
  alone[u] => /\ Only(u) /\ (call[u] # NoCall => Going(u))
              /\ (pc[u] \in Setting \ {"ts_cfg"} => Reached(u))
MeasureInv == ControlInv /\ \A u \in Users : ProgramInv(u) /\ AloneInv(u)

(* A load in progress has reset the CPUs it has reached.                   *)
CleanInv == ControlInv /\ CleanLoad

-----------------------------------------------------------------------------
(* The words of a write and the counters they go to.                       *)

LEMMA MachineFacts ==
  ASSUME hw \in Machines
  PROVE  /\ MaxFf \in Nat /\ MaxFf >= 2 /\ GpInit \in Nat /\ NGp \in Nat /\ FfHw \in Nat
         /\ NFf \in Nat /\ NFf <= MaxFf /\ NFf <= FfHw
  BY PmuAssumption DEF Cpuid, NGp, FfHw, NFf

LEMMA CounterKinds ==
  /\ \A i, j : Ff(i) # Gp(j) /\ (Ff(i) = Ff(j) => i = j) /\ (Gp(i) = Gp(j) => i = j) /\ Gp(i)[2] = i
  /\ \A x \in General : x \notin Fixed
  BY DEF Ff, Gp, General, Fixed

LEMMA ExportedFacts ==
  ASSUME hw \in Machines
  PROVE  /\ Exported \subseteq Counters /\ General \subseteq Exported
         /\ \A x \in Exported : x \in General <=> x \notin Fixed
         /\ Fixed \subseteq Counters
<1>1. \A i \in 0 .. NFf - 1 : i \in 0 .. FfHw - 1
  BY MachineFacts
<1>2. Exported \subseteq Counters
  BY <1>1 DEF Exported, Counters, Fixed
<1> QED
  BY <1>2, CounterKinds DEF Exported, Counters

(* s has the counters that n words from word k on reach of a range.        *)
Reach(s, k, n, first, end) ==
  LET a == IF k < first THEN first ELSE k
      b == IF k + n > end THEN end ELSE k + n
  IN  /\ s \in Seq(0 .. end - first - 1) /\ Len(s) = IF b > a THEN b - a ELSE 0
      /\ \A i \in 1 .. Len(s) : s[i] = a - first + i - 1 /\ s[i] \in 0 .. end - first - 1

LEMMA OverlapFacts ==
  ASSUME NEW k \in Nat, NEW n \in Nat, NEW first \in Nat, NEW end \in Nat
  PROVE  Reach(Overlap(k, n, first, end), k, n, first, end)
<1> DEFINE a == IF k < first THEN first ELSE k
           b == IF k + n > end THEN end ELSE k + n
           m == IF b > a THEN b - a ELSE 0
           s == Overlap(k, n, first, end)
<1>1. m \in Nat /\ a \in Nat /\ b \in Nat /\ a >= first /\ b <= end /\ m = IF b > a THEN b - a ELSE 0
  OBVIOUS
<1>2. s = [i \in 1 .. m |-> a - first + i - 1]
  BY DEF Overlap
<1>3. Reach(s, k, n, first, end) <=>
        /\ s \in Seq(0 .. end - first - 1) /\ Len(s) = m
        /\ \A i \in 1 .. Len(s) : s[i] = a - first + i - 1 /\ s[i] \in 0 .. end - first - 1
  BY DEF Reach
<1> HIDE DEF m, a, b, s
<1>4. ASSUME NEW i \in 1 .. m PROVE a - first + i - 1 \in 0 .. end - first - 1
  BY <1>1
<1>5. s \in Seq(0 .. end - first - 1) /\ Len(s) = m /\ \A i \in 1 .. m : s[i] = a - first + i - 1
  BY <1>1, <1>2, <1>4
<1> QED
  BY <1>3, <1>4, <1>5 DEF s

(* A write of n words reaches at most n counters, all of them exported.    *)
Joined(s, ff, gp) ==
  /\ s \in Seq(Exported) /\ Len(s) = Len(ff) + Len(gp)
  /\ \A j \in 1 .. Len(s) : s[j] = IF j <= Len(ff) THEN Ff(ff[j]) ELSE Gp(gp[j - Len(ff)])

LEMMA JoinedFacts ==
  ASSUME hw \in Machines, NEW ff \in Seq(0 .. NFf - 1), NEW gp \in Seq(0 .. NGp - 1),
         NEW f, f = [i \in DOMAIN ff |-> Ff(ff[i])], NEW g, g = [i \in DOMAIN gp |-> Gp(gp[i])]
  PROVE  Joined(f \o g, ff, gp)
<1>1. Len(ff) \in Nat /\ DOMAIN ff = 1 .. Len(ff) /\ \A i \in 1 .. Len(ff) : ff[i] \in 0 .. NFf - 1
  BY MachineFacts
<1>2. Len(gp) \in Nat /\ DOMAIN gp = 1 .. Len(gp) /\ \A i \in 1 .. Len(gp) : gp[i] \in 0 .. NGp - 1
  BY MachineFacts
<1>3. \A i \in 1 .. Len(ff) : Ff(ff[i]) \in Exported
  BY <1>1 DEF Exported
<1>4. \A i \in 1 .. Len(gp) : Gp(gp[i]) \in Exported
  BY <1>2 DEF Exported, General
<1>5. f \in Seq(Exported) /\ Len(f) = Len(ff) /\ \A i \in 1 .. Len(ff) : f[i] = Ff(ff[i])
  BY <1>1, <1>3
<1>6. g \in Seq(Exported) /\ Len(g) = Len(gp) /\ \A i \in 1 .. Len(gp) : g[i] = Gp(gp[i])
  BY <1>2, <1>4
<1>7. /\ f \o g \in Seq(Exported) /\ Len(f \o g) = Len(f) + Len(g)
      /\ \A j \in 1 .. Len(f) + Len(g) : (f \o g)[j] = IF j <= Len(f) THEN f[j] ELSE g[j - Len(f)]
  <2>1. \A S : f \in Seq(S) /\ g \in Seq(S) =>
          /\ f \o g \in Seq(S) /\ Len(f \o g) = Len(f) + Len(g)
          /\ \A j \in 1 .. Len(f) + Len(g) : (f \o g)[j] = IF j <= Len(f) THEN f[j] ELSE g[j - Len(f)]
    BY ConcatProperties
  <2> QED BY <1>5, <1>6, <2>1
<1>8. ASSUME NEW j \in 1 .. Len(f) + Len(g)
      PROVE  (f \o g)[j] = IF j <= Len(ff) THEN Ff(ff[j]) ELSE Gp(gp[j - Len(ff)])
  <2>1. CASE j <= Len(ff)
    BY <1>1, <1>2, <1>5, <1>6, <1>7, <2>1
  <2>2. CASE ~(j <= Len(ff))
    <3>1. j - Len(ff) \in 1 .. Len(gp)
      BY <1>1, <1>2, <1>5, <1>6, <2>2
    <3> QED BY <1>5, <1>6, <1>7, <2>2, <3>1
  <2> QED BY <2>1, <2>2
<1> QED
  BY <1>5, <1>6, <1>7, <1>8 DEF Joined

LEMMA SelectedFacts ==
  ASSUME hw \in Machines, NEW k \in Nat, NEW n \in Nat
  PROVE  \E ff \in Seq(0 .. NFf - 1), gp \in Seq(0 .. NGp - 1) :
           /\ Reach(ff, k, n, 0, NFf) /\ Reach(gp, k, n, MaxFf, MaxFf + NGp)
           /\ Joined(Selected(k, n), ff, gp) /\ Len(Selected(k, n)) <= n
<1> DEFINE ff == Overlap(k, n, 0, NFf)  gp == Overlap(k, n, MaxFf, MaxFf + NGp)
<1>1. 0 \in Nat /\ MaxFf \in Nat /\ NGp \in Nat /\ NFf \in Nat /\ NFf <= MaxFf /\ MaxFf + NGp \in Nat
  BY MachineFacts
<1>2. Reach(ff, k, n, 0, NFf) /\ Reach(gp, k, n, MaxFf, MaxFf + NGp)
  BY <1>1, OverlapFacts
<1>3. Selected(k, n) = [i \in DOMAIN ff |-> Ff(ff[i])] \o [i \in DOMAIN gp |-> Gp(gp[i])]
  BY DEF Selected
<1> HIDE DEF ff, gp
<1>4. ff \in Seq(0 .. NFf - 1) /\ gp \in Seq(0 .. NGp - 1)
  <2>1. NFf - 0 - 1 = NFf - 1 /\ MaxFf + NGp - MaxFf - 1 = NGp - 1
    BY <1>1
  <2>2. ff \in Seq(0 .. NFf - 0 - 1) /\ gp \in Seq(0 .. MaxFf + NGp - MaxFf - 1)
    BY <1>1, <1>2 DEF Reach
  <2> QED BY <2>1, <2>2
<1>5. Joined(Selected(k, n), ff, gp)
  BY <1>3, <1>4, JoinedFacts
<1>6. Len(ff) + Len(gp) <= n
  BY <1>1, <1>2 DEF Reach
<1> QED
  BY <1>2, <1>4, <1>5, <1>6 DEF Joined

LEMMA TodoFacts ==
  ASSUME hw \in Machines, NEW k \in Nat, NEW words \in Seq(Words)
  PROVE  /\ Todo(k, words) \in Seq(Entry) /\ Len(Todo(k, words)) = Len(Selected(k, Len(words)))
         /\ \A j \in 1 .. Len(Todo(k, words)) :
              Todo(k, words)[j] = [ctr |-> Selected(k, Len(words))[j], word |-> words[j]]
<1> DEFINE s == Selected(k, Len(words))
<1>1. Len(words) \in Nat /\ \A j \in 1 .. Len(words) : words[j] \in Words
  OBVIOUS
<1>2. s \in Seq(Exported) /\ Len(s) <= Len(words)
  BY <1>1, SelectedFacts DEF Joined
<1>3. Todo(k, words) = [j \in DOMAIN s |-> [ctr |-> s[j], word |-> words[j]]]
  BY DEF Todo
<1> HIDE DEF s
<1>4. Len(s) \in Nat /\ DOMAIN s = 1 .. Len(s) /\ \A j \in 1 .. Len(s) : s[j] \in Exported /\ words[j] \in Words
  BY <1>1, <1>2
<1>5. \A j \in 1 .. Len(s) : [ctr |-> s[j], word |-> words[j]] \in Entry
  BY <1>4 DEF Entry
<1>6. Todo(k, words) \in Seq(Entry) /\ Len(Todo(k, words)) = Len(s)
  BY <1>3, <1>4, <1>5
<1>7. \A j \in 1 .. Len(s) : Todo(k, words)[j] = [ctr |-> s[j], word |-> words[j]]
  BY <1>3, <1>4
<1> QED
  BY <1>6, <1>7 DEF s

(* The masks a program has read say that the words go where it means them. *)
LEMMA EnoughFacts ==
  ASSUME hw \in Machines, Enough
  PROVE  NFf = MaxFf /\ NGp >= GpInit
<1>1. MaxFf \in Nat /\ GpInit \in Nat /\ NGp \in Nat /\ NFf \in Nat /\ NFf <= MaxFf /\ MaxFf + GpInit \in Nat
  BY MachineFacts
<1>2. PICK ff \in Seq(0 .. NFf - 1), gp \in Seq(0 .. NGp - 1) :
        /\ Reach(ff, 0, MaxFf + GpInit, 0, NFf) /\ Reach(gp, 0, MaxFf + GpInit, MaxFf, MaxFf + NGp)
        /\ Joined(Selected(0, MaxFf + GpInit), ff, gp)
  BY <1>1, SelectedFacts
<1>3. Len(ff) = NFf
  BY <1>1, <1>2 DEF Reach
<1>4. Len(gp) = IF GpInit > NGp THEN NGp ELSE GpInit
  BY <1>1, <1>2 DEF Reach
<1>5. Len(ff) + Len(gp) = MaxFf + GpInit
  BY <1>2 DEF Joined, Enough
<1> QED
  BY <1>1, <1>3, <1>4, <1>5

(* The counters of a call, and the word of each.                           *)
Covers(todo, counters) == {t.ctr : t \in Range(todo)} = counters

LEMMA BasicTodo ==
  ASSUME hw \in Machines, Enough
  PROVE  /\ InitWords \in Seq(Words) /\ Todo(0, InitWords) # <<>> /\ Covers(Todo(0, InitWords), Basic)
         /\ \A t \in Range(Todo(0, InitWords)) : t.word = IF t.ctr \in Fixed THEN "on" ELSE "off"
<1> DEFINE n == MaxFf + GpInit  s == Selected(0, n)  todo == Todo(0, InitWords)
<1>1. MaxFf \in Nat /\ GpInit \in Nat /\ NGp \in Nat /\ NFf = MaxFf /\ NGp >= GpInit /\ n \in Nat /\ MaxFf >= 2
      /\ FfHw \in Nat /\ NFf <= FfHw
  BY MachineFacts, EnoughFacts
<1>2. /\ InitWords \in Seq(Words) /\ Len(InitWords) = n
      /\ \A j \in 1 .. n : InitWords[j] = IF j <= MaxFf THEN "on" ELSE "off"
  <2>1. InitWords = [j \in 1 .. n |-> IF j <= MaxFf THEN "on" ELSE "off"]
    BY DEF InitWords
  <2>2. \A j \in 1 .. n : (IF j <= MaxFf THEN "on" ELSE "off") \in Words
    BY DEF Words
  <2> HIDE DEF n
  <2> QED BY <1>1, <2>1, <2>2
<1>3. PICK ff \in Seq(0 .. NFf - 1), gp \in Seq(0 .. NGp - 1) :
        /\ Reach(ff, 0, n, 0, NFf) /\ Reach(gp, 0, n, MaxFf, MaxFf + NGp)
        /\ Joined(s, ff, gp)
  BY <1>1, SelectedFacts
<1>4. Len(ff) = MaxFf /\ \A i \in 1 .. MaxFf : ff[i] = i - 1
  BY <1>1, <1>3 DEF Reach
<1>5. Len(gp) = GpInit /\ \A i \in 1 .. GpInit : gp[i] = i - 1
  <2>1. (IF 0 < MaxFf THEN MaxFf ELSE 0) = MaxFf
        /\ (IF 0 + n > MaxFf + NGp THEN MaxFf + NGp ELSE 0 + n) = MaxFf + GpInit
    BY <1>1
  <2>2. Len(gp) = GpInit
    BY <1>1, <1>3, <2>1 DEF Reach
  <2>3. ASSUME NEW i \in 1 .. GpInit PROVE gp[i] = i - 1
    <3>1. gp[i] = MaxFf - MaxFf + i - 1
      BY <1>3, <2>1, <2>2 DEF Reach
    <3> QED BY <1>1, <3>1
  <2> QED BY <2>2, <2>3
<1>6. Len(s) = n /\ \A j \in 1 .. n : s[j] = IF j <= MaxFf THEN Ff(j - 1) ELSE Gp(j - MaxFf - 1)
  <2>1. Len(s) = n
    BY <1>3, <1>4, <1>5 DEF Joined
  <2>2. ASSUME NEW j \in 1 .. n PROVE s[j] = IF j <= MaxFf THEN Ff(j - 1) ELSE Gp(j - MaxFf - 1)
    <3>1. s[j] = IF j <= MaxFf THEN Ff(ff[j]) ELSE Gp(gp[j - MaxFf])
      BY <1>3, <1>4, <2>1 DEF Joined
    <3>2. CASE j <= MaxFf
      BY <1>1, <1>4, <3>1, <3>2
    <3>3. CASE ~(j <= MaxFf)
      <4>1. j - MaxFf \in 1 .. GpInit
        BY <1>1, <3>3
      <4> QED BY <1>5, <3>1, <3>3, <4>1
    <3> QED BY <3>2, <3>3
  <2> QED BY <2>1, <2>2
<1>7. /\ todo \in Seq(Entry) /\ Len(todo) = n
      /\ \A j \in 1 .. n : todo[j] = [ctr |-> s[j], word |-> InitWords[j]]
  <2>1. 0 \in Nat
    OBVIOUS
  <2>2. Selected(0, Len(InitWords)) = s
    BY <1>2
  <2> HIDE DEF n, s
  <2>3. /\ todo \in Seq(Entry) /\ Len(todo) = Len(Selected(0, Len(InitWords)))
        /\ \A j \in 1 .. Len(todo) : todo[j] = [ctr |-> Selected(0, Len(InitWords))[j], word |-> InitWords[j]]
    BY <1>2, <2>1, TodoFacts
  <2> HIDE DEF todo
  <2> QED BY <1>6, <2>2, <2>3
<1> HIDE DEF n, s, todo
<1>8. DOMAIN todo = 1 .. n /\ Range(todo) = {todo[j] : j \in 1 .. n}
  <2>1. DOMAIN todo = 1 .. n
    BY <1>7
  <2> QED BY <2>1, Zenon DEF Range
<1>9. ASSUME NEW t \in Range(todo) PROVE t.ctr \in Basic /\ t.word = IF t.ctr \in Fixed THEN "on" ELSE "off"
  <2>1. PICK j \in 1 .. n : t = todo[j]
    BY <1>8
  <2>2. t.ctr = s[j] /\ t.word = InitWords[j]
    BY <1>7, <2>1
  <2>3. CASE j <= MaxFf
    <3>1. t.ctr = Ff(j - 1) /\ t.word = "on" /\ j - 1 \in 0 .. MaxFf - 1 /\ j - 1 \in 0 .. FfHw - 1
      BY <1>1, <1>2, <1>6, <2>2, <2>3
    <3> QED BY <3>1 DEF Basic, Fixed
  <2>4. CASE ~(j <= MaxFf)
    <3>1. t.ctr = Gp(j - MaxFf - 1) /\ t.word = "off" /\ j - MaxFf - 1 \in 0 .. GpInit - 1
      <4>1. n = MaxFf + GpInit
        BY DEF n
      <4>2. j - MaxFf - 1 \in 0 .. GpInit - 1
        BY <1>1, <2>4, <4>1
      <4> QED BY <1>2, <1>6, <2>2, <2>4, <4>2
    <3>2. t.ctr \notin Fixed
      BY <3>1, CounterKinds DEF Fixed
    <3> QED BY <3>1, <3>2 DEF Basic
  <2> QED BY <2>3, <2>4
<1>10. ASSUME NEW x \in Basic PROVE \E t \in Range(todo) : t.ctr = x
  <2>1. CASE \E i \in 0 .. MaxFf - 1 : x = Ff(i)
    <3>1. PICK i \in 0 .. MaxFf - 1 : x = Ff(i)
      BY <2>1
    <3>2. i + 1 \in 1 .. n /\ i + 1 <= MaxFf /\ i + 1 - 1 = i
      BY <1>1 DEF n
    <3>3. todo[i + 1].ctr = x /\ todo[i + 1] \in Range(todo)
      BY <1>6, <1>7, <1>8, <3>1, <3>2
    <3> QED BY <3>3
  <2>2. CASE \E i \in 0 .. GpInit - 1 : x = Gp(i)
    <3>1. PICK i \in 0 .. GpInit - 1 : x = Gp(i)
      BY <2>2
    <3>2. PICK j \in 1 .. n : j = i + MaxFf + 1
      BY <1>1 DEF n
    <3>3. ~(j <= MaxFf) /\ j - MaxFf - 1 = i
      BY <1>1, <3>2
    <3>4. todo[j].ctr = x /\ todo[j] \in Range(todo)
      BY <1>6, <1>7, <1>8, <3>1, <3>3
    <3> QED BY <3>4
  <2> QED BY <2>1, <2>2 DEF Basic
<1>11. Covers(todo, Basic)
  BY <1>9, <1>10 DEF Covers
<1>12. todo # <<>>
  BY <1>1, <1>7 DEF n
<1> QED
  BY <1>2, <1>9, <1>11, <1>12 DEF todo

LEMMA ListedTodo ==
  ASSUME hw \in Machines, Enough, NEW e \in Seq(Words)
  PROVE  /\ Covers(Todo(MaxFf, e), FirstGp(Len(e)))
         /\ \A t \in Range(Todo(MaxFf, e)) : t.word = e[t.ctr[2] + 1]
<1>0. NGp \in Nat
  BY MachineFacts
<1> DEFINE n == Len(e)  m == IF n <= NGp THEN n ELSE NGp  s == Selected(MaxFf, n)  todo == Todo(MaxFf, e)
<1>1. MaxFf \in Nat /\ GpInit \in Nat /\ NGp \in Nat /\ NFf = MaxFf /\ n \in Nat
      /\ m \in Nat /\ m = IF n <= NGp THEN n ELSE NGp
  BY MachineFacts, EnoughFacts
<1>2. PICK ff \in Seq(0 .. NFf - 1), gp \in Seq(0 .. NGp - 1) :
        /\ Reach(ff, MaxFf, n, 0, NFf) /\ Reach(gp, MaxFf, n, MaxFf, MaxFf + NGp)
        /\ Joined(s, ff, gp)
  BY <1>1, SelectedFacts
<1>3. Len(ff) = 0
  BY <1>1, <1>2 DEF Reach
<1>4. Len(gp) = m /\ \A i \in 1 .. m : gp[i] = i - 1
  BY <1>1, <1>2 DEF Reach
<1>5. Len(s) = m
  BY <1>1, <1>2, <1>3, <1>4 DEF Joined
<1>6. ASSUME NEW j \in 1 .. m PROVE s[j] = Gp(j - 1)
  <2>1. ~(j <= 0) /\ j - 0 = j
    BY <1>1
  <2>2. s[j] = IF j <= 0 THEN Ff(ff[j]) ELSE Gp(gp[j - 0])
    BY <1>2, <1>3, <1>5 DEF Joined
  <2> QED BY <1>4, <2>1, <2>2
<1>7. /\ todo \in Seq(Entry) /\ Len(todo) = m
      /\ \A j \in 1 .. m : todo[j] = [ctr |-> s[j], word |-> e[j]]
  <2>1. /\ todo \in Seq(Entry) /\ Len(todo) = Len(Selected(MaxFf, Len(e)))
        /\ \A j \in 1 .. Len(todo) : todo[j] = [ctr |-> Selected(MaxFf, Len(e))[j], word |-> e[j]]
    BY <1>0, <1>1, TodoFacts
  <2> QED BY <1>5, <2>1
<1> HIDE DEF n, m, s, todo
<1>8. DOMAIN todo = 1 .. m /\ Range(todo) = {todo[j] : j \in 1 .. m}
  <2>1. DOMAIN todo = 1 .. m
    BY <1>7
  <2> QED BY <2>1 DEF Range
<1>9. ASSUME NEW j \in 1 .. m
      PROVE  todo[j].ctr = Gp(j - 1) /\ todo[j].word = e[j] /\ Gp(j - 1)[2] = j - 1 /\ j - 1 \in 0 .. m - 1
             /\ j - 1 + 1 = j
  <2>1. j - 1 \in 0 .. m - 1 /\ j - 1 + 1 = j
    BY <1>1
  <2>2. Gp(j - 1)[2] = j - 1
    BY DEF Gp
  <2>3. todo[j] = [ctr |-> s[j], word |-> e[j]]
    BY <1>7
  <2>4. todo[j].ctr = s[j] /\ todo[j].word = e[j]
    BY <2>3
  <2> QED BY <1>6, <2>1, <2>2, <2>4
<1>10. ASSUME NEW i \in 0 .. m - 1 PROVE \E t \in Range(todo) : t.ctr = Gp(i)
  <2>1. PICK j \in 1 .. m : j - 1 = i
    <3>1. i + 1 \in 1 .. m /\ (i + 1) - 1 = i
      BY <1>1
    <3> QED BY <3>1
  <2> QED BY <1>8, <1>9, <2>1
<1>11. Covers(todo, FirstGp(n))
  <2>1. {k \in 0 .. n - 1 : k < NGp} = 0 .. m - 1
    <3>1. \A k \in 0 .. n - 1 : k < NGp <=> k \in 0 .. m - 1
      BY <1>1
    <3>2. \A k \in 0 .. m - 1 : k \in 0 .. n - 1
      BY <1>1
    <3> QED BY <3>1, <3>2, Zenon
  <2>2. Covers(todo, {Gp(i) : i \in 0 .. m - 1})
    <3>1. \A t \in Range(todo) : \E i \in 0 .. m - 1 : t.ctr = Gp(i)
      BY <1>8, <1>9
    <3> QED BY <1>10, <3>1 DEF Covers
  <2> QED BY <2>1, <2>2 DEF FirstGp
<1>12. \A t \in Range(todo) : t.word = e[t.ctr[2] + 1]
  BY <1>8, <1>9
<1> QED
  BY <1>11, <1>12 DEF n, todo

-----------------------------------------------------------------------------
(* The steps of a handler.                                                 *)

(* A call goes on with a step, or with its next counter.                   *)
CallAt(u, step, tmp) == [kind |-> call[u].kind, todo |-> call[u].todo, step |-> step, tmp |-> tmp]
CallBehind(u) ==
  IF Len(call[u].todo) = 1 THEN NoCall
  ELSE [kind |-> call[u].kind, todo |-> Tail(call[u].todo),
        step |-> IF call[u].step = "cnt" THEN "cnt" ELSE "dis", tmp |-> {}]
Move(u, x) == call' = [call EXCEPT ![u] = x]

LEMMA NoCallFacts ==
  NoCall \notin Calls /\ NoCall.step = "none" /\ NoCall.todo = <<>> /\ CallOK(NoCall)
<1>1. NoCall.kind = "none" /\ NoCall.step = "none" /\ NoCall.todo = <<>>
  BY DEF NoCall
<1>2. \A x \in Calls : x.kind # "none"
  BY DEF Calls
<1> QED
  BY <1>1, <1>2 DEF CallOK

LEMMA InCall ==
  ASSUME CallInv, NEW u \in Users, call[u] # NoCall
  PROVE  /\ call[u] \in Calls /\ call[u].todo \in Seq(Entry) /\ call[u].todo # <<>> /\ CallOK(call[u])
         /\ Head(call[u].todo) \in Range(call[u].todo)
         /\ Head(call[u].todo) \in Entry /\ Ctr(u) \in Exported /\ Word(u) \in Words
<1>1. call[u] \in Calls /\ call[u].todo # <<>> /\ CallOK(call[u])
  BY DEF CallInv, CallOK
<1>2. call[u].todo \in Seq(Entry)
  BY <1>1 DEF Calls
<1>3. Head(call[u].todo) \in Entry /\ Head(call[u].todo) \in Range(call[u].todo)
  <2>1. ASSUME NEW s \in Seq(Entry), s # <<>> PROVE Head(s) \in Entry /\ Head(s) \in Range(s)
    <3>1. 1 \in DOMAIN s /\ Head(s) = s[1] /\ s[1] \in Entry
      BY <2>1
    <3> QED BY <3>1 DEF Range
  <2> QED BY <1>1, <1>2, <2>1
<1> QED
  BY <1>1, <1>2, <1>3 DEF Entry, Ctr, Word

LEMMA CallFields ==
  ASSUME NEW x \in Calls, NEW todo, NEW step, NEW tmp
  PROVE  /\ [x EXCEPT !.step = step, !.tmp = tmp] = [kind |-> x.kind, todo |-> x.todo, step |-> step, tmp |-> tmp]
         /\ [x EXCEPT !.todo = todo, !.tmp = tmp, !.step = step]
              = [kind |-> x.kind, todo |-> todo, step |-> step, tmp |-> tmp]
<1> DEFINE y == [x EXCEPT !.step = step]
           z == [x EXCEPT !.todo = todo]
           w == [z EXCEPT !.tmp = tmp]
<1>1. /\ y = [kind |-> x.kind, todo |-> x.todo, step |-> step, tmp |-> x.tmp]
      /\ z = [kind |-> x.kind, todo |-> todo, step |-> x.step, tmp |-> x.tmp]
  BY DEF Calls
<1>2. [x EXCEPT !.step = step, !.tmp = tmp] = [y EXCEPT !.tmp = tmp]
  OBVIOUS
<1>3. [x EXCEPT !.todo = todo, !.tmp = tmp, !.step = step] = [w EXCEPT !.step = step]
  OBVIOUS
<1> HIDE DEF y, z
<1>4. [y EXCEPT !.tmp = tmp] = [kind |-> x.kind, todo |-> x.todo, step |-> step, tmp |-> tmp]
  BY <1>1
<1>5. w = [kind |-> x.kind, todo |-> todo, step |-> x.step, tmp |-> tmp]
  BY <1>1
<1> HIDE DEF w
<1>6. [w EXCEPT !.step = step] = [kind |-> x.kind, todo |-> todo, step |-> step, tmp |-> tmp]
  BY <1>5
<1> QED
  BY <1>2, <1>3, <1>4, <1>6

LEMMA GotoMove ==
  ASSUME CallInv, NEW u \in Users, call[u] # NoCall, NEW step, NEW tmp, Goto(u, step, tmp)
  PROVE  Move(u, CallAt(u, step, tmp))
<1>1. call[u] \in Calls /\ call \in [Users -> Calls \cup {NoCall}]
  BY InCall DEF CallInv
<1>2. call' = [call EXCEPT ![u] = [call[u] EXCEPT !.step = step, !.tmp = tmp]]
  BY <1>1 DEF Goto
<1>3. [call[u] EXCEPT !.step = step, !.tmp = tmp] = CallAt(u, step, tmp)
  BY <1>1, CallFields DEF CallAt
<1> QED
  BY <1>2, <1>3 DEF Move

LEMMA AdvanceMove ==
  ASSUME NEW u \in Users, Advance(u)
  PROVE  Move(u, CallBehind(u))
<1>1. [kind |-> call[u].kind, todo |-> Tail(call[u].todo), tmp |-> {},
       step |-> IF call[u].step = "cnt" THEN "cnt" ELSE "dis"]
      = [kind |-> call[u].kind, todo |-> Tail(call[u].todo),
         step |-> IF call[u].step = "cnt" THEN "cnt" ELSE "dis", tmp |-> {}]
  OBVIOUS
<1> QED
  BY <1>1 DEF Advance, Move, CallBehind

(* The steps of a handler, by the step it is at and the way it goes on.    *)
MoveDis(u) ==
  call[u].step = "dis" /\ Move(u, CallAt(u, "disw", glob[Cpu(u)])) /\ UNCHANGED machine
MoveDisw(u) ==
  /\ call[u].step = "disw" /\ Move(u, CallAt(u, "cfg", {}))
  /\ glob' = [glob EXCEPT ![Cpu(u)] = (@ \ Exported) \cup (call[u].tmp \cap Exported)]
  /\ UNCHANGED <<fctl, sel, old>>
MoveCfg(u) ==
  /\ call[u].step = "cfg" /\ Ctr(u) \in Fixed
  /\ Move(u, CallAt(u, "cfgw", fctl[Cpu(u)])) /\ UNCHANGED machine
MoveCfgw(u) ==
  /\ call[u].step = "cfgw" /\ Move(u, CallAt(u, "test", {}))
  /\ fctl' = [fctl EXCEPT ![Cpu(u)] = (@ \ Exported) \cup (Field(u) \cap Exported)]
  /\ old' = [old EXCEPT ![Cpu(u)] = @ \cup {Ctr(u)}] /\ UNCHANGED <<glob, sel>>
MoveSel(u) ==
  /\ call[u].step = "cfg" /\ Ctr(u) \in General /\ Move(u, CallAt(u, "test", {}))
  /\ sel' = [sel EXCEPT ![Cpu(u)][Ctr(u)] = GpCfg(Ctr(u)[2], Word(u))]
  /\ old' = [old EXCEPT ![Cpu(u)] = @ \cup {Ctr(u)}] /\ UNCHANGED <<glob, fctl>>
MoveOn(u) ==
  call[u].step = "test" /\ Enables(Cpu(u), Ctr(u)) /\ Move(u, CallAt(u, "en", {})) /\ UNCHANGED machine
MoveOff(u) ==
  call[u].step = "test" /\ ~Enables(Cpu(u), Ctr(u)) /\ Move(u, CallBehind(u)) /\ UNCHANGED machine
MoveEn(u) ==
  /\ call[u].step = "en" /\ Move(u, CallAt(u, "enw", glob[Cpu(u)] \cup {Ctr(u)}))
  /\ UNCHANGED machine
MoveEnw(u) ==
  /\ call[u].step = "enw" /\ Move(u, CallBehind(u))
  /\ glob' = [glob EXCEPT ![Cpu(u)] = (@ \ Exported) \cup (call[u].tmp \cap Exported)]
  /\ UNCHANGED <<fctl, sel, old>>
MoveCnt(u) ==
  /\ call[u].step = "cnt" /\ Move(u, CallBehind(u))
  /\ old' = [old EXCEPT ![Cpu(u)] = @ \ {Ctr(u)}] /\ UNCHANGED <<glob, fctl, sel>>
Moves(u) ==
  \/ MoveDis(u) \/ MoveDisw(u) \/ MoveCfg(u) \/ MoveCfgw(u) \/ MoveSel(u)
  \/ MoveOn(u) \/ MoveOff(u) \/ MoveEn(u) \/ MoveEnw(u) \/ MoveCnt(u)

LEMMA HandlerMoves ==
  ASSUME CallInv, NEW u \in Users, Handler(u)
  PROVE  call[u] # NoCall /\ MayRun(u) /\ Kept /\ Moves(u)
<1>1. Kept /\ call[u].step # "none" /\ MayRun(u)
  BY DEF Handler, ReadGlobal, ReadField, TestCfg, WriteGlobal, WriteCfg, WriteCount, At
<1>2. call[u] # NoCall
  BY <1>1, NoCallFacts
<1>3. \A step, tmp : Goto(u, step, tmp) => Move(u, CallAt(u, step, tmp))
  BY <1>2, GotoMove
<1>4. Advance(u) => Move(u, CallBehind(u))
  BY AdvanceMove
<1> SUFFICES Moves(u)
  BY <1>1, <1>2
<1>5. CASE ReadGlobal(u) /\ UNCHANGED machine
  <2>1. CASE At(u, "dis") /\ Goto(u, "disw", glob[Cpu(u)])
    BY <1>3, <1>5, <2>1 DEF At, MoveDis, Moves
  <2>2. CASE At(u, "en") /\ Goto(u, "enw", glob[Cpu(u)] \cup {Ctr(u)})
    BY <1>3, <1>5, <2>2 DEF At, MoveEn, Moves
  <2> QED BY <1>5, <2>1, <2>2 DEF ReadGlobal
<1>6. CASE ReadField(u) /\ UNCHANGED machine
  BY <1>3, <1>6 DEF ReadField, At, MoveCfg, Moves
<1>7. CASE TestCfg(u) /\ UNCHANGED machine
  <2>1. CASE Enables(Cpu(u), Ctr(u))
    BY <1>3, <1>7, <2>1 DEF TestCfg, At, MoveOn, Moves
  <2>2. CASE ~Enables(Cpu(u), Ctr(u))
    BY <1>4, <1>7, <2>2 DEF TestCfg, At, MoveOff, Moves
  <2> QED BY <2>1, <2>2
<1>8. CASE WriteGlobal(u) /\ UNCHANGED <<fctl, sel, old>>
  <2>1. CASE At(u, "disw") /\ Goto(u, "cfg", {})
    BY <1>3, <1>8, <2>1 DEF WriteGlobal, At, MoveDisw, Moves
  <2>2. CASE At(u, "enw") /\ Advance(u)
    BY <1>4, <1>8, <2>2 DEF WriteGlobal, At, MoveEnw, Moves
  <2> QED BY <1>8, <2>1, <2>2 DEF WriteGlobal
<1>9. CASE WriteCfg(u) /\ UNCHANGED glob
  <2>1. CASE At(u, "cfgw") /\ fctl' = [fctl EXCEPT ![Cpu(u)] = (@ \ Exported) \cup (Field(u) \cap Exported)]
             /\ UNCHANGED sel
    BY <1>3, <1>9, <2>1 DEF WriteCfg, At, MoveCfgw, Moves
  <2>2. CASE At(u, "cfg") /\ Ctr(u) \in General
             /\ sel' = [sel EXCEPT ![Cpu(u)][Ctr(u)] = GpCfg(Ctr(u)[2], Word(u))]
             /\ UNCHANGED fctl
    BY <1>3, <1>9, <2>2 DEF WriteCfg, At, MoveSel, Moves
  <2> QED BY <1>9, <2>1, <2>2 DEF WriteCfg
<1>10. CASE WriteCount(u) /\ UNCHANGED <<glob, fctl, sel>>
  BY <1>4, <1>10 DEF WriteCount, At, MoveCnt, Moves
<1> QED
  BY <1>1, <1>2, <1>5, <1>6, <1>7, <1>8, <1>9, <1>10 DEF Handler

-----------------------------------------------------------------------------
(* Types, descriptors and calls.                                           *)

LEMMA SameMachine ==
  ASSUME hw' = hw
  PROVE  /\ Fixed' = Fixed /\ General' = General /\ Counters' = Counters /\ Exported' = Exported
         /\ Entry' = Entry /\ Calls' = Calls /\ \A x : CallOK(x) => CallOK(x)'
<1>1. /\ Fixed' = Fixed /\ General' = General /\ Counters' = Counters /\ Exported' = Exported
  BY DEF Fixed, General, Counters, Exported, FfHw, NGp, NFf
<1>2. Entry' = Entry /\ Calls' = Calls
  BY <1>1 DEF Entry, Calls
<1> QED
  BY <1>1, <1>2 DEF CallOK

LEMMA NameFacts ==
  /\ FileNames = {"cfg", "msk", "cnt", "cr4"}
  /\ DOMAIN Following = {"ts_cfg", "ts_cnt", "ev_cfg", "ev_cnt"}
  /\ \A f \in FileNames : NextFile[f] \in FileNames \cup {"pce"}
  /\ Following.ts_cfg = "ts_cnt" /\ Following.ts_cnt = "ev_cfg"
  /\ Following.ev_cfg = "ev_cnt" /\ Following.ev_cnt = "measure"
  /\ Closed \in [FileNames -> {"none", "live", "dead"}] /\ \A f \in FileNames : Closed[f] = "none"
<1>1. FileNames = {"cfg", "msk", "cnt", "cr4"}
  BY DEF FileNames, NextFile
<1>2. DOMAIN Following = {"ts_cfg", "ts_cnt", "ev_cfg", "ev_cnt"}
  BY DEF Following
<1>3. NextFile.cfg = "msk" /\ NextFile.msk = "cnt" /\ NextFile.cnt = "cr4" /\ NextFile.cr4 = "pce"
  BY DEF NextFile
<1>4. /\ Following.ts_cfg = "ts_cnt" /\ Following.ts_cnt = "ev_cfg"
      /\ Following.ev_cfg = "ev_cnt" /\ Following.ev_cnt = "measure"
  BY DEF Following
<1>5. Closed \in [FileNames -> {"none", "live", "dead"}] /\ \A f \in FileNames : Closed[f] = "none"
  BY DEF Closed
<1> QED
  BY <1>1, <1>2, <1>3, <1>4, <1>5

LEMMA CallTyped ==
  ASSUME Typed, CallInv
  PROVE  TypeOK
<1> SUFFICES ASSUME NEW u \in Users, call[u] # NoCall
             PROVE  /\ call[u].todo # <<>> /\ Ctr(u) \in Exported
                    /\ call[u].step \in {"dis", "disw", "cfg", "cfgw", "test", "en", "enw", "cnt"}
                    /\ call[u].tmp # {} => call[u].step \in {"disw", "cfgw", "enw"}
  BY DEF TypeOK
<1> QED
  BY InCall DEF Calls, CallOK, Steps

LEMMA CallStays ==
  ASSUME CallInv, hw' = hw, call' = call
  PROVE  CallInv'
  BY SameMachine DEF CallInv

LEMMA CallMoves ==
  ASSUME CallInv, hw' = hw, NEW u \in Users, NEW x, x \in Calls \cup {NoCall}, CallOK(x), Move(u, x)
  PROVE  CallInv'
<1>1. call' \in [Users -> Calls \cup {NoCall}] /\ \A v \in Users : call'[v] = IF v = u THEN x ELSE call[v]
  BY DEF CallInv, Move
<1>2. \A v \in Users : CallOK(call'[v])
  BY <1>1 DEF CallInv
<1> QED
  BY <1>1, <1>2, SameMachine DEF CallInv

(* Where a handler goes next is a call again.                              *)
LEMMA NextCalls ==
  ASSUME Typed, CallInv, NEW u \in Users, call[u] # NoCall
  PROVE  /\ \A tmp \in SUBSET Counters, step \in Steps :
              /\ step = "cnt" <=> call[u].kind = "cnt"
              /\ tmp # {} => step \in {"disw", "cfgw", "enw"}
              /\ step = "cfgw" => Ctr(u) \in Fixed /\ tmp \subseteq Fixed
              => CallAt(u, step, tmp) \in Calls /\ CallOK(CallAt(u, step, tmp))
         /\ CallBehind(u) \in Calls \cup {NoCall} /\ CallOK(CallBehind(u))
<1> DEFINE k == call[u].kind  todo == call[u].todo  s == IF call[u].step = "cnt" THEN "cnt" ELSE "dis"
<1>1. /\ k \in {"cfg", "cnt"} /\ todo \in Seq(Entry) /\ todo # <<>> /\ Ctr(u) = Head(todo).ctr
      /\ call[u].step = "cnt" <=> k = "cnt"
  BY InCall DEF Calls, CallOK, Ctr
<1>2. ASSUME NEW tmp \in SUBSET Counters, NEW step \in Steps,
             step = "cnt" <=> k = "cnt", tmp # {} => step \in {"disw", "cfgw", "enw"},
             step = "cfgw" => Ctr(u) \in Fixed /\ tmp \subseteq Fixed
      PROVE  CallAt(u, step, tmp) \in Calls /\ CallOK(CallAt(u, step, tmp))
  <2> DEFINE x == CallAt(u, step, tmp)
  <2>1. x = [kind |-> k, todo |-> todo, step |-> step, tmp |-> tmp]
    BY DEF CallAt
  <2> HIDE DEF x, k, todo
  <2>2. x.kind = k /\ x.todo = todo /\ x.step = step /\ x.tmp = tmp /\ x \in Calls
    BY <1>1, <2>1 DEF Calls
  <2> QED BY <1>1, <1>2, <2>2 DEF x, CallOK
<1>3. CallBehind(u) \in Calls \cup {NoCall} /\ CallOK(CallBehind(u))
  <2>1. CASE Len(todo) = 1
    BY <2>1, NoCallFacts DEF CallBehind
  <2>2. CASE Len(todo) # 1
    <3> DEFINE x == CallBehind(u)
    <3>1. x = [kind |-> k, todo |-> Tail(todo), step |-> s, tmp |-> {}]
      BY <2>2 DEF CallBehind
    <3> HIDE DEF x, k, todo
    <3>2. Tail(todo) \in Seq(Entry) /\ Tail(todo) # <<>>
      <4>1. Len(todo) \in Nat /\ Len(todo) # 0 /\ Len(todo) - 1 # 0
        BY <1>1, <2>2, EmptySeq
      <4>2. Tail(todo) \in Seq(Entry) /\ Len(Tail(todo)) = Len(todo) - 1
        BY <1>1, HeadTailProperties
      <4> QED BY <4>1, <4>2
    <3>3. s \in Steps /\ s # "cfgw" /\ (s = "cnt" <=> k = "cnt")
      BY <1>1 DEF Steps
    <3> HIDE DEF s
    <3>4. x.kind = k /\ x.todo = Tail(todo) /\ x.step = s /\ x.tmp = {} /\ x \in Calls
      BY <1>1, <3>1, <3>2, <3>3 DEF Calls
    <3> QED BY <3>2, <3>3, <3>4 DEF x, CallOK
  <2> QED BY <2>1, <2>2
<1> QED
  BY <1>2, <1>3

LEMMA HandlerCall ==
  ASSUME Typed, CallInv, NEW u \in Users, Handler(u)
  PROVE  CallInv'
<1>1. call[u] # NoCall /\ Moves(u) /\ hw' = hw
  BY HandlerMoves DEF Kept
<1>2. /\ glob[Cpu(u)] \in SUBSET Counters /\ fctl[Cpu(u)] \in SUBSET Fixed /\ fctl[Cpu(u)] \in SUBSET Counters
      /\ Ctr(u) \in Counters /\ glob[Cpu(u)] \cup {Ctr(u)} \in SUBSET Counters
  <2>1. Cpu(u) \in Cpus
    BY PmuAssumption DEF Cpu
  <2> QED BY <1>1, <2>1, InCall, ExportedFacts DEF Typed
<1>3. call[u].step = "cnt" <=> call[u].kind = "cnt"
  BY <1>1, InCall DEF CallOK
<1>4. \A tmp \in SUBSET Counters, step \in Steps :
        /\ step # "cnt" /\ call[u].step # "cnt"
        /\ tmp # {} => step \in {"disw", "cfgw", "enw"}
        /\ step = "cfgw" => Ctr(u) \in Fixed /\ tmp \subseteq Fixed
        /\ Move(u, CallAt(u, step, tmp))
        => CallInv'
  BY <1>1, <1>3, NextCalls, CallMoves
<1>5. Move(u, CallBehind(u)) => CallInv'
  BY <1>1, NextCalls, CallMoves
<1>6. Steps = {"dis", "disw", "cfg", "cfgw", "test", "en", "enw", "cnt"} /\ {} \in SUBSET Counters
  BY DEF Steps
<1>7. CASE MoveDis(u)
  BY <1>2, <1>4, <1>6, <1>7 DEF MoveDis
<1>8. CASE MoveDisw(u)
  BY <1>4, <1>6, <1>8 DEF MoveDisw
<1>9. CASE MoveCfg(u)
  BY <1>2, <1>4, <1>6, <1>9 DEF MoveCfg
<1>10. CASE MoveCfgw(u) \/ MoveSel(u) \/ MoveOn(u)
  BY <1>4, <1>6, <1>10 DEF MoveCfgw, MoveSel, MoveOn
<1>11. CASE MoveOff(u) \/ MoveEnw(u) \/ MoveCnt(u)
  BY <1>5, <1>11 DEF MoveOff, MoveEnw, MoveCnt
<1>12. CASE MoveEn(u)
  BY <1>2, <1>4, <1>6, <1>12 DEF MoveEn
<1> QED
  BY <1>1, <1>7, <1>8, <1>9, <1>10, <1>11, <1>12 DEF Moves

(* The registers hold sets of counters and words.                          *)
Registers ==
  /\ glob \in [Cpus -> SUBSET Counters] /\ fctl \in [Cpus -> SUBSET Fixed]
  /\ sel \in [Cpus -> [General -> Words]] /\ old \in [Cpus -> SUBSET Counters]

LEMMA HandlerRegisters ==
  ASSUME Typed, CallInv, NEW u \in Users, Handler(u)
  PROVE  Registers'
<1>1. call[u] # NoCall /\ Moves(u) /\ hw' = hw
  BY HandlerMoves DEF Kept
<1>2. Registers /\ Cpu(u) \in Cpus
  BY PmuAssumption DEF Typed, Registers, Cpu
<1>3. /\ Ctr(u) \in Counters /\ Word(u) \in Words /\ Exported \subseteq Counters
      /\ call[u].tmp \subseteq Counters
  BY <1>1, InCall, ExportedFacts DEF Calls, Typed
<1>4. UNCHANGED machine => Registers'
  BY <1>1, <1>2, SameMachine DEF Registers, machine
<1>5. CASE MoveDisw(u) \/ MoveEnw(u)
  <2>1. glob' \in [Cpus -> SUBSET Counters]
    BY <1>2, <1>3, <1>5 DEF Registers, MoveDisw, MoveEnw
  <2>2. fctl' = fctl /\ sel' = sel /\ old' = old
    BY <1>5 DEF MoveDisw, MoveEnw
  <2> QED BY <1>1, <1>2, <2>1, <2>2, SameMachine DEF Registers
<1>6. CASE MoveCfgw(u)
  <2>1. Ctr(u) \in Fixed /\ call[u].tmp \subseteq Fixed
    BY <1>1, <1>6, InCall DEF MoveCfgw, CallOK, Ctr
  <2>2. Field(u) \subseteq Fixed
    BY <2>1 DEF Field
  <2>3. fctl' \in [Cpus -> SUBSET Fixed] /\ old' \in [Cpus -> SUBSET Counters]
    BY <1>2, <1>3, <1>6, <2>2 DEF Registers, MoveCfgw
  <2>4. glob' = glob /\ sel' = sel
    BY <1>6 DEF MoveCfgw
  <2> QED BY <1>1, <1>2, <2>3, <2>4, SameMachine DEF Registers
<1>7. CASE MoveSel(u)
  <2>1. GpCfg(Ctr(u)[2], Word(u)) \in Words
    BY <1>3 DEF GpCfg, Words
  <2>2. sel' \in [Cpus -> [General -> Words]] /\ old' \in [Cpus -> SUBSET Counters]
    BY <1>2, <1>3, <1>7, <2>1 DEF Registers, MoveSel
  <2>3. glob' = glob /\ fctl' = fctl
    BY <1>7 DEF MoveSel
  <2> QED BY <1>1, <1>2, <2>2, <2>3, SameMachine DEF Registers
<1>8. CASE MoveCnt(u)
  <2>1. old' \in [Cpus -> SUBSET Counters]
    BY <1>2, <1>3, <1>8 DEF Registers, MoveCnt
  <2>2. glob' = glob /\ fctl' = fctl /\ sel' = sel
    BY <1>8 DEF MoveCnt
  <2> QED BY <1>1, <1>2, <2>1, <2>2, SameMachine DEF Registers
<1>9. CASE MoveDis(u) \/ MoveCfg(u) \/ MoveOn(u) \/ MoveOff(u) \/ MoveEn(u)
  BY <1>4, <1>9 DEF MoveDis, MoveCfg, MoveOn, MoveOff, MoveEn
<1> QED
  BY <1>1, <1>5, <1>6, <1>7, <1>8, <1>9 DEF Moves

LEMMA ResetRegisters ==
  ASSUME Typed, NEW c \in Cpus, Reset(c)
  PROVE  Registers'
<1>1. Registers /\ hw' = hw
  BY DEF Typed, Registers, Reset
<1>2. glob' \in [Cpus -> SUBSET Counters] /\ fctl' \in [Cpus -> SUBSET Fixed]
  BY <1>1 DEF Registers, Reset
<1>3. old' \in [Cpus -> SUBSET Counters]
  BY <1>1 DEF Registers, Reset
<1>4. "off" \in Words
  BY DEF Words
<1>5. sel' \in [Cpus -> [General -> Words]]
  BY <1>1, <1>4 DEF Registers, Reset
<1> QED
  BY <1>1, <1>2, <1>3, <1>5, SameMachine DEF Registers

LEMMA InitControl ==
  ASSUME Init
  PROVE  ControlInv
<1>1. hw \in Machines /\ MaxRuns \in Nat /\ MaxLoads \in Nat
  BY PmuAssumption DEF Init
<1>2. Registers
  <2>1. PICK on \in {{}, Counters} :
          /\ glob = [c \in Cpus |-> on] /\ fctl = [c \in Cpus |-> on \cap Fixed]
          /\ sel = [c \in Cpus |-> [g \in General |-> IF g \in on THEN "on" ELSE "off"]]
    BY DEF Init
  <2>2. \A g \in General : (IF g \in on THEN "on" ELSE "off") \in Words
    BY DEF Words
  <2>3. old = [c \in Cpus |-> Counters]
    BY DEF Init
  <2> QED BY <2>1, <2>2, <2>3 DEF Registers
<1>3. fd \in [Users -> [FileNames -> {"none", "live", "dead"}]]
      /\ \A u \in Users, f \in FileNames : fd[u][f] = "none"
  BY NameFacts DEF Init
<1>4. Typed
  <2>1. evs \in [Users -> EventSets \cup {<<>>}] /\ alone \in [Users -> BOOLEAN]
    BY DEF Init
  <2>2. pc \in [Users -> {"idle", "pce", "masks", "measure", "fault"} \cup FileNames \cup DOMAIN Following]
    BY DEF Init
  <2>3. loads \in 0 .. MaxLoads /\ runs \in [Users -> 0 .. MaxRuns]
    BY <1>1 DEF Init
  <2>4. /\ pce \in BOOLEAN
        /\ mod \in {"out", "load", "in", "exit", "remove"} /\ pending \in SUBSET Cpus
    BY DEF Init
  <2> QED BY <1>1, <1>2, <1>3, <2>1, <2>2, <2>3, <2>4 DEF Typed, Registers
<1>5. CallInv
  BY NoCallFacts DEF Init, CallInv
<1>6. ModInv
  BY <1>3 DEF Init, ModInv
<1> QED
  BY <1>4, <1>5, <1>6 DEF ControlInv

LEMMA HandlerControl ==
  ASSUME ControlInv, NEW u \in Users, Handler(u)
  PROVE  ControlInv'
<1>1. call[u] # NoCall /\ Kept /\ CallInv' /\ Registers'
  BY HandlerMoves, HandlerCall, HandlerRegisters DEF ControlInv
<1>2. Typed'
  BY <1>1 DEF Typed, Registers, Kept, ControlInv
<1>3. ModInv'
  BY <1>1 DEF ModInv, Kept, ControlInv, Files
<1> QED
  BY <1>1, <1>2, <1>3 DEF ControlInv

(* The steps of the module leave calls alone.                              *)
LEMMA ModuleControl ==
  ASSUME ControlInv, ModuleNext
  PROVE  ControlInv'
<1>1. CallInv' /\ hw' = hw /\ call' = call
  <2>1. hw' = hw /\ call' = call
    BY DEF ModuleNext, Load, Create, Unload, RemoveGroup, Unloaded, Reset
  <2> QED BY <2>1, CallStays DEF ControlInv
<1>2. UNCHANGED machine => Registers'
  BY <1>1, SameMachine DEF Registers, machine, ControlInv, Typed
<1>3. MaxLoads \in Nat
  BY PmuAssumption
<1>4. CASE Load
  <2>1. Typed'
    <3>1. pce' \in BOOLEAN
      BY <1>4 DEF Load, Typed, ControlInv
    <3>2. loads' \in 0 .. MaxLoads
      BY <1>3, <1>4 DEF Load, Typed, ControlInv
    <3>3. mod' \in {"out", "load", "in", "exit", "remove"} /\ pending' \in SUBSET Cpus
      BY <1>4 DEF Load
    <3> QED BY <1>2, <1>4, <3>1, <3>2, <3>3 DEF Load, Typed, Registers, ControlInv
  <2>2. ModInv'
    BY <1>4 DEF Load, ModInv, ControlInv, Files
  <2> QED BY <1>1, <2>1, <2>2 DEF ControlInv
<1>5. CASE Create \/ Unload
  <2>1. Typed'
    BY <1>2, <1>5 DEF Create, Unload, Typed, Registers, ControlInv
  <2>2. ModInv'
    BY <1>5 DEF Create, Unload, ModInv, ControlInv, Files
  <2> QED BY <1>1, <2>1, <2>2 DEF ControlInv
<1>6. CASE RemoveGroup
  <2>1. /\ fd' \in [Users -> [FileNames -> {"none", "live", "dead"}]]
        /\ \A u \in Users, f \in FileNames : fd'[u][f] # "live"
    BY <1>6 DEF RemoveGroup, Typed, ControlInv
  <2>2. Typed'
    BY <1>2, <1>6, <2>1 DEF RemoveGroup, Typed, Registers, ControlInv
  <2>3. ModInv'
    BY <1>6, <2>1 DEF RemoveGroup, ModInv
  <2> QED BY <1>1, <2>2, <2>3 DEF ControlInv
<1>7. CASE Unloaded
  <2>1. Typed'
    BY <1>2, <1>7 DEF Unloaded, Typed, Registers, ControlInv
  <2>2. ModInv'
    BY <1>7 DEF Unloaded, ModInv, ControlInv, Files
  <2> QED BY <1>1, <2>1, <2>2 DEF ControlInv
<1>8. ASSUME NEW c \in Cpus, Reset(c) PROVE ControlInv'
  <2>1. Registers'
    BY <1>8, ResetRegisters DEF ControlInv
  <2>2. alone' \in [Users -> BOOLEAN]
    BY <1>8 DEF Reset, Typed, ControlInv
  <2>3. Typed'
    BY <1>8, <2>1, <2>2 DEF Reset, Typed, Registers, ControlInv
  <2>4. ModInv'
    BY <1>8 DEF Reset, ModInv, ControlInv, Files
  <2> QED BY <1>1, <2>3, <2>4 DEF ControlInv
<1> QED
  BY <1>4, <1>5, <1>6, <1>7, <1>8 DEF ModuleNext

(* So do the steps of a program other than its writes.                     *)
LEMMA ProgramControl ==
  ASSUME ControlInv, NEW u \in Users,
         Begin(u) \/ Open(u) \/ ReadPce(u) \/ ReadMasks(u) \/ Read(u) \/ Finish(u)
  PROVE  ControlInv'
<1>1. CallInv' /\ hw' = hw /\ call' = call /\ mod' = mod /\ UNCHANGED <<pending, loads, pce, machine, evs>>
  <2>1. hw' = hw /\ call' = call /\ mod' = mod /\ UNCHANGED <<pending, loads, pce, machine, evs>>
    BY DEF Begin, Open, ReadPce, ReadMasks, Read, Finish, Stays
  <2> QED BY <2>1, CallStays DEF ControlInv
<1>2. Registers'
  BY <1>1, SameMachine DEF Registers, machine, ControlInv, Typed
<1> DEFINE Pcs == {"idle", "pce", "masks", "measure", "fault"} \cup FileNames \cup DOMAIN Following
           Fds == [FileNames -> {"none", "live", "dead"}]
<1>3. /\ pc \in [Users -> Pcs] /\ fd \in [Users -> Fds] /\ runs \in [Users -> 0 .. MaxRuns]
      /\ alone \in [Users -> BOOLEAN]
  BY DEF ControlInv, Typed
<1>4. ASSUME pc' \in [Users -> Pcs], fd' \in [Users -> Fds], runs' \in [Users -> 0 .. MaxRuns],
             alone' \in [Users -> BOOLEAN],
             \A v \in Users, f \in FileNames : fd'[v][f] = "live" => fd[v][f] = "live" \/ Files
      PROVE  ControlInv'
  <2>1. Typed'
    BY <1>1, <1>2, <1>4 DEF Typed, Registers, ControlInv
  <2>2. ModInv'
    BY <1>1, <1>4 DEF ModInv, ControlInv, Files
  <2> QED BY <1>1, <2>1, <2>2 DEF ControlInv
<1>5. {"idle", "pce", "masks", "measure", "fault", "cfg", "ts_cfg"} \subseteq Pcs
  BY NameFacts
<1>6. \A f \in FileNames : NextFile[f] \in Pcs
  BY NameFacts
<1> HIDE DEF Pcs
<1>7. Quit(u) => /\ pc' \in [Users -> Pcs] /\ fd' \in [Users -> Fds]
                 /\ \A v \in Users, f \in FileNames : fd'[v][f] = "live" => fd[v][f] = "live"
  BY <1>3, <1>5, NameFacts DEF Quit
<1>8. CASE Begin(u)
  <2>1. pc' \in [Users -> Pcs] /\ fd' = fd
    BY <1>3, <1>5, <1>8 DEF Begin
  <2>2. runs' \in [Users -> 0 .. MaxRuns]
    <3>1. runs[u] \in 0 .. MaxRuns /\ runs[u] < MaxRuns /\ MaxRuns \in Nat
      BY <1>3, <1>8, PmuAssumption DEF Begin
    <3>2. runs[u] + 1 \in 0 .. MaxRuns /\ runs' = [runs EXCEPT ![u] = runs[u] + 1]
      BY <1>8, <3>1 DEF Begin
    <3> QED BY <1>3, <3>2
  <2>3. alone' \in [Users -> BOOLEAN]
    <3> DEFINE b == \A v \in Users \ {u} : CpuOf[v] = CpuOf[u] => call[v] = NoCall
    <3>1. alone' = [alone EXCEPT ![u] = b] /\ b \in BOOLEAN
      BY <1>8 DEF Begin
    <3> HIDE DEF b
    <3> QED BY <1>3, <3>1
  <2> QED BY <1>3, <1>4, <2>1, <2>2, <2>3
<1>9. CASE Open(u)
  <2> DEFINE f == pc[u]
             opened == [fd[u] EXCEPT ![f] = IF Files THEN "live" ELSE "none"]
  <2>1. f \in FileNames /\ opened \in Fds
        /\ \A g \in FileNames : opened[g] = "live" => fd[u][g] = "live" \/ Files
    BY <1>3, <1>9 DEF Open
  <2>2. Quit(u) \/ (pc' = [pc EXCEPT ![u] = NextFile[f]] /\ fd' = [fd EXCEPT ![u] = opened])
    BY <1>9 DEF Open
  <2>3. runs' = runs /\ alone' = alone
    BY <1>9 DEF Open, Stays
  <2> HIDE DEF opened
  <2>4. ASSUME pc' = [pc EXCEPT ![u] = NextFile[f]], fd' = [fd EXCEPT ![u] = opened]
        PROVE  /\ pc' \in [Users -> Pcs] /\ fd' \in [Users -> Fds]
               /\ \A v \in Users, g \in FileNames : fd'[v][g] = "live" => fd[v][g] = "live" \/ Files
    BY <1>3, <1>6, <2>1, <2>4
  <2> QED BY <1>3, <1>4, <1>7, <2>2, <2>3, <2>4
<1>10. CASE ReadPce(u)
  <2>1. runs' = runs /\ alone' = alone
    BY <1>10 DEF ReadPce, Stays
  <2>2. ASSUME pc' = [pc EXCEPT ![u] = "masks"], fd' = [fd EXCEPT ![u].cr4 = "none"]
        PROVE  /\ pc' \in [Users -> Pcs] /\ fd' \in [Users -> Fds]
               /\ \A v \in Users, f \in FileNames : fd'[v][f] = "live" => fd[v][f] = "live"
    BY <1>3, <1>5, <2>2, NameFacts
  <2> QED BY <1>3, <1>4, <1>7, <1>10, <2>1, <2>2 DEF ReadPce
<1>11. CASE ReadMasks(u)
  <2>1. runs' = runs /\ alone' = alone
    BY <1>11 DEF ReadMasks, Stays
  <2>2. Quit(u) \/ (pc' \in [Users -> Pcs] /\ fd' = fd)
    BY <1>3, <1>5, <1>11 DEF ReadMasks
  <2> QED BY <1>3, <1>4, <1>7, <2>1, <2>2
<1>12. CASE Read(u)
  <2>1. runs' = runs /\ alone' = alone /\ fd' = fd
    BY <1>12 DEF Read, Stays
  <2>2. pc' \in [Users -> Pcs]
    BY <1>3, <1>5, <1>12 DEF Read
  <2> QED BY <1>3, <1>4, <2>1, <2>2
<1>13. CASE Finish(u)
  BY <1>3, <1>4, <1>7, <1>13 DEF Finish, Stays
<1> QED
  BY <1>8, <1>9, <1>10, <1>11, <1>12, <1>13

LEMMA InitWordsTyped ==
  InitWords \in Seq(Words) /\ Len(InitWords) = MaxFf + GpInit
<1>1. MaxFf \in Nat /\ GpInit \in Nat /\ MaxFf + GpInit \in Nat
  BY PmuAssumption
<1>2. InitWords = [j \in 1 .. MaxFf + GpInit |-> IF j <= MaxFf THEN "on" ELSE "off"]
  BY DEF InitWords
<1>3. \A j \in 1 .. MaxFf + GpInit : (IF j <= MaxFf THEN "on" ELSE "off") \in Words
  BY DEF Words
<1> QED
  BY <1>1, <1>2, <1>3

(* What a write starts.                                                    *)
KindOf(u) == IF pc[u] \in {"ts_cfg", "ev_cfg"} THEN "cfg" ELSE "cnt"
Started(u) ==
  [kind |-> KindOf(u), todo |-> CallTodo(u), tmp |-> {},
   step |-> IF KindOf(u) = "cfg" THEN "dis" ELSE "cnt"]

LEMMA PwriteFacts ==
  ASSUME ControlInv, NEW u \in Users, Pwrite(u)
  PROVE  /\ evs' \in [Users -> EventSets \cup {<<>>}] /\ evs'[u] \in Seq(Words)
         /\ pc[u] # "ev_cfg" => evs' = evs
         /\ pc[u] \in {"ts_cfg", "ts_cnt"} => CallTodo(u) = Todo(0, InitWords)
         /\ pc[u] \in {"ev_cfg", "ev_cnt"} => CallTodo(u) = Todo(MaxFf, evs'[u])
         /\ pc[u] \in {"ts_cfg", "ts_cnt", "ev_cfg", "ev_cnt"}
         /\ pc' = [pc EXCEPT ![u] = Following[pc[u]]]
         /\ CallTodo(u) \in Seq(Entry)
<1>1. pc[u] \in {"ts_cfg", "ts_cnt", "ev_cfg", "ev_cnt"} /\ pc' = [pc EXCEPT ![u] = Following[pc[u]]]
  BY NameFacts DEF Pwrite
<1>2. evs' \in IF pc[u] = "ev_cfg" THEN {[evs EXCEPT ![u] = e] : e \in Lists(u)} ELSE {evs}
  BY DEF Pwrite
<1>3. evs \in [Users -> EventSets \cup {<<>>}]
  BY DEF ControlInv, Typed
<1>4. evs' \in [Users -> EventSets \cup {<<>>}] /\ (pc[u] # "ev_cfg" => evs' = evs)
  BY <1>2, <1>3 DEF Lists
<1>5. evs'[u] \in Seq(Words)
  <2>1. EventSets \subseteq Seq(Words) /\ <<>> \in Seq(Words)
    BY PmuAssumption, EmptySeq
  <2>2. evs'[u] \in EventSets \cup {<<>>}
    BY <1>4
  <2> QED BY <2>1, <2>2
<1>6. /\ pc[u] \in {"ts_cfg", "ts_cnt"} => CallTodo(u) = Todo(0, InitWords)
      /\ pc[u] \in {"ev_cfg", "ev_cnt"} => CallTodo(u) = Todo(MaxFf, evs'[u])
  BY DEF CallTodo
<1>7. hw \in Machines /\ MaxFf \in Nat /\ 0 \in Nat
  BY PmuAssumption DEF ControlInv, Typed
<1>8. Todo(0, InitWords) \in Seq(Entry) /\ Todo(MaxFf, evs'[u]) \in Seq(Entry)
  BY <1>5, <1>7, InitWordsTyped, TodoFacts
<1> QED
  BY <1>1, <1>4, <1>5, <1>6, <1>8

LEMMA PwriteCases ==
  ASSUME ControlInv, NEW u \in Users, Pwrite(u)
  PROVE  /\ UNCHANGED <<hw, mod, pending, loads, pce, machine, runs, fd>>
         /\ call[u] = NoCall /\ MayRun(u)
         /\ \/ /\ fd[u][KindOf(u)] = "live" /\ CallTodo(u) # <<>> /\ Move(u, Started(u))
               /\ alone' = [v \in Users |-> alone[v] /\ (v # u => CpuOf[v] # CpuOf[u])]
            \/ fd[u][KindOf(u)] = "live" /\ CallTodo(u) = <<>> /\ call' = call /\ alone' = alone
            \/ fd[u][KindOf(u)] # "live" /\ call' = call /\ alone' = [alone EXCEPT ![u] = FALSE]
  BY DEF Pwrite, Move, Started, KindOf

LEMMA PwriteControl ==
  ASSUME ControlInv, NEW u \in Users, Pwrite(u)
  PROVE  ControlInv'
<1>1. UNCHANGED <<hw, mod, pending, loads, pce, machine, runs, fd>>
  BY PwriteCases
<1>2. Registers'
  BY <1>1, SameMachine DEF Registers, machine, ControlInv, Typed
<1>3. alone' \in [Users -> BOOLEAN]
  <2>1. alone \in [Users -> BOOLEAN]
    BY DEF ControlInv, Typed
  <2> QED BY <2>1, PwriteCases
<1>4. pc' \in [Users -> {"idle", "pce", "masks", "measure", "fault"} \cup FileNames \cup DOMAIN Following]
  <2> DEFINE Pcs == {"idle", "pce", "masks", "measure", "fault"} \cup FileNames \cup DOMAIN Following
  <2>1. pc \in [Users -> Pcs]
    BY DEF ControlInv, Typed
  <2>2. Following[pc[u]] \in {"ts_cnt", "ev_cfg", "ev_cnt", "measure"}
    <3>1. pc[u] \in {"ts_cfg", "ts_cnt", "ev_cfg", "ev_cnt"}
      BY PwriteFacts
    <3>2. pc[u] = "ts_cfg" \/ pc[u] = "ts_cnt" \/ pc[u] = "ev_cfg" \/ pc[u] = "ev_cnt"
      BY <3>1
    <3> QED BY <3>2, NameFacts
  <2>3. {"ts_cnt", "ev_cfg", "ev_cnt", "measure"} \subseteq Pcs
    BY NameFacts
  <2> HIDE DEF Pcs
  <2>4. pc' \in [Users -> Pcs]
    BY <2>1, <2>2, <2>3, PwriteFacts
  <2> QED BY <2>4 DEF Pcs
<1>5. Typed'
  BY <1>1, <1>2, <1>3, <1>4, PwriteFacts DEF Typed, Registers, ControlInv
<1>6. CASE call' = call
  <2>1. CallInv'
    BY <1>1, <1>6, CallStays DEF ControlInv
  <2>2. ModInv'
    BY <1>1, <1>6 DEF ModInv, ControlInv, Files
  <2> QED BY <1>5, <2>1, <2>2 DEF ControlInv
<1>7. CASE fd[u][KindOf(u)] = "live" /\ CallTodo(u) # <<>> /\ Move(u, Started(u))
  <2> DEFINE x == Started(u)
  <2>1. x.kind = KindOf(u) /\ x.todo = CallTodo(u) /\ x.tmp = {}
        /\ x.step = IF KindOf(u) = "cfg" THEN "dis" ELSE "cnt"
    BY DEF Started
  <2>2. x \in Calls
    <3> DEFINE k == KindOf(u)  t == CallTodo(u)  s == IF KindOf(u) = "cfg" THEN "dis" ELSE "cnt"
    <3>1. x = [kind |-> k, todo |-> t, tmp |-> {}, step |-> s]
      BY DEF Started
    <3>2. k \in {"cfg", "cnt"} /\ s \in Steps /\ t \in Seq(Entry)
      BY PwriteFacts DEF KindOf, Steps
    <3> HIDE DEF x, k, t, s
    <3> QED BY <3>1, <3>2 DEF Calls
  <2>3. CallOK(x)
    <3>1. KindOf(u) \in {"cfg", "cnt"}
      BY DEF KindOf
    <3> HIDE DEF x
    <3> QED BY <1>7, <2>1, <2>2, <3>1 DEF CallOK
  <2>4. CallInv'
    BY <1>1, <1>7, <2>2, <2>3, CallMoves DEF ControlInv
  <2>5. KindOf(u) \in FileNames
    BY NameFacts DEF KindOf
  <2>6. Files
    BY <1>7, <2>5 DEF ControlInv, ModInv
  <2>7. ModInv'
    BY <1>1, <2>6 DEF ModInv, ControlInv, Files
  <2> QED BY <1>5, <2>4, <2>7 DEF ControlInv
<1> QED
  BY <1>6, <1>7, PwriteCases

LEMMA StutterControl ==
  ASSUME ControlInv, UNCHANGED vars
  PROVE  ControlInv'
<1>1. CallInv'
  BY CallStays DEF ControlInv, vars
<1>2. Registers'
  BY SameMachine DEF Registers, machine, ControlInv, Typed, vars
<1>3. Typed'
  BY <1>2 DEF Typed, Registers, ControlInv, vars
<1>4. ModInv'
  BY DEF ModInv, ControlInv, Files, vars
<1> QED
  BY <1>1, <1>3, <1>4 DEF ControlInv

LEMMA StepControl ==
  ASSUME ControlInv, [Next]_vars
  PROVE  ControlInv'
<1>1. ASSUME NEW u \in Users, Handler(u) \/ Begin(u) \/ Open(u) \/ ReadPce(u) \/ ReadMasks(u)
                                \/ Pwrite(u) \/ Read(u) \/ Finish(u)
      PROVE  ControlInv'
  BY <1>1, HandlerControl, ProgramControl, PwriteControl
<1> QED
  BY <1>1, ModuleControl, StutterControl DEF Next

(* Every handler is at a step it knows with a counter left, and every      *)
(* register keeps its kind of value, through preemption and unloads.       *)
THEOREM TypeCorrect == Spec => []TypeOK
<1>1. Init => ControlInv
  BY InitControl
<1>2. ControlInv /\ [Next]_vars => ControlInv'
  BY StepControl
<1>3. ControlInv => TypeOK
  BY CallTyped DEF ControlInv
<1> QED
  BY <1>1, <1>2, <1>3, PTL DEF Spec

-----------------------------------------------------------------------------
(* Loads.                                                                  *)

LEMMA ResetClears ==
  ASSUME Typed, NEW c \in Cpus, Reset(c)
  PROVE  /\ \A d \in Cpus \ {c} :
              /\ glob'[d] = glob[d] /\ fctl'[d] = fctl[d] /\ sel'[d] = sel[d] /\ old'[d] = old[d]
         /\ glob'[c] = glob[c] \ Exported /\ fctl'[c] = fctl[c] \ Exported
         /\ \A g \in General : sel'[c][g] = "off"
<1>1. Registers /\ General \subseteq Exported
  BY ExportedFacts DEF Typed, Registers
<1>2. glob'[c] = glob[c] \ Exported /\ fctl'[c] = fctl[c] \ Exported
  BY <1>1 DEF Registers, Reset, Cleared
<1>3. \A g \in General : sel'[c][g] = "off"
  BY <1>1 DEF Registers, Reset, Cleared
<1>4. \A d \in Cpus \ {c} :
        /\ glob'[d] = glob[d] /\ fctl'[d] = fctl[d] /\ sel'[d] = sel[d] /\ old'[d] = old[d]
  BY <1>1 DEF Registers, Reset
<1> QED
  BY <1>2, <1>3, <1>4

LEMMA StepClean ==
  ASSUME CleanInv, [Next]_vars
  PROVE  CleanInv'
<1>1. ControlInv /\ ControlInv' /\ CleanLoad
  BY StepControl DEF CleanInv
<1> SUFFICES ASSUME mod' = "load", NEW c \in Cpus \ pending'
             PROVE  /\ glob'[c] \cap Exported' = {} /\ fctl'[c] \cap Exported' = {}
                    /\ \A g \in General' : sel'[c][g] = "off"
  BY <1>1 DEF CleanInv, CleanLoad
<1>2. CASE /\ hw' = hw /\ UNCHANGED machine /\ mod = "load" /\ pending' = pending
  BY <1>1, <1>2, SameMachine DEF CleanLoad, machine
<1>3. ASSUME NEW u \in Users, Handler(u) PROVE FALSE
  BY <1>1, <1>3, HandlerMoves DEF ControlInv, ModInv, Kept
<1>4. ASSUME NEW u \in Users, Begin(u) \/ Open(u) \/ ReadPce(u) \/ ReadMasks(u) \/ Pwrite(u)
                                \/ Read(u) \/ Finish(u)
      PROVE  hw' = hw /\ UNCHANGED machine /\ mod' = mod /\ pending' = pending
  <2>1. CASE Pwrite(u)
    BY <1>1, <2>1, PwriteCases
  <2> QED BY <1>4, <2>1 DEF Begin, Open, ReadPce, ReadMasks, Read, Finish, Stays
<1>5. CASE Load
  BY <1>5 DEF Load
<1>6. CASE Create \/ Unload \/ RemoveGroup \/ Unloaded
  BY <1>6 DEF Create, Unload, RemoveGroup, Unloaded
<1>7. ASSUME NEW d \in Cpus, Reset(d)
      PROVE  /\ glob'[c] \cap Exported' = {} /\ fctl'[c] \cap Exported' = {}
             /\ \A g \in General' : sel'[c][g] = "off"
  <2>1. hw' = hw /\ mod = "load" /\ pending' = pending \ {d}
    BY <1>7 DEF Reset
  <2>2. Exported' = Exported /\ General' = General
    BY <2>1, SameMachine
  <2>3. CASE c = d
    BY <1>1, <1>7, <2>2, <2>3, ResetClears DEF ControlInv
  <2>4. CASE c # d
    <3>1. c \in Cpus \ pending
      BY <2>1, <2>4
    <3>2. glob'[c] = glob[c] /\ fctl'[c] = fctl[c] /\ sel'[c] = sel[c]
      BY <1>1, <1>7, <2>4, ResetClears DEF ControlInv
    <3> QED BY <1>1, <2>1, <2>2, <3>1, <3>2 DEF CleanLoad
  <2> QED BY <2>3, <2>4
<1> QED
  BY <1>2, <1>3, <1>4, <1>5, <1>6, <1>7 DEF Next, ModuleNext, vars

(* When a load has reset a CPU no exported counter is enabled on it: no    *)
(* handler of the load before is left that could write old bits back.      *)
THEOREM CleanLoadHolds == Spec => []CleanLoad
<1>1. Init => CleanInv
  BY InitControl DEF CleanInv, CleanLoad, Init
<1>2. CleanInv /\ [Next]_vars => CleanInv'
  BY StepClean
<1>3. CleanInv => CleanLoad
  BY DEF CleanInv
<1> QED
  BY <1>1, <1>2, <1>3, PTL DEF Spec

-----------------------------------------------------------------------------
(* What a step of a handler starts and stops.                              *)

LEMMA FreshStays ==
  ASSUME hw' = hw, NEW v \in Users, call'[v] = call[v],
         glob'[Cpu(v)] = glob[Cpu(v)], fctl'[Cpu(v)] = fctl[Cpu(v)], sel'[Cpu(v)] = sel[Cpu(v)],
         Fresh(v) \/ Stale(v)
  PROVE  (Fresh(v) \/ Stale(v))'
<1>1. Exported' = Exported /\ General' = General
  BY SameMachine
<1>2. CASE Fresh(v)
  <2>1. Fresh(v)'
    BY <1>2 DEF Fresh, Cpu, Ctr
  <2> QED BY <2>1
<1>3. CASE Stale(v)
  <2>1. Stale(v)'
    BY <1>1, <1>3 DEF Stale, Cpu
  <2> QED BY <2>1
<1> QED
  BY <1>2, <1>3

(* A handler works on the registers of its own CPU.                        *)
LEMMA HandlerPlace ==
  ASSUME ControlInv, NEW u \in Users, Handler(u), NEW c \in Cpus, c # Cpu(u)
  PROVE  glob'[c] = glob[c] /\ fctl'[c] = fctl[c] /\ sel'[c] = sel[c] /\ old'[c] = old[c]
<1>1. Moves(u) /\ Registers
  BY HandlerMoves DEF ControlInv, Typed, Registers
<1>2. UNCHANGED machine => glob' = glob /\ fctl' = fctl /\ sel' = sel /\ old' = old
  BY DEF machine
<1>3. CASE MoveDisw(u) \/ MoveEnw(u)
  BY <1>1, <1>3 DEF MoveDisw, MoveEnw, Registers
<1>4. CASE MoveCfgw(u)
  BY <1>1, <1>4 DEF MoveCfgw, Registers
<1>5. CASE MoveSel(u)
  BY <1>1, <1>5 DEF MoveSel, Registers
<1>6. CASE MoveCnt(u)
  BY <1>1, <1>6 DEF MoveCnt, Registers
<1>7. CASE MoveDis(u) \/ MoveCfg(u) \/ MoveOn(u) \/ MoveOff(u) \/ MoveEn(u)
  BY <1>2, <1>7 DEF MoveDis, MoveCfg, MoveOn, MoveOff, MoveEn
<1> QED
  BY <1>1, <1>3, <1>4, <1>5, <1>6, <1>7 DEF Moves

(* What a handler has just read is fresh.                                  *)
LEMMA HandlerFresh ==
  ASSUME ControlInv, NEW u \in Users, Handler(u)
  PROVE  Fresh(u)'
<1>1. Moves(u) /\ Registers /\ call \in [Users -> Calls \cup {NoCall}] /\ call[u] # NoCall /\ Cpu(u) \in Cpus
  BY HandlerMoves, PmuAssumption DEF ControlInv, Typed, Registers, CallInv, Cpu
<1>2. \A x : Move(u, x) => call'[u] = x
  BY <1>1 DEF Move
<1>3. \A step, tmp : /\ CallAt(u, step, tmp).step = step /\ CallAt(u, step, tmp).tmp = tmp
                     /\ CallAt(u, step, tmp).todo = call[u].todo
  BY DEF CallAt
<1>4. CallBehind(u).step \in {"none", "dis", "cnt"}
  BY NoCallFacts DEF CallBehind
<1>5. CASE MoveDisw(u) \/ MoveSel(u) \/ MoveCfgw(u) \/ MoveOn(u)
  <2>1. call'[u].step \in {"cfg", "test", "en"}
    BY <1>2, <1>3, <1>5 DEF MoveDisw, MoveSel, MoveCfgw, MoveOn
  <2> QED BY <2>1 DEF Fresh
<1>6. CASE MoveOff(u) \/ MoveEnw(u) \/ MoveCnt(u)
  <2>1. call'[u].step \in {"none", "dis", "cnt"}
    BY <1>2, <1>4, <1>6 DEF MoveOff, MoveEnw, MoveCnt
  <2> QED BY <2>1 DEF Fresh
<1>7. CASE MoveDis(u)
  <2>1. call'[u].step = "disw" /\ call'[u].tmp = glob'[Cpu(u)]
    BY <1>2, <1>3, <1>7 DEF MoveDis, machine
  <2> QED BY <2>1 DEF Fresh, Cpu
<1>8. CASE MoveCfg(u)
  <2>1. call'[u].step = "cfgw" /\ call'[u].tmp = fctl'[Cpu(u)]
    BY <1>2, <1>3, <1>8 DEF MoveCfg, machine
  <2> QED BY <2>1 DEF Fresh, Cpu
<1>9. CASE MoveEn(u)
  <2>1. call'[u].step = "enw" /\ call'[u].tmp = glob'[Cpu(u)] \cup {Ctr(u)} /\ call'[u].todo = call[u].todo
    BY <1>2, <1>3, <1>9 DEF MoveEn, machine
  <2> QED BY <2>1 DEF Fresh, Cpu, Ctr
<1> QED
  BY <1>1, <1>5, <1>6, <1>7, <1>8, <1>9 DEF Moves

LEMMA StepFresh ==
  ASSUME Preempt = FALSE, FreshInv, [Next]_vars
  PROVE  FreshInv'
<1>1. ControlInv /\ ControlInv'
  BY StepControl DEF FreshInv
<1> SUFFICES ASSUME NEW v \in Users, call'[v] # NoCall
             PROVE  (Fresh(v) \/ Stale(v))'
  BY <1>1 DEF FreshInv
<1>2. call[v] # NoCall => Fresh(v) \/ Stale(v)
  BY DEF FreshInv
<1>3. Cpu(v) \in Cpus /\ Registers
  BY <1>1, PmuAssumption DEF Cpu, ControlInv, Typed, Registers
<1>4. CASE hw' = hw /\ call' = call /\ UNCHANGED machine
  BY <1>2, <1>4, FreshStays DEF machine
<1>5. ASSUME NEW u \in Users, Handler(u) PROVE (Fresh(v) \/ Stale(v))'
  <2>1. CASE u = v
    BY <1>1, <1>5, <2>1, HandlerFresh
  <2>2. CASE u # v
    <3>1. call[u] # NoCall /\ MayRun(u) /\ hw' = hw /\ Moves(u)
      BY <1>1, <1>5, HandlerMoves DEF ControlInv, Kept
    <3>2. call'[v] = call[v]
      BY <1>1, <2>2, <3>1 DEF Moves, MoveDis, MoveDisw, MoveCfg, MoveCfgw, MoveSel, MoveOn, MoveOff,
                              MoveEn, MoveEnw, MoveCnt, Move, ControlInv, CallInv
    <3>3. Cpu(v) # Cpu(u)
      BY <2>2, <3>1, <3>2 DEF MayRun, Cpu
    <3> QED BY <1>1, <1>2, <1>3, <1>5, <3>1, <3>2, <3>3, HandlerPlace, FreshStays
  <2> QED BY <2>1, <2>2
<1>6. ASSUME NEW u \in Users, Pwrite(u) PROVE (Fresh(v) \/ Stale(v))'
  <2>1. /\ hw' = hw /\ UNCHANGED machine
        /\ call' = call \/ Move(u, Started(u))
    BY <1>1, <1>6, PwriteCases
  <2>2. CASE call' = call
    BY <1>4, <2>1, <2>2
  <2>3. CASE Move(u, Started(u)) /\ u = v
    <3>1. call'[v] = Started(v)
      BY <1>1, <2>3 DEF Move, ControlInv, CallInv
    <3>2. call'[v].step \in {"dis", "cnt"}
      BY <3>1 DEF Started
    <3> QED BY <3>2 DEF Fresh
  <2>4. CASE Move(u, Started(u)) /\ u # v
    <3>1. call'[v] = call[v]
      BY <1>1, <2>4 DEF Move, ControlInv, CallInv
    <3> QED BY <1>2, <2>1, <3>1, FreshStays DEF machine
  <2> QED BY <2>1, <2>2, <2>3, <2>4
<1>7. ASSUME NEW c \in Cpus, Reset(c) PROVE (Fresh(v) \/ Stale(v))'
  <2>1. hw' = hw /\ call' = call
    BY <1>7 DEF Reset
  <2>2. CASE Cpu(v) # c
    BY <1>1, <1>2, <1>3, <1>7, <2>1, <2>2, ResetClears, FreshStays DEF ControlInv
  <2>3. CASE Cpu(v) = c
    <3>1. /\ glob'[c] \cap Exported' = {} /\ fctl'[c] \cap Exported' = {}
          /\ \A g \in General' : sel'[c][g] = "off"
      BY <1>1, <1>7, <2>1, ResetClears, SameMachine DEF ControlInv
    <3>2. Cpu(v)' = c
      BY <2>3 DEF Cpu
    <3>3. CASE call'[v].step \in {"disw", "enw", "cfgw"}
      <4>1. Stale(v)'
        BY <3>1, <3>2, <3>3 DEF Stale
      <4> QED BY <4>1
    <3>4. CASE call'[v].step \notin {"disw", "enw", "cfgw"}
      <4>1. Fresh(v)'
        BY <3>4 DEF Fresh
      <4> QED BY <4>1
    <3> QED BY <3>3, <3>4
  <2> QED BY <2>2, <2>3
<1>8. CASE Load \/ Create \/ Unload \/ RemoveGroup \/ Unloaded \/ UNCHANGED vars
  <2>1. hw' = hw /\ call' = call /\ UNCHANGED machine
    BY <1>8 DEF Load, Create, Unload, RemoveGroup, Unloaded, vars, machine
  <2> QED BY <1>4, <2>1
<1>9. ASSUME NEW u \in Users,
             Begin(u) \/ Open(u) \/ ReadPce(u) \/ ReadMasks(u) \/ Read(u) \/ Finish(u)
      PROVE  (Fresh(v) \/ Stale(v))'
  <2>1. hw' = hw /\ call' = call /\ UNCHANGED machine
    BY <1>9 DEF Begin, Open, ReadPce, ReadMasks, Read, Finish, Stays
  <2> QED BY <1>4, <2>1
<1> QED
  BY <1>5, <1>6, <1>7, <1>8, <1>9 DEF Next, ModuleNext

(* A step counts as before everywhere but at one counter.                  *)
OnlyAt(c, x) ==
  \A d \in Cpus, y \in Counters : d # c \/ y # x => (Counts(d, y)' <=> Counts(d, y))

LEMMA HandlerOnly ==
  ASSUME FreshInv, NEW u \in Users, Handler(u)
  PROVE  OnlyAt(Cpu(u), Ctr(u))
<1> DEFINE c == Cpu(u)  x == Ctr(u)
<1>1. /\ ControlInv /\ Registers /\ c \in Cpus /\ call[u] # NoCall /\ hw' = hw /\ Moves(u)
      /\ Fresh(u) \/ Stale(u)
  BY HandlerMoves, PmuAssumption DEF FreshInv, ControlInv, Typed, Registers, Cpu, Kept
<1>2. Fixed' = Fixed
  BY <1>1, SameMachine
<1>3. x \in Exported /\ \A y \in Counters : y \notin Fixed => y \in General
  BY <1>1, InCall DEF ControlInv, Counters
<1>4. Exported \subseteq Counters /\ General \subseteq Exported
  BY <1>1, ExportedFacts DEF ControlInv, Typed
<1> SUFFICES ASSUME NEW d \in Cpus, NEW y \in Counters, d # c \/ y # x
             PROVE  Counts(d, y)' <=> Counts(d, y)
  BY DEF OnlyAt
<1>5. CASE d # c
  BY <1>1, <1>2, <1>5, HandlerPlace DEF Counts, Enables
<1>6. UNCHANGED machine => (Counts(d, y)' <=> Counts(d, y))
  BY <1>2 DEF machine, Counts, Enables
<1>7. CASE d = c /\ (MoveDisw(u) \/ MoveEnw(u))
  <2>1. /\ glob'[c] = (glob[c] \ Exported) \cup (call[u].tmp \cap Exported)
        /\ fctl' = fctl /\ sel' = sel
    BY <1>1, <1>7 DEF MoveDisw, MoveEnw, Registers
  <2>2. Enables(c, y)' <=> Enables(c, y)
    BY <1>2, <2>1 DEF Enables, Cpu
  <2>3. CASE Fresh(u)
    <3>1. call[u].tmp = glob[c] \/ call[u].tmp = glob[c] \cup {x}
      BY <1>7, <2>3 DEF Fresh, MoveDisw, MoveEnw
    <3>2. y \in glob'[c] <=> y \in glob[c]
      BY <1>7, <2>1, <3>1
    <3> QED BY <1>7, <2>2, <3>2 DEF Counts
  <2>4. CASE Stale(u)
    <3>1. fctl[c] \cap Exported = {} /\ \A g \in General : sel[c][g] = "off"
      BY <1>7, <2>4 DEF Stale, MoveDisw, MoveEnw
    <3>2. y \in Exported => ~Enables(c, y)
      BY <1>3, <3>1 DEF Enables
    <3>3. y \notin Exported => (y \in glob'[c] <=> y \in glob[c])
      BY <2>1
    <3> QED BY <1>7, <2>2, <3>2, <3>3 DEF Counts
  <2> QED BY <1>1, <2>3, <2>4
<1>8. CASE d = c /\ MoveCfgw(u)
  <2>1. /\ fctl'[c] = (fctl[c] \ Exported) \cup (Field(u) \cap Exported)
        /\ glob' = glob /\ sel' = sel
    BY <1>1, <1>8 DEF MoveCfgw, Registers
  <2>2. CASE Fresh(u)
    <3>1. call[u].tmp = fctl[c]
      BY <1>8, <2>2 DEF Fresh, MoveCfgw
    <3>2. y \in fctl'[c] <=> y \in fctl[c]
      BY <1>8, <2>1, <3>1 DEF Field
    <3> QED BY <1>2, <1>8, <2>1, <3>2 DEF Counts, Enables
  <2>3. CASE Stale(u)
    <3>1. glob[c] \cap Exported = {}
      BY <1>8, <2>3 DEF Stale, MoveCfgw
    <3>2. y \in Exported => ~Counts(c, y) /\ ~Counts(c, y)'
      BY <2>1, <3>1 DEF Counts, Cpu
    <3>3. y \notin Exported => (y \in fctl'[c] <=> y \in fctl[c])
      BY <2>1
    <3> QED BY <1>2, <1>8, <2>1, <3>2, <3>3 DEF Counts, Enables
  <2> QED BY <1>1, <2>2, <2>3
<1>9. CASE d = c /\ MoveSel(u)
  <2>1. sel'[c][y] = sel[c][y] /\ glob' = glob /\ fctl' = fctl
    BY <1>1, <1>9 DEF MoveSel, Registers
  <2> QED BY <1>2, <1>9, <2>1 DEF Counts, Enables
<1>10. CASE d = c /\ MoveCnt(u)
  <2>1. glob' = glob /\ fctl' = fctl /\ sel' = sel
    BY <1>10 DEF MoveCnt
  <2> QED BY <1>2, <2>1 DEF Counts, Enables
<1>11. CASE MoveDis(u) \/ MoveCfg(u) \/ MoveOn(u) \/ MoveOff(u) \/ MoveEn(u)
  BY <1>6, <1>11 DEF MoveDis, MoveCfg, MoveOn, MoveOff, MoveEn
<1> QED
  BY <1>1, <1>5, <1>7, <1>8, <1>9, <1>10, <1>11 DEF Moves

HandlersSelect ==
  \A u \in Users : Handler(u) =>
    \A w \in (Running' \ Running) \cup (Running \ Running') : w = <<Cpu(u), Ctr(u)>>

LEMMA StepSelects ==
  ASSUME FreshInv
  PROVE  HandlersSelect
<1> SUFFICES ASSUME NEW u \in Users, Handler(u),
                    NEW w \in (Running' \ Running) \cup (Running \ Running')
             PROVE  w = <<Cpu(u), Ctr(u)>>
  BY DEF HandlersSelect
<1>1. Counters' = Counters
  BY HandlerMoves, SameMachine DEF FreshInv, ControlInv, Kept
<1>2. /\ Running = {r \in Cpus \X Counters : Counts(r[1], r[2])}
      /\ Running' = {r \in Cpus \X Counters : Counts(r[1], r[2])'}
  BY <1>1 DEF Running, Counts, Enables, Fixed, FfHw
<1>3. w \in Cpus \X Counters /\ ~(Counts(w[1], w[2])' <=> Counts(w[1], w[2]))
  BY <1>2
<1>4. ~(w[1] # Cpu(u) \/ w[2] # Ctr(u))
  BY <1>3, HandlerOnly DEF OnlyAt
<1> QED
  BY <1>3, <1>4

(* Where handlers of a CPU do not preempt each other, a step of a handler  *)
(* starts or stops no counter but the one it is at: what it writes back is *)
(* still in the register, or a reset has meanwhile switched off the other  *)
(* half that a counter needs to count.                                     *)
THEOREM OnlySelectedHolds == Preempt = FALSE => (Spec => OnlySelected)
<1> SUFFICES ASSUME Preempt = FALSE PROVE Spec => OnlySelected
  OBVIOUS
<1>1. Init => FreshInv
  BY InitControl DEF FreshInv, Init
<1>2. FreshInv /\ [Next]_vars => FreshInv'
  BY StepFresh
<1>3. FreshInv /\ [Next]_vars => [HandlersSelect]_vars
  BY StepSelects
<1>4. Spec => [][HandlersSelect]_vars
  BY <1>1, <1>2, <1>3, PTL DEF Spec
<1> QED
  BY <1>4 DEF OnlySelected, HandlersSelect

-----------------------------------------------------------------------------
(* What a program has checked.                                             *)

LEMMA SameEnough ==
  ASSUME hw' = hw
  PROVE  Enough' = Enough
  BY DEF Enough, Selected, NFf, FfHw, NGp

LEMMA EventsTyped ==
  ASSUME NEW e \in EventSets \cup {<<>>}
  PROVE  e \in Seq(Words) /\ Len(e) \in Nat
<1>1. CASE e \in EventSets
  BY <1>1, PmuAssumption
<1>2. CASE e = <<>>
  BY <1>2, EmptySeq
<1> QED
  BY <1>1, <1>2

LEMMA ProgramStays ==
  ASSUME NEW v \in Users, ProgramInv(v), hw' = hw, pce' \in {pce, TRUE}, pc'[v] = pc[v],
         \/ call'[v] = call[v] \/ call'[v] = NoCall
         \/ call[v] # NoCall /\ call'[v].kind = call[v].kind
  PROVE  ProgramInv(v)'
<1>1. Enough' = Enough
  BY SameEnough
<1>2. /\ pc'[v] = "fault" => NGp' \in GpInit .. NevMax[v] - 1
      /\ pc'[v] \in Setting \cup {"masks"} => pce'
      /\ pc'[v] \in Setting => Enough'
  BY <1>1 DEF ProgramInv, NGp
<1>3. call'[v] # NoCall => call[v] # NoCall /\ call'[v].kind = call[v].kind
  OBVIOUS
<1>4. call'[v] # NoCall => /\ pc'[v] \in Setting \ {"ts_cfg"}
                           /\ call'[v].kind = IF pc'[v] \in {"ts_cnt", "ev_cnt"} THEN "cfg" ELSE "cnt"
  BY <1>3 DEF ProgramInv
<1> QED
  BY <1>2, <1>4 DEF ProgramInv, Setting

LEMMA HandlerKind ==
  ASSUME CallInv, NEW u \in Users, Handler(u)
  PROVE  /\ \A v \in Users \ {u} : call'[v] = call[v]
         /\ call[u] # NoCall /\ (call'[u] = NoCall \/ call'[u].kind = call[u].kind)
<1>1. call[u] # NoCall /\ Moves(u)
  BY HandlerMoves
<1>2. \A x : Move(u, x) => call'[u] = x /\ \A v \in Users \ {u} : call'[v] = call[v]
  BY DEF Move, CallInv
<1>3. \A step, tmp : CallAt(u, step, tmp).kind = call[u].kind
  BY DEF CallAt
<1>4. CallBehind(u) = NoCall \/ CallBehind(u).kind = call[u].kind
  BY DEF CallBehind
<1>5. \A step, tmp : Move(u, CallAt(u, step, tmp)) =>
        call'[u].kind = call[u].kind /\ \A v \in Users \ {u} : call'[v] = call[v]
  BY <1>2, <1>3
<1>6. Move(u, CallBehind(u)) =>
        /\ call'[u] = NoCall \/ call'[u].kind = call[u].kind
        /\ \A v \in Users \ {u} : call'[v] = call[v]
  BY <1>2, <1>4
<1> QED
  BY <1>1, <1>5, <1>6 DEF Moves, MoveDis, MoveDisw, MoveCfg, MoveCfgw, MoveSel, MoveOn, MoveOff,
                          MoveEn, MoveEnw, MoveCnt

LEMMA ProgramRead ==
  ASSUME ControlInv, NEW u \in Users, ProgramInv(u), Read(u)
  PROVE  pc' = pc \/ (pc' = [pc EXCEPT ![u] = "fault"] /\ NGp \in GpInit .. NevMax[u] - 1)
<1>1. pc[u] = "measure" /\ pce /\ Enough /\ hw \in Machines
  BY DEF Read, ProgramInv, Setting, ControlInv, Typed
<1>2. /\ NGp \in Nat /\ GpInit \in Nat /\ FfHw \in Nat /\ NFf <= FfHw /\ NFf >= 2 /\ NGp >= GpInit
      /\ Len(evs[u]) \in Nat /\ NevMax[u] \in Nat
  <2>1. evs[u] \in EventSets \cup {<<>>}
    BY DEF ControlInv, Typed
  <2> QED BY <1>1, <2>1, MachineFacts, EnoughFacts, EventsTyped, PmuAssumption
<1>3. Ff(1) \in Counters
  <2>1. 1 \in 0 .. FfHw - 1
    BY <1>1, <1>2, MachineFacts
  <2> QED BY <2>1 DEF Counters, Fixed
<1>4. PICK n \in {k \in {NevMax[u], Len(evs[u])} : k <= NevMax[u]} :
        IF pce /\ {Ff(1)} \cup {Gp(i) : i \in 0 .. n - 1} \subseteq Counters
        THEN UNCHANGED pc
        ELSE pc' = [pc EXCEPT ![u] = "fault"]
  BY DEF Read
<1>5. CASE n <= NGp
  <2>1. \A i \in 0 .. n - 1 : i \in 0 .. NGp - 1
    BY <1>2, <1>5
  <2>2. {Gp(i) : i \in 0 .. n - 1} \subseteq Counters
    BY <2>1 DEF Counters, General
  <2> QED BY <1>1, <1>3, <1>4, <2>2
<1>6. CASE ~(n <= NGp)
  <2>1. NGp \in GpInit .. NevMax[u] - 1
    BY <1>2, <1>6
  <2> QED BY <1>4, <2>1
<1> QED
  BY <1>5, <1>6

LEMMA StepProgram ==
  ASSUME MeasureInv, [Next]_vars, NEW v \in Users
  PROVE  ProgramInv(v)'
<1>1. ControlInv /\ ProgramInv(v)
  BY DEF MeasureInv
<1>2. pc \in [Users -> {"idle", "pce", "masks", "measure", "fault"} \cup FileNames \cup DOMAIN Following]
      /\ fd \in [Users -> [FileNames -> {"none", "live", "dead"}]] /\ call \in [Users -> Calls \cup {NoCall}]
  BY <1>1 DEF ControlInv, Typed, CallInv
<1>3. CASE ModuleNext
  <2>1. hw' = hw /\ pce' \in {pce, TRUE} /\ pc' = pc /\ call' = call
    BY <1>3 DEF ModuleNext, Load, Create, Unload, RemoveGroup, Unloaded, Reset
  <2> QED BY <1>1, <2>1, ProgramStays
<1>4. CASE UNCHANGED vars
  BY <1>1, <1>4, ProgramStays DEF vars
<1>5. ASSUME NEW u \in Users, Handler(u) PROVE ProgramInv(v)'
  <2>1. hw' = hw /\ pce' = pce /\ pc' = pc
    BY <1>1, <1>5, HandlerMoves DEF ControlInv, Kept
  <2> QED BY <1>1, <1>5, <2>1, HandlerKind, ProgramStays DEF ControlInv
<1>6. ASSUME NEW u \in Users, Pwrite(u) PROVE ProgramInv(v)'
  <2>1. hw' = hw /\ pce' = pce /\ call[u] = NoCall /\ (call' = call \/ Move(u, Started(u)))
    BY <1>1, <1>6, PwriteCases
  <2>2. pc[u] \in {"ts_cfg", "ts_cnt", "ev_cfg", "ev_cnt"} /\ pc' = [pc EXCEPT ![u] = Following[pc[u]]]
    BY <1>1, <1>6, PwriteFacts
  <2>3. CASE u # v
    <3>1. call'[v] = call[v] /\ pc'[v] = pc[v]
      BY <1>2, <2>1, <2>2, <2>3 DEF Move
    <3> QED BY <1>1, <2>1, <3>1, ProgramStays
  <2>4. CASE u = v
    <3>1. pc[u] \in Setting /\ pce /\ Enough
      BY <1>1, <2>2, <2>4 DEF Setting, ProgramInv
    <3>2. pc'[u] = Following[pc[u]]
      BY <1>2, <2>2
    <3>3. /\ pc'[u] \in Setting \ {"ts_cfg"}
          /\ KindOf(u) = IF pc'[u] \in {"ts_cnt", "ev_cnt"} THEN "cfg" ELSE "cnt"
      <4>1. pc[u] = "ts_cfg" \/ pc[u] = "ts_cnt" \/ pc[u] = "ev_cfg" \/ pc[u] = "ev_cnt"
        BY <2>2
      <4> QED BY <3>2, <4>1, NameFacts DEF Setting, KindOf
    <3>4. call'[u] # NoCall => call'[u].kind = KindOf(u)
      <4>1. CASE call' = call
        BY <2>1, <4>1
      <4>2. CASE Move(u, Started(u))
        <5>1. call'[u] = Started(u)
          BY <1>2, <4>2 DEF Move
        <5> QED BY <5>1 DEF Started
      <4> QED BY <2>1, <4>1, <4>2
    <3>5. Enough' /\ pce'
      BY <2>1, <3>1, SameEnough
    <3>6. pc'[u] # "fault"
      BY <3>3 DEF Setting
    <3>7. call'[u] # NoCall => /\ pc'[u] \in Setting \ {"ts_cfg"}
                               /\ call'[u].kind = IF pc'[u] \in {"ts_cnt", "ev_cnt"} THEN "cfg" ELSE "cnt"
      BY <3>3, <3>4
    <3> QED BY <2>4, <3>5, <3>6, <3>7 DEF ProgramInv, Setting
  <2> QED BY <2>3, <2>4
<1>7. ASSUME NEW u \in Users, Begin(u) \/ Open(u) \/ ReadPce(u) \/ ReadMasks(u) \/ Read(u) \/ Finish(u)
      PROVE  ProgramInv(v)'
  <2>1. hw' = hw /\ pce' = pce /\ call' = call
    BY <1>7 DEF Begin, Open, ReadPce, ReadMasks, Read, Finish, Stays
  <2>2. pc'[v] = pc[v] => ProgramInv(v)'
    BY <1>1, <2>1, ProgramStays
  <2>3. CASE Read(u)
    <3>1. ProgramInv(u)
      BY DEF MeasureInv
    <3>2. pc' = pc \/ (pc' = [pc EXCEPT ![u] = "fault"] /\ NGp \in GpInit .. NevMax[u] - 1)
      BY <1>1, <2>3, <3>1, ProgramRead
    <3>3. CASE pc'[v] = pc[v]
      BY <2>2, <3>3
    <3>4. CASE pc'[v] # pc[v]
      <4>1. u = v /\ pc'[v] = "fault" /\ NGp \in GpInit .. NevMax[v] - 1 /\ call'[v] = NoCall
        BY <1>2, <2>1, <2>3, <3>2, <3>4 DEF Read
      <4>2. pc'[v] \notin Setting \cup {"masks"} /\ NGp' = NGp
        BY <2>1, <4>1 DEF Setting, NGp
      <4> QED BY <4>1, <4>2 DEF ProgramInv, Setting
    <3> QED BY <3>3, <3>4
  <2>4. CASE u # v
    <3>1. pc'[v] = pc[v]
      BY <1>2, <1>7, <2>4 DEF Begin, Open, ReadPce, ReadMasks, Read, Finish, Quit
    <3> QED BY <2>2, <3>1
  <2>5. CASE u = v /\ ~Read(u)
    <3>1. call[u] = NoCall
      <4>1. CASE Finish(u)
        BY <4>1 DEF Finish
      <4>2. CASE ~Finish(u)
        <5>1. pc[u] \notin Setting
          BY <1>7, <2>5, <4>2, NameFacts DEF Begin, Open, ReadPce, ReadMasks, Setting
        <5> QED BY <1>1, <2>5, <5>1 DEF ProgramInv
      <4> QED BY <4>1, <4>2
    <3>2. /\ pc'[u] \in {"idle", "pce", "masks", "ts_cfg"} \cup FileNames
          /\ pc'[u] = "masks" => pce
          /\ pc'[u] = "ts_cfg" => pc[u] = "masks" /\ Enough
      <4>1. Quit(u) => pc'[u] = "idle"
        BY <1>2 DEF Quit
      <4>2. CASE Begin(u)
        BY <1>2, <4>2, NameFacts DEF Begin
      <4>3. CASE Open(u)
        BY <1>2, <4>1, <4>3, NameFacts DEF Open
      <4>4. CASE ReadPce(u)
        BY <1>2, <4>1, <4>4, NameFacts DEF ReadPce
      <4>5. CASE ReadMasks(u)
        BY <1>2, <4>1, <4>5, NameFacts DEF ReadMasks
      <4>6. CASE Finish(u)
        BY <4>1, <4>6 DEF Finish
      <4> QED BY <1>7, <2>5, <4>2, <4>3, <4>4, <4>5, <4>6
    <3>3. /\ pc'[u] # "fault" /\ (pc'[u] \in Setting => pc'[u] = "ts_cfg")
      BY <3>2, NameFacts DEF Setting
    <3>4. pc[u] = "masks" => pce
      BY <1>1, <2>5 DEF ProgramInv
    <3>5. Enough' = Enough
      BY <2>1, SameEnough
    <3>6. (pc'[u] \in Setting \cup {"masks"} => pce') /\ (pc'[u] \in Setting => Enough')
      BY <2>1, <3>2, <3>3, <3>4, <3>5
    <3> QED BY <2>1, <2>5, <3>1, <3>3, <3>6 DEF ProgramInv, Setting
  <2> QED BY <2>3, <2>4, <2>5
<1> QED
  BY <1>3, <1>4, <1>5, <1>6, <1>7 DEF Next

-----------------------------------------------------------------------------
(* What a program alone on its CPU finds.                                  *)

(* A program sees the same when neither it nor its CPU has changed.        *)
LEMMA SameProgram ==
  ASSUME NEW v \in Users, hw' = hw, evs'[v] = evs[v], pc'[v] = pc[v]
  PROVE  /\ Targets(v)' = Targets(v) /\ Listed(v)' = Listed(v) /\ Asked(v)' = Asked(v) /\ Basic' = Basic
         /\ \A x : WordFor(v, x)' = WordFor(v, x)
<1>1. Fixed' = Fixed /\ NGp' = NGp
  BY SameMachine DEF NGp
<1>2. Listed(v)' = Listed(v) /\ Asked(v)' = Asked(v) /\ Basic' = Basic
  BY <1>1 DEF Listed, FirstGp, Asked, Basic
<1> QED
  BY <1>1, <1>2 DEF Targets, WordFor

LEMMA SameConfig ==
  ASSUME hw' = hw, NEW c \in Cpus, glob'[c] = glob[c], fctl'[c] = fctl[c], sel'[c] = sel[c]
  PROVE  /\ \A x, w : HasWord(c, x, w)' <=> HasWord(c, x, w)
         /\ \A x : Enables(c, x)' <=> Enables(c, x)
<1>1. Fixed' = Fixed
  BY SameMachine
<1> QED
  BY <1>1 DEF HasWord, Enables

LEMMA AloneStays ==
  ASSUME NEW v \in Users, AloneInv(v), hw' = hw, evs'[v] = evs[v], pc'[v] = pc[v], call'[v] = call[v],
         glob'[Cpu(v)] = glob[Cpu(v)], fctl'[Cpu(v)] = fctl[Cpu(v)],
         sel'[Cpu(v)] = sel[Cpu(v)], old'[Cpu(v)] = old[Cpu(v)],
         alone'[v] => alone[v] /\ Only(v)'
  PROVE  AloneInv(v)'
<1> SUFFICES ASSUME alone'[v]
             PROVE  /\ Only(v)' /\ (call'[v] # NoCall => Going(v)')
                    /\ (pc'[v] \in Setting \ {"ts_cfg"} => Reached(v)')
  BY DEF AloneInv, Setting
<1> DEFINE c == Cpu(v)
<1>1. /\ alone[v] /\ (call[v] # NoCall => Going(v)) /\ (pc[v] \in Setting \ {"ts_cfg"} => Reached(v))
      /\ Only(v)' /\ c \in Cpus /\ Cpu(v)' = c
  BY PmuAssumption DEF AloneInv, Cpu
<1>2. /\ Targets(v)' = Targets(v) /\ Listed(v)' = Listed(v) /\ Asked(v)' = Asked(v) /\ Basic' = Basic
      /\ \A x : WordFor(v, x)' = WordFor(v, x)
  BY SameProgram
<1>3. Left(v)' = Left(v) /\ Ctr(v)' = Ctr(v) /\ Word(v)' = Word(v)
  BY DEF Left, Ctr, Word
<1>4. /\ \A x, w : HasWord(c, x, w)' <=> HasWord(c, x, w)
      /\ \A x : Enables(c, x)' <=> Enables(c, x)
  BY <1>1, SameConfig
<1>5. call[v] # NoCall => Going(v)'
  <2> SUFFICES ASSUME call[v] # NoCall PROVE Going(v)'
    OBVIOUS
  <2>1. Fresh(v)'
    BY <1>1, <1>3 DEF Going, Fresh
  <2>2. (Left(v) \subseteq IF Asked(v) THEN Listed(v) ELSE Basic)'
    BY <1>1, <1>2, <1>3 DEF Going
  <2>3. call'[v].kind = "cfg" => \A t \in Range(call'[v].todo) : t.word = WordFor(v, t.ctr)'
    BY <1>1, <1>2 DEF Going
  <2>4. call'[v].step \in {"test", "en", "enw"} => HasWord(Cpu(v), Ctr(v), Word(v))'
    BY <1>1, <1>3, <1>4 DEF Going
  <2>5. call'[v].step \in {"en", "enw"} => Enables(Cpu(v), Ctr(v))'
    BY <1>1, <1>3, <1>4 DEF Going
  <2> QED BY <2>1, <2>2, <2>3, <2>4, <2>5 DEF Going
<1>6. \A x : Given(v, x)' <=> Given(v, x)
  BY <1>1, <1>2, <1>3, <1>4 DEF Given, Configured
<1>7. \A x : Counted(v, x)' <=> Counted(v, x)
  BY <1>1, <1>2, <1>3 DEF Counted
<1>8. Reached(v) => Reached(v)'
  BY <1>2, <1>6, <1>7 DEF Reached
<1> QED
  BY <1>1, <1>5, <1>8

LEMMA SameAt ==
  ASSUME hw' = hw, NEW c \in Cpus, NEW y, y \in fctl'[c] <=> y \in fctl[c], sel'[c][y] = sel[c][y]
  PROVE  (\A w : HasWord(c, y, w)' <=> HasWord(c, y, w)) /\ (Enables(c, y)' <=> Enables(c, y))
<1>1. Fixed' = Fixed
  BY SameMachine
<1> QED
  BY <1>1 DEF HasWord, Enables

(* The return of a call, or its next counter, leaves one counter behind.   *)
LEMMA LeftBehind ==
  ASSUME CallInv, NEW u \in Users, call[u] # NoCall, Move(u, CallBehind(u))
  PROVE  /\ Range(call'[u].todo) \subseteq Range(call[u].todo)
         /\ Left(u) \subseteq Left(u)' \cup {Ctr(u)} /\ Left(u)' \subseteq Left(u)
         /\ call'[u].step \in {"none", "dis", "cnt"}
<1> DEFINE todo == call[u].todo
<1>1. call'[u] = CallBehind(u) /\ todo \in Seq(Entry) /\ todo # <<>> /\ Ctr(u) = Head(todo).ctr
  BY InCall DEF Move, CallInv, Ctr
<1>2. Len(todo) \in Nat /\ Len(todo) # 0 /\ Head(todo) = todo[1] /\ DOMAIN todo = 1 .. Len(todo)
  BY <1>1, EmptySeq
<1>3. Range(todo) = {todo[i] : i \in 1 .. Len(todo)}
  BY <1>2 DEF Range
<1>4. /\ Range(call'[u].todo) \subseteq Range(todo)
      /\ Range(todo) \subseteq Range(call'[u].todo) \cup {Head(todo)}
      /\ call'[u].step \in {"none", "dis", "cnt"}
  <2>1. CASE Len(todo) = 1
    <3>1. call'[u].todo = <<>> /\ call'[u].step = "none"
      BY <1>1, <2>1, NoCallFacts DEF CallBehind
    <3>2. Range(call'[u].todo) = {}
      BY <3>1 DEF Range
    <3>3. Range(todo) = {Head(todo)}
      BY <1>2, <1>3, <2>1
    <3> QED BY <3>1, <3>2, <3>3
  <2>2. CASE Len(todo) # 1
    <3>1. call'[u].todo = Tail(todo) /\ call'[u].step \in {"dis", "cnt"}
      BY <1>1, <2>2 DEF CallBehind
    <3> DEFINE t == Tail(todo)
    <3>2. /\ t \in Seq(Entry) /\ Len(t) = Len(todo) - 1
          /\ \A i \in 1 .. Len(t) : t[i] = todo[i + 1]
      BY <1>1, HeadTailProperties
    <3> HIDE DEF t, todo
    <3>3. Len(t) \in Nat /\ DOMAIN t = 1 .. Len(t)
      BY <3>2
    <3>4. Range(t) = {t[i] : i \in 1 .. Len(t)}
      BY <3>3 DEF Range
    <3>5. \A i \in 1 .. Len(t) : i + 1 \in 1 .. Len(todo)
      BY <1>2, <3>2, <3>3
    <3>6. Range(t) \subseteq Range(todo)
      BY <1>3, <3>2, <3>4, <3>5
    <3>7. \A i \in 1 .. Len(todo) : i = 1 \/ (i - 1 \in 1 .. Len(t) /\ (i - 1) + 1 = i)
      BY <1>2, <3>2
    <3>8. \A i \in 1 .. Len(todo) : todo[i] \in Range(t) \cup {Head(todo)}
      BY <1>2, <3>2, <3>4, <3>7
    <3> QED BY <1>3, <3>1, <3>6, <3>8 DEF t, todo
  <2> QED BY <2>1, <2>2
<1>5. Left(u) = {t.ctr : t \in Range(todo)} /\ Left(u)' = {t.ctr : t \in Range(call'[u].todo)}
  BY DEF Left
<1> HIDE DEF todo
<1> QED
  BY <1>1, <1>4, <1>5 DEF todo

LEMMA HandlerAlone ==
  ASSUME MeasureInv, NEW u \in Users, Handler(u)
  PROVE  AloneInv(u)'
<1> DEFINE c == Cpu(u)  x == Ctr(u)
<1>1. /\ ControlInv /\ CallInv /\ Registers /\ ProgramInv(u) /\ AloneInv(u)
      /\ c \in Cpus /\ Cpu(u)' = c
  BY PmuAssumption DEF MeasureInv, ControlInv, Typed, Registers, Cpu
<1>2. /\ call[u] # NoCall /\ Moves(u) /\ hw' = hw /\ pc' = pc /\ evs' = evs /\ alone' = alone
      /\ CallInv' /\ Fresh(u)'
  BY <1>1, HandlerMoves, HandlerFresh, HandlerCall DEF Kept, ControlInv
<1>3. /\ x \in Exported /\ Head(call[u].todo) \in Range(call[u].todo) /\ CallOK(call[u])
      /\ x = Head(call[u].todo).ctr /\ Word(u) = Head(call[u].todo).word
      /\ x \in Left(u)
  BY <1>1, <1>2, InCall DEF Ctr, Word, Left
<1> SUFFICES ASSUME alone[u]
             PROVE  Only(u)' /\ (call'[u] # NoCall => Going(u)') /\ Reached(u)'
  BY <1>2 DEF AloneInv, Setting
<1>4. Only(u) /\ Going(u) /\ Reached(u)
  BY <1>1, <1>2 DEF AloneInv, ProgramInv
<1>5. Only(u)'
  BY <1>1, <1>4, HandlerKind DEF Only
<1>6. /\ pc[u] \in Setting \ {"ts_cfg"}
      /\ call[u].kind = "cfg" <=> pc[u] \in {"ts_cnt", "ev_cnt"}
      /\ call[u].step # "cnt" <=> call[u].kind = "cfg"
  BY <1>1, <1>2, <1>3, InCall DEF ProgramInv, CallOK, Calls
<1>7. /\ Targets(u)' = Targets(u) /\ Listed(u)' = Listed(u) /\ Asked(u)' = Asked(u) /\ Basic' = Basic
      /\ \A y : WordFor(u, y)' = WordFor(u, y)
  BY <1>2, SameProgram
<1>8. call[u].kind = "cfg" => Word(u) = WordFor(u, x)
  BY <1>3, <1>4 DEF Going
<1>9. ASSUME NEW step, NEW tmp, Move(u, CallAt(u, step, tmp))
      PROVE  /\ Left(u)' = Left(u) /\ call'[u].step = step /\ Ctr(u)' = x /\ Word(u)' = Word(u)
             /\ call'[u].todo = call[u].todo /\ call'[u].kind = call[u].kind
  <2>1. call'[u] = CallAt(u, step, tmp)
    BY <1>1, <1>9 DEF Move, CallInv
  <2>2. call'[u].todo = call[u].todo /\ call'[u].kind = call[u].kind /\ call'[u].step = step
    BY <2>1 DEF CallAt
  <2> QED BY <2>2 DEF Left, Ctr, Word
<1>10. ASSUME Move(u, CallBehind(u))
       PROVE  /\ Range(call'[u].todo) \subseteq Range(call[u].todo)
              /\ Left(u) \subseteq Left(u)' \cup {x} /\ Left(u)' \subseteq Left(u)
              /\ call'[u].step \in {"none", "dis", "cnt"}
  BY <1>1, <1>2, <1>10, LeftBehind
<1>11. ASSUME Range(call'[u].todo) \subseteq Range(call[u].todo), Left(u)' \subseteq Left(u),
              call'[u].step \in {"test", "en", "enw"} => HasWord(Cpu(u), Ctr(u), Word(u))',
              call'[u].step \in {"en", "enw"} => Enables(Cpu(u), Ctr(u))'
       PROVE  call'[u] # NoCall => Going(u)'
  <2> SUFFICES ASSUME call'[u] # NoCall PROVE Going(u)'
    OBVIOUS
  <2>1. call'[u].kind = call[u].kind
    BY <1>1, HandlerKind
  <2>2. (Left(u) \subseteq IF Asked(u) THEN Listed(u) ELSE Basic)'
    BY <1>4, <1>7, <1>11 DEF Going
  <2>3. call'[u].kind = "cfg" => \A t \in Range(call'[u].todo) : t.word = WordFor(u, t.ctr)'
    BY <1>4, <1>7, <1>11, <2>1 DEF Going
  <2> QED BY <1>2, <1>11, <2>2, <2>3 DEF Going
<1> HIDE DEF c, x
(* Counters other than x keep their configuration, and x its own unless    *)
(* the step sets it.                                                       *)
<1>12. ASSUME NEW y, y \in fctl'[c] <=> y \in fctl[c], sel'[c][y] = sel[c][y]
       PROVE  /\ HasWord(Cpu(u), y, WordFor(u, y))' <=> HasWord(c, y, WordFor(u, y))
              /\ Enables(Cpu(u), y)' <=> Enables(c, y)
  <2>1. Fixed' = Fixed
    BY <1>2, SameMachine
  <2> QED BY <1>1, <1>7, <1>12, <2>1 DEF HasWord, Enables, c
<1>13. ASSUME NEW y, Configured(u, y), y \in fctl'[c] <=> y \in fctl[c], sel'[c][y] = sel[c][y],
              y \in glob[c] => y \in glob'[c]
       PROVE  Configured(u, y)'
  BY <1>1, <1>12, <1>13 DEF Configured, c
(* Reads, and the write that disables nothing.                             *)
<1>14. CASE MoveDis(u) \/ MoveDisw(u) \/ MoveCfg(u) \/ MoveOn(u) \/ MoveEn(u)
  <2>1. glob'[c] = glob[c] /\ fctl' = fctl /\ sel' = sel /\ old' = old
    <3>1. CASE MoveDisw(u)
      <4>1. call[u].tmp = glob[c]
        BY <1>4, <3>1 DEF Going, Fresh, MoveDisw, c
      <4>2. glob'[c] = (glob[c] \ Exported) \cup (call[u].tmp \cap Exported)
        BY <1>1, <3>1 DEF MoveDisw, Registers, c
      <4> QED BY <3>1, <4>1, <4>2 DEF MoveDisw
    <3>2. CASE ~MoveDisw(u)
      BY <1>14, <3>2 DEF MoveDis, MoveCfg, MoveOn, MoveEn, machine
    <3> QED BY <3>1, <3>2
  <2>2. PICK step, tmp : /\ step \in {"disw", "cfg", "cfgw", "en", "enw"}
                         /\ Move(u, CallAt(u, step, tmp))
    BY <1>14 DEF MoveDis, MoveDisw, MoveCfg, MoveOn, MoveEn
  <2>3. call'[u] # NoCall => Going(u)'
    <3>1. call'[u].step = step /\ Ctr(u)' = x /\ Word(u)' = Word(u)
          /\ call'[u].todo = call[u].todo /\ Left(u)' = Left(u)
      BY <1>9, <2>2
    <3>2. call'[u].step \in {"test", "en", "enw"} =>
            HasWord(c, x, Word(u)) /\ Enables(c, x)
      <4>1. CASE MoveOn(u) \/ MoveEn(u)
        BY <1>4, <4>1 DEF Going, MoveOn, MoveEn, c, x
      <4>2. CASE ~(MoveOn(u) \/ MoveEn(u))
        <5>1. call'[u].step \in {"disw", "cfg", "cfgw"}
          BY <1>9, <1>14, <4>2 DEF MoveDis, MoveDisw, MoveCfg
        <5> QED BY <5>1
      <4> QED BY <4>1, <4>2
    <3>3. /\ call'[u].step \in {"test", "en", "enw"} => HasWord(Cpu(u), Ctr(u), Word(u))'
          /\ call'[u].step \in {"en", "enw"} => Enables(Cpu(u), Ctr(u))'
      BY <1>1, <1>2, <2>1, <3>1, <3>2, SameConfig
    <3> QED BY <1>11, <3>1, <3>3
  <2>4. Reached(u)'
    <3>1. Left(u)' = Left(u)
      BY <1>9, <2>2
    <3>2. \A y : Given(u, y) => Given(u, y)'
      BY <1>2, <1>13, <2>1, <3>1 DEF Given
    <3>3. \A y : Counted(u, y) => Counted(u, y)'
      BY <1>1, <1>2, <1>7, <2>1, <3>1 DEF Counted
    <3> QED BY <1>4, <1>7, <3>2, <3>3 DEF Reached
  <2> QED BY <1>5, <2>3, <2>4
(* The write of the configuration.                                         *)
<1>15. CASE MoveCfgw(u) \/ MoveSel(u)
  <2>1. /\ Move(u, CallAt(u, "test", {})) /\ call[u].step # "cnt"
        /\ glob' = glob /\ old'[c] = old[c] \cup {x}
    BY <1>1, <1>15 DEF MoveCfgw, MoveSel, Registers, c, x
  <2>2. \A y : y # x => (y \in fctl'[c] <=> y \in fctl[c]) /\ sel'[c][y] = sel[c][y]
    <3>1. CASE MoveCfgw(u)
      <4>1. call[u].tmp = fctl[c]
        BY <1>4, <3>1 DEF Going, Fresh, MoveCfgw, c
      <4>2. fctl'[c] = (fctl[c] \ Exported) \cup (Field(u) \cap Exported) /\ sel' = sel
        BY <1>1, <3>1 DEF MoveCfgw, Registers, c
      <4>3. \A y : y # x => (y \in Field(u) <=> y \in fctl[c])
        BY <4>1 DEF Field, x
      <4> QED BY <4>2, <4>3
    <3>2. CASE MoveSel(u)
      <4>1. fctl' = fctl /\ \A y : y # x => sel'[c][y] = sel[c][y]
        BY <1>1, <3>2 DEF MoveSel, Registers, c, x
      <4> QED BY <4>1
    <3> QED BY <1>15, <3>1, <3>2
  <2>3. HasWord(c, x, Word(u))'
    <3>1. CASE MoveCfgw(u)
      <4>1. x \in Fixed /\ Fixed' = Fixed
        BY <1>2, <1>3, <3>1, SameMachine DEF MoveCfgw, CallOK, NoCall
      <4>2. fctl'[c] = (fctl[c] \ Exported) \cup (Field(u) \cap Exported)
        BY <1>1, <3>1 DEF MoveCfgw, Registers, c
      <4>3. x \in Field(u) <=> Word(u) # "off"
        BY DEF Field, x
      <4>4. x \in fctl'[c] <=> Word(u) # "off"
        BY <1>3, <4>2, <4>3
      <4>5. Word(u)' = Word(u) /\ c' = c /\ x' = x
        BY <1>1, <1>9, <2>1 DEF c, x
      <4> QED BY <4>1, <4>4, <4>5 DEF HasWord
    <3>2. CASE MoveSel(u)
      <4>1. x \in General /\ x \notin Fixed /\ Fixed' = Fixed
        BY <1>2, <3>2, CounterKinds, SameMachine DEF MoveSel, x
      <4>2. sel'[c][x] = GpCfg(x[2], Word(u))
        BY <1>1, <3>2, <4>1 DEF MoveSel, Registers, c, x
      <4>3. Word(u)' = Word(u) /\ c' = c /\ x' = x
        BY <1>1, <1>9, <2>1 DEF c, x
      <4> QED BY <4>1, <4>2, <4>3 DEF HasWord
    <3> QED BY <1>15, <3>1, <3>2
  <2>4. call'[u] # NoCall => Going(u)'
    <3>1. call'[u].step = "test" /\ call'[u].todo = call[u].todo /\ Left(u)' = Left(u)
      BY <1>9, <2>1
    <3>2. call'[u].step \in {"test", "en", "enw"} => HasWord(Cpu(u), Ctr(u), Word(u))'
      BY <2>3 DEF c, x
    <3> QED BY <1>11, <3>1, <3>2
  <2>5. Reached(u)'
    <3>1. Left(u)' = Left(u)
      BY <1>9, <2>1
    <3>2. \A y : Given(u, y) => Given(u, y)'
      BY <1>2, <1>3, <1>6, <1>13, <2>1, <2>2, <3>1 DEF Given
    <3>3. ASSUME NEW y, Counted(u, y) PROVE Counted(u, y)'
      <4>1. CASE y \in Left(u) \/ pc[u] = "ts_cnt" \/ (pc[u] = "ev_cnt" /\ y \in Listed(u))
        BY <1>2, <1>7, <3>1, <4>1 DEF Counted
      <4>2. CASE y \notin Left(u) /\ y \notin old[c]
        <5>1. y \notin old'[c]
          BY <1>3, <2>1, <4>2
        <5> QED BY <1>1, <5>1 DEF Counted, c
      <4> QED BY <3>3, <4>1, <4>2 DEF Counted, c
    <3> QED BY <1>4, <1>7, <3>2, <3>3 DEF Reached
  <2> QED BY <1>5, <2>4, <2>5
(* The end of a counter.                                                   *)
<1>16. CASE MoveOff(u) \/ MoveEnw(u) \/ MoveCnt(u)
  <2>1. Move(u, CallBehind(u)) /\ fctl' = fctl /\ sel' = sel
    BY <1>16 DEF MoveOff, MoveEnw, MoveCnt, machine
  <2>2. call'[u] # NoCall => Going(u)'
    BY <1>10, <1>11, <2>1
  <2>3. \A y : y \in glob[c] => y \in glob'[c]
    <3>1. CASE MoveEnw(u)
      <4>1. call[u].tmp = glob[c] \cup {x}
        BY <1>4, <3>1 DEF Going, Fresh, MoveEnw, c, x
      <4>2. glob'[c] = (glob[c] \ Exported) \cup (call[u].tmp \cap Exported)
        BY <1>1, <3>1 DEF MoveEnw, Registers, c
      <4> QED BY <4>1, <4>2
    <3>2. CASE MoveOff(u) \/ MoveCnt(u)
      BY <3>2 DEF MoveOff, MoveCnt, machine
    <3> QED BY <1>16, <3>1, <3>2
  <2>4. ASSUME NEW y, y = x, call[u].step # "cnt" PROVE Configured(u, y)'
    <3>1. CASE MoveEnw(u)
      <4>1. call[u].tmp = glob[c] \cup {x} /\ HasWord(c, x, Word(u))
        BY <1>4, <3>1 DEF Going, Fresh, MoveEnw, c, x
      <4>2. glob'[c] = (glob[c] \ Exported) \cup (call[u].tmp \cap Exported)
        BY <1>1, <3>1 DEF MoveEnw, Registers, c
      <4>3. y \in glob'[c]
        BY <1>3, <2>4, <4>1, <4>2
      <4>4. HasWord(c, y, WordFor(u, y))
        BY <1>6, <1>8, <2>4, <4>1
      <4>5. HasWord(Cpu(u), y, WordFor(u, y))'
        BY <1>12, <2>1, <4>4
      <4> QED BY <1>1, <4>3, <4>5 DEF Configured, c
    <3>2. CASE MoveOff(u)
      <4>1. HasWord(c, x, Word(u)) /\ ~Enables(c, x)
        BY <1>4, <3>2 DEF Going, MoveOff, c, x
      <4>2. HasWord(c, y, WordFor(u, y)) /\ ~Enables(c, y)
        BY <1>6, <1>8, <2>4, <4>1
      <4>3. Configured(u, y)
        BY <4>2 DEF Configured, c
      <4> QED BY <1>13, <2>1, <2>3, <4>3
    <3>3. CASE MoveCnt(u)
      BY <2>4, <3>3 DEF MoveCnt
    <3> QED BY <1>16, <3>1, <3>2, <3>3
  <2>5. ASSUME NEW y, Given(u, y) PROVE Given(u, y)'
    <3>1. CASE Configured(u, y)
      <4>1. Configured(u, y)'
        BY <1>13, <2>1, <2>3, <3>1
      <4> QED BY <4>1 DEF Given
    <3>2. CASE y \in Left(u) /\ pc[u] \in {"ts_cnt", "ev_cnt"}
      <4>1. call[u].step # "cnt"
        BY <1>6, <3>2
      <4>2. y \in Left(u)' \/ y = x
        BY <1>10, <2>1, <3>2
      <4>3. CASE y \in Left(u)'
        BY <1>2, <3>2, <4>3 DEF Given
      <4>4. CASE y = x
        BY <2>4, <4>1, <4>4 DEF Given
      <4> QED BY <4>2, <4>3, <4>4
    <3> QED BY <2>5, <3>1, <3>2 DEF Given
  <2>6. ASSUME NEW y, y \in Targets(u), Counted(u, y) PROVE Counted(u, y)'
    <3>1. CASE pc[u] = "ts_cnt" \/ (pc[u] = "ev_cnt" /\ y \in Listed(u)) \/ y \in Left(u)'
      BY <1>2, <1>7, <3>1 DEF Counted
    <3>2. old'[c] = IF MoveCnt(u) THEN old[c] \ {x} ELSE old[c]
      BY <1>1, <1>16 DEF MoveOff, MoveEnw, MoveCnt, machine, Registers, c, x
    <3>3. CASE ~(pc[u] = "ts_cnt" \/ (pc[u] = "ev_cnt" /\ y \in Listed(u)) \/ y \in Left(u)')
      <4>1. y \notin old'[c]
        <5>1. CASE y \in Left(u)
          <6>1. y = x
            BY <1>10, <2>1, <3>3, <5>1
          <6>2. pc[u] # "ev_cnt"
            BY <1>4, <3>3, <5>1 DEF Going, Asked
          <6>3. MoveCnt(u)
            BY <1>6, <1>16, <3>3, <6>2 DEF MoveOff, MoveEnw
          <6> QED BY <3>2, <6>1, <6>3
        <5>2. CASE y \notin Left(u)
          <6>1. y \notin old[c]
            BY <2>6, <3>3, <5>2 DEF Counted, c
          <6> QED BY <3>2, <6>1
        <5> QED BY <5>1, <5>2
      <4> QED BY <1>1, <4>1 DEF Counted, c
    <3> QED BY <3>1, <3>3
  <2>7. Reached(u)'
    BY <1>4, <1>7, <2>5, <2>6 DEF Reached
  <2> QED BY <1>5, <2>2, <2>7
<1> QED
  BY <1>2, <1>14, <1>15, <1>16 DEF Moves

(* A write starts a call for all counters it names, when all those of the  *)
(* call before are configured.                                             *)
LEMMA PwriteTargets ==
  ASSUME MeasureInv, NEW u \in Users, Pwrite(u)
  PROVE  /\ pc[u] = "ts_cfg" => pc'[u] = "ts_cnt" /\ Targets(u)' = Basic
         /\ pc[u] = "ts_cnt" => pc'[u] = "ev_cfg" /\ Targets(u)' = Basic
         /\ pc[u] = "ev_cfg" => pc'[u] = "ev_cnt" /\ Targets(u)' = Basic \cup Listed(u)'
         /\ pc[u] = "ev_cnt" => /\ pc'[u] = "measure" /\ Targets(u)' = Basic \cup Listed(u)'
                                /\ Listed(u)' = Listed(u)
         /\ pc[u] \in {"ts_cfg", "ts_cnt"} =>
              /\ CallTodo(u) # <<>> /\ Covers(CallTodo(u), Basic)
              /\ \A t \in Range(CallTodo(u)) : t.word = WordFor(u, t.ctr)'
         /\ pc[u] \in {"ev_cfg", "ev_cnt"} =>
              /\ Covers(CallTodo(u), Listed(u)')
              /\ \A t \in Range(CallTodo(u)) : t.word = WordFor(u, t.ctr)'
<1>1. ControlInv /\ ProgramInv(u) /\ ControlInv' /\ hw' = hw /\ hw \in Machines
  BY StepControl, PwriteCases DEF MeasureInv, Next, ControlInv, Typed
<1>2. /\ pc[u] \in {"ts_cfg", "ts_cnt", "ev_cfg", "ev_cnt"} /\ pc'[u] = Following[pc[u]]
      /\ pc[u] # "ev_cfg" => evs' = evs
      /\ pc[u] \in {"ts_cfg", "ts_cnt"} => CallTodo(u) = Todo(0, InitWords)
      /\ pc[u] \in {"ev_cfg", "ev_cnt"} => CallTodo(u) = Todo(MaxFf, evs'[u])
      /\ evs'[u] \in Seq(Words)
  BY <1>1, PwriteFacts DEF ControlInv, Typed
<1>3. Enough /\ Enough'
  BY <1>1, <1>2, SameEnough DEF ProgramInv, Setting
<1>4. /\ pc[u] = "ts_cfg" => pc'[u] = "ts_cnt"
      /\ pc[u] = "ts_cnt" => pc'[u] = "ev_cfg"
      /\ pc[u] = "ev_cfg" => pc'[u] = "ev_cnt"
      /\ pc[u] = "ev_cnt" => pc'[u] = "measure"
  BY <1>2, NameFacts
<1>5. Basic' = Basic /\ Fixed' = Fixed /\ NGp' = NGp
  BY <1>1, SameMachine DEF Basic, NGp
<1>6. /\ pc[u] \in {"ts_cfg", "ts_cnt"} => ~Asked(u)'
      /\ pc[u] \in {"ev_cfg", "ev_cnt"} => Asked(u)'
  BY <1>4 DEF Asked
<1>7. pc[u] \in {"ts_cfg", "ts_cnt"} =>
        /\ CallTodo(u) # <<>> /\ Covers(CallTodo(u), Basic)
        /\ \A t \in Range(CallTodo(u)) : t.word = WordFor(u, t.ctr)'
  BY <1>1, <1>2, <1>3, <1>5, <1>6, BasicTodo DEF WordFor
<1>8. ASSUME pc[u] \in {"ev_cfg", "ev_cnt"}
      PROVE  /\ Covers(CallTodo(u), Listed(u)')
             /\ \A t \in Range(CallTodo(u)) : t.word = WordFor(u, t.ctr)'
  <2>1. /\ Covers(CallTodo(u), FirstGp(Len(evs'[u])))
        /\ \A t \in Range(CallTodo(u)) : t.word = evs'[u][t.ctr[2] + 1]
    BY <1>1, <1>2, <1>3, <1>8, ListedTodo
  <2>2. Listed(u)' = FirstGp(Len(evs'[u]))
    BY <1>5 DEF Listed, FirstGp
  <2>3. \A t \in Range(CallTodo(u)) : t.ctr \in Listed(u)'
    BY <2>1, <2>2 DEF Covers
  <2> QED BY <1>6, <1>8, <2>1, <2>2, <2>3 DEF WordFor
<1>9. pc[u] = "ev_cnt" => Listed(u)' = Listed(u)
  BY <1>2, <1>5 DEF Listed, FirstGp
<1> QED
  BY <1>4, <1>5, <1>6, <1>7, <1>8, <1>9 DEF Targets

LEMMA PwriteAlone ==
  ASSUME MeasureInv, NEW u \in Users, Pwrite(u)
  PROVE  AloneInv(u)'
<1> DEFINE c == Cpu(u)
<1>1. /\ ControlInv /\ ProgramInv(u) /\ AloneInv(u) /\ c \in Cpus /\ Cpu(u)' = c
      /\ call \in [Users -> Calls \cup {NoCall}] /\ alone \in [Users -> BOOLEAN]
  BY PmuAssumption DEF MeasureInv, Cpu, ControlInv, CallInv, Typed
<1>2. /\ hw' = hw /\ glob' = glob /\ fctl' = fctl /\ sel' = sel /\ old' = old /\ call[u] = NoCall
      /\ Fixed' = Fixed /\ Basic' = Basic
  BY <1>1, PwriteCases, SameMachine DEF machine, Basic
<1>3. pc[u] \in {"ts_cfg", "ts_cnt", "ev_cfg", "ev_cnt"}
  BY <1>1, PwriteFacts
<1> SUFFICES ASSUME alone'[u]
             PROVE  Only(u)' /\ (call'[u] # NoCall => Going(u)')
                    /\ (pc'[u] \in Setting \ {"ts_cfg"} => Reached(u)')
  BY DEF AloneInv, Setting
<1>4. /\ alone[u] /\ fd[u][KindOf(u)] = "live"
      /\ \/ CallTodo(u) # <<>> /\ Move(u, Started(u))
         \/ CallTodo(u) = <<>> /\ call' = call
  <2>1. CASE fd[u][KindOf(u)] = "live"
    BY <1>1, <2>1, PwriteCases
  <2>2. CASE fd[u][KindOf(u)] # "live"
    <3>1. alone' = [alone EXCEPT ![u] = FALSE]
      BY <1>1, <2>2, PwriteCases
    <3> QED BY <1>1, <3>1
  <2> QED BY <2>1, <2>2
<1>5. Only(u) /\ (pc[u] # "ts_cfg" => Reached(u))
  BY <1>1, <1>3, <1>4 DEF AloneInv, Setting
<1>6. Only(u)'
  <2>1. \A v \in Users \ {u} : call'[v] = call[v]
    BY <1>1, <1>4 DEF Move
  <2> QED BY <1>5, <2>1 DEF Only
<1>7. /\ call'[u].todo = CallTodo(u)
      /\ call'[u] # NoCall => call'[u].step \in {"dis", "cnt"}
  <2>1. CASE CallTodo(u) # <<>> /\ Move(u, Started(u))
    <3>1. call'[u] = Started(u)
      BY <1>1, <2>1 DEF Move
    <3> QED BY <3>1 DEF Started
  <2>2. CASE CallTodo(u) = <<>> /\ call' = call
    BY <1>2, <2>2, NoCallFacts
  <2> QED BY <1>4, <2>1, <2>2
<1>8. Left(u)' = {t.ctr : t \in Range(CallTodo(u))} /\ Left(u) = {}
  <2>1. Range(<<>>) = {}
    BY DEF Range
  <2> QED BY <1>2, <1>7, <2>1, NoCallFacts DEF Left
<1>9. /\ pc[u] \in {"ts_cfg", "ts_cnt"} => Left(u)' = Basic
      /\ pc[u] \in {"ev_cfg", "ev_cnt"} => Left(u)' = Listed(u)'
  BY <1>8, PwriteTargets DEF Covers
<1>10. call'[u] # NoCall => Going(u)'
  <2> SUFFICES ASSUME call'[u] # NoCall PROVE Going(u)'
    OBVIOUS
  <2>1. call'[u].step \in {"dis", "cnt"}
    BY <1>7
  <2>2. Fresh(u)'
    BY <2>1 DEF Fresh
  <2>3. (Left(u) \subseteq IF Asked(u) THEN Listed(u) ELSE Basic)'
    BY <1>2, <1>3, <1>9, PwriteTargets DEF Asked
  <2>4. \A t \in Range(call'[u].todo) : t.word = WordFor(u, t.ctr)'
    BY <1>3, <1>7, PwriteTargets
  <2> QED BY <2>1, <2>2, <2>3, <2>4 DEF Going
(* What was configured stays so, unless the program now asks for more.     *)
<1>11. ASSUME NEW y, pc[u] # "ts_cfg", y \in Targets(u), pc[u] = "ev_cfg" => y \notin Listed(u)'
       PROVE  Configured(u, y)' /\ y \in Targets(u)'
  <2>1. Configured(u, y)
    BY <1>5, <1>8, <1>11 DEF Reached, Given
  <2>2. WordFor(u, y)' = WordFor(u, y)
    <3>1. pc[u] = "ev_cfg" \/ evs' = evs
      BY <1>1, PwriteFacts
    <3>2. CASE pc[u] = "ts_cnt"
      BY <1>2, <3>2, PwriteTargets DEF WordFor, Asked
    <3>3. CASE pc[u] = "ev_cfg"
      BY <1>2, <1>11, <3>3, PwriteTargets DEF WordFor, Asked
    <3>4. CASE pc[u] = "ev_cnt"
      BY <1>2, <3>1, <3>4, PwriteTargets DEF WordFor, Asked
    <3> QED BY <1>3, <1>11, <3>2, <3>3, <3>4
  <2>3. Configured(u, y)'
    BY <1>1, <1>2, <2>1, <2>2 DEF Configured, HasWord, Enables
  <2>4. y \in Targets(u)'
    BY <1>3, <1>11, PwriteTargets DEF Targets, Asked
  <2> QED BY <2>3, <2>4
<1>12. ASSUME NEW y, y \in Targets(u)' PROVE Given(u, y)' /\ Counted(u, y)'
  <2>1. CASE pc[u] = "ts_cfg"
    <3>1. y \in Left(u)' /\ pc'[u] = "ts_cnt"
      BY <1>9, <1>12, <2>1, PwriteTargets
    <3> QED BY <3>1 DEF Given, Counted
  <2>2. CASE pc[u] = "ts_cnt"
    <3>1. y \in Left(u)' /\ y \in Targets(u)
      BY <1>9, <1>12, <2>2, PwriteTargets DEF Targets, Asked
    <3>2. Configured(u, y)'
      BY <1>11, <2>2, <3>1
    <3> QED BY <3>1, <3>2 DEF Given, Counted
  <2>3. CASE pc[u] = "ev_cfg"
    <3>1. pc'[u] = "ev_cnt" /\ Left(u)' = Listed(u)'
      BY <1>9, <2>3, PwriteTargets
    <3>2. CASE y \in Listed(u)'
      BY <3>1, <3>2 DEF Given, Counted
    <3>3. CASE y \notin Listed(u)'
      <4>1. y \in Targets(u)
        BY <1>12, <2>3, <3>3, PwriteTargets DEF Targets, Asked
      <4>2. Configured(u, y)'
        BY <1>11, <2>3, <3>3, <4>1
      <4>3. y \notin old[c]
        BY <1>5, <1>8, <2>3, <4>1 DEF Reached, Counted
      <4> QED BY <1>1, <1>2, <4>2, <4>3 DEF Given, Counted
    <3> QED BY <3>2, <3>3
  <2>4. CASE pc[u] = "ev_cnt"
    <3>1. pc'[u] = "measure" /\ Left(u)' = Listed(u) /\ y \in Targets(u)
      BY <1>9, <1>12, <2>4, PwriteTargets DEF Targets, Asked
    <3>2. Configured(u, y)'
      BY <1>11, <2>4, <3>1
    <3>3. y \in Left(u)' \/ y \notin old[c]
      BY <1>5, <1>8, <2>4, <3>1 DEF Reached, Counted
    <3> QED BY <1>1, <1>2, <3>2, <3>3 DEF Given, Counted
  <2> QED BY <1>3, <2>1, <2>2, <2>3, <2>4
<1>13. Reached(u)'
  BY <1>12 DEF Reached
<1> QED
  BY <1>6, <1>10, <1>13

LEMMA StepAlone ==
  ASSUME MeasureInv, [Next]_vars, NEW v \in Users
  PROVE  AloneInv(v)'
<1> DEFINE c == Cpu(v)
<1>1. /\ ControlInv /\ ProgramInv(v) /\ AloneInv(v) /\ c \in Cpus
      /\ pc \in [Users -> {"idle", "pce", "masks", "measure", "fault"} \cup FileNames \cup DOMAIN Following]
      /\ call \in [Users -> Calls \cup {NoCall}] /\ alone \in [Users -> BOOLEAN]
      /\ evs \in [Users -> EventSets \cup {<<>>}]
      /\ CpuOf \in [Users -> Cpus]
  BY PmuAssumption DEF MeasureInv, ControlInv, CallInv, Typed, Cpu
<1>2. alone[v] => Only(v)
  BY <1>1 DEF AloneInv
<1>3. call' = call => (Only(v)' <=> Only(v))
  BY DEF Only
<1>4. CASE Load \/ Create \/ Unload \/ RemoveGroup \/ Unloaded \/ UNCHANGED vars
  <2>1. hw' = hw /\ UNCHANGED machine /\ pc' = pc /\ evs' = evs /\ call' = call /\ alone' = alone
    BY <1>4 DEF Load, Create, Unload, RemoveGroup, Unloaded, vars, machine
  <2> QED BY <1>1, <1>2, <1>3, <2>1, AloneStays DEF machine
<1>5. ASSUME NEW d \in Cpus, Reset(d) PROVE AloneInv(v)'
  <2>1. /\ hw' = hw /\ pc' = pc /\ evs' = evs /\ call' = call
        /\ alone'[v] = (alone[v] /\ CpuOf[v] # d)
    BY <1>5 DEF Reset
  <2>2. CASE d = c
    BY <2>1, <2>2 DEF AloneInv, Cpu
  <2>3. CASE d # c
    <3>1. glob'[c] = glob[c] /\ fctl'[c] = fctl[c] /\ sel'[c] = sel[c] /\ old'[c] = old[c]
      BY <1>1, <1>5, <2>3, ResetClears DEF ControlInv
    <3> QED BY <1>1, <1>2, <1>3, <2>1, <3>1, AloneStays
  <2> QED BY <2>2, <2>3
<1>6. ASSUME NEW u \in Users, Handler(u) PROVE AloneInv(v)'
  <2>1. CASE u = v
    BY <1>6, <2>1, HandlerAlone
  <2>2. CASE u # v
    <3>1. /\ call[u] # NoCall /\ hw' = hw /\ pc' = pc /\ evs' = evs /\ alone' = alone
          /\ \A w \in Users \ {u} : call'[w] = call[w]
      BY <1>1, <1>6, HandlerMoves, HandlerKind DEF ControlInv, Kept
    <3>2. CASE ~alone[v]
      BY <3>1, <3>2 DEF AloneInv
    <3>3. CASE alone[v]
      <4>1. CpuOf[u] # CpuOf[v]
        BY <1>2, <2>2, <3>1, <3>3 DEF Only
      <4>2. Only(v)'
        BY <1>2, <3>1, <3>3, <4>1 DEF Only
      <4>3. glob'[c] = glob[c] /\ fctl'[c] = fctl[c] /\ sel'[c] = sel[c] /\ old'[c] = old[c]
        BY <1>1, <1>6, <4>1, HandlerPlace DEF Cpu
      <4> QED BY <1>1, <2>2, <3>1, <3>3, <4>2, <4>3, AloneStays
    <3> QED BY <3>2, <3>3
  <2> QED BY <2>1, <2>2
<1>7. ASSUME NEW u \in Users, Pwrite(u) PROVE AloneInv(v)'
  <2>1. CASE u = v
    BY <1>7, <2>1, PwriteAlone
  <2>2. CASE u # v
    <3>1. hw' = hw /\ UNCHANGED machine /\ call[u] = NoCall
      BY <1>1, <1>7, PwriteCases
    <3>2. pc'[v] = pc[v] /\ evs'[v] = evs[v]
      <4>1. pc' = [pc EXCEPT ![u] = Following[pc[u]]]
        BY <1>1, <1>7, PwriteFacts
      <4>2. evs' = evs \/ \E e \in Lists(u) : evs' = [evs EXCEPT ![u] = e]
        BY <1>7 DEF Pwrite
      <4> QED BY <1>1, <2>2, <4>1, <4>2
    <3>3. call'[v] = call[v] /\ (alone'[v] => alone[v] /\ Only(v)')
      <4>1. CASE /\ Move(u, Started(u))
                 /\ alone' = [w \in Users |-> alone[w] /\ (w # u => CpuOf[w] # CpuOf[u])]
        <5>1. \A w \in Users \ {u} : call'[w] = call[w]
          BY <1>1, <4>1 DEF Move
        <5>2. alone'[v] => alone[v] /\ CpuOf[v] # CpuOf[u]
          BY <2>2, <4>1
        <5> QED BY <1>2, <2>2, <5>1, <5>2 DEF Only
      <4>2. CASE call' = call /\ (alone' = alone \/ alone' = [alone EXCEPT ![u] = FALSE])
        <5>1. alone'[v] = alone[v]
          BY <1>1, <2>2, <4>2
        <5> QED BY <1>2, <1>3, <4>2, <5>1
      <4> QED BY <1>1, <1>7, <4>1, <4>2, PwriteCases
    <3> QED BY <1>1, <3>1, <3>2, <3>3, AloneStays DEF machine
  <2> QED BY <2>1, <2>2
<1>8. ASSUME NEW u \in Users, Begin(u) \/ Open(u) \/ ReadPce(u) \/ ReadMasks(u) \/ Read(u) \/ Finish(u)
      PROVE  AloneInv(v)'
  <2>1. hw' = hw /\ UNCHANGED machine /\ call' = call /\ evs' = evs
    BY <1>8 DEF Begin, Open, ReadPce, ReadMasks, Read, Finish, Stays
  <2>2. pc'[v] = pc[v] /\ alone'[v] = alone[v] => AloneInv(v)'
    BY <1>1, <1>2, <1>3, <2>1, AloneStays DEF machine
  <2>3. CASE u # v
    <3>1. pc'[v] = pc[v] /\ alone'[v] = alone[v]
      BY <1>1, <1>8, <2>3 DEF Begin, Open, ReadPce, ReadMasks, Read, Finish, Quit
    <3> QED BY <2>2, <3>1
  <2>4. CASE u = v /\ Read(u)
    <3>1. alone' = alone /\ call[v] = NoCall /\ (pc' = pc \/ pc' = [pc EXCEPT ![v] = "fault"])
      BY <1>1, <2>4, ProgramRead DEF Read
    <3>2. CASE pc' = pc
      BY <2>2, <3>1, <3>2
    <3>3. CASE pc' = [pc EXCEPT ![v] = "fault"]
      <4>1. pc'[v] \notin Setting
        BY <1>1, <3>3 DEF Setting
      <4> QED BY <1>2, <1>3, <2>1, <3>1, <4>1 DEF AloneInv, Setting
    <3> QED BY <3>1, <3>2, <3>3
  <2>5. CASE u = v /\ Begin(u)
    <3>1. pc'[v] \notin Setting /\ call[v] = NoCall
      <4>1. pc[v] = "idle" /\ pc'[v] = "cfg"
        BY <1>1, <2>5 DEF Begin
      <4> QED BY <1>1, <4>1 DEF Setting, ProgramInv
    <3>2. alone'[v] = \A w \in Users \ {v} : CpuOf[w] = CpuOf[v] => call[w] = NoCall
      BY <1>1, <2>5 DEF Begin
    <3>3. alone'[v] => Only(v)'
      BY <2>1, <3>2 DEF Only
    <3> QED BY <2>1, <3>1, <3>3 DEF AloneInv, Setting
  <2>6. CASE u = v /\ (Open(u) \/ ReadPce(u) \/ ReadMasks(u) \/ Finish(u))
    <3>1. call[v] = NoCall
      <4>1. CASE Finish(u)
        BY <2>6, <4>1 DEF Finish
      <4>2. CASE ~Finish(u)
        <5>1. pc[v] \notin Setting
          BY <2>6, <4>2, NameFacts DEF Open, ReadPce, ReadMasks, Setting
        <5> QED BY <1>1, <5>1 DEF ProgramInv
      <4> QED BY <4>1, <4>2
    <3>2. pc'[v] \notin Setting \ {"ts_cfg"}
      <4>1. Quit(u) => pc'[u] = "idle"
        BY <1>1 DEF Quit
      <4>2. CASE Open(u)
        BY <1>1, <2>6, <4>1, <4>2, NameFacts DEF Open, Setting
      <4>3. CASE ReadPce(u)
        BY <1>1, <2>6, <4>1, <4>3 DEF ReadPce, Setting
      <4>4. CASE ReadMasks(u)
        BY <1>1, <2>6, <4>1, <4>4 DEF ReadMasks, Setting
      <4>5. CASE Finish(u)
        BY <2>6, <4>1, <4>5 DEF Finish, Setting
      <4> QED BY <2>6, <4>2, <4>3, <4>4, <4>5
    <3>3. alone' = alone
      BY <2>6 DEF Open, ReadPce, ReadMasks, Finish
    <3> QED BY <1>2, <1>3, <2>1, <3>1, <3>2, <3>3 DEF AloneInv, Setting
  <2> QED BY <1>8, <2>3, <2>4, <2>5, <2>6
<1> QED
  BY <1>4, <1>5, <1>6, <1>7, <1>8 DEF Next, ModuleNext

LEMMA InitMeasure ==
  ASSUME Init
  PROVE  MeasureInv
<1>1. ControlInv /\ \A u \in Users : pc[u] = "idle" /\ call[u] = NoCall /\ alone[u] = FALSE
  BY InitControl DEF Init
<1> QED
  BY <1>1 DEF MeasureInv, ProgramInv, AloneInv, Setting

LEMMA MeasuresOf ==
  ASSUME MeasureInv
  PROVE  Measures
<1> SUFFICES ASSUME NEW u \in Users, pc[u] = "measure", call[u] = NoCall, alone[u]
             PROVE  /\ \A i \in 0 .. NFf - 1 : Counts(Cpu(u), Ff(i)) /\ Ff(i) \notin old[Cpu(u)]
                    /\ \A i \in 0 .. Len(evs[u]) - 1 : i < NGp =>
                         /\ Counts(Cpu(u), Gp(i)) <=> GpCfg(i, evs[u][i + 1]) # "off"
                         /\ sel[Cpu(u)][Gp(i)] \in {"off", evs[u][i + 1]} /\ Gp(i) \notin old[Cpu(u)]
                    /\ \A i \in Len(evs[u]) .. NGp - 1 : i < GpInit => ~Counts(Cpu(u), Gp(i))
  BY DEF Measures, MeasureInv, ProgramInv
<1> DEFINE c == Cpu(u)
<1>1. /\ Enough /\ hw \in Machines /\ Reached(u) /\ Asked(u)
      /\ evs[u] \in EventSets \cup {<<>>}
  BY DEF MeasureInv, ControlInv, Typed, ProgramInv, AloneInv, Setting, Asked
<1>2. /\ MaxFf \in Nat /\ NFf = MaxFf /\ FfHw \in Nat /\ NFf <= FfHw /\ NGp \in Nat /\ GpInit \in Nat
      /\ NGp >= GpInit /\ Len(evs[u]) \in Nat
  BY <1>1, MachineFacts, EnoughFacts, EventsTyped
<1>3. Left(u) = {}
  <2>1. Range(<<>>) = {}
    BY DEF Range
  <2> QED BY <2>1, NoCallFacts DEF Left
<1>4. ASSUME NEW x \in Basic \cup Listed(u)
      PROVE  /\ HasWord(c, x, WordFor(u, x)) /\ (Enables(c, x) => x \in glob[c]) /\ x \notin old[c]
  <2>1. x \in Targets(u)
    BY <1>1 DEF Targets
  <2>2. Given(u, x) /\ Counted(u, x)
    BY <1>1, <2>1 DEF Reached
  <2> QED BY <1>3, <2>2 DEF Given, Counted, Configured
<1>5. ASSUME NEW i \in 0 .. NFf - 1 PROVE Counts(c, Ff(i)) /\ Ff(i) \notin old[c]
  <2>1. Ff(i) \in Basic /\ Ff(i) \in Fixed /\ Ff(i) \notin Listed(u)
    <3>1. i \in 0 .. MaxFf - 1 /\ i \in 0 .. FfHw - 1
      BY <1>2
    <3> QED BY <3>1, CounterKinds DEF Basic, Fixed, Listed, FirstGp
  <2>2. WordFor(u, Ff(i)) = "on"
    BY <2>1 DEF WordFor
  <2> QED BY <1>4, <2>1, <2>2 DEF HasWord, Enables, Counts
<1>6. \A i : Gp(i) \notin Fixed /\ Gp(i)[2] = i
  BY CounterKinds DEF Fixed
<1>7. ASSUME NEW i \in 0 .. Len(evs[u]) - 1, i < NGp
      PROVE  /\ Counts(c, Gp(i)) <=> GpCfg(i, evs[u][i + 1]) # "off"
             /\ sel[c][Gp(i)] \in {"off", evs[u][i + 1]} /\ Gp(i) \notin old[c]
  <2>1. Gp(i) \in Listed(u)
    BY <1>7 DEF Listed, FirstGp
  <2>2. WordFor(u, Gp(i)) = evs[u][i + 1]
    BY <1>1, <1>6, <2>1 DEF WordFor
  <2>3. sel[c][Gp(i)] = GpCfg(i, evs[u][i + 1]) /\ (Enables(c, Gp(i)) => Gp(i) \in glob[c])
        /\ Gp(i) \notin old[c]
    BY <1>4, <1>6, <2>1, <2>2 DEF HasWord
  <2> QED BY <1>6, <2>3 DEF Counts, Enables, GpCfg
<1>8. ASSUME NEW i \in Len(evs[u]) .. NGp - 1, i < GpInit PROVE ~Counts(c, Gp(i))
  <2>1. i \in 0 .. GpInit - 1 /\ i \notin 0 .. Len(evs[u]) - 1
    BY <1>2, <1>8
  <2>2. Gp(i) \in Basic /\ Gp(i) \notin Listed(u)
    BY <2>1, CounterKinds DEF Basic, Listed, FirstGp
  <2>3. WordFor(u, Gp(i)) = "off"
    BY <1>6, <2>2 DEF WordFor
  <2>4. sel[c][Gp(i)] = "off"
    BY <1>4, <1>6, <2>2, <2>3 DEF HasWord, GpCfg
  <2> QED BY <1>6, <2>4 DEF Counts, Enables
<1> QED
  BY <1>5, <1>7, <1>8

(* A program that nobody disturbs on its CPU measures what it asked for,   *)
(* whatever was in the registers before, also where handlers preempt each  *)
(* other; and a program whose first read is refused is of a build that     *)
(* reads more counters than the processor has, which are all that were     *)
(* tested.                                                                 *)
THEOREM MeasuresHold == Spec => []Measures
<1>1. Init => MeasureInv
  BY InitMeasure
<1>2. MeasureInv /\ [Next]_vars => MeasureInv'
  <2> SUFFICES ASSUME MeasureInv, [Next]_vars PROVE MeasureInv'
    OBVIOUS
  <2>1. ControlInv'
    BY StepControl DEF MeasureInv
  <2>2. \A u \in Users : ProgramInv(u)' /\ AloneInv(u)'
    BY StepProgram, StepAlone
  <2> QED BY <2>1, <2>2 DEF MeasureInv
<1>3. MeasureInv => Measures
  BY MeasuresOf
<1> QED
  BY <1>1, <1>2, <1>3, PTL DEF Spec
=============================================================================
