------------------------------ MODULE EnablePmu ------------------------------
(***************************************************************************)
(* The x86 kernel module (enable_pmu_x86.c) and its user-space client      *)
(* (ph_pmu_x86.c with the macros of ph_pm_x86_64.h): programs that run the *)
(* probe configure the counters of their CPU through sysfs files, while    *)
(* the module may be unloaded and loaded again.                            *)
(*                                                                         *)
(* One step is one access to a machine register.  Loading and unloading    *)
(* reset every CPU by an interrupt, which falls between any two accesses   *)
(* of a handler.  Fixed counters have one enable bit and one configuration *)
(* field each in registers they share; a general counter shares only the   *)
(* register of the enable bits.                                            *)
(***************************************************************************)
EXTENDS Integers, Sequences, FiniteSets, SequencesExt, FiniteSetsExt

CONSTANTS
  Cpus, Users,
  CpuOf,      \* CpuOf[u]: the CPU user u is bound to
  Machines,   \* processors, as CPUID describes them
  MaxFf,      \* PH_PMU_SYSFS_MAX_FF, 3 in the code
  GpInit,     \* general counters that the probe clears first, 4 in the code
  EventSets,  \* event lists of a program
  NevMax,     \* NevMax[u]: PH_NEV of the build of user u's program, 4 or 8
  Preempt,    \* handlers of one CPU may preempt each other
  MaxRuns,    \* bound: programs each user starts
  MaxLoads    \* bound: times the module is loaded

Words == {"off", "on", "only1", "only2"}
(* The highest leaf, the capability bit, the version of the architecture,  *)
(* and the numbers of fixed and general counters.                          *)
Cpuid == [leaf : Nat, pdcm : BOOLEAN, arch : Nat, ff : Nat, gp : Nat]

ASSUME PmuAssumption ==
  /\ IsFiniteSet(Cpus) /\ IsFiniteSet(Users) /\ CpuOf \in [Users -> Cpus]
  /\ Machines \subseteq Cpuid /\ MaxFf \in Nat /\ MaxFf >= 2 /\ GpInit \in Nat
  /\ EventSets \subseteq Seq(Words) /\ NevMax \in [Users -> Nat]
  /\ Preempt \in BOOLEAN /\ MaxRuns \in Nat /\ MaxLoads \in Nat

VARIABLES
  hw,       \* the processor
  mod,      \* "out", "load", "in", "exit" (resetting), "remove"
  pending,  \* CPUs the reset has not reached yet
  loads,    \* bound
  pce,      \* CR4.PCE: programs may read counters
  glob,     \* glob[c]: enable bits of IA32_PERF_GLOBAL_CTRL
  fctl,     \* fctl[c]: fixed counters that IA32_FIXED_CTR_CTRL makes count
  sel,      \* sel[c]: the IA32_PERFEVTSEL of the general counters
  old,      \* old[c]: counters whose value has counts of an earlier configuration
  pc,       \* what the program of a user does
  runs,     \* bound
  fd,       \* the program's descriptors: "none", "live", or "dead" after an unload
  evs,      \* events of the program
  call,     \* the handler it is in: [kind, todo, step, tmp]
  alone     \* history: nobody else has touched the CPU since the program began

machine == <<glob, fctl, sel, old>>
vars == <<hw, mod, pending, loads, pce, machine, pc, runs, fd, evs, call, alone>>

(* ph_pmu_init_cpuid.                                                      *)
Supported == hw.leaf >= 10 /\ hw.pdcm /\ hw.arch \in 3 .. 6
FfHw == hw.ff
NFf == IF FfHw > MaxFf THEN MaxFf ELSE FfHw
NGp == hw.gp
Ff(i) == <<"ff", i>>
Gp(i) == <<"gp", i>>
Fixed == {Ff(i) : i \in 0 .. FfHw - 1}
General == {Gp(i) : i \in 0 .. NGp - 1}
Counters == Fixed \cup General
Exported == {Ff(i) : i \in 0 .. NFf - 1} \cup General

(* pfcClampRange on both ranges: the counters that n words from word k on  *)
(* reach, in the order in which the handler takes the words.               *)
Overlap(k, n, first, end) ==
  LET a == IF k < first THEN first ELSE k
      b == IF k + n > end THEN end ELSE k + n
  IN  [i \in 1 .. IF b > a THEN b - a ELSE 0 |-> a - first + i - 1]
Selected_Hw(k, n) ==
  LET ff == Overlap(k, n, 0, FfHw)
      gp == Overlap(k, n, FfHw, FfHw + NGp)
  IN  [i \in DOMAIN ff |-> Ff(ff[i])] \o [i \in DOMAIN gp |-> Gp(gp[i])]
Selected(k, n) ==
  LET ff == Overlap(k, n, 0, NFf)
      gp == Overlap(k, n, MaxFf, MaxFf + NGp)
  IN  [i \in DOMAIN ff |-> Ff(ff[i])] \o [i \in DOMAIN gp |-> Gp(gp[i])]
Todo(k, words) ==
  LET s == Selected(k, Len(words)) IN [j \in DOMAIN s |-> [ctr |-> s[j], word |-> words[j]]]

(* pfcGpCntWrCfg: events that only one counter can count are off elsewhere. *)
GpCfg(i, word) ==
  CASE word = "only1" /\ i # 1 -> "off"
    [] word = "only2" /\ i # 2 -> "off"
    [] OTHER -> word
Enables(c, ctr) == IF ctr \in Fixed THEN ctr \in fctl[c] ELSE sel[c][ctr] # "off"
Counts(c, ctr) == ctr \in glob[c] /\ Enables(c, ctr)

NoCall == [kind |-> "none", todo |-> <<>>, step |-> "none", tmp |-> {}]
(* The sysfs files are there; a descriptor of an earlier load stays dead.  *)
Files == mod \in {"in", "exit"}
NextFile == [cfg |-> "msk", msk |-> "cnt", cnt |-> "cr4", cr4 |-> "pce"]
FileNames == DOMAIN NextFile
Closed == [f \in FileNames |-> "none"]

Init ==
  /\ hw \in Machines /\ mod = "out" /\ pending = {} /\ loads = 0 /\ pce = FALSE
  /\ \E on \in {{}, Counters} :
       /\ glob = [c \in Cpus |-> on] /\ fctl = [c \in Cpus |-> on \cap Fixed]
       /\ sel = [c \in Cpus |-> [g \in General |-> IF g \in on THEN "on" ELSE "off"]]
  /\ old = [c \in Cpus |-> Counters]
  /\ pc = [u \in Users |-> "idle"] /\ runs = [u \in Users |-> 0]
  /\ fd = [u \in Users |-> Closed]
  /\ evs = [u \in Users |-> <<>>]
  /\ call = [u \in Users |-> NoCall] /\ alone = [u \in Users |-> FALSE]

-----------------------------------------------------------------------------
(* The module.  The shell command that lets programs read counters may     *)
(* fail, which nobody looks at; an unload does not take it back.           *)
Load ==
  /\ mod = "out" /\ loads < MaxLoads /\ Supported
  /\ mod' = "load" /\ pending' = Cpus /\ loads' = loads + 1 /\ pce' \in {pce, TRUE}
  /\ UNCHANGED <<hw, machine, pc, runs, fd, evs, call, alone>>

(* ph_pmu_init_counters on one CPU.  The write of the enable bits, of the  *)
(* fields and of the values of fixed counters is masked to the exported    *)
(* ones by pfcWRMSR.                                                       *)
Cleared_General == General
Cleared == Exported
Reset(c) ==
  /\ c \in pending /\ pending' = pending \ {c}
  /\ glob' = [glob EXCEPT ![c] = @ \ Cleared]
  /\ fctl' = [fctl EXCEPT ![c] = @ \ Cleared]
  /\ sel' = [sel EXCEPT ![c] = [g \in General |-> IF g \in Cleared THEN "off" ELSE @[g]]]
  /\ old' = [old EXCEPT ![c] = @ \ Cleared]
  /\ alone' = [u \in Users |-> alone[u] /\ CpuOf[u] # c]
  /\ UNCHANGED <<hw, mod, loads, pce, pc, runs, fd, evs, call>>

(* sysfs_create_group; when it fails the module goes through its exit.     *)
Create ==
  /\ mod = "load" /\ pending = {}
  /\ \/ mod' = "in" /\ UNCHANGED pending
     \/ mod' = "exit" /\ pending' = Cpus
  /\ UNCHANGED <<hw, loads, pce, machine, pc, runs, fd, evs, call, alone>>

Unload ==
  /\ mod = "in" /\ mod' = "exit" /\ pending' = Cpus
  /\ UNCHANGED <<hw, loads, pce, machine, pc, runs, fd, evs, call, alone>>

(* sysfs_remove_group keeps new calls out and waits for the running ones.  *)
RemoveGroup ==
  /\ mod = "exit" /\ pending = {} /\ mod' = "remove"
  /\ fd' = [u \in Users |-> [f \in FileNames |-> IF fd[u][f] = "live" THEN "dead" ELSE fd[u][f]]]
  /\ UNCHANGED <<hw, pending, loads, pce, machine, pc, runs, evs, call, alone>>

Unloaded_Closed ==
  /\ mod = "remove" /\ \A u \in Users : pc[u] = "idle" /\ mod' = "out"
  /\ UNCHANGED <<hw, pending, loads, pce, machine, pc, runs, fd, evs, call, alone>>
Unloaded ==
  /\ mod = "remove" /\ \A u \in Users : call[u] = NoCall
  /\ mod' = "out"
  /\ UNCHANGED <<hw, pending, loads, pce, machine, pc, runs, fd, evs, call, alone>>

-----------------------------------------------------------------------------
(* The handlers, one register access at a time.                            *)
MayRun(u) ==
  Preempt \/ \A v \in Users \ {u} : CpuOf[v] = CpuOf[u] => call[v] = NoCall
At(u, step) == call[u].step = step /\ MayRun(u)
Cpu(u) == CpuOf[u]
Ctr(u) == Head(call[u].todo).ctr
Word(u) == Head(call[u].todo).word

Goto(u, step, tmp) == call' = [call EXCEPT ![u].step = step, ![u].tmp = tmp]
(* The next counter of the call, or its return.                            *)
Advance(u) ==
  LET x == call[u]
  IN  call' = [call EXCEPT ![u] =
        IF Len(x.todo) = 1 THEN NoCall
        ELSE [kind |-> x.kind, todo |-> Tail(x.todo), tmp |-> {},
              step |-> IF x.step = "cnt" THEN "cnt" ELSE "dis"]]

(* pfcFfCntWrEnb and pfcGpCntWrEnb set a bit or none: 0 clears nothing.    *)
Kept == UNCHANGED <<hw, mod, pending, loads, pce, pc, runs, fd, evs, alone>>
ReadGlobal(u) ==
  \/ At(u, "dis") /\ Goto(u, "disw", glob[Cpu(u)])
  \/ At(u, "en") /\ Goto(u, "enw", glob[Cpu(u)] \cup {Ctr(u)})
WriteGlobal(u) ==
  /\ glob' = [glob EXCEPT ![Cpu(u)] = (@ \ Exported) \cup (call[u].tmp \cap Exported)]
  /\ \/ At(u, "disw") /\ Goto(u, "cfg", {})
     \/ At(u, "enw") /\ Advance(u)

ReadField(u) == At(u, "cfg") /\ Ctr(u) \in Fixed /\ Goto(u, "cfgw", fctl[Cpu(u)])
Field_Own(u) == IF Word(u) = "off" THEN {} ELSE {Ctr(u)}
Field(u) == IF Word(u) = "off" THEN call[u].tmp \ {Ctr(u)} ELSE call[u].tmp \cup {Ctr(u)}
WriteCfg(u) ==
  /\ \/ /\ At(u, "cfgw")
        /\ fctl' = [fctl EXCEPT ![Cpu(u)] = (@ \ Exported) \cup (Field(u) \cap Exported)]
        /\ UNCHANGED sel
     \/ /\ At(u, "cfg") /\ Ctr(u) \in General
        /\ sel' = [sel EXCEPT ![Cpu(u)][Ctr(u)] = GpCfg(Ctr(u)[2], Word(u))]
        /\ UNCHANGED fctl
  /\ old' = [old EXCEPT ![Cpu(u)] = @ \cup {Ctr(u)}]
  /\ Goto(u, "test", {})
TestCfg(u) ==
  /\ At(u, "test")
  /\ IF Enables(Cpu(u), Ctr(u)) THEN Goto(u, "en", {}) ELSE Advance(u)

WriteCount(u) ==
  /\ At(u, "cnt") /\ old' = [old EXCEPT ![Cpu(u)] = @ \ {Ctr(u)}] /\ Advance(u)

Handler(u) ==
  /\ Kept
  /\ \/ (ReadGlobal(u) \/ ReadField(u) \/ TestCfg(u)) /\ UNCHANGED machine
     \/ WriteGlobal(u) /\ UNCHANGED <<fctl, sel, old>>
     \/ WriteCfg(u) /\ UNCHANGED glob
     \/ WriteCount(u) /\ UNCHANGED <<glob, fctl, sel>>

-----------------------------------------------------------------------------
(* A program.  ph_pmu_init opens the four files one after the other, looks *)
(* if it may read counters, and reads the masks of all the counters it is  *)
(* going to set; when something is missing the program ends.               *)
Stays == UNCHANGED <<hw, mod, pending, loads, pce, machine, runs, evs, call>>
Quit(u) == pc' = [pc EXCEPT ![u] = "idle"] /\ fd' = [fd EXCEPT ![u] = Closed]
Begin(u) ==
  /\ pc[u] = "idle" /\ runs[u] < MaxRuns /\ runs' = [runs EXCEPT ![u] = @ + 1]
  /\ pc' = [pc EXCEPT ![u] = "cfg"]
  /\ alone' = [alone EXCEPT ![u] =
       \A v \in Users \ {u} : CpuOf[v] = CpuOf[u] => call[v] = NoCall]
  /\ UNCHANGED <<hw, mod, pending, loads, pce, machine, fd, evs, call>>
Open(u) ==
  LET f == pc[u]
      opened == [fd[u] EXCEPT ![f] = IF Files THEN "live" ELSE "none"]
  IN  /\ f \in FileNames /\ UNCHANGED alone /\ Stays
      /\ IF f = "cr4" /\ \E g \in FileNames : opened[g] = "none" THEN Quit(u)
         ELSE pc' = [pc EXCEPT ![u] = NextFile[f]] /\ fd' = [fd EXCEPT ![u] = opened]
ReadPce(u) ==
  /\ pc[u] = "pce" /\ UNCHANGED alone /\ Stays
  /\ IF fd[u].cr4 = "live" /\ pce
     THEN pc' = [pc EXCEPT ![u] = "masks"] /\ fd' = [fd EXCEPT ![u].cr4 = "none"]
     ELSE Quit(u)
Enough_Any == TRUE
Enough == Len(Selected(0, MaxFf + GpInit)) = MaxFf + GpInit
ReadMasks(u) ==
  /\ pc[u] = "masks" /\ UNCHANGED alone /\ Stays
  /\ IF fd[u].msk = "live" /\ Enough
     THEN pc' = [pc EXCEPT ![u] = "ts_cfg"] /\ UNCHANGED fd
     ELSE Quit(u)

(* The calls of _ph_init_ts and _ph_config_event, whose results nobody     *)
(* looks at.                                                               *)
Following == [ts_cfg |-> "ts_cnt", ts_cnt |-> "ev_cfg", ev_cfg |-> "ev_cnt", ev_cnt |-> "measure"]
InitWords == [j \in 1 .. MaxFf + GpInit |-> IF j <= MaxFf THEN "on" ELSE "off"]
CallTodo(u) ==
  CASE pc[u] = "ts_cfg" -> Todo(0, InitWords)
    [] pc[u] = "ts_cnt" -> Todo(0, InitWords)
    [] pc[u] \in {"ev_cfg", "ev_cnt"} -> Todo(MaxFf, evs'[u])

(* A pwrite: with a dead descriptor it fails.  Whoever shares the CPU is   *)
(* no longer alone on it.  The events are those set by then: ph_set_evt    *)
(* takes one more than the build is for, and nobody compares them with the *)
(* counters of the processor, which drop what is too much.                 *)
Lists(u) == {e \in EventSets : Len(e) <= NevMax[u] + 1}
Pwrite(u) ==
  /\ pc[u] \in DOMAIN Following /\ call[u] = NoCall /\ MayRun(u)
  /\ pc' = [pc EXCEPT ![u] = Following[@]]
  /\ evs' \in IF pc[u] = "ev_cfg" THEN {[evs EXCEPT ![u] = e] : e \in Lists(u)} ELSE {evs}
  /\ LET todo == CallTodo(u)
         kind == IF pc[u] \in {"ts_cfg", "ev_cfg"} THEN "cfg" ELSE "cnt"
     IN \/ /\ fd[u][kind] = "live" /\ todo # <<>>
           /\ call' = [call EXCEPT ![u] = [kind |-> kind, todo |-> todo, tmp |-> {},
                                           step |-> IF kind = "cfg" THEN "dis" ELSE "cnt"]]
           /\ alone' = [v \in Users |-> alone[v] /\ (v # u => CpuOf[v] # CpuOf[u])]
        \/ fd[u][kind] = "live" /\ todo = <<>> /\ UNCHANGED <<call, alone>>
        \/ fd[u][kind] # "live" /\ alone' = [alone EXCEPT ![u] = FALSE] /\ UNCHANGED call
  /\ UNCHANGED <<hw, mod, pending, loads, pce, machine, runs, fd>>

(* A record reads the second fixed counter for cycles and the first        *)
(* general ones: ph_read all that its build has room for, phmpi_read one   *)
(* for each event, and neither looks how many there are.  An access to a   *)
(* counter that is not there, or not allowed, ends the program.            *)
Read(u) ==
  /\ pc[u] = "measure" /\ call[u] = NoCall /\ UNCHANGED <<fd, alone>> /\ Stays
  /\ \E n \in {k \in {NevMax[u], Len(evs[u])} : k <= NevMax[u]} :
       IF pce /\ {Ff(1)} \cup {Gp(i) : i \in 0 .. n - 1} \subseteq Counters
       THEN UNCHANGED pc
       ELSE pc' = [pc EXCEPT ![u] = "fault"]

Finish(u) ==
  /\ pc[u] = "measure" /\ call[u] = NoCall /\ Quit(u) /\ UNCHANGED alone /\ Stays

ModuleNext == Load \/ Create \/ Unload \/ RemoveGroup \/ Unloaded \/ \E c \in Cpus : Reset(c)
Next ==
  \/ ModuleNext
  \/ \E u \in Users : \/ Handler(u) \/ Begin(u) \/ Open(u) \/ ReadPce(u) \/ ReadMasks(u)
                      \/ Pwrite(u) \/ Read(u) \/ Finish(u)
Spec == Init /\ [][Next]_vars
Fairness ==
  /\ WF_vars(Create \/ RemoveGroup \/ Unloaded) /\ \A c \in Cpus : WF_vars(Reset(c))
  /\ \A u \in Users : WF_vars(Handler(u))
FairSpec == Spec /\ Fairness

-----------------------------------------------------------------------------
(* No step meets a call it does not know: a call always has a counter      *)
(* left, a value read is kept only between the read and its write, and the *)
(* fixed counters behind the exported ones are never written.              *)
Typed ==
  /\ hw \in Machines /\ pce \in BOOLEAN
  /\ mod \in {"out", "load", "in", "exit", "remove"} /\ pending \in SUBSET Cpus
  /\ loads \in 0 .. MaxLoads /\ runs \in [Users -> 0 .. MaxRuns]
  /\ glob \in [Cpus -> SUBSET Counters] /\ fctl \in [Cpus -> SUBSET Fixed]
  /\ sel \in [Cpus -> [General -> Words]] /\ old \in [Cpus -> SUBSET Counters]
  /\ fd \in [Users -> [FileNames -> {"none", "live", "dead"}]]
  /\ pc \in [Users -> {"idle", "pce", "masks", "measure", "fault"} \cup FileNames \cup DOMAIN Following]
  /\ evs \in [Users -> EventSets \cup {<<>>}] /\ alone \in [Users -> BOOLEAN]
TypeOK ==
  /\ Typed
  /\ \A u \in Users :
       \/ call[u] = NoCall
       \/ /\ call[u].todo # <<>> /\ Ctr(u) \in Exported
          /\ call[u].step \in {"dis", "disw", "cfg", "cfgw", "test", "en", "enw", "cnt"}
          /\ call[u].tmp # {} => call[u].step \in {"disw", "cfgw", "enw"}

(* A program that had the CPU to itself since it began measures what it    *)
(* asked for, whatever programs and loads before it left in the registers: *)
(* the exported fixed counters count; a listed event counts on the counter *)
(* of its position, if there is one, unless only another one can count it; *)
(* the rest of the counters it cleared stand still; and no value has       *)
(* counts of before.  Where words would slip to other counters no program  *)
(* gets so far, whatever loads happened since; and a read is refused only  *)
(* to a build with more counters than the processor, which itself has all  *)
(* that were tested.                                                       *)
Measures ==
  \A u \in Users :
    /\ pc[u] = "fault" => NGp \in GpInit .. NevMax[u] - 1
    /\ (pc[u] = "measure" /\ call[u] = NoCall /\ alone[u]) =>
       /\ \A i \in 0 .. NFf - 1 : Counts(Cpu(u), Ff(i)) /\ Ff(i) \notin old[Cpu(u)]
       /\ \A i \in 0 .. Len(evs[u]) - 1 : i < NGp =>
            /\ Counts(Cpu(u), Gp(i)) <=> GpCfg(i, evs[u][i + 1]) # "off"
            /\ sel[Cpu(u)][Gp(i)] \in {"off", evs[u][i + 1]} /\ Gp(i) \notin old[Cpu(u)]
       /\ \A i \in Len(evs[u]) .. NGp - 1 : i < GpInit => ~Counts(Cpu(u), Gp(i))

(* When a load has reset a CPU, no exported counter is enabled there, also *)
(* if a handler wrote old bits back after the reset of the unload before:  *)
(* handlers have ended before the module may be loaded again.  Behind an   *)
(* unload such bits do stay, until then.                                   *)
CleanLoad ==
  mod = "load" => \A c \in Cpus \ pending :
    /\ glob[c] \cap Exported = {} /\ fctl[c] \cap Exported = {}
    /\ \A g \in General : sel[c][g] = "off"

(* A step of a handler starts or stops no counter but the one it is at:    *)
(* neither a neighbour in a shared register nor, by writing back what it   *)
(* read before the reset of an unload, a counter that the reset stopped.   *)
Running == {w \in Cpus \X Counters : Counts(w[1], w[2])}
OnlySelected ==
  [][\A u \in Users : Handler(u) =>
       \A w \in (Running' \ Running) \cup (Running \ Running') : w = <<Cpu(u), Ctr(u)>>]_vars

(* An unload ends: it waits only for handlers that are running.            *)
Unloads == (mod = "exit") ~> (mod = "out")
=============================================================================
