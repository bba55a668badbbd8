# PerfHound in TLA+

PerfHound measures performance variation: a program under test calls a small
probe library that takes time stamps and counter readings into a memory buffer
and dumps them to CSV files; a kernel module opens the counters to user space;
tools turn the files into intervals; an RDMA example is one of the programs it is
meant to measure. This directory models the probe and the files it writes, the
parser of its events, the kernel module below it, the tool that reads the files
and the RDMA example. It checks the models with TLC and proves with TLAPS, for every
value of the constants, the safety properties that the runs check of all seven parts,
except one property of the interval tool.

## Inventory

| Part | Code | State | Operations | What is hard |
|---|---|---|---|---|
| Serial probe | `src/probe/perfhound.c` | record buffer and its index, events, ready flag | `ph_set_evt`, `ph_commit`, `ph_read`, `ph_dump`, `ph_finalize` | reads that dump, dumps that read (nesting), the last slots of the buffer, kills between and inside writes, a failing `fopen` |
| Run set-up | `ph_init`, `phmpi_init`, `src/probe/mpi_op.c`, `ph_io_mk*` | directory tree on a shared file system, ring messages, barriers | root, run name, run directory, host directory, `rankmap.csv`, tags, record file | jobs that start together, ranks that look at the file system at different moments, check-then-act on it, a rank that exits inside the ring |
| MPI probe | `src/probe/ph_mpi.c` | one buffer and record file per rank | `phmpi_*` counterparts, `phmpi_fastread` | reads without a bounds check next to reads that dump, barriers that order the files of all ranks, a lost rank |
| Files | `src/probe/ph_io.c` | paths, run id, `nrec_tot` | write header, rows, tags, events, rank map, run info | ignored results, counters that must agree with files |
| Event parser | `src/probe/ph_evt_x86.c` | the word under construction | text to configuration word | names that begin with one another, fields that spill into their neighbour, what an odd rest of the text does |
| Kernel module | `src/kmod/x86/enable_pmu_x86.c` | MSRs of each CPU, switch for user-space reads | identify the CPU, load, reset, unload; read and write configuration, counts, masks | read-modify-write of registers shared by all counters, processors with fewer counters |
| PMU client | `src/probe/ph_pmu_x86.c` | four descriptors | open one by one, test, write configuration | a module that is unloaded and loaded in between |
| Interval tool | `src/utils/pfh_interval2csv.c` | file list per rank, token | split, pairing, output chain | ranks with unequal numbers of files, an early return |
| RDMA example | `src/rdma/rdma_rc_example.c` | handles, queue pair states, socket, buffer | connect, exchange, send, read, write, poll, destroy | two sides kept in step by four one-shot messages on a socket; short reads and writes, end of file, timeouts; a clean-up followed by another one |
| Search scripts | `src/resolution_test` | step and gap | step-wise search | rounding, termination |
| The rest | event tables, register macros, `varstat`, utilities, tests, examples | none that interacts | | |

How they interact: the program calls the probe in the documented order
(init, set_evt/set_tag, commit, read/dump, finalize). The probe calls
`ph_io.c`, which works on files shared with other jobs that use the same data
root. `ph_set_evt` hands the text of an event to the parser, whose words become the
`evs` a program writes to the kernel module; `PerfHound` and `PhMpi` see the parser as
the set `Supported`. The ranks of an MPI job meet in barriers and pass a message round a ring
while they create host directories. The probe's event set-up writes the
kernel module's sysfs files. The interval tool reads the files of a
finished run.

What makes each part correct:

* serial probe: no store outside the buffer; no record lost, doubled or
  reordered by any nesting of dumps; a killed run keeps a prefix; a
  `run_info.csv` row vouches for a complete file; rows match their header;
* run set-up: one job per run directory, a complete tree before anybody
  measures, no job stuck half-way;
* MPI probe: the same per rank, plus the order between ranks at commit and
  finalize;
* event parser: a text is accepted exactly if its event and umask exist, and means
  what it says;
* kernel module and its client: a write to one counter leaves the others as they were;
  a program that had the CPU to itself measures
  what it asked for, or does not get that far;
* interval tool: every pair of start and end records once, every file handled
  by one rank, all ranks end;
* RDMA example: nothing is released twice, nobody fails because the other side is
  slow (short of the 2 s after which a poll gives up, `rdma_rc_example.c:302`), what is printed is what was sent, both sides end.

`PROJECT.json` lists the hazards at their lines.

## Modules

**`PerfHound.tla`** is the serial probe with its files. `todo` is the C call
stack flattened to the steps still to be executed: `ph_read(t)` puts the step
`t`, whose execution (`Put`) stores the record and, when one slot is left,
pushes the steps of `ph_dump` (`S_dump`, `wtrec`, `E_dump`), of which the first
and last are again reads. So nested dumps are nested as in the code. `WtRec`,
`Flush` and `WtInfo` are the file writes of `ph_dump` and `ph_finalize`;
`MkRec` is the one of `ph_commit`. Every `fopen` may fail (bounded by
`MaxFail`) and `Crash` may happen at every step and in the middle of a write,
leaving any number of the batch's rows and perhaps a part of the next one (`torn`). A record is its tag and its user value;
time stamps and counter values are not told apart by any property. `log` is a
history variable: all records taken since commit.

**`RecordLog.tla`** is the promise of a record file without buffer or dumps: the
file is a growing prefix of the records taken, closing stores them all, dying
keeps what is stored. `PerfHound!ImplementsLog` is the refinement
(`taken <- log`, `stored <- rec_rows`): the initial states are the log's, and every step with
no failing `fopen` before or in it is a step of the log or a stutter. (A batch whose file does
not open is dropped by the code, and the log has no such step.)

**`PerfHoundProofs.tla`**, and likewise **`PhInitProofs.tla`**, **`PhMpiProofs.tla`**,
**`EnablePmuProofs.tla`**, **`Interval2csvProofs.tla`**, **`PhEvtProofs.tla`** and
**`RdmaRcProofs.tla`** for their modules, hold the proofs (below); **`Interval2csvComplete.tla`** continues the last of them.

**`PhInit.tla`** is initialisation: a set of jobs, serial (`ph_init`) or of
several ranks (`phmpi_init`), on one file system. One action per system call, except that
the four `fopen` calls of `ph_io_mkfile` are one (`MkFiles`): only the last of these files, the
rank map, is ever opened by another job. The actions are `MkRoot`, `MkName` (the `access` loop), `MkRun`, `MkFiles`, `SeeHost` and `MkHost` (test and `mkdir` of the host
directory), `WtRankmap`, `SetTag`, `MkRec`; `Recv`, `Send` and `CloseRing` are the
messages of `ph_mpi_mkhost`, `Barrier` the barriers, `Launcher` what `mpirun` does
to a job that lost a rank (external), `Fail` a failing call. **`PhInitMC.tla`**
names its instances.

**`PhMpi.tla`** is the MPI probe after `phmpi_init`: per rank a stack of steps
as above, now with barriers in it. `phmpi_fastread` stores without looking at the
index; the constant `FastLimit` says how full the buffer may be when the program
calls it. `EnterRead`/`Check` and `EnterDump` are the three
tests of the index in `phmpi_read` and `phmpi_dump`. A rank may crash, also in the
middle of a write and of a line, and the launcher then ends the others.

**`Interval2csv.tla`** is the interval tool. `cmd` is how it is started: ranks, record
files, whether points parse, and whether MPI buffers a send (`eager`; else a rank
goes on when its message is received, `Sent`). `ReadMap`, `Deal` and `RecvJobs` are
`init_rankmap` (a list and its three messages are one), `InitArg` is `init_arg`;
`OpenFirst`, `WriteHead`, `Tell`, `Convert`, `TakeToken`, `PassToken` and `EndLoop` are
`calc_interval`. A barrier is entered and left in two steps, and `bar` counts the
barriers of a rank: an error return runs into a barrier of another place, which
matches by number. A text leaves its stream in two writes, so appends of two ranks
may interleave. `Scan` is the parser of a record file as a fold over its lines.
Uninitialized memory (`outstr` before the first row, what follows a start on the
last line) is a choice between nothing and `Junk`. **`Interval2csvMC.tla`** holds
the file contents.

**`EnablePmu.tla`** is the x86 kernel module with the programs that write its sysfs
files. A step of a handler is one register access: `ReadGlobal` and `WriteGlobal` are
`pfc*CntWrEnb`, `ReadField` and `WriteCfg` are `pfc*CntWrCfg`, `TestCfg` the read-back in
`pfcCfgWr`, `WriteCount` is `pfcCntWr`; `Selected` is `pfcClampRange` on both ranges of
counters. `Load`, `Reset`, `Create`, `Unload`, `RemoveGroup` and `Unloaded` are the life of
the module; a reset is an interrupt and falls between any two accesses. `hw` is the
processor as CPUID describes it: `Supported` is the module's own test, `NFf` and `NGp`
what it exports. A program goes through `Begin`, `Open` (once per file), `ReadPce`,
`ReadMasks`, `Pwrite` (four calls), `Read` and `Finish`; a descriptor that outlives its
load is "dead". A list of events may be one longer than the build is for, as `ph_set_evt`
allows, and longer than the processor's counters: the handlers drop the rest. `Read` takes
the fixed cycle counter and the first general counters, as many as the build has room for
(`NevMax`, which the programs of an instance may differ in) or as there are events; an access
the processor refuses ends in "fault". Programs are bound to a CPU, which the
user manual demands. `Preempt` says whether a handler can be preempted by another one on
its CPU; the runs assume it cannot (the default of server kernels): with `Preempt` `OnlySelected`
fails, because `pfcFfCntWrEnb` and `pfcFfCntWrCfg` write back what they read before
the other one ran. **`EnablePmuMC.tla`** holds the instance.

**`PhEvt.tla`** is `ph_pmu_parse_cfg`, one action per part of a text: `Begin` (the star),
`EventName` and `EventNumber`, `UmaskName` and `UmaskNumber`, `Cmask`, `Modes` and `Letter`,
`Finish`. A text is a sequence of tokens; names are split where one name of the
table begins with another, so the prefix test and the test of the character behind
a name are those of the code. The constant `EventList` is the table. `Inputs` are given as
the parts a user writes, which lets `Meant` say what a text should mean without
parsing it: `Meanings` are the pairs of an event and a umask of the table that the parts
name or number. A table may give two umasks of one event the same name (this one does);
a text with such a name (`Repeats`) has two meanings and is read as one of them.
**`PhEvtMC.tla`** holds an excerpt of the table, with its overlapping and its repeated
names, and the texts.

**`RdmaRc.tla`** is the RDMA example, a step per library call. `Listen`, `Accept` and `Connect`
are `sock_connect` (for one resolved address: the loop over addresses does not stop at
the first that works); `Obtain` runs through `resources_create` in the order of
`Then`, `Cleanup` is its error exit. `Put`, `ShortWrite`, `Get`, `GetError` and `Killed` are
`sock_sync_data`: the write, a write that comes short, the loop of reads, an error,
and the signal of a write into a closed socket. `chan` counts the bytes that wait to be
read; the constant `ConSize` is the size of the connection data, and a transfer of them may
come short at any byte. At an end of file the loop of reads
has no step: it goes round for ever. `ModifyQp` and `PostReceive` are `connect_qp`, `PostSend`,
`Poll`, `Timeout` and `Main` the exchange, `CallFails` any failing call, `Release` and `End`
`resources_destroy`, which goes on when a release fails. `Deliver`, `Acknowledge` and
`Break` are the adapters (external). `clean` remembers whether anything failed, timed
out or came short of its own accord, as opposed to in answer to the other side.

The modules meet at three places: the final state of `PhInit` (`pc = "commit"`) is
the initial state of `PerfHound` and `PhMpi`, except that the record file is
opened by commit; the `MkRec` step of the latter two is the `MkRec` of `PhInit` seen
by one process. Third, `_ph_init_ts` in the initialisation and `_ph_config_event` in commit are
the four writes of a program in `EnablePmu`.

## Runs

| Run | Question | Bounds |
|---|---|---|
| `serial` | all orders of set_evt, read, dump, finalize, kills and failing calls: is the buffer safe, the file complete, the dump bracketed, the log implemented; are records accounted for and columns right; do calls return? | 5 slots, two tags, 7 calls: every fill level, dumps of each kind and both nestings; 2 failures; 2 events, one of them supported, with a limit of 1: 1,516,207 states |
| `serial_events` | documentation that does not hold | event limit 4, 6 calls |
| `init_mixed` | jobs race for one data root: one owner per run, ring order, complete tree, everybody ends | an MPI job of 3 ranks (2 share a host), a serial program, an MPI job of 1 rank; 2 predefined tags; 1 failing call |
| `init_writer` | documentation that does not hold for racing jobs | 2 jobs of 2 ranks |
| `mpi` | two ranks with a failing call or crash anywhere: files, what fast reads lose, the events, the order of commit and finalize, ends everywhere | 3 slots, the smallest buffer; 4 calls between the two ranks, enough for one of them to fill the buffer by fast reads, find it full and go on; event limit 1: 1,724,359 states |
| `mpi_overrun` | documentation that does not hold | 1 rank, 3 slots, 4 calls: smallest that shows it |
| `mpi_info` | documentation that does not hold | 2 ranks, 1 call each |
| `interval_small` | is each file converted once and each interval kept, do tokens and barriers fit, do all ranks end? | 1 to 3 ranks (first, middle, last), 1 to 4 files: more ranks than files, even and uneven shares; files with an interval, with runs of start lines and an open end, with none; 1 failing call or missing file |
| `interval_rows` | documentation that does not hold | 2 ranks, 4 files |
| `pmu_shared` | what do programs measure that find the registers as others left them; what may a handler disturb; can a read be refused; does an unload end? | one CPU (CPUs share nothing), 2 programs, 2 loads; 2 exported fixed counters; the probe clears 2 general ones; one program's build reads 2, the other's 3; lists of up to 3 events; four processors: one with a third fixed counter and 3 general ones, one with just 2 and 2, one with too few fixed counters, one the module does not support: 902,769 states |
| `evt` | is a text accepted exactly if it should be, does it mean what its parts say, do the fields of the word stay apart? | 4 events, 2 of which share a beginning, 3 umasks of which each begins the next, and two of one name; numbers inside and outside a byte; every comparison with and without a number, one beyond a byte; modes with a stranger among them; parts missing: 88,327 states |
| `rdma_pair` | with every call failing, every wait timing out and every transfer coming short: is a handle released twice, do the synchronisations hold, is the data right, do both sides end? | `ConSize` = 2, the smallest size that can come short (the code has 34); the rest is finite: 844,706 states |

Small buffers are enough because the code compares the index with the size only
near the end (`== buf_nrec - 1`, `>= buf_nrec`) and with 0; a longer buffer adds
fill levels that behave alike. For the serial probe the proofs remove the bound.

What the violated runs show: `phmpi_fastread` never dumps by itself; two jobs that
start on one data root may both write one record file (a rank looks for a free run
number by itself); a record file without an interval gets the rows of the file its
rank converted before (`interval_rows`). The serial probe accepts one event more than documented (`>` at `perfhound.c:84` where `phmpi_set_evt`
has `>=`), and header and rows get a fifth column (`serial_events`); in a build for 4 events
the code of the fifth is stored behind `ph_evcodes`, which the Makefile's build fills with
`en_timestr` of `ph_io.c`, written anew by `ph_io_wtinfo` before it is used. The number of
records in `run_info.csv` is rank 0's own, not the run's (`mpi_info`).

Other things are visible in the models but not runs of their own:

* the extended mode reads 8 general counters (`perfhound.c:163-165`) where the set-up tests 4
  (`ph_pmu_x86.c:43-45`), so on a processor with 4 a program gets through the set-up and its first
  read ends it (`Read`): `Measures` says that only such a build is refused, and `pmu_shared` has one;
* an interval during which the probe dumped its buffer is not in the output of the interval tool,
  because its end record is not on the line behind its start (`pfh_interval2csv.c:430`);
* an unsupported event gets an `etag.csv` row with the id of another column
  (`ph_set_evt`); `ColumnsMatch` says that the rows of the other events are right;
* `nrec_tot` counts batches whose file did not open (`Accounted`);
* a one-rank MPI job ends at the send to rank 1 (`Send`); so does the interval tool with
  one rank (`Tell`); the tool is stuck with more ranks than files, and when the files
  divide evenly rank 0 sends itself a list that nobody receives (`Complete`);
* rank 0 of the interval tool waits for nobody, so its next text may fall between the
  two writes of another rank's (`Part`, `PassToken`); `TokenOrder` is about the others;
* a fixed counter behind the exported ones survives every reset of the kernel module
  (`Cleared`), and the write of a 0 enable bit clears nothing (`ReadGlobal`);
* counters that a handler enables between the reset of an unload and the removal of the files
  stay enabled while the module is out. Nothing promises otherwise; `CleanLoad` and `Measures`
  say that the next load and the next program are not misled by them;
* the modes of an event text are ignored behind a comparison without a number
  (`Understood`), and a comparison beyond a byte wraps (`Byte`);
* in the RDMA example a short write on the first synchronisation skips its read
  (`ShortWrite`), a short read lets the next read take bytes of the following
  synchronisation (`Get`), and a side whose peer closed the socket reads for ever
  (`Left` in `Ends`); memory may be freed under a registration that could not be
  released (`Handles`).

## Fairness

`PerfHound`: weak fairness of `Step` alone: a running process executes its next
instruction. Nothing makes the program call the API, so liveness is only about
calls that were made. `PhInit`: weak fairness of every process' next step, of a
barrier all ranks have reached (MPI's progress rule), and of the launcher
(`mpirun` ends a job that lost a rank; the code relies on it, since it calls
`exit(1)` and not `MPI_Abort`). `PhMpi`: the same, and the collective calls
(set_tag, commit, finalize), which the documentation makes the program call on
every rank; reads are never forced. `Interval2csv`: weak fairness of every rank's
next step, and nothing of the launcher; `Ends` names the commands it is about.
`EnablePmu`: a running handler goes on, an interrupt arrives, and an unload that has
begun goes on; programs need not call anything. `RdmaRc`: a running side goes on (its
wait for a completion is bounded by the clock, so giving up is one of its steps), the
server listens and accepts, and the adapters carry out what they can; no failure is
ever owed. `PhEvt` states safety only.

## Proofs

The theorems hold for all values of the constants that satisfy the named
assumptions of the modules. Seven of these say something:
`BufAssumption` asks for a buffer of at least three records (the code's smallest has
8), `PmuAssumption` for two fixed counters (`MaxFf >= 2`; the code has three, and a record reads
the second one) and nothing else: neither the counters of a processor nor those a build reads
nor the length of a list of events are bounded by one another; `JobAssumption` that "none" is not the name of a job, `SizeAssumption`
that the numbers of ranks in question have a largest one, `EvtAssumption` that no two
events of the table share a name or a number, `InputsAssumption` that texts are made of
the parts a user can write, and `ConSizeAssumption` that the connection data are more
than one byte.

**`PerfHoundProofs`**:

* `StackCorrect`, `BufferSafe`: the step stack only takes the shapes of `StackShape`,
  each with a range of the index; so no store leaves the buffer. `NoOverrun` alone is
  not inductive: that `ph_read` stores before it tests is safe only because every
  shape fixes how much room its remaining reads have. The one nested dump is inside an
  explicit `ph_dump` with two slots left, or under finalize.
* `TypeCorrect`: `TypeOK`, using the shapes for the index.
* `Complete`, `CrashKeepsPrefix`, `EveryRecordAccounted`, `InfoVouches`: from the joint
  invariant `CInv` = types and shapes, `Fresh` (before commit nothing is
  counted or logged), `NothingLost`, `CrashLoss`, `Accounted`, `InfoExact` and
  `InfoLast` (a `run_info.csv` row exists only at the end). They are proved together
  because the write step needs all of them: file and buffer make up the log, so the
  rows written next are the log's next ones, and their number is what is counted.
* `ColumnsMatchHolds`: with `HeaderInv` (once the header is there `ph_ready` is set and the
  number of events is the header's, so `ph_set_evt` changes neither) and `EtagInv` (the
  accepted rows of `etag.csv` number the events).
* `DumpBracketedHolds`: `PairInv` counts the dumps that each stack shape has open (none,
  one or two) against the markers in the log, `LastInv` tells from the last record where
  a dump is, and `BatchInv` that the buffer starts at the last (0,4) row, which is what
  makes the value of the next (0,3) row the size of its batch.
* `FileGrows`: `AppendOnly`, one fact per action that writes.
* `Refinement`: `Spec => ImplementsLog`; initial states map to
  initial states, and `Put` maps to `Measure`, the writes to `Persist`, finalize's
  end to `Close`, crashes to `Lose`, everything else to stuttering; `FailsGrow` lets the step look back: if
  nothing has failed behind it, nothing had before.

`StackInv`, `CrashLoss` and `AppendOnly` are stated by theorems only: the runs check
`NoOverrun` and `ImplementsLog`, which need them.

**`PhInitProofs`**, for any jobs, ranks and hosts:

* `TypeCorrect` and `OneOwnerHolds` from `OwnInv`: which process may be at which step
  (`Roles`); the ranks of a job that are not gone are in the same stage (`Together`, the
  barriers); a rank goes on with the first number that was free when it looked, and no
  rank goes on before all have looked (`Named`); a job creates one run, and all
  of its ranks then have a number that is not later (`Creators`): a later one would mean
  that the rank saw this run made by somebody else. `Ring` says that nobody is in the
  ring before rank 0 owns the directory, and that whoever the message has reached finds
  the ranks before it past their sends.
* `Complete` (`InitComplete`) from `TreeInv`, which adds that the row of a rank is in the rank
  map of its run and in rank order (`Rows`), that the host directory of whoever has
  passed its creation is there (`HostDirs`), and that tags are counted by rank 0 alone
  (`Tags`). A row cannot come too early because the message goes round in rank order.
* `UndisturbedHolds` from `AloneInv`: in a job that nobody races, all ranks have number 1 and
  nobody gets between the test for a host directory and its creation.

**`PhMpiProofs`**, for any number of ranks, under the hypothesis `FastLimit <= BufNrec`:
`phmpi_fastread` stores without a test, so nothing can be said of a program that calls it
on a full buffer; the run `mpi_overrun` shows what happens then.

* `ControlInv` says that there is a number `k` of barriers that all ranks left have passed,
  and gives for each `k` the stacks a rank can have, with the range of its index.
  `TypesHold`, `NoOverrunHolds` and `StartTogetherHolds` follow. The number is needed because
  no rank alone knows that the others have opened their files.
* `EventColumnsHold` from `EventInv`: a rank with a record file has its events fixed, and
  the accepted rows of `etag.csv` are numbered like those of rank 0.
* `EndTogetherHolds`, `NothingLostHolds` and `LossExplainedHolds` from `DataInv`: rows, then buffer,
  are records in the order in which they were taken (`RowsInv`), all of them without
  fast reads (`CompleteInv`); with them each record is in the file, in the buffer, or one of
  the two kinds that a full buffer costs (`LossInv`); what is counted and reported
  belongs to the file (`EndInv`). They are joint because whether the buffer
  still counts depends on the step (`Stored`).

**`EnablePmuProofs`**, for any CPUs, programs, counters and event lists:

* `TypeCorrect` from `ControlInv`: a handler is at a step it knows with a counter left, keeps
  what it has read only up to its write, and is gone before the module is.
* `CleanLoadHolds`: a load finds no handler of the load before.
* `OnlySelectedHolds`, under `Preempt = FALSE` (with preemption it is false, see above),
  from `FreshInv`: what a handler writes back is still in the register, or the CPU has
  been reset in between; then the bits are stale but the other register that a counter
  needs is clear, and nothing starts.
* `MeasuresHold`, with and without preemption, from `MeasureInv`: every program has tested what
  its step relies on, so a read can only be refused for a counter beyond the tested ones,
  which only a build with more counters than the processor takes; and a program that
  is alone on its CPU finds there, for every counter, what it has set so far or
  still has on its list (`Given`, `Counted`).

**`Interval2csvProofs`**, for any numbers of ranks, files and failures and any contents:

* `TypeCorrect` from `CtlInv`: `PlaceOf` relates the step of a rank, the barriers it has
  entered and its files, and allows for an early return (`failed`), whose barrier may be
  the third or the fourth of the others; `LinkOf` says that a rank has at most one list of
  files and one announcement under way, and that the list is the one its receiver expects.
  That `Slice` stays within the record files is arithmetic of quotient and remainder
  (`SliceIs`).
* `TokenOrderHolds` from `OrderInv`. `TokensOf`: tokens under way to a rank plus files it
  has written are at most the files its predecessor has written. `LogInv`: what a
  rank counts as written is in `all.csv`; the header is its first entry once rank 0
  has it behind it, and until then no rank has passed the barrier that all share.

**`Interval2csvComplete`**: `CompleteHolds`, from `CompleteInv`, of which everything but
`OrderInv` is about runs without errors (`Clean`):

* `ShareOf`: a rank holds the slice meant for it, and only an empty one makes it return
  early. `CountOf`: the announcements go from the last rank to the first, so whoever has
  one, or has told its own, has only ranks behind it that have told theirs; rank 0
  always has files, so if it ends all have told.
* `OwedOf`: for each pair of neighbours, tokens used, tokens under way and tokens still to
  be sent are together the files of the later rank: none is left at the end.
* `Exact`: `all.csv` has exactly the parts the ranks have written, each once. With
  `SlicesApart` and `SlicesCover` (the slices partition the record files, by
  arithmetic) the entries behind the header map one to one onto the two parts of each
  record file, which gives their number.

**`PhEvtProofs`**, for every table and every text, of any length:

* `ReadInvHolds`: at each stage what is left of the text is exactly its remaining parts, and
  the fields of the word are those of the parts before. The text is never searched: a
  stage takes the first name of the table that fits, and `NameFits`, `NameAndDot` and
  `NumberEnds` say when a name or a number of the table is what stands at the front of the
  rest, given that the character behind it is tested.
* `UnderstoodHolds`: a text is accepted exactly if it has a meaning in the table, the word
  it is given is one of its meanings, and there is only one unless the table repeats
  the umask's name. `KnownOnce` is the lemma on which the last part rests.
* `FieldsInvHolds`, `ApartHolds`: every field stays within its width at every stage, so no
  two overlap in the accepted word.

**`RdmaRcProofs`**, for connection data of any size and transfers that come short at any byte:

* `LocalInvHolds`: what the next call of a side says about that side alone. `PlaceOf` gives
  its phase and its progress in a synchronisation, `HandlesOf` which handles it has at each
  call of `resources_create` and `resources_destroy`, `SocketOf` and `QpOf` the state of its socket
  and queue pair, `QueueOf` that a side which waits for a completion has exactly one receive
  request, request or completion, and else none. `TypeCorrect` (with the claim that one
  completion entry is enough) and `HandlesHold` follow. Of the other side only
  `Deliver` matters here, which turns a receive request into a completion.
* `BarrierHolds` from `BytesInv`, about no single call: `Came(s)` adds the bytes of the
  synchronisations that `s` has passed to those it has read or has waiting, `Sent` is what the
  other side has written, and the first is never more than the second. A short read
  that takes a byte of the next synchronisation lowers `Came`, so it can make a side wait for
  ever but not run ahead.
* `ContentsHold` from `DataInv`: a request is carried out only between sides that have each
  other's data (`LinkInv`), and the buffers hold at each call what the sequence has put
  there (`ServerBuf`, `ClientBuf`). It needs `BytesInv` in one place: the server has replaced its
  message before the client reads, and does not print before the client has written,
  because the bytes of the third and fourth synchronisation say so. After a short write
  they say nothing; but then no side has the other's data and no request is carried out.
* `NoSpuriousFailureHolds` from `CleanInv`, about runs in which nothing has failed of its own
  accord: no byte is lost (`Came(s)` equals `Sent` of the other side until `s` closes its socket),
  so no socket is closed with unread data and nobody writes to a closed one (`NotPast`);
  the receive request is posted before the server sends and stays until the message comes
  (`Ready`); so every request finds the other side ready (`Reaches`), and a wait
  without hope (`Hopeless`) does not occur.

Only model-checked:

* liveness (`CallsReturn`, `InitEnds`, `JobEnds`, `Unloads` and both `Ends`), which is
  out of the prover's reach;
* `IntervalsKept`, about a fold over the lines of a file: induction over data.

## Not modelled

Values of clocks and counters; formatting; path expansion; the memory layout past
the buffer (an overrun is a state in which a store is out of range). `aligned_alloc`
failing ends the process like any other failure. Everything marked `not_modelled` in
`PROJECT.json`, with its reason. Of the modelled parts:

* of the calls on files only `fopen`, `mkdir` and `access` fail; a failing `fprintf` or `fclose`
  (a full disk), whose results the code never looks at, is left out;
* the two tables of the event parser are data; `PhEvtMC` has an excerpt. (A line of them,
  `ph_evt_x86.c:101`, repeats the name of another umask of its event, so its own
  umask can only be given by number: `Repeats`.)
* the sysfs reads of configuration and counts, which change nothing and which no
  program of the repository makes;
* of the reading macros everything but how many counters a record takes (`Read`). With a ninth
  event of the extended mode `_ph_config_event` also reads one word behind `ph_zeros[8]`, which
  reaches a counter only on a processor with nine general ones;
* the Arm kernel module and macros: registers set at load and unload, with no
  state of their own. (`_ph_config_event` there takes twelve codes as soon as
  there is one event.)
* the header of `run_info.csv`, which two jobs that finish together may both write: the
  test for an empty file and the write are two steps (`ph_io.c:277`);
* option parsing and the configuration the RDMA example prints;
* `mpi_op_old.c`, which no Makefile rule compiles.

## Plan

1. Serial probe: modelled, checked, proved.
2. Run set-up and MPI probe: modelled, checked, proved.
3. `EnablePmu` with its client: modelled, checked, proved; an abstract specification of
   independent counters and its refinement remain.
4. `Interval2csv`: modelled, checked, proved but for `IntervalsKept`.
5. `PhEvt`, `RdmaRc`: modelled, checked, proved.
6. The step-wise search of the resolution tests against the smallest passing value.
