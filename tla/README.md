# MSCS: models, checks and proofs

The repository is one person's coursework: some thirty programs that share
nothing but a directory.  This project models the ones whose correctness
depends on the order in which things happen: the operating system **SOS** of the
Advanced Operating Systems course, in its last state, *SOS Lab 3*; the thread
library *My Threads*; the *port scanner* of the networks course; and the
*instruction level parallelism* simulators of the architecture course.

Paths are relative to the root of the repository.

## 1. Inventory

### SOS Lab 3 (`P536 - Advanced Operating Systems/A5 - SOS Lab 3/`)

SOS runs MIPS processes on a simulated machine.  Its kernel is a set of
cooperative threads (the library `libmt.a`, of which only the header `mt.h` is
in the repository).  The simulator calls `exceptionHandler` for a system call
or a fault and `interruptHandler` for the timer and the two console
interrupts; both end in `schedule()`, which runs every kernel thread that can
run (`mt_joinall`) and then gives the CPU to the first process of the ready
queue.

| part | source | state | operations |
|---|---|---|---|
| pipes | `io.c` 92-157 | the circular buffer (`buf, head, tail, count, lefttowrite`), `nreaders, nwriters`, four semaphores | `read()`, `write()`, the wakeups of the last close |
| console | `io.c` 12-90 | two buffers, `consoleWait`, `writeok`, the device | the two console threads, two interrupts, `read()`, `write()` |
| descriptors | `sched.c` | `filetable` of each process, `num_open` and `mode` of each vnode, the counts of each buffer | `pipe`, `fork`, `dup2`, `close`, `_exit`, the tests of `read` and `write` |
| processes | `sched.c`, `exception.c`, `sos.c` | `cp`, `readyq`, `parent`, `pid`, the tree of pids, `partitions`, `waiters` and `waiter_sem` of each PCB | `schedule`, interrupts, faults, `fork`, `_exit`, `wait` |
| program loading and small calls | `sched.c` 96-151, `exception.c` | user memory | `execve`, `sbrk`, `fstat`, `ioctl`, `getpid`, ... (not modelled) |

The parts meet in the counts `nreaders` and `nwriters`: `descriptors` maintains
them, `pipes` reads them to report the end of file and a broken pipe; and in
the ready queue, where every system call of every part ends
(`syscall_return`).

What is hard here: a kernel thread that blocks in a semaphore has read
shared variables before and uses them after; the wakeup of the last close
reaches a thread that tested the counts long ago; reference counts are kept in
two places (`num_open` and `nreaders`/`nwriters`) by five system calls;
interrupts arrive between any two calls; and a process sleeps on a semaphore of
its own whose count must agree with a list.

What makes it correct: the pipe is a bounded FIFO channel while its write end is open;
nobody sleeps through the event it waits for; the end of a pipe is reported exactly when
its descriptors are gone; no two live processes share memory or a pid; a process is on
the ready queue once, exactly when it can run; a character typed is read before the
next; what two processes write does not mix.

### The other programs

| program | state and operations | hard behaviour | correctness |
|---|---|---|---|
| SOS Labs 1 and 2 (`P536.../A3`, `A4`) | earlier states of the same system: one process; then processes with a one-character console | as above | as above |
| My Threads (`P536.../A2`) | a table of threads, a round-robin `mt_yield`, sleeping, `mt_kill`, semaphores that record their holders; dining philosophers on top | the count of active threads against the table; semaphores that forget a holder | the count is the number of running threads; a semaphore admits what it was made for; neighbours do not eat together |
| My Shell (`P536.../A1`) | a command line with pipes and redirections, one child per command | waits for each command before it starts the next, so a pipe can fill up | every pipeline ends |
| Traceroute Server (`P538.../A1`) | one accept loop, one thread per client, a user counter, a rate limit per client | the arguments of a thread are overwritten by the next client; counter tested without its lock | a thread serves the client it was made for; never more users than allowed |
| Port Scanner (`P538.../A2`) | a queue of ports per address shared by a pool of threads; the raw sockets, tries and rows of each scan; `main` scans protocols when the threads are done | every raw socket reads the answers to all scans, early and late; the end of one address and the start of the next; descriptors that other threads close and open | each port of each address is scanned once; a scan ends; a verdict is true whatever is lost or late; the sockets are given back |
| WireTap (`P538.../A3`) | counters over a capture file | none (sequential) | |
| Monitor and daemons (`B534.../Project 3&4`) | daemons register, get a sync message and publish numbered samples; the monitor lines the samples up | messages of an old state, lost sync flag, threads on unsynchronized collections | a row shown is one sample per daemon with one number |
| Page rank (`B534.../1a`, `1b`) | rows of a graph over MPI ranks | the distribution of the rows | every row is computed once |
| ILP simulators (`B649.../A2`) | sequential (`sim_seq.cpp`), pipelined (`sim_p.cpp`) and Tomasulo (`sim_t.cpp`, `sim_t.h`, `InstructionDecode.cpp`, `LoadReservationStation.cpp`, `WriteBack.cpp`) processors: registers, memory, latches; or stations, the locks of the registers, the write back | stalls, freezes and flushes that meet in one cycle; instructions that end in any order behind locks that are taken at the issue or later | the last two compute what the first computes; no stall lasts |
| Compilers (`P523`), production system and case-based reasoning (`B552`), k-means (`B565`), contest programs, numeric and GPU exercises (`B649.../A1`, `A3`, `P573`) | sequential tree, string or floating-point code | none a model checker reaches, except the loop schedules of the OpenMP translator | |

## 2. Modules

| module | models | state and actions |
|---|---|---|
| `MtSem` | the counting semaphore of `libmt.a`, external | `credit` (the value while not negative) and `wait` (the threads a negative value counts); which waiter `Up` wakes is left open |
| `ByteChannel` | what the pipe of SOS keeps of a pipe's promise | a bounded queue and two ends that may be open: `Put`, `Take`, `Close`; `TakeUnwritten` (the writers have closed and a reader passes over an empty place), `Halt` (a byte is written without a reader) |
| `SosPipe` | a pipe of `io.c` | one action per stretch of code between two semaphore downs: `ReadCall, ReadTop, ReadTake, ReadDone`, `WriteCall, WriteTop, WritePut, WriteDone`, `ReadEof`, `Share` (fork, dup2), `CloseRead`, `CloseWrite` |
| `SosFiles` | the descriptors of `sched.c` | one action per call: `Pipe, Fork, Dup2, Close, Exit` |
| `SosProcs` | processes of `sched.c` | `Dispatch, Interrupt, Fault, Fork, Finish, Exit, Wait, Reap` |
| `SosConsole` | the console of `io.c` | the threads `rc` (`read_console_io`) and `wc` (`write_console_io`), the interrupts, and the calls |
| `MyThreads` | the threads and semaphores of `mythread.c` (My Threads) | the turn: `Dispatch` (`mt_yield` in main), `Yield`, `GoesOn` (a thread comes back in its `mt_yield`), `MainCalls`, `MainWakes`; the calls: `Create, End, Kill, Sleep, Join, SemDown, SemUp`, and `MainTakes`, the end of main's own down; `TimePasses` |
| `SimIsa` | the instructions of the simulators (`sim_seq.cpp`) | constants and operators only: what an instruction computes, when a branch is taken |
| `SimSeq` | the sequential simulator | `Execute`, one instruction |
| `SimPipe` | the pipelined simulator (`sim_p.cpp`) | `Cycle`, one turn of `executeProgram`: fetch, decode, execute, memory, write back, then the copy of the latches |
| `SimTomasulo` | the out-of-order simulator (`sim_t` and its files) | a cycle is `WriteBackRun`, an action of each busy station in the order of `execute()` (`Held`, `LSExecute`, `IntegerAddExecute`, ... `FloatDivExecute`), `Issue` |
| `ScanOptions` | the command line of the port scanner | operators only: `OptionRecords` are the parsed options; `FillOptions` turns them, one by one, into addresses, ports, scans, protocols and threads |
| `ScanPackets` | what the scanner sends, what a host answers (external), what the scanner makes of it | operators only: `Answers`, `Verdict`, `TimeoutVerdict` |
| `WorkPool` | what a crew of workers over a list of jobs promises | `Take`, `Finish` |
| `PortScanner` | the threads, `main`, the scans and the sockets of `portscanner.cpp` | of a thread: `Take`, `PrintRows`; of main: `Join`, `PrintProtocols`; of a scan: `OpenFirst, OpenRest, Decide, Ignore, Retry, GiveUp, SelectError`; of the operating system: `CallFails`; of the network: `Deliver` |
| `MC_*` | instances for TLC | symmetry sets, values of the semaphores, the programs of the simulators (`MC_SourceAsm` has the repository's own `Source.asm`), the hosts of the scanner |
| `SosPipe_proofs`, `SosFiles_proofs`, `SosProcs_proofs`, `SosConsole_proofs`, `MyThreads_proofs`, `PortScanner_proofs`, `SimPipe_proofs`, `SimTomasulo_proofs` | theorems about the module named | |

Common ground of `SosPipe` and `SosConsole`: kernel threads are not preempted,
so at any time at most one runs (`cur`), and it runs until it blocks or ends; a
process makes a call, and an interrupt is taken, only when no kernel thread can
run, because `schedule()` begins with `mt_joinall()`.  In `SosPipe` a byte is
its serial number, which makes loss, duplication and reordering visible.
`SosConsole` has queues where `SosPipe` has the circular buffer, whose indices
are the subject of `SosPipe`.

`SosPipe` takes from `SosFiles` that a count is never below the descriptors and
that a count at 0 stays there (`CountsAreEnough`, `EofIsFinal`).  A process makes a
call on a descriptor, and keeps it while it is inside, since only the process
itself could close it; but `do_read` and `do_write` never ask which end a
descriptor is of (`sched.c` 244-282, 326-331), so any descriptor of the pipe will
do.  The guard of every call, `SpareDescriptor`, says only that there are more
descriptors, of both ends together, than processes inside calls.  A process with
a read descriptor may therefore write, after the last write descriptor is
closed too.

`MyThreads` is a library of its own: main and the threads take turns, every
`mt_yield` of a thread leads to main and main's `mt_yield` to the next thread
of the table that can run, so one action is what a context does between two
switches.  `inside`, the threads that came through a semaphore, is not a
variable of the code: it says what the list `threads` should.  Main calls semaphores
as the threads do (`test_mt.c` 258, 283, 293), and a semaphore records its callers
by `mt_self()`, which is in main the thread that ran last: `inside` holds these
identities.  Before any thread has run, `mt_self()` reads the word in front of the table;
that word is taken to be neither the mark of an empty place nor some thread's
identifier.  Left out: a thread that kills itself (the guard `t # Me` of `Kill`, which
`mt_kill` does not have; `mt_exit` is in the model) and `mt_sem_destroy`.

`SimPipe` is deterministic: what varies is the program.  The operators it is
made of are the stages, in the order in which a cycle runs them, and each is a
function of the latches of the cycle before; `Cycle` puts them together.  The
sequential machine is mapped onto it at the memory stage: `Oldest` is the line
the sequential machine stands at, `WrittenBack` its registers.

`SimTomasulo` has the sequential machine beside it: whenever a line leaves `Issue` for a
station, the auxiliary `seqCounter`, `seqRegisters` and `seqMem` execute it at once
(`SimSeq!Execute`).  `RunsTheProgram` compares: a register is what the sequential
machine has in it unless an instruction is on its way to it, so is the memory unless a
store is, and the line to issue is the one the sequential machine stands at.  The
sequential processor executes the line as it is written.  `sim_t` does not always: it
copies the register of an address over the first register of the line and ends it one
place too far, so that a second digit stays behind (`InstructionDecode.cpp` 150-151;
`sim_seq.cpp` 744 and `sim_p.cpp` 549 clear the copy).  The constant `BaseRead` says
which register is read, or none, and then the line is not issued; the run has `R12`,
behind which `R1` is read as `R12` and `R2` as a register there is not (`Overwritten`).
`MisreadsBase` names the lines for which it is not the one written. The processor does
not keep everything in order, and where it does not the auxiliary `spoiled` becomes true
and the comparison stops.  What spoils it is stated instruction by instruction, as it is
issued, in the terms of the program and the stations (`Mishandles`, `TwiceOrInstead`,
`MisreadsBase`, `StopsInStall`; the fields `x`, `y`, the operands in the sequential
processor, and `behind` are auxiliary too), and no condition could be left out: for each
one TLC finds a program that computes something else, or hangs, without it.
`RunsTheProgram` says that there is no other way.

`PortScanner` is the whole program after `fillOptions()`.  The threads share
`map_iterator` and `ip_map` under `port_mutex`, so one visit of a critical section
is one action; a scan is opened, waited for in rounds of `select()` and
concluded, or `getaddrinfo()`, `socket()` or `setsockopt()` fails in it and `exit(1)` ends
the program with all its threads (`CallFails`, `exited`; lines 1687-1692, 1353-1369, 1396-1400,
630-640); `net` holds the packets on their way, which arrive at any time, at
every raw socket of their protocol, or never.  `WorkPool` is the abstract
specification, and the queues, the jobs of the threads and the printed rows map
to its `todo`, `hold` and `done`.

Abstractions.  Calls that fail and change nothing are left out.  A descriptor is one of
the table (the code lets `fd = FTSIZE` through to a read past it). User memory is left
out.  Whether `c == EOF` can be true of a `char`, and that `c == 255` cannot, depends on
`char` being signed, as it is on the machines the makefile names; `EofBytes` and `Ends`
stand for the bytes that compare equal.  In `SimSeq` and `SimPipe` registers of both
kinds are one set; in all simulators values are words of `W` values with wrapping,
signed arithmetic, a memory cell holds the text of one word and every word is an
address; the parsers (up to the register of an address in `sim_t`; the end that `sim_t`
puts behind the copy of a two-digit one is written one byte past it, which is undefined,
and the register is taken to be read right), the counts of cycles and stalls,
floating-point values (which `sim_p` stores with `%g` and `sim_seq` with `%f`) and a
value of four digits, which a load from an address of five or more digits reads with the
last digits of the address behind it, are left out.  A division by 0 ends the
simulators, and the model stops there (in `SimTomasulo` also for `DIV.D`, where the
program would go on with an infinity). In `SimTomasulo` floating-point values are words
too; `MOVE` passes its number through a union of an `int` and a `double`, and what comes
out is any word, but 0 for 0 (`SameBits`); there are at least as many load stations as
store stations, because `LoadRS[i]` behind the end of the vector is undefined; the model
ends where a branch that was not waited for sends a stall to line -1. In `PortScanner`
two seconds may pass at any point of a wait; the closes at the end of a scan are one
step; the addresses of a file and the options are records, and text that ends in
`print_usage()` is left out; a number of a port is narrowed as by `htons` (line 550,
`HeaderPort`) and read back through an `int` (1657, `Fits`); the uninitialised
`OTHER_RECV_SOCKET` is any of the values the slot may hold (`ProtocolSockets`), and
descriptors are small, so that they are in one word of an `fd_set`; a service check is
the descriptor that it leaves open, and not the text it reads.

## 3. Runs

| run | instance | question |
|---|---|---|
| `pipe_ring` | 3 processes that read, write, share and close; 2 slots; requests of 0..3; 6 bytes, one of them 0xFF | is the ring in order, has each end one thread, does nobody sleep through a wakeup, is the pipe the channel, with what the last closes do to it |
| `pipe_live` | 1 writer, 2 readers, read ends close | does a read that has a byte return; does a writer without readers come to the test of `nreaders` |
| `files` | 2 processes, 1 pipe, `dup2` of its ends | no count below its descriptors; a lost end stays lost |
| `procs` | 4 PCBs, 3 partitions, pids that run out at 5 | memory, pids, zombies, ready queue, and that everybody who can run gets the CPU |
| `threads` | main and 3 threads, one semaphore made with 0 that all four use | is the count of active threads exact, is the semaphore held under one identity and can it be released under it, does everybody run while main joins all |
| `pipeline` | every program of 4 lines out of 14 instructions that `Careful` admits; 2 registers, the name of one inside the name of the other; words of 2 bits; operations of 1, 2 and 3 cycles | does the pipeline compute what the sequential simulator computes, instruction by instruction; does it ever get stuck |
| `tomasulo` | every program of 4 lines out of 25 instructions that begins with an `LI` or with a load; 3 integer registers, `R1`, `R2` and `R12`, and 1 for floating point; two stations for loads and for integer additions, one of every other kind; operations of 1 to 4 cycles; words of 2 bits | do programs compute what they should though instructions end in any order, up to the first instruction the processor mishandles or reads wrong; does every stall end |
| `scanner` | 2 hosts of a `--prefix` block, one port each, 2 threads, SYN and UDP scans, then 2 protocols (one behind the uninitialised socket); 2 packets under way; `select()` of main may fail, and so may any call that opens a socket | is each port scanned once (`IsPool`), is a verdict true, are the sockets given back, does the program end with all rows, or by `exit(1)` |
| `console` | 1 reader, 2 writers, 3 keys, buffers of 2 and 1 | writes are whole, the device is respected, keys are taken, writes return, a line is read |

The bounds.  A buffer of two slots is full, empty and wrapped within three bytes, and
requests of three characters are larger than it; three processes are the fewest with a
thread running, one blocked at the same end and one at the other.  Two processes and one
pipe are enough for every combination of the two counters with shared and unshared
descriptors, and the theorems take over from there.  Four PCBs in three partitions let a
partition be reused and the pids run out.  Three threads are the fewest with one that
runs, one that waits and one that ends or is killed between them.  Three keys fill the
console's buffer of two and have one thrown away. Four lines are the fewest with an
instruction in every stage but one while a branch is decided, and with each stage's
latch holding an instruction the decoded one depends on; loops make the runs of the
programs longer than that. The words 0, 1, -2 and -1 have both signs and overflow. For
`SimTomasulo` four lines are enough for an instruction in each of three stations while
the fourth is issued, and the loops go round until the stations are full; two stations
of a kind are enough for one to be behind the other.  Thirty random instances with
programs of five and six lines out of other instructions, with other numbers of stations
and other costs, of up to a million states, were checked in addition to the run, with
the same result: two clauses (that a store not yet started reads its register late, and
that an operation waiting for the lock of its target reads its operands again) can only
matter in programs of six lines and were found in this way. Two addresses with a port
each make the threads meet at the end of an address and at the end of the list; two
packets under way are an answer and a late one to the try or the scan before. Every
bound is a constant with a name (`MaxReq`, `MaxBytes`, `MaxEnds`, `MaxCount`,
`MaxTyped`, `MaxThreads`, `MaxInFlight`, `Size`, `W`); the sizes 2 and 1 of the buffers
stand for `PIPEBUFSIZE` and the console's 256 and 1.

### Disagreements

Each of these runs checks one sentence of the course notes the code was written
from (`cook_book.txt`), of the code's own comments, or of the programs that come with
it, and TLC shows a behaviour of the code that breaks it.

| run | what happens |
|---|---|
| `pipe_eofhang` | a reader woken by the last close of the writers takes a stale character from the empty buffer and, when it wants one more, never returns |
| `scanner_order` | `tcp_scan` asks `select()` for the descriptors up to that of the ICMP socket, which it opens last; another thread that closes its sockets in between gives it a lower number than the TCP socket, whose answers are then not seen, and an open port is reported filtered |
| `tomasulo_store` | the result of `Source.asm`, the program in the repository, is never stored: a store whose register is locked stays in its station, is issued again in the next cycles, and two of the copies wait for ever |

Noticed beside them while modelling and plain in the code; most are visible in
a module, none is checked by a run.

* Pipes and descriptors: a byte 0xFF ends a read of a pipe with -1 (`io.c` 117); a
  second writer overwrites `lefttowrite` of the first (`io.c` 133); a write with no
  reader calls `exit(1)` and ends SOS (`io.c` 150), where `cook_book.txt` Step 10
  (338-344) has the process killed: `BrokenPipeIsNoticed` is about the way to that test
  and says nothing of what follows; the mode of a vnode is never tested, so a process
  with only a read descriptor writes, and one with only a write descriptor reads
  (`sched.c` 244-282, 326-331); after the close of the last writer a reader takes a byte
  that nobody wrote, and if somebody still writes, through a read descriptor, the next
  byte is lost for it (`TakeUnwritten`); when three processes share a pipe, `fork`
  counts every descriptor and `close_fd` only the closes at `num_open` 0, so the last
  close of the write end leaves `nwriters` positive and there is no end of file
  (`sched.c` 685; `SosFiles` has it); `dup2` leaves the count of the descriptor it
  replaces (769); `pipe` leaves `num_open` at 0 (779); `fd = FTSIZE` is let through
  (247); `read` follows a NULL entry (326); the console output vnode is counted as a
  read end (`sos.c` 52).
* Processes: orphans keep a dead parent, because the line that would enter a
  child in `children` is commented out (`sched.c` 589); children of init are not
  freed (652); with no pid left everybody gets the last one (473); `wait()` without
  children blocks for ever (725); a process that faults is lost with its memory
  (`exception.c` 149).
* My Threads: `mt_join` looks at the slot two past the thread it is given (`mythread.c`
  243), so it returns while that thread runs; a thread that kills itself is counted
  twice (281); the threads that hold a semaphore are kept at the place `-sVal`,
  which is right for a semaphore made with 0 and lets a later one overwrite an earlier
  one when several may be inside, and a semaphore made with n admits n + 1 (378).
  The theorems and the run are therefore about semaphores made with 0, the only ones
  the philosophers make.  Such a semaphore lets its first caller through, where `mt.h`
  (157, 176-178) says that a down below 0 blocks, and an up by anybody but a holder does
  nothing: it is a lock, and not the way for one thread to wait for another that
  `test_mt.c` makes of it (75-107, 333-337).  Main has no identity of its own, so it can be
  turned away from, or give back, what the thread that ran last holds.
* Pipelined simulator: the memory stage takes a `SUB` for a store by its first letter
  (`sim_p.cpp` 1219); a taken branch throws away the line fetched behind it only if
  its label is not the program counter (661, 733, 796, 858), so a branch over one
  single instruction executes it; `BEQ` and `BNEQ` do not look for their second
  register in the pipeline (645, 715), so they compare an old value; a label behind
  the last line makes a frozen fetch run the last line again (1005); and a load of an
  empty cell leaves the register as it was (1264).  These are the clauses of `Careful`
  and of the memories of the run: without any one of them `RunsTheProgram` fails.
* Tomasulo simulator, the conditions that end the comparison: an operand that was
  free once is read again in every cycle, so an instruction behind can change or lock it
  (`sim_t.h` 620; `OvertakesReader`); a second writer of a register goes without the
  lock (`OvertakesWriter`); loads and stores compare no addresses (520;
  `OvertakesAccess`); a store that misses its lock stays in its station and resets a
  load station (`LoadReservationStation.cpp` 97; `TwiceOrInstead`); a `DIV.D` that
  meets the write back of its target is dropped, for `fdivs` is no kind of stations
  (556; `Dropped`); `MOVE` moves the bits of a number (714; `MovesAnother`); a load or a store
  locks the register its own address waits for, `L R2,1(R2)` (477; `WaitsForItself`);
  the base of an address is read wrong behind a two-digit register, `L R12,0(R1)`, or
  the line is dropped, `L R10,0(R2)` (`InstructionDecode.cpp` 150; `MisreadsBase`);
  a `.D` branch is never taken, or waits for a lock on no register; and the simulator
  ends in a cycle that stalls while no station is busy (`StopsInStall`).
* Port scanner: one address that does not resolve, or one socket too many, ends the
  program, and the rows of the other threads are not printed (1691, 1354, 1397);
  `--scans ,` asks for no scan at all (239); `protocol_scan` does not compare the
  protocol in an ICMP message, so a late answer for one protocol closes the next one;
  `udp_scan` does not either, so the answer to a TCP probe of the port filters it;
  service checks leave their socket open (1065) and split text with `strtok` in several
  threads at once; `ip_map` is keyed by pointers to the text of an address, so one given
  twice is scanned twice, in the order of the heap (the model takes the order given);
  the number of addresses of a `/0` overflows (348).

### Fairness

`KernelStep` of `SosPipe` and the threads of `SosProcs` and `SosConsole` are weakly
fair: `schedule()` does not return to a process before `mt_joinall()` has run every
thread that can run.  `Dispatch` and `Interrupt` of `SosProcs` are weakly fair:
`schedule()` always dispatches, and `SOS()` starts a timer.  The interrupt of the
console's output is strongly fair in `SosConsole`: it stays pending in the simulator
until it is taken, but can be taken only at the moments when no kernel thread can run,
which other threads interrupt again and again.  In `MyThreads` the library's own steps
(`Dispatch`, `GoesOn`) and the clock are weakly fair, and so is `Yield`: cooperative
threads take the CPU only until they yield, and without that no property of a scheduler
of this kind holds.  `Cycle` of `SimPipe` is weakly fair: it is the body of a loop that
nothing else interrupts; and so is `Next` of `SimTomasulo`, for the same reason.  In
`PortScanner` each thread's own step and main's are weakly fair, for the operating
system runs them and time goes on in a `select()`; a packet need not arrive, and no
failure must happen (`SelectError`, `CallFails`).  Nothing else is assumed of users: no
fairness for calls, closes or keys.

## 4. Proofs

`SosPipe_proofs` proves, for any number of processes, any buffer size and any
sizes of the calls: `TypeCorrect`, `EndsAreExclusive`, `RingKeepsOrder`,
`WakeupsAreNotLost`, and that the pipe implements `ByteChannel`
(`PipeIsChannel`).  `RingInOrder` is not inductive: that a store does not
overwrite a character needs a free place, which only the semaphore `nempty`
knows, and the thread that came through it is alone only because of
`write_serialize`.  The inductive invariant is therefore

    IInv = TypeOK, OneAtEachEnd, RingInOrder
         + Queues      the threads in the queue of a semaphore are the ones blocked
                       on it, and nobody waits while there is a credit
         + Serialized  read_serialize and write_serialize are free when nobody owns the end
         + Credits     nelem and nempty count characters and places, up to the
                       thread between its down and its ring access, and up to
                       one V of the last close
         + Positions   tail is count places after head

with one lemma per action.  The `one V of the last close` is a credit without a
character: it is where the disagreement `pipe_eofhang` comes from.  The
refinement maps the ring to the queue of the channel (`Bytes`), `wrote` to its next
byte (`Serial`), a `count` of -1 to the byte a reader is owed (`Owed`) and the two counts to
the ends that are open (`OpenEnds`).  Nothing in it says who may read or write: besides
`IInv` it needs that SOS halts only after the last reader went (`HaltedBroken`).

Two more theorems are the safety parts of the liveness properties.  `ReadersAreServed`:
a reader that has got a character never waits for one that nobody brings; while somebody
can write, a writer in the buffer has characters left and is not blocked.  It has the
hypothesis `OneWriter`, which the run meets and without which it is false, and rests on
what `lefttowrite` says (`Announced`): what the writer has left, or 0 or -1 when nobody
writes, and never 0 when a reader has gone on for more.  `BrokenPipeEnds`: when the last
reader has left, the writer in the buffer is not blocked, however it was, its own next
two steps call `exit(1)`, and nobody else's step takes it back.  It has no such
hypothesis; the credit that `close_fd` adds is in `Credits`.

`SosFiles_proofs` proves, for any number of processes, pipes and table
entries: `TypeCorrect`, `CountsAreEnough` and `EofIsFinal`.  The inductive
invariant adds to `TypeOK` that only live processes have descriptors (`Closed`),
that a pipe not yet made has none (`Fresh`), and

    Covered   the descriptors of a pipe's end are at most its count

No closing can break `Covered` although `close_fd` counts a close only when
`num_open` is 0 (lemma `DropsBounds`: `k` calls take at most `k` from a count),
`fork` adds to the count what it adds to the descriptors, and `dup2`, which adds
one to the count, may lose a descriptor of another pipe, never gain one.

`MyThreads_proofs` proves, for any number of threads and semaphores:
`TypeCorrect`, that the count of active threads is exact (`CountIsExact`), and
that a semaphore made with 0 is a lock (`SemaphoreIsLock`), of identities, whoever of main
and the threads calls.  The inductive
invariant is

    IInv = TypeOK, ActiveAreCounted
         + Made        only threads that were made run, and the one with the turn runs
         + Listed      a semaphore made with 0 is free and its list empty, or one
                       identity is inside and has the first place of the list

`Made` is what `mt_kill` and the end of a thread need to take one from a count
that is not 0 (nobody counts a thread out twice); `Listed` is stronger than
`OneInside` because a caller leaves only through the list.

`TheTurnComes` is the safety part of `EverybodyRuns`: while main is in `mt_joinall`
a thread that may run is at most `MaxThreads` slots from the thread that had the CPU
last, main's scan of the table finds somebody, and only that scan moves the turn,
each time nearer to the thread, whoever is made, killed, sleeps or ends meanwhile.
It uses `CountIsExact`: with a count that was too low, `mt_joinall` would return, or
`mt_yield` give up, before the turn comes.

`SosProcs_proofs` proves, for any number of processes, partitions and pids, the
types and the five safety invariants of the run: `RunsOnce`, `ZombiesAreCounted`,
`MemoryIsExclusive`, `PidsAreUnique` and `PidsAreCounted`.  The inductive invariant
adds to them

    Sleepers      only a process itself sleeps on its waiter_sem, when the count is 0
    Family        a parent was born, and is somebody else
    ZombiesQueue  what is on the list waiters of p is a zombie of p, once
    Unborn        nobody has exited below a process that is not born

`ZombiesAreCounted` needs all four: `_exit` adds to the list of its parent and ups
the parent's semaphore, which wakes the parent or nobody (`Sleepers`, `Family`), and
`fork` makes a process of a PCB whose list is empty (`Unborn`).  The pids need
`ZombiesQueue`: a pid is destroyed when its zombie is taken from the list, and
a zombie that was on two lists, or twice on one, would destroy it twice.

`EverybodyGetsNearer` is the safety part of `GetsTheCpu`: a process that can run has
a place, on the ready queue or behind it and the kernel threads that may still put
somebody there, which is at most the number of processes; and every step of
anybody, a call, a fault, an interrupt or a step of the kernel, lessens its place, or
leaves it and lessens the steps to the next dispatch.  It rests on two facts: a process
is on the ready queue once (`RunsOnce`), and a process has the CPU only when no
thread of the kernel can run (`Quiet`).

`SosConsole_proofs` proves, for any readers, writers, buffer sizes and calls:
`TypeCorrect`, `DeviceReady`, `CharsCounted`, `WritesStayWhole` and `KeysTaken`.
The invariant has a part for each direction (`InInv`, `OutInv`) and a common one, and
a step of one direction leaves the other part alone (lemmas `InKept` and
`OutKept`).  Each part says who waits in which queue, that the semaphores count
characters and places up to the thread between its down and its buffer access,
and that the serializing semaphore is free exactly when nobody owns the buffer.
The two action properties are the reason for the rest: `Text` says that the
buffer of the output continues what is shown, character by character of one
`write()` and a new one only when the last is complete; and `Device` that
the device is busy exactly while `write_console_io` waits for its interrupt.
Two theorems are the safety parts of the liveness properties, for the moments when no
kernel thread can run.  `WritersAreServed`: if a `write()` has not returned then, the
console is busy and `write_console_io` waits for its interrupt; the owner of the
output waits for room, so the buffer is full, and whoever empties it cannot be waiting
for a character.  `ReadersAreCalled`: if a `read()` has not returned, the buffer is
empty and `read_console_io` waits for a key, so no line end is slept over.

`PortScanner_proofs` proves, for every command line, number of threads, network and
limit of packets:

* `ThreadsArePool`: the threads implement the pool.  Its invariant `CrewInv` says
  that the queues behind the iterator are untouched, those before it empty, and
  a busy thread has a job (`Queues`, `Work`), and that a thread leaves only at the
  end of the list (`Phases`).
* `EveryPortIsPrinted`: when main has got to its end every port of every address is in print.
  That comes from `Phases` and from what `WorkPool` promises, which is proved through
  the refinement (`PoolPartitioned`): no port is lost, and none is scanned twice.
* `AskedReported`: what is in print then is what the command line asked for.  `FillOptions`
  is a loop over the options, and over the lines of a file; what it has after each turn
  is a function on `0 .. Len(options)` that is defined by recursion.  `Counting` is the
  induction: of the turns that do not have the property one would be the first
  (`WFMin`).  From it come that the functions exist (`KeptStep`, `TurnsStep`), what the
  vectors hold after each turn (`FileAddressesAre`, `TurnsAre`), and the types
  of the arguments (`ArgsAre`), which the other proofs about the scanner rest on.
* `VerdictsAreTrue`: a verdict says what the port is.  `Traffic` says that every packet
  under way and every packet in a socket answers some scan of this run; a packet
  that the code takes for an answer to its own scan therefore was sent by
  the same host from the same port, though perhaps to another thread or try.
* `DescriptorsBounded`: three sockets for each running scan and one for each
  open port whose service was asked for, however the scans end.  The invariant is that
  the sockets left open are not more than those ports (`LeaksCounted`), which
  needs from the pool that no port is scanned twice.
* `NoScanForEver`: the safety part of `Finishes`.  Every step ends the program with
  `exit(1)`, after which there is none, or lessens the first that it
  changes of the ports nobody has taken, the addresses before main, the places before
  a thread (`Place`: 6 for each scan of a port, since a scan is opened, sent and
  tried at most three times), the packets under way and the packets unread, and there
  is an end to each (`Bounded`).  Packets that decide nothing keep a scan busy only
  while there are any, and a try brings one at most (`AnswersAreFinite`).

`SimPipe_proofs` proves, for every set of programs of any size, any registers, any width
of the words and any table of cycles: `TypeCorrect`, and that the pipeline implements
the sequential processor, `PipelineIsRight`, under one hypothesis,

    AllCareful == every program is Careful and every cell has a number

which are the conditions found necessary above, and which the instance of the run
meets.  The refinement says nothing of a cycle in which no instruction leaves the memory
stage, and for the others it needs to know why the operands read cycles ago are
still right.  The inductive invariant is

    PipeInv = Types, Right (the hypothesis, kept)
            + Fetching   where the program counter and IR are, seen from the line to
                         decode: one line ahead, or two after a stall or freeze, or at
                         the label of a branch decided behind a frozen execute
            + Path       the lines in write back, memory, execute and decode are a path
                         of the sequential processor
            + Operands   an instruction in execute has the operands it would be given
                         now and nothing ahead of it writes them; one in the memory
                         stage has its sequential result

`Path` is there for the second register of `BEQ` and `BNEQ`, which the decoder does
not look for in the pipeline: `Careful` speaks of the three lines before a branch in
the program, and `Path` says that those are the ones in the latches.

`NeverStandsStill` is the safety part of `KeepsMoving` and needs no `AllCareful`: every
cycle brings the next instruction to the memory stage, or the program to its
end, one cycle nearer, and neither is ever more away than the cycles of one
operation and two (a division by zero takes no more cycles: the simulator dies).  Its
invariant says that only a line that asks for a register stalls, and only an instruction
in execute freezes the stages before it, for less than its cycles (`Standing`).

`SimTomasulo_proofs` proves, for every set of programs, any registers, any number of
stations of each kind and any times of the operations: `TypeCorrect`, and
`TomasuloIsRight`, that registers, memory and the line to issue are those of the
sequential processor unless the program was mishandled or the base of an address misread.
The inductive invariant is

    Inv = Types, and spoiled or Right
    Types = TypeOK
          + Shape     a station at work has an instruction of its kind, another one is reset
          + Turns     the turn is at a station at work; a stall is for a line of the program
    Right = Holding   the instruction issued in this cycle is held, and only that one
          + Stalling  at most one branch is under way and it stops the fetch; otherwise
                      the line to issue is the sequential processor's
          + Ending    the end is seen only when stations and write back are empty
          + Mems      a cell is right but for a store under way, which is alone at its cell
          + Locks     of at most two writers of a register one has the lock; the other has
                      not started and waits for it
          + Regs      the last writer of a register makes what the register should become
          + Alone     a `MOVE`, which locks a register of the wrong file, is the only writer
          + Data      a station that has started has the operands of the sequential processor
          + Operand   one that has not will have them

`Operand` carries the proof.  An instruction that has found its register free has
not read it yet: it reads it when it starts, in the next turn of its station, so every
later writer must be unable to start before (`Gets`, first case).  One that
found it locked waits for that lock, so there must be one writer before it and no other
(second case).  `RunsTheProgram` says nothing of either, and each of the conditions of
`spoiled` is used where the issue of an instruction would break one of these parts.
There is a lemma for each station's start, its running and its result, one for each
kind of instruction that is issued, and one for the write back.

"Unless the program was mishandled" would say little if every program were.
`SingleAssignmentIsRight` therefore names a class that never is, by its text alone:
programs without `S` and `MOVE`, whose branches look at integers and jump ahead, which
write no register that an earlier line writes or reads, and whose loads do
not write the register of their own address and read the one that is written in
the line (`MisreadsBase`).  Such a program ends with the registers,
memory and counter of the sequential processor, unless that one dies with a
division by zero.  The proof adds to `Inv` that what is busy, what waits for the
write back and what has a lock come from a line before the one to issue (`Orderly`):
then nothing under way has to do with the register that the next line writes, and no
condition of `spoiled` can hold.  TLC agreed on 40 220 such programs of five lines.

The assumptions are the named ones on the constants: `SosPipeAssumption`,
`SosFilesAssumption`, `SosProcsAssumption` (finitely many PCBs, at least three pids),
`SosConsoleAssumption`, `MyThreadsAssumption`, `PortScannerAssumption` (the options are
parsed ones, they name a host and a port, no prefix is shorter than 2 bits, since an
`int` counts the addresses of a block, and no range of protocols ends at 32767, where
the `short` that runs through it never ends) and `HostsAssumption` (a host treats a port
in one of four ways), `SimIsaAssumption`, `SimPipeAssumption` and
`SimTomasuloAssumption` (what the parser lets through, `validateRegister`, a base that
is some integer register or none, `BaseRead`, and no more store than load stations).  A
run evaluates each of them.  Beside them the proofs rest on the external parts: the
semantics of `MtSem`, and what a host answers (`Answers`).

Only model-checked is liveness, because the prover does not reason about fairness and
`ENABLED`: `GetsTheCpu`, `EverybodyRuns`, `Finishes`, `KeepsMoving` and their like.  For
eight of them the part that is not about fairness is proved, that each step brings the
goal nearer by a measure that is bounded, or that whoever is waited for can go on:
`EverybodyGetsNearer`, `TheTurnComes`, `NeverStandsStill`, `NoScanForEver`,
`ReadersAreServed`, `BrokenPipeEnds`, `WritersAreServed` and `ReadersAreCalled`.  What
is left to TLC is that the fair actions are enabled and so taken.  Every invariant and
every step property that a run checks is also a theorem.

## 5. Not modelled

| part | why |
|---|---|
| `execve`, `sbrk`, `fstat`, `ioctl`, user memory (SOS Lab 3) | copying between user and kernel memory by one process; no order of events is involved |
| SOS Labs 1 and 2 | earlier states of the code that `SosPipe`, `SosConsole`, `SosProcs` model; Lab 2's console hands over one character at a time |
| `mt_sem_destroy`, self-kill (My Threads) | a semaphore exists from the start, as in the clients; `mt.h` offers `mt_kill` for another thread; one that kills itself frees the stack it runs on |
| dining philosophers, My Shell, Traceroute Server, monitor and daemons, page rank | small clients or pool programs; in the plan |
| service checks (Port Scanner) | text of six application protocols, read over a blocking socket |
| parsers and cycle counts of the simulators | sequential text handling; the place where a processor was seen to work on something else than the line says, the base register in `sim_t`, is modelled (`BaseRead`) |
| WireTap, compilers, production system, case-based reasoning, data mining, contest, numeric and memory exercises, scripts | sequential programs over text or floating-point numbers |

## 6. Plan

1. Done: `SosPipe`, `SosFiles`, `MyThreads` with proofs; `SosProcs`, `SosConsole`,
   `SimPipe`, `SimTomasulo`, `PortScanner` checked.
2. Done: proofs for `SosProcs`, `SosConsole`, `PortScanner`, `SimPipe` and
   `SimTomasulo`: every safety property of the runs, the safety parts of eight of the
   liveness properties, and a class of programs the out-of-order processor never mishandles.
3. The dining philosophers on top of `MyThreads`; the accept loop of the Traceroute
   Server; the monitor's rows of samples; `SosFiles` and several `SosPipe`s in one
   specification.
