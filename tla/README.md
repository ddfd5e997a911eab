# The V7 kernel in TLA+

This directory models the kernel of UNIX V7 for the x86 (`usr/sys` of this
repository: `sys/*.c`, `dev/*.c`, `h/*.h`, `conf/mch.s`) in TLA+, checks the
models with TLC and proves some of their properties with TLAPS. Paths below are
relative to `usr/sys` unless they begin with `usr/`.

## The system and its parts

One processor, not preempted in the kernel. A process runs kernel code until it
calls `sleep` (or `swtch`), and only interrupt handlers run in between. All
that is hard in this code comes from three things:

* what a process knew before a sleep may be wrong after it;
* what a handler does between two instructions that are not protected by `spl`;
* flags (`B_WANTED`, `IWANT`, `IREAD`, `runout` ...) that one party sets before
  it sleeps and another must see in order to wake it.

| part | state | operations | interacts with |
|---|---|---|---|
| buffer cache, `dev/bio.c` | `buf[]` headers: flags, association, available list, device lists | `getblk` `geteblk` `bread` `breada` `bwrite` `bdwrite` `bawrite` `brelse` `bflush` `iowait` `iodone` | called by the file system, swap and exec; the disk driver calls `iodone` at interrupt level; `sleep`/`wakeup` on buffers and on the list |
| sleep, wakeup, scheduling, `sys/slp.c` | `slpque`, `runq`, `p_link`, `p_wchan`, `p_stat`, `SLOAD`, `runin`, `runout`, `runrun`, `curpri` | `sleep` `wakeup` `setrun` `setrq` `swtch` `qswtch` `sched` | everything that waits; signals (`psignal`), the clock, swap I/O |
| interrupts, `conf/mch.s` | `pl`, `iq`, the stack | `call1`, `spl0..7`, `splx`, `unqint`, handlers | every `spl` section in the kernel |
| clock and callouts, `sys/clock.c` | `callout[]`, `time`, `lbolt` | `clock`, `timeout` | drivers enter functions; nested clock interrupts |
| pipes, `sys/pipe.c` | the inode's lock, `IREAD`/`IWRITE`, `i_count`, `i_size`; the read offset | `readp` `writep` `plock` `prele` `closef` | inode lock shared with `update`, signals, file table |
| signals and ptrace, `sys/sig.c` | `p_sig`, `p_flag`, `ipc` | `psignal` `issig` `stop` `psig` `procxmt` `ptrace` | sleep, exit, wait |
| process life cycle, `sys/sys1.c`, `newproc` | `proc[]`, `mpid`, `u.` | `fork` `exec` `exit` `wait` `sbreak` | files, text, core and swap maps, signals |
| text segments, `sys/text.c` | `text[]` with counts, `XLOCK` `XWANT` `XWRIT` `XLOAD` | `xalloc` `xexpand` `xfree` `xccdec` `xuntext` `xswap` | inodes, maps, swapping |
| resource maps, `sys/malloc.c` | `coremap`, `swapmap` | `malloc` `mfree` | process images, text |
| block and inode allocation, `sys/alloc.c` | the super block in core: `s_free`, `s_nfree`, `s_inode`, `s_ninode`, `s_flock`, `s_ilock`, `s_fmod` | `alloc` `free` `ialloc` `ifree` `update` | buffer cache, inode table |
| inode table, `sys/iget.c` | `inode[]`: number, count, `ILOCK` `IWANT`, links | `iget` `iput` `iupdat` `itrunc` `tloop` `maknode` | path names, files, text, `update` |
| files and system calls on them, `sys/fio.c`, `rdwri.c`, `subr.c`, `nami.c`, `sys2.c`, `sys3.c` | `file[]`, `u_ofile`, directories | `open` `close` `read` `write` `link` `unlink` `mount` ... | inode table, buffer cache, devices |
| character lists and terminals, `sys/prim.c`, `dev/tty.c` | `cfree`, `clist`s, `t_state` | `getc` `putc` `ttread` `ttwrite` `ttstart` | console and serial interrupts, `timeout` |
| disk drivers, `dev/hd.c`, `fd.c`, `md.c`, `cd.c`, `dsort.c` | the queue of requests | strategy, start, interrupt | buffer cache, interrupts |
| packet driver `dev/pk*.c`, multiplexor `dev/mx*.c` | windows, channels | | not in the standard configuration |
| start, configuration, accounting, memory device | | | run once, generated, or stateless |
| commands, libraries, games, documents, contributed programs | | | not modelled: user programs |

What makes each part correct, in short:

* buffer cache: one buffer per block; what is read is what was written last;
  no buffer is lost; everyone who waits is woken; processes that hold one
  buffer and want another do not block each other.
* sleep and wakeup: the one link of a `proc` threads the right queue; wakeups
  and signals are not lost; only images in core run; `sched` does not sleep
  while it has work.
* interrupts: a section at level n is not entered from level n or below;
  interrupts that are noted are taken.
* callouts: every function is called once, in time; the table is not overrun.
* pipes: a first-in first-out stream with atomic writes; ends of file and
  broken pipes are told truly; nobody waits for a partner that is gone.
* process life cycle: every child is reaped once, by its parent or process 1.
* text: the counts agree with the processes; a segment is freed once.
* maps: what is handed out is disjoint and all is accounted for.
* file system: a block is free or in one file; `s_flock` and `s_ilock` protect
  the lists; an inode number is given to one file.
* terminals: no character of a list is lost or doubled; flow control resumes.

## Modules

| module | models | kind |
|---|---|---|
| `BufferCache` | `dev/bio.c` with the FIFO of `dev/hd.c`, and `bmap` as a caller with two buffers | detailed |
| `BlockStore` | one register per block; only a process that set out to store a block changes it | abstract specification of `BufferCache` |
| `MCBufferCache` | the callers' mixes for TLC | instance |
| `BufferCacheProofs` | the inductive invariant of `BufferCache`, its theorems, what the buffers contain, and that the cache implements `BlockStore` | proofs |
| `SleepWakeup` | `sys/slp.c` with its callers in `sig.c`, `trap.c`, `clock.c`, `text.c` | detailed, link by link |
| `MCSleepWakeup` | two hash functions | instance |
| `SleepWakeupProofs` | the inductive invariant of `SleepWakeup`, with the walk of `wakeup`, and its theorems | proofs |
| `Interrupt` | `call1`, `unqint`, `spl` of `conf/mch.s`, and the clock's own lowering of the level | detailed |
| `Callout` | `timeout` and the callout part of `clock` | detailed |
| `ClockProofs` | the theorems of `Callout`, with the sums they rest on, and those of `Interrupt` (`Intr`), at whose levels the callouts are worked off | proofs |
| `Pipe` | `sys/pipe.c`, with `closef`, `iput`, `update` as they act on a pipe | detailed |
| `ResourceMap` | `malloc` and `mfree` of `sys/malloc.c` on one map with its holders | functions and a specification around them |
| `ResourceMapProofs` | their soundness and the theorems | proofs |
| `ProcessImage` | `sys/text.c`, `exit`, `wait`, `fork`, `exec`, `break` of `sys1.c`, `newproc`, `expand`, `sched`, `swapin` of `slp.c`, `swap` of `bio.c` | detailed, space as counts |
| `MCProcessImage` | the symmetry of the processes | instance |
| `ProcessImageProofs` | the inductive invariant of `ProcessImage` without the texts' contents, and the theorems that who runs is in core and that an image gives back the units it has | proofs |
| `Terminal` | `dev/tty.c` in the usual mode over `dev/sc.c` | detailed, characters by kind |
| `TerminalProofs` | the count of the delimiters, and what an empty read has seen | proofs |
| `Channel` | a queue with atomic writes and two ends | abstract specification of `Pipe` |
| `MCPipe` | who has which ends open | instance |
| `PipeProofs` | the inductive invariant of `Pipe`, its theorems, and that it implements `Channel` | proofs |
| `FileSystem` | `sys/alloc.c` and `sys/iget.c` with their callers in `nami.c`, `sys2.c`, `sys4.c`, `rdwri.c`, `subr.c`, `fio.c` | detailed, over blocks as registers |
| `MCFileSystem` | the symmetry of processes, slots, blocks and names; without the processes where one is the super user's | instance |
| `FileSystemProofs` | the inductive invariant of `FileSystem` and its theorems | proofs |

Each mutant definition (marked "Mutant:") is a plausible bug of the definition
that follows it; it is not used by any specification and shows, put in the
place of the definition, that a property would notice.

### BufferCache

`cpu` is the process that runs in the cache; a step of a process is the code up
to the next sleep, or up to a point where it runs at level 0 and the disk
interrupt matters. `frame` (a task, a place, what is held) stands for the call
of the file system. The disk driver is a FIFO of requests (`hd.c` with
`b_actf`); `Intr` finishes the first and may report an error. Flags, the
available list in order, the association and the sleep channels are those of
the code. `geteblk`, whose buffers have no block, gives back with `brelse` as
`readi` does. The error that `hdstrategy` reports at once for a block out of
range, and `alloc` returning NULL to `bmap`, are left out.

### SleepWakeup

`slpque`, `runq` and `link` are the code's singly linked lists, threaded
through one field. `Wakeup` is the loop of `wakeup`: `Turn` is one turn of it,
pointer by pointer, given what `setrun` makes of the process that `Unlink` has
taken from the chain. `MakeRun` is that `setrun` with the `wakeup(&runout)` it
makes from inside the loop, `WakeupSched`: a loop of the same kind whose own
`setrun` makes none, because `runout` is 0 by then. A loop that meets
a process a second time goes round for ever, which `hung` records. `Met` gives
what a walk along the links meets, in order. Channels are constants
and `Hash` gives their chains. `SchedScan`, `SchedSwapin`, `SchedVictim` ...
are the pieces of `sched` between its sleeps; the ages by which it chooses
are a choice.

### Interrupt

The controller is never masked: `Raise` either runs the handler (a frame on
`stack`, with the level to restore) or notes the line in `iq`. `Mask` holds the
constants of `mch.s` bit by bit.

### Callout

The table is an array with one entry beyond its end, so that an overrun can be
seen. `clock`'s copy loop is `Load` and `Store`: a nested tick may come between
them. `due` and `missed` are history.

### Pipe

`file` is the contents of the inode, `offset` the read offset. Actions are the
code between sleeps: `PlockSleep`, the tests of `readp` and `writep` under the
lock, the transfers as a begin and an end with the inode locked, `Close` and
`Closef`, the truncation of the last `iput`, and `update`'s
`SyncBegin`/`SyncEnd`, which count in `i_count`. `Signal` is the end of a
sleep by a signal.

### FileSystem

One volume. `s_free`, `link`, `s_flock` are the free list as the super block
and the blocks that link it hold it, last element first out; `s_inode`,
`s_ilock` the spare inodes; `inode` the table (number, `ILOCK` and its owner,
`i_count`, whether an update flag is set, mode, links and addresses); `dinode`
the i-list. `s_ilock` counts the scans because that is what the code adds to
it, and the scan that ends first sets it to 0. `dinode[0]` stands for the
files that are not followed; it holds the blocks that are not free at the
start. `Made` builds the list as `mkfs` does.

`pc[p]` is the place in the kernel where the process is and `u[p]` what it
carries there (the name, the i-number, the slot, the block in hand, and `then`,
the place that `iget` or `iput` returns to). A process keeps `cpu` through all
the places before which nothing sleeps; before the places in `Reads` a block is
read or obtained, and others may run. `Blocked` names the loops on a lock. A
wake-up is not an event here: a process that waits can go on as soon as its
test succeeds, which is what `SleepWakeup` shows of `sleep` and `wakeup`.

A system call is a path through the places, for instance `creat` of a new name:
`StartName`, `NameiMissing`, `IallocScan`, `Iascan`..., `IallocPop`, `IgetNew`,
`Iread`, `IallocGot`, `Wdir`; `close` of the last reference to a removed file:
`StartClose`, `IputLast`, `Itrunc`, `Free` (or `FreeLock`, `FreeCopy`,
`Freed`), `Ifree`, `Iupdat`.

*The super user.* `access` returns 0 for `u_uid` 0 before it looks at `i_mode`
(`fio.c:164`), and `open1` does not call it for an open with neither read nor
write (`sys2.c:133-141`). The constant `Su` is the set of the processes that open
like that. They may open an inode that was freed between `namei`'s look at the
entry and `iget` (`Open1` with `Allowed`; the others get `Open1Refused`), write
to it and close it, and `creat` may make a file of it meanwhile. `OpenAlive` is
about the open files of the others, whatever those in `Su` do. That it holds,
with `LinksCounted`, `CountsOK` and `NoDeadlyEmbrace`, is proved for any `Su`
(`FileSystemProofs`). `BlocksOnce` and `FreshInode` hold only if `Su` is empty,
and are proved under that condition. `fs_files` has `Su = {}`, where all of them
hold; with `Su = {p1}`, the symmetry `DataSymmetric` and one block TLC completes
`LinksCounted` and `OpenAlive` and finds the other two violated (see
"Findings").

Left out, and so not shown: indirect blocks (`tloop`), `link` (whose comment
says that it races), `falloc` failing (whose `iput` runs without the lock),
files shared between processes, directories that change
their size, `wdir` in a removed directory, I/O errors, and the super block that
`update` writes. `IgetFull` may happen at any `iget`, because other files use
the table too.

### ResourceMap

A map is the sequence of its entries. `MallocAddr`, `MallocRest` and `Mfree`
are the functions of `malloc.c`; `Startup` gives page after page with `mfree`
as `startup` does, leaving out holes, and then holders allocate, free and give
back the end of what they have (`expand`), of no units too.

### ProcessImage

Core and swap space are counted, and `coreI`, `swapI`, `coreT`, `swapT` say
what each image and text has of them; where the space lies is the matter of
`ResourceMap`. `load`, `slock`, `count`, `ccount`, `xload`, `xwrit`, `lock` are
the flags and counts of `proc` and `text`. `pc[a]` is the place where an actor
is (the processes and `sched`), `u[a]` what it carries there, with `cc` and
`xs` as the places that `xccdec` and `xswap` return to. The transfers of
`swap` wait for one of the two headers, and an `Interrupt` ends them. A process
keeps `cpu` from one place to the next unless it sleeps there; `MayStart` gives
the processor away by priority, as far as the sleeps fix it. `Newproc` without
core follows the code in letting the parent run as the child (`u.up`) while
it writes itself out.

*Victims and stale texts.* `sched` chooses by age. `Candidates` are all those
that pass the tests of `slp.c:253-258`: `p_time` counts the seconds since a
process came into core, not those of a sleep, and `p_nice` is added to it, so
that any of them may be old enough wherever it sleeps. The code then breaks its
own claims about memory, counts and texts (`MemoryOnce`, `TextCounts` and
`TextIntact`; `proc_counts` is the run for the second, "Findings" tells all
three): a process waits in `xlock`, in `xuntext` or in `xalloc`, the last user of
the text exits meanwhile, and the waiting process goes on with a text that was
freed. `stale` is a history variable: it is TRUE
once that has happened (`WentOnWith`). `proc_images` states `MemoryUnlessStale`,
`CountsUnlessStale`, `TextUnlessStale` and `OnlyEmbrace` under `~ stale`, and its
constraint `NotStale` only spares TLC the states of which they say nothing
(`RunsInCore` and `ImagesOnce`, which have no such condition, are proved
without it). `OnlyEmbrace` says in its own words which deadly embrace there is:
`sched` waits for the lock of a text whose holder left it in `xfree` and was
swapped out while it wrote it out. The system stops in it, hence
`CHECK_DEADLOCK FALSE`.
`Root` only forks and waits, like `init`.

Left out: a full swap device and a full text table (an assumption gives enough
of both), the arguments of `exec`, signals, ptrace, physio (`SULOCK`),
unmounting, `acct`, the sleeps of `iput` in `xfree` and `xuntext`, and that
`xrele` looks at the rest of the table after a text that went stale.

### Terminal

`rawq`, `canq`, `delct` are the input side, with the delimiter 0377 as an
element of its own; of the output queue only the length counts. A process in
`canon` or `ttwrite` runs until it sleeps, but a key may come between any two
of its steps at priority level 0; the tests and sleeps at `spl5` are one step
each, with what `ttstart` does in them. `KeyStop`, `KeyStart`, `KeyFlush` and
`KeyChar` are the ways through `ttyinput`, `Scxint` the timer that `scstart`
enters. `Interrupted` is the end of a sleep by a signal, at any time. `last`,
`cut`, `early` and `split` are history for `NoFalseEof`. A read returns nothing at
two places, and the property is about both: at the end of `canon` with an empty
line (`CanonEnd`), and at the first test of `t_canq.c_cc` in the loop of `ttread`
(`CopyFirst`), before which an interrupt key, or a raw queue that is too long,
may have flushed what `canon` gave it or another read had left. The console
has a carrier from its opening on.

Left out: RAW and CBREAK, TANDEM, LCASE and escapes, the delays and tabs of
`ttyoutput`, opening and closing, and the blocks of `prim.c`, which never run
out here.

## Runs

| run | instance | shows |
|---|---|---|
| `cache_coherence` | 2 processes, 2 buffers, 3 blocks, 2 contents, no errors | `OneBufferPerBlock`, `CleanMatchesDisk`, `BwriteDurable`, and that the cache implements `BlockStore` |
| `cache_holders` | 2 processes that hold one buffer and want another, 2 buffers, 2 blocks, 1 error | `BuffersOnce`, `NoLostWakeup`, `NoDeadlyEmbrace`, and (fair) `EveryTaskEnds` |
| `sleep_queues` | 3 processes, 1 traced, core for 2 | `QueuesOK`, `WakesAll`, `SchedHasWork`, `NoSignalLost` |
| `sleep_shared` | `&runout` shares a hash chain | finding: the nested `wakeup` breaks the run queue |
| `intr_levels` | lines 0, 1, 4, 14, nesting up to 6 | `SplExcludes`, `ClockOnce`, (fair) `NotedIsHandled` |
| `callout_table` | 3 timers, 10 entries | `OneEntryEach`, `OnTime`, (fair) `EachIsCalled` |
| `pipe_channel` | a writer, a reader, one with both ends; PIPSIZ 2, writes of 3, reads of 1 and 3 | `NoConstipation`, `EndsMeetCalls`, (fair) `CallsEnd`, and that a pipe implements `Channel` |
| `resource_map` | 11 units with a hole of 2 | `MapOK`, `UnitsOnce`, `Fragments` |
| `proc_images` | init and 2 processes, 1 shared program that may be sticky, 3 units of core, images of 1 or 2 | `MemoryUnlessStale`, `CountsUnlessStale`, `TextUnlessStale`, `OnlyEmbrace`, `RunsInCore`, `ImagesOnce` |
| `proc_counts` | the same | finding (`TextCounts`): `xalloc` hooks a process up to a text that was freed while it waited, and the next `exec` takes the entry and counts itself only |
| `tty_lines` | 2 processes; queue limits 2, `canonb` for 2 characters, high and low water 1 and 0; all keys but erase and kill | `DelctCounts`, `NoFalseEof`, (fair) `WritesEnd` |
| `fs_files` | 2 processes, 2 names, 2 inodes, 2 slots, 3 blocks (1 or 3 free), all calls, nobody the super user | `BlocksOnce`, `LinksCounted`, `CountsOK`, `OpenAlive`, `FreshInode`, `NoDeadlyEmbrace` |

### Why the bounds are enough

* Cache: two buffers for three blocks means that every `getblk` of a third
  block has to reassign one, that the list runs empty, and that a delayed write
  stands in the way; two processes wait for each other's buffer and for the
  list. Operations are per buffer and per block, so a third of either repeats
  what is there. One error is enough to reach every error path once.
* Sleep: three processes are the least for a chain with a predecessor and a
  successor of the process that is woken; core for two makes `sched` swap in
  both directions.
* Interrupts: one line of each level in use. `MaxNest` is never reached: the
  levels on the stack increase.
* Callouts: three timers make an entry with a neighbour on both sides.
  `MaxTim = 2` allows equal times, a zero difference and a split one. One tick
  in the calls and one in the closing up are allowed in all; more add up.
* Pipe: PIPSIZ 2 and writes of 3 make divided writes, a full pipe and a file
  of 3 = 2 * PIPSIZ - 1; reads of 1 leave an offset behind, reads of 3 catch up.
* File system: `NICFREE = 2` and three free blocks make a list of two arrays,
  so that the next part is read while another block is freed; one free block
  for two files makes the volume full. One spare inode and two inodes make
  `ialloc` scan, find one that is in use, and come back. Two names that lead to
  two inodes let an i-number be given to another file while someone holds it.
  Nobody is the super user; what holds with one is proved.
  One address per file: `itrunc` and `bmap` repeat the same steps for more.
  Two scans that overlap need three processes (see "Seen while reading"); with
  two the spare inodes are never too many, and the model does not stop.
* Resource map: 11 units with a hole in the middle are enough for three
  neighbours that are freed in every order, and for a request that fits the
  second entry only. The proofs cover the rest.
* Process images: three units of core for images of up to two and a text make
  `fork`, `break` and `exec` each find no core, so that every way through
  `xswap`, `newproc`, `expand` and `xexpand` is taken; three processes are the
  least for a text left by one, used by another and wanted back by a third
  (`sched`), and enough for each of the four failures told under "Findings".
  One program: a second only adds waiting for core. What `proc_images` shows of the texts, under
  `~ stale`, it shows for three processes; four are beyond TLC, and random
  executions of four have not met another violation. The theorems about the
  images hold for any number.
* Terminal: with a limit of 2 the raw queue holds two lines or overflows;
  `canonb` for 2 is filled exactly, and exceeded. Two readers, two writers, and
  one of each are all in the instance.

### Fairness

Weak fairness of a process's steps means that a process that can run is run.
`swtch` takes the best priority and equals last in first out, so this is
what the decay of `p_cpu` and priorities provide among processes that sleep
again and again, not a promise for a loaded machine; nothing here claims a bound.
The disk is fair because the driver starts the next request whenever one
finishes. In `Interrupt`, `Return` and the return to `spl0` have strong
fairness: handlers are short, and a section can be interrupted again and again
but not for ever. In `Terminal` a process has strong
fairness because others, and keys, take the processor from it again and again,
and the timer weak fairness; nobody has to type. In `Callout` the base-level tick is fair since idle and user
mode are at the base level. Liveness is stated only for behaviours in which new
calls, `sync` or interrupts stop where these could go on for ever
(`<>[][~...]_vars => ...`).

## Proofs

`BufferCacheProofs` proves, for any processes, buffers, blocks, contents,
tasks and number of errors:

* `TypeCorrect`, `SingleBuffer` (`OneBufferPerBlock`), `Ownership`
  (`BuffersOnce`) and `WakeupsDue` (`NoLostWakeup`).
* They follow from `Invariance`: `IndInv` is inductive. None of them is
  inductive alone: that a buffer has one owner depends on the place of every
  process (what it holds at each place in the code), on the list being free of
  repetitions, and on the requests in the driver's queue being busy. `IndInv`
  is the conjunction of the types, the shared state (list, associations, queue)
  and, for each process, what its place says. There is one lemma for each
  action; lemmas on sequences (append, prepend, tail, remove) come first, and
  the actions that differ only in the frame share `MarkShared`, `TakeShared`,
  `ReleaseShared`, `EnqueueShared`.

The second half of the module goes on from `IndInv` to the contents:

* `CleanBuffers` (`CleanMatchesDisk`), `DurableWrites` (`BwriteDurable`) and
  `Implementation` (`ImplementsBlockStore`), the last for `MaxErrors = 0`: a
  read that fails leaves a buffer that is done and holds something else, and a
  delayed write that fails is lost, so a cache over a disk that fails is no
  store of registers.
* `DataInv` is the inductive invariant (`ContentsInvariance`). Beside `IndInv`
  it says that a clean buffer without a request is as its block (`CleanOK`),
  that the buffer of a `bwrite` under way holds what is being written
  (`WriteOK`), and that the block a process looks for is the one of its task
  (`TargetOK`), without which `BlockStore` would see a write to a block nobody
  wanted to write. `BufferCache` therefore states of a task (`TaskOK`) what
  every caller keeps to: a block where the operation takes one, a second one of
  its own for `bmap`, which writes it late, and a release without a write for a
  buffer that has no block.
* The steps of the cache fall into a few kinds as far as contents go (nothing;
  a buffer reassigned; a read started; contents stored; a request finished):
  each kind is shown once to keep the invariant and to map to a step of
  `BlockStore` or to none, and each action to be of its kind.

`SleepWakeupProofs` proves, for any processes, channels, hash function, traced
processes and core, `QueuesInOrder` (`QueuesOK`), `SchedIsTold`
(`SchedHasWork`), `SignalsReach` (`NoSignalLost`), `WakeupIsComplete`
(`WakesAll`, an action property) and `WakeupEnds` (never `hung`), all under one
condition: `RunOutAlone`, that no other channel has the hash value of
`&runout`. The condition is needed, as the finding of `sleep_shared` shows, and
`sleep_queues` has an instance of it; nothing in the code ensures it.

* A list is not described by its length or by induction along its links but by
  ranks: all processes have different ranks, and `Thread` says that the head has
  the least rank of its list and each link leads to the next rank of the
  list. To take a process from a list changes no rank, and one put at the head
  gets a rank below all; so a rank function serves for all lists at a time, and
  a process goes from one list to another with its one link. `MetIs` counts the
  ranks below: a walk along the links meets exactly the set and then ends.
* `Tidy` says so of all chains and of the run queue, with `off` for the
  processes that are on none: the one that runs, one that `wakeup` has just
  unlinked, or one that is stopped. `EnqueueOK`, `UnlinkOK`, `SleepsEffect` and
  `OrderedTake` show it of `setrq`, of the unlinking in `wakeup`, of `sleep` and
  of the search in `swtch`.
* The loop of `wakeup` has an invariant, `Walk`: the queues are tidy, the walk
  stands at a process of its chain with `q` its predecessor, and nobody it has
  passed waits for the channel; no rank on the chain changes for those still
  to come, whatever `setrun` does to others. Each turn either passes a process
  or wakes one (`WalkPass`, `WalkWake`), which bounds the turns, and the loop
  that `setrun` starts inside it (`WalkNested`) stays off the chain because of
  `RunOutAlone`. `WakeupEffect` is the sum: the queues stay in order, all that
  sleep on the channel and nobody else but `sched` are woken, and if anyone
  out of core was among them `sched` was told.
* The invariant of the specification, `Inv`, adds to the order of the queues
  (`Order`) what `sched` knows (`Images`): while it moves an image, that image
  is not in core, and the images in core, those under way and the free places
  are `Core`. The bounds of `core` in `TypeOK` need that, and the
  `wakeup(&runout)` in `setrun` that process 0 itself is always in core.

`PipeProofs` proves for any processes, PIPSIZ and calls `SleepersAreDue`
(`NoConstipation`), `EndsAreTold` (`EndsMeetCalls`) and `Implementation`
(`ImplementsChannel`). `PipeInv` is inductive: the flags and counts agree with
the open ends and with the users of the inode (`i_count` with `update`'s own
reference), the lock has one owner, the read offset is within the file, and
for each process what its place says (`CallOK`) and what its sleep presumes
(`SleepOK`). What a wakeup may forget is in `SleepOK` alone: it has to be
shown again for every action that changes a flag, a count or the size. The
refinement maps the channel's queue to the file behind the offset, what a
reader got to its buffer, and the ends to the counts. `PipeAssumption` says that the
processes are finitely many and that the marks of the model are not among them.

`TerminalProofs` proves `DelctCounts` (`DelimitersCounted`) for any processes
and any limits of the queues. It is inductive together with `CpuOK`: whoever is
between two places where it may sleep has the processor, so that one process
at most is between the `getc` and the `t_delct--` of `canon`. The lemmas count
the delimiters of a queue (`DelimsOf`) after a character is put to its end or
taken from its front. The action property `NoFalseEof` (`EofIsTyped`) needs a second
invariant, `EofParts`, about what the queue and `canonb` hold: a delimiter comes
behind the key that ends its line, and at the head of the queue only when `canon` has
just taken that key or has left the delimiter of a line that filled `canonb`
(`split`); and a `canon` that has taken no key found its queue flushed (`cut`),
the count behind (`early`) or such a delimiter. It rests on the count: `canon`
begins only when one is counted. A third, `FirstOK`, is about the other place
where a read returns nothing: who is before the first test of `t_canq.c_cc` had
a character to take, and has the processor, so that only a flush at interrupt
level takes it away.

`ClockProofs` proves of `Callout` `OneEntryEach` (`EntriesOnce`) and `OnTime`
(`CallsOnTime`) for any timers, times and table for which `RoomEnough` holds:
NCALL is more than the number of timers times two and the ticks that may come
while the calls are made. The condition is there because `timeout` tests for a
full table only if the new entry is the last (see "Seen while reading"), so
nothing but the number of timers keeps the table from being overrun; entries
that expired stay in it until it is closed up, and a function may enter its
timer again with each tick, which is where the ticks come from (`ExpiredOK`).
The invariant `CalloutInv` adds the shape of the table (`ShapeOK`: the entries
in use come first), what the two pointers mean (`PointersOK`), and that the
entry on its way from `p1` to `p2` counts for what the register holds
(`TimesOK`). The times are sums over the table: `Sums` is a recursive
function, whose existence and laws (a tick, an entry put in, an entry moved,
entries without time) are proved by least counterexample from the
well-foundedness of the naturals.

`FileSystemProofs` proves for any number of processes, names, blocks, inodes
and entries of the table, and for any set `Su` of processes whose open does not
look at the mode, `Counts` (`CountsOK`), `Links` (`LinksCounted`), `OpenFiles`
(`OpenAlive`, which is about the others' open files) and `NoEmbrace`
(`NoDeadlyEmbrace`), and `Fresh` (`FreshInode`) if `Su` is empty. They follow from `Invariance`: `IndInv` is inductive. None of them is
  inductive alone: that a buffer has one owner depends on the place of every
  process (what it holds at each place in the code), on the list being free of
  repetitions, and on the requests in the driver's queue being busy. `IndInv`
  is the conjunction of the types, the shared state (list, associations, queue)
  and, for each process, what its place says. There is one lemma for each
  action; lemmas on sequences (append, prepend, tail, remove) come first, and
  the actions that differ only in the frame share `MarkShared`, `TakeShared`,
  `ReleaseShared`, `EnqueueShared`.

The second half of the module goes on from `IndInv` to the contents:

* `CleanBuffers` (`CleanMatchesDisk`), `DurableWrites` (`BwriteDurable`) and
  `Implementation` (`ImplementsBlockStore`), the last for `MaxErrors = 0`: a
  read that fails leaves a buffer that is done and holds something else, and a
  delayed write that fails is lost, so a cache over a disk that fails is no
  store of registers.
* `DataInv` is the inductive invariant (`ContentsInvariance`). Beside `IndInv`
  it says that a clean buffer without a request is as its block (`CleanOK`),
  that the buffer of a `bwrite` under way holds what is being written
  (`WriteOK`), and that the block a process looks for is the one of its task
  (`TargetOK`), without which `BlockStore` would see a write to a block nobody
  wanted to write. `BufferCache` therefore states of a task (`TaskOK`) what
  every caller keeps to: a block where the operation takes one, a second one of
  its own for `bmap`, which writes it late, and a release without a write for a
  buffer that has no block.
* The steps of the cache fall into a few kinds as far as contents go (nothing;
  a buffer reassigned; a read started; contents stored; a request finished):
  each kind is shown once to keep the invariant and to map to a step of
  `BlockStore` or to none, and each action to be of its kind.

`SleepWakeupProofs` proves, for any processes, channels, hash function, traced
processes and core, `QueuesInOrder` (`QueuesOK`), `SchedIsTold`
(`SchedHasWork`), `SignalsReach` (`NoSignalLost`), `WakeupIsComplete`
(`WakesAll`, an action property) and `WakeupEnds` (never `hung`), all under one
condition: `RunOutAlone`, that no other channel has the hash value of
`&runout`. The condition is needed, as the finding of `sleep_shared` shows, and
`sleep_queues` has an instance of it; nothing in the code ensures it.

* A list is not described by its length or by induction along its links but by
  ranks: all processes have different ranks, and `Thread` says that the head has
  the least rank of its list and each link leads to the next rank of the
  list. To take a process from a list changes no rank, and one put at the head
  gets a rank below all; so a rank function serves for all lists at a time, and
  a process goes from one list to another with its one link. `MetIs` counts the
  ranks below: a walk along the links meets exactly the set and then ends.
* `Tidy` says so of all chains and of the run queue, with `off` for the
  processes that are on none: the one that runs, one that `wakeup` has just
  unlinked, or one that is stopped. `EnqueueOK`, `UnlinkOK`, `SleepsEffect` and
  `OrderedTake` show it of `setrq`, of the unlinking in `wakeup`, of `sleep` and
  of the search in `swtch`.
* The loop of `wakeup` has an invariant, `Walk`: the queues are tidy, the walk
  stands at a process of its chain with `q` its predecessor, and nobody it has
  passed waits for the channel; no rank on the chain changes for those still
  to come, whatever `setrun` does to others. Each turn either passes a process
  or wakes one (`WalkPass`, `WalkWake`), which bounds the turns, and the loop
  that `setrun` starts inside it (`WalkNested`) stays off the chain because of
  `RunOutAlone`. `WakeupEffect` is the sum: the queues stay in order, all that
  sleep on the channel and nobody else but `sched` are woken, and if anyone
  out of core was among them `sched` was told.
* The invariant of the specification, `Inv`, adds to the order of the queues
  (`Order`) what `sched` knows (`Images`): while it moves an image, that image
  is not in core, and the images in core, those under way and the free places
  are `Core`. The bounds of `core` in `TypeOK` need that, and the
  `wakeup(&runout)` in `setrun` that process 0 itself is always in core.

`PipeProofs` proves for any processes, PIPSIZ and calls `SleepersAreDue`
(`NoConstipation`), `EndsAreTold` (`EndsMeetCalls`) and `Implementation`
(`ImplementsChannel`). `PipeInv` is inductive: the flags and counts agree with
the open ends and with the users of the inode (`i_count` with `update`'s own
reference), the lock has one owner, the read offset is within the file, and
for each process what its place says (`CallOK`) and what its sleep presumes
(`SleepOK`). What a wakeup may forget is in `SleepOK` alone: it has to be
shown again for every action that changes a flag, a count or the size. The
refinement maps the channel's queue to the file behind the offset, what a
reader got to its buffer, and the ends to the counts. `PipeAssumption` says that the
processes are finitely many and that the marks of the model are not among them.

`TerminalProofs` proves `DelctCounts` (`DelimitersCounted`) for any processes
and any limits of the queues. It is inductive together with `CpuOK`: whoever is
between two places where it may sleep has the processor, so that one process
at most is between the `getc` and the `t_delct--` of `canon`. The lemmas count
the delimiters of a queue (`DelimsOf`) after a character is put to its end or
taken from its front. The action property `NoFalseEof` (`EofIsTyped`) needs a second
invariant, `EofParts`, about what the queue and `canonb` hold: a delimiter comes
behind the key that ends its line, and at the head of the queue only when `canon` has
just taken that key or has left the delimiter of a line that filled `canonb`
(`split`); and a `canon` that has taken no key found its queue flushed (`cut`),
the count behind (`early`) or such a delimiter. It rests on the count: `canon`
begins only when one is counted. A third, `FirstOK`, is about the other place
where a read returns nothing: who is before the first test of `t_canq.c_cc` had
a character to take, and has the processor, so that only a flush at interrupt
level takes it away.

`ClockProofs` proves of `Callout` `OneEntryEach` (`EntriesOnce`) and `OnTime`
(`CallsOnTime`) for any timers, times and table for which `RoomEnough` holds:
NCALL is more than the number of timers times two and the ticks that may come
while the calls are made. The condition is there because `timeout` tests for a
full table only if the new entry is the last (see "Seen while reading"), so
nothing but the number of timers keeps the table from being overrun; entries
that expired stay in it until it is closed up, and a function may enter its
timer again with each tick, which is where the ticks come from (`ExpiredOK`).
The invariant `CalloutInv` adds the shape of the table (`ShapeOK`: the entries
in use come first), what the two pointers mean (`PointersOK`), and that the
entry on its way from `p1` to `p2` counts for what the register holds
(`TimesOK`). The times are sums over the table: `Sums` is a recursive
function, whose existence and laws (a tick, an entry put in, an entry moved,
entries without time) are proved by least counterexample from the
well-foundedness of the naturals.

`FileSystemProofs` proves for any number of processes, names, blocks, inodes
and entries of the table `Counts` (`CountsOK`), `Links` (`LinksCounted`),
and any set `Su` of those whose open does not look at the mode, `OpenFiles`
(`OpenAlive`) and `NoEmbrace` (`NoDeadlyEmbrace`), and for an empty `Su` `Fresh`
(`FreshInode`). They follow from `Invariance`: `FilesInv` is inductive. It
adds to the properties

* who has which lock (`LocksOK`): the owner of `ILOCK` stands at a place with
  that inode in hand, and a process that has a name holds its directory but
  for the time in which it waits for it;
* the lists (`ListsOK`): `s_flock` is set while one process copies a part of the
  free list, and `s_ilock` counts no scan that does not take place, which is
  all that the code keeps true of it, since the first scan to end sets it to 0;
* that an entry of the table without an update flag is as on the disk
  (`CleanOK`), without which `iput` could drop the last link of a file;
* for each place what the process knows there (`PlaceOK`): the name that
  `creat` found missing is still missing while its directory is locked, the
  one that `unlink` found still leads to the inode it has got, the inode that
  is freed has one reference and no links, and the inode that `creat` makes a
  file of has one reference if `Su` is empty.

`OpenAlive` needs all of it: that `iput` frees an inode only if no file has it
open is `CountsOK`, that the inode of an open file has not gone to another name
in between is `LinksCounted` and `CleanOK`. A step is shown to touch only inodes
that are unlocked or the process's own (`Touches`), directories it has
locked (`DirsOf`), and one reference (`CountKind`); from that the lemmas
`OthersPlaces`, `LocksStep`, `CountsStep` and `LinksKept` give what stays true of
the others, and each action has a lemma of its own for the process that makes
the step. `NoEmbrace` rests on an order: whoever waits for a directory waits
for someone who does not wait for one; whoever waits for an inode, for someone
who waits for the lists at most; whoever waits for a list, for someone who waits
for nothing.

`BlocksAccounted` (`BlocksOnce`) is the theorem about the blocks: if `Su` is
empty, each is in the free list, in one file or in the hands of one process, once. `BlocksInv` adds
to `FilesInv` a partition of the volume (`Parted`): the blocks `F` that the list
holds, `G` of the files and `H` in the hands of processes, each of the three
holding its blocks once. The list is a chain of arrays (`Chain`), each found
through the head of the one before it, and `ListInv` says what keeps it sound:
no block twice in it, and only the head of an array may be the 0 that ends the
list. From that follow what `alloc` and `free` do to it (`ListPush`, `ListNew`,
`ListPop`, `ListNext`), also when the array in core moves to or from a block:
then the arrays of the chain shift by one, and that the last array of the chain
has no block, so that none is lost by the shift, is a pigeon-hole argument
(`LastEmpty`). `OneFirst` says that while an array is on its way there is none
in core, which is what the lock of the list is for, and `FreeEmpty` that an
inode that is free, or about to be, has no blocks, so that none is lost with
it: there an open that does not look at the mode would break it. Each action has a lemma on where it moves a block. The list that `mkfs`
leaves is such a chain by `MadeList`, block by block.

`FileSystemAssumption` takes processes, names and blocks to be
finitely many and `None` to be none of the rest.

`ClockProofs` proves of `Interrupt` `SplExcludes`, `ClockOnce` and the types for any set
of lines that satisfies `MaskOrder` and any depth: the masks let in at a level
only lines whose handlers have a higher level. The masks of `mch.s` satisfy it
without line 15 and not with it, see "Seen while reading". The
invariant adds that only base code is at level 0 and only the first handler has
interrupted it (`BaseOnly`), and that the clock has lowered the level only from
such a frame (`LoweredAtBase`).

`ResourceMapProofs` proves `MapOK` (`WellFormed`), `UnitsOnce` (`Accounted`)
and `Fragments` (`FewFragments`) for any size of memory, any holes in it
(`HoleAssumption`), and any requests. The heart is
`MallocSound` and `MfreeSound`: applied to a map that is sorted, joined and
without empty entries, `malloc` and `mfree` give such a map, with exactly the
units removed or added that were asked for. `MfreeSound` goes through the four
cases of `mfree` (joined on both sides, on the left, on the right, alone); its
condition, that the units freed are not in the map, is what the second half of
the invariant provides: `MapOK` and `UnitsOnce` are inductive only together,
and with `next` in its range. `FirstFit` and `Place` are choices by least
index, whose existence rests on the well-foundedness of the naturals. For
`Fragments` each entry but the first is mapped to what lies right before it, a
holder or the last unit of a hole: a map without repetitions, because joined
entries do not touch, and a count of finite sets instead of an induction.

`ProcessImageProofs` proves `RunsInCore` of `ProcessImage` for any numbers of
processes, programs and texts, stale or not. The invariant has two halves. `Control` says what the
frame of each process, and of the scheduler, holds at the place it has reached:
which process it works for, whether it runs, and where it goes on afterwards.
`Images` relates the flags of an entry of `proc` to the frames that are on their
way with its image: an image that is being written out or is not yet read in has
no `SLOAD`, or its process has `SLOCK` and `sched` leaves it alone. `sched`
clears `SLOAD` before it calls `xswap` and sets it only when the image is in
core (`OutOK`, `SchedOK`); the parent of a fork is `SIDL` while its image is
copied out, keeps its own, and the child does not run until then (`ForkOK`); and
whoever has the processor has its image in core (`CpuOK`). `RunsInCore` alone is
not inductive because the choice of `sched` lies many steps before the harm: that
nobody sets a process to work between the clearing of `SLOAD` and the return of
`xswap` is a fact about all the frames at once. Each action has a lemma for
`Control` and one for `Images`; `Elsewhere` and `Others` say once what a step
leaves alone.

On this invariant rests the second theorem, `ImagesOnce`, the images' half of
`MemoryOnce` as an action property: whatever a step takes from or gives back to
core or swap space for an image is what that image gains or loses. The code
reckons with sizes from several places: `p_size` in `fork`, `exit` and `sched`,
the old and the new size in `expand`, the argument `os` in `xswap`, which stands
in a frame during the whole transfer while `p_size` is the new size already.
`Held` says how they agree. An image that nobody writes out is whole in core, or
on the swap device, or on both while `sched` reads it in (`AtRest`). For one that
is being written out the writer's frame says what is in core: `os` units, or
none if it is a child's in `fork`; and on the swap device are none up to the call
of `xswap`, and `p_size` units from there on (`Written`). That no image has two
writers (`OneWriter`) follows from `Images`: `sched` takes only what has `SLOAD`,
and clears it first. Hence no step needs a condition on the texts or a bound on
the processes here either.

Each theorem rests on the named assumptions of its module on the constants and
on the conditions it states (`MaxErrors = 0`, `RoomEnough`). TLC checked every
inductive invariant on the instances of the runs before it was proved.

Only model-checked: all liveness (out of the prover's reach),
`MemoryUnlessStale`, `CountsUnlessStale`, `TextUnlessStale` and `OnlyEmbrace` of
`ProcessImage` (what they say without their condition does not hold of the code,
as "Findings" tells), and `NoDeadlyEmbrace` of
the cache (it depends on the callers' mix). `ImplementsBlockStore` is checked,
as it is proved, without I/O errors.

## Findings

Runs that find the code in disagreement with its comments:

* `sleep_shared`: the `wakeup(&runout)` nested in `setrun` changes a hash chain
  that an outer `wakeup` walks, and the rest of the run queue is lost
  (`slp.c:161`).
* `proc_counts`: `xalloc` does not look at `x_iptr` again after it waited in
  `xlock`, and counts itself in `x_count` only then (`text.c:103`). While it waits
  for a text that is being written out by its last user's `break`, and is
  swapped out itself, that user is swapped in again and exits, so that `xfree`
  frees the text. `xalloc` attaches its process to the free entry, which the next
  `exec` takes for its own program with `x_count` 1.

Found with TLC on the instances of the runs above, and not the subject of a run
of their own:

* The same `exec` runs without a text of its program: with `TextIntact` as the
  invariant of `proc_counts.cfg` TLC stops at the process that `xalloc` hooked up
  to the freed text ("If there is, hook up to it", `text.c:77`).
* `xuntext` waits in `xlock` in the same way and then tests only `x_count`
  (`text.c:252`). With `MemoryOnce` as the invariant of `proc_counts.cfg` TLC's
  execution is: the only user of a text grows and writes itself and the text
  out; an open for writing finds `ITEXT` set and sleeps in `xuntext`, and is
  swapped out; the user is swapped in with its text and exits, and `xfree` frees
  the text and its swap space; the opener is swapped in, finds `x_count` 0 and
  frees the same swap space a second time.
* `sched` passes over a process with `SLOCK` and one whose text is locked
  (`slp.c:255-258`). A process in `xfree` has neither when `xccdec` locks the text it
  left and writes it out (`text.c:61`, `203-207`): it may be swapped out with the
  lock, and `sched` then sleeps on that lock to bring in another user of the
  text (`slp.c:304`). Nobody else could bring the holder in, and all swapping
  stops. TLC finds this with the conclusion of `OnlyEmbrace` replaced by FALSE.
* `access` lets the super user open an inode that was freed since `namei` found
  its number (`fio.c:164`). `ialloc` tests `i_mode` only, and gives that inode out
  while it is open (`FreshInode`): two unrelated opens share a file from then
  on. A block that was written in between is in no file and not in the free
  list (`BlocksOnce`), because `itrunc` does nothing with an inode without a mode
  and `ialloc` sets `i_addr` to 0. TLC finds both with `Su = {p1}`, one block and
  the symmetry `DataSymmetric` in `fs_files.cfg`.

Seen while reading:

* `getblk` compares `b_blkno` and `b_dev` at level 0 and raises the level only
  then: an asynchronous request that fails in between makes it return a buffer
  that has lost its block (`bio.c:259`; with `MaxErrors = 1` and the tasks of
  `cache_coherence` the model reaches it).
* `timeout` tests for a full table only at its end: with NCALL-1 entries in use
  an earlier entry shifts the last one past the array (`clock.c:158`).
* `IPL5` and `IPL6` of `mch.s` let in line 15, though its handler is at level 5
  (`MaskOrder` fails with line 15; nothing uses the line in the standard
  configuration).
* `ialloc` tests `s_ilock` once, before its loop: with three processes two
  scans fill `s_inode` together past NICINOD (`alloc.c:180`).
* `xumount` frees a sticky text that an `exec` has just chosen in `xalloc`, or
  that an `access` has chosen in `xuntext`, and waits for (`text.c:252`).
* `canon` counts `t_delct` down after it took the delimiter, at level 0. An
  interrupt key in between leaves -1: the next read returns 0, and the line
  typed then is not seen until another comes (`tty.c:358`). `DelctCounts` and
  `NoFalseEof` except this case by name (`early`).
* A line that fills `canonb` exactly leaves its delimiter in the queue, and the
  next read returns 0 (`tty.c:383`; `split`). A flush during `canon`, or between
  it and the first test of `t_canq.c_cc` in `ttread`, makes a read return 0
  (`tty.c:696`; `cut`), and one between such a test and the `getc` gives the reader
  a 0377 (`tty.c:697`).
* With TANDEM a stop character that was sent for a queue without a complete
  line is not followed by a start character: `canon` sleeps before it looks at
  `TBLOCK` (`tty.c:389`).
* `q_to_b` returns without `splx` if the queue is empty (`prim.c:68`).
* `B_AGE` is set on a buffer that is no longer owned (`bio.c:143`); `bflush`
  passes over a delayed write that is busy at that moment; a clock tick is lost
  between the load and the store of `c_time` (`clock.c:69`; `OnTime` allows for
  it by `missed`); `update` keeps the super block's buffer for ever if it has
  `B_ERROR` (`alloc.c:305`); and those listed as hazards without a property.

## Not modelled

The repository holds a whole distribution, 244,000 lines, of which the kernel
without drivers that are not configured is some 11,000. The models follow that
kernel; the rest are user programs, compilers, libraries and games, mostly
sequential filters each with a task of its own, and no module about them would
say anything of the system. The share of all lines that is mapped is therefore
small and cannot be otherwise.

Of the kernel:

* registers, page tables, context switch and boot: hardware access
  (`machdep.c`, `utab.c`, the rest of `mch.s`, the registers in the drivers);
* the multiplexor and the packet driver: not configured;
* the super block on the disk, crashes, I/O errors and indirect blocks in
  `FileSystem`: the code promises no consistent disk after a crash (that is
  `fsck`'s and `icheck`'s), and each of them multiplies the states of a run
  that is already near what can be checked;
* mounting, `link`, `mknod` and the walk through directories: the same;
* delivery of signals and ptrace's requests: they change registers and memory of
  one process; what starts and stops processes is in `SleepWakeup`;
* the ages, nice and `p_cpu` by which `sched` and `swtch` choose: choices, so
  that the safety properties hold for every policy, and nothing is said of
  fairness among loaded processes;
* the modes of terminals other than the usual one, and `sr.c`, which the
  configuration does not contain;
* tables of configuration, statistics, accounting and printing: no state that
  others depend on.
