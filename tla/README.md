# TLA+ models of the computer systems coursework

The repository holds five independent C projects. This directory models all of them:
the barbershop monitor with its queue and the discrete-event library under it, the RAID
volumes, the file system, the program loader, command loop and process switch, and the
Caesar cipher. TLC checks them on small instances; for all sizes TLAPS proves the
safety of the monitor, its queue and the library under it, that the library implements its
abstract clock and the three volumes implement an array of blocks, that the file system's
blocks are owned once and marked whatever calls are made or cut short, that programs are loaded intact
and commands are the words typed, that the switched processes are coroutines, and that the cipher can be
undone (for every key but the least int). Paths below are shortened: `P0` to `P4` stand for
`src/cs5600-p0-getting-started-asultan123`, `src/cs5600-p1-load-n-switch-demastri-5600-team`,
`src/cs5600-p2-barbershop-p2-jd-forstudygroup2`, `src/cs5600-p3-raid-cs5600-p3-raid` and
`src/cs5600-p4-file-system-cs5600-p4-file-system`.

## 1. Inventory

| Component | State | Operations | Interaction | Hard behaviour | What makes it correct |
|---|---|---|---|---|---|
| Barbershop monitor, `P2/homework.c` | mutex `m`, `C_customer`, `C_barber`, queue `chairs_occupied`, `CustomerInfo.state`, statistics | `customer()`, `barber()` and their threads | one mutex, two condition variables shared by all threads, a pointer to a customer on another thread's stack | lost and stolen wakeups, spurious wakeups, the monitor left during the haircut | every waiting customer is in one chair or with one barber, no barber oversleeps, customers leave after a haircut |
| Threads library, `P2/misc.c` | sleepers sorted by time, lists of waiters, `nthreads`, `now` | `q3_usleep`, `q3_mutex_*`, `q3_cond_*`, `q3_create` over Pth, or plain pthreads | decides who runs and when simulated time moves | count of runnable threads, order of two lists | oldest waiter woken; time moves only when all sleep |
| Customer queue, `P2/queue.c` | linked list | `enqueue`, `dequeue` | called inside the monitor | head and tail of a short list | first in, first out |
| Statistics, `P2/misc.c` | counters, `TMR_MAX` timer slots | `stat_counter_*`, `stat_timer_*` | called inside the monitor | slots exhausted; counters sampled between two updates | exact whenever time passes |
| Block images, `P3/image.c` | blocks, fd, failed | read, write, close, `image_fail` | used by the volumes | failure between any two calls | status codes |
| Mirror, `P3/homework.c` | two members, size | create, read, write, replace, close | calls images through `blkdev_ops` | degraded use, stale member | reads return what was last written |
| Stripe, RAID 4, `P3/homework.c` | members, unit, size, `nbr_failed` | create, read, write, replace (RAID 4), close | recursion over blocks | address arithmetic, parity, degraded write, rebuild | same, after no or one failure |
| File system, `P4/homework.c` | disk, bitmap in memory, `statVfs` | 14 operations of `fs_ops` | called by FUSE, writes single blocks | several block writes per call, stop in between, blocks reused | a tree of files; no block shared |
| Block device, FUSE glue, `P4/misc.c`, `P4/hwfuse.c` | file descriptor | `block_read`, `block_write` | under the file system | I/O errors, threads of FUSE | one block at a time |
| Loader and shell, `P1/part-2.c` | `cmd_buffer`, `argv`, `argc`, mapped segments | `do_readline`, `split`, `do_getarg`, `exec_file` | the loop and the program it runs read the same console, call each other through `vector` | limits of buffers, one buffer for every line, one address range for every program | words as typed; every program starts on the image of its file |
| Process switch, `P1/part-3.c`, `switch.S`, `stack.c` | two stacks, three saved stack pointers, registers | `load_file`, `setup_stack0`, `switch_to`, `do_yield12`, `do_yield21`, `do_uexit` | each switch returns on the stack of another | order of pushes and pops, whose pointer is saved where | processes resume where they yielded, with their registers |
| Queue and Caesar exercises, `P0` | linked list and its size; strings | `enqueue`, `dequeue`; `encode`, `decode` | none | size not kept | first in, first out; decode inverts encode |

`PROJECT.json` lists the remaining files (tests, plot scripts, ELF headers, stubs),
which keep no state of the programs, and every hazard with its line.

## 2. Modules

| Module | Stands for | State and its counterpart |
|---|---|---|
| `Pthreads` | mutex and condition variables as seen by the monitor | `owner` the mutex, `waiters` the threads blocked per condition variable, oldest first |
| `Barbershop` (extends `Pthreads`) | `P2/homework.c` | `pc` place in the code, `chairs` the queue, `state`, `serving` (`customer_being_serviced`), `hasSlept`, `timers`, `counters`, `exited` (`exit(-1)`, failed assert) |
| `Shop` | the shop without threads: line, barbers' chairs, finished customers | abstract |
| `LinkedQueue` | `P2/queue.c` | `head`, `tail`, `size`, `node` (the nodes allocated, with `data` and `next`) |
| `ShopQueue` (extends `Barbershop`, `LinkedQueue`) | the calls of `enqueue` and `dequeue` | as above |
| `BarbershopProofs` (extends `ShopQueue`) | theorems about `Barbershop` and `ShopQueue` | |
| `SimClock` | part Q3 of `P2/misc.c`, on GNU Pth | `nthreads`, `waitq`, `left` (`w.t - now`), `pos` (`p`), `done`, `cq` (`private`), `waiting`; of Pth `holder`, `cur`, `pthq`, `cnWaiters`, `signaled`; `broken`: a NULL or stale pointer is followed |
| `SimClockProofs` | theorems about `SimClock` | |
| `VirtualTime` (extends `Pthreads`) | condition variables under a clock that moves when nobody can run | abstract |
| `Images` | `P3/image.c` | `content`, `status` (open, failed, closed) per device; `Parity` |
| `Mirror` (extends `Images`) | mirror of `P3/homework.c` | `disks` (the two members, `Null` when flagged), `nblks`, `last` call |
| `MirrorProofs` | theorems about `Mirror` | |
| `Striping` (extends `Images`) | `struct stripe_dev`, create, address arithmetic, block-by-block recursion | `disks`, `nblks`, `nbr_failed`, `buf` blocks still to write or already read, `last` |
| `Stripe`, `Raid4` (extend `Striping`) | the two volumes | as above |
| `StripingProofs`, `StripeProofs`, `Raid4Proofs` | theorems about them; the two volumes share the address arithmetic and the recursion | |
| `Volume` | an array of blocks that survives `Tolerates` failures | abstract |
| `FileSystem` | `P4/homework.c`, `block_read`, `block_write` | `disk`, `bitmap` (in memory), `bfree` (`f_bfree`, `f_bavail`), `reply` |
| `FileSystemProofs` | theorems about `FileSystem` | |
| `FileTree` | tree of directories and files, results of the calls | abstract |
| `Loader` | the loops over the program headers in `exec_file` and `load_file`, with `mmap` and `munmap` | `mem` address to byte: byte i of a file, cleared, written, unmapped |
| `Shell` (extends `Loader`) | `P1/part-2.c`, `hello.c`, `wait.c`, `ugrep.c` | `console` typed and not read, `line` the last line typed, `cmd_buffer` (all of it, with what earlier lines left there), `argc`, `argv` (all of it, indexes of `cmd_buffer`), `running` |
| `Switch` (extends `Loader`) | `P1/part-3.c`, `switch.S`, `stack.c`, `process1.c`, `process2.c` | `stack` word by word, `current`, `regs`, `curStack` (`curStack0` to `2`), `at` the place in the code, `output`, `halted` (the flag test of `switch_to` failed) |
| `Project1` (extends `Shell`, `Switch`) | one program or the other, on one loader | `program` |
| `Coroutines` | two processes with their own places and registers | abstract |
| `Caesar` | `P0/ceaser.c` as functions; `AsString` is the block of `encode`, which has no terminator, read on into the memory behind it | none |
| `Project01Proofs` (extends `Project1`, `Caesar`) | theorems about projects 0 and 1 | |
| `MCShopQueue`, `MCSimClock`, `MCMirror`, `MCStripe`, `MCRaid4`, `MCFileSystem`, `MCProject1` | instances for TLC: symmetry, views, bounds, files and lines | |

Composition: `Barbershop` runs on `Pthreads` and implements `Shop`; `ShopQueue` puts
the linked list under it; `SimClock` implements `VirtualTime`, whose mutex and condition
variables are those of `Pthreads` with the oldest waiter woken, which is what the runs of
`Barbershop` with `FifoWakeup` assume. `Mirror`, `Stripe` and `Raid4` run on `Images` and
implement `Volume`; `FileSystem` implements `FileTree`; `Switch` implements `Coroutines`.
The refinement mappings are the `INSTANCE ... WITH` definitions `ShopView`, `Time`,
`MirrorView`, `StripeView`, `Raid4View`, `TreeView`, `Routines`.

### Granularity

*Barbershop.* A thread runs without interruption from one place where it may
block or be overtaken to the next: taking the mutex, `cond_wait`, `sleep_exp`. What
it does while holding the mutex is not split further, except where the code tests
a condition (`while`), since all shared state is touched under the mutex. `cond_wait`
releases the mutex and blocks in one step; a woken thread still has to take the
mutex. A customer turned away goes through `CustomerTurnedAway` and is asleep again.

*Queue.* `enqueue` and `dequeue` are part of the step of the monitor that calls them, as
both run under the mutex. `malloc` returns any free node and always succeeds; a node holds
`Garbage` where `enqueue` does not write, and a freed node is gone, so that a pointer to it
followed would stop TLC with an error.

*Clock.* Pth switches threads only where a call blocks and in `pth_cond_notify`. `cur`
names the thread that runs on; after a switch it is `Nobody` and any ready thread may be
next, which includes every order of Pth's priorities. Each call of Pth inside a `q3_*`
function, and each yield, ends a step. A mutex is asked for and obtained in two steps if
another thread has it (`Blocks`). Only differences of instants are kept.

*RAID.* The program is sequential, so a member fails only between two calls. A
mirror call is one step. Stripe and RAID 4 serve a request block by block, as the
recursion does; each block is a step, and the result comes with the last. A block is
the set of its one bits, so xor is symmetric difference.

*File system.* A call is one step that makes a list of block writes. In the
operations of `CrashIn` the process may stop after any of them, and starts again
with `fs_init` on what is on the disk (what it kept in memory is gone). A block is
a record with its kind; what is left in freed blocks is forgotten (`Stale`, read as
`Junk`), so nothing can rely on it. Times, owner and permission bits are left out:
`chmod` and `utime` only have their results.

*Project 1.* Both programs are sequential. A step of `Shell` is a line read and split, a
program loaded, a line read by that program, or its return with the unmapping; the user types
a line when the console is empty and a program waits for one. Between its entry and its return a
program may have written to all of its memory (`Dirty`). `mmap` without `MAP_FIXED` takes the address
for a hint, as the kernel does, and `exec_file` does not look at the address it gets. A step of
`Switch` is one call of a process: the call of a yield function, the whole of `switch_to` and the
return on the other stack, words and registers included. Between two calls a process leaves any
of `Values` in the registers of `Used`. `Coroutines` does not tell what is in the registers of a process that
has exited: nobody returns to it. One buffer and one `argv` serve all lines: `Stored` overwrites the first
characters, `split` the elements of the words it finds, and the rest keeps what earlier commands left. `do_getarg`
looks at `argc` only.

## 3. What the runs check

Twelve runs. The instance sizes are in the `.cfg` files; TLC explores all of their
reachable states.

| Run | Instance | Distinct states | Shows |
|---|---|---|---|
| `shop_posix` | 4 customers, 2 barbers, 3 chairs, 4 nodes; any waiter woken, spurious wakeups | 33586 | accounting of waiting customers, no lost wakeup, exits unreachable, the inductive invariant, the linked list is the line, the abstract shop |
| `shop_sim` | 3 customers, 1 barber, 2 chairs; oldest waiter woken, fairness | 1528 | the one signal reaches the finished customer, counters exact when time passes, everyone who waits leaves, the shop with its liveness |
| `shop_stranded` | 2 customers, 1 barber, POSIX wakeups | (violation) | finished customer left blocked for ever |
| `sim_clock` | 3 threads and main, 2 signalled and 1 broadcast condition variable, sleeps of 1 and 2 | 41031 | counters, timer queue and lists consistent, no NULL followed, refinement of `VirtualTime` |
| `mirror` | 3 disks of 2 blocks, one too small | 3440 | members agree, refinement of `Volume` |
| `stripe` | 2 disks of 5 blocks, unit 2, one too small | 13694 | placement one to one, refinement |
| `raid4` | 3 members and a spare of 2 blocks, one too small; members 0 and parity replaced | 62551 | parity after every block, refinement |
| `raid4_replace` | the same, any member replaced | (violation) | a data disk other than 0 is filled with disk 0's blocks |
| `fs_tree` | 8 blocks, 2 names, 2 levels, files of one unit, stops | 1527 | no shared block, blocks in use are marked, refinement of `FileTree` |
| `fs_data` | 7 blocks, one level, files of 3 units in 2 blocks, writes of up to 2 units at every offset, stops | 11280 | the same, for contents |
| `fs_rmdir` | as `fs_tree`, no stops | (violation) | a directory with entries is removed |
| `project1` | 13 lines in any order, buffers of 9, 3 arguments, pages of 4, 4 files of up to 2 segments; 2 processes of 9 calls, 3 registers | 3648 | words, whole lines, intact images, part-3 prints its lines in turn and ends with "done", refinement of `Coroutines` |

### The properties

*Barbershop.* `WaitingAccounted` relates queue, barbers' pointers and customers' states;
`NoSleepingBarber` counts barbers on their way against customers in the chairs;
`NeverExits` says the error exits are unreachable. `CountersExact` is about the moments
at which the discrete-event clock can move: between them the seat counter is 2 for a
while, but the means of the statistics see only those moments. `FinishedIsWoken`
and the liveness properties hold with the wakeups of `misc.c` and one barber, and fail
with POSIX wakeups (`shop_stranded`).

*Queue.* `QueueIsChairs` says that the pointers are a list of exactly the waiting customers
in order, although `tail` is stale after most calls of `dequeue` and the `next` of a second node
is never set: `size` must decide right which of them may be followed.

*Clock.* `RunnableCounted` and `WaitingIsListLength` say what `nthreads` and `waiting` count, at
every switch (the comment at `P2/misc.c:276` asks whether `waiting` is redundant: outside of `q3_cond_wait`
it is). `MarkedIsWoken` relates the library's list to Pth's: the thread whose flag a signal sets must be one
that Pth has woken. `TimerQueueOK` includes that the place a sleeper has found is still its place when it gets
`wait_mutex`. `NeverBroken` is that time never has to move without a sleeper. `ImplementsVirtualTime` is
what the barbershop's statistics rest on: no time passes while somebody can run.

*RAID.* `ImplementsVolume` is the whole promise: what is read is what was last
written, whichever member fails or is replaced in between, and refused calls have no
effect. `MembersAgree` and `ParityHolds` are the redundancy it rests on and that no
read shows until a member fails. What `Volume` answers to an address outside is its constant `BadAddress`:
the headers promise `E_BADADDR`, the code returns `E_SIZE`, and the instances say so (section 3, disagreements). `PlacementOK` is about the address arithmetic. The
type invariant of the striped volumes includes that the latch `nbr_failed` is never set:
a request is refused before it reaches a failed member, so no volume gets stuck.

*File system.* `NoSharedBlock` and `UsedAreMarked` are what the allocator must keep
through any sequence of calls and stops; `ImplementsTree` compares every result and every
untouched file with the tree, and says what a stop may leave behind: the tree before or after
the call, or of a write any subset of the new units. `FileTree` gives the answers of the comments above the
functions. Where the code gives another one, `FileTree` has a named deviation, and `CodeDeviations` lists
the seven that the code has; so the runs say that it deviates in these ways and no other. With a deviation allowed,
`ImplementsTree` says nothing about it: `RmdirOnlyEmpty` shows that a directory with entries is removed, and a
read past the end that fails (`"read past end"`) is a disagreement without a run.

*Project 1.* `ArgsAreWords` compares what `getarg` returns for every index with the words of the line as they
were typed: the i-th word, and 0 where the line has none, though the buffer and `argv` still hold what longer lines left.
The last of `MaxArgs` words, which the code does not terminate, is the rest of its line and stops before what is behind it.
`LinesAreWhole` is about the console that the loop and the program share. Both are about lines that fit with
their newline in front of the terminator, up to n-1 characters, as `P1/part-2.md:94` has it; what happens to
longer ones is below. `ImagesIntact` is about the memory that all programs
share: each starts on the bytes of its file and zeros, whatever ran before. `ImplementsCoroutines`
holds only if pushes, pops, `setup_stack2` and the saved pointers agree; `FinishesDone` is that
all lines of both processes are printed in turn and main then prints "done". One process calls `uexit`
(`P1/part-3.md:54`): process 1, whose calls of `yield12` have all returned; process 2 stays suspended in its last `yield21`
with its `uexit` still before it (`P1/process2.c:24`).

### Bounds, and why they are enough

* Shop: two waiting customers besides one in service and one arriving, with a chair
  short of the number of customers, make the line full, empty and shared; two
  barbers compete for one customer. Three chairs are what `enqueue` tells apart (`size` 0, 1 and more)
  with a list that shrinks from each length; with four nodes one is always free, and `malloc` may return any that is. `CounterMod = 1` lets the visit counters wrap:
  nothing reads them.
* Clock: three threads and main sleep, signal and wait in every order; two delays make instants equal and
  different, since waiting time is reduced step by step. Each condition variable is used either with signals or
  with broadcasts, as a program that uses both on one breaks `MarkedIsWoken` (below).
* Project 1: lines are blank, of one word to four, with blanks before, between and after, name no file, or start
  with the word that quits; the third word, the last of `argv`, comes with and without more behind it. Lines are also as
  long as the buffer, one less and one more: the terminator takes the place of the newline, follows it, or
  takes the place of a character, and the rest of the longest is read as a line. Short
  lines follow long ones, so old words stand in the buffer and in `argv`. `BufLen` stands for 200 (`cmd_buffer`) and 128 (`ugrep`), `MaxArgs` for 10.
  One file has data that is longer in memory than in the file, over a page's end. The segments start at pages
  (see below for those that do not).
* Volumes: two blocks tell the blocks of a disk apart, a request of two crosses disks
  and stripes, one bit is enough for an xor that is done bit by bit. `stripe` uses
  a unit of two and disks with an odd block, so a stripe is incomplete. At most two of
  its blocks are not zero (`SparseContent`); at most two disks fail in `raid4` (`FewFailures`),
  one more than it survives.
* File system: two slots and two names fill a directory and leave a free slot before a used
  one; the disk is small enough to be full. Paths have at most two components. Blocks of
  two units make writes start and end inside, at and across blocks. In `fs_tree`
  blocks lost by unlinking a directory are not pursued (`FewLost`); `fs_data` pursues blocks that stops lose, but has
  one level only, so what follows the loss of a directory's blocks is in no run. The theorems of section 4 cover it.
  Views leave out the last reply (nothing reads it) and the free-block count.
* `MaxTransfer`, `MaxLen`, `MaxDepth`, `CounterMod`, `MaxLost`, `MaxBitsSet` and `MemSize` exist for TLC only.
  `MaxSize` keeps files small for TLC, but is not only that: the proofs too assume that no file needs more than
  `NPtrs - 1` blocks (`FileSystemAssumption`), as `fs_write` has no limit of its own (below).

### Fairness

`shop_sim`, `shop_stranded` and `project1` use it. `CustomerRuns` and `BarberRuns` are weakly
fair: a thread that can run runs, a sleep ends. Taking the mutex is strongly fair: every
thread that leaves the monitor sleeps at least two milliseconds (`sleep_exp` in `misc.c`) or
blocks in `cond_wait`, so the mutex is idle again and again and a waiting thread gets it. No action that
depends on which waiter a signal picks is fair: that is why `shop_stranded` fails. In `project1` the
program part-3 is weakly fair as a whole: it is one thread that waits for nothing. Nothing is fair in the
command loop, where nobody has to type.

### Disagreements found

1. `shop_stranded`: a signal for one customer on a condition variable that all share
   (`P2/homework.c:122`).
2. `raid4_replace`: the address of a replaced disk's block does not depend on the disk
   (`P3/homework.c:632`).
3. `fs_rmdir`: a directory counts as empty when its first slot is free (`P4/homework.c:689`).

Seen while modelling, modelled as the code has it, without a run:

* `mirror_replace` ignores what its reads return: with no member left it fills the new disk from an
  uninitialised buffer and returns SUCCESS (`P3/homework.c:213`; `P3/part-1.md:11`).
* The volumes answer `E_SIZE` to an address outside (`P3/homework.c:52`, `:103`, `:260`, `:423`). `P3/blkdev.h:45`
  has `E_BADADDR` "if one of the blocks being operated on is outside the range" and keeps `E_SIZE` for an image that is
  too small; `P3/README.md:28` lists `E_BADADDR` and `E_UNAVAIL` as the only errors and line 34 says that
  `E_BADADDR` is returned "if any address in the requested range is illegal".
* Answers of the file system that its comments rule out or do not list, each a deviation of `FileTree`:
  - `"unlink directory"`: `fs_unlink` removes a directory with all below; the comment lists EISDIR
    (`P4/homework.c:617`), and so does `P4/TESTING-2.md:62`.
  - `"rmdir not empty"`: number 3 above. `"rmdir full"`: a directory without a free slot gives ENOSPC, the
    answer of `find_free_dir_entry`, where the comment lists ENOTEMPTY (`P4/homework.c:694`).
  - `"truncate keeps"`: `fs_truncate` accepts `len > 0`, and EINVAL is only for a length beyond the file's; the
    comment says "return EINVAL if len > 0" (`P4/homework.c:921`).
  - `"utime directory"`: `fs_utime` gives EISDIR, the comment lists path resolution and ENOENT (`P4/homework.c:889`).
  - `"read past end"`: a read beyond the end of a file follows one pointer too many (`P4/homework.c:1023`) and fails
    with EIO after a cut; the comment says "if offset+len > file len, return #bytes from offset to end" (line 988).
  - `"no space"`: ENOSPC of `create`, `mkdir` and `write`, which no comment lists.
* `fs_write` puts blocks in `finode->ptrs` without looking at the length of that array (`P4/homework.c:1110`). The
  model has no file that long.
* A condition variable that is both signalled and broadcast: the flag a broadcast leaves in Pth wakes the
  next waiter at once, the two lists of waiters differ and a signal may mark one and wake another
  (`P2/misc.c:302`). The barbershop never broadcasts.
* A sleeper is inserted before those with the same instant, so equal sleeps end in reverse order
  (`P2/misc.c:178`).
* `do_readline` takes up to n characters and its terminator replaces the n-th (`P1/part-2.c:172`), where
  `P1/part-2.md:94` says that it reads up to n-1 bytes. A line of n characters loses its newline, a longer one
  loses a character and is read as two. `read` at the end of the input
  returns NUL for ever, and `get_next_command` loops.
* The word that quits is any word that starts with "quit" (`P1/part-2.c:343`). The last of ten words is not
  terminated and runs to the end of the line (`P1/part-2.c:363`).
* A segment that does not start at a page is unmapped at its own address, which `munmap` refuses: the next
  run gets the old memory, with the data the first has written (`P1/part-2.c:316`; the comment at line 233
  wants every region unmapped). `mmap` and `munmap` of `Loader` model it; the files of the run start at pages.
* `do_print_nbr` prints 10 as 0 (`P1/part-2.c:197`).
* `encode` allocates and clears `strlen` bytes, so its result has no terminator (`P0/ceaser.c:45`, `:50`), and the
  `strlen` of a `decode` of it (`:53`, called at `:71`) reads on into the memory behind. `behind` in `AsString` and in
  `DecodeInvertsEncode` stands for it. `-1 * key` overflows for the least int (`:71`); `Negated` wraps around, as
  the usual build does, and the theorem leaves that key out.
* `f_bfree` grows with each write that ends before the last block of its file
  (`P4/homework.c:1171`).
* Stopping in `create` or `mkdir` before the bitmap is written leaves a new file on
  blocks that are free after the restart (`P4/homework.c:518`), so the passing runs leave these
  two out of `CrashIn`.
* Waiting customers in a full line are turned away even while a barber is idle between
  signal and mutex (`P2/README.md:9`).
* `raid4` replaces only members 0 and parity; `raid4_replace` shows why.

## 4. What is proved

`BarbershopProofs` proves, for every finite set of customers and barbers, any number of chairs
and both settings of the wakeup constants:

| Theorem | Statement |
|---|---|
| `Invariant` | `Spec => []IInv` |
| `TypeCorrect` | `Spec => []TypeOK` |
| `CustomersAccountedFor` | `Spec => []WaitingAccounted` |
| `BarbersDoNotOversleep` | `Spec => []NoSleepingBarber` |
| `ErrorExitsUnreachable` | `Spec => []NeverExits` |
| `Implements` | `Spec => ImplementsShop` |

The assumptions are `PthreadsAssumption` and `BarbershopAssumption`: the sets are disjoint and
finite, and there are at least as many timer slots as customers.

*The argument.* None of the properties is inductive. That a barber finds a customer after
his wakeup (`NeverExits`) needs that the queue he has tested cannot change while he holds
the mutex (`MutualExclusion`, `ServingPc`); that a finished customer is not still queued
needs that only customers inside have a timer and are WAITING (`InsidePc`). A blocked thread must be at a
wait (`BlockedThreadsWait`), or a signal would move a thread that runs. `IInv` is their conjunction. One
lemma per action shows that it is preserved, with one step per conjunct; `NoSleepingBarber` needs the
cardinalities of the barbers on their way before and after, from lemmas about adding and
removing one element. `Implements` maps each step to an action of `Shop` or to a stutter, using `IInv` for
the state before it. TLC checks `IInv` in `shop_posix`.

Four more theorems of `BarbershopProofs` are about the statistics and about who is woken.
`OneInOrder` is `FifoWakeup`, no spurious wakeups and one barber: what `P2/misc.c` does and
`BARBER_COUNT` says (`P2/homework.c:17`).

| Theorem | Statement |
|---|---|
| `CountersKept` | `Spec => []CountsKept` |
| `WaitersInOrder` | `OneInOrder => (Spec => []LineIsWaiters)` |
| `FinishedAreWoken` | `OneInOrder => (Spec => []FinishedIsWoken)` |
| `CountersAreExact` | `OneInOrder => (Spec => []CountersExact)` |

*The argument.* `CountsKept` says what the gauges count at every moment: the people counter those who hold
a timer, the seat counter the busy barbers and the customers who are DONE and still inside.
`LineIsWaiters` says that the list of `C_customer` is, from the barber's seat to the last chair, the
line of customers, except that the newest may not wait yet; so the head of the list, whom the one
signal wakes, is the customer who is finished. Each part of `OneInOrder` is needed: POSIX wakeups leave
him blocked (`shop_stranded`), a spurious wakeup sends a customer to the end of the list, and two
barbers may finish in another order than they started. With nobody left who is finished and blocked, the gauges
are exact when all threads sleep or wait.

At the end of the module the queue in memory, for any set of nodes, from `QueueAssumption` and the
assumptions of the shop:

| Theorem | Statement |
|---|---|
| `QueueCorrect` | `ShopQueueSpec => []QueueIsChairs` |

*The argument.* `QueueIsChairs` is inductive with the shop's `TypeOK`: it hides a sequence of nodes that
`Represents` ties to the pointers. `EnqueueStep` appends the new node to it and has a case for each length
that `enqueue` tells apart: `tail` is used only when `size > 1`, where `Represents` says it is the last node, and
the unset `next` of a second node is the last of the sequence, about which `Represents` says nothing.
`DequeueStep` takes the first node away. `ChairsStep` shows, from `TypeOK`, that a step of the monitor leaves
the chairs alone, appends one customer or takes the first.

`MirrorProofs` proves, for any set of devices, any sizes, blocks and lengths of a request, from
`ImagesAssumption` and `MirrorAssumption`:

| Theorem | Statement |
|---|---|
| `Invariant` | `Spec => []IInv`, where `IInv` is `TypeOK /\ MembersAgree` |
| `TypeCorrect` | `Spec => []TypeOK` |
| `WorkingMembersAgree` | `Spec => []MembersAgree` |
| `Implements` | `~ReplaceLost => (Spec => ImplementsVolume)` |

*The argument.* A request within the volume is answered by exactly the members that work
(`AnsweringWorks`), because their sizes are the volume's (`TypeOK`); so a write reaches every
working member and a read may be taken from either (`MembersAgree`), and a copy made block by
block from whichever member answers is a copy of one member. For the refinement a read or a write keeps the
number of members that are down, since only members that do not work are flagged
(`FlaggedDoNotWork`); a replacement never lowers the number of working members; and a failure of
a device either hits a working member, which is one more down, or is a stutter. `ReplaceLost` is
excluded because a replacement after a second failure copies from no member: the code ignores the status
of those reads.

`StripingProofs`, `StripeProofs` and `Raid4Proofs` are about the two striped volumes, for any number of
disks, unit, disk sizes, set of bits and length of a request, from `ImagesAssumption`, `StripingAssumption`
and the assumptions of each volume:

| Theorem | Statement |
|---|---|
| `StripingProofs!PlacementCorrect` | `\A n \in Nat : Placement(n)` |
| `LatchNeverSet` (both volumes) | `Spec => []StripingInv` |
| `TypeCorrect` (both volumes) | `Spec => []TypeOK` |
| `StripeProofs!PlacementHolds` | `Spec => []PlacementOK` |
| `StripeProofs!Implements` | `Spec => ImplementsVolume` |
| `Raid4Proofs!ParityCorrect` | `Rebuildable => (Spec => []ParityHolds)` |
| `Raid4Proofs!Implements` | `Rebuildable /\ ~ReplaceLost => (Spec => ImplementsVolume)` |
| `Raid4Proofs!ReplaceTransparent` | `Rebuildable /\ ~ReplaceLost => (Spec => ReplaceKeepsContents)` |

*The argument.* The placement is division with remainder, twice. `StripingInv` is the invariant of the
recursion: a request is served only while no more members have failed than it may meet, because it was
refused otherwise and none fails inside it. Hence no block of it meets a failure and the latch
`nbr_failed` stays 0 (`TypeOK`). The refinement of `Volume` needs also that the blocks read so far are
those that the client stored (`ReadSoFar`). For RAID 4 the parity of a set of members is treated as a sum:
adding a member flips its bits (`ParityAdds`), so what is missing from a row that adds up to nothing is the sum of the
others. The write of a block keeps the sum with all members working, with the data disk failed (the parity
carries its block) and with the parity disk failed (nothing to keep). `Rebuildable` is
`Replaceable \subseteq {0, ParitySlot}`: the code rebuilds no other member (finding 2), and
`raid4_replace` shows that the theorems fail without it. `ReplaceLost` is excluded because a replacement with a
second member failed has nothing to rebuild from.

`SimClockProofs` is about the discrete-event library, for any number of threads and condition
variables and any delays, from `SimClockAssumption`:

| Theorem | Statement |
|---|---|
| `Invariance` | `Spec => []IInv` |
| `TypeCorrect` | `Spec => []TypeOK` |
| `BrokenNever` | `Spec => []NeverBroken` |
| `RunnableIsCounted` | `Spec => []RunnableCounted` |
| `WaitingIsLength` | `Spec => []WaitingIsListLength` |
| `TimerQueueHolds` | `Spec => []TimerQueueOK` |
| `MarkedAreWoken` | `UsedOneWay => (Spec => []MarkedIsWoken)` |
| `Implements` | `Spec => ImplementsVirtualTime` |

*The argument.* `IInv` ties each thread's place in the code to the flags, lists and mutexes it is in
(`ThreadsOK`, `MutexesOK`, `QueuesOK`, `PthOK`) and the counters to the sets they count (`CountsOK`). Its core is
`OneAtATime`: a sleeper computes its place in the timer queue before it has `wait_mutex`, and is safe because no other
thread runs in between. The mutex is held across a switch only by the last runnable thread, which moves the time
and wakes one sleeper; until that sleeper has `wait_mutex` no other thread is ready. Without this part neither the
place (`PlaceKept`) nor the count is inductive. `NeverBroken` has three parts: the
place where a sleeper links itself is in the queue (`PlaceKept`), a signal finds as many waiters in the list as
it marks (`WaitingExact`), and the timer queue is not empty when the last runnable thread stops, since `main` never waits
on a condition variable and so sleeps then.

`MarkedAreWoken` adds `ListsAgree`, that Pth's list of a condition variable is the library's, but for a thread that is about to
wait. `UsedOneWay`, no condition variable both signalled and broadcast, is needed: TLC finds the counterexample
described in section 3. `Implements` has no such hypothesis. A waiter gives up the mutex of
`VirtualTime` when it enters the library's list, some steps before Pth releases it, and has it
again when it returns from `pth_cond_await`; there is one lemma for each kind of step (a call, a wait, a
signal, an insertion, time passing with others left asleep or none, a wakeup, and the steps inside an operation, which
are stutters). `DelaysKept` is the one fact it needs beyond `IInv`.

`FileSystemProofs` is about the file system, for any number of blocks, names, slots of a directory, pointers of
an inode and units of a block, any data and any paths, from `FileSystemAssumption`:

| Theorem | Statement |
|---|---|
| `TypeCorrect` | `CreateNotStopped => (Spec => []TypeOK)` |
| `BlocksAreNotShared` | `CreateNotStopped => (Spec => []NoSharedBlock)` |
| `ReachedAreMarked` | `CreateNotStopped => (Spec => []UsedAreMarked)` |

`CreateNotStopped` says that the process is not stopped between two block writes of `create` or `mkdir`; it may be
stopped in `unlink`, `rmdir`, `truncate` and `write`. The hypothesis is needed: `create_directory_entry` writes the
inode and the entry before the bitmap (`P4/homework.c:518`), so a stop leaves a file whose block is not marked and will be given
away again. All other operations write in an order that is safe, and that is what is proved. The one limit is
`MaxSize <= (NPtrs - 1) * BLK` in `FileSystemAssumption`: no file outgrows the pointers of its inode. The code does not see to
that (section 3), so the theorems hold as long as its callers do.

*The argument.* `IInv` is `Sound(disk, bitmap)`, which says of the disk what the three properties follow from but
do not say themselves. They speak of the blocks that a path reaches; the code, however, allocates by the bitmap and
follows pointers of inodes that no path leads to any more (an entry is removed first, its inode stays until the
block is used again). `Sound` therefore speaks of every inode block on the disk: the bitmap on the disk is the one in memory
and every unmarked block is free of inodes (`BitmapOK`); pointers within the size lead to marked blocks of the right kind (`InodesOK`);
each of them has one owner (`OwnersOK`); and entries lead to inodes, each to its own, with a name once per directory
(`EntriesOK`). That the last is inductive rests on the check for an existing name and on `rename` moving an entry
within its directory. For the calls that write several blocks, `PerformsSound` reduces the step to two facts about the list of
the writes: the disk is sound after every prefix of it, with the bitmap on that prefix (what a restart reads), and after
all of it, with the freed blocks cleared. What a prefix leaves is told by a few lemmas about disks, one per kind of change:
an entry, an inode, the data of a file, the bitmap grows or shrinks (`SlotChanges`, `NewInode`,
`FileChanges`, `Marks`, `Frees`). `translate` is a recursive function; `WalkExists` shows that a function with its equations exists,
which is what lets any fact about it be proved. The free blocks come from the bitmap in order (`Nth`); `NthIs` shows that the k-th
exists and is not the j-th.

`Project01Proofs` is about projects 0 and 1, for any lines, files and program headers, sizes of a page, of the memory,
of the buffer and of `argv`, any programs of the two processes and any registers, from `LoaderAssumption`,
`ShellAssumption` and `SwitchAssumption`; the theorem about the cipher needs none of these:

| Theorem | Statement |
|---|---|
| `TypeCorrect` | `Spec => []TypeOK` |
| `LinesStayWhole` | `LinesAreText => (Spec => []LinesAreWhole)` |
| `CommandsAreWords` | `LinesAreText => (Spec => []ArgsAreWords)` |
| `ImagesAreIntact` | `ProgramsFit => (Spec => []ImagesIntact)` |
| `ProcessesAreCoroutines` | `PrintsFirst => (Spec => ImplementsCoroutines)` |
| `DecodeInvertsEncode` | `decode(AsString(encode(plaintext, key), behind), key)` begins with the text in upper case, for every text, every `behind` and every int `key` but `INT_MIN` |

`TypeCorrect` holds for lines of any length. The other hypotheses are where the code's promise ends.
`LinesAreText`: a line has no NUL and no second newline inside. That a line fits into the buffer is no hypothesis but part of
the two properties (`Fits`): lines of any length may come before it, and `do_readline` leaves the
rest of one that does not fit on the console (section 3). `ProgramsFit`: segments start at a page, lie within
the memory and do not share pages, and neither do the two processes of part-3; `munmap` refuses other addresses.
`PrintsFirst`: the first process prints before anything else, as `process1.c` does, because `Coroutines` knows by
the output whether main has started the processes. They hold of the instance that TLC checks (`InstanceAssumption`).

*The argument.* `ProgramsInv` gives the types of both programs and, of part-3, the shape of the stacks (`SwitchInv`):
a process that does not run has the stack that `switch_to` needs to resume it, 13 words as `setup_stack2` built
it or 15 as `do_yield12` and the pushes left it, with the flag on top and its place in the fourth word
(`Resumes`); main's has ten words and returns behind its call (`HomeSaved`). So each pop finds the word
its push left, and `halted` is never set. With it, and `OutputInv` about what has been printed, each step of
`Switch` is one of `Coroutines`. `MemoryInv` says what the whole memory is at every moment: nothing, the image of the program
that runs, or the two images of part-3. It rests on `UnmapsWhatItLoads`, that the
pages unmapped are those mapped whatever was written to them, and `LoadTwo`, that images on different pages do
not touch each other. For the command line, `WholeLine` says that `do_readline` takes a line that fits to
its end; `PointersAtWords` that the k-th pointer of `split` is at the start of the k-th word or, if there are fewer,
at the terminator; `WordsAsStrings` that the string there, in the buffer whose blanks were
overwritten with terminators, is the word, or the rest of the line for the last that `argv` has room for. That nothing
older is seen follows from `StoredIs`, the line and its terminator come before what is left in the buffer, and
`SplitArgs`, the elements below `argc` are those of this line. The loops of the code (`LoadAll`, `UnmapFirst`, `Pointers`) are recursive functions;
`StepsExist` shows that a function with such equations exists and `SetInduction` replaces induction over an
operator. The cipher rests on the range of C's remainder (`RemainderRange`), on the shift staying in the
alphabet (`LetterStaysInAlphabet`), and on the two branches that wrap around being inverse to each other
(`LetterComesBack`); what follows the block in memory is decoded too, behind the text.

*Only model-checked:* of the file system that it implements the tree (`ImplementsTree`), whose proof needs the
contents of every block and the paths of `FileTree` related to the inodes on the disk; and liveness: of the shop `WaitingLeaves` and
`ImplementsLiveShop`, of part-3 `FinishesDone`. Liveness under fairness and `ENABLED` are out of the prover's reach.
What is proved of the shop under `FifoWakeup` and of the library
are two theorems about two modules: that the shop's steps and the library's `VirtualTime` use the same
`Pthreads` is by construction of the modules, not a theorem.

## 5. Not modelled

* The end of a thread in `run_thunk` (no thread of the program returns), preemption (Pth has none), means
  and averages of the statistics.
* The queue of `P0/queue.h`, an earlier version of `P2/queue.c` whose `size` is not kept; `malloc` without memory.
* Of project 1: part-1 (an echo loop), what is printed, the search of `ugrep`, `elf-example`, the end of the input, failing `mmap`, segments that do not start at a page.
* Of the cipher: `char` values that are negative, for which `isalpha` is undefined; `encode` without memory, which returns NULL;
  memory behind the block that ends before a terminator.
* I/O errors of image files and of the disk image, except a read of block -1; empty image
  files; overflow of `first_blk + num_blks`; bad buffers (`P3/README.md` has `E_BADADDR`).
* Files longer than the pointers of an inode can hold (`P4/homework.c:1110`).
* Threads inside a file system call (FUSE runs several unless given `-s`), paths longer
  than `MAX_PATH_LEN`, names longer than `MAX_NAME_LEN`.
* Tests, plots, disk image tools, ELF headers and assembly stubs.

## 6. Plan

Done: (1) barbershop with its queue, checked and proved; (2) volumes, checked and proved; (3) file
system, checked, and the safety of its allocator proved; (4) discrete-event library, checked and proved; (5) project 1,
checked, and proved but for liveness; (6) Caesar, proved.

Next, in order:

1. That `FileSystem` implements `FileTree`, from `IInv` and the contents of the blocks.
2. Stops in `create` and `mkdir`; file system calls of two threads.
