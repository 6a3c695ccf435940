# TLA+ models of the Weenix kernel

These modules model the parts of this repository's kernel (`src/weenix/kernel`)
whose correctness depends on orders of events or on long sequences of calls: the
thread scheduler, mutexes, processes, copy-on-write memory, address spaces,
vnodes with their cached pages, open files and path names over ramfs, the page
and slab allocators, and the virtual terminals.  TLC checks them on small
instances; TLAPS proves, for all sizes, the safety of the scheduler, the mutexes,
the processes, the vnodes with their pages, the open files with the file system in memory,
the address space of a process, the allocators and the virtual terminals, that copy-on-write
implements the memory that fork and mmap promise, and that the allocators hand out each piece of
memory once.

Contents: 1 the system, 2 the models, 3 what is checked, 4 what is proved,
5 where code and documentation disagree, 6 what is not modelled, 7 what could
come next.
Paths of sources are relative to `src/weenix/kernel`.

## 1. The system

Weenix is a small Unix-like kernel for one x86 CPU.  `Config.mk` selects what is
built: DRIVERS, VFS, S5FS and VM are on; DYNAMIC, SHADOWD, MOUNTING, GETCWD,
UPREEMPT, MTP and PIPES are off.  So there is one thread per process, the kernel
is never preempted by another thread (UPREEMPT would only preempt user mode), and
nothing collapses chains of shadow objects.  The sources in `drivers/` and
`fs/s5fs/` are stubs; the code that runs comes from the prebuilt `libdrivers.a` and
`libs5fs.a` and is modelled, as external, from how the kernel uses it.

What can happen concurrently follows from that.  A thread has the CPU until it
calls `sched_switch` (by sleeping, yielding or exiting), so kernel code between
two such calls is atomic for the other threads.  Interrupt handlers may run
between any two instructions unless the interrupt level (IPL) is raised.

### Inventory

For each component: its state; its operations; what it shares with others; what
is hard about it; what makes it correct.

**Thread scheduler** (`proc/sched.c`, `sched_helper.c`).
State: the run queue `kt_runq` and the wait queues (a list and a separate count
`tq_size`), each thread's `kt_state`, `kt_wchan`, `kt_cancelled`, and `curthr`.
Operations: sleep, cancellable sleep, wake one, wake all, cancel, make runnable,
switch.  Used by everything that blocks; woken by interrupt handlers.
Hard: a cancel against a wake-up against a sleep; interrupts in the middle of
`sched_switch`; two representations of one queue.
Correct: no thread is lost, or linked twice, or queued in a state that does not
fit; first come, first served; a cancelled sleep ends and says so.

**Interrupt masking** (`include/main/interrupt.h`, `main/interrupt.c`).
State: IPL and the interrupt flag.  Operations: raise and lower, `intr_wait`.
Hard: an interrupt between the test of an empty run queue and the halt.
Correct: the CPU never halts with a runnable thread.

**Kernel threads** (`proc/kthread.c`, `context.c`).
State: `kthread_t`, its stack and saved context.  Operations: create, clone,
cancel, exit, destroy.  Hard: a stack must not be freed while it is in use.

**Mutexes** (`proc/kmutex.c`).
State: `km_holder`, `km_waitq`.  Operations: lock, cancellable lock, unlock, which
hands the mutex to a waiter that has not run yet.  Hard: what happens between the
hand-over and the waiter's next step.  Correct: mutual exclusion; nobody waits
for a free mutex; calls return; the return value tells the truth.

**Processes** (`proc/proc.c`, `fork.c`, `main/kmain.c`).
State: the process list, `p_state`, pids, the family tree, `p_wait`.
Operations: create, fork, exit with clean-up and reparenting, wait, kill all.
Hard: exits of parents and children in any order, clean-up that blocks half-way,
pids that wrap round, halting a system whose processes are blocked anywhere.
Correct: every process keeps a parent that will reap it; no wake-up of a waiting
parent is lost; nothing is freed in use; a halt completes.

**System calls** (`api/syscall.c`, `access.c`).  No state of their own.  They test
for cancellation at entry and exit, and copy arguments through `vmmap_read` and
`vmmap_write`.

**Memory objects** (`vm/anon.c`, `vm/shadow.c`, `include/mm/mmobj.h`,
`fs/vn_mmobj_ops.c`).
State: reference counts, resident pages, the trees of shadow objects.
Operations: ref, put, lookuppage, fillpage, dirtypage, cleanpage.
Hard: counts after any sequence of forks, faults, unmaps and exits; copies taken
from the right object; frames freed while page tables map them.
Correct: a private write is seen by its writer only, a shared one by all; counts
are exact, so that nothing is freed early or never.

**Address spaces** (`vm/vmmap.c`, `mmap.c`, `brk.c`).
State: the ordered list of areas.  Operations: map, remove, clone, read, write,
find a range, brk.  Hard: boundaries of ranges, splitting, changes made by the
kernel behind a mapped page.  Correct: the list means what a page-by-page table
would.

**Page faults and page tables** (`vm/pagefault.c`, `mm/pagetable.c`).
State: page tables.  Operations: fault, map, unmap.  Correct: an entry maps what a
lookup finds, and is writable only if nobody else sees the frame.

**Page frame cache** (`mm/pframe.c`).
State: resident frames with their flags, pin counts and wait queues.
Operations: get, fill, dirty, clean, free, clean all.  Hard: all of these block
on the disk with the frame marked busy, while others want it.
Correct: no write is lost, `sync` saves what was written before it, nobody sleeps
for a frame that nobody will announce.

**Vnode cache** (`fs/vnode.c`).
State: vnodes in use, their counts and VN_BUSY.  Operations: vget, vput, vref.
Hard: vnodes on their way in or out while others look for them; pages counted
among the references.  Correct: one vnode per inode, exact counts.

**Files and names** (`fs/file.c`, `open.c`, `vfs_syscall.c`, `namev.c`).
State: file tables, file reference counts, positions.  Operations: the file
system calls, path walks.  Hard: references along error paths, full tables,
directories removed while in use.
Correct: every reference that is taken is given back once; a descriptor keeps
showing the file it was opened for.

**ramfs** (`fs/ramfs/ramfs.c`).
State: inodes with their link counts, directories.  Operations: create, link,
unlink, mkdir, rmdir, read, write.  Hard: link counts shared between names and
vnodes.  Correct: an inode is freed when its last name and vnode go.

**Allocators** (`mm/page.c`, `mm/slab.c`).
State: bitmaps and free lists of page blocks, slabs.  Hard: splitting and joining
at every order; reclaiming.  Correct: blocks handed out are disjoint, and free
buddies are joined.

**Program loading** (`api/elf32.c`, `exec.c`, `binfmt.c`).
State: the address space under construction, the break.  Operations: exec.
Hard: a failure after half of the segments have been mapped; segments that share
a page.  Correct: the process has the new image, or goes on with the old one.

**Virtual terminals** (`drivers/tty/virtterm.c`, `keyboard.c`, `screen.c`).
State: per terminal a ring of characters with head, tail, top and cursor; the
video memory.  Operations: print a character, scroll, switch terminals.
Hard: distances that wrap round; the screen is drawn piecemeal.
Correct: the screen shows the part of the ring that top says.

**Others**: s5fs and the device drivers (prebuilt), pipes and the shadow daemon
(not built), data structures and formatting, the kernel's tests and shell, user land.
`PROJECT.json` lists all components with what is modelled of each, and the
hazards of the code with the properties that cover them.

### How they interact

```
 user programs --system calls, faults--> processes, address spaces, files
      processes --create, wait, exit--> scheduler <--wake-ups-- interrupt handlers
      mutexes, vnodes, page frames --sleep, broadcast--> scheduler
      address spaces --areas--> memory objects --pages--> page frame cache
      files --references--> vnodes --pages, inodes--> s5fs, disk driver (blocking)
                                   --inodes--> ramfs (never blocks)
      all of them --objects, frames--> slab allocator --blocks--> page allocator
      interrupt handlers, tty --characters--> virtual terminals --> video memory
```

## 2. The models

| module | models | composed with |
|---|---|---|
| `Sched` | `sched.c`, `sched_helper.c`, parts of `kthread.c`, `intr_wait` | |
| `SchedProofs` | theorems about `Sched` and `Kmutex` | extends `Kmutex` |
| `Kmutex` | `kmutex.c` and its callers' contract | extends `Sched` |
| `Proc` | `proc.c`, parts of `fork.c`, `kthread.c`, `kmain.c` | extends `Sched` |
| `ProcProofs` | theorems about `Proc` | extends `Proc`, `SchedProofs` |
| `Memory` | what fork and mmap promise (abstract) | |
| `Cow` | `anon.c`, `shadow.c`, `mmobj.h`, whole areas of `vmmap.c`, `pagefault.c`, parts of `fork.c`, `pframe.c` | implements `Memory` |
| `CowProofs` | theorems about `Cow`, with the refinement | extends `Cow` |
| `PageMap` | what exec, mmap, munmap and brk promise a process (abstract) | |
| `Vmmap` | `vmmap.c`, `mmap.c`, `brk.c`, `pagetable.c`, `access.c` | |
| `Exec` | `elf32.c`, with `exec.c` and `binfmt.c` above it | extends `Vmmap`, implements `PageMap` |
| `ExecProofs` | theorems about `Vmmap`'s operators and the address space of a process | extends `Exec` |
| `Vnode` | `vnode.c`, the blocking operations of `pframe.c`, their callers | |
| `VnodeProofs` | theorems about `Vnode`: counts, sleepers, what is written stays | extends `Vnode` |
| `Ramfs` | `ramfs.c`, `vnode.c` over it, `namev.c` | |
| `FileTable` | `file.c`, `open.c`, `vfs_syscall.c`, `vfs.c`, files in `fork.c` and `proc.c` | extends `Ramfs` |
| `FileTableProofs` | theorems about `FileTable`, with `Ramfs` | extends `FileTable` |
| `Heap` | what the allocators promise (abstract) | |
| `PageAlloc` | `page.c` | |
| `Slab` | `slab.c`, `kmalloc`, and the callers of both | extends `PageAlloc`, implements `Heap` |
| `KmemProofs` | theorems about `PageAlloc` and `Slab`, with the refinement | extends `Slab` |
| `Vterm` | `virtterm.c`, the keys of `keyboard.c` that concern it, `screen.c` | |
| `VtermProofs` | theorems about `Vterm` | extends `Vterm` |
| `MCSched` ... `MCVterm` | constants of the instances | |

Several definitions come with a second one whose name has a suffix
(`ktqueue_enqueue_lifo`, `kmutex_unlock_frees`, `Find_busy_too`).  They are not part
of the model: each is what the definition would be with a plausible slip (a
forgotten count, the wrong end of the queue, a missing wake-up).  Substituting it
for the definition makes a property fail, which shows that the property depends
on the code being right there; `PROJECT.json` says which one fails.

### Sched

State: `ktq` holds all queues: `list` (the links, oldest first), `size` (`tq_size`)
and, per thread, `wchan` (`kt_wchan`).  List and size are kept apart, because the code
tests one in `sched_wakeup_on` and the other in `kmutex_unlock`.  `kt_state`,
`kt_cancelled` and `curthr` are the fields and variables of that name.  `cpu` is
"switch" while `curthr` is inside `sched_switch`, "idle" when it has found the run
queue empty there, with interrupts masked from that test on, and "halt" in `intr_wait`; `bcast` is the queue that a broadcast
is working on; `kt_ret` is the result of the thread's last cancellable sleep,
"blocked" while it is inside the call.

Each call is one action.  A broadcast is one step per thread woken, and the
dispatch at the end of `sched_switch` is a step of its own, so that `Interrupt` (the
device handlers' `sched_wakeup_on`, external) may come before the old thread has
been switched out, and between the wake-ups of a broadcast.  `Returned` reads
`kt_cancelled` only on dispatch, as `sched.c:126` does.  An operation on a queue is
atomic here; that is what the raised IPL is for, and is assumed.  The wait queues
themselves are not guarded (`sched_helper.c:44`): that is left to their callers.

### Kmutex

`km_holder` is the field; a mutex is named by its wait queue.  `has` is what the
calls have told a thread, and `call` is the lock call it is blocked in.  A thread
locks what it does not have, unlocks what it has, and exits with nothing held
(the contract of `kmutex.h`), and otherwise yields, blocks on a device, creates
and cancels.  A thread that got -EINTR acts as the callers in `faber_test.c` do: it
takes it that it has no mutex.

### Proc

One thread per process (MTP=0), so one name stands for the `proc_t`, its `kthread_t`
and its `p_wait` queue.  The drivers of the module are the kernel's: `idleproc_run`
creates init and waits; init runs `user/sbin/init.c`, which starts processes and then
waits until there is no child left; the others fork, wait for one or any child,
block on a device either way, yield, call `sys_halt` and exit.  `stage` says where in
these calls a process is.

Choices.  `proc_create` and `sched_make_runnable` are separate steps, since a
process exists for a while without being runnable; nothing in `do_fork` blocks
between them (the reference to `p_cwd` is taken, and the vnode that
`proc_create` may put is never on its last reference).  In `proc_cleanup` the wake-up before
and the broadcast after the blocking part are separate steps, each with the
parent there is at that time; the blocking part sleeps at most once ("flushed").
`proc_kill_all` visits its victims in any order.  init exits only without
children: `proc.c:329-338` makes it a precondition, and the loop at 361-368 would
never end otherwise.  Exit statuses are left out.

### Memory and Cow

`Memory` is the contract: an area is a view of a segment, a private view has its
own copy of the pages that its process has written, and fork copies views.

`Cow` has the objects: kind, `mmo_refcount`, `mmo_shadowed`, `mmo_bottom_obj` and
resident pages with their contents; areas (`vma`) point to objects, page table
entries (`pte`) to the frame of an object.  `vmmap_map`, `do_munmap`, `do_fork`,
`do_exit`, `vmmap_destroy`, `UserRead` and `UserWrite` (with their faults) and
`vmmap_read` and `vmmap_write` are the actions.  `Put` frees a whole prefix of a chain
in one call, as the recursion through `shadow_put` does, and takes the page table
entries with it that `pframe_remove_from_pts` finds.  An unmap may also clear the
entries of neighbouring areas (`near`), which the two-level table shares with them
(`pagetable.c:184-196`).

Refinement: `viewBar` says that a private area's own page is the one the chain of
shadow objects holds above the bottom; `storeBar` says that a segment is a bottom
object.

Left out: protection bits, partial unmaps, `brk`, pin counts, running out of memory
in a fault, and exec (see `Exec`; a process here has its areas from mmap and fork).  The TLB follows the
table, since every removal is followed by a flush.  The file's object keeps one
reference of its own (the open file), and operations on it are atomic here: its
blocking is the subject of `Vnode`.

### Vmmap, Exec and PageMap

`vmm_list` is the ordered list of areas; `pagedir` the two-level page table;
`p_brk` the break, `p_start_brk` where it began, 0 before a program is loaded; `refs` the references that areas hold to each object.  Addresses are
bytes and wrap at `WordSize`; the pages are few and have two bytes, so that every
alignment occurs.  `do_mmap`, `do_munmap`, `do_brk` and a touch of a page by the
program are the actions, with every check they make and miss; a call after which
the kernel would fail an assertion or dereference NULL is the step `Panic`.  One of these is a
mapping for which there is no memory object left: `vmmap_map` follows the NULL that
`anon_create` returns (`vmmap.c:386`, 417).
`vmmap_remove` cuts each area in one of the four ways of `vmmap.c:459-509`;
`olink` says whether an area is on its object's list, which the second half of an
area that is split is not.  The kernel's accesses are the operators `addr_perm` and
`range_perm`.  `vma_prot` is left out (`addr_perm` ignores its argument), and
VMMAP_DIR_LOHI is not implemented in the code.

`do_execve` builds a second address space with the operators of the first (`map_segment` and
`LoadInterp`, over a record of areas, references and page table) and puts it in the
place of the old one, or takes it down again.  `vmmap_remove` clears the page table
of the current process whichever map it is given, so the record has that table,
and a program that is refused costs the old one its entries.  The file's part of a
segment and its zeros are each a new object.  A program is its table of segments;
reading and refusing headers before anything is mapped, the bytes, the arguments and
the registers are left out.

`PageMap` has no areas and no loader: a page shows a page of an object, or nothing, and
a program has an image, a function from pages to its parts, which `ImageOf` defines
without mapping anything.

### Vnode

An action is what a thread does between two scheduling points: sleeping on a
vnode's or a frame's queue, or inside a file system operation that waits for the
disk (`read_vnode`, `delete_vnode`, `fillpage`, `dirtypage`, `cleanpage`).  `thread[t].pc`
names that point.  Threads get the CPU in any order, which covers the scheduler's.
A thread has at most one vnode, and uses its pages by page fault ("read",
"write"), by the kernel's copy to user memory ("copy") and by writing to what it has mapped.
`sync` is `pframe_clean_all`.

From the file system come, as external: that operations block and may fail, the
directory entries (`names`, which decide `query_vnode`), and a mutex per directory
held from finding an entry until `vget` returns (`Locked`).  That mutex keeps a lookup from
reaching `vget` after the entry has gone.

`do_link` puts the vnode that it has opened (`vfs_syscall.c:512`) before it walks the path to,
looks the new name up and calls the file system's link, all of which may block.  So it is in three
parts here: `vget` with "link" ends at "opened", the `vput` that follows at "link", and `do_link` adds the
name at any later time, to the inode that it reads from the structure then: still in use, on its way out, free
(`stale` is what it held last) or another inode's.  `revived` records the inodes that got a name in this way
when they had no name and no user left (`Users`), and `left` the pages that a `vput` which is waiting
for a busy one has yet to free; what others do to the vnode meanwhile can make its
assertions fail (`panic`, after which nothing but `Halted` happens).

`latest` and `asked` are history variables: the number of the last write to each
page, and its value when a `sync` was called.  A write-out takes effect
when it returns; nothing can change the page in between, and one that fails may or
may not have changed the disk.

### Ramfs and FileTable

In these two nothing blocks: ramfs keeps everything in memory.  So each system call
is one action, and its parts are operators from a state of the file system to the
next (`vget`, `vput`, `lookup`, `dir_namev`, `open_namev`, one per ramfs operation), each
returning what the C function does, errors included.  A reference the code takes
is a count incremented in that order, so that a path that returns early with a reference
kept, or given back twice, shows.  `panic` records the first assertion the kernel would fail.

`lost` counts the references to a file that no descriptor holds: a full table makes
`do_open` and `do_dup` store at `p_files[-EMFILE]`, and `do_dup2` overwrites.  The
accounting invariant names them instead of excluding the calls.

s5fs is the root file system of this configuration, but its code here is stubs;
ramfs is the file system whose source is complete, and the only one on which names and
links can be modelled from source.

### PageAlloc, Slab and Heap

`PageAlloc` has the page group as a value: the free lists by order, and the bit
maps `pg_map` with one bit for a pair of buddies.  `Slab` has the callers and the slab
caches over it: a slab is a block of pages with objects, their `slab_bufctl`s and
the `struct slab` at its end, so that sizes and orders come from the layout
(`slab_size`, `slab_nobjs`).  Growing, freeing and `slab_allocators_reclaim` when no
page is left are parts of the allocation that needs them.  `intact` is FALSE once the
code has taken a link off a list it was not on; the memory means nothing from then on, and no
call follows.  `Heap` is the contract of both: what is handed out does not overlap.  Each loop of the
code (splitting, joining, reclaiming, creating buckets) is `Iterate`, a recursive function, of an
operator for one turn.

### Vterm

Positions are those of the ring; `vt_handle_char`, `vt_provide_char`, `vt_scroll`,
`vt_switch` and `vt_redraw` are as in the code, and `screen` is the video memory with
what has been written there, character by character.  Keyboard input is the scan
codes that scroll or switch.

## 3. What is checked

Run `tlc -config <cfg> <module>`.  Sizes are distinct states.

| run | cfg | states | shows |
|---|---|---|---|
| `sched` | `MCSched.cfg` | 161 013 | the scheduler's queues, halting, fairness |
| `kmutex` | `MCKmutex.cfg` | 260 233 | mutual exclusion and hand-over |
| `kmutex_cancel` | `MCKmutexCancel.cfg` | | a violation, section 5 |
| `proc` | `MCProc.cfg` | 75 412 | family tree, waiting, halting the system |
| `cow` | `MCCow.cfg` | 117 558 | chains of shadow objects |
| `cow_memory` | `MCCowMemory.cfg` | 163 956 | `Cow` implements `Memory` |
| `vmmap` | `MCVmmap.cfg` | 81 409 | areas, page tables, loading; `Exec` implements `PageMap` |
| `vnode` | `MCVnode.cfg` | 865 494 | vnodes and pages over a blocking file system |
| `vnode_get` | `MCVnodeGet.cfg` | | a violation, section 5 |
| `files` | `MCFiles.cfg` | 491 570 | descriptors, names and links |
| `kmem` | `MCKmem.cfg` | 20 965 | both allocators; they implement `Heap` |
| `vterm` | `MCVterm.cfg` | 180 172 | the ring, the screen and the text |

**sched**: idle and two threads, a queue woken by threads and one woken by
interrupts.  `QueuesSound`: a thread is linked where its `kt_wchan` says, once, in the
state that queue calls for, `tq_size` is the number of links, and a cancelled
thread is in no cancellable sleep, whichever came first.  `NeverLost`: the comment of
`sched.c:142`.  `HaltsOnlyIdle`: no interrupt slips between the test of the run queue
and the halt.  `RunQueueFifo`: no step lets a thread overtake one on the run queue.
`CancelIsReported`, `RunnableRuns`: a cancelled sleep returns -EINTR, a queued thread
gets the CPU.
Bounds: with three threads there is one running, one queued and one asleep, or
two competing for a queue while the third wakes or cancels; the operations
concern at most two threads and two queues.  Threads exit and are created again,
so runs are unbounded.

**kmutex**: three threads, one mutex, one device queue: a holder, a waiter and
one that cancels or overtakes, which are the roles the code has.  `MutexSafety`;
`HandOver`: nobody waits for a free mutex, and who leaves the sleep of a lock call is
the holder or cancelled; `LockCallsReturn`: a lock call returns, provided no mutex has
leaked (the defect of section 5 is the only way to leak one, and is excluded by the
premise, not by the model).

**proc**: idle, init and two more processes which are reaped and made again, one
device, and four pids for four processes, so that pids wrap and are reused, and
reparenting, orphaned zombies and processes that are created and exit while a
halt goes on occur.  `ProcessesSound`: every process is on the list of exactly the
parent that will reap it, pids differ.  `WaitSound`: no stack is freed in use, and who
sleeps in `do_waitpid` has a child alive or a wake-up on its way.  `UsesScheduler`: every
step is a step of `Sched`.  `DeadChildIsReaped`; `HaltCompletes`: after a halt has begun
while init is collecting, every process exits and idle's wait returns init,
wherever processes were blocked.

**cow**: three processes that fork one another, five objects, one private
area of one page: chains of three, and middle objects shared by three.  Processes
other than the first are interchangeable, hence symmetry; no property of this run is
a liveness property.  `ObjectsSound`: reference counts are exact and what is counted
is reachable.  `MapsLiveFrames`, `WritesStayPrivate`; `StaleOnlyByKernelWrite`: only
`vmmap_write` leaves an old frame mapped, which it does (`vmmap.c:618`: it writes to a
new copy and does not unmap the frame the program has mapped for reading).
**cow_memory**: two processes, the kinds of mapping `cow` leaves out (private and
shared file, shared anonymous), pages of two words so that a copy has to preserve
the word that is not written: `ImplementsMemory`, the refinement.

**vmmap**: four pages under two page tables, two bytes to a page, one shared mapping
of a two-page file and private anonymous ones, up to three areas when a map is made,
and three programs: one with an interpreter, whose zeros begin in the page where its data end
and whose break is not aligned; one of a single page, whose break is; and one whose
second segment overlaps the first.  Any of them is loaded at any time, and may fail
while it is read, at its interpreter or at the end.  Addresses and lengths include zero,
unaligned ones and ones that wrap.  Three areas are enough for an
unmap to meet each of its four cases with a neighbour on either side.
There are four objects besides the file, so that a map or a load sometimes finds none.
The VIEW of the cfg renames objects by the first area over them: nothing depends on their
names, and exec would use them up in every order.
`AreasSound` includes that `vmmap_find_range` finds the highest gap.  `TableFollowsAreas`: a
page table entry never outlives what its area says.  `ImplementsPageMap` is the
refinement.  `RemovedButForSplits`: when a page of the file is dropped, only second
halves of split areas keep mapping it (`vmmap.c:477` does not link them).
`ChecksAllButLast` states what `range_perm` does check: every page of the range but
possibly that of the last byte (`access.c:182`).

**vnode**: three threads at one inode named in two directories, two vnode
structures (so that a second vnode could be made, and the slab can be exhausted
after that), two pages, one written to up to twice and one only read (`Written`, `MaxWrite`),
write-outs that succeed or fail.  Threads, vnode structures and directories are
interchangeable, hence symmetry.
`VnodesSound`: one vnode for an inode, counted exactly; and the assertions of `vput` fail over
no inode but one that `do_link` has revived (`StopsOverRevived`).  They do fail over those, see
section 5.  `NothingLost` and `SyncSaves` are about the linked inodes that have not been revived, since the pages of a
revived one may have been freed as they were.  `PageSleeperAwaited` holds for all.
That a freed structure is given to another inode before `do_link` reads it needs two inodes and
is left to the theorems, which hold for any number.
The deadlock check is on.  Fills and `dirtypage` succeed in
this run: when they fail, the code does lose data (`pframe.c:407-412`, and the results
ignored at `pagefault.c:127` and `vmmap.c:625`), which the model shows with
`FillOutcomes` or `DirtyOutcomes` set to `{TRUE, FALSE}`.

**files**: two processes with two descriptors each, two `file_t`s, three inodes and three
vnodes, two names, one given to directories at any depth and one to files and devices.
Three inodes are the root, a directory and something in it; a removed directory
that a process is still in takes one of them, and its number is used again
afterwards.  `FilesSound`: the counts of files and of vnodes are exactly what
descriptors, directories and lost references hold.  `LinksAccounted`,
`DirectoriesFormATree`.  `StopsAccounted`: the kernel stops only for one of the causes in the
definition (`Cause`), each a fact about the state before and the paths that are given, not about the course of
the call:

| stop | where | only if |
|---|---|---|
| read_vnode | an inode that is not there | a path goes up from a removed directory |
| lookup | NULL called, `namev.c:52` | a path goes through a file or a device |
| dir | `namev.c:45` | `do_mknod` is given a path in no directory |
| namelen | `ramfs.c:433` | mknod, rmdir, unlink or link is given "/" |
| memcpy | `ramfs_write` | the position is past the page |
| write | NULL called, `do_write` | a directory is open with O_APPEND |
| vfs_shutdown | the file system is in use | a reference was lost |

That the counts (`vref`, `vput`, `fput`) and sizes (`ramfs_write`) never fail an assertion is part of
it, as no cause names them.  Several of these stops contradict the comments on the functions (section 5).
The run reaches all of them but "write" (its opens are all O_RDWR with O_CREAT), which the
theorem covers.  `OpenFilesStay`.  All five are also
proved, for any sizes and paths (section 4).
Not among the calls: `unlink("..")`, which removes the entry and leaves a directory no
walk survives (an assumption, `FileTableAssumption`), and links whose target is below the
caller's directory (`LinksInPlace` is their absence), for which
`do_link` (`vfs_syscall.c:512`) walks on after giving back the vnode it is to link; with that
vnode free, a directory on the way may get its structure and the new name.
Files are of one byte (`PageSize`), enough to be empty or not, and `lseek` goes to 2, past the page
(`SeekTo`); NFILES is 2, so that the table is full after two opens.

**kmem**: seven pages in blocks of 1, 2 and 4 (one of the largest and a tail of 2 and 1), two
buckets of `kmalloc` whose slabs take one and two pages, and a cache made on the way;
at most five allocations held.  Page exhaustion and reclaiming occur.
`MemoryAccounted`, `FreeBuddiesJoined`, `ImplementsHeap`; `BrokenByTailOnly`: the only calls
that leave the free lists wrong are those that free a block behind those of the largest order
(see section 5).

**vterm**: two terminals, a screen of three rows of two characters, a ring of two screens
(25 rows of 80 and five screens in the code), one character.  The second terminal gets one
character, so that switching has another text to show; the first is written, backspaced and
scrolled without bound, round the ring again and again, with at most two places that a
newline has left blank (`FewGaps`).  With two screens in the ring
the tail meets the head, the head passes top, and text can be scrolled out and back; with
three rows a cursor can be backspaced so far before the top that the ring's distance makes it
look a little behind it, which does not happen with two (see section 5).
`VtermSound`, `ScreenIsShown`, `TextStays`.

Deadlock is not checked where a system whose threads all sleep with no interrupt due, or in
which all have exited, has stopped as it should; it is checked in `vnode` and `vterm`.

### Fairness

`Sched`: weak fairness of the dispatch and of the broadcast loop (the CPU goes on),
and of each running thread's giving up the CPU (kernel threads block, yield or
exit sooner or later; the kernel is not preemptive and depends on it).  None
of interrupts.
`Kmutex`: the same, devices answer, and a thread unlocks each mutex it has: strong
fairness, since the thread may block on a device in between, time and again.
`Proc`: the CPU goes on, with whatever step the current thread takes next, and
devices answer.
The others have safety properties only: nothing in `Cow`, `Vmmap`, `FileTable`,
`Slab` and `Vterm` waits, and what `Vnode`'s threads wait for is stated as
`PageSleeperAwaited`.

## 4. What is proved

Run `tlapm <module>`.  The theorems hold for all values of the constants that meet
the assumptions, and what the runs show on small instances is among them.

### Scheduler

`SchedProofs`, for any finite or infinite set of threads and queues with
`SchedAssumption` (idle is a thread; the run queue is no wait queue; NULL is no queue):

| theorem | states |
|---|---|
| `SchedIInv` | `Spec => []IInv`, the inductive invariant |
| `SchedQueuesSound` | `Spec => []QueuesSound` |
| `SchedNeverLost` | `Spec => []NeverLost` |
| `SchedHaltsOnlyIdle` | `Spec => []HaltsOnlyIdle` |
| `SchedFifo` | `Spec => RunQueueFifo` |

(`SchedTypeOK`, `SchedOnItsQueueOnly`, `SchedStateFitsQueue` and `SchedCancelledAwake` state
the parts of `QueuesSound` one by one.)

None of the queue properties is inductive alone.  A queue stays well formed only if what
is enqueued is on no queue, which `StateFitsQueue` says of the running thread and
of a new one; that in turn needs `OnItsQueueOnly`, to know that the thread a
wake-up takes off a queue was asleep there.  `IInv` is the conjunction of the five
invariants.  The proof has three layers: what the three queue operations do to a
well-formed set of queues (`EnqueueOK`, `DequeueOK`, `RemoveOK`); what a wake-up, a
sleep and a cancel do to the invariant (`WakeStep`, `SleepStep`, `CancelStep`, ...);
and one case per action (`NextIInv`).  `SchedFifo` rests on `RunQueueChange`: a step
leaves the run queue alone, appends to it, or takes its head.  `SchedHaltsOnlyIdle` has an
invariant of its own: from the test of the run queue to the end of the halt the
queue is empty, since nothing but an interrupt can add to it and interrupts are
masked until the halt.

### Mutexes

The second part of `SchedProofs`, for any threads, mutexes and device queues, assuming besides
`KmutexAssumption` (mutexes sleep on wait queues that no device uses; NULL is no
thread):

| theorem | states |
|---|---|
| `MutexUsesScheduler` | `MutexSpec => ImplementsScheduler`: what is proved of `Sched`'s safety holds here |
| `MutexInvariant` | `MutexSpec => []MutexIInv`, the inductive invariant |
| `MutexIsSafe` | `MutexSpec => []MutexSafety` |
| `MutexHandOver` | `MutexSpec => []HandOver` |

(`MutexTypes`, `MutexExclusion`, `MutexNoStrandedWaiter` and `MutexWokenAsHolder` state their parts.)

`MutualExclusion` alone is not inductive: when a lock call returns 0, only
`WokenAsHolder` says that its caller is the holder, and only if the thread was
not cancelled; that a cancelled one then gets -EINTR is the conjunct
`InsideCall` of `MutexIInv`, about what happened at its dispatch.  A hand-over keeps
`WokenAsHolder` because the head of the queue is inside a call of that mutex
(`NoStrandedWaiter`).  `IInv` is a conjunct too: it comes from `MutexStep`, by which each
step is a step of `Sched`.  Steps that concern no mutex are all cases of one
lemma, `QuietStep`.

### Processes

`ProcProofs`, for any number of processes and devices, with `ProcAssumption` (init
is another process than idle; the wait queues are the processes' and the devices', which
differ; there is a positive number of pids).  Of `SchedProofs` it uses the part about `Sched` alone,
and nothing of the mutexes' assumptions:

| theorem | states |
|---|---|
| `ProcInvariant` | `ProcSpec => []ProcIInv`, the inductive invariant |
| `ProcUsesScheduler` | `ProcSpec => UsesScheduler` |
| `ProcWaitSound` | `ProcSpec => []WaitSound` |
| `ProcAreSound` | `ProcSpec => []ProcessesSound` |

`ProcIInv` has five parts.  `IInv` is the scheduler's, and comes from `ProcStep`: a step of
the processes is a step of `Sched`.  That is not evident for the wake-ups in
`proc_cleanup`, which dereference the parent (`LeavingHasParent`), nor for the end of `do_fork`,
which makes runnable a thread that must be new.  `StageFitsThread` relates where a process is
in its calls to the state of its thread; it holds the argument why a zombie's stack is
not in use.  `FamilyTypes` are types.  `Kinship` has `FamilyTree` and `Rooted`: in every set of
processes without idle and init there is one whose parent is outside the set.  That excludes
cycles without induction over chains of parents, and implies that init is there as long as
anybody but idle is (`InitLives`), which is what reparenting in
`proc_cleanup` depends on; an exit keeps it because the children of the dead go to init.
`Waiting` has `AsleepForALiveChild` with the moment in between: a child
that has done the wake-up in `proc_cleanup`, and has not yet become a zombie, still has its
broadcast to come (`BroadcastStep` is part of `Sched`).

Pids need one more argument (`PidsSound`): that `_proc_getid` returns a pid nobody has.  The
model's operator takes the first free pid from `next_pid` on, as the loop does; that there is a
first one follows from the well-foundedness of the natural numbers (`LeastElement`,
`GetidFinds`).  When all are in use the code returns -1, and its caller uses that as a pid; the
step is not enabled then.

### Copy-on-write

`CowProofs`, for any numbers of processes, areas, pages and memory objects, any words, values, kinds of
mapping and contents of the file, with `CowAssumption` (these sets are finite, except words and values;
the values for nothing are none of the others):

| theorem | states |
|---|---|
| `CowInductive` | `CowSpec => []CowInv`, the inductive invariant |
| `CowObjectsSound` | `CowSpec => []ObjectsSound` |
| `CowMapsLive` | `CowSpec => []MapsLiveFrames` |
| `CowWritesPrivate` | `CowSpec => []WritesStayPrivate` |
| `CowStale` | `CowSpec => StaleOnlyByKernelWrite` |
| `CowImplements` | `CowSpec => ImplementsMemory`, the refinement |

*Chains.*  `Holder`, `Beneath` and the path of a `Put` are recursive functions along `mmo_shadowed`, which
nothing in a type bounds.  `Ranked` says that objects can be numbered so that each is above the one it
shadows; then each of these functions is what its equation says (`HolderIs`, `BeneathIs`), and
`Beneath` is the least set closed under shadowing.

*Objects and areas.*  `ObjectsSound` is not inductive: that a count is exact says nothing of who may be
copied to.  `ObjInv` adds that every object has the fields of its kind and its chain's bottom (`Shape`), and
`AreaFits`: a private area is over a shadow object that no other area and no other object names.  That is the
heart of copy-on-write: a fork puts a new shadow object under both processes, and the object in
between is written by nobody again.  Each operation keeps `ObjInv`; the work is in the counts, which are
compared by the cardinalities of the sets of users before and after (`ForkSetsAre`).  `PutPathIs` says which
shadow objects a `Put` frees, those of a prefix of the chain of which each had its last reference, and
`PutCounts` that every put of an object that stays answers one reference that went.

*Entries.*  `PteFits` relates the page table to the chain: an entry maps a resident frame of an object beneath its
area's, and for writing only if that object is the area's own.  What a put frees is beneath no area that stays
(`BeneathNotFree`), so that their entries still map what they did; and what a private area writes to is beneath
no other (`PrivateApart`).  `CowInv` is `ObjInv`, `PteFits` and types.

*Refinement.*  `ViewFields` and `SeenIs` say what an area shows in terms of its chain: its own copy, which is
the page the lookup finds above the bottom, or the segment's.  Lookups that fill frames change
none of that (`FilledChanged`: a frame is filled with what was seen before), so that a fault is a stutter.
A write changes what its area shows at one place and, if it is shared, the segment
(`WriteImplements`); a fork copies views although it copies no page; a segment that no view
shows any longer is forgotten exactly when its object is freed (`PagesOf` and `Forget`).

### Vnodes and pages

`VnodeProofs`, for any vnode structures, inodes and directories, any finite
numbers of threads and of pages of a file, and any outcomes of the file system's operations,
with `VnodeAssumption` (there is a vnode structure; the values for nothing are none of the others):

| theorem | states |
|---|---|
| `VnodeInductive` | `VnodeSpec => []VnodeIInv`, the inductive invariant |
| `VnodesCounted` | `VnodeSpec => []VnodesSound` |
| `PageSleepers` | `VnodeSpec => []PageSleeperAwaited` |
| `DataInductive` | `VnodeSpec => []DataIInv`, the inductive invariant of the data |
| `NoWriteLost` | `VnodeSpec => []NothingLost` |
| `SyncsSave` | `VnodeSpec => SyncSaves` |

The last three assume that fillpage and dirtypage succeed (`FillOutcomes`, `DirtyOutcomes`),
because with failures the code does lose data; write-outs may fail.

`VnodeIInv` says what a thread at each place has (`ThreadShape`) and then three things that hold each
other up.  *Counts*: `Counted` is the exact count.  To keep it, a vnode on its way in or out must be
nobody else's (`MoversAlone`, `VnodeShape`): a mover's vnode is busy with count 0, so by `Counted`
without holders and pages (`FromCount`), and `Unique` keeps a second one from being made.
*Names*: a thread in the middle of vput's loop is the only one there, and stays the only holder while it sleeps, with no
name to find the inode by and its list of pages complete, unless `do_link` has revived the inode (`DroppersAlone`);
so the assertions after the loop fail over revived inodes alone (`StopsOverRevived`).  That a lookup which began before the last unlink does
not turn up later is `NamesKept`: the directory's mutex keeps the name a lookup has read.  `LinksRead`: what
`do_link` reads from a structure it has put is an inode's number, whatever has become of the structure.  *Pages*:
`WorkersAlone` has one thread at work on every busy page and none on another, which is what a
sleeper counts on; and `WritersHold`, that who may write to a page has the vnode, so that freed
pages are mapped by nobody.  The steps are cases of two lemmas, `VnodeStep` (one thread,
one vnode) and `PageStep` (one thread, one page).

`DataIInv` adds what is in the frames.  `NothingLost` is not inductive, as it speaks of linked inodes
only: a file whose last name goes and comes back while its vnode is in use must not have lost
anything meanwhile.  `DataKept` therefore states it of an inode that is `Alive`: not revived, and linked or
with a vnode that no vput has begun to empty.  An inode that is not alive never is again, since
a name that it gets then makes it revived (`AliveStays`).  `WritableIsDirty` is why a program's write cannot miss the disk: pframe_clean removes
the mappings before it clears the dirty bit for good.  `PinnedIsClean` is why sync may skip a pinned
page: until its dirtypage returns nothing has been written to it that the disk does not have.

### Address spaces

`ExecProofs`, first about the operators of `Vmmap`, for any area, range, list of areas and sizes of page
and page table:

| theorem | states |
|---|---|
| `CasesExclusive` | the four cases of `vmmap_remove` exclude one another and leave out only areas outside the range |
| `RemoveCutsExactly` | what is left of an area is what lies outside the range, to the page |
| `RemoveKeepsPages` | what is left shows the pages of the object it showed before |
| `RemoveLeavesAreas` | the pieces are areas, are not empty and do not meet |
| `EmptyMeansUnmapped` | `vmmap_is_range_empty` is true if and only if no page of the range is mapped |
| `UnmapRangeClears` | `pt_unmap_range` clears the entry of every page of the range |
| `RangePermSamples` | `ChecksAllButLast`, in every state: the addresses at which `range_perm` looks are a page apart, so one of them is in each page of the range but, at most, the last |

Then about a process that maps, unmaps, moves its break, touches pages and loads programs,
for any sizes of page, page table, memory and register, any objects, addresses, lengths and programs,
with `VmmapAssumption` (user memory begins and ends with a page table and its addresses fit in a
register; the values for nothing are none of the others) and `ExecAssumption` (a program's segments end
in user memory and leave room for the stack below):

| theorem | states |
|---|---|
| `VmmapInductive` | `ExecSpec => []VmmapInv`, the inductive invariant |
| `AreasStaySound` | `ExecSpec => []AreasSound` |
| `TableFollows` | `ExecSpec => []TableFollowsAreas` |
| `PframeReachesAll` | `ExecSpec => RemovedButForSplits` |

`VmmapInv` has three parts: the list is in `AreaList` (areas of user memory, not empty, in order and
apart) and an object has one reference for every area over it; every entry of the page table shows what
some area over its page says (`Follows`); the break is within user memory.  `AreasSound` and
`TableFollowsAreas` follow, since in such a list only one area covers a page and `vmmap_lookup` finds it
(`LookupIs`).

*Lists.*  `InsertSound` and `InsertCounts` say what `vmmap_insert` does with an area that is clear of all
others; `CutIs`, `SplitOnce`, `RemoveList` and `RemoveCounts` what `vmmap_remove` does.  The areas that stay keep their
order because `NthOf` counts off a set of indices in order (`NthOfIs`).  Only one area can be split, so
that the second half is inserted once, and counts are compared by maps that are one to one (`SameCount`).
`FindRangeIs` says that `vmmap_find_range` returns the highest free range.

*Tables.*  `Loses` relates two page tables one of which has only lost entries.  Removing areas
requires that their range has been cleared (`UnmapRangeClears`), and everything else that an unmap does
to the table is harmless (`UnmapRangeLoses`, `LosesFollows`).

*Loading.*  While a program is loaded there are two lists over the same objects.  `Good(m, other, dir)` says
that `m` counts its own areas and those of the other list, and that its table has only lost entries
of `dir`.  Each part of `elf32_load` keeps it (`SegmentGood`, `InterpGood`, `StackGood`, `LoadGood`), however it
fails, which is what lets `ExecveSound` take either list down in the end (`DestroyGood`) and be left with
exact counts of the other.  That the interpreter's segments stay within the range found for them
needs the arithmetic of `RelocatedGood`, and that addresses do not wrap (`AlignedUp`).

*Loops* of the code, over segments and over areas to destroy, are recursive functions.  The library's
induction takes an operator as a parameter, which the provers cannot instantiate, so
`SetInduction` states induction with a set and `Iteration` that a function exists which does a step n times;
the functions of the model are then shown to be that one.

### Open files and the file system in memory

`FileTableProofs`, for any processes, descriptors, files, vnodes, inodes, names, flags and offsets, and
for paths of any length, with `RamfsAssumption` (there are as many vnodes as inodes, so that `vget` finds
memory; `Dot`, `DotDot` and the values for nothing differ from names) and `FileTableAssumption` (nobody
unlinks `..`):

| theorem | states |
|---|---|
| `FilesInductive` | `FilesSpec => []FilesIInv`, the inductive invariant |
| `FilesAreSound` | `FilesSpec => []FilesSound` |
| `LinksAreAccounted` | `FilesSpec => []LinksAccounted` |
| `DirectoriesAreATree` | `FilesSpec => []DirectoriesFormATree`, if `LinksInPlace` |
| `StopsAreAccounted` | `FilesSpec => []StopsAccounted` |
| `OpenFilesAlwaysStay` | `FilesSpec => OpenFilesStay` |

`LinksInPlace` is what the code needs to be right: with a lookup between the put and the use in `do_link`,
a directory can get a second name (section 3).  The other theorems hold without it: then too, every
count is exact, and the kernel stops for the same causes alone.

`FilesIInv` says that the file system is `Good`, that `VnodesCounted` and `FilesCounted` hold, that processes are
in directories and no directory is open for writing (`Kinds`), and where the kernel may have stopped and why.  `Good` is about inodes and vnodes: an inode has one vnode, which shows it
(`ShowsInode`); link counts are exact (`LinksExact`); the entries of a directory are counted, and `.` and `..`
lead somewhere (`InodeOK`); the free list holds what is free (`FreeOK`), so that `vget` does not take
a vnode in use; and the `Tree`.

*Inside a call* the counts are not those of `FilesIInv`, since the call holds references of its own.
The lemmas therefore carry `Refs`, the counts of all vnodes as one function, and say by how much it
differs from that at the beginning.  What a lookup can do, however far it goes, is `Calm`: it gives vnodes
to inodes and puts what it was given, so that no inode goes and no entry changes; `Found` adds that
it holds one reference to what it found, or none.  `WalkFound` carries this along a path by
induction over its length.  Creating, linking and removing names (`MakeGood`, `LinkedGood`,
`UnlinkedGood`) can make `vput` free an inode, with a directory its names, so they come after all lookups (`Live`).
That no call keeps a reference or gives one back twice on any of its early returns is then the
equation `Refs(T) = Refs(Now)` of `Ends`.

*Between calls*, `Sums` relates `Refs` to files, working directories and the mount, and the counts of files to
descriptors and lost references.  Each call on descriptors is a case of a few lemmas about one
holder more, one less or one that moves (`SumsEnter`, `SumsLeave`, `SumsFref`, `SumsFput`, `SumsOpen`).  `FrefAll` and
`FputAll` are the passes of fork and exit over all descriptors: at each step the sums hold of a table
of which a part has been copied, or emptied.

*Stops.*  A call that stops the kernel leaves everything else as it was (`StopKeeps`), so what the cause of a stop
says of the state before holds of the state after.  `Leads` says where the names of a path lead in the entries
of the directories, without walking.  A walk that has come to an inode shows that the names so far
lead there (`Follows`), and one that stops has come to the inode of the cause: `May` says that a name may be looked up in a
directory without stopping the kernel, or else that the cause is there.  An entry that is a
name always leads to an inode that is there (`Good`), so only a `..` can fail, and that of a
directory that has a name in its `..` does not.  This needs neither `Tree` nor `LinksInPlace`.

### Page and slab allocators

`KmemProofs`, for any numbers of pages and of orders, any caches, any sizes of page, object, red zone
and header, and any requests, with `PageAllocAssumption` (there is an order), `SlabAssumption` (an
object is not empty and one of each cache fits in a block of the largest order, and no caller asks for
more pages than that block has: `slab.c:151` and `page.c:386` panic otherwise; slabs are of no
larger orders than there are, and a `struct slab` is smaller than a page) and `SlabInitAssumption`
(the memory is large enough for the buckets of `kmalloc`, else `slab.c:512` panics):

| theorem | states |
|---|---|
| `KmemInductive` | `KmemSpec => []KmemInv`, the inductive invariant |
| `MemoryIsAccounted` | `KmemSpec => []MemoryAccounted` |
| `BuddiesAreJoined` | `KmemSpec => []FreeBuddiesJoined` |
| `TailBreaksOnly` | `KmemSpec => BrokenByTailOnly` |
| `KmemImplementsHeap` | `KmemSpec => ImplementsHeap`, the refinement |

*The invariant.*  `MemGood(m, held, F)` says that the group is `Good` with the pages `F` free, and that
the other pages are those of the slabs and of the callers (`MemOK`).  `Tiles(U, X)` is the notion both
rest on: the blocks `U` do not overlap and make up `X`.  A call moves one block from one
such set to the other (`TilesAdd`, `TilesRemove`), which is why no page is lost or in two places.
`KmemInv` requires this of a group that is `intact`, and nothing but types of one that is not: when the lists have
been broken by a block of the tail (section 5) there is nothing left to be sound.
`TailBreaksOnly` says that this needs such a block; where the largest blocks fill the group,
there is none and the group stays intact.

*Buddies.*  `Good` adds to `Tiles` that each bit of `pg_map` tells whether just one of its two
buddies is free (`BitsOK`), and that no two are both free (`Joined`).  Neither says anything of the tail, where
the bits start wrong.  Splitting and joining flip one bit at one or two orders, and `SomeFlips` and
`BothFlip` say when the bits are right again.  In the middle of `__page_join` two buddies are both free,
at one order (`JoinedBut`); the code looks at the bit only, and `JoinListed` and `JoinNotListed`
show that the buddy it takes off the list was on it unless it is of the tail.  An order
has 2^order pages, so addresses are compared by divisions with a divisor that is not known: `BuddyCases`,
`BuddyFacts` and `IndexOfBuddies` say once what they are.  That `pagegroup_create` begins with a `Good`
group is an argument about the binary digits of the number of pages (`NextDigit`, `TailTiles`, `TopTiles`).

*Slabs.*  `SlabOK` says that the free list of a slab and what callers hold of it are all of its
objects, each once, and that `s_inuse` counts the latter.  Therefore a slab without objects, which
`slab_allocators_reclaim` gives back in the middle of growing another, is nobody's (`SlabFreed`,
`ReclaimAll`).  `CalcSlabSize` is about the search for the order that wastes least:
the slab it settles on has room for at least one object, and all of its objects fit (`SlabFits`).

*Loops.*  `Turns` says that the function behind `Iterate` does what each turn does (`LoopTurns`, as `npages`
is what its equation says, `PowerDef`); `RangeInduction` carries what is sound from turn to turn.

*Calls.*  `Outcome` says of each call that it leaves sound memory, or broke the lists with a block of
the tail, and hands out one thing, takes one back, or neither.

*Refinement.*  What is handed out is a set of bytes.  An object's bytes are within the
block of its slab (`BytesInBlock`), two objects of a slab are at least their size apart (`ObjectsApart`), and
blocks that differ share no page, so no byte (`PiecesApart`).

### Virtual terminals

`VtermProofs`, for any width and height of the display, any ring of two screens or more, any
terminals, characters and keyboard, with `VtermAssumption` (printable characters are not
control characters; function keys belong to terminals):

| theorem | states |
|---|---|
| `VtermInductive` | `VtermSpec => []VtermIInv`, the inductive invariant |
| `RingSound` | `VtermSpec => []VtermSound` |
| `ScreenFollows` | `VtermSpec => []ScreenIsShown` |
| `TextKept` | `VtermSpec => TextStays` |

The ring's operators are divisions by a width that is not known, so the first lemmas say what
`circ_dist`, `buf_add`, `next_row` and `RowOf` are in each turn of the ring (`Dist`, `Add`, `NextRow`,
`Row`), and that two starts of rows are a row apart or the same (`AlignedApart`).  With these the rest is
linear.  `CursorSteps`: going on, the cursor passes the start of no row.
Therefore it meets the tail if it would leave the text, and meets top if it comes from before the
screen; it is then off the screen, for the code, and the next character has it redrawn.  `Handled`
reduces `vt_handle_char` to two cases: the cursor moves in the text (`Moved`), or the ring
grows a row (`Grown`).  `MovedIsShown` and `GrownIsShown` show for each that the one character
written is all that a redraw would change.  `ScreenIsShown` is inductive with `VtermSound` and the types, but
only because `CursorFollowsTop` turns from false to true at a redraw alone.

### Model-checked only

All liveness properties, since TLAPS does not reason about fairness through ENABLED.
Of `Exec`, that it implements `PageMap`: the
theorems say that what is loaded is sound, not that it is the image that `ImageOf` defines.

## 5. Where code and documentation disagree

With a run that shows it:

1. `kmutex.c:89` (`kmutex_cancel`, `EINTRMeansNotHeld`).  A waiter that
   `kmutex_unlock` has already made the holder, and that is cancelled before it
   runs, returns -EINTR and holds the mutex.  `kmutex.h:55-56` says that
   with -EINTR the thread does not hold it.  Nobody unlocks it then.
2. `vnode.c:205` (`vnode_get`, `VnodeSleeperAwaited`).  `vget` clears VN_BUSY
   without waking those who sleep for it at line 142; they sleep on until the
   vnode is taken out.

Seen while modelling, and kept in the models as the code has them:

- `vfs_syscall.c:512` (`do_link`): the vnode is put before it is used, which the comments in `vput` do
  not reckon with.  `vnode.c:257-259` says of a vnode without names and users that "there is no way for it to become
  actively-referenced ever again", and at 278-280 "at this point, no matter what:" its assertions hold.  On a
  file system that blocks they need not: a thread in `do_link` has put the vnode; another removes the last name, and its `vput` waits for
  a page that `sync` writes out; the first adds its name; a third looks the name up and
  gets the vnode, which is not busy yet; the page is freed, and the assertion
  at `vnode.c:280` fails as the count is 2.  Without the third, the dirty pages that `vput` frees are missing from
  an inode that has a name again, and `sync` does not save them.  Line 513 reads `vn_mode` from a vnode that
  may be freed.  `Vnode` has all of this as the code has it; its properties
  leave out the inodes to which it happens (`revived`).
- `vfs_syscall.c:297-298`: `do_mknod` does not look at what `dir_namev` returns.  Its comment (283-288) promises
  ENOENT, ENOTDIR and ENAMETOOLONG; instead `lookup` is called with a directory that is NULL and fails
  `KASSERT(NULL != dir)` at `namev.c:45` (stop "dir").  Nor does it test the mode, for which the comment at
  278-280 promises EINVAL; `ramfs_mknod` panics for a mode it does not know (not in the model, where
  mknod makes devices).
- `namev.c:52`: `lookup` calls the directory's `lookup` without testing that there is one; `namev.c:38`
  says "If dir has no lookup(), return -ENOTDIR."  A path such as `b/a/b` with a regular file `b` calls NULL
  (stop "lookup"), where the comments of `do_open` and the other calls promise ENOTDIR.  `dir_namev` tests only
  the vnode that it ends at.
- `ramfs.c:433`: `rmdir("/")` reaches `KASSERT(namelen > 0)` with the empty name that `dir_namev` returns, as do
  unlink, mknod and link with "/" (stop "namelen"); the comments of these calls promise errors for every path they refuse.
- `ramfs.c:616-632`: `ramfs_write` at a position past the page copies a negative number of bytes (stop "memcpy").
- `vfs_syscall.c:114-156`: `do_write` takes O_APPEND for a permission to write, also on a directory, which
  `do_open` lets be opened so, and whose `write` is NULL (stop "write").
- `access.c:182`: `range_perm` looks at one address per page from the first byte on, and so may not look at the page of the
  last byte; the comment at 170 says that it "checks an entire range of addresses" (`ChecksAllButLast`
  states what it does check).
- `vmmap.c:477`: the second half of an area that is split is not put on its object's list, so that its
  page table entries stay when the page is dropped (`RemovedButForSplits`).
- `proc.c:493`: `do_waitpid(-1)` waits for the first child in the list, also when another
  is dead; the comment at 472-475 says that it blocks if all children are running.
- `vmmap.c:618`: `vmmap_write` leaves a read mapping of the old frame (`StaleOnlyByKernelWrite`).
- `kthread.c:183`: `kthread_exit` sets KT_EXITED before a clean-up that may sleep, although
  the comment at 160-163 says not to (the sleep and the wake-up set the state anew, and
  `proc_cleanup` sets it again).
- `_proc_getid` returns -1 when all pids are in use, and its caller does not test it;
  `proc.c:516` and `shadow.c:150` read from an object just freed; `fork.c` links the
  child's thread to its process twice (132, 170), which only MTP would notice.
- `vfs_syscall.c:551-565`: `do_rename` is `do_link`; the old name stays, although the comment
  says that it is unlinked.  O_TRUNC is accepted and ignored.  O_RDONLY with O_APPEND makes
  a file writable (`open.c:120-139`).
- `open.c:118`, `vfs_syscall.c:226`: -EMFILE is used as an index into `p_files`.
- `mmap.c:149`: when `vmmap_map` fails, the reference to the file is kept.  `do_mmap` does
  not test that the address is above USER_MEM_LOW, and `vmmap_map` returns -1, not an
  errno, when there is no room.  `do_munmap` accepts an address that is not aligned.
- `brk.c:89`: a break back to a page-aligned start removes the heap area, and the next
  `brk` dereferences NULL (a `Panic` of the model).
- `elf32.c:125`: the first page of a segment's zeros is not tested for another segment's
  pages, although overlapping segments are refused everywhere else; the zeros replace it.
- `page.c:92-97`: the blocks behind those of the largest order begin with bits of 0, which
  say that block and buddy are in the same state; when one of them is allocated and freed, it is
  joined with a buddy that is in use or outside the group (299-320).
- `page.c:210`: `num_retrys` is 0 without the shadow daemon, so that an allocation fails even
  after `slab_allocators_reclaim` has freed pages.
- `keyboard.c`: the scan codes 0xe0 and 0xe1 have the break bit, so that ESC_MASK is never
  set and escaped keys are not ignored as the comment says; function keys switch terminals
  without the Ctrl that the comment at 145 asks for.  `virtterm.c:268` says that the cursor is on
  the last row, which is not so after backspaces over the top of the screen.
- `virtterm.c:266`: when the text fills all but a screen of the ring, a cursor near the head can be before
  a top near the tail by so much that `circ_dist` finds it on the screen; the screen does not
  follow it, and characters are drawn at cells where a redraw shows nothing.  `ScreenIsShown`
  leaves out these states (`CursorFollowsTop`).
- `interrupt.c`, `intr_init`: the vectors 60, 70, 160 and 170 are set twice.

## 6. What is not modelled, and why

- Hardware set-up, the interrupt vector table and register contents: no decision of the
  kernel depends on them beyond what `Sched` has of IPL and halt.
- s5fs, the disk, tty and memory devices: prebuilt; the sources here are stubs.  Their use
  by the kernel is modelled (`Vnode`, `Sched`).  Pipes and the shadow daemon: not built.
- Page reclaim: nothing wakes the page-out daemon (`pframe.c:394-399`).
- Running out of memory inside fork and page faults: results are not tested
  (`fork.c:79` and on), so that there is no defined behaviour to model.
- Of the file system calls: `do_stat`, `do_getdent` and positions in directories, data sent to
  devices, and names longer than NAME_LEN (28 characters pass the test and are stored
  without their terminator).  `lookup_name`, `lookup_dirpath` and getcwd: not built.
- ELF loading: reading and refusing headers, the arguments on the stack, the registers.
- `vma_prot`, exit statuses, the shift keys: they decide nothing the properties tell apart.
- `vnode_flush_all` and unmounting: idle runs them alone at shut-down; what they find is
  `vfs_shutdown` in `FileTable`.
- Lists, strings, formatting, debugging output, kernel tests, the kernel's shell and the programs of
  user land (two thirds of the repository's lines): clients, or without state of their own.

## 7. What could come next

- Theorems: the refinement of `PageMap`, for which the lemmas about lists are there and those about the
  image of a program are missing.
- `do_getdent` with positions in directories that change while they are read.
- Files mapped into memory: `Vmmap` and `FileTable` share the vnode's count, and the
  reference kept at `mmap.c:149` would show.
