# A formal model of VirelaiOS

VirelaiOS (repository DipshitOS) is an AArch64 operating system: a freestanding
Zig kernel (`kernel/src`), a port of the Go runtime (`tools/go`), programs in Go
and Zig (`user`) and a Swift launcher (`host`). The kernel runs one core or
several. This project models the kernel where correctness depends on the order
in which cores and tasks act (the service-domain locks, the scheduler with its
blocking system calls, the life of a process), and the Go side: where the runtime
port parks and wakes, its file surface, the window manager and its clients, the
shell, and the programs that talk to the network or keep files.

| module | what it is |
|---|---|
| `SvcLock`, `MCSvcLock` | the lock domains of `svclock.zig` and every caller that brackets work with them |
| `SvcLockProofs` | type correctness, mutual exclusion and exact holder words; masks and lock order; for any number of cores |
| `Process`, `Scheduler`, `MCScheduler` | `process.zig`; with `scheduler.zig`, the blocking handlers of `syscall.zig`, exec and kill |
| `SchedulerProofs`, `SchedulerRegistryProofs`, `SchedulerWakeProofs` | rings, owners and pins; the registry and exec; no parked task is passed over; on any number of cores |
| `GoRuntime` | `semasleep`/`semawakeup`, the network poller, and its host-tested core `netpollsm` |
| `PosFile`, `FileShadow` | a positioned file as an abstract specification; the syscall overlay that implements it |
| `TabWm`, `TabWmProofs` | the window manager `gotabwm` with its session file; the desktop holds together for any windows and bounds |
| `WmRpc` | the WM_RPC protocol between the goroutines of a client and the seat |
| `GoLibProofs` | no wakeup of the port is lost, for any wakers and descriptors; the refinement, and complete directory reads, for any sizes; which acknowledgement WM_RPC accepts |
| `SetInduction` | induction over the numbers, and over the iterates of a function, stated for sets |
| `Shell`, `LineEdit` | GOSH: the engine with its session loop; the line editor with its history file |
| `TlsClient`, `Ssh` | the TLS 1.3 client with chain validation; the SSH client against the SSH server |
| `Browser`, `Rss`, `Git` | the browser; the feed reader; the git client and viewer |
| `Socket`, `NetTools` | the one TCP socket of a process over the kernel's one TCP machine; DNS, fetch, httpd and ping |
| `Files`, `Editors`, `Viewer`, `Calc` | file manager, the two editors, image viewer, calculator |
| `Settings`, `Term`, `Top` | settings file and panel, terminal front-end, task manager |
| `ProgramProofs` | what the file manager leaves on the share, what the calculator shows, who uses the socket, whom the TLS client talks to |
| `MCTabWm`, `MCShell`, ... , `MCRss`, `MCLocal` | small inputs of these for TLC (`MCLocal`: the local programs) |
| `MCGo` | one behaviour is one of the Go components, running in its environment |

## 1. Inventory

**Service-domain locks** (`svclock.zig`, `spinlock.zig`). State: per domain
(`file`, `net`, `win`, `ev`, `kernel`) a spinlock word, the holder core and the
interrupt mask saved per core. Operations: `acquire_set`, `acquire_missing`
(only what the caller does not hold yet), `try_take` (all or nothing),
`release_set`. Callers: `syscall.dispatch`, `monitor.exec`, the exit path, the
page-fault path, copy-out, the reaper, the shell idle loop, the timer tick. Hard:
nesting through several callers, roll-back of a partial `try_take`, a tick on a
core that is inside a domain. Correct when: one core per domain, holder words
exact, holders masked, canonical order, masks restored, locks released.

**Scheduler** (`scheduler.zig`). State: a fixed table of tasks, one ready ring
per core, `current` per core, pins, kill marks, wait records, the futex table.
Operations: tick, rotation, stealing, yield, sleep, wait, wait_event, futex wait
and wake, spawn, exit, kill conversion, reap, publish. It is called by the system
calls, the timer interrupt, the reschedule IPI and the event hook, and calls the
registry. It uses two locks (`sched_lock` for task records, ring locks for
rotation) plus the service domains during exits. Hard: a task is woken, stolen,
killed and preempted under different locks; a core keeps executing on a kernel
stack whose task it has given up; check-then-block. Correct when: no ready task
is lost or claimed twice, no wakeup is lost, pins hold, every exit completes.

**Process registry** (`process.zig`) and **exec** (`exec.zig`). State: per slot
the life-cycle state, primary task, threads, live count, exit request with its
status, owned pages. Operations: create (or recycle), bind, bind_thread,
request_process_exit, on_task_exit, release_pages_on_reap, reap. Hard: threads
leaving in any order, a descriptor recycled while its last task is a zombie, a
task built over two critical sections. Correct when: a running task has a running
process that owns its pages, counts are exact, the first exit request fixes the
status, pages come back.

**Events, timers, mailboxes, pipe** (`events.zig`, `app_timers.zig`,
`mailbox.zig`, `pipe.zig`): bounded FIFOs per process (drop-oldest for events,
refuse for mailboxes), a one-shot countdown per process, one shared byte buffer.
Hard: peek, copy-out, drop as three steps with a pusher in between; resets on pid
reuse. Correct when each is the FIFO it claims to be.

**Memory sharing** (`alloc.zig`, `shared_region.zig`, `shared_mmap.zig`): page
reference counts in a bounded table, grants of read-only mappings, revocation on
unmap and exit of either side. Correct when no page is freed while mapped.

**Files** (`file_table.zig`): eight handles per process, closed at exit and at
pid reuse. **Network** (`arp.zig`, `ipv4.zig`, `udp.zig`, `dhcp.zig`, `dns.zig`,
`tcp.zig`): one TCP connection with retransmission and abort, a DHCP lease with
renewal, rebinding and expiry, an ARP table of four slots. Hard: loss,
duplication, late answers. **Window server seat** (`wm_server.zig`): one
registrant, fallback when it dies.

**Go runtime port** (`tools/go/overlay`, `tools/netpollsm`). State: a count per M,
a table of descriptors with a break flag, per file handle a bounded shadow of its
bytes, a cursor and a position. Operations: `semasleep`, `semawakeup`, `netpoll`,
`netpollBreak`, open, close, wait, ready, drain; read, write, seek, truncate,
flush, directory reads. It stands on the futex, event and file system calls. Hard:
check-then-park, a break between snapshot and wait, a kernel cursor that cannot be
set, a directory window without an offset. Correct when no sleeper is forgotten
and a handle behaves like a file with a position.

**Desktop** (`user/go/gotabwm`, `vi/wmclient.go`, `vi/ipc.go`). State: the strip of
tabs with pins, split, navigation and reopen list; toasts; launcher; pointer
latches; the session file. Operations: nineteen kinds of input from clients, keys,
pointer and ticks. Clients call the seat through bounded mailboxes and wait for an
acknowledgement by sequence number. Hard: every change must keep focus, split,
toasts and file in step; late and foreign acknowledgements, two instances of one program. Correct when nothing
names a tab that is gone, panes fit, focus stays on its tab when the strip is
rearranged, and a restarted seat restores what was on the strip.

**Shell** (`user/go/shlib`, `user/go/sh`). State: loop flags, functions, variables,
jobs, pipe and redirect buffers; the editor's buffer, kill ring, search, menu and
history. Hard: flags that outlive their loop, jobs known by a recycled pid, the
order of ring and file. Correct when a prompt is clean, only dead jobs are
reported done, kills can be put back and history survives a restart.

**Network programs** (`tls`, `sshlib`, `ssh`, `sshd`, `browser`, `webrender/url.go`,
`rss`, `fetch`, `httpd`, `ping`, `vi/conn.go`, `vi/dns.go`, `git`). State: protocol
machines over one kernel connection, and files on the share (cache, cookies,
history, feeds, a repository). Hard: a stream cut anywhere, a peer that sends
anything, replies to requests given up, navigation over a load in flight, a crash
between two writes. Correct when data is authentic, whole and shown under its own
name, nothing https goes out in the clear, a clone reported OK is complete.

**Local programs** (`files`, `edit`, `note`, `view`, `calc`, `settings`, `goset`,
`term`, `top`). State: a model of the listing, a buffer, a view, two operands, a
table of settings, a session of the shell, a table of processes; the share. Hard: a failing step of a safe
write, a second program on the share, long key sequences, the ends of the integer
range. Correct when files hold whole bodies, "saved" is true, the caret is in view,
the picture fills the window, results are exact or refused, a settings file holds
what was set and what was there, the terminal is given back however the front-end
ends, and a kill hits the process that was aimed at.

**Not state machines of interest here**: desktop and text rendering, drivers,
page-table encoding, diagnostics, the stream cipher, boot, host launcher, programs
that only poll and draw. `PROJECT.json` lists every part with its reason.

## 2. Plan

1. `SvcLock` and its proofs: done. Everything else relies on these locks.
2. `Process` and `Scheduler`: done, with exec, threads, kills and reaping.
3. The Go side, from the bottom up: `GoRuntime` and its proofs, `FileShadow` as an
   implementation of `PosFile`, `TabWm` and `WmRpc`, `Shell` and `LineEdit`, the
   network programs, the local programs: done.
4. `EventQueue`: ring buffers of events and mailboxes with peek/copy-out/drop as
   separate steps and application timers, shown to implement an abstract FIFO.
5. `SharedPages`: reference counts, regions, munmap and exit teardown.
6. `Tcp` and `Dhcp`: each against a network that loses, duplicates and delays.
7. `WmSeat`, `FileTable`: life-cycle hooks of exit that `Scheduler` leaves out.
8. Proofs: the locks, the scheduler (rings, registry, wakeups), the Go port, `WmRpc`,
   `TabWm`, `Files`, `Calc`, `Socket` and `TlsClient`: done (section 8).

## 3. SvcLock

Variables `gate`, `holder`, `saved`, `masked` are the fields of `SvcLock` and the
DAIF bit of each core. `level` says what a core is executing (main context, a
syscall before and inside its handler, a monitor command before and inside its
handler, a page fault, a tick), `open` is its stack of brackets, and `step`,
`todo`, `part` are the position inside a lock helper. One step is one store or
compare-and-swap another core can see. `release_drop` clears the holder,
`release_unlock` opens the gate and restores the mask, in that order, from the
highest domain down. The compare-and-swap of `try_lock` is the weak form and may
fail spuriously. Brackets nest two deep in every caller that has something left
to take (`MaxDepth`).

## 4. Process and Scheduler

A task slot is a number; slot 0 is the shell, the last one core 0's idle reaper.
`ring[c]` is a set: a ring is always searched in slot order (`merged_next`), so
the set determines what is selected. A secondary core whose `current` is the idle
slot is parked in its WFE loop.

One step is one critical section (or one unlocked read that later sections rely
on), so a system call is several steps, named by `pc[c]`:

- `block`, `seat`: between the handler's check and the section that parks;
- `claim`: the task is parked, the successor not yet claimed;
- `convert`: the claimed task has a kill pending;
- `spin`, `zombie`, `registry`, `wake`, `open`, `unwind`: the exit path;
- `create`, `register`, `bind`, `publish`: exec; `kill`: the mark after the lookup;
- `contend`: a core spins for `sched_lock` with interrupts masked;
- `hook`: the event is queued, its waiters not yet scanned;
- `leave`: the exception return. `on[c]` is the task whose kernel stack the core
  executes on, and changes only there.

The service domains appear as `svc`, the core that holds all of them during an
exit, a conversion or a reap. Other handlers run without their domains, because
that is what the code does (section 7, first finding).

`sched_lock` is a plain spinlock and masks nothing (`sched_lock_acquire`). In an
exception the core is masked, so a section there is one step, enabled when the lock
is free; a task that meets it held goes to `contend` and takes no interrupt until it
has won. The shell runs its sections in main context (`MainSections`: the kill, the
registration and the publishing of a monitor command), so for it taking the lock is a
step of its own, and a tick may come between that step and the section: the tick of
core 0 then skips its timekeeping, rotates, and the shell is preempted as holder.

Choices and abstractions:

- The home of an unpinned woken task is any core: the code compares ring lengths
  it reads without a lock.
- A scan that wakes several tasks is one step. It runs under `sched_lock`.
- Ticks are relative: `left[t]` counts down to the deadline. A task that exec is
  building is blocked like a sleeper with a deadline of never, which is how the
  code hides it from `wake_expired`.
- The timer of core 0 can skip its timekeeping (a lock was taken) but always
  rotates. It interrupts programs, and the shell also between and inside the sections
  of a monitor command, because the command's handler runs unmasked; `cont` keeps the
  place where the shell continues. The shell's event hook and the reaper run masked
  (inside the service domains); the `shutdown` command's push outside them is left out.
- A process has one futex word with values 0 and 1; a program that sets it owes a
  wake (`due`). A program that took an event or a result goes on to any call.
- An event queue is its length, capped at `MaxEvents`; a full queue drops the
  oldest event, so the length stays.
- After two cores have met on one kernel stack the real machine has corrupted
  frames; the model goes on with clean ones. The two-core results about rings and
  ownership are about the bookkeeping, and hold only as far as that.
- Not modelled: the EL1h worker task, report rings and counters, the exit hooks
  for windows, shared memory, files and terminals, image loading before the
  process descriptor is created, and exit of a task that has no process.

## 5. The Go modules

Each module has one record variable (`desk`, `rpc`, `fh`, `sema`, `net`, `poller`,
`sh`, `ed`, `tls`, `ssh`, `web`, `fm`, `doc`, `vw`, `calc`, `git`, `sock`, `http`,
`dns`, `png`, `rss`, `panel`, `term`, `top`) whose fields are the program's variables, and what outside the
program they act on: the share, the kernel's slots, the wire. A function of the
code that changes state is an operator from state to state, or to the set of states
it may leave when a system call in it may fail; an event handler is an action. The
programs are single-threaded loops over events, so a handler is one step, except
where something else can act inside it: each goroutine's system call in `WmRpc` and
`Socket`, each load and store of `semasleep` and of the poller, each network step
of a load, each file published by a clone. Where a program may die between two
system calls of one handler, the set of states includes every prefix.

- `TabWm`. A system call on a window succeeds exactly while the window exists.
  `deskScript` fixes which inputs a behaviour uses, so that each combination of
  features is searched deeply instead of all of them shallowly; the scripts are in
  `MCTabWm`. Positions matter only along the divider's axis.
- `WmRpc`. The two ends of the mailboxes; the seat may be slow, full or gone, the
  process table may have rows without names, and foreign mail may appear. A second
  instance of the program may start (`twinStart`): the scan takes either row for its
  own (`SelfRows`), so this process may ask under the other's pid and wait in vain,
  and the other's requests may be answered into this inbox (`twinRequest`).
- `FileShadow` implements `PosFile` (`FileHandle == INSTANCE PosFile WITH ...`): the file is the
  shadow while it is not flushed and the device afterwards, behind what an open for
  appending found. Any call may fail. A handle whose push to the device failed half-way
  maps to `broken`, which promises nothing; so does one resized behind its shadow. The
  last call of Seek, Pread or Ftruncate is kept (`fhAsk`), so that the abstract file
  can say what its answer has to be. `O_RDONLY|O_APPEND` is not modelled.
- `Shell`. A line is its parse tree, so the parsers appear as the bounds they
  enforce. A pid is a slot index that is given to the next program once its process
  has exited, as in `process.zig`.
- `LineEdit` is fed one byte at a time, with the decoder's state. A write of the
  history file may be refused, or end after any part of it, and the read at the start
  stops at `maxHistoryBytes`. GOSH and GOTERM use one file; two at a time are not
  modelled.
- `TlsClient` has symbolic cryptography: keys are the label, secret and transcript
  they come from, a record opens only under the key and number that sealed it. The
  peer sends anything it can build, whole, cut in two or coalesced; the network adds
  alerts and records that nobody sealed.
- `Ssh` is the repository's client against its server, so the server sees only what
  that client sends (section 7). Packets have a length in units and a segment cuts
  them anywhere.
- `Browser`, `Rss`, `NetTools`, `Socket`: the network may fail in the middle of every call.
  A URL is a record, a body its length and origin. Under `Socket` is the kernel's one
  TCP machine: its states, whether it was opened passively and who owns it, moved by
  slots 30 and 33, by the peer, and by another process that takes it.
- `Files`, `Editors`, `Git` share the model of `vi.WriteFileSafe`: write the
  temporary, delete, rename, each of which may fail or be the last.
- `Viewer` and `Calc` keep the width of their integers as a parameter (`VwWord`,
  `HalfRange`) and wrap.
- `Git` hashes injectively: an object's id is the object. Deltas, variable-length
  numbers, stored and Huffman-coded blocks are checked against their inverses on
  bounded inputs inside the same run.

- `Settings`. A value is a name with a length, and some have blanks at an end, which
  is what the codec's caps and trims tell apart. A save is `vi.WriteFileSafe` from
  outside: the new file, the old one or none, with the return code or a crash.
- `Term`. A key is a piece of a line, and one pass of the loop feeds a whole read
  before it looks at `restart`. The engine is the action its line returns; `Shell`
  and `LineEdit` have the rest; `read VAR` takes the terminal's queue itself and forgets
  what follows the line in the same read (`ReadTTYLine`). `whole`, `fresh`, `ragged` and
  `torn` are history variables.
- `Top`. A pid is a registry slot, reused as in `process.zig`; `inst` tells apart the
  processes of one slot, `aim` is the one the highlight was put on, `items` the labels
  the list widget draws, which only a refresh rebuilds. The registry changes between
  any two events, and a timer may fire late.

`MCGo` composes them: the programs share no memory, and each module already has
the part of the system its program sees, so a behaviour is one of them and the
others rest: a component with one initial state rests there, the file manager on an
empty share, and the others have not started. Files are the only meeting point, and
there each module lets another program change the share.

## 6. Runs

| run | cores | question | states |
|---|---|---|---|
| `svclock` | 2 | exclusion, holder words, masks, order, release, deadlock | 0.3 M |
| `svclock_scope` | 2 | violated: a handler runs inside the domains of its system call | |
| `sched_up` | 1 | no exit or futex wake is missed, the first status wins; exits complete, pages return, sleeps end | UPN |
| `sched_smp` | 2 | rings, owners, pins, the registry, programs with their process; no parked task is passed over | SMPN |
| `sched_lost_exit` | 2 | violated: a waiter of `sys_wait` is woken by the exit | |
| `sched_exit_stalls` | 2 | violated: a requested exit completes | |
| `sched_wait_status` | 1 | violated: `sys_wait` returns the process' status | |
| `sched_stack` | 2 | violated: a kernel stack has one core on it | |
| `sched_seat` | 2 | violated: a futex waiter has its seat | |
| `sched_lock_starved` | 1 | violated: a preempted holder of `sched_lock` gets to release it | |
| `go_programs` | | the Go components, each over its failures and interleavings | GON |
| `ssh_stall` | | violated: the client never waits for a server that waits for it | |

Bounds. Two cores are the least on which the races exist, and every lock hand-over
involves two. Two program slots let a program wait for, wake, kill and outlive
another, and let a slot be reaped and reused; `sched_up` has three, so that a
process is created while another has two threads. Two process slots make the
registry full after one exec, so that descriptors are recycled. One pending event,
one tick of sleep and two futex seats tell apart empty and non-empty, expired and
pending, and colliding seats. A behaviour starts with one of the `Workloads` of its
run (`UpLoads`, `SmpLoads` in `MCScheduler`): the tasks there are, and the calls that
programs and shell use. All calls at once are out of reach; the workloads put together
those that act on one another, and between the runs every call is used.

The workloads of `sched_up` have no monitor command. With one, its three liveness
properties are false for the reason `sched_lock_starved` shows: the shell is preempted
inside the section of a `kill` or an `exec`, and the next program that enters the
kernel spins on the lock for ever with interrupts masked. So `ExitCompletes`,
`PagesReturn` and `SleepEnds` are about systems in which only programs act. `sched_smp`
has the monitor's kills and execs, with the ticks that interrupt them.

Fairness (`Fairness` in `Scheduler`). A core in the kernel executes its next section
when the lock is free: weak fairness; nothing is assumed about a core that spins, nor
about the shell while it is preempted. The timer interrupt stays pending while masked, so a core that
returns to EL0 again and again is interrupted: strong fairness of the tick. The
spin of an exit for the domains and the retry of a deferred conversion succeed
eventually, since holders release (`KernelReleased` in `SvcLock`); the idle task
reaps when it runs. Programs are not assumed to do anything. In `SvcLock` a core
executes its next instruction and a bracketed section ends; nothing is assumed
about who wins a contended gate. In `goSpec` only the poller is fair
(`WF_net(prog = "net" /\ pollerM)`): the Go scheduler calls `netpoll` for as long as a
goroutine is parked. Data that arrived stays until it is read.

Deadlock is not checked in `go_programs`: programs exit, and the bounds on keys,
calls and faults end the others.

What `go_programs` checks, and where it is stated:

| property | says |
|---|---|
| `DeskCoherent` | nothing names a tab that is gone; panes fit; the session file tracks the strip |
| `FocusStays` | a step that only rearranges the strip leaves the same tab focused |
| `AckMatches` | an accepted acknowledgement answers the caller's own request, unless a second instance of the program used that very sequence number |
| `ImplementsPosFile` | a handle refines the positioned file, over seeks, appends, chunks and refused calls |
| `DirComplete` | a directory read to its end gave every entry, or an error |
| `WakeupsArrive` | no semaphore wakeup is lost; a parked goroutine stays reachable and counted |
| `PollWakes` | again and again nobody is parked on a readable socket |
| `ShellSound` | a prompt has no loop flag (but of a `break` outside every loop), capture or source request left; a job reported done is dead |
| `LineEditorKeeps` | a chain of kills can be put back whole; a restart recalls what the session did, unless a failed write is not made good or the file is longer than one read; the terminal is unbound on every way out, closes on a repeated Ctrl-D only, and runs the lines that were typed, but for the first after a restart or a `read` |
| `TlsAuthentic` | application data only with an authentic peer, in order and once; no nonce twice |
| `SshKeeps` | both ends stay in step; output and status are the command's; the repository's client has it run only by the pinned host, after its key was accepted |
| `BrowserKeeps` | https never in the clear; bounded fetches; pages that declared a length whole (cleartext), and under their URL |
| `FilesSafe` | files but orphan temporaries hold whole bodies after any failure; open-with opens what was selected |
| `CalcSound` | `=` shows the exact result or ERROR |
| `OneSocket` | one user of the socket; the flag is set exactly then; a connection the process dialled and owns has somebody to close it |
| `LocalKeeps` | what an editor calls saved is on the share, the caret is in view, find and goto land right; a saved settings file reads back as it was set, a refused one is not touched; legal windows for any claimed size, and the picture fills the view; the selection and a kill stay on the process aimed at, the labels drawn are the table's but between a sort and a refresh, auto refresh goes on |
| `GitKeeps` | a clone reported OK is complete, but for names too long for a path; packs and codecs invert; clean means equal to HEAD |
| `NetToolsKeep` | whole bodies, where the server gave a length or closed; an address answers its name; no reply counted twice |
| `RssKeeps` | articles belong to the feed named; no https feed in the clear |

Bounds of the Go run. Tables have two or three entries, so that they fill, evict
and wrap; buffers hold two to four bytes or units, so that a message is cut in the
middle; strings of keys are three to six long where a key sequence is the hazard;
faults are limited to one or two, since each property has to survive every single
failure, and a second failure or crash meets the state the first one left. Two
goroutines, two dialers, two wakers are the least that race. Integers of five bits
(`Calc`) and twelve bits (`Viewer`) reach every overflow test with the code's own
constants scaled. The settings table holds six rows, so that the defaults and the
colour row overflow a file with unknown keys; a read of the terminal takes up to four keys,
which spans the end of a shell and the next line; three keys and two changes of the
registry are what a sort, a refresh and a kill around a recycled slot take.

## 7. What the code does not keep

Each of these is a run that TLC refutes, with the line it contradicts in
`PROJECT.json`.

- `svclock_scope`: the `defer` that releases a syscall's domains stands inside the
  `if` block that takes them and runs at the end of that block, so handlers run
  without the locks. `monitor.exec` has the same shape.
- `sched_lost_exit`: with two cores, a process that exits between the check and
  the block of `sys_wait` never wakes its waiter.
- `sched_exit_stalls`: a sibling that was running when its process was told to
  exit, and blocks before its next selection, keeps the process alive for ever.
- `sched_wait_status`: waiters get the status of the last task to die, or 0, not
  the one requested first. One core is enough.
- `sched_stack`: a task is claimable while its old core still executes on its
  kernel stack; and the reaper may free the stack of a task whose core is still
  leaving it.
- `sched_seat`: with two cores, two waiters pick the same seat of the futex table:
  `futex_wait_current` looks for one before it has `sched_lock` and does not look
  again, and the task that lost its seat is found neither by wakers nor by its
  deadline.
- `sched_lock_starved`: the shell is preempted inside the section of a monitor command;
  a program that enters the kernel then spins on `sched_lock` with interrupts masked.
  With one core nothing runs any more.
- `ssh_stall`: when the key-exchange reply and the server's NEWKEYS reach the
  client in one drain, `Feed` answers the first and leaves the second unread; the
  loop calls `Feed(nil)` only after an empty answer, so both ends wait until the
  client gives up.

Seen with the same model and left without a run of their own:

- A task in `sys_wait_event` can miss the push between its check and its block with
  two cores, as `sched_lost_exit` shows of `sys_wait`, and a futex wake with two cores
  can fall between the waiter's look at the word and its block. `WaitersHear` says that
  this step of the waiter itself is the only one at which a wake is missed.
- `ProgramAlive` fails with two cores when two threads call `sys_exec` together:
  both take the same registry slot, the second bind is refused and ignored, and
  its task runs without a process. `sched_smp` therefore execs from the monitor
  only.
- The same happens on one core between the monitor and a program: the shell's `exec`
  is preempted between its scan for a slot and `create_as`, a program's `sys_exec`
  takes that slot, and the shell's fills it again; a task that waits for the program
  of the slot then waits for ever (`NoMissedExit`). Hence the hypothesis `ScanHolds`
  of section 8.
- A task that pins itself to core 0 (`wmctl` register) while it runs on a
  secondary core is preempted onto that core's ring, where core 0 may not take it
  (`steal_eligible`), although `pin_task` says that the next preemption places it.
- `create_as` says it recycles the oldest exited process; it takes the lowest slot.
- The reaper takes the lowest zombie, one per idle pass, so with continuous thread
  churn in a low slot a higher zombie, and its process' pages, can wait for ever.

The Go programs, described as the modules have them and without a run:

- Runtime port. Paths and small writes pass through package-level staging arrays
  without a lock. A flush that failed half-way starts over and repeats bytes. A
  truncation after a flush leaves shadow and cursor as they were. `Pread` answers end
  of file inside the file for an offset past the retained shadow (`fs_virelai.go`
  297-299), where the comment at 101-105 says that such a request is refused. A
  writer's reads are empty once they leave the shadow, its `SEEK_END` after a sync is
  the end of the shadow, and a staged `Ftruncate` never extends and counts from where
  an append began. `PosFile` names these answers one by one. `resolvePath`
  collapses slashes and keeps `..`. `sm.go`: `Shutdown` wakes nobody.
- WM_RPC. After 248 refused sends the 8-bit sequence may meet an old
  acknowledgement (`CallsFitSequence` excludes it). `WmPeers` takes the first running
  row of the program's name for itself (`ipc.go:189`): of two instances one sends the
  other's pid, its acknowledgements go to the other's inbox, and since both counters
  start at 1 they can be accepted there as answers to a request of that process, although
  `waitWmRpcAck` says that replies of another requester are discarded (`wmclient.go`
  166-169). `AckMatches` leaves out exactly an equal sequence number. Two goroutines of one client
  drop each other's acknowledgements: each then times out.
- Window manager. Pinning while split re-partitions without moving the windows;
  retitling on attach is not written to the session file; the tab of a dead
  program and a restored placeholder cannot be closed by the user.
- Shell. A job whose slot was recycled is reported with the other program's status.
  `break` outside a loop sets a flag that the next loop clears. The history file is
  only bounded within one session: several short ones append past `maxHistoryBytes`,
  and the next start recalls the oldest lines that fit one read, where the comments
  (`history.go` 26-29 and 63-64) say that a larger file is refused and that the oldest
  lines are dropped. A rewrite empties the file first, and a failure or a kill in it
  loses what was not yet written.
- TLS. `KeyUpdate` is ignored, so what follows it does not open; an empty
  application record reads as `(0, nil)`.
- SSH. No handler of the server looks whether the client is authenticated: a channel
  is opened and a command run when the messages say so (`server.go` 453-456, 589-615,
  617-669), where `sshd/main.go` 4 says that it authenticates. `SshFaithful` is about the
  repository's client, which never asks before its key is accepted. Output past the window is dropped and the status still reported.
- Network tools. A refused close keeps the socket held for ever. Without a
  Content-Length a timeout ends a body as a close would, and the part that came is reported and saved
  as a success, although `fetch/legacy.go` 43-46 and 53-55 say that a timeout or a dark
  peer fails closed. Close of a connection that was accepted leaves the kernel's machine
  listening, half open or established in this process' name, and the next Dial is
  refused, although `conn.go` 131-134 says that Close releases the socket for it; when
  the FIN of a dialled connection cannot be sent the connection stays established with
  no owner. A reply that comes after
  its request was given up counts for the next one. `DnsFresh` and `FetchExact`
  are stated around these cases.
- Browser. A navigation to a file during a load lets the old response finish under
  the new target; `BrowserKeeps` leaves out behaviours with such a race. An old
  socket is not closed. Over TLS the body is what was read before the connection ended,
  whatever length was declared (`readTLSConn`), and it is shown and stored: `WholePages`
  is about cleartext pages.
- Files. After `d` a click moves the cursor, and `y` deletes the row under it.
- Editors. A file larger than the buffer is loaded cut, and a save loses its tail.
  A read error other than absence gives an empty buffer that a save writes. The
  header says that find does not wrap, and it does.
- RSS. A reload that shortens the list leaves the cursor beyond its end, and the
  next key panics; `RssKeeps` holds up to that panic. Ctrl-C at the prompt does not
  quit.
- Git. A branch outside `refs/heads` leaves HEAD dangling after "gotgit OK";
  `CloneComplete` is about branches there. A file whose path is longer than
  `JoinPath` allows is skipped without a word (`git/main.go` 258-261) and the clone is
  still reported OK. The checkout does not descend into
  subtrees.
- Calculator. The published expression of "5 = 3 =" is "3=53".
- Settings. A typed value longer than `MaxVal`, rows past `MaxKeys` and a body past
  `MaxBody` are saved and reported, and dropped or refused at the next load; a read
  that is refused counts as a missing file, and a save then drops the rows of unknown
  keys; comments and the blank at the end of the default prompt are lost; a
  `settings set` made meanwhile is overwritten. `SettingsSafe` says which of these it
  leaves out (`RoundTrips`, `foreign`).
- Terminal. Lines typed in the same read as `exit` run in the shell that has just
  ended, and of a line begun there only the end reaches the new session and runs as a
  command; a first Ctrl-D typed there is forgotten. `read VAR` forgets what follows its line in
  the same read, and a close of the window is not seen while it waits. `term_restart` takes the first row
  of its key, the settings codec the last.
- Task manager. A sort or a click on a header reorders the table and moves the
  highlight, and the labels stay as they were until the next refresh (`rebuildItems` is
  called by `refreshAll` only): until then the row highlighted is not the one that `k`
  kills, and a click selects another row than the one under it. `TopAims` says what
  holds: a kill hits the process selected, and labels and table agree except after a
  sort. When a slot is recycled the highlight passes to the new process, be
  it a seat, although the comment at `defaultAim` says the default aim is "never the
  seat hosting its window"; `k` on the network tab kills a row that is not shown.
  `TopAims` ends where a slot is recycled.

## 8. Proofs

Everything here is proved for every value of the constants that satisfies the
named assumptions, which TLC evaluates on every run: `CoresAssumption`,
`SchedulerAssumption` and `ProcessAssumption` (core 0 exists, the markers for "no
core" and "no task" are none, bounds are numbers, statuses are what the calls can
give), `FileAssumption` (bytes and sizes are numbers, a window holds a row), `FdsFinite`, `WakesBounded`,
`CallsFitSequence` (fewer calls than sequence numbers; see section 7), for the desktop
`WindowIds` (a window id is below the ids of restored tabs), `PanesPossible` (the
scanout holds two panes and the divider), `DeskBounds`, `CatalogWords` and
`ScriptsWellFormed`, for the file manager `PasteCap` and `SharesWhole` (it is started on
shares whose files are whole), for the calculator `CalcRange` and `CalcKeys` (a digit
key is an integer of the engine), `SockBounds`, and `PathBound` for TLS. One more is a hypothesis of three theorems,
because the code is not correct without it:

- `ScanHolds`: when `create_as` fills the slot its scan found some sections earlier, the
  slot is still unused. It is a condition on states, and excludes only the collision of
  two execs that found the same slot (section 7); execs on several cores and in the
  preempted shell may overlap in every other way.

| theorem | states | under |
|---|---|---|
| `SvcLockProofs`: `TypeCorrect`, `Exclusion`, `HolderWordsExact` | `TypeOK`, `MutualExclusion`, `HolderExact` | any cores |
| `SvcLockProofs`: `HoldersMasked`, `OrderKept`, `MaskRestored` | `HolderMasked`, `CanonicalOrder`, `IrqRestored` | any cores |
| `SchedulerProofs`: `TypeCorrect`, `RingsKept`, `OwnersSingle`, `PinsKept`, `FirstRequestKept` | `TypeOK`, `RingsExact`, `SingleOwner`, `PinRespected`, the action property `FirstRequestWins` | any cores, tasks, processes |
| `SchedulerRegistryProofs`: `LiveTasksKept`, `ProgramsAlive` | `LiveTasksExact`, `ProgramAlive` | any cores; `[]ScanHolds` |
| `SchedulerWakeProofs`: `WaitersHeard` | the action property `WaitersHear` | any cores; `[]ScanHolds` |
| `GoLibProofs`: `RuntimeWakeups` | `WakeupsArrive` | any wakers, descriptors |
| `GoLibProofs`: `AcksMatch` | `AckMatches` | one turn of the sequence counter, a second instance included |
| `GoLibProofs`: `DirDelivered`, `FileRefinement` | `DirComplete`, the refinement `ImplementsPosFile` | any sizes |
| `TabWmProofs`: `DeskIsCoherent`, `FocusStaysOnTab` | `DeskCoherent`, the action property `FocusStays` | any windows, scripts, bounds |
| `ProgramProofs`: `ShareStaysWhole` | `FilesSafe` | any shares, names, sizes |
| `ProgramProofs`: `CalculatorExact` | `CalcSound` | any word width |
| `ProgramProofs`: `OneConnection` | `OneSocket` | any goroutines |
| `ProgramProofs`: `DataAuthentic` | `TlsAuthentic` | any servers, chains, stores, bounds |

**SvcLockProofs.** Mutual exclusion is not inductive: a core may be between the
compare-and-swap and the holder write, or between the holder clear and the gate
store. `IndInv` adds, per core, the shape of the helper state (`HelperShape`), that
the open brackets and the helper's own domains do not overlap (`BracketsDisjoint`),
what the holder words say at each point of a helper (`HolderWord`), that every gate
the core stands behind is closed (`GateClosed`), and across cores that nobody stands
behind the same gate (`LockedDisjoint`). `CoreFrame` reduces a step of one core to
that core's part plus three frame conditions; there is one lemma per step, and
`NextKeeps` collects them. The step that needs the invariant most is
`MissingDisjoint`: a nested `acquire_missing` is safe because exact holder words
make it ask only for domains the core does not hold.

**SvcLockProofs, masks.** On top of `IndInv`, `MaskInv` says when a core is masked
(`MaskExact`: in an exception, inside a domain, or in a blocking helper past its
first store) and what every saved mask means: the one saved with a domain says
whether the core was masked before that domain, which is the case in an exception,
inside an outer bracket, or after a lower domain of the same helper (`SavedOuter`,
`SavedInner`, `SavedPart`, `SavedFirst`). So only the lowest domain of the outermost
bracket carries the caller's mask, and releasing from the highest down restores it.
`Ascending`, `OutermostSpins` and `TryInException` give the order: a helper that
waits for a gate has no bracket open around it and goes up; nested brackets find
nothing missing or only try.

**SchedulerProofs.** `TypeInv` is the type invariant with the operands each section
needs (`OpFits`) and that a running process has a live task. `RunInv` says that a
task is on one ring, or owned by one core, or neither and then not ready (`Members`,
`Apart`, `NoneLost`); that rings and owners respect pins; that shell and idle task
never block, end or are killed; and that a section which blocks or ends a task works
on the task its own core owns (`OwnOperand`). The parts are operators of any states,
rings and owners, because a rotation passes through a state of its own: the lemmas
about putting a task on a ring, taking one off and handing one over are stated once
and used by wakes, steals, preemption, kills, exits and publishing.

**SchedulerRegistryProofs.** `LifeInv` follows an exec and an exit through their
sections. The slot an exec scanned is still as it was when it is filled, and the task
it builds is sealed: blocked out of reach of every wakeup, and of no process
(`ExecFits`, `Sealed`); execs in flight, the one the shell was preempted in among them,
work on different slots once they have filled them (`ExecSole`, `Distinct`). Exits and reaps hold the service domains
(`SvcHeld`). A free slot is of no process, a live task of exactly one, a zombie
of one only until its core has passed `on_task_exit` (`Registered`), and
`live_tasks` is the number of those tasks (`LiveCount`).

**SchedulerWakeProofs.** `WaitersHear` is about single steps: a task that is blocked and
can still hear of what it waits for can do so after the step. Each of the three kinds of
waiting has its own argument (`EventsHear`, `ExitsHear`, `WakesHear`): a queue becomes
non-empty only with the hook as the pusher's next section, a process ends only with
`wake_waiters` next, a word changes only together with the debt of the task that changed
it; and the hook, `wake_waiters` and the wake take every task they owe. What is missing
is that a debt does not vanish with its debtor: a task that leaves the registry while
siblings stay owes no wake (`Paid`), since only a process exit, which kills the siblings
too, ends a task between its store and its wake. `LifeInv` supplies that a live task is
of one process, and that its process is not recycled under it.

**GoLibProofs, parking.** `semaSpec /\ pollerSpec => []WakeupsArrive`. For the semaphore
the invariant is `NoLostWakeup` with its types: it is inductive because the kernel
compares the word and parks in one step, which the futex of `Scheduler` does under
its lock (`NoMissedWake`). For the poller the claim that the waiter count is not
below the goroutines asleep is not inductive, since `Drain` subtracts the ready
descriptors as well: `PollerInv` says that the count covers every descriptor that is
waiting or ready, that those are open, and that a goroutine is asleep exactly while
its descriptor's word says `wait`. `FdSets` supplies that the sets are finite.

**GoLibProofs, WM_RPC.** `RpcInv`: the counter has not come round (`NoWrap` counts the calls
that are still to take a number), calls in flight have distinct numbers, a frame
whose number a caller waits for belongs to that caller's call or to the second
instance, which has used that number (`Tagged`), a request in the seat's ring has not
been answered, and the inbox holds only strays and what the seat said. An acknowledgement that is accepted is then the one of its call.

**GoLibProofs, files.** `FileInv`: a reader's shadow is a prefix of the device file,
no longer than the cursor, and the cursor is inside the file; before its flush a
writer has pushed nothing; after it the cursor is the end of the file, of which the
shadow is a prefix. With it each operation of the handle is one step of `PosFile` or
a stutter. `PosFile` has the call and its operand (`ask`), so a seek must go where it was
told and a positioned read must answer for its offset; what an append found is a
variable of its own and no step but a resize changes it. `DirInv` does the same for the one window a directory read gets.

**TabWmProofs.** `Good(d)`, a predicate of one value of `desk`, so that each operation
is shown once to preserve it, whichever action calls it. The parts of `DeskCoherent`
are not inductive. `StripOK` adds that the strip is within its array, ids are
distinct, the focus is on a tab and a split has two tabs; `FileOK` that a session file
has no more rows than the strip has room for, so that a restored strip is within its
array; `Targets` and `Tracks` are the two parts of `DeskCoherent` about pending mail
and about the file. Inside a handler `Tracks` may be false: the strip is changed first
and the file written at the end. `Sound` is what holds in between, and the lemmas
distinguish operations that leave the strip as it is (`Same`), that leave every tab
where it was with its badges (`Mild`), and that end with everything kept (`Keeps`).
`StepOK` is what every action shows: `Good` after it, and `FocusKept` for the action
property. Rearranging is the hard case: a pin or a drag permutes the tabs, and the
focused index is recomputed by a search. Demo mode drives the same operations by
script and promises neither the file nor the focus (`InDemo`). The handlers that loop
are recursive functions; what they return is shown to stay in the set of sound
desktops by an induction stated for sets, which needs no operator as a parameter
(`SetInduction`): `LeastNatural` takes the least element of a set of numbers, from the
well-foundedness theorem of the library, `IteratesExist` shows that a function given by
its iteration exists, and `IteratesIn` carries a set through any number of iterations.

**ProgramProofs, file manager.** `FmOK`: the record has its fields, every file of the
share is whole or an orphan temporary (`WholeShare`), and while the Open-with list is
up its path is the one it was opened for. Most of the work is that each prefix of
`vi.WriteFileSafe`, of a copy and of a move, cut at any call, leaves a whole share.

**ProgramProofs, calculator.** `add64`, `sub64`, `mul64` and the division are shown to
give the exact integer when it is one of the engine's, and a refusal when it is not,
with one exception: the test `c / a != b` of `mul64` does not see the overflow of
-1 times the least integer, because the division wraps as well. The invariant
`NoBlindProduct` says that this product is never asked for: the least integer cannot
be typed, so it is the right operand of a product only when it was the left one too.

**ProgramProofs, socket.** That two Conns are never open is not inductive, since the
flag is claimed several steps before a Conn exists and given back one step after it is
gone. `SockOK`: at most one goroutine is past its claim, the flag is set exactly while
one is, a dialled connection that the process owns implies the flag, and a claim that has
not reached the kernel, or a close that has left it, finds none there. The kernel's
machine may be anything else at that time: a listener or a server's connection that a
close left to this process, or another process' connection.

**ProgramProofs, TLS.** `TlsOK(t)`, a predicate of the connection. First the chain: the
path `buildPath` makes, one certificate at a time and never taken back, starts at the
leaf, goes over presented certificates and ends in a root when it is anchored
(`Climbs`, by `SetInduction`, since the path is a recursive function), so a chain that
passes `validateChain` is one of the paths `Trusted` quantifies over (`ChainTrusted`).
While the client shakes hands (`HsOK`), every message under way that signs was signed
with a key the peer holds, and the last unit of every Finished covers something the
peer has said and that is followed by it there (`UnitOK`), also when the message was
cut in two or coalesced with the next; so a client that accepts a Finished has heard a
prefix of what the peer said (`Agrees`), and whoever passed CertificateVerify is the
holder of the leaf's key. Once the connection is up (`UpOK`) there is a function from
record numbers to the bytes sealed before that record, every record under the
application key lies where it says, and what was delivered and what is pending are the
bytes before the next record to open (`DataOK`). `NonceOK`: the numbers used under the
current write key are below the next one; the keys of the two phases differ in label,
so the resets of the counter are safe. In-flight records are treated as a set: the
argument does not depend on the order in which they arrive.

Only model-checked, and why:

- liveness (`KernelReleased`, `ExitCompletes`, `PagesReturn`, `SleepEnds`,
  `PollWakes`): fairness is outside what the prover handles;
- `NoMissedExit` and `NoMissedWake` on one core: they hold there because nothing can
  come between the check and the block, and fail on two; `WaitersHear` is the part that
  holds on any number;
- `ShellSound`, `NetToolsKeep` and the `Keeps` properties of `MCGo`: most of their
  modules parse or compute with recursive operators or bit operations that the provers
  do not take, and several are about what a recursive definition computes on concrete
  inputs.

## 9. Not modelled

Kernel: mailboxes, pipe, shared memory, file handles, the segments and timers of TCP,
DHCP and the other protocols, the window server seat (planned); rendering, drivers, page tables,
diagnostics (no protocol of their own). Go: painting and layout, image and XML and
HTML decoding (their accepted result is an input), cryptographic primitives (ideal),
programs that only poll and draw (`pulse`, `netstat`, `traceroute`, `help`),
self tests. The Zig programs under `user` are small tests of single system calls.
