------------------------------ MODULE Scheduler ------------------------------
(***************************************************************************)
(* The scheduler of kernel/src/scheduler.zig: per-core ready rings, the    *)
(* timer rotation with work stealing, blocking syscalls and their wakers,  *)
(* the exit path with its kill conversions, and the reaper.                *)
(*                                                                         *)
(* One step is one critical section of the code: a sched_lock section, a   *)
(* ring-lock (rotation) section, or a read outside both.  A syscall that   *)
(* blocks is therefore several steps: the check, the block, the claim of a *)
(* successor, the unwind on the old kernel stack, the exception return.    *)
(***************************************************************************)
EXTENDS Process, FiniteSetsExt

CONSTANTS
  Cores,       \* the online cores, core 0 is the boot core
  NoCore,      \* nobody
  idle_id,     \* the last task slot, core 0's idle task
  Workloads,   \* what a behaviour starts with: tasks[p] are the tasks of process
               \* p, calls the operations that its programs and the shell use
  InitPin,     \* InitPin[t]: the core t is pinned to, 0 when unpinned
  Killed,      \* reserved_kill_status
  CpuLimit,    \* reserved_cpu_limit_status
  ExitCodes,   \* the statuses programs and faults exit with
  futex_max,   \* seats in the futex table
  MaxTicks,    \* the longest sleep or futex timeout, in ticks
  MaxEvents    \* the event queue depth that is told apart

shell == 0
UserTasks == Tasks \ {shell, idle_id}
Seats == 1..futex_max
CallNames == {"yield", "sleep", "wait", "event", "push", "timer", "futex",
              "thread", "exit", "kill", "sys_kill", "cpu", "wm", "exec", "sys_exec"}

ASSUME SchedulerAssumption ==
  /\ Cores \subseteq Nat /\ 0 \in Cores /\ NoCore \notin Cores
  /\ Tasks = 0..idle_id /\ idle_id \in Nat \ {0}
  /\ Workloads \subseteq [tasks : [Procs -> SUBSET UserTasks], calls : SUBSET CallNames]
  /\ \A w \in Workloads : \A p, q \in Procs :
       p # q => w.tasks[p] \cap w.tasks[q] = {}
  /\ InitPin \in [Tasks -> Cores]
  /\ InitPin[shell] = 0 /\ InitPin[idle_id] = 0
  /\ {Killed, CpuLimit} \cup ExitCodes \subseteq Statuses
  /\ futex_max \in Nat /\ MaxTicks \in Nat /\ MaxEvents \in Nat

VARIABLES
  state,       \* state[t]: free, ready, running, blocked or zombie
  ring,        \* ring[c]: the ready ring of core c (kept in slot order)
  current,     \* current[c]: the task core c runs or has claimed
  pin_core,    \* pin_core[t]: the only secondary core t may run on, 0 for none
  secondary_ok,\* the tasks that may run on a core other than 0
  kill,        \* kill[t]: kill_pending
  kill_status, \* kill_status[t]: kill_pending_status
  teardown,    \* teardown[t]: teardown_pending
  wait,        \* wait[t]: what a blocked task waits for
  target,      \* target[t]: the process a sys_wait or sys_wait_event is on
  left,        \* left[t]: ticks until wakeup_tick, MaxTicks + 1 for never
  redo,        \* redo[t]: the saved PC restarts sys_wait_event
  x0,          \* x0[t]: the result of sys_wait in the saved frame
  seat,        \* seat[k]: the task in futex table entry k
  word,        \* word[p]: the user's futex word
  due,         \* due[t]: t changed the word and has not called wake yet
  queue,       \* queue[p]: pending events of p
  svc,         \* the core holding the service domains of an exit or a reap
  pc,          \* pc[c]: the next section core c enters
  on,          \* on[c]: the task on whose kernel stack core c executes
  op,          \* op[c]: the operands of the operation in progress
  cont,        \* where the preempted shell is inside a monitor command
  sched_lock,  \* the shell while it is inside a section, in main context
  calls        \* the operations used in this behaviour

runVars  == <<state, ring, current>>
pinVars  == <<pin_core, secondary_ok>>
killVars == <<kill, kill_status>>
waitVars == <<wait, target, left, redo, x0>>
userVars == <<seat, word, due, queue>>
coreVars == <<svc, pc, on, op, cont>>
lockVars == <<sched_lock, calls>>
vars     == <<procVars, runVars, pinVars, killVars, teardown, waitVars, userVars,
              coreVars, lockVars>>

Never == MaxTicks + 1
Op(t, call, val, ticks) ==
  [task |-> t, call |-> call, val |-> val, ticks |-> ticks, pid |-> 0,
   late |-> call = "wait"]
NoOp == Op(NoTask, "none", 0, 0)
Fresh == [pc |-> "user", op |-> NoOp]

States == {"free", "ready", "running", "blocked", "zombie"}
Waits  == {"none", "sleep", "pid", "event", "futex"}
PCs    == {"user", "rotate", "block", "seat", "claim", "convert", "spin",
           "zombie", "registry", "wake", "open", "unwind", "leave", "hook",
           "kill", "reap", "create", "register", "bind", "publish", "contend"}

Start(w) ==
  LET InitTasks == w.tasks
      InitUsers == UNION {InitTasks[p] : p \in Procs} IN
  /\ pstate = [p \in Procs |-> IF InitTasks[p] = {} THEN "free" ELSE "running"]
  /\ task_id = [p \in Procs |-> IF InitTasks[p] = {} THEN NoTask ELSE Min(InitTasks[p])]
  /\ thread_tasks = [p \in Procs |-> InitTasks[p] \ {task_id[p]}]
  /\ live_tasks = [p \in Procs |-> Cardinality(InitTasks[p])]
  /\ exit_requested = [p \in Procs |-> FALSE]
  /\ snapshot = [p \in Procs |-> 0]
  /\ exit_status = [p \in Procs |-> 0]
  /\ pages = [p \in Procs |-> InitTasks[p] # {}]
  /\ state = [t \in Tasks |-> IF t \in InitUsers \cup {shell, idle_id}
                                THEN "ready" ELSE "free"]
  /\ ring = [c \in Cores |-> {t \in InitUsers : InitPin[t] = c}
                             \cup (IF c = 0 THEN {idle_id} ELSE {})]
  /\ current = [c \in Cores |-> IF c = 0 THEN shell ELSE idle_id]
  /\ pin_core = InitPin
  /\ secondary_ok = UserTasks
  /\ kill_status = [t \in Tasks |-> Killed]
  /\ kill = [t \in Tasks |-> FALSE]
  /\ teardown = [t \in Tasks |-> FALSE]
  /\ wait = [t \in Tasks |-> "none"]
  /\ target = [t \in Tasks |-> NoTask]
  /\ left = [t \in Tasks |-> Never]
  /\ redo = [t \in Tasks |-> FALSE]
  /\ x0 = [t \in Tasks |-> 0]
  /\ seat = [k \in Seats |-> NoTask]
  /\ word = [p \in Procs |-> 0]
  /\ due = [t \in Tasks |-> FALSE]
  /\ queue = [p \in Procs |-> 0]
  /\ svc = NoCore
  /\ pc = [c \in Cores |-> "user"]
  /\ on = [c \in Cores |-> IF c = 0 THEN shell ELSE NoTask]
  /\ op = [c \in Cores |-> NoOp]
  /\ cont = Fresh
  /\ sched_lock = NoTask
  /\ calls = w.calls

Init == \E w \in Workloads : Start(w)

Goto(c, label) == pc' = [pc EXCEPT ![c] = label]

(***************************************************************************)
(* sched_lock is a plain spinlock that masks nothing.  In an exception the *)
(* core is masked, so a section is one step and needs the lock free.  The  *)
(* shell runs its sections in main context, where the tick may come after  *)
(* it has taken the lock: taking it is a step of its own.                  *)
(***************************************************************************)
MainSections == {"register", "publish", "kill"}

sched_lock_acquire(c) ==
  /\ current[c] = shell /\ pc[c] \in MainSections
  /\ sched_lock = NoTask /\ sched_lock' = shell
  /\ UNCHANGED <<procVars, runVars, pinVars, killVars, teardown, waitVars, userVars,
                 coreVars, calls>>

Holding(c) == IF current[c] = shell /\ pc[c] \in MainSections THEN shell ELSE NoTask
Locked(c) == sched_lock = Holding(c) /\ sched_lock' = NoTask /\ UNCHANGED calls

(***************************************************************************)
(* Ready rings.  The wake target of an unpinned task is the least loaded   *)
(* core by unlocked, possibly stale reads: any online core.                *)
(***************************************************************************)
home_ring_of(t) ==
  IF pin_core[t] # 0 THEN {pin_core[t]}
  ELSE IF t \in secondary_ok THEN Cores ELSE {0}

(***************************************************************************)
(* push_home_locked for every task of W, on top of the state function st.  *)
(***************************************************************************)
wake_without_push(W, st) ==
  /\ state' = [t \in Tasks |-> IF t \in W THEN "ready" ELSE st[t]]
  /\ UNCHANGED ring

push_home_locked(W, st) ==
  /\ state' = [t \in Tasks |-> IF t \in W THEN "ready" ELSE st[t]]
  /\ \E home \in [W -> Cores] :
       /\ \A t \in W : home[t] \in home_ring_of(t)
       /\ ring' = [c \in Cores |-> ring[c] \cup {t \in W : home[t] = c}]

ring_remove_anywhere(t) == [c \in Cores |-> ring[c] \ {t}]

steal_pinned_too(c, t) == t \notin {shell, idle_id} /\ t \in secondary_ok

steal_eligible(c, t) ==
  /\ t \notin {shell, idle_id}
  /\ t \in secondary_ok
  /\ pin_core[t] \in {0, c}

(***************************************************************************)
(* merged_next: the next slot after `after` in cyclic slot order among the *)
(* core's own ring and what it may steal.                                  *)
(***************************************************************************)
Eligible(c, rings) ==
  rings[c] \cup {t \in UNION {rings[r] : r \in Cores \ {c}} : steal_eligible(c, t)}

merged_next(c, after, rings) ==
  LET E == Eligible(c, rings)
      later == {t \in E : t > after}
  IN  IF E = {} THEN NoTask ELSE IF later = {} THEN Min(E) ELSE Min(later)

(***************************************************************************)
(* ring_claim and stage_selected: removal from the rings is the claim.  A  *)
(* task with a pending kill is claimed but not staged.  A secondary core   *)
(* with nothing to run parks on its WFE loop.                              *)
(***************************************************************************)
claim_keep(c, after, rings, st, done) ==
  LET next == merged_next(c, after, rings) IN
    /\ next # NoTask
    /\ ring' = rings
    /\ current' = [current EXCEPT ![c] = next]
    /\ IF kill[next]
         THEN state' = st /\ Goto(c, "convert")
         ELSE state' = [st EXCEPT ![next] = "running"] /\ Goto(c, done)

ClaimAndStage(c, after, rings, st, done) ==
  LET next == merged_next(c, after, rings) IN
    IF next = NoTask
      THEN /\ c # 0
           /\ ring' = rings
           /\ state' = st
           /\ current' = [current EXCEPT ![c] = idle_id]
           /\ Goto(c, done)
      ELSE /\ ring' = [r \in Cores |-> rings[r] \ {next}]
           /\ current' = [current EXCEPT ![c] = next]
           /\ IF kill[next]
                THEN state' = st /\ Goto(c, "convert")
                ELSE state' = [st EXCEPT ![next] = "running"] /\ Goto(c, done)

Done(c) == IF svc = c THEN "unwind" ELSE "leave"

(***************************************************************************)
(* switch_context: the preempted or yielding task goes back on its core's  *)
(* own ring and a successor is claimed, in one rotation section.           *)
(***************************************************************************)
switch_context(c) ==
  /\ ClaimAndStage(c, current[c], [ring EXCEPT ![c] = @ \cup {current[c]}],
                   [state EXCEPT ![current[c]] = "ready"], "leave")
  /\ UNCHANGED <<procVars, pinVars, killVars, teardown, waitVars, userVars, svc,
                 on, cont, op, lockVars>>

(***************************************************************************)
(* What runs on a core between exceptions: a program at EL0, or the shell  *)
(* in main context.  A program whose sys_wait_event is restarted, or that  *)
(* has yet to take the result of its sys_wait, does that first.            *)
(***************************************************************************)
Ready(t) == ~redo[t] /\ target[t] = NoTask
Program(c, t) == pc[c] = "user" /\ current[c] = t /\ t \in UserTasks /\ Ready(t)
Actor(c) == pc[c] = "user" /\ current[c] # idle_id /\ Ready(current[c])
Caller(c, command, call) ==
  /\ Actor(c)
  /\ current[c] \in (IF command \in calls THEN {shell} ELSE {})
                    \cup (IF call \in calls THEN UserTasks ELSE {})

(***************************************************************************)
(* A program whose call begins with a section spins, masked, while the     *)
(* lock is taken, and makes its call when it is free.                      *)
(***************************************************************************)
lock_spin(c) ==
  /\ calls \cap {"sleep", "thread", "futex", "wm"} # {}
  /\ \E t \in Tasks : Program(c, t)
  /\ sched_lock # NoTask
  /\ Goto(c, "contend")
  /\ UNCHANGED <<procVars, runVars, pinVars, killVars, teardown, waitVars, userVars,
                 svc, on, op, cont, lockVars>>

lock_won(c) ==
  /\ pc[c] = "contend" /\ sched_lock = NoTask
  /\ Goto(c, "user")
  /\ UNCHANGED <<procVars, runVars, pinVars, killVars, teardown, waitVars, userVars,
                 svc, on, op, cont, lockVars>>

yield_current(c) ==
  /\ "yield" \in calls
  /\ \E t \in Tasks : Program(c, t)
  /\ switch_context(c)

(***************************************************************************)
(* The timer tick.  wake_expired wakes the sleepers whose deadline has     *)
(* passed, and a timed futex wait only through its seat in the table.      *)
(***************************************************************************)
Timed == {t \in Tasks : state[t] = "blocked" /\ wait[t] \in {"sleep", "futex"}
                        /\ left[t] # Never}

expired_strictly ==
  {t \in Timed : left[t] < 1 /\ (wait[t] = "futex" => \E k \in Seats : seat[k] = t)}

wake_expired ==
  {t \in Timed : left[t] <= 1 /\ (wait[t] = "futex" => \E k \in Seats : seat[k] = t)}

EventWaiters(P) ==
  {t \in Tasks : state[t] = "blocked" /\ wait[t] = "event" /\ target[t] \in P}

Woken(W) == [t \in Tasks |-> IF t \in W THEN "none" ELSE wait[t]]
Unseated(W) == [k \in Seats |-> IF seat[k] \in W THEN NoTask ELSE seat[k]]
enqueue_unbounded(P) == [p \in Procs |-> IF p \in P THEN queue[p] + 1 ELSE queue[p]]
Enqueued(P) == [p \in Procs |-> IF p \in P /\ queue[p] < MaxEvents THEN queue[p] + 1
                                ELSE queue[p]]

(***************************************************************************)
(* on_tick, under sched_lock: deadlines, the app timers and the WM pacing  *)
(* event that are due (P), and the CPU limit of the interrupted process.   *)
(***************************************************************************)
on_tick(P, over) ==
  LET W == wake_expired \cup EventWaiters(P) IN
    /\ push_home_locked(W, state)
    /\ wait' = Woken(W)
    /\ target' = [t \in Tasks |-> IF t \in W THEN NoTask ELSE target[t]]
    /\ left' = [t \in Tasks |-> CASE t \in W -> Never
                                  [] t \in Timed /\ left[t] > 1 -> left[t] - 1
                                  [] OTHER -> left[t]]
    /\ seat' = Unseated(W)
    /\ queue' = Enqueued(P)
    /\ kill' = [kill EXCEPT ![current[0]] = @ \/ over]
    /\ kill_status' = [kill_status EXCEPT ![current[0]] = IF over THEN CpuLimit ELSE @]

(***************************************************************************)
(* Core 0: the timekeeping beat, then the rotation.  The beat is skipped   *)
(* when try_lock or try_take fails: another core or the interrupted shell  *)
(* holds the lock, or the weak compare-and-swap failed for no reason.  The *)
(* shell can be interrupted anywhere in a monitor command, also inside a   *)
(* section, and continues there when it is selected again.                 *)
(***************************************************************************)
Monitor == {"create", "register", "bind", "publish", "kill"}
Interruptible(c) == pc[c] = "user" \/ (current[c] = shell /\ pc[c] \in Monitor)

Interrupt(c) ==
  /\ c = 0 /\ Interruptible(c)
  /\ cont' = IF current[c] = shell THEN [pc |-> pc[c], op |-> op[c]] ELSE cont
  /\ op' = [op EXCEPT ![c] = NoOp]
  /\ Goto(c, "rotate")

tick(c) ==
  /\ Interrupt(c)
  /\ svc = NoCore /\ sched_lock = NoTask
  /\ \E P \in SUBSET (IF "timer" \in calls THEN Procs ELSE {}), over \in BOOLEAN :
       /\ \A p \in P : pstate[p] = "running"
       /\ over => "cpu" \in calls /\ current[0] \in UserTasks
       /\ on_tick(P, over)
  /\ UNCHANGED <<procVars, current, pinVars, teardown, redo, x0, word, due, svc, on,
                 lockVars>>

tick_skip(c) ==
  /\ Interrupt(c)
  /\ UNCHANGED <<procVars, runVars, pinVars, killVars, teardown, waitVars, userVars,
                 svc, on, lockVars>>

rotate(c) == pc[c] = "rotate" /\ switch_context(c)

(***************************************************************************)
(* A secondary core: a parked one (also on the reschedule IPI) claims any  *)
(* eligible task, a busy one converts a pending kill on the spot when it   *)
(* gets every service domain, and otherwise rotates.                       *)
(***************************************************************************)
tick_parked(c) ==
  /\ c # 0 /\ pc[c] = "user" /\ current[c] = idle_id
  /\ merged_next(c, idle_id, ring) # NoTask
  /\ ClaimAndStage(c, idle_id, ring, state, "leave")
  /\ UNCHANGED <<procVars, pinVars, killVars, teardown, waitVars, userVars, svc, on,
                 cont, op, lockVars>>

ExitOp(c, t) == [op EXCEPT ![c] = [@ EXCEPT !.task = t, !.call = "exit",
                                            !.val = kill_status[t]]]
Disarm(t) == /\ kill' = [kill EXCEPT ![t] = FALSE]
             /\ kill_status' = [kill_status EXCEPT ![t] = Killed]

tick_convert(c) ==
  /\ c # 0 /\ pc[c] = "user" /\ current[c] # idle_id
  /\ kill[current[c]] /\ svc = NoCore
  /\ svc' = c
  /\ Disarm(current[c])
  /\ op' = ExitOp(c, current[c])
  /\ Goto(c, "zombie")
  /\ UNCHANGED <<procVars, runVars, pinVars, teardown, waitVars, userVars, on, cont,
                 lockVars>>

tick_secondary(c) ==
  /\ c # 0 /\ pc[c] = "user" /\ current[c] # idle_id
  /\ switch_context(c)

(***************************************************************************)
(* Blocking system calls.  A handler looks at the registry, the event      *)
(* queue or the futex table first; the sched_lock section that parks the   *)
(* task comes later, on its own.                                           *)
(***************************************************************************)
Parked(c, t, what, on_, ticks) ==
  /\ state' = [state EXCEPT ![t] = "blocked"]
  /\ ring' = ring_remove_anywhere(t)
  /\ wait' = [wait EXCEPT ![t] = what]
  /\ target' = [target EXCEPT ![t] = on_]
  /\ left' = [left EXCEPT ![t] = ticks]
  /\ Goto(c, "claim")

sleep_current(c, ticks) ==
  /\ Locked(c)
  /\ "sleep" \in calls
  /\ \E t \in Tasks :
       /\ Program(c, t)
       /\ Parked(c, t, "sleep", NoTask, ticks)
       /\ op' = [op EXCEPT ![c] = Op(t, "sleep", 0, ticks)]
  /\ UNCHANGED <<procVars, current, pinVars, killVars, teardown, redo, x0, userVars,
                 svc, on, cont>>

Begin(c, o, label) ==
  /\ op' = [op EXCEPT ![c] = o]
  /\ Goto(c, label)
  /\ UNCHANGED <<procVars, runVars, pinVars, killVars, teardown, waitVars, userVars,
                 svc, on, cont, lockVars>>

handle_wait(c, p) ==
  /\ "wait" \in calls
  /\ \E t \in Tasks :
       /\ Program(c, t)
       /\ p \notin find_by_task(t)
       /\ \/ /\ pstate[p] = "running"
             /\ Begin(c, Op(t, "wait", p, Never), "block")
          \/ /\ pstate[p] = "exited"
             /\ x0' = [x0 EXCEPT ![t] = exit_status[p]]
             /\ target' = [target EXCEPT ![t] = p]
             /\ UNCHANGED <<procVars, runVars, pinVars, killVars, teardown, wait,
                            left, redo, userVars, coreVars, lockVars>>

(***************************************************************************)
(* The program takes the result of its sys_wait out of x0.                 *)
(***************************************************************************)
Return(c) ==
  LET t == current[c] IN
    /\ pc[c] = "user" /\ target[t] # NoTask
    /\ target' = [target EXCEPT ![t] = NoTask]
    /\ x0' = [x0 EXCEPT ![t] = 0]
    /\ UNCHANGED <<procVars, runVars, pinVars, killVars, teardown, wait, left, redo,
                   userVars, coreVars, lockVars>>

handle_wait_event(c) ==
  /\ "event" \in calls
  /\ pc[c] = "user" /\ current[c] \in UserTasks /\ target[current[c]] = NoTask
  /\ \E p \in find_by_task(current[c]) :
       \/ /\ queue[p] = 0
          /\ Begin(c, Op(current[c], "event", p, Never), "block")
       \/ /\ queue[p] > 0
          /\ queue' = [queue EXCEPT ![p] = @ - 1]
          /\ redo' = [redo EXCEPT ![current[c]] = FALSE]
          /\ UNCHANGED <<procVars, runVars, pinVars, killVars, teardown, wait,
                         target, left, x0, seat, word, due, coreVars, lockVars>>

(***************************************************************************)
(* wait_current and wait_event_current: the block itself.                  *)
(***************************************************************************)
wait_current(c) ==
  /\ Locked(c)
  /\ pc[c] = "block"
  /\ op[c].call = "wait"
  /\ Parked(c, op[c].task, "pid", op[c].val, Never)
  /\ UNCHANGED <<procVars, current, pinVars, killVars, teardown, redo, x0, userVars,
                 svc, on, cont, op>>

wait_event_current(c) ==
  /\ Locked(c)
  /\ pc[c] = "block"
  /\ op[c].call = "event"
  /\ Parked(c, op[c].task, "event", op[c].val, Never)
  /\ redo' = [redo EXCEPT ![op[c].task] = TRUE]
  /\ UNCHANGED <<procVars, current, pinVars, killVars, teardown, x0, userVars, svc,
                 on, cont, op>>

(***************************************************************************)
(* sys_futex.  The program waits while the word is 0; it changes the word  *)
(* and owes a wake, or takes the word back.  futex_wait_current picks the  *)
(* first unused seat before it has sched_lock, and writes it under it.     *)
(***************************************************************************)
FreeSeats == {k \in Seats : seat[k] = NoTask}

futex_wait_current(c, ticks) ==
  /\ "futex" \in calls
  /\ FreeSeats # {}
  /\ \E t \in Tasks : \E p \in find_by_task(t) :
       /\ Program(c, t)
       /\ ~due[t]
       /\ word[p] = 0
       /\ Begin(c, Op(t, "futex", Min(FreeSeats), ticks), "seat")

futex_seat(c) ==
  /\ Locked(c)
  /\ pc[c] = "seat"
  /\ \E p \in find_by_task(op[c].task) :
       \/ /\ word[p] = 0
          /\ seat' = [seat EXCEPT ![op[c].val] = op[c].task]
          /\ Parked(c, op[c].task, "futex", NoTask, op[c].ticks)
          /\ UNCHANGED <<current, redo, x0>>
       \/ /\ word[p] # 0
          /\ seat' = [seat EXCEPT ![op[c].val] = NoTask]
          /\ Goto(c, "leave")
          /\ UNCHANGED <<runVars, waitVars>>
  /\ UNCHANGED <<procVars, pinVars, killVars, teardown, word, due, queue, svc, on,
                 cont, op>>

futex_store(c) ==
  /\ "futex" \in calls
  /\ \E t \in Tasks : \E p \in find_by_task(t) :
       /\ Program(c, t)
       /\ ~due[t]
       /\ word' = [word EXCEPT ![p] = 1 - @]
       /\ due' = [due EXCEPT ![t] = word[p] = 0]
  /\ UNCHANGED <<procVars, runVars, pinVars, killVars, teardown, waitVars, seat, queue,
                 coreVars, lockVars>>

seated_past_first(p) ==
  {t \in Tasks : find_by_task(t) = {p} /\ \E k \in Seats \ {1} : seat[k] = t}

SeatedIn(p) == {t \in Tasks : find_by_task(t) = {p} /\ \E k \in Seats : seat[k] = t}

futex_wake(c) ==
  /\ Locked(c)
  /\ \E t \in Tasks : \E p \in find_by_task(t) :
       /\ Program(c, t)
       /\ due[t]
       /\ due' = [due EXCEPT ![t] = FALSE]
       /\ LET W == {u \in SeatedIn(p) : state[u] = "blocked"} IN
            /\ push_home_locked(W, state)
            /\ wait' = Woken(W)
            /\ left' = [u \in Tasks |-> IF u \in W THEN Never ELSE left[u]]
       /\ seat' = Unseated(SeatedIn(p))
  /\ UNCHANGED <<procVars, current, pinVars, killVars, teardown, target, redo, x0,
                 word, queue, coreVars>>

(***************************************************************************)
(* events.push and its hook: the queue first, the waiters after it.  The   *)
(* hook does not take sched_lock when its holder word names this core,     *)
(* which it does on core 0 while the shell is preempted inside a section.  *)
(***************************************************************************)
events_push(c, p) ==
  /\ "push" \in calls
  /\ Actor(c)
  /\ pstate[p] = "running"
  /\ queue' = Enqueued({p})
  /\ op' = [op EXCEPT ![c] = Op(current[c], "push", p, 0)]
  /\ Goto(c, "hook")
  /\ UNCHANGED <<procVars, runVars, pinVars, killVars, teardown, waitVars, seat, word,
                 due, svc, on, cont, lockVars>>

wake_event_one(c) ==
  /\ pc[c] = "hook" /\ (c = 0 \/ sched_lock = NoTask)
  /\ LET all == EventWaiters({op[c].val})
         W == IF all = {} THEN {} ELSE {Min(all)} IN
       /\ push_home_locked(W, state)
       /\ wait' = Woken(W)
       /\ target' = [t \in Tasks |-> IF t \in W THEN NoTask ELSE target[t]]
  /\ Goto(c, "leave")
  /\ UNCHANGED <<procVars, current, pinVars, killVars, teardown, left, redo, x0,
                 userVars, svc, on, cont, op, lockVars>>

wake_event_waiters(c) ==
  /\ pc[c] = "hook" /\ (c = 0 \/ sched_lock = NoTask)
  /\ LET W == EventWaiters({op[c].val}) IN
       /\ push_home_locked(W, state)
       /\ wait' = Woken(W)
       /\ target' = [t \in Tasks |-> IF t \in W THEN NoTask ELSE target[t]]
  /\ Goto(c, "leave")
  /\ UNCHANGED <<procVars, current, pinVars, killVars, teardown, left, redo, x0,
                 userVars, svc, on, cont, op, lockVars>>

(***************************************************************************)
(* sys_thread: a new task of the caller's process in the first free slot,  *)
(* built and published under one sched_lock hold; and the thread's own     *)
(* exit.                                                                   *)
(***************************************************************************)
FreeSlots == {t \in Tasks : state[t] = "free"}

spawn_thread(c) ==
  /\ Locked(c)
  /\ "thread" \in calls
  /\ FreeSlots # {}
  /\ \E t \in Tasks : \E p \in find_by_task(t) :
       /\ Program(c, t)
       /\ bind_thread(p, Min(FreeSlots))
  /\ push_home_locked({Min(FreeSlots)}, state)
  /\ UNCHANGED <<current, pinVars, killVars, teardown, waitVars, userVars, coreVars>>

exit_thread_current(c) ==
  /\ "thread" \in calls
  /\ \E t \in Tasks : Program(c, t) /\ ~due[t] /\ Begin(c, Op(t, "thread", 0, 0), "spin")

(***************************************************************************)
(* exec_file, from the monitor or sys_exec: a slot check, the registry     *)
(* scan and the filled descriptor, the task built blocked and off the      *)
(* rings with a wake-up time of never, the bind, and the publication.      *)
(***************************************************************************)
exec_file(c) ==
  /\ FreeSlots # {}
  /\ Caller(c, "exec", "sys_exec")
  /\ \E p \in Procs :
       /\ FirstSlot(p)
       /\ Begin(c, [Op(current[c], IF pstate[p] = "free" THEN "exec" ELSE "recycle", 0, 0)
                      EXCEPT !.pid = p], "create")

exec_create(c) ==
  /\ pc[c] = "create"
  /\ create_as(op[c].pid, op[c].call = "recycle")
  /\ queue' = [queue EXCEPT ![op[c].pid] = 0]
  /\ word' = [word EXCEPT ![op[c].pid] = 0]
  /\ Goto(c, "register")
  /\ UNCHANGED <<runVars, pinVars, killVars, teardown, waitVars, seat, due, svc, on,
                 cont, op, lockVars>>

Built(c, t, ticks) ==
  /\ state' = [state EXCEPT ![t] = "blocked"]
  /\ wait' = [wait EXCEPT ![t] = "sleep"]
  /\ left' = [left EXCEPT ![t] = ticks]
  /\ op' = [op EXCEPT ![c].task = t]
  /\ Goto(c, "bind")

Pinned(t, core) ==
  /\ pin_core' = [pin_core EXCEPT ![t] = IF core = NoCore THEN 0 ELSE core]
  /\ secondary_ok' = IF core = 0 THEN secondary_ok \ {t} ELSE secondary_ok \cup {t}

build_expired(c) ==
  /\ Locked(c)
  /\ pc[c] = "register"
  /\ FreeSlots # {} /\ Built(c, Min(FreeSlots), 1)
  /\ UNCHANGED <<procVars, ring, current, pinVars, killVars, teardown, target, redo, x0,
                 userVars, svc, on, cont>>

register_exec_user(c) ==
  /\ Locked(c)
  /\ pc[c] = "register"
  /\ \/ /\ FreeSlots # {}
        /\ Built(c, Min(FreeSlots), Never)
        /\ \E pin \in {NoCore} \cup (IF current[c] = shell THEN Cores ELSE {}) :
             Pinned(Min(FreeSlots), pin)
        /\ UNCHANGED procVars
     \/ /\ FreeSlots = {}
        /\ reap_process(op[c].pid)
        /\ Goto(c, "leave")
        /\ UNCHANGED <<state, wait, left, op, pinVars>>
  /\ UNCHANGED <<ring, current, killVars, teardown, target, redo, x0, userVars, svc,
                 on, cont>>

exec_bind(c) ==
  /\ pc[c] = "bind"
  /\ \/ bind(op[c].pid, op[c].task)
     \/ pstate[op[c].pid] # "created" /\ UNCHANGED procVars
  /\ Goto(c, "publish")
  /\ UNCHANGED <<runVars, pinVars, killVars, teardown, waitVars, userVars, svc, on,
                 cont, op, lockVars>>

publish_task(c) ==
  /\ Locked(c)
  /\ pc[c] = "publish"
  /\ LET W == {op[c].task} \cap {t \in Tasks : state[t] = "blocked"} IN
       /\ push_home_locked(W, state)
       /\ wait' = Woken(W)
  /\ Goto(c, "leave")
  /\ UNCHANGED <<procVars, current, pinVars, killVars, teardown, target, left, redo, x0,
                 userVars, svc, on, cont, op>>

(***************************************************************************)
(* wmctl register: the calling task is pinned to core 0 while it runs.     *)
(***************************************************************************)
pin_task(c) ==
  /\ Locked(c)
  /\ "wm" \in calls
  /\ UserTasks \subseteq secondary_ok
  /\ \E t \in Tasks :
       /\ Program(c, t)
       /\ Pinned(t, 0)
  /\ UNCHANGED <<procVars, runVars, killVars, teardown, waitVars, userVars, coreVars>>

(***************************************************************************)
(* sys_kill and the monitor's kill: the process' primary task is looked up *)
(* first, the mark on that slot is a section of its own.                   *)
(***************************************************************************)
handle_kill(c, p) ==
  /\ Caller(c, "kill", "sys_kill")
  /\ pstate[p] # "exited" /\ task_id[p] # NoTask
  /\ Begin(c, Op(current[c], "kill", task_id[p], 0), "kill")

request_kill(c) ==
  /\ Locked(c)
  /\ pc[c] = "kill"
  /\ LET t == op[c].val IN
       kill' = [kill EXCEPT ![t] = @ \/ (state[t] \notin {"free", "zombie"}
                                         /\ t \notin {shell, idle_id})]
  /\ Goto(c, "leave")
  /\ UNCHANGED <<procVars, runVars, pinVars, kill_status, teardown, waitVars, userVars,
                 svc, on, cont, op>>

(***************************************************************************)
(* sys_exit and a fatal fault take every service domain first.             *)
(***************************************************************************)
handle_exit(c, status) ==
  /\ "exit" \in calls
  /\ \E t \in Tasks : Program(c, t) /\ Begin(c, Op(t, "exit", status, 0), "spin")

exit_current(c) ==
  /\ pc[c] = "spin" /\ svc = NoCore
  /\ svc' = c
  /\ Goto(c, "zombie")
  /\ UNCHANGED <<procVars, runVars, pinVars, killVars, teardown, waitVars, userVars,
                 on, cont, op, lockVars>>

(***************************************************************************)
(* convert_kill: a claimed task with a pending kill exits instead of       *)
(* running, when every domain is free (or held by this core already);      *)
(* otherwise it runs one more quantum.                                     *)
(***************************************************************************)
convert_kill(c) ==
  /\ pc[c] = "convert" /\ svc \in {NoCore, c}
  /\ svc' = c
  /\ Disarm(current[c])
  /\ op' = ExitOp(c, current[c])
  /\ Goto(c, "zombie")
  /\ UNCHANGED <<procVars, runVars, pinVars, teardown, waitVars, userVars, on, cont,
                 lockVars>>

convert_deferred(c) ==
  /\ pc[c] = "convert" /\ svc # c /\ Cores # {c}
  /\ state' = [state EXCEPT ![current[c]] = "running"]
  /\ Goto(c, "leave")
  /\ UNCHANGED <<procVars, ring, current, pinVars, killVars, teardown, waitVars,
                 userVars, svc, on, cont, op, lockVars>>

(***************************************************************************)
(* exit_current_locked, section by section.  First, under sched_lock: the  *)
(* zombie mark, the futex seat (with one wake of a fellow waiter), and for *)
(* a process exit the request and the kills of the siblings.               *)
(***************************************************************************)
Siblings(t) == {u \in UserTasks \ {t} : find_by_task(u) = find_by_task(t)
                                        /\ find_by_task(u) # {}
                                        /\ state[u] \in {"ready", "running", "blocked"}}

siblings_ready(t) == {u \in Siblings(t) : state[u] # "blocked"}

arm_sibling_kills(t) == Siblings(t)

FutexHeir(t) ==
  LET peers == {k \in Seats : seat[k] # NoTask /\ seat[k] # t
                              /\ find_by_task(seat[k]) = find_by_task(t)}
  IN  IF (\E k \in Seats : seat[k] = t) /\ peers # {} THEN {seat[Min(peers)]} ELSE {}

exit_zombie(c) ==
  LET t == op[c].task
      armed == IF op[c].call = "exit" THEN arm_sibling_kills(t) ELSE {}
      W == {u \in armed \cup FutexHeir(t) : state[u] = "blocked"}
  IN  /\ Locked(c)
      /\ pc[c] = "zombie"
      /\ push_home_locked(W, [state EXCEPT ![t] = "zombie"])
      /\ teardown' = [teardown EXCEPT ![t] = TRUE]
      /\ kill' = [u \in Tasks |-> kill[u] \/ u \in armed]
      /\ wait' = Woken(W)
      /\ target' = [u \in Tasks |-> IF u \in W THEN NoTask ELSE target[u]]
      /\ left' = [u \in Tasks |-> IF u \in W THEN Never ELSE left[u]]
      /\ seat' = Unseated(W \cup {t})
      /\ due' = [due EXCEPT ![t] = FALSE]
      /\ IF op[c].call = "exit"
           THEN \E p \in find_by_task(t) : request_process_exit(p, op[c].val)
           ELSE UNCHANGED procVars
      /\ Goto(c, "registry")
      /\ UNCHANGED <<current, pinVars, kill_status, redo, x0, word, queue, svc, on,
                     cont, op>>

(***************************************************************************)
(* Then, under the service domains alone: the registry, and the waiters of *)
(* a process whose last task this was, with that task's own status.        *)
(***************************************************************************)
exit_registry(c) ==
  /\ pc[c] = "registry"
  /\ \E p \in find_by_task(op[c].task) :
       /\ on_task_exit(p, op[c].task, op[c].val)
       /\ op' = [op EXCEPT ![c].pid = p]
       /\ Goto(c, IF pstate'[p] = "exited" THEN "wake" ELSE "open")
  /\ UNCHANGED <<runVars, pinVars, killVars, teardown, waitVars, userVars, svc, on,
                 cont, lockVars>>

ExitWaiters(P) ==
  {t \in Tasks : state[t] = "blocked" /\ wait[t] = "pid" /\ target[t] \in P}

wake_later_waiters(c) ==
  /\ Locked(c)
  /\ pc[c] = "wake"
  /\ LET W == {t \in ExitWaiters({op[c].pid}) : t > op[c].task} IN
       /\ push_home_locked(W, state)
       /\ wait' = Woken(W)
       /\ x0' = [t \in Tasks |-> IF t \in W THEN op[c].val ELSE x0[t]]
  /\ Goto(c, "open")
  /\ UNCHANGED <<procVars, current, pinVars, killVars, teardown, target, left, redo,
                 userVars, svc, on, cont, op>>

wake_waiters(c) ==
  /\ Locked(c)
  /\ pc[c] = "wake"
  /\ LET W == ExitWaiters({op[c].pid}) IN
       /\ push_home_locked(W, state)
       /\ wait' = Woken(W)
       /\ x0' = [t \in Tasks |-> IF t \in W THEN op[c].val ELSE x0[t]]
  /\ Goto(c, "open")
  /\ UNCHANGED <<procVars, current, pinVars, killVars, teardown, target, left, redo,
                 userVars, svc, on, cont, op>>

(***************************************************************************)
(* The slot is opened to the reaper, then a successor is claimed.          *)
(***************************************************************************)
exit_open(c) ==
  /\ Locked(c)
  /\ pc[c] = "open"
  /\ teardown' = [teardown EXCEPT ![op[c].task] = FALSE]
  /\ Goto(c, "claim")
  /\ UNCHANGED <<procVars, runVars, pinVars, killVars, waitVars, userVars, svc, on,
                 cont, op>>

claim_and_stage(c) ==
  /\ pc[c] = "claim"
  /\ ClaimAndStage(c, op[c].task, ring, state, Done(c))
  /\ UNCHANGED <<procVars, pinVars, killVars, teardown, waitVars, userVars, svc, on,
                 cont, op, lockVars>>

exit_unwind(c) ==
  /\ pc[c] = "unwind"
  /\ svc' = NoCore
  /\ Goto(c, "leave")
  /\ UNCHANGED <<procVars, runVars, pinVars, killVars, teardown, waitVars, userVars,
                 on, cont, op, lockVars>>

(***************************************************************************)
(* The exception return: handle_svc stores the handler's result in the     *)
(* frame of the task that made the call (0 for a sys_wait that blocked),   *)
(* and the staged task takes over, the shell where it was interrupted.     *)
(***************************************************************************)
eret(c) ==
  /\ pc[c] = "leave"
  /\ x0' = IF op[c].late THEN [x0 EXCEPT ![on[c]] = 0] ELSE x0
  /\ on' = [on EXCEPT ![c] = IF c # 0 /\ current[c] = idle_id THEN NoTask
                             ELSE current[c]]
  /\ IF current[c] = shell
       THEN /\ op' = [op EXCEPT ![c] = cont.op]
            /\ Goto(c, cont.pc)
            /\ cont' = Fresh
       ELSE /\ op' = [op EXCEPT ![c] = NoOp]
            /\ Goto(c, "user")
            /\ UNCHANGED cont
  /\ UNCHANGED <<procVars, runVars, pinVars, killVars, teardown, wait, target, left,
                 redo, userVars, svc, lockVars>>

(***************************************************************************)
(* The idle task's reaper: the first zombie, unless its teardown is still  *)
(* in progress.  The slot goes first, its process' pages after it.         *)
(***************************************************************************)
Zombies == {t \in Tasks : state[t] = "zombie"}

reap(c) ==
  /\ Locked(c)
  /\ c = 0 /\ pc[0] = "user" /\ current[0] = idle_id /\ svc = NoCore
  /\ Zombies # {} /\ ~teardown[Min(Zombies)]
  /\ LET t == Min(Zombies) IN
       /\ state' = [state EXCEPT ![t] = "free"]
       /\ ring' = ring_remove_anywhere(t)
       /\ pin_core' = [pin_core EXCEPT ![t] = 0]
       /\ secondary_ok' = secondary_ok \cup {t}
       /\ kill' = [kill EXCEPT ![t] = FALSE]
       /\ kill_status' = [kill_status EXCEPT ![t] = Killed]
       /\ redo' = [redo EXCEPT ![t] = FALSE]
       /\ target' = [target EXCEPT ![t] = NoTask]
       /\ x0' = [x0 EXCEPT ![t] = 0]
       /\ op' = [op EXCEPT ![0] = Op(t, "reap", 0, 0)]
  /\ svc' = 0
  /\ Goto(0, "reap")
  /\ UNCHANGED <<procVars, current, teardown, wait, left, userVars, on, cont>>

reap_pages(c) ==
  /\ pc[c] = "reap"
  /\ release_pages_on_reap(op[c].task)
  /\ svc' = NoCore
  /\ op' = [op EXCEPT ![c] = NoOp]
  /\ Goto(c, "user")
  /\ UNCHANGED <<runVars, pinVars, killVars, teardown, waitVars, userVars, on, cont,
                 lockVars>>

-----------------------------------------------------------------------------
Tick(c) == tick(c) \/ tick_skip(c) \/ tick_parked(c) \/ tick_convert(c) \/ tick_secondary(c)

(***************************************************************************)
(* Kernel code between the exception and its return, and the shell's own.  *)
(***************************************************************************)
Kernel(c) ==
  \/ rotate(c) \/ wait_current(c) \/ wait_event_current(c) \/ futex_seat(c)
  \/ wake_event_waiters(c) \/ request_kill(c) \/ exit_current(c)
  \/ exec_create(c) \/ register_exec_user(c) \/ exec_bind(c) \/ publish_task(c)
  \/ convert_kill(c) \/ convert_deferred(c) \/ exit_zombie(c) \/ exit_registry(c)
  \/ wake_waiters(c) \/ exit_open(c) \/ claim_and_stage(c) \/ exit_unwind(c)
  \/ eret(c) \/ reap_pages(c) \/ sched_lock_acquire(c) \/ lock_won(c)

User(c) ==
  \/ yield_current(c) \/ Return(c) \/ handle_wait_event(c) \/ futex_store(c)
  \/ futex_wake(c) \/ spawn_thread(c) \/ exit_thread_current(c) \/ pin_task(c)
  \/ exec_file(c) \/ lock_spin(c)
  \/ \E ticks \in 1..MaxTicks : sleep_current(c, ticks)
  \/ \E ticks \in 1..Never : futex_wait_current(c, ticks)
  \/ \E p \in Procs : handle_wait(c, p) \/ events_push(c, p) \/ handle_kill(c, p)
  \/ \E status \in ExitCodes : handle_exit(c, status)

Next == \E c \in Cores : Tick(c) \/ Kernel(c) \/ User(c) \/ reap(c)

Spec == Init /\ [][Next]_vars

(***************************************************************************)
(* Fairness.  A core executes its kernel code while its next step is       *)
(* possible.  The timer line stays pending while it is masked, so a core   *)
(* that keeps coming back to EL0 is ticked; a spinning exit eventually     *)
(* wins the domains, a deferred conversion is not deferred for ever.       *)
(***************************************************************************)
Fairness ==
  /\ \A c \in Cores :
       /\ WF_vars(Kernel(c))
       /\ SF_vars(Tick(c))
       /\ SF_vars(exit_current(c))
       /\ SF_vars(convert_kill(c))
  /\ SF_vars(tick(0))
  /\ SF_vars(reap(0))

FairSpec == Spec /\ Fairness

-----------------------------------------------------------------------------
(***************************************************************************)
(* The type invariant.                                                     *)
(***************************************************************************)
TypeOK ==
  /\ ProcessTypeOK
  /\ state \in [Tasks -> States]
  /\ ring \in [Cores -> SUBSET Tasks]
  /\ current \in [Cores -> Tasks]
  /\ pin_core \in [Tasks -> Cores]
  /\ secondary_ok \subseteq UserTasks
  /\ kill \in [Tasks -> BOOLEAN]
  /\ kill_status \in [Tasks -> {Killed, CpuLimit}]
  /\ teardown \in [Tasks -> BOOLEAN]
  /\ wait \in [Tasks -> Waits]
  /\ target \in [Tasks -> Procs \cup {NoTask}]
  /\ left \in [Tasks -> 1..Never]
  /\ redo \in [Tasks -> BOOLEAN]
  /\ x0 \in [Tasks -> Statuses]
  /\ seat \in [Seats -> Tasks \cup {NoTask}]
  /\ word \in [Procs -> {0, 1}]
  /\ due \in [Tasks -> BOOLEAN]
  /\ queue \in [Procs -> 0..MaxEvents]
  /\ svc \in Cores \cup {NoCore}
  /\ pc \in [Cores -> PCs]
  /\ on \in [Cores -> Tasks \cup {NoTask}]
  /\ cont.pc \in Monitor \cup {"user"}
  /\ sched_lock \in {NoTask, shell}

(***************************************************************************)
(* The ready rings (check_ready_membership): a member is a ready task on   *)
(* no other ring, the idle reaper only on ring 0, and a ready task off the *)
(* rings is the one some core has claimed, so none is lost between a block *)
(* and a wake, a preemption and a steal, or a claim and its conversion.    *)
(***************************************************************************)
RingsExact ==
  /\ \A c, d \in Cores : c # d => ring[c] \cap ring[d] = {}
  /\ \A c \in Cores : \A t \in ring[c] : state[t] = "ready" /\ (t = idle_id => c = 0)
  /\ \A t \in Tasks : state[t] = "ready" =>
       \E c \in Cores : t \in ring[c] \/ (current[c] = t /\ (t = idle_id => c = 0))

(***************************************************************************)
(* A core that is not between giving up one task and claiming the next     *)
(* owns its current task: no ring holds it and no other core has it.       *)
(***************************************************************************)
Owns(c) ==
  /\ pc[c] \notin {"claim", "registry", "wake", "open"}
  /\ current[c] # idle_id \/ c = 0

SingleOwner ==
  \A c \in Cores : Owns(c) =>
    /\ \A d \in Cores : current[c] \notin ring[d]
    /\ \A d \in Cores \ {c} : Owns(d) => current[d] # current[c]

(***************************************************************************)
(* A program at EL0 belongs to a running process that still owns its       *)
(* pages: exits, kills and reaps of its siblings never take them away.     *)
(***************************************************************************)
ProgramAlive ==
  \A c \in Cores : pc[c] = "user" /\ current[c] \in UserTasks =>
    /\ state[current[c]] = "running"
    /\ \E p \in find_by_task(current[c]) : pages[p]

(***************************************************************************)
(* A task pinned to a secondary core runs on that core alone, whoever      *)
(* steals, wakes or preempts it.                                           *)
(***************************************************************************)
PinRespected ==
  \A c \in Cores : \A t \in UserTasks :
    current[c] = t /\ pin_core[t] # 0 /\ Owns(c) => c = pin_core[t]

(***************************************************************************)
(* The live-task count of a running process is the number of its tasks     *)
(* that have not been through the registry, so the process exits with its  *)
(* last task and not before.                                               *)
(***************************************************************************)
LiveTasksExact ==
  \A p \in Procs : pstate[p] = "running" =>
    /\ live_tasks[p] = Cardinality({t \in Tasks : IsTaskOf(p, t)})
    /\ live_tasks[p] > 0
    /\ \A t \in Tasks : IsTaskOf(p, t) => state[t] # "free"

(***************************************************************************)
(* The status of the first exit request is the one the process ends with,  *)
(* whatever its other tasks exit with afterwards, and it never changes.    *)
(***************************************************************************)
FirstRequestWins ==
  [][\A p \in Procs :
       /\ exit_requested[p] /\ exit_requested'[p] => snapshot'[p] = snapshot[p]
       /\ exit_requested[p] /\ pstate[p] = "running" /\ pstate'[p] = "exited"
            => exit_status'[p] = snapshot[p]
       /\ pstate[p] = "exited" /\ pstate'[p] = "exited" => exit_status'[p] = exit_status[p]]_vars

(***************************************************************************)
(* A parked task is never passed over, on any number of cores: a step      *)
(* makes a task deaf (its event queued, its target exited, its word        *)
(* changed, and nobody about to wake it) only when it is the task's own    *)
(* blocking step, between whose check and block the wake can fall.  A      *)
(* futex waiter that lost its seat is not covered (see WaitersSeated).     *)
(***************************************************************************)
DeafToEvent(t) ==
  \E p \in Procs :
    /\ t \in EventWaiters({p}) /\ queue[p] > 0
    /\ \A c \in Cores : pc[c] = "hook" => op[c].val # p

DeafToExit(t) ==
  \E p \in Procs :
    /\ t \in ExitWaiters({p}) /\ pstate[p] = "exited"
    /\ \A c \in Cores : pc[c] = "wake" => op[c].pid # p

DeafToWake(t) ==
  /\ state[t] = "blocked" /\ wait[t] = "futex" /\ \E k \in Seats : seat[k] = t
  /\ \E p \in find_by_task(t) :
       word[p] # 0 /\ \A u \in Tasks : due[u] => p \notin find_by_task(u)

Deaf(t) == DeafToEvent(t) \/ DeafToExit(t) \/ DeafToWake(t)

WaitersHear == [][\A t \in Tasks : state[t] = "blocked" /\ ~Deaf(t) => ~Deaf(t)']_vars

(***************************************************************************)
(* A task blocked in sys_wait waits for a live process, or for one whose   *)
(* exit path is about to wake it.                                          *)
(***************************************************************************)
NoMissedExit ==
  \A t \in ExitWaiters(Procs) : pstate[target[t]] # "running" =>
    \E c \in Cores : pc[c] = "wake" /\ op[c].pid = target[t]

(***************************************************************************)
(* A task blocked in sys_futex on a word that has changed is owed a wake   *)
(* by a task of its own process, which has not left the registry.          *)
(***************************************************************************)
NoMissedWake ==
  \A t \in Tasks : \A p \in find_by_task(t) :
    state[t] = "blocked" /\ wait[t] = "futex" /\ word[p] # 0 =>
      \E u \in Tasks : due[u] /\ p \in find_by_task(u)

(***************************************************************************)
(* A task blocked in sys_futex has a seat in the table, where wakers and   *)
(* the deadline scan look for it.                                          *)
(***************************************************************************)
WaitersSeated ==
  \A t \in Tasks : state[t] = "blocked" /\ wait[t] = "futex" =>
    \E k \in Seats : seat[k] = t

(***************************************************************************)
(* The kernel stack a core executes on is its own: no other core executes  *)
(* on it, and the reaper has not given its slot and its pages back.        *)
(***************************************************************************)
KernelStackExclusive ==
  \A c \in Cores : on[c] # NoTask =>
    /\ \A d \in Cores \ {c} : on[d] # on[c]
    /\ state[on[c]] # "free"

(***************************************************************************)
(* sys_wait returns the status the process exited with.                    *)
(***************************************************************************)
WaitStatus ==
  \A c \in Cores : LET t == current[c] IN
    pc[c] = "user" /\ target[t] # NoTask => x0[t] = exit_status[target[t]]

(***************************************************************************)
(* A holder of sched_lock in main context is never starved: it releases    *)
(* the lock it was preempted with.                                         *)
(***************************************************************************)
LockReleased == sched_lock = shell ~> sched_lock = NoTask

(***************************************************************************)
(* A requested process exit completes: every task of the process ends.     *)
(***************************************************************************)
ExitCompletes == \A p \in Procs : exit_requested[p] ~> pstate[p] = "exited"

(***************************************************************************)
(* An exited process gives its pages back, or its slot is recycled.        *)
(***************************************************************************)
PagesReturn ==
  \A p \in Procs : pstate[p] = "exited" ~> ~pages[p] \/ pstate[p] # "exited"

(***************************************************************************)
(* A sleeping task is woken, or its process dies.                          *)
(***************************************************************************)
SleepEnds ==
  \A t \in UserTasks : (state[t] = "blocked" /\ wait[t] = "sleep") ~> state[t] # "blocked"
=============================================================================
