------------------------- MODULE SchedulerWakeProofs -------------------------
(***************************************************************************)
(* Proof that a parked task is not passed over, for any number of cores,   *)
(* tasks, processes, seats and events (WaitersHear): what it waits for     *)
(* does not happen without a waker on its way, and the waker does not      *)
(* leave without waking it.                                                *)
(*                                                                         *)
(* The step by which a task parks itself is not part of the property: on   *)
(* two cores its check can be stale by then, and on any number of cores    *)
(* the wake has then been missed.  As for the registry, an exec fills an   *)
(* unused slot (ScanHolds).                                                *)
(***************************************************************************)
EXTENDS SchedulerRegistryProofs

\* Some task of process p has changed the futex word and is to call wake.
Owed(p) == \E u \in Tasks : due[u] /\ p \in find_by_task(u)

(***************************************************************************)
(* A task that leaves without killing its siblings owes no wake.           *)
(***************************************************************************)
PaidAt(c) ==
  /\ pc[c] \in {"spin", "zombie"} /\ op[c].call # "exit" => ~due[op[c].task]
  /\ pc[c] = "registry" => ~due[op[c].task]

Paid == \A c \in Cores : PaidAt(c)

Exits == {"spin", "zombie", "registry"}

(***************************************************************************)
(* What a step has to keep, by what a task waits for.                      *)
(***************************************************************************)
EventsHear == \A t \in Tasks : state[t] = "blocked" /\ DeafToEvent(t)' => DeafToEvent(t)
ExitsHear == \A t \in Tasks : state[t] = "blocked" /\ DeafToExit(t)' => DeafToExit(t)
WakesHear == \A t \in Tasks : state[t] = "blocked" /\ DeafToWake(t)' => DeafToWake(t)

Kept == Paid' /\ EventsHear /\ ExitsHear /\ WakesHear

\* A task that is blocked before and after the step waits for the same thing.
Stays ==
  \A t \in Tasks : state[t] = "blocked" /\ state'[t] = "blocked" =>
    /\ wait'[t] = wait[t] /\ target'[t] = target[t]
    /\ \A k \in Seats : seat'[k] = t => \E j \in Seats : seat[j] = t

\* A word that t waits for changes only with a wake owed, and the wake stays so.
WordStays(t) ==
  \A p \in Procs : p \in find_by_task(t)' =>
    /\ p \in find_by_task(t)
    /\ word'[p] # 0 /\ ~Owed(p)' => word[p] # 0 /\ ~Owed(p)
-----------------------------------------------------------------------------
(***************************************************************************)
(* How each part is kept.                                                  *)
(***************************************************************************)
LEMMA EventsStay ==
  ASSUME NEW c \in Cores, Moved(c), Stays, pc[c] # "hook",
         \A p \in Procs : queue'[p] > 0 => queue[p] > 0
  PROVE  EventsHear
<1> SUFFICES ASSUME NEW t \in Tasks, state[t] = "blocked", DeafToEvent(t)' PROVE DeafToEvent(t)
  BY DEF EventsHear
<1>1. PICK p \in Procs : /\ state'[t] = "blocked" /\ wait'[t] = "event" /\ target'[t] = p
                         /\ queue'[p] > 0 /\ \A d \in Cores : pc'[d] = "hook" => op'[d].val # p
  BY DEF DeafToEvent, EventWaiters
<1>2. wait[t] = "event" /\ target[t] = p
  BY <1>1 DEF Stays
<1>3. \A d \in Cores : pc[d] = "hook" => op[d].val # p
  BY <1>1 DEF Moved
<1>4. QED
  BY <1>1, <1>2, <1>3 DEF DeafToEvent, EventWaiters

LEMMA ExitsStay ==
  ASSUME NEW c \in Cores, Moved(c), Stays, pc[c] # "wake",
         \A p \in Procs : pstate'[p] = "exited" => pstate[p] = "exited"
  PROVE  ExitsHear
<1> SUFFICES ASSUME NEW t \in Tasks, state[t] = "blocked", DeafToExit(t)' PROVE DeafToExit(t)
  BY DEF ExitsHear
<1>1. PICK p \in Procs : /\ state'[t] = "blocked" /\ wait'[t] = "pid" /\ target'[t] = p
                         /\ pstate'[p] = "exited" /\ \A d \in Cores : pc'[d] = "wake" => op'[d].pid # p
  BY DEF DeafToExit, ExitWaiters
<1>2. wait[t] = "pid" /\ target[t] = p
  BY <1>1 DEF Stays
<1>3. \A d \in Cores : pc[d] = "wake" => op[d].pid # p
  BY <1>1 DEF Moved
<1>4. QED
  BY <1>1, <1>2, <1>3 DEF DeafToExit, ExitWaiters

LEMMA WakesStay ==
  ASSUME Stays,
         \A t \in Tasks : /\ state[t] = "blocked" /\ state'[t] = "blocked" /\ wait[t] = "futex"
                          /\ \E k \in Seats : seat[k] = t
                          => WordStays(t)
  PROVE  WakesHear
<1> SUFFICES ASSUME NEW t \in Tasks, state[t] = "blocked", DeafToWake(t)' PROVE DeafToWake(t)
  BY DEF WakesHear
<1>1. /\ state'[t] = "blocked" /\ wait'[t] = "futex" /\ \E k \in Seats : seat'[k] = t
      /\ \E p \in find_by_task(t)' : word'[p] # 0 /\ ~Owed(p)'
  BY DEF DeafToWake, Owed
<1>2. wait[t] = "futex" /\ \E k \in Seats : seat[k] = t
  BY <1>1 DEF Stays
<1>3. PICK p \in find_by_task(t)' : word'[p] # 0 /\ ~Owed(p)'
  BY <1>1
<1>4. p \in Procs
  BY DEF find_by_task
<1>5. p \in find_by_task(t) /\ word[p] # 0 /\ ~Owed(p)
  BY <1>1, <1>2, <1>3, <1>4 DEF WordStays
<1>6. QED
  BY <1>2, <1>5 DEF DeafToWake, Owed

LEMMA OwedSame ==
  ASSUME UNCHANGED <<due, pstate, task_id, thread_tasks>>
  PROVE  \A p : Owed(p)' <=> Owed(p)
<1>1. \A t : find_by_task(t)' = find_by_task(t)
  BY FindSame
<1>2. QED
  BY <1>1 DEF Owed

LEMMA WordSame ==
  ASSUME UNCHANGED <<due, word, pstate, task_id, thread_tasks>>
  PROVE  \A t \in Tasks : WordStays(t)
<1>1. (\A p : Owed(p)' <=> Owed(p)) /\ \A t : find_by_task(t)' = find_by_task(t)
  BY OwedSame, FindSame
<1>2. QED
  BY <1>1 DEF WordStays

\* A wake that is owed stays so while tasks join processes and none leaves one.
LEMMA OwedGrows ==
  ASSUME UNCHANGED due, \A u \in Tasks : find_by_task(u) \subseteq find_by_task(u)'
  PROVE  \A p : Owed(p) => Owed(p)'
BY DEF Owed

(***************************************************************************)
(* Only the task a core runs changes what it owes; a task on its way out   *)
(* is the one of its core, or a zombie.                                    *)
(***************************************************************************)
LEMMA PaidKept ==
  ASSUME RunInv, LifeInv, Paid, NEW c \in Cores, Moved(c), PaidAt(c)',
         \A u \in Tasks : due'[u] => due[u] \/ (u = current[c] /\ c \in Owners)
  PROVE  Paid'
<1> SUFFICES ASSUME NEW d \in Cores, d # c PROVE PaidAt(d)'
  BY DEF Paid
<1>1. PaidAt(d) /\ pc'[d] = pc[d] /\ op'[d] = op[d]
  BY DEF Paid, Moved
<1>2. CASE pc[d] \in {"spin", "zombie"}
  <2>1. op[d].task = current[d] /\ current[d] \in UserTasks /\ current[d] \in Tasks
    BY <1>2, Ground DEF RunInv, OwnOperand, OpOwn
  <2>2. d \in Owners
    BY <1>2, <2>1, OwnsNow, Ground DEF Giving
  <2>3. c \in Owners => current[d] # current[c]
    BY <2>2 DEF RunInv, Held, Apart
  <2>4. QED
    BY <1>1, <1>2, <2>1, <2>3 DEF PaidAt
<1>3. CASE pc[d] = "registry"
  <2>1. state[op[d].task] = "zombie" /\ op[d].task \in Tasks
    BY <1>3, Ground DEF LifeInv, AtRegistry
  <2>2. c \in Owners => op[d].task # current[c]
    BY <2>1 DEF RunInv, Held, Apart
  <2>3. QED
    BY <1>1, <1>3, <2>1, <2>2 DEF PaidAt
<1>4. CASE pc[d] \notin Exits
  BY <1>1, <1>4 DEF PaidAt, Exits
<1>5. QED
  BY <1>2, <1>3, <1>4 DEF Exits

LEMMA NotLeaving ==
  ASSUME NEW c \in Cores, pc'[c] \notin Exits
  PROVE  PaidAt(c)'
BY DEF PaidAt, Exits

(***************************************************************************)
(* A step that leaves the registry and the users' state alone.             *)
(***************************************************************************)
LEMMA QuietKept ==
  ASSUME RunInv, LifeInv, Paid, NEW c \in Cores, Moved(c), PaidAt(c)', Stays,
         UNCHANGED <<procVars, userVars>>, pc[c] \notin {"hook", "wake"}
  PROVE  Kept
<1>1. UNCHANGED <<pstate, task_id, thread_tasks, seat, word, due, queue>>
  BY DEF procVars, userVars
<1>2. Paid'
  BY <1>1, PaidKept
<1>3. EventsHear /\ ExitsHear
  BY <1>1, EventsStay, ExitsStay
<1>4. WakesHear
  BY <1>1, WordSame, WakesStay
<1>5. QED
  BY <1>2, <1>3, <1>4 DEF Kept
-----------------------------------------------------------------------------
(***************************************************************************)
(* The steps by what they do to the waiting tasks.                         *)
(***************************************************************************)
LEMMA StillStays ==
  ASSUME UNCHANGED <<wait, seat>>, \A t \in Tasks : state[t] = "blocked" => target'[t] = target[t]
  PROVE  Stays
BY DEF Stays

LEMMA WokenStays ==
  ASSUME NEW W, NEW st, push_home_locked(W, st), wait' = Woken(W),
         \A t \in Tasks \ W : target'[t] = target[t],
         \A k \in Seats : seat'[k] \in Tasks => seat'[k] = seat[k]
  PROVE  Stays /\ \A t \in W : t \in Tasks => state'[t] = "ready"
<1>1. \A t \in Tasks : state'[t] = IF t \in W THEN "ready" ELSE st[t]
  BY DEF push_home_locked
<1>2. \A t \in Tasks \ W : wait'[t] = wait[t]
  BY DEF Woken
<1>3. QED
  BY <1>1, <1>2 DEF Stays

\* The task a core owns does not wait.
LEMMA OwnedAwake ==
  ASSUME RunInv, NEW c \in Owners
  PROVE  state[current[c]] # "blocked"
BY DEF RunInv, Held, Apart

LEMMA ParkStays ==
  ASSUME TypeInv, RunInv, NEW c \in Owners, NEW t, t = current[c],
         NEW what, NEW tgt, NEW ticks, Parked(c, t, what, tgt, ticks),
         \A k \in Seats : seat'[k] \in Tasks \ {t} => seat'[k] = seat[k]
  PROVE  Stays
<1>1. state[t] # "blocked"
  BY OwnedAwake
<1>2. \A u \in Tasks \ {t} : wait'[u] = wait[u] /\ target'[u] = target[u]
  BY DEF Parked, TypeInv, WaitTy
<1>3. QED
  BY <1>1, <1>2 DEF Stays

\* A section that leaves the waits alone.
LEMMA StillKept ==
  ASSUME TypeInv, RunInv, LifeInv, Paid, NEW c \in Cores, NEW label, Goto(c, label), PaidAt(c)',
         UNCHANGED op \/ \E o : op' = [op EXCEPT ![c] = o],
         UNCHANGED current \/ \E n : current' = [current EXCEPT ![c] = n],
         UNCHANGED <<procVars, userVars, wait, target>>, pc[c] \notin {"hook", "wake"}
  PROVE  Kept
<1>1. Moved(c)
  BY MovedGo
<1>2. Stays
  BY StillStays DEF userVars
<1>3. QED
  BY <1>1, <1>2, QuietKept

LEMMA StillGoes ==
  ASSUME TypeInv, RunInv, LifeInv, Paid, NEW c \in Cores, NEW label, Goto(c, label), label \notin Exits,
         UNCHANGED op \/ \E o : op' = [op EXCEPT ![c] = o],
         UNCHANGED current \/ \E n : current' = [current EXCEPT ![c] = n],
         UNCHANGED <<procVars, userVars, wait, target>>, pc[c] \notin {"hook", "wake"}
  PROVE  Kept
<1>1. pc'[c] = label
  BY DEF Goto, TypeInv, CoreTy
<1>2. QED
  BY <1>1, NotLeaving, StillKept

LEMMA ClaimGoes ==
  ASSUME TypeInv, RunInv, LifeInv, Paid, NEW c \in Cores, NEW rings, NEW st, NEW after, NEW done,
         ClaimAndStage(c, after, rings, st, done), done \notin Exits,
         UNCHANGED <<procVars, userVars, wait, target, op>>, pc[c] \notin {"hook", "wake"}
  PROVE  Kept
<1> DEFINE n == merged_next(c, after, rings)
<1>1. /\ Goto(c, "convert") \/ Goto(c, done)
      /\ \E m : current' = [current EXCEPT ![c] = m]
  <2>1. CASE n = NoTask
    BY <2>1 DEF ClaimAndStage
  <2>2. CASE n # NoTask
    BY <2>2 DEF ClaimAndStage
  <2>3. QED
    BY <2>1, <2>2
<1> HIDE DEF n
<1>2. QED
  BY <1>1, StillGoes DEF Exits

LEMMA SwitchGoes ==
  ASSUME TypeInv, RunInv, LifeInv, Paid, NEW c \in Cores, switch_context(c),
         pc[c] \notin {"hook", "wake"}
  PROVE  Kept
<1>1. /\ ClaimAndStage(c, current[c], [ring EXCEPT ![c] = @ \cup {current[c]}],
                       [state EXCEPT ![current[c]] = "ready"], "leave")
      /\ UNCHANGED <<procVars, userVars, wait, target, op>>
  BY DEF switch_context, waitVars
<1>2. QED
  BY <1>1, ClaimGoes DEF Exits

LEMMA BeginGoes ==
  ASSUME TypeInv, RunInv, LifeInv, Paid, NEW c \in Cores, NEW o, NEW label, Begin(c, o, label),
         pc[c] = "user", label \in Exits => o.call = "exit" \/ ~due[o.task], label # "registry"
  PROVE  Kept
<1>1. /\ Goto(c, label) /\ op' = [op EXCEPT ![c] = o]
      /\ UNCHANGED <<procVars, userVars, wait, target, current>>
  BY DEF Begin, runVars, waitVars
<1>2. pc'[c] = label /\ op'[c] = o /\ UNCHANGED due
  BY <1>1 DEF Goto, TypeInv, CoreTy, userVars
<1>3. PaidAt(c)'
  BY <1>2 DEF PaidAt, Exits
<1>4. QED
  BY <1>1, <1>3, StillKept
-----------------------------------------------------------------------------
(***************************************************************************)
(* The sections that neither wake a waiter nor signal what it waits for.   *)
(***************************************************************************)
LEMMA PlainKept ==
  ASSUME TypeInv, RunInv, LifeInv, Paid, NEW c \in Cores
  PROVE  /\ tick_skip(c) => Kept
         /\ rotate(c) \/ yield_current(c) \/ tick_secondary(c) => Kept
         /\ tick_parked(c) \/ claim_and_stage(c) => Kept
         /\ request_kill(c) \/ exit_open(c) \/ exit_unwind(c) => Kept
         /\ convert_deferred(c) \/ lock_spin(c) \/ lock_won(c) => Kept
         /\ sched_lock_acquire(c) => Kept
         /\ eret(c) => Kept
         /\ publish_task(c) => Kept
<1>1. ASSUME tick_skip(c) PROVE Kept
  <2>1. /\ Goto(c, "rotate") /\ UNCHANGED <<procVars, userVars, current, wait, target>>
        /\ op' = [op EXCEPT ![c] = NoOp] /\ pc[c] \in Monitor \cup {"user"}
    BY <1>1 DEF tick_skip, Interrupt, Interruptible, runVars, waitVars
  <2>2. QED
    BY <2>1, StillGoes DEF Exits, Monitor
<1>2. ASSUME rotate(c) \/ yield_current(c) \/ tick_secondary(c) PROVE Kept
  <2>1. switch_context(c) /\ pc[c] \in {"rotate", "user"}
    BY <1>2 DEF rotate, yield_current, tick_secondary, Program
  <2>2. QED
    BY <2>1, SwitchGoes
<1>3. ASSUME tick_parked(c) \/ claim_and_stage(c) PROVE Kept
  <2>1. CASE tick_parked(c)
    <3>1. /\ ClaimAndStage(c, idle_id, ring, state, "leave") /\ pc[c] = "user"
          /\ UNCHANGED <<procVars, userVars, wait, target, op>>
      BY <2>1 DEF tick_parked, waitVars
    <3>2. QED
      BY <3>1, ClaimGoes DEF Exits
  <2>2. CASE claim_and_stage(c)
    <3>1. /\ ClaimAndStage(c, op[c].task, ring, state, Done(c)) /\ pc[c] = "claim"
          /\ UNCHANGED <<procVars, userVars, wait, target, op>>
      BY <2>2 DEF claim_and_stage, waitVars
    <3>2. Done(c) \notin Exits
      BY DEF Done, Exits
    <3>3. QED
      BY <3>1, <3>2, ClaimGoes
  <2>3. QED
    BY <1>3, <2>1, <2>2
<1>4. ASSUME request_kill(c) \/ exit_open(c) \/ exit_unwind(c) PROVE Kept
  <2>1. /\ Goto(c, "leave") \/ Goto(c, "claim")
        /\ UNCHANGED <<procVars, userVars, current, wait, target, op>>
    BY <1>4 DEF request_kill, exit_open, exit_unwind, runVars, waitVars
  <2>2. pc[c] \notin {"hook", "wake"}
    BY <1>4 DEF request_kill, exit_open, exit_unwind
  <2>3. QED
    BY <2>1, <2>2, StillGoes DEF Exits
<1>5. ASSUME convert_deferred(c) \/ lock_spin(c) \/ lock_won(c) PROVE Kept
  <2>1. /\ Goto(c, "leave") \/ Goto(c, "contend") \/ Goto(c, "user")
        /\ UNCHANGED <<procVars, userVars, current, wait, target, op>>
    BY <1>5 DEF convert_deferred, lock_spin, lock_won, runVars, waitVars
  <2>2. pc[c] \notin {"hook", "wake"}
    BY <1>5 DEF convert_deferred, lock_spin, lock_won, Program
  <2>3. QED
    BY <2>1, <2>2, StillGoes DEF Exits
<1>6. ASSUME sched_lock_acquire(c) PROVE Kept
  <2>1. /\ pc[c] \in MainSections /\ UNCHANGED <<pc, op>>
        /\ UNCHANGED <<procVars, userVars, current, wait, target>>
    BY <1>6 DEF sched_lock_acquire, runVars, waitVars, coreVars
  <2>2. PICK label \in MainSections : label = pc[c]
    BY <2>1
  <2>3. Goto(c, label)
    BY <2>1, <2>2, GotoSame
  <2>4. QED
    BY <2>1, <2>2, <2>3, StillGoes DEF Exits, MainSections
<1>7. ASSUME eret(c) PROVE Kept
  <2>1. PICK label : Goto(c, label) /\ label \in {cont.pc, "user"}
    BY <1>7 DEF eret
  <2>2. label \notin Exits
    BY <2>1 DEF TypeInv, CoreTy, Monitor, Exits
  <2>3. /\ pc[c] = "leave" /\ UNCHANGED <<procVars, userVars, current, wait, target>>
        /\ \E o : op' = [op EXCEPT ![c] = o]
    BY <1>7 DEF eret, runVars
  <2>4. QED
    BY <2>1, <2>2, <2>3, StillGoes
<1>8. ASSUME publish_task(c) PROVE Kept
  <2> DEFINE W == {op[c].task} \cap {t \in Tasks : state[t] = "blocked"}
  <2>1. /\ push_home_locked(W, state) /\ wait' = Woken(W) /\ target' = target
        /\ Goto(c, "leave") /\ pc[c] = "publish" /\ UNCHANGED <<procVars, userVars, current, op>>
    BY <1>8 DEF publish_task
  <2> HIDE DEF W
  <2>2. Stays
    BY <2>1, WokenStays DEF userVars
  <2>3. Moved(c) /\ pc'[c] = "leave"
    BY <2>1, MovedGo
  <2>4. QED
    BY <2>1, <2>2, <2>3, NotLeaving, QuietKept DEF Exits
<1>9. QED
  BY <1>1, <1>2, <1>3, <1>4, <1>5, <1>6, <1>7, <1>8

(***************************************************************************)
(* System calls up to their block or their exit.                           *)
(***************************************************************************)
LEMMA CallKept ==
  ASSUME TypeInv, RunInv, LifeInv, Paid, NEW c \in Cores
  PROVE  /\ Return(c) => Kept
         /\ pin_task(c) => Kept
         /\ exec_file(c) => Kept
         /\ exit_thread_current(c) => Kept
         /\ \A p \in Procs : handle_wait(c, p) \/ handle_kill(c, p) => Kept
         /\ \A ticks \in 1 .. Never : futex_wait_current(c, ticks) => Kept
         /\ \A status \in ExitCodes : handle_exit(c, status) => Kept
         /\ exit_current(c) => Kept
         /\ convert_kill(c) \/ tick_convert(c) => Kept
<1>0. ASSUME pc[c] = "user", UNCHANGED <<procVars, userVars, current, wait, pc, op>>,
             \A t \in Tasks : state[t] = "blocked" => target'[t] = target[t]
      PROVE  Kept
  <2>1. Goto(c, "user") /\ Moved(c) /\ pc'[c] = "user"
    BY <1>0, GotoSame, MovedGo
  <2>2. Stays
    BY <1>0, StillStays DEF userVars
  <2>3. QED
    BY <1>0, <2>1, <2>2, NotLeaving, QuietKept DEF Exits
<1>a. ASSUME pc[c] = "user", current[c] # idle_id \/ c = 0 PROVE c \in Owners
  BY <1>a, OwnsNow DEF Giving
<1>1. ASSUME Return(c) PROVE Kept
  <2>1. /\ pc[c] = "user" /\ target[current[c]] # NoTask
        /\ target' = [target EXCEPT ![current[c]] = NoTask]
        /\ UNCHANGED <<procVars, userVars, current, wait, pc, op, state>>
    BY <1>1 DEF Return, runVars, coreVars
  <2>2. state[current[c]] # "blocked"
    <3>1. CASE current[c] = idle_id
      BY <3>1 DEF RunInv, SystemTasks
    <3>2. CASE current[c] # idle_id
      BY <1>a, <2>1, <3>2, OwnedAwake
    <3>3. QED
      BY <3>1, <3>2
  <2>3. \A t \in Tasks : state[t] = "blocked" => target'[t] = target[t]
    BY <2>1, <2>2 DEF TypeInv, WaitTy
  <2>4. QED
    BY <1>0, <2>1, <2>3
<1>2. ASSUME pin_task(c) PROVE Kept
  <2>1. pc[c] = "user" /\ UNCHANGED <<procVars, userVars, current, wait, pc, op, target>>
    BY <1>2 DEF pin_task, Program, runVars, waitVars, coreVars
  <2>2. QED
    BY <1>0, <2>1
<1>3. ASSUME exec_file(c) PROVE Kept
  <2>1. pc[c] = "user" /\ \E o : Begin(c, o, "create")
    BY <1>3 DEF exec_file, Caller, Actor
  <2>2. QED
    BY <2>1, BeginGoes DEF Exits
<1>4. ASSUME exit_thread_current(c) PROVE Kept
  <2>1. PICK t \in Tasks : Program(c, t) /\ ~due[t] /\ Begin(c, Op(t, "thread", 0, 0), "spin")
    BY <1>4 DEF exit_thread_current
  <2>2. pc[c] = "user" /\ Op(t, "thread", 0, 0).task = t
    BY <2>1 DEF Program, Op
  <2>3. QED
    BY <2>1, <2>2, BeginGoes
<1>5. ASSUME NEW p \in Procs, handle_wait(c, p) \/ handle_kill(c, p) PROVE Kept
  <2>1. pc[c] = "user"
    BY <1>5 DEF handle_wait, handle_kill, Program, Caller, Actor
  <2>2. CASE \E o : Begin(c, o, "block") \/ Begin(c, o, "kill")
    BY <2>1, <2>2, BeginGoes DEF Exits
  <2>3. CASE \E t \in Tasks : /\ Program(c, t) /\ target' = [target EXCEPT ![t] = p]
                              /\ UNCHANGED <<procVars, runVars, wait, userVars, coreVars>>
    <3>1. PICK t \in Tasks : /\ Program(c, t) /\ target' = [target EXCEPT ![t] = p]
                             /\ UNCHANGED <<procVars, runVars, wait, userVars, coreVars>>
      BY <2>3
    <3>2. t = current[c] /\ t \in UserTasks
      BY <3>1, ProgramTask
    <3>3. state[t] # "blocked"
      BY <1>a, <2>1, <3>2, OwnedAwake, Ground
    <3>4. \A u \in Tasks : state[u] = "blocked" => target'[u] = target[u]
      BY <3>1, <3>3 DEF TypeInv, WaitTy
    <3>5. QED
      BY <1>0, <2>1, <3>1, <3>4 DEF runVars, coreVars
  <2>4. QED
    BY <1>5, <2>2, <2>3 DEF handle_wait, handle_kill
<1>6. ASSUME NEW ticks \in 1 .. Never, futex_wait_current(c, ticks) PROVE Kept
  <2>1. pc[c] = "user" /\ \E o : Begin(c, o, "seat")
    BY <1>6 DEF futex_wait_current, Program
  <2>2. QED
    BY <2>1, BeginGoes DEF Exits
<1>7. ASSUME NEW status \in ExitCodes, handle_exit(c, status) PROVE Kept
  <2>1. PICK t \in Tasks : Program(c, t) /\ Begin(c, Op(t, "exit", status, 0), "spin")
    BY <1>7 DEF handle_exit
  <2>2. pc[c] = "user" /\ Op(t, "exit", status, 0).call = "exit"
    BY <2>1 DEF Program, Op
  <2>3. QED
    BY <2>1, <2>2, BeginGoes
<1>8. ASSUME exit_current(c) PROVE Kept
  <2>1. /\ pc[c] = "spin" /\ Goto(c, "zombie")
        /\ UNCHANGED <<procVars, userVars, current, wait, target, op, due>>
    BY <1>8 DEF exit_current, runVars, waitVars, userVars
  <2>2. pc'[c] = "zombie"
    BY <2>1 DEF Goto, TypeInv, CoreTy
  <2>3. PaidAt(c)'
    BY <2>1, <2>2 DEF Paid, PaidAt
  <2>4. QED
    BY <2>1, <2>3, StillKept
<1>9. ASSUME convert_kill(c) \/ tick_convert(c) PROVE Kept
  <2>1. /\ pc[c] \in {"convert", "user"} /\ Goto(c, "zombie") /\ op' = ExitOp(c, current[c])
        /\ UNCHANGED <<procVars, userVars, current, wait, target>>
    BY <1>9 DEF convert_kill, tick_convert, runVars, waitVars
  <2>2. pc'[c] = "zombie"
    BY <2>1 DEF Goto, TypeInv, CoreTy
  <2>3. op'[c].call = "exit"
    <3>1. op \in [Cores -> OpRec] /\ op[c] \in OpRec
      BY DEF TypeInv, CoreTy
    <3>2. op'[c] = [op[c] EXCEPT !.task = current[c], !.call = "exit", !.val = kill_status[current[c]]]
      BY <2>1, <3>1 DEF ExitOp
    <3>3. QED
      BY <3>1, <3>2 DEF OpRec
  <2>4. PaidAt(c)'
    BY <2>2, <2>3 DEF PaidAt
  <2>5. \E o : op' = [op EXCEPT ![c] = o]
    BY <2>1 DEF ExitOp
  <2>6. QED
    BY <2>1, <2>4, <2>5, StillKept
<1>10. QED
  BY <1>1, <1>2, <1>3, <1>4, <1>5, <1>6, <1>7, <1>8, <1>9
-----------------------------------------------------------------------------
(***************************************************************************)
(* The sections that park the running task, and what programs do to queues *)
(* and words.                                                              *)
(***************************************************************************)
LEMMA ParkKept ==
  ASSUME TypeInv, RunInv, LifeInv, Paid, NEW c \in Cores
  PROVE  /\ wait_current(c) \/ wait_event_current(c) => Kept
         /\ \A ticks \in 1 .. MaxTicks : sleep_current(c, ticks) => Kept
         /\ futex_seat(c) => Kept
<1>a. pc[c] \in {"block", "seat"} => c \in Owners /\ op[c].task = current[c] /\ current[c] \in Tasks
  BY OwnsNow, Ground DEF RunInv, OwnOperand, OpOwn, Giving
<1>1. ASSUME wait_current(c) \/ wait_event_current(c) PROVE Kept
  <2>1. PICK what \in Waits : /\ pc[c] = "block" /\ Parked(c, op[c].task, what, op[c].val, Never)
                              /\ UNCHANGED <<procVars, userVars, current, op>>
    BY <1>1 DEF wait_current, wait_event_current, Waits
  <2>2. Goto(c, "claim")
    BY <2>1 DEF Parked
  <2>3. Moved(c) /\ pc'[c] = "claim"
    BY <2>1, <2>2, MovedGo
  <2>4. Stays
    BY <1>a, <2>1, ParkStays DEF userVars
  <2>5. QED
    BY <2>1, <2>3, <2>4, NotLeaving, QuietKept DEF Exits
<1>2. ASSUME NEW ticks \in 1 .. MaxTicks, sleep_current(c, ticks) PROVE Kept
  <2>1. PICK t \in Tasks : /\ Program(c, t) /\ Parked(c, t, "sleep", NoTask, ticks)
                           /\ op' = [op EXCEPT ![c] = Op(t, "sleep", 0, ticks)]
    BY <1>2 DEF sleep_current
  <2>2. UNCHANGED <<procVars, userVars, current>>
    BY <1>2 DEF sleep_current
  <2>3. t = current[c] /\ pc[c] = "user" /\ c \in Owners
    BY <2>1, ProgramTask, OwnsNow, Ground DEF Giving
  <2>4. Goto(c, "claim")
    BY <2>1 DEF Parked
  <2>5. Moved(c) /\ pc'[c] = "claim"
    BY <2>1, <2>2, <2>4, MovedGo
  <2>6. Stays
    BY <2>1, <2>2, <2>3, ParkStays DEF userVars
  <2>7. QED
    BY <2>2, <2>3, <2>5, <2>6, NotLeaving, QuietKept DEF Exits
<1>3. ASSUME futex_seat(c) PROVE Kept
  <2>0. PICK t : t = op[c].task
    OBVIOUS
  <2>1. /\ pc[c] = "seat" /\ UNCHANGED <<procVars, word, due, queue, op>>
        /\ \/ /\ seat' = [seat EXCEPT ![op[c].val] = t] /\ UNCHANGED current
              /\ Parked(c, t, "futex", NoTask, op[c].ticks)
           \/ /\ seat' = [seat EXCEPT ![op[c].val] = NoTask]
              /\ Goto(c, "leave") /\ UNCHANGED <<runVars, waitVars>>
    BY <1>3, <2>0 DEF futex_seat
  <2>2. UNCHANGED <<pstate, task_id, thread_tasks, word, due, queue>>
    BY <2>1 DEF procVars
  <2>3. (Goto(c, "claim") \/ Goto(c, "leave")) /\ UNCHANGED current
    BY <2>1 DEF Parked, runVars
  <2>4. Moved(c) /\ pc'[c] \in {"claim", "leave"}
    BY <2>1, <2>3, MovedGo
  <2>5. Stays
    <3>1. CASE /\ seat' = [seat EXCEPT ![op[c].val] = t]
               /\ Parked(c, t, "futex", NoTask, op[c].ticks)
      <4>1. \A k \in Seats : seat'[k] \in Tasks \ {t} => seat'[k] = seat[k]
        BY <3>1 DEF TypeInv, UserTy
      <4>2. QED
        BY <1>a, <2>0, <2>1, <3>1, <4>1, ParkStays
    <3>2. CASE seat' = [seat EXCEPT ![op[c].val] = NoTask] /\ UNCHANGED <<runVars, waitVars>>
      <4>1. \A k \in Seats : seat'[k] \in Tasks => seat'[k] = seat[k]
        BY <3>2, Ground DEF TypeInv, UserTy
      <4>2. QED
        BY <3>2, <4>1 DEF Stays, waitVars
    <3>3. QED
      BY <2>1, <3>1, <3>2
  <2>6. PaidAt(c)'
    BY <2>4, NotLeaving DEF Exits
  <2>7. Paid'
    BY <2>2, <2>4, <2>6, PaidKept
  <2>8. EventsHear /\ ExitsHear
    BY <2>1, <2>2, <2>4, <2>5, EventsStay, ExitsStay
  <2>9. WakesHear
    BY <2>2, <2>5, WordSame, WakesStay
  <2>10. QED
    BY <2>7, <2>8, <2>9 DEF Kept
<1>4. QED
  BY <1>1, <1>2, <1>3

LEMMA FoundOnce ==
  ASSUME LifeInv, NEW t \in Tasks, NEW p \in find_by_task(t)
  PROVE  p \in Procs /\ find_by_task(t) = {p}
BY DEF LifeInv, RegInv, TasksApart, find_by_task

LEMMA ProgramKept ==
  ASSUME TypeInv, RunInv, LifeInv, Paid, NEW c \in Cores
  PROVE  /\ handle_wait_event(c) => Kept
         /\ futex_store(c) => Kept
         /\ futex_wake(c) => Kept
<1>a. ASSUME NEW t, Program(c, t) PROVE t = current[c] /\ pc[c] = "user" /\ c \in Owners
  BY <1>a, ProgramTask, OwnsNow, Ground DEF Giving
<1>1. ASSUME handle_wait_event(c) PROVE Kept
  <2>0. pc[c] = "user"
    BY <1>1 DEF handle_wait_event
  <2>1. CASE \E o : Begin(c, o, "block")
    BY <2>0, <2>1, BeginGoes DEF Exits
  <2>2. CASE /\ \E p \in find_by_task(current[c]) : queue[p] > 0 /\ queue' = [queue EXCEPT ![p] = @ - 1]
             /\ UNCHANGED <<procVars, runVars, wait, target, seat, word, due, coreVars>>
    <3>1. UNCHANGED <<pstate, task_id, thread_tasks, current, wait, target, seat, word, due, pc, op>>
      BY <2>2 DEF procVars, runVars, coreVars
    <3>2. \A q \in Procs : queue'[q] > 0 => queue[q] > 0
      BY <2>2 DEF TypeInv, UserTy
    <3>3. Moved(c) /\ pc'[c] = "user"
      BY <2>0, <3>1 DEF Moved
    <3>4. Stays
      BY <3>1, StillStays
    <3>5. Paid'
      BY <3>1, <3>3, NotLeaving, PaidKept DEF Exits
    <3>6. EventsHear /\ ExitsHear
      BY <2>0, <3>1, <3>2, <3>3, <3>4, EventsStay, ExitsStay
    <3>7. WakesHear
      BY <3>1, <3>4, WordSame, WakesStay
    <3>8. QED
      BY <3>5, <3>6, <3>7 DEF Kept
  <2>3. QED
    BY <1>1, <2>1, <2>2 DEF handle_wait_event
<1>2. ASSUME futex_store(c) PROVE Kept
  <2>1. PICK t \in Tasks : \E p \in find_by_task(t) :
          /\ Program(c, t) /\ ~due[t] /\ word' = [word EXCEPT ![p] = 1 - @]
          /\ due' = [due EXCEPT ![t] = word[p] = 0]
    BY <1>2 DEF futex_store
  <2>2. PICK p \in find_by_task(t) :
          /\ Program(c, t) /\ ~due[t] /\ word' = [word EXCEPT ![p] = 1 - @]
          /\ due' = [due EXCEPT ![t] = word[p] = 0]
    BY <2>1
  <2>3. UNCHANGED <<pstate, task_id, thread_tasks, state, current, wait, target, seat, queue, pc, op>>
    BY <1>2 DEF futex_store, procVars, runVars, waitVars, coreVars
  <2>4. \A u : find_by_task(u)' = find_by_task(u)
    BY <2>3, FindSame
  <2>5. p \in Procs /\ word[p] \in {0, 1}
    BY DEF find_by_task, TypeInv, UserTy
  <2>6. \A u \in Tasks : WordStays(u)
    <3> SUFFICES ASSUME NEW q \in Procs, word'[q] # 0, ~Owed(q)' PROVE word[q] # 0 /\ ~Owed(q)
      BY <2>4 DEF WordStays
    <3>1. q # p
      <4>1. SUFFICES ASSUME q = p PROVE FALSE
        OBVIOUS
      <4>2. word[p] = 0
        BY <2>2, <2>5, <4>1 DEF TypeInv, UserTy
      <4>3. due'[t]
        BY <2>2, <4>2 DEF TypeInv, UserTy
      <4>4. QED
        BY <2>4, <4>1, <4>3 DEF Owed
    <3>2. word[q] # 0
      BY <2>2, <3>1 DEF TypeInv, UserTy
    <3>3. \A u \in Tasks : due[u] => due'[u]
      BY <2>2 DEF TypeInv, UserTy
    <3>4. QED
      BY <2>4, <3>2, <3>3 DEF Owed
  <2>7. Stays
    BY <2>3, StillStays
  <2>8. Moved(c) /\ pc'[c] = "user" /\ pc[c] = "user"
    BY <1>a, <2>2, <2>3 DEF Moved
  <2>9. \A u \in Tasks : due'[u] => due[u] \/ (u = current[c] /\ c \in Owners)
    BY <1>a, <2>2 DEF TypeInv, UserTy
  <2>10. Paid'
    BY <2>8, <2>9, NotLeaving, PaidKept DEF Exits
  <2>11. EventsHear /\ ExitsHear
    BY <2>3, <2>7, <2>8, EventsStay, ExitsStay
  <2>12. WakesHear
    BY <2>6, <2>7, WakesStay
  <2>13. QED
    BY <2>10, <2>11, <2>12 DEF Kept
<1>3. ASSUME futex_wake(c) PROVE Kept
  <2>0. PICK t \in Tasks : \E p \in find_by_task(t) :
          /\ Program(c, t) /\ due' = [due EXCEPT ![t] = FALSE]
          /\ push_home_locked({u \in SeatedIn(p) : state[u] = "blocked"}, state)
          /\ wait' = Woken({u \in SeatedIn(p) : state[u] = "blocked"})
          /\ seat' = Unseated(SeatedIn(p))
    BY <1>3 DEF futex_wake
  <2>1. PICK p \in find_by_task(t) :
          /\ Program(c, t) /\ due' = [due EXCEPT ![t] = FALSE]
          /\ push_home_locked({u \in SeatedIn(p) : state[u] = "blocked"}, state)
          /\ wait' = Woken({u \in SeatedIn(p) : state[u] = "blocked"})
          /\ seat' = Unseated(SeatedIn(p))
    BY <2>0
  <2>2. UNCHANGED <<pstate, task_id, thread_tasks, current, target, word, queue, pc, op>>
    BY <1>3 DEF futex_wake, procVars, coreVars
  <2> DEFINE W == {u \in SeatedIn(p) : state[u] = "blocked"}
  <2>3. push_home_locked(W, state) /\ wait' = Woken(W)
    BY <2>1
  <2>4. \A u \in Tasks : u \in SeatedIn(p) /\ state[u] = "blocked" => u \in W
    OBVIOUS
  <2> HIDE DEF W
  <2>5. \A k \in Seats : seat'[k] \in Tasks => seat'[k] = seat[k]
    BY <2>1, Ground DEF Unseated
  <2>6. Stays /\ \A u \in W : u \in Tasks => state'[u] = "ready"
    BY <2>2, <2>3, <2>5, WokenStays
  <2>7. \A u : find_by_task(u)' = find_by_task(u)
    BY <2>2, FindSame
  <2>8. ASSUME NEW u \in Tasks, state[u] = "blocked", state'[u] = "blocked",
               \E k \in Seats : seat[k] = u
        PROVE  WordStays(u)
    <3> SUFFICES ASSUME NEW q \in Procs, q \in find_by_task(u), Owed(q) PROVE Owed(q)'
      BY <2>2, <2>7 DEF WordStays
    <3>1. q # p
      <4>1. SUFFICES ASSUME q = p PROVE FALSE
        OBVIOUS
      <4>2. find_by_task(u) = {p}
        BY <4>1, FoundOnce
      <4>3. u \in SeatedIn(p)
        BY <2>8, <4>2 DEF SeatedIn
      <4>4. QED
        BY <2>4, <2>6, <2>8, <4>3
    <3>2. PICK v \in Tasks : due[v] /\ q \in find_by_task(v)
      BY DEF Owed
    <3>3. v # t
      BY <3>1, <3>2, FoundOnce
    <3>4. due'[v]
      BY <2>1, <3>2, <3>3 DEF TypeInv, UserTy
    <3>5. QED
      BY <2>7, <3>2, <3>4 DEF Owed
  <2>9. Moved(c) /\ pc'[c] = "user" /\ pc[c] = "user"
    BY <1>a, <2>1, <2>2 DEF Moved
  <2>10. \A u \in Tasks : due'[u] => due[u]
    BY <2>1 DEF TypeInv, UserTy
  <2>11. Paid'
    BY <2>9, <2>10, NotLeaving, PaidKept DEF Exits
  <2>12. EventsHear /\ ExitsHear
    BY <2>2, <2>6, <2>9, EventsStay, ExitsStay
  <2>13. WakesHear
    BY <2>6, <2>8, WakesStay
  <2>14. QED
    BY <2>11, <2>12, <2>13 DEF Kept
<1>4. QED
  BY <1>1, <1>2, <1>3
-----------------------------------------------------------------------------
(***************************************************************************)
(* The wakers: the timer, the push of an event and its hook, the exit of a *)
(* process.                                                                *)
(***************************************************************************)
LEMMA WakerKept ==
  ASSUME TypeInv, RunInv, LifeInv, Paid, NEW c \in Cores
  PROVE  /\ tick(c) => Kept
         /\ \A p \in Procs : events_push(c, p) => Kept
         /\ wake_event_waiters(c) => Kept
         /\ wake_waiters(c) => Kept
<1>1. ASSUME tick(c) PROVE Kept
  <2>1. PICK P, over : on_tick(P, over)
    BY <1>1 DEF tick
  <2>2. /\ Goto(c, "rotate") /\ pc[c] \in Monitor \cup {"user"} /\ op' = [op EXCEPT ![c] = NoOp]
        /\ UNCHANGED <<procVars, current, word, due>>
    BY <1>1 DEF tick, Interrupt, Interruptible
  <2>3. UNCHANGED <<pstate, task_id, thread_tasks, word, due>> /\ pc[c] \notin {"hook", "wake"}
    BY <2>2 DEF procVars, Monitor
  <2> DEFINE W == wake_expired \cup EventWaiters(P)
  <2>4. /\ push_home_locked(W, state) /\ wait' = Woken(W) /\ seat' = Unseated(W) /\ queue' = Enqueued(P)
        /\ target' = [t \in Tasks |-> IF t \in W THEN NoTask ELSE target[t]]
    BY <2>1 DEF on_tick
  <2>5. \A t \in Tasks : state[t] = "blocked" /\ wait[t] = "event" /\ target[t] \in P => t \in W
    BY DEF EventWaiters
  <2> HIDE DEF W
  <2>6. \A k \in Seats : seat'[k] \in Tasks => seat'[k] = seat[k]
    BY <2>4, Ground DEF Unseated
  <2>7. Stays /\ \A u \in W : u \in Tasks => state'[u] = "ready"
    BY <2>4, <2>6, WokenStays
  <2>8. Moved(c) /\ pc'[c] = "rotate"
    BY <2>2, MovedGo
  <2>9. Paid'
    BY <2>3, <2>8, NotLeaving, PaidKept DEF Exits
  <2>10. EventsHear
    <3> SUFFICES ASSUME NEW t \in Tasks, state[t] = "blocked", DeafToEvent(t)' PROVE DeafToEvent(t)
      BY DEF EventsHear
    <3>1. PICK p \in Procs : /\ state'[t] = "blocked" /\ wait'[t] = "event" /\ target'[t] = p
                             /\ queue'[p] > 0 /\ \A d \in Cores : pc'[d] = "hook" => op'[d].val # p
      BY DEF DeafToEvent, EventWaiters
    <3>2. wait[t] = "event" /\ target[t] = p
      BY <2>7, <3>1 DEF Stays
    <3>3. p \notin P
      BY <2>5, <2>7, <3>1, <3>2
    <3>4. queue[p] > 0
      BY <2>4, <3>1, <3>3 DEF Enqueued
    <3>5. \A d \in Cores : pc[d] = "hook" => op[d].val # p
      BY <2>3, <2>8, <3>1 DEF Moved
    <3>6. QED
      BY <3>2, <3>4, <3>5 DEF DeafToEvent, EventWaiters
  <2>11. ExitsHear
    BY <2>3, <2>7, <2>8, ExitsStay
  <2>12. WakesHear
    BY <2>3, <2>7, WordSame, WakesStay
  <2>13. QED
    BY <2>9, <2>10, <2>11, <2>12 DEF Kept
<1>2. ASSUME NEW p \in Procs, events_push(c, p) PROVE Kept
  <2>1. /\ pc[c] = "user" /\ queue' = Enqueued({p}) /\ op' = [op EXCEPT ![c] = Op(current[c], "push", p, 0)]
        /\ Goto(c, "hook") /\ UNCHANGED <<procVars, current, wait, target, seat, word, due>>
    BY <1>2 DEF events_push, Actor, runVars, waitVars
  <2>2. UNCHANGED <<pstate, task_id, thread_tasks>>
    BY <2>1 DEF procVars
  <2>3. Moved(c) /\ pc'[c] = "hook"
    BY <2>1, MovedGo
  <2>4. op'[c].val = p
    <3>1. op'[c] = Op(current[c], "push", p, 0)
      BY <2>1 DEF TypeInv, CoreTy
    <3>2. QED
      BY <3>1 DEF Op
  <2>5. Stays
    BY <2>1, StillStays
  <2>6. Paid'
    BY <2>1, <2>3, NotLeaving, PaidKept DEF Exits
  <2>7. EventsHear
    <3> SUFFICES ASSUME NEW t \in Tasks, state[t] = "blocked", DeafToEvent(t)' PROVE DeafToEvent(t)
      BY DEF EventsHear
    <3>1. PICK q \in Procs : /\ state'[t] = "blocked" /\ wait'[t] = "event" /\ target'[t] = q
                             /\ queue'[q] > 0 /\ \A d \in Cores : pc'[d] = "hook" => op'[d].val # q
      BY DEF DeafToEvent, EventWaiters
    <3>2. q # p
      BY <2>3, <2>4, <3>1
    <3>3. queue[q] > 0
      BY <2>1, <3>1, <3>2 DEF Enqueued
    <3>4. \A d \in Cores : pc[d] = "hook" => op[d].val # q
      BY <2>1, <2>3, <3>1 DEF Moved
    <3>5. QED
      BY <2>1, <3>1, <3>3, <3>4 DEF DeafToEvent, EventWaiters
  <2>8. ExitsHear
    BY <2>1, <2>2, <2>3, <2>5, ExitsStay
  <2>9. WakesHear
    BY <2>1, <2>2, <2>5, WordSame, WakesStay
  <2>10. QED
    BY <2>6, <2>7, <2>8, <2>9 DEF Kept
<1>3. ASSUME wake_event_waiters(c) PROVE Kept
  <2>0. PICK v : v = op[c].val
    OBVIOUS
  <2> DEFINE W == EventWaiters({v})
  <2>1. /\ pc[c] = "hook" /\ push_home_locked(W, state) /\ wait' = Woken(W) /\ Goto(c, "leave")
        /\ UNCHANGED <<procVars, userVars, current, op>>
        /\ target' = [t \in Tasks |-> IF t \in W THEN NoTask ELSE target[t]]
    BY <1>3, <2>0 DEF wake_event_waiters
  <2>2. \A t \in Tasks : state[t] = "blocked" /\ wait[t] = "event" /\ target[t] = v => t \in W
    BY DEF EventWaiters
  <2> HIDE DEF W
  <2>3. UNCHANGED <<pstate, task_id, thread_tasks, seat, word, due, queue>>
    BY <2>1 DEF procVars, userVars
  <2>4. Stays /\ \A u \in W : u \in Tasks => state'[u] = "ready"
    BY <2>1, <2>3, WokenStays
  <2>5. Moved(c) /\ pc'[c] = "leave"
    BY <2>1, MovedGo
  <2>6. Paid'
    BY <2>3, <2>5, NotLeaving, PaidKept DEF Exits
  <2>7. EventsHear
    <3> SUFFICES ASSUME NEW t \in Tasks, state[t] = "blocked", DeafToEvent(t)' PROVE DeafToEvent(t)
      BY DEF EventsHear
    <3>1. PICK p \in Procs : /\ state'[t] = "blocked" /\ wait'[t] = "event" /\ target'[t] = p
                             /\ queue'[p] > 0 /\ \A d \in Cores : pc'[d] = "hook" => op'[d].val # p
      BY DEF DeafToEvent, EventWaiters
    <3>2. wait[t] = "event" /\ target[t] = p
      BY <2>4, <3>1 DEF Stays
    <3>3. p # v
      BY <2>2, <2>4, <3>1, <3>2
    <3>4. \A d \in Cores : pc[d] = "hook" => op[d].val # p
      BY <2>0, <2>5, <3>1, <3>3 DEF Moved
    <3>5. QED
      BY <2>3, <3>1, <3>2, <3>4 DEF DeafToEvent, EventWaiters
  <2>8. ExitsHear
    BY <2>1, <2>3, <2>4, <2>5, ExitsStay
  <2>9. WakesHear
    BY <2>3, <2>4, WordSame, WakesStay
  <2>10. QED
    BY <2>6, <2>7, <2>8, <2>9 DEF Kept
<1>4. ASSUME wake_waiters(c) PROVE Kept
  <2>0. PICK v : v = op[c].pid
    OBVIOUS
  <2> DEFINE W == ExitWaiters({v})
  <2>1. /\ pc[c] = "wake" /\ push_home_locked(W, state) /\ wait' = Woken(W) /\ Goto(c, "open")
        /\ UNCHANGED <<procVars, userVars, current, op, target>>
    BY <1>4, <2>0 DEF wake_waiters
  <2>2. \A t \in Tasks : state[t] = "blocked" /\ wait[t] = "pid" /\ target[t] = v => t \in W
    BY DEF ExitWaiters
  <2> HIDE DEF W
  <2>3. UNCHANGED <<pstate, task_id, thread_tasks, seat, word, due, queue>>
    BY <2>1 DEF procVars, userVars
  <2>4. Stays /\ \A u \in W : u \in Tasks => state'[u] = "ready"
    BY <2>1, <2>3, WokenStays
  <2>5. Moved(c) /\ pc'[c] = "open"
    BY <2>1, MovedGo
  <2>6. Paid'
    BY <2>3, <2>5, NotLeaving, PaidKept DEF Exits
  <2>7. ExitsHear
    <3> SUFFICES ASSUME NEW t \in Tasks, state[t] = "blocked", DeafToExit(t)' PROVE DeafToExit(t)
      BY DEF ExitsHear
    <3>1. PICK p \in Procs : /\ state'[t] = "blocked" /\ wait'[t] = "pid" /\ target'[t] = p
                             /\ pstate'[p] = "exited" /\ \A d \in Cores : pc'[d] = "wake" => op'[d].pid # p
      BY DEF DeafToExit, ExitWaiters
    <3>2. wait[t] = "pid" /\ target[t] = p
      BY <2>4, <3>1 DEF Stays
    <3>3. p # v
      BY <2>2, <2>4, <3>1, <3>2
    <3>4. \A d \in Cores : pc[d] = "wake" => op[d].pid # p
      BY <2>0, <2>5, <3>1, <3>3 DEF Moved
    <3>5. QED
      BY <2>3, <3>1, <3>2, <3>4 DEF DeafToExit, ExitWaiters
  <2>8. EventsHear
    BY <2>1, <2>3, <2>4, <2>5, EventsStay
  <2>9. WakesHear
    BY <2>3, <2>4, WordSame, WakesStay
  <2>10. QED
    BY <2>6, <2>7, <2>8, <2>9 DEF Kept
<1>5. QED
  BY <1>1, <1>2, <1>3, <1>4
-----------------------------------------------------------------------------
(***************************************************************************)
(* Execs, new threads, exits and the reaper.                               *)
(***************************************************************************)
\* A step of the registry that ends no process and leaves no wait behind.
LEMMA RegistryKept ==
  ASSUME TypeInv, RunInv, LifeInv, Paid, NEW c \in Cores, Moved(c), Stays, UNCHANGED due,
         pc[c] \notin {"hook", "wake"}, pc'[c] \notin Exits,
         \A p \in Procs : /\ pstate'[p] = "exited" => pstate[p] = "exited"
                          /\ queue'[p] > 0 => queue[p] > 0
                          /\ word'[p] # 0 => word[p] # 0,
         \A u \in Tasks : find_by_task(u) \subseteq find_by_task(u)',
         \A t \in Tasks : state[t] = "blocked" /\ state'[t] = "blocked" /\ wait[t] = "futex" =>
           find_by_task(t)' = find_by_task(t)
  PROVE  Kept
<1>1. \A p : Owed(p) => Owed(p)'
  BY OwedGrows
<1>2. Paid'
  BY NotLeaving, PaidKept
<1>3. EventsHear /\ ExitsHear
  BY EventsStay, ExitsStay
<1>4. WakesHear
  <2>1. \A t \in Tasks : state[t] = "blocked" /\ state'[t] = "blocked" /\ wait[t] = "futex" => WordStays(t)
    BY <1>1 DEF WordStays
  <2>2. QED
    BY <2>1, WakesStay
<1>5. QED
  BY <1>2, <1>3, <1>4 DEF Kept

LEMMA SlotKept ==
  ASSUME TypeInv, RunInv, LifeInv, Paid, NEW c \in Cores
  PROVE  /\ exec_create(c) => Kept
         /\ register_exec_user(c) => Kept
         /\ exec_bind(c) => Kept
         /\ spawn_thread(c) => Kept
         /\ reap(c) => Kept
         /\ reap_pages(c) => Kept
<1>b. ExecFits(pc[c], op[c])
  BY DEF LifeInv, ExecInv, AllFit
<1>1. ASSUME exec_create(c) PROVE Kept
  <2>0. PICK p : p = op[c].pid
    OBVIOUS
  <2>1. /\ pc[c] = "create" /\ create_as(p, op[c].call = "recycle") /\ Goto(c, "register")
        /\ queue' = [queue EXCEPT ![p] = 0] /\ word' = [word EXCEPT ![p] = 0]
        /\ UNCHANGED <<state, current, wait, target, seat, due, op>>
    BY <1>1, <2>0 DEF exec_create, runVars, waitVars
  <2>2. p \in Procs /\ pstate[p] # "running"
    BY <1>b, <2>0, <2>1 DEF ExecFits, Unused
  <2>3. /\ pstate'[p] = "created"
        /\ \A q \in Procs : q # p => /\ pstate'[q] = pstate[q] /\ task_id'[q] = task_id[q]
                                     /\ thread_tasks'[q] = thread_tasks[q]
                                     /\ live_tasks'[q] = live_tasks[q]
    BY <2>1, <2>2 DEF create_as, reset_process, TypeInv, ProcTy, ProcessTypeOK
  <2>4. \A t : find_by_task(t)' = find_by_task(t)
    BY <2>2, <2>3, IdleSlot
  <2>5. \A q \in Procs : (queue'[q] > 0 => queue[q] > 0) /\ (word'[q] # 0 => word[q] # 0)
    BY <2>1 DEF TypeInv, UserTy
  <2>6. Stays /\ Moved(c) /\ pc'[c] = "register"
    BY <2>1, StillStays, MovedGo
  <2>7. \A q \in Procs : pstate'[q] = "exited" => pstate[q] = "exited"
    BY <2>3
  <2>8. QED
    BY <2>1, <2>4, <2>5, <2>6, <2>7, RegistryKept DEF Exits
<1>2. ASSUME register_exec_user(c) PROVE Kept
  <2>0. PICK p, m : p = op[c].pid /\ m = Min(FreeSlots)
    OBVIOUS
  <2>1. pc[c] = "register" /\ UNCHANGED <<current, target, userVars>>
    BY <1>2 DEF register_exec_user
  <2>2. CASE FreeSlots # {} /\ Built(c, m, Never) /\ UNCHANGED procVars
    <3>1. m \in Tasks /\ state[m] = "free"
      BY <2>0, <2>2, FreshSlot
    <3>2. wait' = [wait EXCEPT ![m] = "sleep"] /\ Goto(c, "bind") /\ \E o : op' = [op EXCEPT ![c] = o]
      BY <2>2 DEF Built
    <3>3. Stays
      BY <2>1, <3>1, <3>2 DEF Stays, userVars, TypeInv, WaitTy
    <3>4. Moved(c) /\ pc'[c] = "bind"
      BY <2>1, <3>2, MovedGo
    <3>5. QED
      BY <2>1, <2>2, <3>3, <3>4, NotLeaving, QuietKept DEF Exits
  <2>3. CASE reap_process(p) /\ Goto(c, "leave") /\ UNCHANGED <<state, wait, op>>
    <3>1. p \in Procs /\ pstate[p] = "created"
      BY <1>b, <2>0, <2>1 DEF ExecFits
    <3>2. /\ pstate'[p] = "free"
          /\ \A q \in Procs : q # p => /\ pstate'[q] = pstate[q] /\ task_id'[q] = task_id[q]
                                       /\ thread_tasks'[q] = thread_tasks[q]
                                       /\ live_tasks'[q] = live_tasks[q]
      BY <2>3, <3>1 DEF reap_process, reset_process, TypeInv, ProcTy, ProcessTypeOK
    <3>3. \A t : find_by_task(t)' = find_by_task(t)
      BY <3>1, <3>2, IdleSlot
    <3>4. UNCHANGED <<seat, word, due, queue>>
      BY <2>1 DEF userVars
    <3>5. Stays /\ Moved(c) /\ pc'[c] = "leave"
      BY <2>1, <2>3, <3>4, StillStays, MovedGo
    <3>6. \A q \in Procs : pstate'[q] = "exited" => pstate[q] = "exited"
      BY <3>2
    <3>7. QED
      BY <2>1, <3>3, <3>4, <3>5, <3>6, RegistryKept DEF Exits
  <2>4. QED
    BY <1>2, <2>0, <2>2, <2>3 DEF register_exec_user
<1>3. ASSUME exec_bind(c) PROVE Kept
  <2>0. PICK p, t : p = op[c].pid /\ t = op[c].task
    OBVIOUS
  <2>1. /\ pc[c] = "bind" /\ Goto(c, "publish")
        /\ UNCHANGED <<state, current, wait, target, seat, word, due, queue, op>>
        /\ bind(p, t) \/ pstate[p] # "created"
    BY <1>3, <2>0 DEF exec_bind, runVars, waitVars, userVars
  <2>2. p \in Procs /\ pstate[p] = "created" /\ t \in Tasks /\ wait[t] = "sleep"
    BY <1>b, <2>0, <2>1, Ground DEF ExecFits, Sealed
  <2>3. /\ pstate' = [pstate EXCEPT ![p] = "running"] /\ task_id' = [task_id EXCEPT ![p] = t]
        /\ UNCHANGED thread_tasks
    BY <2>1, <2>2 DEF bind
  <2>4. thread_tasks[p] = {}
    BY <2>2 DEF LifeInv, RegInv, NoThreads
  <2>5. \A q \in Procs : \A u : IsTaskOf(q, u)' <=> IsTaskOf(q, u) \/ (q = p /\ u = t)
    BY <2>2, <2>3, <2>4 DEF IsTaskOf, TypeInv, ProcTy, ProcessTypeOK
  <2>6. /\ \A u \in Tasks \ {t} : find_by_task(u)' = find_by_task(u)
        /\ \A u \in Tasks : find_by_task(u) \subseteq find_by_task(u)'
    BY <2>5 DEF find_by_task
  <2>7. Stays /\ Moved(c) /\ pc'[c] = "publish"
    BY <2>1, StillStays, MovedGo
  <2>8. \A q \in Procs : pstate'[q] = "exited" => pstate[q] = "exited"
    BY <2>3 DEF TypeInv, ProcTy, ProcessTypeOK
  <2>9. QED
    BY <2>1, <2>2, <2>6, <2>7, <2>8, RegistryKept DEF Exits
<1>4. ASSUME spawn_thread(c) PROVE Kept
  <2>0. PICK m : m = Min(FreeSlots)
    OBVIOUS
  <2>1. PICK p \in Procs : /\ bind_thread(p, m) /\ FreeSlots # {}
                           /\ push_home_locked({m}, state) /\ pc[c] = "user"
    BY <1>4, <2>0, Found DEF spawn_thread, Program
  <2>2. UNCHANGED <<current, wait, target, pc, op, seat, word, due, queue>>
    BY <1>4 DEF spawn_thread, waitVars, coreVars, userVars
  <2>3. m \in Tasks /\ state[m] = "free"
    BY <2>0, <2>1, FreshSlot
  <2>4. /\ pstate[p] = "running" /\ thread_tasks' = [thread_tasks EXCEPT ![p] = @ \cup {m}]
        /\ UNCHANGED <<pstate, task_id>>
    BY <2>1 DEF bind_thread, has_thread_capacity
  <2>5. \A q \in Procs : \A u : IsTaskOf(q, u)' <=> IsTaskOf(q, u) \/ (q = p /\ u = m)
    BY <2>4 DEF IsTaskOf, TypeInv, ProcTy, ProcessTypeOK
  <2>6. /\ \A u \in Tasks \ {m} : find_by_task(u)' = find_by_task(u)
        /\ \A u \in Tasks : find_by_task(u) \subseteq find_by_task(u)'
    BY <2>5 DEF find_by_task
  <2>7. Stays /\ Moved(c) /\ pc'[c] = "user"
    BY <2>1, <2>2, StillStays DEF Moved
  <2>8. QED
    BY <2>1, <2>2, <2>3, <2>4, <2>6, <2>7, RegistryKept DEF Exits
<1>5. ASSUME reap(c) PROVE Kept
  <2>0. PICK m : m = Min(Zombies)
    OBVIOUS
  <2>1. m \in Tasks /\ state[m] = "zombie"
    BY <1>5, <2>0, ZombieSlot DEF reap, RunInv
  <2>2. /\ c = 0 /\ pc[0] = "user" /\ target' = [target EXCEPT ![m] = NoTask]
        /\ Goto(0, "reap") /\ UNCHANGED <<procVars, current, wait, userVars>>
        /\ \E o : op' = [op EXCEPT ![0] = o]
    BY <1>5, <2>0 DEF reap
  <2>3. Stays
    BY <2>1, <2>2 DEF Stays, userVars, TypeInv, WaitTy
  <2>4. Moved(c) /\ pc'[c] = "reap"
    BY <2>2, MovedGo
  <2>5. QED
    BY <2>2, <2>3, <2>4, NotLeaving, QuietKept DEF Exits
<1>6. ASSUME reap_pages(c) PROVE Kept
  <2>1. /\ pc[c] = "reap" /\ release_pages_on_reap(op[c].task) /\ Goto(c, "user")
        /\ op' = [op EXCEPT ![c] = NoOp]
        /\ UNCHANGED <<state, current, wait, target, seat, word, due, queue>>
    BY <1>6 DEF reap_pages, runVars, waitVars, userVars
  <2>2. /\ UNCHANGED <<pstate, thread_tasks>>
        /\ \A p \in Procs : pstate[p] # "exited" => task_id'[p] = task_id[p]
    BY <2>1 DEF release_pages_on_reap, ExitedOn
  <2>3. \A u : find_by_task(u)' = find_by_task(u)
    BY <2>2 DEF find_by_task, IsTaskOf
  <2>4. Stays /\ Moved(c) /\ pc'[c] = "user"
    BY <2>1, StillStays, MovedGo
  <2>5. QED
    BY <2>1, <2>2, <2>3, <2>4, RegistryKept DEF Exits
<1>7. QED
  BY <1>1, <1>2, <1>3, <1>4, <1>5, <1>6

(***************************************************************************)
(* A task that exits without its siblings owes no wake; one that exits     *)
(* with them wakes them.                                                   *)
(***************************************************************************)
LEMMA ZombieKept ==
  ASSUME TypeInv, RunInv, LifeInv, Paid, NEW c \in Cores, exit_zombie(c)
  PROVE  Kept
<1>0. PICK t : t = op[c].task
  OBVIOUS
<1> DEFINE armed == IF op[c].call = "exit" THEN arm_sibling_kills(t) ELSE {}
           W == {u \in armed \cup FutexHeir(t) : state[u] = "blocked"}
<1>1. pc[c] = "zombie" /\ t \in UserTasks /\ t \in Tasks
  BY <1>0, Ground DEF RunInv, OwnOperand, OpOwn, exit_zombie
<1>2. /\ push_home_locked(W, [state EXCEPT ![t] = "zombie"]) /\ wait' = Woken(W)
      /\ target' = [u \in Tasks |-> IF u \in W THEN NoTask ELSE target[u]]
      /\ seat' = Unseated(W \cup {t}) /\ due' = [due EXCEPT ![t] = FALSE]
      /\ Goto(c, "registry") /\ UNCHANGED <<word, queue, op, current>>
  BY <1>0 DEF exit_zombie
<1>3. UNCHANGED <<pstate, task_id, thread_tasks>>
  BY DEF exit_zombie, request_process_exit, procVars
<1>4. \A u : find_by_task(u)' = find_by_task(u)
  BY <1>3, FindSame
<1>5. ASSUME op[c].call = "exit", NEW u \in Tasks \ {t}, state[u] = "blocked",
             NEW p \in find_by_task(u), p \in find_by_task(t)
      PROVE  u \in W
  <2>1. u \in UserTasks
    BY <1>5, Ground DEF RunInv, SystemTasks
  <2>2. find_by_task(u) = find_by_task(t) /\ find_by_task(u) # {}
    BY <1>1, <1>5, FoundOnce
  <2>3. u \in Siblings(t)
    BY <1>5, <2>1, <2>2 DEF Siblings
  <2>4. QED
    BY <1>5, <2>3 DEF arm_sibling_kills
<1> HIDE DEF W, armed
<1>6. \A u \in Tasks : state'[u] = IF u \in W THEN "ready" ELSE IF u = t THEN "zombie" ELSE state[u]
  BY <1>1, <1>2 DEF push_home_locked, TypeInv, RunTy
<1>7. \A k \in Seats : seat'[k] \in Tasks => seat'[k] = seat[k]
  BY <1>2, Ground DEF Unseated
<1>8. Stays
  BY <1>2, <1>7, WokenStays
<1>9. ASSUME NEW u \in Tasks, state'[u] = "blocked" PROVE WordStays(u)
  <2> SUFFICES ASSUME NEW p \in Procs, p \in find_by_task(u), Owed(p) PROVE Owed(p)'
    BY <1>2, <1>4 DEF WordStays
  <2>1. PICK v \in Tasks : due[v] /\ p \in find_by_task(v)
    BY DEF Owed
  <2>2. u \notin W /\ u # t /\ state[u] = "blocked"
    BY <1>6, <1>9
  <2>3. v # t
    <3>1. CASE op[c].call = "exit"
      BY <1>5, <2>1, <2>2, <3>1
    <3>2. CASE op[c].call # "exit"
      BY <1>0, <1>1, <2>1, <3>2 DEF Paid, PaidAt
    <3>3. QED
      BY <3>1, <3>2
  <2>4. due'[v]
    BY <1>2, <2>1, <2>3 DEF TypeInv, UserTy
  <2>5. QED
    BY <1>4, <2>1, <2>4 DEF Owed
<1>10. Moved(c) /\ pc'[c] = "registry"
  BY <1>2, MovedGo
<1>11. PaidAt(c)'
  <2>1. ~due'[t] /\ op'[c].task = t
    BY <1>0, <1>1, <1>2 DEF TypeInv, UserTy
  <2>2. QED
    BY <1>10, <2>1 DEF PaidAt
<1>12. \A u \in Tasks : due'[u] => due[u]
  BY <1>2 DEF TypeInv, UserTy
<1>13. Paid'
  BY <1>10, <1>11, <1>12, PaidKept
<1>14. EventsHear /\ ExitsHear
  BY <1>1, <1>2, <1>3, <1>8, <1>10, EventsStay, ExitsStay
<1>15. WakesHear
  BY <1>8, <1>9, WakesStay
<1>16. QED
  BY <1>13, <1>14, <1>15 DEF Kept

LEMMA ExitKept ==
  ASSUME TypeInv, RunInv, LifeInv, Paid, NEW c \in Cores, exit_registry(c)
  PROVE  Kept
<1>0. PICK t : t = op[c].task
  OBVIOUS
<1>1. PICK p \in find_by_task(t) : /\ on_task_exit(p, t, op[c].val) /\ op' = [op EXCEPT ![c].pid = p]
                                   /\ Goto(c, IF pstate'[p] = "exited" THEN "wake" ELSE "open")
  BY <1>0 DEF exit_registry
<1>2. pc[c] = "registry" /\ UNCHANGED <<state, current, wait, target, seat, word, due, queue>>
  BY DEF exit_registry, runVars, waitVars, userVars
<1>3. t \in Tasks /\ ~due[t]
  BY <1>0, <1>2, Ground DEF LifeInv, AtRegistry, Paid, PaidAt
<1>4. /\ p \in Procs /\ pstate[p] = "running"
      /\ \A q \in Procs : \A u \in Tasks : IsTaskOf(q, u)' <=> IsTaskOf(q, u) /\ ~(q = p /\ u = t)
      /\ \A q \in Procs : q # p => pstate'[q] = pstate[q]
  BY <1>1, <1>3, TaskExits
<1>5. /\ \A u \in Tasks \ {t} : find_by_task(u)' = find_by_task(u)
      /\ \A u \in Tasks : find_by_task(u)' \subseteq find_by_task(u)
  BY <1>4 DEF find_by_task
<1>6. \A q : Owed(q) => Owed(q)'
  BY <1>2, <1>3, <1>5 DEF Owed
<1>7. PICK l : l = (IF pstate'[p] = "exited" THEN "wake" ELSE "open") /\ Goto(c, l)
  BY <1>1
<1>8. Moved(c) /\ pc'[c] = l
  BY <1>1, <1>2, <1>7, MovedGo
<1>9. op'[c].pid = p
  <2>1. op[c] \in OpRec /\ op \in [Cores -> OpRec]
    BY DEF TypeInv, CoreTy
  <2>2. op'[c] = [op[c] EXCEPT !.pid = p]
    BY <1>1, <2>1
  <2>3. QED
    BY <2>1, <2>2 DEF OpRec
<1>10. Stays
  BY <1>2, StillStays
<1>11. Paid'
  BY <1>2, <1>7, <1>8, NotLeaving, PaidKept DEF Exits
<1>12. EventsHear
  BY <1>2, <1>8, <1>10, EventsStay
<1>13. ExitsHear
  <2> SUFFICES ASSUME NEW u \in Tasks, state[u] = "blocked", DeafToExit(u)' PROVE DeafToExit(u)
    BY DEF ExitsHear
  <2>1. PICK q \in Procs : /\ state'[u] = "blocked" /\ wait'[u] = "pid" /\ target'[u] = q
                           /\ pstate'[q] = "exited" /\ \A d \in Cores : pc'[d] = "wake" => op'[d].pid # q
    BY DEF DeafToExit, ExitWaiters
  <2>2. q # p
    BY <1>7, <1>8, <1>9, <2>1
  <2>3. \A d \in Cores : pc[d] = "wake" => op[d].pid # q
    BY <1>2, <1>8, <2>1 DEF Moved
  <2>4. QED
    BY <1>2, <1>4, <2>1, <2>2, <2>3 DEF DeafToExit, ExitWaiters
<1>14. WakesHear
  BY <1>2, <1>5, <1>6, <1>10, WakesStay DEF WordStays
<1>15. QED
  BY <1>11, <1>12, <1>13, <1>14 DEF Kept
-----------------------------------------------------------------------------
LEMMA StepKept ==
  ASSUME TypeInv, RunInv, LifeInv, Paid, [Next]_vars
  PROVE  Kept
<1>1. CASE UNCHANGED vars
  <2>1. UNCHANGED <<pstate, task_id, thread_tasks, state, wait, target, seat, word, due, queue, pc, op>>
    BY <1>1 DEF vars, procVars, runVars, waitVars, userVars, coreVars
  <2>2. \A t : find_by_task(t)' = find_by_task(t)
    BY <2>1, FindSame
  <2>3. Paid'
    BY <2>1 DEF Paid, PaidAt
  <2>4. EventsHear /\ ExitsHear
    BY <2>1 DEF EventsHear, ExitsHear, DeafToEvent, DeafToExit, EventWaiters, ExitWaiters
  <2>5. Stays
    BY <2>1, StillStays
  <2>6. WakesHear
    BY <2>1, <2>5, WordSame, WakesStay
  <2>7. QED
    BY <2>3, <2>4, <2>6 DEF Kept
<1>2. ASSUME NEW c \in Cores, Tick(c) PROVE Kept
  BY <1>2, PlainKept, CallKept, WakerKept DEF Tick
<1>3. ASSUME NEW c \in Cores, Kernel(c) PROVE Kept
  <2>1. CASE \/ rotate(c) \/ request_kill(c) \/ publish_task(c) \/ convert_deferred(c) \/ exit_open(c)
             \/ claim_and_stage(c) \/ exit_unwind(c) \/ eret(c) \/ sched_lock_acquire(c) \/ lock_won(c)
    BY <2>1, PlainKept
  <2>2. CASE exit_current(c) \/ convert_kill(c)
    BY <2>2, CallKept
  <2>3. CASE wait_current(c) \/ wait_event_current(c) \/ futex_seat(c)
    BY <2>3, ParkKept
  <2>4. CASE wake_event_waiters(c) \/ wake_waiters(c)
    BY <2>4, WakerKept
  <2>5. CASE exec_create(c) \/ register_exec_user(c) \/ exec_bind(c) \/ reap_pages(c)
    BY <2>5, SlotKept
  <2>6. CASE exit_zombie(c) \/ exit_registry(c)
    BY <2>6, ZombieKept, ExitKept
  <2>7. QED
    BY <1>3, <2>1, <2>2, <2>3, <2>4, <2>5, <2>6 DEF Kernel
<1>4. ASSUME NEW c \in Cores, User(c) PROVE Kept
  <2>1. CASE yield_current(c) \/ lock_spin(c)
    BY <2>1, PlainKept
  <2>2. CASE \/ Return(c) \/ pin_task(c) \/ exit_thread_current(c) \/ exec_file(c)
             \/ \E ticks \in 1 .. Never : futex_wait_current(c, ticks)
             \/ \E p \in Procs : handle_wait(c, p) \/ handle_kill(c, p)
             \/ \E status \in ExitCodes : handle_exit(c, status)
    BY <2>2, CallKept
  <2>3. CASE handle_wait_event(c) \/ futex_store(c) \/ futex_wake(c)
    BY <2>3, ProgramKept
  <2>4. CASE \E p \in Procs : events_push(c, p)
    BY <2>4, WakerKept
  <2>5. CASE spawn_thread(c) \/ \E ticks \in 1 .. MaxTicks : sleep_current(c, ticks)
    BY <2>5, SlotKept, ParkKept
  <2>6. QED
    BY <1>4, <2>1, <2>2, <2>3, <2>4, <2>5 DEF User
<1>5. ASSUME NEW c \in Cores, reap(c) PROVE Kept
  BY <1>5, SlotKept
<1>6. QED
  BY <1>1, <1>2, <1>3, <1>4, <1>5 DEF Next

(***************************************************************************)
(* A parked task is never passed over (WaitersHear), on any number of      *)
(* cores: the event it waits for is queued, its target exits, its word     *)
(* changes only with a waker on its way, who wakes it before it is done,   *)
(* unless two execs took the same slot of the registry.                    *)
(***************************************************************************)
THEOREM WaitersHeard == Spec /\ []ScanHolds => WaitersHear
<1>1. Init => Paid
  <2> SUFFICES ASSUME Init PROVE Paid
    OBVIOUS
  <2>1. \A c \in Cores : pc[c] = "user"
    BY DEF Init, Start
  <2>2. QED
    BY <2>1 DEF Paid, PaidAt
<1>2. TypeInv /\ RunInv /\ LifeInv /\ Paid /\ [Next]_vars => Kept
  BY StepKept
<1>3. Kept => Paid' /\ \A t \in Tasks : state[t] = "blocked" /\ ~Deaf(t) => ~Deaf(t)'
  BY DEF Kept, EventsHear, ExitsHear, WakesHear, Deaf
<1>4. TypeInv /\ RunInv /\ LifeInv /\ Paid /\ [Next]_vars =>
        Paid' /\ [\A t \in Tasks : state[t] = "blocked" /\ ~Deaf(t) => ~Deaf(t)']_vars
  BY <1>2, <1>3
<1>5. QED
  BY <1>1, <1>4, LifeInvariance, PTL DEF Spec, WaitersHear
=============================================================================
