------------------------------- MODULE Process -------------------------------
(***************************************************************************)
(* The process registry of kernel/src/process.zig: which tasks run for     *)
(* which process, the exit request and its status snapshot, and whether    *)
(* the descriptor still owns its pages.  The operations are action         *)
(* formulas over the registry variables; Scheduler calls them from its     *)
(* exec, spawn, exit and reap paths.                                       *)
(***************************************************************************)
EXTENDS Naturals, FiniteSets

CONSTANTS
  Procs,        \* the process slots, 0..max_processes-1
  Tasks,        \* the task slots
  NoTask,       \* no task (null)
  max_threads,  \* thread_tasks entries per process
  Statuses      \* exit statuses

ASSUME ProcessAssumption ==
  NoTask \notin Tasks /\ max_threads \in Nat /\ Procs \subseteq Nat /\ 0 \in Statuses

VARIABLES
  pstate,          \* pstate[p]: "free", "created", "running" or "exited"
  task_id,         \* task_id[p]: the primary task, later the last one to exit
  thread_tasks,    \* thread_tasks[p]: the other tasks of the process
  live_tasks,      \* live_tasks[p]: how many tasks it still has
  exit_requested,  \* exit_requested[p]: some task asked the process to exit
  snapshot,        \* snapshot[p]: the status of the first such request
  exit_status,     \* exit_status[p]: the status waiters are to observe
  pages            \* pages[p]: the descriptor owns its physical pages

procVars == <<pstate, task_id, thread_tasks, live_tasks, exit_requested,
              snapshot, exit_status, pages>>

ProcessTypeOK ==
  /\ pstate \in [Procs -> {"free", "created", "running", "exited"}]
  /\ task_id \in [Procs -> Tasks \cup {NoTask}]
  /\ thread_tasks \in [Procs -> SUBSET Tasks]
  /\ live_tasks \in [Procs -> Nat]
  /\ exit_requested \in [Procs -> BOOLEAN]
  /\ snapshot \in [Procs -> Statuses]
  /\ exit_status \in [Procs -> Statuses]
  /\ pages \in [Procs -> BOOLEAN]

(***************************************************************************)
(* find_by_task: the running process a task belongs to (at most one).      *)
(***************************************************************************)
IsTaskOf(p, t) ==
  pstate[p] = "running" /\ (task_id[p] = t \/ t \in thread_tasks[p])

find_by_task(t) == {p \in Procs : IsTaskOf(p, t)}

has_thread_capacity(p) ==
  pstate[p] = "running" /\ Cardinality(thread_tasks[p]) < max_threads

(***************************************************************************)
(* create_as takes the first free slot, or recycles the lowest exited one. *)
(* FirstSlot is the scan, Create the filling of the slot it found.         *)
(***************************************************************************)
InState(s) == {p \in Procs : pstate[p] = s}

FirstSlot(p) ==
  \/ pstate[p] = "free" /\ \A q \in InState("free") : p <= q
  \/ /\ InState("free") = {}
     /\ pstate[p] = "exited" /\ \A q \in InState("exited") : p <= q

reset_process(p) ==
  /\ task_id' = [task_id EXCEPT ![p] = NoTask]
  /\ thread_tasks' = [thread_tasks EXCEPT ![p] = {}]
  /\ live_tasks' = [live_tasks EXCEPT ![p] = 0]
  /\ exit_requested' = [exit_requested EXCEPT ![p] = FALSE]
  /\ snapshot' = [snapshot EXCEPT ![p] = 0]
  /\ exit_status' = [exit_status EXCEPT ![p] = 0]

create_as(p, recycled) ==
  /\ pstate' = [pstate EXCEPT ![p] = "created"]
  /\ pages' = [pages EXCEPT ![p] = TRUE]
  /\ IF recycled
       THEN reset_process(p)
       ELSE UNCHANGED <<task_id, thread_tasks, live_tasks, exit_requested, snapshot,
                        exit_status>>

(***************************************************************************)
(* reap: the rollback of a process that got no task.                       *)
(***************************************************************************)
reap_process(p) ==
  /\ pstate' = [pstate EXCEPT ![p] = "free"]
  /\ pages' = [pages EXCEPT ![p] = FALSE]
  /\ reset_process(p)

(***************************************************************************)
(* bind: the primary task of a created process.                            *)
(***************************************************************************)
bind(p, t) ==
  /\ pstate[p] = "created"
  /\ pstate' = [pstate EXCEPT ![p] = "running"]
  /\ task_id' = [task_id EXCEPT ![p] = t]
  /\ live_tasks' = [live_tasks EXCEPT ![p] = 1]
  /\ UNCHANGED <<thread_tasks, exit_requested, snapshot, exit_status, pages>>

(***************************************************************************)
(* bind_thread: one more task of a running process.  An exit already       *)
(* requested does not refuse it.                                           *)
(***************************************************************************)
bind_uncounted(p, t) ==
  /\ has_thread_capacity(p)
  /\ task_id[p] # t
  /\ t \notin thread_tasks[p]
  /\ thread_tasks' = [thread_tasks EXCEPT ![p] = @ \cup {t}]
  /\ UNCHANGED <<pstate, task_id, live_tasks, exit_requested, snapshot, exit_status, pages>>

bind_thread(p, t) ==
  /\ has_thread_capacity(p)
  /\ task_id[p] # t
  /\ t \notin thread_tasks[p]
  /\ thread_tasks' = [thread_tasks EXCEPT ![p] = @ \cup {t}]
  /\ live_tasks' = [live_tasks EXCEPT ![p] = @ + 1]
  /\ UNCHANGED <<pstate, task_id, exit_requested, snapshot, exit_status, pages>>

(***************************************************************************)
(* request_process_exit: the first request fixes the status.               *)
(***************************************************************************)
request_last_wins(p, status) ==
  /\ exit_requested' = [exit_requested EXCEPT ![p] = TRUE]
  /\ snapshot' = [snapshot EXCEPT ![p] = status]
  /\ UNCHANGED <<pstate, task_id, thread_tasks, live_tasks, exit_status, pages>>

request_process_exit(p, status) ==
  /\ exit_requested' = [exit_requested EXCEPT ![p] = TRUE]
  /\ snapshot' = [snapshot EXCEPT ![p] = IF exit_requested[p] THEN @ ELSE status]
  /\ UNCHANGED <<pstate, task_id, thread_tasks, live_tasks, exit_status, pages>>

(***************************************************************************)
(* on_task_exit: the process exits with its last task.                     *)
(***************************************************************************)
FinalStatus(p, status) == IF exit_requested[p] THEN snapshot[p] ELSE status

exit_keep_primary(p, t, status) ==
  /\ thread_tasks' = [thread_tasks EXCEPT ![p] = @ \ {t}]
  /\ live_tasks' = [live_tasks EXCEPT ![p] = @ - 1]
  /\ task_id' = [task_id EXCEPT ![p] = IF @ = t /\ live_tasks[p] > 1 THEN NoTask ELSE @]
  /\ IF live_tasks[p] > 1
       THEN UNCHANGED <<pstate, exit_status>>
       ELSE /\ pstate' = [pstate EXCEPT ![p] = "exited"]
            /\ exit_status' = [exit_status EXCEPT ![p] = FinalStatus(p, status)]
  /\ UNCHANGED <<exit_requested, snapshot, pages>>

on_task_exit(p, t, status) ==
  /\ thread_tasks' = [thread_tasks EXCEPT ![p] = @ \ {t}]
  /\ live_tasks' = [live_tasks EXCEPT ![p] = @ - 1]
  /\ IF live_tasks[p] > 1
       THEN /\ task_id' = [task_id EXCEPT ![p] = IF @ = t THEN NoTask ELSE @]
            /\ UNCHANGED <<pstate, exit_status>>
       ELSE /\ pstate' = [pstate EXCEPT ![p] = "exited"]
            /\ exit_status' = [exit_status EXCEPT ![p] = FinalStatus(p, status)]
            /\ task_id' = [task_id EXCEPT ![p] = t]
  /\ UNCHANGED <<exit_requested, snapshot, pages>>

(***************************************************************************)
(* release_pages_on_reap: the reaped slot was the last task of an exited   *)
(* process, whose pages go back to the allocator.                          *)
(***************************************************************************)
ExitedOn(t) == {p \in Procs : pstate[p] = "exited" /\ task_id[p] = t}

release_pages_on_reap(t) ==
  /\ pages' = [p \in Procs |-> pages[p] /\ p \notin ExitedOn(t)]
  /\ task_id' = [p \in Procs |-> IF p \in ExitedOn(t) THEN NoTask ELSE task_id[p]]
  /\ UNCHANGED <<pstate, thread_tasks, live_tasks, exit_requested, snapshot,
                 exit_status>>
=============================================================================
