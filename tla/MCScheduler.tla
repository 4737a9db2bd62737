---------------------------- MODULE MCScheduler ----------------------------
(***************************************************************************)
(* Scheduler for TLC.  Task slots: 0 the shell, the highest the idle       *)
(* reaper, those between are for programs.  Two process slots.             *)
(***************************************************************************)
EXTENDS Scheduler, TLC

MCProcs == {0, 1}
TwoSlots == 0..3
ThreeSlots == 0..4

OneProcess == (0 :> {1}) @@ (1 :> {})
TwoThreads == (0 :> {1, 2}) @@ (1 :> {})
TwoProcesses == (0 :> {1}) @@ (1 :> {2})
ThreadsAndProcess == (0 :> {1, 2}) @@ (1 :> {3})

Load(T, C) == [tasks |-> T, calls |-> C]

\* One core: programs start, wait for, wake, kill and outlive one another.
UpLoads ==
  {Load(TwoThreads, {"sys_exec", "wait", "exit"}),
   Load(TwoThreads, {"futex", "thread", "exit"}),
   Load(TwoThreads, {"sys_exec", "sleep", "sys_kill", "exit"}),
   Load(TwoThreads, {"event", "push", "timer", "sleep", "sys_kill", "cpu", "yield", "exit"})}

\* Two cores.  The monitor kills and execs, in sections of sched_lock that a tick
\* can interrupt.
SmpLoads ==
  {Load(TwoThreads, {"event", "push", "timer", "sleep", "yield", "sys_kill", "exit"}),
   Load(TwoThreads, {"futex", "kill", "exit"}),
   Load(TwoProcesses, {"wait", "event", "push", "exit"}),
   Load(OneProcess, {"thread", "kill", "exit"}),
   Load(OneProcess, {"exec", "thread"}),
   Load(TwoThreads, {"exec", "exit"}),
   Load(OneProcess, {"exec", "wm", "exit"})}

\* The least that shows each thing the code does not keep.
WaitLoads == {Load(TwoProcesses, {"wait", "exit"})}
SiblingLoads == {Load(TwoThreads, {"event", "exit"})}
StatusLoads == {Load(ThreadsAndProcess, {"wait", "exit"})}
YieldLoads == {Load(TwoProcesses, {"yield"})}
FutexLoads == {Load(TwoThreads, {"futex"})}
KillLoads == {Load(OneProcess, {"kill", "sleep"})}

Unpinned == [t \in Tasks |-> 0]
=============================================================================
