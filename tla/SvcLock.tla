------------------------------- MODULE SvcLock -------------------------------
(***************************************************************************)
(* The service-domain locks of kernel/src/svclock.zig and the code that    *)
(* brackets its work with them: the syscall and monitor dispatchers, the   *)
(* exit teardown, the page-fault and copy-out paths, the reaper, the shell *)
(* idle loop and the timer tick.                                           *)
(*                                                                         *)
(* A domain lock is a spinlock word (gate), the core inside it (holder)    *)
(* and, per core, the interrupt mask to put back at the release            *)
(* (saved_daif).  Everything another core can observe is a step of its     *)
(* own: the compare-and-swap on the gate, the write of the holder, the     *)
(* clearing of the holder, the store that opens the gate.                  *)
(***************************************************************************)
EXTENDS Naturals

CONSTANTS
  Cores,    \* the cores that are online
  Core0,    \* the boot core: it alone runs the shell and the idle reaper
  NoCore    \* the holder of a free lock (`cores` in the code)

ASSUME CoresAssumption == Core0 \in Cores /\ NoCore \notin Cores

(***************************************************************************)
(* The five domains, numbered in canonical acquisition order.              *)
(***************************************************************************)
file   == 1
net    == 2
win    == 3
ev     == 4
kernel == 5
Dom    == 1..5
all_bits == Dom

(***************************************************************************)
(* doms_of: the domain sets the syscall numbers map to.                    *)
(***************************************************************************)
doms_of == {{net}, {file}, {file, kernel}, {win}, {ev}, {kernel}, all_bits, {}}

(***************************************************************************)
(* The kernel lock and the command's own domains, over the command table.  *)
(***************************************************************************)
CommandDoms == { {kernel} \cup dom : dom \in
  {{}, {file}, {net}, {win}, {ev}, {file, ev}, {file, win}, {win, ev}} }

(***************************************************************************)
(* The brackets of the shell idle loop (RX drain, input drain, window      *)
(* state save), of the shell's file helpers and of the idle task's reaper. *)
(***************************************************************************)
MainBrackets == {{net}, {win, ev}, {file, win}, {file}, {kernel}}

VARIABLES
  gate,     \* gate[d]: the spinlock word of d is locked
  holder,   \* holder[d]: the core recorded inside d, or NoCore
  saved,    \* saved[c][d]: was c masked when it took d (saved_daif)
  masked,   \* masked[c]: IRQs are masked on c
  level,    \* level[c]: what c is running, see Levels
  back,     \* back[c]: the level the running timer tick interrupted
  doms,     \* doms[c]: the domains of the syscall or command in progress
  step,     \* step[c]: where c is inside a lock helper, see Steps
  todo,     \* todo[c]: domains the helper in progress still has to take
  part,     \* part[c]: domains it took so far, or still has to release
  open,     \* open[c][k]: the domains taken by the k-th open bracket
  depth     \* depth[c]: how many brackets are open

vars == <<gate, holder, saved, masked, level, back, doms, step, todo, part,
          open, depth>>

lockVars   == <<gate, holder, saved, masked>>
callerVars == <<level, back, doms>>
helperVars == <<step, todo, part, open, depth>>

MaxDepth == 2   \* no caller nests deeper with anything left to take

(***************************************************************************)
(* main: a task at EL0, or the shell or idle task between brackets.        *)
(* command, body: monitor.exec before and inside the command's handler.    *)
(* dispatch, handler: syscall.dispatch before and inside the handler.      *)
(* fault: the page-fault handler.   tick: scheduler.tick.                  *)
(***************************************************************************)
Levels == {"main", "command", "body", "dispatch", "handler", "fault", "tick"}
Steps  == {"none", "mask", "spin", "own", "try", "tryown", "drop", "unlock"}

IsFirst(d, S) == d \in S /\ \A e \in S : d <= e
IsLast(d, S)  == d \in S /\ \A e \in S : e <= d

(***************************************************************************)
(* The domains core c is inside of by its own control flow, and the gates  *)
(* it has locked: one more between the compare-and-swap and the holder     *)
(* write.                                                                  *)
(***************************************************************************)
Held(c)   == open[c][1] \cup open[c][2] \cup part[c]
Locked(c) == Held(c) \cup {d \in todo[c] : step[c] \in {"own", "tryown"}
                                           /\ IsFirst(d, todo[c])}

Init ==
  /\ gate   = [d \in Dom |-> FALSE]
  /\ holder = [d \in Dom |-> NoCore]
  /\ saved  = [c \in Cores |-> [d \in Dom |-> FALSE]]
  /\ masked = [c \in Cores |-> FALSE]
  /\ level  = [c \in Cores |-> "main"]
  /\ back   = [c \in Cores |-> "main"]
  /\ doms   = [c \in Cores |-> {}]
  /\ step   = [c \in Cores |-> "none"]
  /\ todo   = [c \in Cores |-> {}]
  /\ part   = [c \in Cores |-> {}]
  /\ open   = [c \in Cores |-> [k \in 1..MaxDepth |-> {}]]
  /\ depth  = [c \in Cores |-> 0]

(***************************************************************************)
(* missing: the bits of `bits` that the holder words do not give to c.     *)
(***************************************************************************)
missing(c, bits) == {d \in bits : holder[d] # c}

OpenBracket(c, taken) ==
  /\ depth' = [depth EXCEPT ![c] = @ + 1]
  /\ open'  = [open EXCEPT ![c][depth[c] + 1] = taken]

(***************************************************************************)
(* Start a helper that will take `want` one lock at a time, or return at   *)
(* once when there is nothing to take.                                     *)
(***************************************************************************)
Begin(c, want, first) ==
  /\ step[c] = "none"
  /\ depth[c] < MaxDepth
  /\ IF want = {}
       THEN /\ OpenBracket(c, {})
            /\ UNCHANGED <<todo, part, step>>
       ELSE /\ todo' = [todo EXCEPT ![c] = want]
            /\ step' = [step EXCEPT ![c] = first]
            /\ UNCHANGED <<part, open, depth>>

acquire_set(c, bits) == Begin(c, bits, "mask")

acquire_missing_blind(c, bits) == acquire_set(c, bits)

acquire_missing(c, bits) == acquire_set(c, missing(c, bits))

try_take(c, bits) == Begin(c, missing(c, bits), "try")

(***************************************************************************)
(* SvcLock.acquire: save the interrupt mask and mask IRQs, spin on the     *)
(* gate, record the holder.                                                *)
(***************************************************************************)
acquire_unmasked(c) ==
  /\ step[c] = "mask"
  /\ \E d \in todo[c] :
       IsFirst(d, todo[c]) /\ saved' = [saved EXCEPT ![c][d] = masked[c]]
  /\ step' = [step EXCEPT ![c] = "spin"]
  /\ UNCHANGED <<gate, holder, masked, callerVars, todo, part, open, depth>>

acquire_mask(c) ==
  /\ step[c] = "mask"
  /\ \E d \in todo[c] :
       IsFirst(d, todo[c]) /\ saved' = [saved EXCEPT ![c][d] = masked[c]]
  /\ masked' = [masked EXCEPT ![c] = TRUE]
  /\ step' = [step EXCEPT ![c] = "spin"]
  /\ UNCHANGED <<gate, holder, callerVars, todo, part, open, depth>>

spinlock_blind(c) ==
  /\ step[c] = "spin"
  /\ \E d \in todo[c] :
       IsFirst(d, todo[c]) /\ gate' = [gate EXCEPT ![d] = TRUE]
  /\ step' = [step EXCEPT ![c] = "own"]
  /\ UNCHANGED <<holder, saved, masked, callerVars, todo, part, open, depth>>

spinlock_lock(c) ==
  /\ step[c] = "spin"
  /\ \E d \in todo[c] :
       IsFirst(d, todo[c]) /\ ~gate[d] /\ gate' = [gate EXCEPT ![d] = TRUE]
  /\ step' = [step EXCEPT ![c] = "own"]
  /\ UNCHANGED <<holder, saved, masked, callerVars, todo, part, open, depth>>

(***************************************************************************)
(* The holder write ends one acquire; the helper goes on with the next     *)
(* domain, or returns and leaves its bracket open.                         *)
(***************************************************************************)
TookFirst(c, again) ==
  \E d \in todo[c] :
    /\ IsFirst(d, todo[c])
    /\ holder' = [holder EXCEPT ![d] = c]
    /\ todo' = [todo EXCEPT ![c] = @ \ {d}]
    /\ IF todo[c] = {d}
         THEN /\ OpenBracket(c, part[c] \cup {d})
              /\ part' = [part EXCEPT ![c] = {}]
              /\ step' = [step EXCEPT ![c] = "none"]
         ELSE /\ part' = [part EXCEPT ![c] = @ \cup {d}]
              /\ step' = [step EXCEPT ![c] = again]
              /\ UNCHANGED <<open, depth>>

acquire_own(c) ==
  /\ step[c] = "own"
  /\ TookFirst(c, "mask")
  /\ UNCHANGED <<gate, saved, masked, callerVars>>

(***************************************************************************)
(* try_acquire: one compare-and-swap, which may also fail spuriously (it   *)
(* is the weak form).  A refusal rolls back what try_take took so far.     *)
(***************************************************************************)
try_lock(c) ==
  /\ step[c] = "try"
  /\ \E d \in todo[c] :
       IsFirst(d, todo[c]) /\ ~gate[d] /\ gate' = [gate EXCEPT ![d] = TRUE]
  /\ step' = [step EXCEPT ![c] = "tryown"]
  /\ UNCHANGED <<holder, saved, masked, callerVars, todo, part, open, depth>>

try_own(c) ==
  /\ step[c] = "tryown"
  /\ \E d \in todo[c] :
       IsFirst(d, todo[c]) /\ saved' = [saved EXCEPT ![c][d] = masked[c]]
  /\ masked' = [masked EXCEPT ![c] = TRUE]
  /\ TookFirst(c, "try")
  /\ UNCHANGED <<gate, callerVars>>

no_rollback(c) ==
  /\ step[c] = "try"
  /\ todo' = [todo EXCEPT ![c] = {}]
  /\ part' = [part EXCEPT ![c] = {}]
  /\ step' = [step EXCEPT ![c] = "none"]
  /\ UNCHANGED <<lockVars, callerVars, open, depth>>

try_refused(c) ==
  /\ step[c] = "try"
  /\ todo' = [todo EXCEPT ![c] = {}]
  /\ step' = [step EXCEPT ![c] = IF part[c] = {} THEN "none" ELSE "drop"]
  /\ UNCHANGED <<lockVars, callerVars, part, open, depth>>

(***************************************************************************)
(* release_set of the innermost bracket, in reverse canonical order.       *)
(* SvcLock.release clears the holder, opens the gate, and puts the saved   *)
(* interrupt mask back.                                                    *)
(***************************************************************************)
release_double(c) ==
  /\ step[c] = "none"
  /\ depth[c] > 0
  /\ part' = [part EXCEPT ![c] = open[c][depth[c]]]
  /\ step' = [step EXCEPT ![c] = IF part'[c] = {} THEN "none" ELSE "drop"]
  /\ depth' = [depth EXCEPT ![c] = @ - 2]
  /\ open' = [open EXCEPT ![c][depth[c]] = {}]
  /\ UNCHANGED <<lockVars, todo>>

release_set(c) ==
  /\ step[c] = "none"
  /\ depth[c] > 0
  /\ LET taken == open[c][depth[c]] IN
       /\ part' = [part EXCEPT ![c] = taken]
       /\ step' = [step EXCEPT ![c] = IF taken = {} THEN "none" ELSE "drop"]
  /\ depth' = [depth EXCEPT ![c] = @ - 1]
  /\ open' = [open EXCEPT ![c][depth[c]] = {}]
  /\ UNCHANGED <<lockVars, todo>>

release_drop(c) ==
  /\ step[c] = "drop"
  /\ \E d \in part[c] :
       IsLast(d, part[c]) /\ holder' = [holder EXCEPT ![d] = NoCore]
  /\ step' = [step EXCEPT ![c] = "unlock"]
  /\ UNCHANGED <<gate, saved, masked, callerVars, todo, part, open, depth>>

(***************************************************************************)
(* The end of a release of domain d: the gate opens.  The mask saved with  *)
(* d is dead from here on and is forgotten.                                *)
(***************************************************************************)
Unlocked(c, d) ==
  /\ gate' = [gate EXCEPT ![d] = FALSE]
  /\ saved' = [saved EXCEPT ![c][d] = FALSE]
  /\ part' = [part EXCEPT ![c] = @ \ {d}]
  /\ step' = [step EXCEPT ![c] = IF part[c] = {d} THEN "none" ELSE "drop"]

unlock_keep_masked(c) ==
  /\ step[c] = "unlock"
  /\ \E d \in part[c] : IsLast(d, part[c]) /\ Unlocked(c, d)
  /\ UNCHANGED <<holder, masked, callerVars, todo, open, depth>>

release_unlock(c) ==
  /\ step[c] = "unlock"
  /\ \E d \in part[c] :
       /\ IsLast(d, part[c])
       /\ Unlocked(c, d)
       /\ masked' = [masked EXCEPT ![c] = saved[c][d]]
  /\ UNCHANGED <<holder, callerVars, todo, open, depth>>

(***************************************************************************)
(* The callers.                                                            *)
(***************************************************************************)
Quiet(c) == step[c] = "none" /\ depth[c] = 0

(***************************************************************************)
(* The shell and idle tasks open one of their brackets; under win and ev   *)
(* the keyboard decode asks again for both.                                *)
(***************************************************************************)
main_bracket(c) ==
  /\ c = Core0
  /\ level[c] = "main"
  /\ \/ depth[c] = 0 /\ \E bits \in MainBrackets : acquire_missing(c, bits)
     \/ depth[c] = 1 /\ open[c][1] = {win, ev} /\ acquire_missing(c, {win, ev})
  /\ UNCHANGED <<lockVars, callerVars>>

main_release(c) ==
  /\ level[c] = "main"
  /\ release_set(c)
  /\ UNCHANGED callerVars

(***************************************************************************)
(* Entries.  An exception or interrupt masks IRQs in hardware.             *)
(***************************************************************************)
svc_entry(c) ==
  /\ level[c] = "main"
  /\ Quiet(c)
  /\ level' = [level EXCEPT ![c] = "dispatch"]
  /\ \E bits \in doms_of : doms' = [doms EXCEPT ![c] = bits]
  /\ masked' = [masked EXCEPT ![c] = TRUE]
  /\ UNCHANGED <<gate, holder, saved, back, helperVars>>

command_entry(c) ==
  /\ c = Core0
  /\ level[c] = "main"
  /\ Quiet(c)
  /\ level' = [level EXCEPT ![c] = "command"]
  /\ \E bits \in CommandDoms : doms' = [doms EXCEPT ![c] = bits]
  /\ UNCHANGED <<lockVars, back, helperVars>>

fault_entry(c) ==
  /\ level[c] = "main"
  /\ Quiet(c)
  /\ level' = [level EXCEPT ![c] = "fault"]
  /\ masked' = [masked EXCEPT ![c] = TRUE]
  /\ UNCHANGED <<gate, holder, saved, back, doms, helperVars>>

(***************************************************************************)
(* The timer interrupt is taken between two steps of whatever runs with    *)
(* IRQs unmasked; there no helper is past its mask step.                   *)
(***************************************************************************)
tick_entry(c) ==
  /\ ~masked[c]
  /\ step[c] = "none"
  /\ back' = [back EXCEPT ![c] = level[c]]
  /\ level' = [level EXCEPT ![c] = "tick"]
  /\ masked' = [masked EXCEPT ![c] = TRUE]
  /\ UNCHANGED <<gate, holder, saved, doms, helperVars>>

(***************************************************************************)
(* dispatch takes the syscall's domains, and monitor.exec the command's,   *)
(* inside an `if` block together with the `defer` of the release.  A Zig   *)
(* defer runs at the end of the block it stands in, so the release happens *)
(* before the handler is called.                                           *)
(***************************************************************************)
dispatch_acquire(c) ==
  /\ depth[c] = 0
  /\ doms[c] # {}
  /\ \/ level[c] = "dispatch" /\ acquire_set(c, doms[c])
     \/ level[c] = "command" /\ acquire_missing(c, doms[c])
  /\ UNCHANGED <<lockVars, callerVars>>

HandlerLevel(c) == IF level[c] = "dispatch" THEN "handler" ELSE "body"

dispatch_end_block(c) ==
  /\ level[c] \in {"dispatch", "command"}
  /\ step[c] = "none"
  /\ level' = [level EXCEPT ![c] = HandlerLevel(c)]
  /\ \/ depth[c] = 1 /\ release_set(c)
     \/ doms[c] = {} /\ UNCHANGED <<lockVars, helperVars>>
  /\ UNCHANGED <<back, doms>>

(***************************************************************************)
(* Inside a syscall handler: the copy-out path asks for the kernel lock,   *)
(* the exit path for every domain, and a rotation that selects a killed    *)
(* task tries for every domain (convert_kill), also under the exit.        *)
(***************************************************************************)
handler_bracket(c) ==
  /\ level[c] = "handler"
  /\ \/ depth[c] = 0 /\ acquire_missing(c, {kernel})
     \/ depth[c] = 0 /\ acquire_missing(c, all_bits)
     \/ open[c][1] \in {{}, all_bits} /\ try_take(c, all_bits)
  /\ UNCHANGED <<lockVars, callerVars>>

(***************************************************************************)
(* The page-fault handler takes the kernel lock to map the page; when it   *)
(* cannot, the task exits (fault_current) after that bracket is closed.    *)
(***************************************************************************)
fault_bracket(c) ==
  /\ level[c] = "fault"
  /\ depth[c] = 0
  /\ acquire_set(c, {kernel}) \/ acquire_missing(c, all_bits)
  /\ UNCHANGED <<lockVars, callerVars>>

(***************************************************************************)
(* tick tries for ev and kernel; with or without them the rotation may     *)
(* convert a killed task, which tries for the rest.                        *)
(***************************************************************************)
tick_bracket(c) ==
  /\ level[c] = "tick"
  /\ \/ depth[c] = 0 /\ try_take(c, {ev, kernel})
     \/ try_take(c, all_bits)
  /\ UNCHANGED <<lockVars, callerVars>>

exit_no_release(c) ==
  /\ level[c] \in {"handler", "fault", "tick"}
  /\ level[c] = "handler" /\ open[c][1] = all_bits => depth[c] = 2
  /\ release_set(c)
  /\ UNCHANGED callerVars

bracket_end(c) ==
  /\ level[c] \in {"handler", "fault", "tick"}
  /\ release_set(c)
  /\ UNCHANGED callerVars

(***************************************************************************)
(* Return from the exception, or from the command to the shell.            *)
(***************************************************************************)
eret(c) ==
  /\ level[c] \in {"handler", "body", "fault", "tick"}
  /\ Quiet(c)
  /\ level' = [level EXCEPT ![c] = IF level[c] = "tick" THEN back[c] ELSE "main"]
  /\ back' = [back EXCEPT ![c] = "main"]
  /\ doms' = [doms EXCEPT ![c] = IF level[c] = "tick" THEN @ ELSE {}]
  /\ masked' = [masked EXCEPT ![c] = FALSE]
  /\ UNCHANGED <<gate, holder, saved, helperVars>>

(***************************************************************************)
(* What a core does by itself once inside a helper or an exception.        *)
(***************************************************************************)
HelperStep(c) ==
  \/ acquire_mask(c) \/ spinlock_lock(c) \/ acquire_own(c)
  \/ try_lock(c) \/ try_own(c) \/ try_refused(c)
  \/ release_drop(c) \/ release_unlock(c)

CloseStep(c) == main_release(c) \/ dispatch_end_block(c) \/ bracket_end(c)

CoreStep(c) ==
  \/ HelperStep(c) \/ CloseStep(c)
  \/ main_bracket(c) \/ svc_entry(c) \/ command_entry(c) \/ fault_entry(c)
  \/ tick_entry(c) \/ dispatch_acquire(c) \/ handler_bracket(c)
  \/ fault_bracket(c) \/ tick_bracket(c) \/ eret(c)

Next == \E c \in Cores : CoreStep(c)

Spec == Init /\ [][Next]_vars

(***************************************************************************)
(* Fairness: a running core executes the next instruction of a helper, and *)
(* a bracketed section ends, after finitely many brackets nested in it (no *)
(* handler loops without a bound).  Nothing is assumed about which of the  *)
(* spinning cores wins a gate.                                             *)
(***************************************************************************)
Fairness ==
  \A c \in Cores : /\ WF_vars(HelperStep(c))
                   /\ WF_vars(CloseStep(c))
                   /\ SF_vars(depth[c] = 1 /\ CloseStep(c))

FairSpec == Spec /\ Fairness

-----------------------------------------------------------------------------
TypeOK ==
  /\ gate   \in [Dom -> BOOLEAN]
  /\ holder \in [Dom -> Cores \cup {NoCore}]
  /\ saved  \in [Cores -> [Dom -> BOOLEAN]]
  /\ masked \in [Cores -> BOOLEAN]
  /\ level  \in [Cores -> Levels]
  /\ back   \in [Cores -> Levels]
  /\ doms   \in [Cores -> SUBSET Dom]
  /\ step   \in [Cores -> Steps]
  /\ todo   \in [Cores -> SUBSET Dom]
  /\ part   \in [Cores -> SUBSET Dom]
  /\ open   \in [Cores -> [1..MaxDepth -> SUBSET Dom]]
  /\ depth  \in [Cores -> 0..MaxDepth]

(***************************************************************************)
(* No two cores are ever inside the same service domain, whatever mixture  *)
(* of acquire, try_take with rollback and nested release they run.         *)
(***************************************************************************)
MutualExclusion ==
  \A c1, c2 \in Cores : c1 # c2 => Held(c1) \cap Held(c2) = {}

(***************************************************************************)
(* Between helpers, the holder words say exactly which domains the core is *)
(* inside: what missing() and held() decide nested acquisitions on.        *)
(***************************************************************************)
HolderExact ==
  \A c \in Cores : step[c] = "none" =>
    \A d \in Dom : holder[d] = c <=> d \in Held(c)

(***************************************************************************)
(* "IRQ-masked holders always run to completion": a core inside any domain *)
(* has IRQs masked, through every nesting and every release order.         *)
(***************************************************************************)
HolderMasked == \A c \in Cores : Locked(c) # {} => masked[c]

(***************************************************************************)
(* A core spins only for a domain after all the ones it holds in canonical *)
(* order, and never for one it holds itself: the deadlock-freedom argument *)
(* of the multi-lock helpers.                                              *)
(***************************************************************************)
CanonicalOrder ==
  \A c \in Cores : step[c] \in {"mask", "spin"} =>
    \A d \in todo[c], e \in Held(c) : e < d

(***************************************************************************)
(* Once the last bracket is closed the core has the interrupt mask of the  *)
(* context that opened it: masked in an exception, unmasked outside.       *)
(***************************************************************************)
IrqRestored ==
  \A c \in Cores : Quiet(c) =>
    (masked[c] <=> level[c] \in {"dispatch", "handler", "fault", "tick"})

(***************************************************************************)
(* The kernel lock, last in the order, is released by whoever took it: no  *)
(* holder of it ever waits for anything.                                   *)
(***************************************************************************)
KernelReleased == gate[kernel] ~> ~gate[kernel]

(***************************************************************************)
(* syscall.zig says of dispatch "the release lands on this return", and    *)
(* monitor.zig that a command "holds the kernel lock": the handler runs    *)
(* inside its domains.                                                     *)
(***************************************************************************)
HandlerHoldsDomains ==
  \A c \in Cores :
    level[c] \in {"handler", "body"} /\ step[c] = "none" => doms[c] \subseteq Held(c)
=============================================================================
