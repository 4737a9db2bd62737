---------------------------- MODULE SvcLockProofs ----------------------------
(***************************************************************************)
(* Proofs about the service-domain locks, for any set of cores.            *)
(*                                                                         *)
(* Mutual exclusion is not inductive by itself: that a core which wins a   *)
(* compare-and-swap meets nobody inside follows from every locked section  *)
(* having its gate closed, and that a release opens a gate nobody else     *)
(* stands behind follows from the brackets of one core being disjoint,     *)
(* which rests on the holder words missing() reads.                        *)
(***************************************************************************)
EXTENDS SvcLock, TLAPS

(***************************************************************************)
(* What a core's helper state says at each step of a helper.               *)
(***************************************************************************)
HelperShape(c) ==
  /\ step[c] \in {"none", "drop", "unlock"} => todo[c] = {}
  /\ step[c] \in {"mask", "spin", "own", "try", "tryown"} => depth[c] < MaxDepth
  /\ step[c] = "none" => part[c] = {}
  /\ depth[c] < 1 => open[c][1] = {}
  /\ depth[c] < 2 => open[c][2] = {}

(***************************************************************************)
(* The brackets of one core never share a domain.                          *)
(***************************************************************************)
BracketsDisjoint(c) ==
  /\ open[c][1] \cap open[c][2] = {}
  /\ part[c] \cap (open[c][1] \cup open[c][2]) = {}
  /\ todo[c] \cap Held(c) = {}

(***************************************************************************)
(* d is between its holder clear and its gate store in a release by c.     *)
(***************************************************************************)
Dropped(c, d) == step[c] = "unlock" /\ IsLast(d, part[c])

HolderWord(c) ==
  \A d \in Dom : holder[d] = c <=> (d \in Held(c) /\ ~Dropped(c, d))

GateClosed(c) == \A d \in Locked(c) : gate[d]

LockedDisjoint ==
  \A c1, c2 \in Cores : c1 # c2 => Locked(c1) \cap Locked(c2) = {}

CoreInv(c) ==
  HelperShape(c) /\ BracketsDisjoint(c) /\ HolderWord(c) /\ GateClosed(c)

IndInv == TypeOK /\ (\A c \in Cores : CoreInv(c)) /\ LockedDisjoint

(***************************************************************************)
(* At boot no gate is closed, no holder recorded and no bracket open: the  *)
(* strengthened invariant holds in the initial state.                      *)
(***************************************************************************)
LEMMA InitInv == Init => IndInv
  <1> SUFFICES ASSUME Init PROVE IndInv
    OBVIOUS
  <1>1. TypeOK
    BY CoresAssumption DEF Init, TypeOK, Levels, Steps, MaxDepth
  <1>2. ASSUME NEW c \in Cores PROVE CoreInv(c) /\ Locked(c) = {}
    BY CoresAssumption DEF Init, CoreInv, HelperShape, BracketsDisjoint,
       HolderWord, GateClosed, Held, Locked, Dropped, IsLast, MaxDepth
  <1>3. LockedDisjoint
    BY <1>2 DEF LockedDisjoint
  <1> QED BY <1>1, <1>2, <1>3 DEF IndInv

(***************************************************************************)
(* The state of core e that the invariant reads, apart from the lock words.*)
(***************************************************************************)
SameHelper(e) ==
  /\ step'[e] = step[e] /\ todo'[e] = todo[e] /\ part'[e] = part[e]
  /\ open'[e] = open[e] /\ depth'[e] = depth[e]

(***************************************************************************)
(* A step of core c keeps the invariant when it keeps c's own part, leaves *)
(* the other cores' helpers and holder words alone, opens no gate another  *)
(* core stands behind and enters no domain another core is in.             *)
(***************************************************************************)
LEMMA CoreFrame ==
  ASSUME IndInv, NEW c \in Cores, TypeOK', CoreInv(c)',
         \A e \in Cores \ {c} : SameHelper(e),
         \A e \in Cores \ {c} : \A d \in Dom : holder'[d] = e <=> holder[d] = e,
         \A e \in Cores \ {c} : \A d \in Locked(e) : gate'[d],
         \A e \in Cores \ {c} : Locked(c)' \cap Locked(e) = {}
  PROVE  IndInv'
  <1>1. ASSUME NEW e \in Cores \ {c}
        PROVE  /\ Held(e)' = Held(e) /\ Locked(e)' = Locked(e)
               /\ \A d \in Dom : Dropped(e, d)' <=> Dropped(e, d)
    BY DEF SameHelper, Held, Locked, Dropped
  <1>2. ASSUME NEW e \in Cores \ {c} PROVE CoreInv(e)'
    <2>1. CoreInv(e)
      BY DEF IndInv
    <2>2. HelperShape(e)' /\ BracketsDisjoint(e)'
      BY <1>1, <2>1 DEF CoreInv, HelperShape, BracketsDisjoint, SameHelper
    <2>3. HolderWord(e)'
      BY <1>1, <2>1 DEF CoreInv, HolderWord
    <2>4. GateClosed(e)'
      BY <1>1 DEF GateClosed
    <2> QED BY <2>2, <2>3, <2>4 DEF CoreInv
  <1>3. LockedDisjoint'
    <2> SUFFICES ASSUME NEW c1 \in Cores, NEW c2 \in Cores, c1 # c2
                 PROVE  Locked(c1)' \cap Locked(c2)' = {}
      BY DEF LockedDisjoint
    <2>1. CASE c1 = c
      BY <1>1, <2>1
    <2>2. CASE c2 = c
      BY <1>1, <2>2
    <2>3. CASE c1 # c /\ c2 # c
      BY <1>1, <2>3 DEF IndInv, LockedDisjoint
    <2> QED BY <2>1, <2>2, <2>3
  <1> QED BY <1>2, <1>3 DEF IndInv

(***************************************************************************)
(* Every domain set of the code, from doms_of, the command table or the    *)
(* shell's brackets, is a set of the five domains.                         *)
(***************************************************************************)
LEMMA DomainSets ==
  /\ all_bits \subseteq Dom /\ {kernel} \subseteq Dom
  /\ {ev, kernel} \subseteq Dom /\ {win, ev} \subseteq Dom
  /\ \A bits \in doms_of : bits \subseteq Dom
  /\ \A bits \in CommandDoms : bits \subseteq Dom
  /\ \A bits \in MainBrackets : bits \subseteq Dom
  <1>1. file \in Dom /\ net \in Dom /\ win \in Dom /\ ev \in Dom /\ kernel \in Dom
    BY DEF file, net, win, ev, kernel, Dom
  <1> QED BY <1>1 DEF all_bits, doms_of, CommandDoms, MainBrackets

(***************************************************************************)
(* The steps that touch no lock word and no helper: entries and returns.   *)
(***************************************************************************)
LEMMA EntryKeeps ==
  ASSUME IndInv, NEW c \in Cores,
         svc_entry(c) \/ command_entry(c) \/ fault_entry(c) \/ tick_entry(c)
           \/ eret(c)
  PROVE  IndInv'
  <1>1. UNCHANGED <<gate, holder, saved, helperVars>>
    BY DEF svc_entry, command_entry, fault_entry, tick_entry, eret, lockVars
  <1>2. TypeOK'
    <2>1. masked' \in [Cores -> BOOLEAN]
      BY DEF svc_entry, command_entry, fault_entry, tick_entry, eret, lockVars,
             IndInv, TypeOK
    <2>2. level' \in [Cores -> Levels] /\ back' \in [Cores -> Levels]
      BY DEF svc_entry, command_entry, fault_entry, tick_entry, eret,
             IndInv, TypeOK, Levels
    <2>3. doms' \in [Cores -> SUBSET Dom]
      BY DomainSets DEF svc_entry, command_entry, fault_entry, tick_entry, eret,
             IndInv, TypeOK
    <2> QED BY <1>1, <2>1, <2>2, <2>3 DEF IndInv, TypeOK, helperVars
  <1>3. ASSUME NEW e \in Cores
        PROVE  CoreInv(e)' /\ Locked(e)' = Locked(e)
    BY <1>1 DEF IndInv, CoreInv, HelperShape, BracketsDisjoint, HolderWord,
       GateClosed, Held, Locked, Dropped, helperVars
  <1>4. LockedDisjoint'
    BY <1>3 DEF IndInv, LockedDisjoint
  <1> QED BY <1>2, <1>3, <1>4 DEF IndInv

(***************************************************************************)
(* Opening a bracket pushes its mask on the core's own stack of brackets.  *)
(***************************************************************************)
LEMMA OpenBracketEffect ==
  ASSUME TypeOK, NEW c \in Cores, NEW taken \in SUBSET Dom,
         depth[c] < MaxDepth, OpenBracket(c, taken)
  PROVE  /\ open' \in [Cores -> [1..MaxDepth -> SUBSET Dom]]
         /\ depth' \in [Cores -> 0..MaxDepth]
         /\ depth'[c] = depth[c] + 1
         /\ depth[c] = 0 => open'[c][1] = taken /\ open'[c][2] = open[c][2]
         /\ depth[c] = 1 => open'[c][1] = open[c][1] /\ open'[c][2] = taken
         /\ \A e \in Cores \ {c} : open'[e] = open[e] /\ depth'[e] = depth[e]
  <1> DEFINE k == depth[c] + 1
  <1>1. depth[c] \in 0..1 /\ k \in 1..2 /\ open[c] \in [1..2 -> SUBSET Dom]
    BY DEF TypeOK, MaxDepth
  <1>2. open' = [open EXCEPT ![c] = [open[c] EXCEPT ![k] = taken]]
    BY DEF OpenBracket
  <1>3. [open[c] EXCEPT ![k] = taken] \in [1..2 -> SUBSET Dom]
    BY <1>1
  <1>4. open' \in [Cores -> [1..MaxDepth -> SUBSET Dom]]
    BY <1>2, <1>3 DEF TypeOK, MaxDepth
  <1>5. open'[c] = [open[c] EXCEPT ![k] = taken]
    BY <1>2 DEF TypeOK
  <1>6. depth' \in [Cores -> 0..MaxDepth] /\ depth'[c] = depth[c] + 1
    BY <1>1 DEF OpenBracket, TypeOK, MaxDepth
  <1>7. \A e \in Cores \ {c} : open'[e] = open[e] /\ depth'[e] = depth[e]
    BY <1>2 DEF OpenBracket, TypeOK
  <1> QED BY <1>1, <1>4, <1>5, <1>6, <1>7

(***************************************************************************)
(* Starting a helper for domains the core does not hold.                   *)
(***************************************************************************)
LEMMA BeginKeeps ==
  ASSUME IndInv, NEW c \in Cores, NEW want \in SUBSET Dom,
         want \cap Held(c) = {}, NEW first \in {"mask", "try"},
         Begin(c, want, first), UNCHANGED <<lockVars, callerVars>>
  PROVE  IndInv'
  <1>1. CoreInv(c) /\ TypeOK
    BY DEF IndInv
  <1>2. step[c] = "none" /\ depth[c] \in 0..1 /\ part' = part /\ part[c] = {}
        /\ open[c][2] = {} /\ open[c] \in [1..2 -> SUBSET Dom]
    BY <1>1 DEF Begin, TypeOK, CoreInv, HelperShape, MaxDepth
  <1>9. open'[c][1] = open[c][1] /\ open'[c][2] = open[c][2]
    <2>1. CASE want = {}
      <3>1. OpenBracket(c, {}) /\ depth[c] < MaxDepth /\ {} \in SUBSET Dom
        BY <2>1 DEF Begin
      <3>2. /\ depth[c] = 0 => open'[c][1] = {} /\ open'[c][2] = open[c][2]
            /\ depth[c] = 1 => open'[c][1] = open[c][1] /\ open'[c][2] = {}
        BY <1>1, <3>1, OpenBracketEffect
      <3>3. depth[c] = 0 => open[c][1] = {}
        BY <1>1 DEF CoreInv, HelperShape
      <3>4. depth[c] = 0 \/ depth[c] = 1
        BY <1>2
      <3> QED BY <1>2, <3>2, <3>3, <3>4
    <2>2. CASE want # {}
      BY <2>2 DEF Begin
    <2> QED BY <2>1, <2>2
  <1>3. Held(c)' = Held(c) /\ Locked(c)' = Held(c)
    <2>1. Held(c)' = Held(c)
      BY <1>2, <1>9 DEF Held
    <2>2. step'[c] \in {"none", "mask", "try"}
      BY <1>1, <1>2 DEF Begin, TypeOK
    <2> QED BY <2>1, <2>2 DEF Locked
  <1>4. TypeOK'
    <2>1. open' \in [Cores -> [1..MaxDepth -> SUBSET Dom]]
          /\ depth' \in [Cores -> 0..MaxDepth]
      BY <1>1, OpenBracketEffect DEF Begin, TypeOK
    <2>2. step' \in [Cores -> Steps] /\ todo' \in [Cores -> SUBSET Dom]
      BY <1>1 DEF Begin, TypeOK, Steps
    <2> QED BY <1>1, <1>2, <2>1, <2>2 DEF TypeOK, lockVars, callerVars
  <1>5. CoreInv(c)'
    <2>0. todo'[c] \subseteq want /\ (step'[c] = "none" => todo'[c] = {})
          /\ depth'[c] \in depth[c]..2
          /\ (step'[c] # "none" => depth'[c] = depth[c])
          /\ step'[c] \in {"none", "mask", "try"}
      BY <1>1, <1>2 DEF Begin, OpenBracket, TypeOK, CoreInv, HelperShape
    <2>1. HelperShape(c)' /\ BracketsDisjoint(c)'
      BY <1>1, <1>2, <1>9, <1>3, <2>0 DEF CoreInv, HelperShape,
         BracketsDisjoint, MaxDepth
    <2>2. HolderWord(c)'
      BY <1>1, <1>3 DEF Begin, CoreInv, HolderWord, Dropped, TypeOK, lockVars
    <2>3. GateClosed(c)'
      BY <1>1, <1>3 DEF CoreInv, GateClosed, Locked, lockVars
    <2> QED BY <2>1, <2>2, <2>3 DEF CoreInv
  <1>6. \A e \in Cores \ {c} : SameHelper(e)
    BY <1>1 DEF Begin, OpenBracket, SameHelper, TypeOK
  <1>7. Locked(c)' \subseteq Locked(c)
    BY <1>3 DEF Locked
  <1>8. \A e \in Cores \ {c} : /\ Locked(c)' \cap Locked(e) = {}
                              /\ \A d \in Locked(e) : gate'[d]
    BY <1>7 DEF IndInv, LockedDisjoint, CoreInv, GateClosed, lockVars
  <1> QED BY <1>4, <1>5, <1>6, <1>8, CoreFrame DEF lockVars

(***************************************************************************)
(* A bracket opened through missing(), or opened while none is open, asks  *)
(* only for domains the core does not hold.                                *)
(***************************************************************************)
LEMMA MissingDisjoint ==
  ASSUME IndInv, NEW c \in Cores, NEW bits \in SUBSET Dom, step[c] = "none"
  PROVE  /\ missing(c, bits) \in SUBSET Dom
         /\ missing(c, bits) \cap Held(c) = {}
         /\ depth[c] = 0 => bits \cap Held(c) = {}
  <1>1. CoreInv(c) /\ TypeOK
    BY DEF IndInv
  <1>2. missing(c, bits) \cap Held(c) = {}
    BY <1>1 DEF missing, CoreInv, HolderWord, Dropped
  <1>3. depth[c] = 0 => Held(c) = {}
    BY <1>1 DEF CoreInv, HelperShape, Held
  <1> QED BY <1>2, <1>3 DEF missing

(***************************************************************************)
(* The callers that open a bracket (shell, dispatch, page fault, copy-out  *)
(* and tick) keep the invariant.                                           *)
(***************************************************************************)
LEMMA BracketKeeps ==
  ASSUME IndInv, NEW c \in Cores,
         main_bracket(c) \/ dispatch_acquire(c) \/ handler_bracket(c)
           \/ fault_bracket(c) \/ tick_bracket(c)
  PROVE  IndInv'
  <1>1. UNCHANGED <<lockVars, callerVars>> /\ step[c] = "none"
    BY DEF main_bracket, dispatch_acquire, handler_bracket, fault_bracket,
       tick_bracket, acquire_missing, acquire_set, try_take, Begin
  <1>2. ASSUME NEW bits \in SUBSET Dom, acquire_missing(c, bits) PROVE IndInv'
    BY <1>1, <1>2, MissingDisjoint, BeginKeeps DEF acquire_missing, acquire_set
  <1>3. ASSUME NEW bits \in SUBSET Dom, try_take(c, bits) PROVE IndInv'
    BY <1>1, <1>3, MissingDisjoint, BeginKeeps DEF try_take
  <1>4. ASSUME NEW bits \in SUBSET Dom, depth[c] = 0, acquire_set(c, bits)
        PROVE  IndInv'
    BY <1>1, <1>4, MissingDisjoint, BeginKeeps DEF acquire_set
  <1>5. CASE main_bracket(c)
    BY <1>2, <1>5, DomainSets DEF main_bracket
  <1>6. CASE dispatch_acquire(c)
    <2>1. doms[c] \in SUBSET Dom
      BY DEF IndInv, TypeOK
    <2> QED BY <1>2, <1>4, <1>6, <2>1 DEF dispatch_acquire
  <1>7. CASE handler_bracket(c)
    BY <1>2, <1>3, <1>7, DomainSets DEF handler_bracket
  <1>8. CASE fault_bracket(c)
    BY <1>2, <1>4, <1>8, DomainSets DEF fault_bracket
  <1>9. CASE tick_bracket(c)
    BY <1>3, <1>9, DomainSets DEF tick_bracket
  <1> QED BY <1>5, <1>6, <1>7, <1>8, <1>9

(***************************************************************************)
(* Closing the innermost bracket moves its mask to the release in          *)
(* progress: the core stays inside the same domains.                       *)
(***************************************************************************)
LEMMA ReleaseSetKeeps ==
  ASSUME IndInv, NEW c \in Cores, release_set(c), level' \in [Cores -> Levels],
         back' = back, doms' = doms
  PROVE  IndInv'
  <1>1. CoreInv(c) /\ TypeOK
    BY DEF IndInv
  <1> DEFINE k == depth[c]
             taken == open[c][k]
  <1>2. k \in 1..2 /\ open[c] \in [1..2 -> SUBSET Dom] /\ taken \in SUBSET Dom
    BY <1>1 DEF release_set, TypeOK, MaxDepth
  <1>3. step[c] = "none" /\ part[c] = {} /\ todo[c] = {}
    BY <1>1 DEF release_set, CoreInv, HelperShape
  <1>4. open' = [open EXCEPT ![c] = [open[c] EXCEPT ![k] = {}]]
    BY DEF release_set
  <1>5. open'[c] = [open[c] EXCEPT ![k] = {}] /\ part'[c] = taken
    BY <1>1, <1>4 DEF release_set, TypeOK
  <1>6. /\ step'[c] = IF taken = {} THEN "none" ELSE "drop"
        /\ depth'[c] = k - 1
        /\ todo' = todo
    BY <1>1 DEF release_set, TypeOK
  <1>7. TypeOK'
    <2>1. open' \in [Cores -> [1..MaxDepth -> SUBSET Dom]]
      <3>1. [open[c] EXCEPT ![k] = {}] \in [1..2 -> SUBSET Dom]
        BY <1>2
      <3> QED BY <1>1, <1>4, <3>1 DEF TypeOK, MaxDepth
    <2>2. depth' \in [Cores -> 0..MaxDepth]
      BY <1>1, <1>2 DEF release_set, TypeOK, MaxDepth
    <2>3. step' \in [Cores -> Steps] /\ part' \in [Cores -> SUBSET Dom]
      BY <1>1, <1>2 DEF release_set, TypeOK, Steps
    <2> QED BY <1>1, <1>6, <2>1, <2>2, <2>3 DEF TypeOK, release_set, lockVars
  <1>8. k = 1 \/ k = 2
    BY <1>2
  <1>9. /\ k = 1 => open'[c][1] = {} /\ open'[c][2] = {} /\ open[c][2] = {}
        /\ k = 2 => open'[c][1] = open[c][1] /\ open'[c][2] = {}
    BY <1>1, <1>2, <1>5 DEF CoreInv, HelperShape
  <1>10. Held(c)' = Held(c) /\ Locked(c)' = Held(c)
    <2>1. Held(c)' = Held(c)
      BY <1>3, <1>5, <1>8, <1>9 DEF Held
    <2> QED BY <1>6, <2>1 DEF Locked
  <1>11. CoreInv(c)'
    <2>1. HelperShape(c)'
      BY <1>2, <1>3, <1>5, <1>6, <1>8, <1>9 DEF HelperShape, MaxDepth
    <2>2. BracketsDisjoint(c)'
      BY <1>1, <1>3, <1>5, <1>6, <1>8, <1>9 DEF CoreInv, BracketsDisjoint
    <2>3. HolderWord(c)'
      BY <1>1, <1>3, <1>6, <1>10
         DEF CoreInv, HolderWord, Dropped, release_set, lockVars
    <2>4. GateClosed(c)'
      BY <1>1, <1>10 DEF CoreInv, GateClosed, Locked, release_set, lockVars
    <2> QED BY <2>1, <2>2, <2>3, <2>4 DEF CoreInv
  <1>12. \A e \in Cores \ {c} : SameHelper(e)
    BY <1>1 DEF release_set, SameHelper, TypeOK
  <1>13. \A e \in Cores \ {c} : /\ Locked(c)' \cap Locked(e) = {}
                               /\ \A d \in Locked(e) : gate'[d]
    <2>1. Locked(c)' \subseteq Locked(c)
      BY <1>10 DEF Locked
    <2> QED BY <2>1 DEF IndInv, LockedDisjoint, CoreInv, GateClosed, release_set,
               lockVars
  <1> QED BY <1>7, <1>11, <1>12, <1>13, CoreFrame DEF release_set, lockVars

(***************************************************************************)
(* The callers that close a bracket, among them the block whose defer ends *)
(* before the handler, keep the invariant.                                 *)
(***************************************************************************)
LEMMA CloseKeeps ==
  ASSUME IndInv, NEW c \in Cores, CloseStep(c)
  PROVE  IndInv'
  <1>1. CASE main_release(c) \/ bracket_end(c)
    BY <1>1, ReleaseSetKeeps
       DEF main_release, bracket_end, callerVars, IndInv, TypeOK
  <1>2. CASE dispatch_end_block(c)
    <2>1. level' \in [Cores -> Levels] /\ UNCHANGED <<back, doms>>
      BY <1>2 DEF dispatch_end_block, HandlerLevel, IndInv, TypeOK, Levels
    <2>2. CASE release_set(c)
      BY <2>1, <2>2, ReleaseSetKeeps
    <2>3. CASE UNCHANGED <<lockVars, helperVars>>
      <3>1. TypeOK'
        BY <2>1, <2>3 DEF IndInv, TypeOK, lockVars, helperVars
      <3>2. ASSUME NEW e \in Cores
            PROVE  CoreInv(e)' /\ Locked(e)' = Locked(e)
        BY <2>3 DEF IndInv, CoreInv, HelperShape, BracketsDisjoint, HolderWord,
           GateClosed, Held, Locked, Dropped, helperVars, lockVars
      <3> QED BY <3>1, <3>2 DEF IndInv, LockedDisjoint
    <2> QED BY <1>2, <2>2, <2>3 DEF dispatch_end_block
  <1> QED BY <1>1, <1>2 DEF CloseStep

(***************************************************************************)
(* Masking interrupts and saving the old mask before the spin touches no   *)
(* lock word and keeps the invariant.                                      *)
(***************************************************************************)
LEMMA AcquireMaskKeeps ==
  ASSUME IndInv, NEW c \in Cores, acquire_mask(c)
  PROVE  IndInv'
  <1>1. CoreInv(c) /\ TypeOK
    BY DEF IndInv
  <1>2. TypeOK'
    BY <1>1 DEF acquire_mask, TypeOK, Steps, callerVars
  <1>3. step[c] = "mask" /\ step'[c] = "spin"
    BY <1>1 DEF acquire_mask, TypeOK
  <1>4. UNCHANGED <<gate, holder, todo, part, open, depth>>
    BY DEF acquire_mask
  <1>5. Held(c)' = Held(c) /\ Locked(c)' = Held(c) /\ Locked(c) = Held(c)
    BY <1>3, <1>4 DEF Held, Locked
  <1>6. CoreInv(c)'
    BY <1>1, <1>3, <1>4, <1>5 DEF CoreInv, HelperShape, BracketsDisjoint,
       HolderWord, GateClosed, Dropped
  <1>7. \A e \in Cores \ {c} : SameHelper(e)
    BY <1>1, <1>4 DEF acquire_mask, SameHelper, TypeOK
  <1>8. \A e \in Cores \ {c} : /\ Locked(c)' \cap Locked(e) = {}
                              /\ \A d \in Locked(e) : gate'[d]
    BY <1>4, <1>5 DEF IndInv, LockedDisjoint, CoreInv, GateClosed
  <1> QED BY <1>2, <1>4, <1>6, <1>7, <1>8, CoreFrame

(***************************************************************************)
(* The compare-and-swap: an open gate means that nobody is inside.         *)
(***************************************************************************)
LEMMA LockKeeps ==
  ASSUME IndInv, NEW c \in Cores, spinlock_lock(c) \/ try_lock(c)
  PROVE  IndInv'
  <1>1. CoreInv(c) /\ TypeOK
    BY DEF IndInv
  <1>2. PICK d \in todo[c] :
          IsFirst(d, todo[c]) /\ ~gate[d] /\ gate' = [gate EXCEPT ![d] = TRUE]
    BY DEF spinlock_lock, try_lock
  <1>3. step[c] \in {"spin", "try"} /\ step'[c] \in {"own", "tryown"} /\ d \in Dom
    BY <1>1 DEF spinlock_lock, try_lock, TypeOK
  <1>4. UNCHANGED <<holder, saved, masked, level, back, doms, todo, part, open, depth>>
    BY DEF spinlock_lock, try_lock, callerVars
  <1>5. TypeOK'
    <2>1. step' \in [Cores -> Steps]
      BY <1>1 DEF spinlock_lock, try_lock, TypeOK, Steps
    <2>2. gate' \in [Dom -> BOOLEAN]
      BY <1>1, <1>2 DEF TypeOK
    <2> QED BY <1>1, <1>4, <2>1, <2>2 DEF TypeOK
  <1>6. Held(c)' = Held(c) /\ Locked(c)' = Held(c) \cup {d} /\ Locked(c) = Held(c)
    <2>1. \A e \in todo[c] : IsFirst(e, todo[c]) <=> e = d
      BY <1>1, <1>2 DEF IsFirst, TypeOK, Dom
    <2> QED BY <1>3, <1>4, <2>1 DEF Held, Locked
  <1>7. CoreInv(c)'
    <2>1. HelperShape(c)' /\ BracketsDisjoint(c)' /\ HolderWord(c)'
      BY <1>1, <1>3, <1>4, <1>6 DEF CoreInv, HelperShape, BracketsDisjoint,
         HolderWord, Dropped
    <2>2. GateClosed(c)'
      BY <1>1, <1>2, <1>3, <1>6 DEF CoreInv, GateClosed, TypeOK
    <2> QED BY <2>1, <2>2 DEF CoreInv
  <1>8. \A e \in Cores \ {c} : SameHelper(e)
    BY <1>1, <1>4 DEF spinlock_lock, try_lock, SameHelper, TypeOK
  <1>9. \A e \in Cores \ {c} : d \notin Locked(e) /\ Locked(e) \subseteq Dom
    BY <1>1, <1>2 DEF IndInv, CoreInv, GateClosed, Locked, Held, TypeOK, MaxDepth
  <1>10. \A e \in Cores \ {c} : /\ Locked(c)' \cap Locked(e) = {}
                               /\ \A x \in Locked(e) : gate'[x]
    BY <1>1, <1>2, <1>6, <1>9
       DEF IndInv, LockedDisjoint, CoreInv, GateClosed, TypeOK
  <1> QED BY <1>4, <1>5, <1>7, <1>8, <1>10, CoreFrame

(***************************************************************************)
(* The holder write: the domain moves from the taking to the taken, or the *)
(* helper returns and everything it took becomes the new bracket.          *)
(***************************************************************************)
LEMMA OwnKeeps ==
  ASSUME IndInv, NEW c \in Cores, acquire_own(c) \/ try_own(c)
  PROVE  IndInv'
  <1>1. CoreInv(c) /\ TypeOK
    BY DEF IndInv
  <1>2. PICK again \in {"mask", "try"} : TookFirst(c, again)
    BY DEF acquire_own, try_own
  <1>3. PICK d \in todo[c] :
          /\ IsFirst(d, todo[c])
          /\ holder' = [holder EXCEPT ![d] = c]
          /\ todo' = [todo EXCEPT ![c] = @ \ {d}]
          /\ IF todo[c] = {d}
               THEN /\ OpenBracket(c, part[c] \cup {d})
                    /\ part' = [part EXCEPT ![c] = {}]
                    /\ step' = [step EXCEPT ![c] = "none"]
               ELSE /\ part' = [part EXCEPT ![c] = @ \cup {d}]
                    /\ step' = [step EXCEPT ![c] = again]
                    /\ UNCHANGED <<open, depth>>
    BY <1>2 DEF TookFirst
  <1>4. /\ step[c] \in {"own", "tryown"} /\ d \in Dom /\ depth[c] \in 0..1
        /\ open[c][2] = {} /\ d \notin Held(c)
        /\ part[c] \cup {d} \in SUBSET Dom
    BY <1>1 DEF acquire_own, try_own, TypeOK, CoreInv, HelperShape, MaxDepth,
       BracketsDisjoint
  <1>5. UNCHANGED <<gate, level, back, doms>>
    BY DEF acquire_own, try_own, callerVars
  <1>6. todo[c] = {d} => OpenBracket(c, part[c] \cup {d}) /\ depth[c] < MaxDepth
    BY <1>3, <1>4 DEF MaxDepth
  <1>7. todo'[c] = todo[c] \ {d}
    BY <1>1, <1>3 DEF TypeOK
  <1>8. TypeOK'
    <2>1. saved' \in [Cores -> [Dom -> BOOLEAN]] /\ masked' \in [Cores -> BOOLEAN]
      <3>1. CASE acquire_own(c)
        BY <1>1, <3>1 DEF acquire_own, TypeOK
      <3>2. CASE try_own(c)
        <4>1. PICK x \in todo[c] : saved' = [saved EXCEPT ![c][x] = masked[c]]
          BY <3>2 DEF try_own
        <4>2. x \in Dom /\ masked[c] \in BOOLEAN /\ saved[c] \in [Dom -> BOOLEAN]
          BY <1>1 DEF TypeOK
        <4>3. [saved[c] EXCEPT ![x] = masked[c]] \in [Dom -> BOOLEAN]
          BY <4>2
        <4>4. saved' \in [Cores -> [Dom -> BOOLEAN]]
          BY <1>1, <4>1, <4>3 DEF TypeOK
        <4> QED BY <1>1, <3>2, <4>4 DEF try_own, TypeOK
      <3> QED BY <3>1, <3>2
    <2>2. open' \in [Cores -> [1..MaxDepth -> SUBSET Dom]]
          /\ depth' \in [Cores -> 0..MaxDepth]
      <3>1. CASE todo[c] = {d}
        BY <1>1, <1>4, <1>6, <3>1, OpenBracketEffect
      <3>2. CASE todo[c] # {d}
        BY <1>1, <1>3, <3>2 DEF TypeOK
      <3> QED BY <3>1, <3>2
    <2>3. /\ holder' \in [Dom -> Cores \cup {NoCore}]
          /\ todo' \in [Cores -> SUBSET Dom]
          /\ part' \in [Cores -> SUBSET Dom]
          /\ step' \in [Cores -> Steps]
      BY <1>1, <1>3, <1>4 DEF TypeOK, Steps
    <2> QED BY <1>1, <1>5, <2>1, <2>2, <2>3 DEF TypeOK
  <1> DEFINE After == /\ Held(c)' = Held(c) \cup {d}
                      /\ Locked(c)' = Held(c) \cup {d}
                      /\ HelperShape(c)'
                      /\ BracketsDisjoint(c)'
  <1>9. ASSUME todo[c] = {d} PROVE After
    <2>1. part'[c] = {} /\ step'[c] = "none" /\ todo'[c] = {}
      BY <1>1, <1>3, <1>7, <1>9 DEF TypeOK
    <2>2. /\ depth'[c] = depth[c] + 1
          /\ depth[c] = 0 => open'[c][1] = part[c] \cup {d} /\ open'[c][2] = {}
          /\ depth[c] = 1 => open'[c][1] = open[c][1] /\ open'[c][2] = part[c] \cup {d}
      BY <1>1, <1>4, <1>6, <1>9, OpenBracketEffect
    <2>3. (depth[c] = 0 \/ depth[c] = 1) /\ (depth[c] = 0 => open[c][1] = {})
      BY <1>1, <1>4 DEF CoreInv, HelperShape
    <2>4. Held(c)' = Held(c) \cup {d} /\ Locked(c)' = Held(c) \cup {d}
      <3>1. Held(c)' = Held(c) \cup {d}
        BY <1>4, <2>1, <2>2, <2>3 DEF Held
      <3> QED BY <2>1, <3>1 DEF Locked
    <2>5. HelperShape(c)'
      BY <1>4, <2>1, <2>2, <2>3 DEF HelperShape, MaxDepth
    <2>6. BracketsDisjoint(c)'
      <3>1. part[c] \cap open[c][1] = {} /\ d \notin open[c][1]
        BY <1>1, <1>4 DEF CoreInv, BracketsDisjoint, Held
      <3> QED BY <2>1, <2>2, <2>3, <3>1 DEF BracketsDisjoint
    <2> QED BY <2>4, <2>5, <2>6
  <1>10. ASSUME todo[c] # {d} PROVE After
    <2>1. /\ part'[c] = part[c] \cup {d} /\ step'[c] = again
          /\ open' = open /\ depth' = depth
      BY <1>1, <1>3, <1>10 DEF TypeOK
    <2>2. Held(c)' = Held(c) \cup {d} /\ Locked(c)' = Held(c) \cup {d}
      BY <2>1 DEF Held, Locked
    <2>3. HelperShape(c)'
      BY <1>1, <1>4, <2>1 DEF CoreInv, HelperShape, MaxDepth
    <2>4. BracketsDisjoint(c)'
      BY <1>1, <1>4, <1>7, <2>1, <2>2 DEF CoreInv, BracketsDisjoint, Held
    <2> QED BY <2>2, <2>3, <2>4
  <1>11. After
    BY <1>9, <1>10
  <1>19. step'[c] # "unlock"
    BY <1>1, <1>3 DEF TypeOK
  <1>12. Locked(c) = Held(c) \cup {d}
    <2>1. \A e \in todo[c] : IsFirst(e, todo[c]) <=> e = d
      BY <1>1, <1>3 DEF IsFirst, TypeOK, Dom
    <2> QED BY <1>3, <1>4, <2>1 DEF Locked
  <1>13. HolderWord(c)'
    <2>1. \A x \in Dom : holder[x] = c <=> x \in Held(c)
      BY <1>1, <1>4 DEF CoreInv, HolderWord, Dropped
    <2>2. \A x \in Dom : holder'[x] = c <=> (x = d \/ holder[x] = c)
      BY <1>1, <1>3 DEF TypeOK
    <2> QED BY <1>11, <1>19, <2>1, <2>2 DEF HolderWord, Dropped
  <1>14. GateClosed(c)'
    BY <1>1, <1>5, <1>11, <1>12 DEF CoreInv, GateClosed
  <1>15. \A e \in Cores \ {c} : SameHelper(e)
    BY <1>1, <1>3, <1>4, <1>6, OpenBracketEffect DEF SameHelper, TypeOK
  <1>16. \A e \in Cores \ {c} : \A x \in Dom : holder'[x] = e <=> holder[x] = e
    <2>1. \A e \in Cores \ {c} : holder[d] # e
      <3> SUFFICES ASSUME NEW e \in Cores \ {c}, holder[d] = e PROVE FALSE
        OBVIOUS
      <3>1. d \in Locked(e)
        BY <1>4 DEF IndInv, CoreInv, HolderWord, Locked
      <3> QED BY <1>12, <3>1 DEF IndInv, LockedDisjoint
    <2> QED BY <1>1, <1>3, <2>1 DEF TypeOK
  <1>17. \A e \in Cores \ {c} : /\ Locked(c)' \cap Locked(e) = {}
                               /\ \A x \in Locked(e) : gate'[x]
    BY <1>5, <1>11, <1>12 DEF IndInv, LockedDisjoint, CoreInv, GateClosed
  <1>18. CoreInv(c)'
    BY <1>11, <1>13, <1>14 DEF CoreInv
  <1> QED BY <1>8, <1>15, <1>16, <1>17, <1>18, CoreFrame

(***************************************************************************)
(* A refused try_take turns into the release of what it took.              *)
(***************************************************************************)
LEMMA RefusedKeeps ==
  ASSUME IndInv, NEW c \in Cores, try_refused(c)
  PROVE  IndInv'
  <1>1. CoreInv(c) /\ TypeOK
    BY DEF IndInv
  <1>2. TypeOK'
    BY <1>1 DEF try_refused, TypeOK, Steps, lockVars, callerVars
  <1>3. /\ step[c] = "try" /\ todo'[c] = {}
        /\ step'[c] = IF part[c] = {} THEN "none" ELSE "drop"
    BY <1>1 DEF try_refused, TypeOK
  <1>4. UNCHANGED <<gate, holder, part, open, depth>>
    BY DEF try_refused, lockVars
  <1>5. Held(c)' = Held(c) /\ Locked(c)' = Held(c) /\ Locked(c) = Held(c)
    BY <1>3, <1>4 DEF Held, Locked
  <1>6. CoreInv(c)'
    BY <1>1, <1>3, <1>4, <1>5 DEF CoreInv, HelperShape, BracketsDisjoint,
       HolderWord, GateClosed, Dropped
  <1>7. \A e \in Cores \ {c} : SameHelper(e)
    BY <1>1, <1>4 DEF try_refused, SameHelper, TypeOK
  <1>8. \A e \in Cores \ {c} : /\ Locked(c)' \cap Locked(e) = {}
                              /\ \A d \in Locked(e) : gate'[d]
    BY <1>4, <1>5 DEF IndInv, LockedDisjoint, CoreInv, GateClosed
  <1> QED BY <1>2, <1>4, <1>6, <1>7, <1>8, CoreFrame

(***************************************************************************)
(* The holder clear: the domain is still locked but no longer recorded.    *)
(***************************************************************************)
LEMMA DropKeeps ==
  ASSUME IndInv, NEW c \in Cores, release_drop(c)
  PROVE  IndInv'
  <1>1. CoreInv(c) /\ TypeOK
    BY DEF IndInv
  <1>2. PICK d \in part[c] :
          IsLast(d, part[c]) /\ holder' = [holder EXCEPT ![d] = NoCore]
    BY DEF release_drop
  <1>3. step[c] = "drop" /\ step'[c] = "unlock" /\ d \in Dom /\ d \in Held(c)
    BY <1>1 DEF release_drop, TypeOK, Held
  <1>4. UNCHANGED <<gate, saved, masked, level, back, doms, todo, part, open, depth>>
    BY DEF release_drop, callerVars
  <1>5. TypeOK'
    <2>1. step' \in [Cores -> Steps] /\ holder' \in [Dom -> Cores \cup {NoCore}]
      BY <1>1, <1>2 DEF release_drop, TypeOK, Steps
    <2> QED BY <1>1, <1>4, <2>1 DEF TypeOK
  <1>6. Held(c)' = Held(c) /\ Locked(c)' = Held(c) /\ Locked(c) = Held(c)
    BY <1>3, <1>4 DEF Held, Locked
  <1>7. HolderWord(c)'
    <2>1. \A x \in Dom : IsLast(x, part[c]) <=> x = d
      BY <1>1, <1>2 DEF IsLast, TypeOK, Dom
    <2>2. \A x \in Dom : holder[x] = c <=> x \in Held(c)
      BY <1>1, <1>3 DEF CoreInv, HolderWord, Dropped
    <2>3. \A x \in Dom : holder'[x] = c <=> (x # d /\ holder[x] = c)
      BY <1>1, <1>2, CoresAssumption DEF TypeOK
    <2> QED BY <1>3, <1>4, <1>6, <2>1, <2>2, <2>3 DEF HolderWord, Dropped
  <1>8. CoreInv(c)'
    BY <1>1, <1>3, <1>4, <1>6, <1>7 DEF CoreInv, HelperShape, BracketsDisjoint,
       GateClosed
  <1>9. \A e \in Cores \ {c} : SameHelper(e)
    BY <1>1, <1>4 DEF release_drop, SameHelper, TypeOK
  <1>10. \A e \in Cores \ {c} : \A x \in Dom : holder'[x] = e <=> holder[x] = e
    <2>1. holder[d] = c
      BY <1>1, <1>3 DEF CoreInv, HolderWord, Dropped
    <2> QED BY <1>1, <1>2, <2>1, CoresAssumption DEF TypeOK
  <1>11. \A e \in Cores \ {c} : /\ Locked(c)' \cap Locked(e) = {}
                               /\ \A x \in Locked(e) : gate'[x]
    BY <1>4, <1>6 DEF IndInv, LockedDisjoint, CoreInv, GateClosed
  <1> QED BY <1>5, <1>8, <1>9, <1>10, <1>11, CoreFrame

(***************************************************************************)
(* The gate store: it opens a gate that only this core stood behind.       *)
(***************************************************************************)
LEMMA UnlockKeeps ==
  ASSUME IndInv, NEW c \in Cores, release_unlock(c)
  PROVE  IndInv'
  <1>1. CoreInv(c) /\ TypeOK
    BY DEF IndInv
  <1>2. PICK d \in part[c] :
          /\ IsLast(d, part[c])
          /\ Unlocked(c, d)
          /\ masked' = [masked EXCEPT ![c] = saved[c][d]]
    BY DEF release_unlock
  <1>3. /\ step[c] = "unlock" /\ d \in Dom /\ part'[c] = part[c] \ {d}
        /\ step'[c] = IF part[c] = {d} THEN "none" ELSE "drop"
        /\ gate' = [gate EXCEPT ![d] = FALSE]
    BY <1>1, <1>2 DEF release_unlock, Unlocked, TypeOK
  <1>4. UNCHANGED <<holder, level, back, doms, todo, open, depth>>
    BY DEF release_unlock, callerVars
  <1>5. TypeOK'
    <2>1. [saved[c] EXCEPT ![d] = FALSE] \in [Dom -> BOOLEAN]
      BY <1>1 DEF TypeOK
    <2>2. saved' \in [Cores -> [Dom -> BOOLEAN]]
      BY <1>1, <1>2, <2>1 DEF Unlocked, TypeOK
    <2>3. masked' \in [Cores -> BOOLEAN]
      <3>1. saved[c][d] \in BOOLEAN
        BY <1>1, <1>3 DEF TypeOK
      <3> QED BY <1>1, <1>2, <3>1 DEF TypeOK
    <2>4. /\ gate' \in [Dom -> BOOLEAN] /\ step' \in [Cores -> Steps]
          /\ part' \in [Cores -> SUBSET Dom]
      BY <1>1, <1>2 DEF Unlocked, TypeOK, Steps
    <2> QED BY <1>1, <1>4, <2>2, <2>3, <2>4 DEF TypeOK
  <1>6. d \in Held(c) /\ d \notin open[c][1] /\ d \notin open[c][2]
    BY <1>1 DEF CoreInv, BracketsDisjoint, Held
  <1>7. /\ Held(c)' = Held(c) \ {d} /\ Locked(c)' = Held(c) \ {d}
        /\ Locked(c) = Held(c)
    BY <1>3, <1>4, <1>6 DEF Held, Locked
  <1>8. HelperShape(c)' /\ BracketsDisjoint(c)'
    BY <1>1, <1>3, <1>4, <1>7 DEF CoreInv, HelperShape, BracketsDisjoint
  <1>9. HolderWord(c)'
    <2>1. \A x \in Dom : IsLast(x, part[c]) <=> x = d
      BY <1>1, <1>2 DEF IsLast, TypeOK, Dom
    <2>2. \A x \in Dom : holder[x] = c <=> (x \in Held(c) /\ x # d)
      BY <1>1, <1>3, <2>1 DEF CoreInv, HolderWord, Dropped
    <2> QED BY <1>3, <1>4, <1>7, <2>2 DEF HolderWord, Dropped
  <1>10. GateClosed(c)'
    BY <1>1, <1>3, <1>7 DEF CoreInv, GateClosed, TypeOK
  <1>11. \A e \in Cores \ {c} : SameHelper(e)
    BY <1>1, <1>2, <1>4 DEF Unlocked, SameHelper, TypeOK
  <1>12. \A e \in Cores \ {c} : d \notin Locked(e) /\ Locked(e) \subseteq Dom
    <2>1. \A e \in Cores : Locked(e) \subseteq Dom
      BY <1>1 DEF Locked, Held, TypeOK, MaxDepth
    <2> QED BY <1>6, <1>7, <2>1 DEF IndInv, LockedDisjoint
  <1>13. \A e \in Cores \ {c} : /\ Locked(c)' \cap Locked(e) = {}
                               /\ \A x \in Locked(e) : gate'[x]
    BY <1>1, <1>3, <1>7, <1>12
       DEF IndInv, LockedDisjoint, CoreInv, GateClosed, TypeOK
  <1>14. CoreInv(c)'
    BY <1>8, <1>9, <1>10 DEF CoreInv
  <1> QED BY <1>4, <1>5, <1>11, <1>13, <1>14, CoreFrame

(***************************************************************************)
(* Every step of every core, and stuttering, keeps the invariant.          *)
(***************************************************************************)
LEMMA NextKeeps == IndInv /\ [Next]_vars => IndInv'
  <1> SUFFICES ASSUME IndInv, [Next]_vars PROVE IndInv'
    OBVIOUS
  <1>1. CASE UNCHANGED vars
    <2>1. TypeOK'
      BY <1>1 DEF IndInv, TypeOK, vars
    <2>2. ASSUME NEW e \in Cores PROVE CoreInv(e)' /\ Locked(e)' = Locked(e)
      BY <1>1 DEF IndInv, CoreInv, HelperShape, BracketsDisjoint, HolderWord,
         GateClosed, Held, Locked, Dropped, vars
    <2> QED BY <2>1, <2>2 DEF IndInv, LockedDisjoint
  <1>2. ASSUME NEW c \in Cores, CoreStep(c) PROVE IndInv'
    <2>1. CASE HelperStep(c)
      BY <2>1, AcquireMaskKeeps, LockKeeps, OwnKeeps, RefusedKeeps, DropKeeps,
         UnlockKeeps DEF HelperStep
    <2>2. CASE CloseStep(c)
      BY <2>2, CloseKeeps
    <2>3. CASE main_bracket(c) \/ dispatch_acquire(c) \/ handler_bracket(c)
               \/ fault_bracket(c) \/ tick_bracket(c)
      BY <2>3, BracketKeeps
    <2>4. CASE svc_entry(c) \/ command_entry(c) \/ fault_entry(c)
               \/ tick_entry(c) \/ eret(c)
      BY <2>4, EntryKeeps
    <2> QED BY <1>2, <2>1, <2>2, <2>3, <2>4 DEF CoreStep
  <1> QED BY <1>1, <1>2 DEF Next

(***************************************************************************)
(* The strengthened invariant holds in every reachable state.              *)
(***************************************************************************)
THEOREM Invariance == Spec => []IndInv
  BY InitInv, NextKeeps, PTL DEF Spec

(***************************************************************************)
(* The lock words stay well formed for any number of cores.                *)
(***************************************************************************)
THEOREM TypeCorrect == Spec => []TypeOK
  <1>1. IndInv => TypeOK
    BY DEF IndInv
  <1> QED BY <1>1, Invariance, PTL

(***************************************************************************)
(* No two cores are inside the same service domain: the acquire/release    *)
(* pair, try_take with its rollback and the nested brackets of dispatch,   *)
(* exit, fault, reap and tick all keep the gate closed around the section. *)
(***************************************************************************)
THEOREM Exclusion == Spec => []MutualExclusion
  <1>1. IndInv => MutualExclusion
    BY DEF IndInv, LockedDisjoint, Locked, MutualExclusion
  <1> QED BY <1>1, Invariance, PTL

(***************************************************************************)
(* missing() and held() decide nested acquisitions on holder words that    *)
(* name exactly the domains the core is inside.                            *)
(***************************************************************************)
THEOREM HolderWordsExact == Spec => []HolderExact
  <1>1. IndInv => HolderExact
    BY DEF IndInv, CoreInv, HolderWord, Dropped, HolderExact
  <1> QED BY <1>1, Invariance, PTL
-----------------------------------------------------------------------------
(***************************************************************************)
(* The interrupt mask and the order of acquisition.                        *)
(*                                                                         *)
(* That a holder is masked is not inductive by itself: a release puts back *)
(* the mask saved when the domain was taken, so the proof has to say what  *)
(* every saved mask means.  A core runs masked exactly in an exception,    *)
(* inside a domain or past the mask step of an acquire; the mask saved     *)
(* with a domain says whether that would still be so once the domain and   *)
(* everything taken after it is gone.                                      *)
(***************************************************************************)

(***************************************************************************)
(* The hardware masked IRQs on the way into what core c runs.              *)
(***************************************************************************)
InException(c) == level[c] \in {"dispatch", "handler", "fault", "tick"}

MaskExact(c) ==
  masked[c] <=> (InException(c) \/ Held(c) # {} \/ step[c] \in {"spin", "own"})

(***************************************************************************)
(* The saved masks of the outer bracket, of the inner one, of the helper   *)
(* in progress and of the acquire in progress.                             *)
(***************************************************************************)
SavedOuter(c) ==
  \A d \in open[c][1] :
    saved[c][d] <=> (InException(c) \/ \E e \in open[c][1] : e < d)

SavedInner(c) ==
  \A d \in open[c][2] :
    saved[c][d] <=> \/ InException(c) \/ open[c][1] # {}
                    \/ \E e \in open[c][2] : e < d

SavedPart(c) ==
  \A d \in part[c] :
    saved[c][d] <=> \/ InException(c) \/ open[c][1] # {} \/ open[c][2] # {}
                    \/ \E e \in part[c] : e < d

SavedFirst(c) ==
  \A d \in todo[c] : step[c] \in {"spin", "own"} /\ IsFirst(d, todo[c]) =>
    (saved[c][d] <=> (InException(c) \/ Held(c) # {}))

(***************************************************************************)
(* A helper takes its domains in ascending order; only an outermost        *)
(* bracket blocks on a gate; try_take runs in exceptions; a tick           *)
(* interrupts nothing that is itself an exception.                         *)
(***************************************************************************)
Ascending(c)   == \A e \in part[c], d \in todo[c] : e < d
OutermostSpins(c) == step[c] \in {"mask", "spin", "own"} => depth[c] = 0
TryInException(c) == step[c] \in {"try", "tryown"} => InException(c)
TickBack(c)    == level[c] = "tick" => back[c] \in {"main", "command", "body"}

CoreMask(c) ==
  /\ MaskExact(c)
  /\ SavedOuter(c) /\ SavedInner(c) /\ SavedPart(c) /\ SavedFirst(c)
  /\ Ascending(c) /\ OutermostSpins(c) /\ TryInException(c) /\ TickBack(c)

MaskInv == \A c \in Cores : CoreMask(c)

(***************************************************************************)
(* At boot no core is in an exception, inside a domain or in a helper.     *)
(***************************************************************************)
LEMMA InitMask == Init => MaskInv
  <1> SUFFICES ASSUME Init, NEW c \in Cores PROVE CoreMask(c)
    BY DEF MaskInv
  <1>1. /\ ~masked[c] /\ level[c] = "main" /\ step[c] = "none" /\ todo[c] = {}
        /\ part[c] = {} /\ open[c][1] = {} /\ open[c][2] = {}
    BY DEF Init, MaxDepth
  <1> QED
    BY <1>1 DEF CoreMask, MaskExact, SavedOuter, SavedInner, SavedPart, SavedFirst,
       Ascending, OutermostSpins, TryInException, TickBack, InException, Held

(***************************************************************************)
(* Everything MaskInv reads of core e.                                     *)
(***************************************************************************)
SameCore(e) ==
  /\ SameHelper(e) /\ masked'[e] = masked[e] /\ saved'[e] = saved[e]
  /\ level'[e] = level[e] /\ back'[e] = back[e]

(***************************************************************************)
(* The mask and the saved masks are per core: a step of c concerns c only. *)
(***************************************************************************)
LEMMA MaskFrame ==
  ASSUME MaskInv, NEW c \in Cores, CoreMask(c)',
         \A e \in Cores \ {c} : SameCore(e)
  PROVE  MaskInv'
  <1> SUFFICES ASSUME NEW e \in Cores \ {c} PROVE CoreMask(e)'
    BY DEF MaskInv
  <1>1. CoreMask(e) /\ SameCore(e)
    BY DEF MaskInv
  <1>2. Held(e)' = Held(e) /\ (InException(e)' <=> InException(e))
    BY <1>1 DEF SameCore, SameHelper, Held, InException
  <1>3. MaskExact(e)' /\ OutermostSpins(e)' /\ TryInException(e)' /\ TickBack(e)'
    BY <1>1, <1>2 DEF CoreMask, SameCore, SameHelper, MaskExact, OutermostSpins,
       TryInException, TickBack
  <1>4. SavedOuter(e)' /\ SavedInner(e)' /\ SavedPart(e)' /\ SavedFirst(e)'
        /\ Ascending(e)'
    BY <1>1, <1>2 DEF CoreMask, SameCore, SameHelper, SavedOuter, SavedInner,
       SavedPart, SavedFirst, Ascending
  <1> QED BY <1>3, <1>4 DEF CoreMask

(***************************************************************************)
(* A step by c changes no per-core word of another core.                   *)
(***************************************************************************)
LEMMA OwnStateOnly ==
  ASSUME TypeOK, NEW c \in Cores, CoreStep(c), NEW e \in Cores \ {c}
  PROVE  SameCore(e)
  <1> USE DEF TypeOK, SameCore, SameHelper, lockVars, callerVars, helperVars
  <1>1. CASE HelperStep(c)
    <2>1. CASE acquire_mask(c) \/ spinlock_lock(c) \/ try_lock(c)
      BY <2>1 DEF acquire_mask, spinlock_lock, try_lock
    <2>2. CASE acquire_own(c) \/ try_own(c)
      BY <2>2 DEF acquire_own, try_own, TookFirst, OpenBracket
    <2>3. CASE try_refused(c) \/ release_drop(c)
      BY <2>3 DEF try_refused, release_drop
    <2>4. CASE release_unlock(c)
      BY <2>4 DEF release_unlock, Unlocked
    <2> QED BY <1>1, <2>1, <2>2, <2>3, <2>4 DEF HelperStep
  <1>2. CASE CloseStep(c)
    BY <1>2 DEF CloseStep, main_release, dispatch_end_block, bracket_end, release_set
  <1>3. ASSUME NEW want, NEW first, Begin(c, want, first),
               UNCHANGED <<lockVars, callerVars>>
        PROVE  SameCore(e)
    BY <1>3 DEF Begin, OpenBracket
  <1>4. CASE main_bracket(c) \/ dispatch_acquire(c) \/ handler_bracket(c)
             \/ fault_bracket(c) \/ tick_bracket(c)
    BY <1>3, <1>4 DEF main_bracket, dispatch_acquire, handler_bracket,
       fault_bracket, tick_bracket, acquire_missing, acquire_set, try_take
  <1>5. CASE svc_entry(c) \/ command_entry(c) \/ fault_entry(c) \/ tick_entry(c)
             \/ eret(c)
    BY <1>5 DEF svc_entry, command_entry, fault_entry, tick_entry, eret
  <1> QED BY <1>1, <1>2, <1>4, <1>5 DEF CoreStep

(***************************************************************************)
(* Between helpers and with no bracket open, the mask of a core depends on *)
(* what it runs only: the entries and returns that set level and mask      *)
(* together keep the invariant.                                            *)
(***************************************************************************)
LEMMA EntryMask ==
  ASSUME IndInv, MaskInv, NEW c \in Cores,
         svc_entry(c) \/ command_entry(c) \/ fault_entry(c) \/ tick_entry(c)
           \/ eret(c)
  PROVE  CoreMask(c)'
  <1>1. CoreMask(c) /\ CoreInv(c) /\ TypeOK
    BY DEF IndInv, MaskInv
  <1>2. UNCHANGED <<saved, step, todo, part, open, depth>> /\ step[c] = "none"
    BY DEF svc_entry, command_entry, fault_entry, tick_entry, eret, lockVars,
       helperVars, Quiet
  <1>3. Held(c) = {}
    <2>1. CASE depth[c] = 0
      BY <1>1, <1>2, <2>1 DEF CoreInv, HelperShape, Held
    <2>2. CASE ~masked[c]
      BY <1>1, <2>2 DEF CoreMask, MaskExact
    <2> QED BY <2>1, <2>2 DEF svc_entry, command_entry, fault_entry, tick_entry,
         eret, Quiet
  <1>4. /\ open[c][1] = {} /\ open[c][2] = {} /\ part[c] = {} /\ todo[c] = {}
    BY <1>1, <1>2, <1>3 DEF Held, CoreInv, HelperShape
  <1>5. MaskExact(c)' /\ TickBack(c)'
    <2>1. Held(c)' = {} /\ step'[c] = "none"
      BY <1>2, <1>3 DEF Held
    <2>2. CASE svc_entry(c) \/ fault_entry(c)
      <3>1. level'[c] \in {"dispatch", "fault"} /\ masked'[c]
        BY <1>1, <2>2 DEF svc_entry, fault_entry, TypeOK
      <3> QED BY <2>1, <3>1 DEF MaskExact, TickBack, InException
    <2>3. CASE command_entry(c)
      <3>1. level[c] = "main" /\ level'[c] = "command" /\ masked' = masked
        BY <1>1, <2>3 DEF command_entry, TypeOK, lockVars
      <3> QED BY <1>1, <1>2, <1>3, <2>1, <3>1
           DEF CoreMask, MaskExact, TickBack, InException
    <2>4. CASE tick_entry(c)
      <3>1. level'[c] = "tick" /\ masked'[c] /\ back'[c] = level[c] /\ ~masked[c]
        BY <1>1, <2>4 DEF tick_entry, TypeOK
      <3>2. level[c] \in Levels /\ ~InException(c)
        BY <1>1, <3>1 DEF CoreMask, MaskExact, TypeOK
      <3> QED BY <2>1, <3>1, <3>2 DEF MaskExact, TickBack, InException, Levels
    <2>5. CASE eret(c)
      <3>1. ~masked'[c] /\ level'[c] \in {"main", "command", "body"}
        BY <1>1, <2>5 DEF eret, TypeOK, CoreMask, TickBack
      <3> QED BY <2>1, <3>1 DEF MaskExact, TickBack, InException
    <2> QED BY <2>2, <2>3, <2>4, <2>5
  <1> QED BY <1>2, <1>4, <1>5 DEF CoreMask, SavedOuter, SavedInner, SavedPart,
       SavedFirst, Ascending, OutermostSpins, TryInException

(***************************************************************************)
(* Opening a bracket: a blocking helper starts only with no bracket open,  *)
(* a try only in an exception, and an empty request takes nothing.         *)
(***************************************************************************)
LEMMA BeginMask ==
  ASSUME IndInv, MaskInv, NEW c \in Cores, NEW want \in SUBSET Dom,
         NEW first \in {"mask", "try"}, Begin(c, want, first),
         UNCHANGED <<lockVars, callerVars>>,
         first = "mask" /\ want # {} => depth[c] = 0,
         first = "try" => InException(c)
  PROVE  CoreMask(c)'
  <1>1. CoreMask(c) /\ CoreInv(c) /\ TypeOK
    BY DEF IndInv, MaskInv
  <1>2. /\ step[c] = "none" /\ part' = part /\ part[c] = {} /\ todo[c] = {}
        /\ open[c][2] = {} /\ UNCHANGED <<saved, masked, level, back>>
    BY <1>1 DEF Begin, TypeOK, CoreInv, HelperShape, MaxDepth, lockVars, callerVars
  <1>3. open'[c][1] = open[c][1] /\ open'[c][2] = open[c][2]
    <2>1. CASE want = {}
      <3>1. OpenBracket(c, {}) /\ depth[c] < MaxDepth
        BY <2>1 DEF Begin
      <3>2. /\ depth[c] = 0 => open'[c][1] = {} /\ open'[c][2] = open[c][2]
            /\ depth[c] = 1 => open'[c][1] = open[c][1] /\ open'[c][2] = {}
        BY <1>1, <3>1, OpenBracketEffect
      <3>3. depth[c] = 0 => open[c][1] = {}
        BY <1>1 DEF CoreInv, HelperShape
      <3>4. depth[c] = 0 \/ depth[c] = 1
        BY <1>1, <3>1 DEF TypeOK, MaxDepth
      <3> QED BY <1>2, <3>2, <3>3, <3>4
    <2>2. CASE want # {}
      BY <2>2 DEF Begin
    <2> QED BY <2>1, <2>2
  <1>4. Held(c)' = Held(c) /\ (InException(c)' <=> InException(c))
    BY <1>2, <1>3 DEF Held, InException
  <1>5. \/ step'[c] = "none" /\ todo'[c] = {}
        \/ step'[c] = "mask" /\ depth'[c] = 0
        \/ step'[c] = "try" /\ InException(c)
    BY <1>1, <1>2 DEF Begin, TypeOK
  <1>6. MaskExact(c)' /\ OutermostSpins(c)' /\ TryInException(c)' /\ TickBack(c)'
    BY <1>1, <1>2, <1>4, <1>5 DEF CoreMask, MaskExact, OutermostSpins,
       TryInException, TickBack
  <1>7. SavedOuter(c)' /\ SavedInner(c)' /\ SavedPart(c)' /\ SavedFirst(c)'
        /\ Ascending(c)'
    BY <1>1, <1>2, <1>3, <1>4, <1>5 DEF CoreMask, SavedOuter, SavedInner,
       SavedPart, SavedFirst, Ascending
  <1> QED BY <1>6, <1>7 DEF CoreMask

(***************************************************************************)
(* The keyboard decode, which asks again for win and ev under a bracket    *)
(* that took both, is told by missing() that there is nothing to take:     *)
(* every other blocking request is made with no bracket open.              *)
(***************************************************************************)
LEMMA BracketMask ==
  ASSUME IndInv, MaskInv, NEW c \in Cores,
         main_bracket(c) \/ dispatch_acquire(c) \/ handler_bracket(c)
           \/ fault_bracket(c) \/ tick_bracket(c)
  PROVE  CoreMask(c)'
  <1>1. CoreInv(c) /\ TypeOK
    BY DEF IndInv
  <1>2. UNCHANGED <<lockVars, callerVars>> /\ step[c] = "none"
    BY DEF main_bracket, dispatch_acquire, handler_bracket, fault_bracket,
       tick_bracket, acquire_missing, acquire_set, try_take, Begin
  <1>3. ASSUME NEW bits \in SUBSET Dom, acquire_missing(c, bits),
               depth[c] = 0 \/ missing(c, bits) = {}
        PROVE  CoreMask(c)'
    <2>1. missing(c, bits) \in SUBSET Dom
      BY DEF missing
    <2> QED BY <1>2, <1>3, <2>1, BeginMask DEF acquire_missing, acquire_set
  <1>4. ASSUME NEW bits \in SUBSET Dom, acquire_set(c, bits), depth[c] = 0
        PROVE  CoreMask(c)'
    BY <1>2, <1>4, BeginMask DEF acquire_set
  <1>5. ASSUME NEW bits \in SUBSET Dom, try_take(c, bits), InException(c)
        PROVE  CoreMask(c)'
    <2>1. missing(c, bits) \in SUBSET Dom
      BY DEF missing
    <2> QED BY <1>2, <1>5, <2>1, BeginMask DEF try_take
  <1>6. CASE main_bracket(c)
    <2>1. open[c][1] = {win, ev} => missing(c, {win, ev}) = {}
      BY <1>1, <1>2 DEF CoreInv, HolderWord, Dropped, Held, missing, win, ev, Dom
    <2> QED BY <1>3, <1>6, <2>1, DomainSets DEF main_bracket
  <1>7. CASE dispatch_acquire(c)
    <2>1. doms[c] \in SUBSET Dom
      BY <1>1 DEF TypeOK
    <2> QED BY <1>3, <1>4, <1>7, <2>1 DEF dispatch_acquire
  <1>8. CASE handler_bracket(c)
    BY <1>3, <1>5, <1>8, DomainSets DEF handler_bracket, InException
  <1>9. CASE fault_bracket(c)
    BY <1>3, <1>4, <1>9, DomainSets DEF fault_bracket
  <1>10. CASE tick_bracket(c)
    BY <1>5, <1>10, DomainSets DEF tick_bracket, InException
  <1> QED BY <1>6, <1>7, <1>8, <1>9, <1>10

(***************************************************************************)
(* Closing a bracket hands its domains, with their saved masks, to the     *)
(* release; a dispatcher that leaves its block stays on the same side of   *)
(* the exception boundary.                                                 *)
(***************************************************************************)
LEMMA CloseMask ==
  ASSUME IndInv, MaskInv, NEW c \in Cores, CloseStep(c)
  PROVE  CoreMask(c)'
  <1>1. CoreMask(c) /\ CoreInv(c) /\ TypeOK
    BY DEF IndInv, MaskInv
  <1>2. /\ InException(c)' <=> InException(c)
        /\ TickBack(c)'
        /\ UNCHANGED <<saved, masked, todo>> /\ step[c] = "none"
    <2>1. UNCHANGED <<saved, masked, todo, back>> /\ step[c] = "none"
      BY DEF CloseStep, main_release, dispatch_end_block, bracket_end, release_set,
         lockVars, callerVars, helperVars
    <2>2. \/ level' = level
          \/ level[c] = "dispatch" /\ level'[c] = "handler"
          \/ level[c] = "command" /\ level'[c] = "body"
      BY <1>1 DEF CloseStep, main_release, dispatch_end_block, bracket_end,
         HandlerLevel, TypeOK, callerVars
    <2> QED BY <1>1, <2>1, <2>2 DEF CoreMask, TickBack, InException
  <1>3. part[c] = {} /\ todo[c] = {} /\ open[c] \in [1..2 -> SUBSET Dom]
    BY <1>1, <1>2 DEF CoreInv, HelperShape, TypeOK, MaxDepth
  <1>4. \/ release_set(c)
        \/ UNCHANGED <<lockVars, helperVars>>
    BY DEF CloseStep, main_release, dispatch_end_block, bracket_end
  <1>5. CASE release_set(c)
    <2>1. depth[c] = 1 \/ depth[c] = 2
      BY <1>1, <1>5 DEF release_set, TypeOK, MaxDepth
    <2>2. /\ part'[c] = open[c][depth[c]]
          /\ step'[c] \in {"none", "drop"}
          /\ open'[c] = [open[c] EXCEPT ![depth[c]] = {}]
      BY <1>1, <1>5 DEF release_set, TypeOK
    <2>3. \/ /\ part'[c] = open[c][1] /\ open'[c][1] = {} /\ open'[c][2] = {}
             /\ open[c][2] = {}
          \/ /\ part'[c] = open[c][2] /\ open'[c][1] = open[c][1]
             /\ open'[c][2] = {}
      BY <1>1, <1>3, <2>1, <2>2 DEF CoreInv, HelperShape
    <2>4. Held(c)' = Held(c)
      BY <1>3, <2>3 DEF Held
    <2>5. MaskExact(c)' /\ OutermostSpins(c)' /\ TryInException(c)' /\ Ascending(c)'
          /\ SavedFirst(c)'
      BY <1>1, <1>2, <1>3, <2>2, <2>4 DEF CoreMask, MaskExact, OutermostSpins,
         TryInException, Ascending, SavedFirst
    <2>6. SavedOuter(c)' /\ SavedInner(c)' /\ SavedPart(c)'
      BY <1>1, <1>2, <2>3 DEF CoreMask, SavedOuter, SavedInner, SavedPart
    <2> QED BY <1>2, <2>5, <2>6 DEF CoreMask
  <1>6. CASE UNCHANGED <<lockVars, helperVars>>
    <2>1. UNCHANGED <<saved, masked, step, todo, part, open, depth>>
          /\ Held(c)' = Held(c)
      BY <1>6 DEF lockVars, helperVars, Held
    <2>2. MaskExact(c)' /\ OutermostSpins(c)' /\ TryInException(c)' /\ Ascending(c)'
      BY <1>1, <1>2, <2>1 DEF CoreMask, MaskExact, OutermostSpins, TryInException,
         Ascending
    <2>3. SavedOuter(c)' /\ SavedInner(c)' /\ SavedPart(c)' /\ SavedFirst(c)'
      BY <1>1, <1>2, <2>1 DEF CoreMask, SavedOuter, SavedInner, SavedPart, SavedFirst
    <2> QED BY <1>2, <2>2, <2>3 DEF CoreMask
  <1> QED BY <1>4, <1>5, <1>6

(***************************************************************************)
(* acquire saves the mask it finds: the one of everything held before.     *)
(***************************************************************************)
LEMMA AcquireMaskMask ==
  ASSUME IndInv, MaskInv, NEW c \in Cores, acquire_mask(c)
  PROVE  CoreMask(c)'
  <1>1. CoreMask(c) /\ CoreInv(c) /\ TypeOK
    BY DEF IndInv, MaskInv
  <1>2. PICK d \in todo[c] :
          IsFirst(d, todo[c]) /\ saved' = [saved EXCEPT ![c][d] = masked[c]]
    BY DEF acquire_mask
  <1>3. /\ step[c] = "mask" /\ step'[c] = "spin" /\ masked'[c]
        /\ UNCHANGED <<level, back, todo, part, open, depth>>
    BY <1>1 DEF acquire_mask, TypeOK, callerVars
  <1>4. /\ saved'[c][d] = masked[c]
        /\ \A x \in Dom : x # d => saved'[c][x] = saved[c][x]
        /\ d \in Dom /\ d \notin Held(c) /\ Held(c) \subseteq Dom
        /\ todo[c] \subseteq Dom
    BY <1>1, <1>2 DEF TypeOK, CoreInv, BracketsDisjoint, Held, MaxDepth
  <1>5. Held(c)' = Held(c) /\ (InException(c)' <=> InException(c))
    BY <1>3 DEF Held, InException
  <1>6. \A x \in Held(c) : saved'[c][x] = saved[c][x]
    BY <1>4
  <1>7. SavedOuter(c)' /\ SavedInner(c)' /\ SavedPart(c)'
    BY <1>1, <1>3, <1>5, <1>6 DEF CoreMask, SavedOuter, SavedInner, SavedPart, Held
  <1>8. SavedFirst(c)'
    <2>1. saved'[c][d] <=> (InException(c) \/ Held(c) # {})
      BY <1>1, <1>3, <1>4 DEF CoreMask, MaskExact
    <2>2. \A x \in todo[c] : IsFirst(x, todo[c]) => x = d
      BY <1>2, <1>4 DEF IsFirst, Dom
    <2> QED BY <1>3, <1>5, <2>1, <2>2 DEF SavedFirst
  <1>9. MaskExact(c)' /\ Ascending(c)' /\ OutermostSpins(c)' /\ TryInException(c)'
        /\ TickBack(c)'
    BY <1>1, <1>3, <1>5 DEF CoreMask, MaskExact, Ascending, OutermostSpins,
       TryInException, TickBack
  <1> QED BY <1>7, <1>8, <1>9 DEF CoreMask

(***************************************************************************)
(* The compare-and-swap, the refusal of a try and the holder clear move no *)
(* domain and touch no mask.                                               *)
(***************************************************************************)
LEMMA GateMask ==
  ASSUME IndInv, MaskInv, NEW c \in Cores,
         spinlock_lock(c) \/ try_lock(c) \/ try_refused(c) \/ release_drop(c)
  PROVE  CoreMask(c)'
  <1>1. CoreMask(c) /\ CoreInv(c) /\ TypeOK
    BY DEF IndInv, MaskInv
  <1>2. UNCHANGED <<saved, masked, level, back, part, open, depth>>
    BY DEF spinlock_lock, try_lock, try_refused, release_drop, lockVars, callerVars
  <1>3. \/ step[c] = "spin" /\ step'[c] = "own" /\ todo' = todo
        \/ step[c] = "try" /\ step'[c] = "tryown" /\ todo' = todo
        \/ step[c] = "try" /\ step'[c] \in {"none", "drop"} /\ todo'[c] = {}
        \/ step[c] = "drop" /\ step'[c] = "unlock" /\ todo' = todo
    BY <1>1 DEF spinlock_lock, try_lock, try_refused, release_drop, TypeOK
  <1>4. Held(c)' = Held(c) /\ (InException(c)' <=> InException(c))
    BY <1>2 DEF Held, InException
  <1>5. MaskExact(c)' /\ Ascending(c)' /\ OutermostSpins(c)' /\ TryInException(c)'
        /\ TickBack(c)'
    BY <1>1, <1>2, <1>3, <1>4 DEF CoreMask, MaskExact, Ascending, OutermostSpins,
       TryInException, TickBack
  <1>6. SavedOuter(c)' /\ SavedInner(c)' /\ SavedPart(c)'
    BY <1>1, <1>2, <1>4 DEF CoreMask, SavedOuter, SavedInner, SavedPart
  <1>7. SavedFirst(c)'
    BY <1>1, <1>2, <1>3, <1>4 DEF CoreMask, SavedFirst
  <1> QED BY <1>5, <1>6, <1>7 DEF CoreMask

(***************************************************************************)
(* The end of an acquire: the domain taken is above everything the helper  *)
(* took before it, so its saved mask is the one of the domains below it.   *)
(***************************************************************************)
LEMMA OwnMask ==
  ASSUME IndInv, MaskInv, NEW c \in Cores, acquire_own(c) \/ try_own(c)
  PROVE  CoreMask(c)'
  <1>1. CoreMask(c) /\ CoreInv(c) /\ TypeOK
    BY DEF IndInv, MaskInv
  <1>2. PICK again \in {"mask", "try"} :
          /\ TookFirst(c, again)
          /\ \/ again = "mask" /\ acquire_own(c)
             \/ again = "try" /\ try_own(c)
    BY DEF acquire_own, try_own
  <1>3. PICK d \in todo[c] :
          /\ IsFirst(d, todo[c])
          /\ todo' = [todo EXCEPT ![c] = @ \ {d}]
          /\ IF todo[c] = {d}
               THEN /\ OpenBracket(c, part[c] \cup {d})
                    /\ part' = [part EXCEPT ![c] = {}]
                    /\ step' = [step EXCEPT ![c] = "none"]
               ELSE /\ part' = [part EXCEPT ![c] = @ \cup {d}]
                    /\ step' = [step EXCEPT ![c] = again]
                    /\ UNCHANGED <<open, depth>>
    BY <1>2 DEF TookFirst
  <1>4. /\ d \in Dom /\ d \notin Held(c) /\ Held(c) \subseteq Dom
        /\ todo[c] \subseteq Dom /\ part[c] \subseteq Dom /\ open[c][2] = {}
        /\ depth[c] = 0 \/ depth[c] = 1
        /\ depth[c] = 0 => open[c][1] = {}
        /\ UNCHANGED <<level, back>>
    <2>1. step[c] \in {"own", "tryown"} /\ UNCHANGED <<level, back>>
      BY DEF acquire_own, try_own, callerVars
    <2>2. open[c] \in [1..2 -> SUBSET Dom] /\ depth[c] \in 0..2
      BY <1>1 DEF TypeOK, MaxDepth
    <2> QED BY <1>1, <2>1, <2>2 DEF TypeOK, CoreInv, HelperShape, BracketsDisjoint,
         Held, MaxDepth
  <1>5. /\ \A x \in part[c] : x < d
        /\ \A x \in part[c] \cup {d}, y \in todo[c] \ {d} : x < y
    BY <1>1, <1>3, <1>4 DEF CoreMask, Ascending, IsFirst, Dom
  <1>6. /\ masked'[c]
        /\ saved'[c][d] <=> (InException(c) \/ Held(c) # {})
        /\ \A x \in Held(c) : saved'[c][x] = saved[c][x]
        /\ again = "mask" => depth[c] = 0
        /\ again = "try" => InException(c)
    <2>1. CASE again = "mask"
      <3>1. step[c] = "own" /\ UNCHANGED <<saved, masked>>
        BY <1>2, <2>1 DEF acquire_own
      <3> QED BY <1>1, <1>3, <2>1, <3>1 DEF CoreMask, MaskExact, SavedFirst,
           OutermostSpins
    <2>2. CASE again = "try"
      <3>1. step[c] = "tryown" /\ masked' = [masked EXCEPT ![c] = TRUE]
        BY <1>2, <2>2 DEF try_own
      <3>2. PICK x \in todo[c] :
              IsFirst(x, todo[c]) /\ saved' = [saved EXCEPT ![c][x] = masked[c]]
        BY <1>2, <2>2 DEF try_own
      <3>3. x = d
        BY <1>3, <1>4, <3>2 DEF IsFirst, Dom
      <3>4. InException(c) /\ masked[c]
        BY <1>1, <3>1 DEF CoreMask, TryInException, MaskExact
      <3>5. saved'[c] = [saved[c] EXCEPT ![d] = masked[c]] /\ masked'[c]
        BY <1>1, <3>1, <3>2, <3>3 DEF TypeOK
      <3>6. saved'[c][d] = masked[c] /\ \A y \in Held(c) : saved'[c][y] = saved[c][y]
        BY <1>1, <1>4, <3>5 DEF TypeOK
      <3> QED BY <2>2, <3>4, <3>5, <3>6
    <2> QED BY <2>1, <2>2
  <1>7. (InException(c)' <=> InException(c)) /\ TickBack(c)'
    BY <1>1, <1>4 DEF InException, CoreMask, TickBack
  <1>8. Held(c) = open[c][1] \cup part[c]
    BY <1>4 DEF Held
  <1>9. CASE todo[c] = {d}
    <2>1. part'[c] = {} /\ step'[c] = "none" /\ todo'[c] = {}
      BY <1>1, <1>3, <1>9 DEF TypeOK
    <2>2. /\ depth[c] = 0 => open'[c][1] = part[c] \cup {d} /\ open'[c][2] = {}
          /\ depth[c] = 1 => /\ open'[c][1] = open[c][1]
                             /\ open'[c][2] = part[c] \cup {d}
      <3>1. OpenBracket(c, part[c] \cup {d}) /\ depth[c] < MaxDepth
            /\ part[c] \cup {d} \in SUBSET Dom
        BY <1>3, <1>4, <1>9 DEF MaxDepth
      <3> QED BY <1>1, <1>4, <3>1, OpenBracketEffect
    <2>3. Held(c)' = Held(c) \cup {d}
      BY <1>4, <1>8, <2>1, <2>2 DEF Held
    <2>4. MaskExact(c)' /\ OutermostSpins(c)' /\ TryInException(c)' /\ Ascending(c)'
          /\ SavedPart(c)' /\ SavedFirst(c)'
      BY <1>6, <2>1, <2>3 DEF MaskExact, OutermostSpins, TryInException, Ascending,
         SavedPart, SavedFirst
    <2>5. CASE depth[c] = 0
      <3>1. \A x \in part[c] :
              saved'[c][x] <=> (InException(c) \/ \E e \in part[c] : e < x)
        BY <1>1, <1>4, <1>6, <1>8, <2>5 DEF CoreMask, SavedPart
      <3>2. \A x \in part[c] : ~(d < x)
        BY <1>4, <1>5 DEF Dom
      <3>3. ~(d < d)
        BY <1>4 DEF Dom
      <3>4. saved'[c][d] <=> (InException(c) \/ \E e \in part[c] \cup {d} : e < d)
        BY <1>4, <1>5, <1>6, <1>8, <2>5, <3>3
      <3>5. \A x \in part[c] \cup {d} :
              saved'[c][x] <=> (InException(c) \/ \E e \in part[c] \cup {d} : e < x)
        BY <3>1, <3>2, <3>4
      <3> QED BY <1>7, <2>2, <2>4, <2>5, <3>5 DEF CoreMask, SavedOuter, SavedInner
    <2>6. CASE depth[c] = 1
      <3>1. InException(c)
        BY <1>2, <1>6, <2>6
      <3>2. \A x \in Held(c) : saved'[c][x]
        BY <1>1, <1>4, <1>6, <1>8, <3>1 DEF CoreMask, SavedOuter, SavedPart
      <3> QED BY <1>6, <1>7, <1>8, <2>2, <2>4, <2>6, <3>1, <3>2
           DEF CoreMask, SavedOuter, SavedInner
    <2> QED BY <1>4, <2>5, <2>6
  <1>10. CASE todo[c] # {d}
    <2>1. /\ part'[c] = part[c] \cup {d} /\ step'[c] = again
          /\ todo'[c] = todo[c] \ {d} /\ open' = open /\ depth' = depth
      BY <1>1, <1>3, <1>10 DEF TypeOK
    <2>2. Held(c)' = Held(c) \cup {d}
      BY <2>1 DEF Held
    <2>3. MaskExact(c)' /\ OutermostSpins(c)' /\ TryInException(c)' /\ SavedFirst(c)'
      BY <1>2, <1>6, <1>7, <2>1, <2>2 DEF MaskExact, OutermostSpins, TryInException,
         SavedFirst
    <2>4. Ascending(c)'
      BY <1>5, <2>1 DEF Ascending
    <2>5. SavedOuter(c)' /\ SavedInner(c)'
      BY <1>1, <1>4, <1>6, <1>7, <1>8, <2>1 DEF CoreMask, SavedOuter, SavedInner
    <2>6. SavedPart(c)'
      <3> DEFINE Below(x, S) == InException(c) \/ open[c][1] # {} \/ \E e \in S : e < x
      <3>1. \A x \in part[c] : saved'[c][x] <=> Below(x, part[c])
        BY <1>1, <1>4, <1>6, <1>8 DEF CoreMask, SavedPart
      <3>2. \A x \in part[c] : ~(d < x)
        BY <1>4, <1>5 DEF Dom
      <3>3. ~(d < d)
        BY <1>4 DEF Dom
      <3>4. saved'[c][d] <=> Below(d, part[c] \cup {d})
        BY <1>5, <1>6, <1>8, <3>3
      <3>5. \A x \in part[c] \cup {d} : saved'[c][x] <=> Below(x, part[c] \cup {d})
        BY <3>1, <3>2, <3>4
      <3> QED BY <1>4, <1>7, <2>1, <3>5 DEF SavedPart
    <2> QED BY <1>7, <2>3, <2>4, <2>5, <2>6 DEF CoreMask
  <1> QED BY <1>9, <1>10

(***************************************************************************)
(* release puts back the mask saved with the highest domain of the         *)
(* bracket: it is masked exactly when the core is still in an exception or *)
(* still inside some domain.                                               *)
(***************************************************************************)
LEMMA UnlockMask ==
  ASSUME IndInv, MaskInv, NEW c \in Cores, release_unlock(c)
  PROVE  CoreMask(c)'
  <1>1. CoreMask(c) /\ CoreInv(c) /\ TypeOK
    BY DEF IndInv, MaskInv
  <1>2. PICK d \in part[c] :
          /\ IsLast(d, part[c])
          /\ Unlocked(c, d)
          /\ masked' = [masked EXCEPT ![c] = saved[c][d]]
    BY DEF release_unlock
  <1>3. /\ step[c] = "unlock" /\ part'[c] = part[c] \ {d}
        /\ step'[c] \in {"none", "drop"}
        /\ masked'[c] = saved[c][d]
        /\ saved'[c] = [saved[c] EXCEPT ![d] = FALSE]
        /\ UNCHANGED <<level, back, todo, open, depth>>
    BY <1>1, <1>2 DEF release_unlock, Unlocked, TypeOK, callerVars
  <1>4. /\ d \in Dom /\ d \notin open[c][1] /\ d \notin open[c][2]
        /\ part[c] \subseteq Dom /\ todo[c] = {}
        /\ open[c][1] \subseteq Dom /\ open[c][2] \subseteq Dom
    <2>1. open[c] \in [1..2 -> SUBSET Dom]
      BY <1>1 DEF TypeOK, MaxDepth
    <2> QED BY <1>1, <1>3, <2>1 DEF TypeOK, CoreInv, HelperShape, BracketsDisjoint
  <1>5. \A x \in Dom : x # d => saved'[c][x] = saved[c][x]
    BY <1>1, <1>3 DEF TypeOK
  <1>6. /\ Held(c)' = open[c][1] \cup open[c][2] \cup (part[c] \ {d})
        /\ InException(c)' <=> InException(c)
    BY <1>3 DEF Held, InException
  <1>7. \A x \in part[c] \ {d} : x < d /\ ~(d < x)
    BY <1>2, <1>4 DEF IsLast, Dom
  <1>8. ~(d < d)
    BY <1>4 DEF Dom
  <1>9. MaskExact(c)'
    <2>1. saved[c][d] <=> \/ InException(c) \/ open[c][1] # {} \/ open[c][2] # {}
                          \/ part[c] \ {d} # {}
      BY <1>1, <1>7, <1>8 DEF CoreMask, SavedPart
    <2> QED BY <1>3, <1>6, <2>1 DEF MaskExact
  <1>10. SavedOuter(c)' /\ SavedInner(c)'
    BY <1>1, <1>3, <1>4, <1>5, <1>6 DEF CoreMask, SavedOuter, SavedInner
  <1>11. SavedPart(c)'
    BY <1>1, <1>3, <1>4, <1>5, <1>6, <1>7 DEF CoreMask, SavedPart
  <1>12. SavedFirst(c)' /\ Ascending(c)' /\ OutermostSpins(c)' /\ TryInException(c)'
         /\ TickBack(c)'
    BY <1>1, <1>3, <1>4 DEF CoreMask, SavedFirst, Ascending, OutermostSpins,
       TryInException, TickBack
  <1> QED BY <1>9, <1>10, <1>11, <1>12 DEF CoreMask

(***************************************************************************)
(* Every step of every core, and stuttering, keeps the mask invariant.     *)
(***************************************************************************)
LEMMA NextMask == IndInv /\ MaskInv /\ [Next]_vars => MaskInv'
  <1> SUFFICES ASSUME IndInv, MaskInv, [Next]_vars PROVE MaskInv'
    OBVIOUS
  <1>1. CASE UNCHANGED vars
    <2> SUFFICES ASSUME NEW c \in Cores PROVE CoreMask(c)'
      BY DEF MaskInv
    <2>1. CoreMask(c) /\ Held(c)' = Held(c) /\ (InException(c)' <=> InException(c))
      BY <1>1 DEF MaskInv, Held, InException, vars
    <2>2. UNCHANGED <<saved, masked, level, back, step, todo, part, open, depth>>
      BY <1>1 DEF vars
    <2> QED BY <2>1, <2>2 DEF CoreMask, MaskExact, SavedOuter, SavedInner, SavedPart,
         SavedFirst, Ascending, OutermostSpins, TryInException, TickBack
  <1>2. ASSUME NEW c \in Cores, CoreStep(c) PROVE MaskInv'
    <2>1. \A e \in Cores \ {c} : SameCore(e)
      BY <1>2, OwnStateOnly DEF IndInv
    <2>2. CoreMask(c)'
      <3>1. CASE HelperStep(c)
        BY <3>1, AcquireMaskMask, GateMask, OwnMask, UnlockMask DEF HelperStep
      <3>2. CASE CloseStep(c)
        BY <3>2, CloseMask
      <3>3. CASE main_bracket(c) \/ dispatch_acquire(c) \/ handler_bracket(c)
                 \/ fault_bracket(c) \/ tick_bracket(c)
        BY <3>3, BracketMask
      <3>4. CASE svc_entry(c) \/ command_entry(c) \/ fault_entry(c)
                 \/ tick_entry(c) \/ eret(c)
        BY <3>4, EntryMask
      <3> QED BY <1>2, <3>1, <3>2, <3>3, <3>4 DEF CoreStep
    <2> QED BY <2>1, <2>2, MaskFrame
  <1> QED BY <1>1, <1>2 DEF Next

(***************************************************************************)
(* The meaning of every mask word holds in every reachable state.          *)
(***************************************************************************)
THEOREM MaskInvariance == Spec => []MaskInv
  BY InitMask, NextMask, Invariance, PTL DEF Spec

(***************************************************************************)
(* "IRQ-masked holders always run to completion": whatever nesting of      *)
(* acquire, try_take with rollback and release a core runs, it is masked   *)
(* from before its first compare-and-swap until after its last gate store. *)
(***************************************************************************)
THEOREM HoldersMasked == Spec => []HolderMasked
  <1>1. MaskInv => HolderMasked
    BY DEF MaskInv, CoreMask, MaskExact, TryInException, HolderMasked, Locked
  <1> QED BY <1>1, MaskInvariance, PTL

(***************************************************************************)
(* A core that waits for a gate holds only domains below it in canonical   *)
(* order: no cycle of cores waiting for one another.                       *)
(***************************************************************************)
THEOREM OrderKept == Spec => []CanonicalOrder
  <1>1. IndInv /\ MaskInv => CanonicalOrder
    <2> SUFFICES ASSUME IndInv, MaskInv, NEW c \in Cores,
                        step[c] \in {"mask", "spin"},
                        NEW d \in todo[c], NEW e \in Held(c)
                 PROVE  e < d
      BY DEF CanonicalOrder
    <2>1. CoreMask(c) /\ CoreInv(c)
      BY DEF IndInv, MaskInv
    <2>2. depth[c] = 0
      BY <2>1 DEF CoreMask, OutermostSpins
    <2>3. Held(c) = part[c]
      BY <2>1, <2>2 DEF CoreInv, HelperShape, Held
    <2> QED BY <2>1, <2>3 DEF CoreMask, Ascending
  <1> QED BY <1>1, MaskInvariance, Invariance, PTL

(***************************************************************************)
(* With its last bracket closed a core has the mask of the context that    *)
(* opened it: no release leaves a task masked or an exception unmasked.    *)
(***************************************************************************)
THEOREM MaskRestored == Spec => []IrqRestored
  <1>1. IndInv /\ MaskInv => IrqRestored
    <2> SUFFICES ASSUME IndInv, MaskInv, NEW c \in Cores, Quiet(c)
                 PROVE  masked[c] <=> InException(c)
      BY DEF IrqRestored, InException
    <2>1. CoreMask(c) /\ CoreInv(c)
      BY DEF IndInv, MaskInv
    <2>2. Held(c) = {} /\ step[c] = "none"
      BY <2>1 DEF Quiet, CoreInv, HelperShape, Held
    <2> QED BY <2>1, <2>2 DEF CoreMask, MaskExact
  <1> QED BY <1>1, MaskInvariance, Invariance, PTL
=============================================================================
