--------------------------------- MODULE Top ---------------------------------
(***************************************************************************)
(* GOTOP.ELF (user/go/top): the task manager's table over snapshots of the *)
(* process registry, its selection and sort, the kill of the highlighted   *)
(* process, the one-second timer and the byte rates.  A pid is the index   *)
(* of a registry slot, and when no slot is free one whose process has      *)
(* exited is given to the next program (kernel/src/process.zig), so a row  *)
(* can outlive what it shows: `inst` tells apart the processes of a slot.  *)
(***************************************************************************)
EXTENDS Integers, Sequences, SequencesExt, FiniteSets, FiniteSetsExt

CONSTANTS TopRegistries,  \* registries the manager may be started on
          TopNames,       \* programs started meanwhile; a name is its rank
          TopSelf,        \* the manager's own name
          Seats,          \* names of the window-manager seats
          TopKeys,        \* bound: keys and clicks
          TopChanges,     \* bound: changes of the registry and of the counter
          MaxCount           \* bound: bytes the device counts

VARIABLE top

columns == {"pid", "name", "state", "exit"}

\* The kernel's code of a state, by which the column sorts.
StateCode(s) == CASE s = "free" -> 0 [] s = "running" -> 2 [] s = "exited" -> 3
-----------------------------------------------------------------------------
(* The table: table.go *)

\* compareProcs, as the number it compares by.
keyOf(p, col) ==
  CASE col = "pid" -> p.pid [] col = "name" -> p.name
    [] col = "state" -> StateCode(p.state) [] col = "exit" -> p.exit

shouldShift(t, prev, cur) ==
  LET a == keyOf(t.rows[prev], t.col)
      b == keyOf(t.rows[cur], t.col)
  IN  IF t.asc THEN a > b ELSE a < b

\* One round of the insertion sort: i ends behind the last row it may not pass.
insertRow(t, order, i) ==
  LET stop == {k \in DOMAIN order : ~shouldShift(t, order[k], i)}
  IN  InsertAt(order, IF stop = {} THEN 1 ELSE Max(stop) + 1, i)

sortedOrder(t) ==
  FoldLeft(LAMBDA order, i : insertRow(t, order, i), <<>>, [i \in DOMAIN t.rows |-> i])

Row(t, i) == t.rows[t.order[i]]

SelectedRow(t) == IF t.sel \in DOMAIN t.order THEN {Row(t, t.sel)} ELSE {}

\* The first running row that is neither a seat nor this program, else none.
defaultAim(t) ==
  LET fit == {i \in DOMAIN t.order : /\ Row(t, i).state = "running"
                                     /\ Row(t, i).name \notin Seats \cup {TopSelf}}
  IN  IF fit = {} THEN 0 ELSE Min(fit)

\* What the highlight was put on, and by whom: read by the property only.  A hand
\* goes by the labels on the screen; where they name another process than the row
\* that is selected, no aim is recorded.
Aimed(t, hand) ==
  [t EXCEPT !.aim = {p.inst : p \in {q \in SelectedRow(t) : hand => t.items[t.sel] = q.inst}},
            !.byHand = hand]

InRegistry(t) == \E i \in DOMAIN t.reg : t.reg[i].inst \in t.aim

\* Mutant: the selection stays where it was on the screen.
rebuild_by_index(t, prev) ==
  LET u == [t EXCEPT !.order = sortedOrder(t)]
  IN  IF prev # {} /\ u.sel \in DOMAIN u.order THEN u ELSE Aimed([u EXCEPT !.sel = defaultAim(u)], FALSE)

\* The row with the pid that was selected stays selected.
rebuildWith(t, prev) ==
  LET u == [t EXCEPT !.order = sortedOrder(t)]
      same == {i \in DOMAIN u.order : \E p \in prev : Row(u, i).pid = p.pid}
  IN  IF same # {} THEN [u EXCEPT !.sel = Min(same)]
      ELSE Aimed([u EXCEPT !.sel = defaultAim(u)], FALSE)

\* The registry's rows in the order of their slots.
Procs(reg) ==
  LET taken == SetToSortSeq({i \in DOMAIN reg : reg[i].state # "free"}, <)
  IN  [k \in DOMAIN taken |-> [pid |-> taken[k], name |-> reg[taken[k]].name,
                               state |-> reg[taken[k]].state, exit |-> reg[taken[k]].exit,
                               inst |-> reg[taken[k]].inst]]

\* Refresh of the table: the aim is taken before the rows are replaced.
tabRefresh(t) == rebuildWith([t EXCEPT !.rows = Procs(t.reg)], SelectedRow(t))

SelectRow(t, i) ==
  IF i \in DOMAIN t.order /\ i # t.sel THEN Aimed([t EXCEPT !.sel = i], TRUE) ELSE t

MoveBy(t, delta) ==
  LET n == IF t.sel = 0 THEN 1 ELSE t.sel + delta
  IN  SelectRow(t, IF n < 1 THEN 1 ELSE IF n > Len(t.order) THEN Len(t.order) ELSE n)

\* The order changes and the selection with it; the labels drawn are still those of
\* the last refresh, which `resorted` remembers for the property.
SortBy(t, col) ==
  rebuildWith([(IF t.col = col THEN [t EXCEPT !.asc = ~@] ELSE [t EXCEPT !.col = col, !.asc = TRUE])
                 EXCEPT !.resorted = TRUE],
              SelectedRow(t))
-----------------------------------------------------------------------------
(* The network tab: netview.go *)

\* Mutant: the delta of an unsigned counter that went back wraps.
rate_wraps(prev, cur) == (cur - prev) % (MaxCount + 1)

rateDelta(prev, cur) == IF cur >= prev THEN cur - prev ELSE 0

netRefresh(t) ==
  [t EXCEPT !.rate = IF t.seen THEN rateDelta(t.prevRX, t.rx) ELSE 0,
            !.prevRX = t.rx, !.seen = TRUE, !.since = 0, !.most = t.since]
-----------------------------------------------------------------------------
(* The program: main.go *)

\* The labels the list is drawn from.
rebuildItems(t) ==
  [t EXCEPT !.items = [i \in DOMAIN t.order |-> Row(t, i).inst], !.resorted = FALSE]

\* The kernel may refuse the first snapshot, then nothing is sampled, or only
\* the second one.
refreshAll(t) == {t, rebuildItems(tabRefresh(t)), rebuildItems(netRefresh(tabRefresh(t)))}

setPage(t, p) ==
  IF t.pg = p THEN {t}
  ELSE LET u == [t EXCEPT !.pg = p]
       IN  IF p = "net" THEN {u, netRefresh(u)} ELSE {u}

toggleAuto(t) == [t EXCEPT !.auto = ~@, !.armed = ~t.auto]

\* The kernel arms the kill of whatever runs in that slot now, or refuses; the
\* target exits at its next tick or later.
killSelected(t) ==
  UNION {{t} \cup
         (IF t.reg[p.pid].state # "running" THEN {}
          ELSE LET u == [t EXCEPT !.stray = @ \/ (InRegistry(t) /\ t.reg[p.pid].inst \notin t.aim)]
               IN  refreshAll(u) \cup refreshAll([u EXCEPT !.reg[p.pid].state = "exited", !.reg[p.pid].exit = 137]))
         : p \in SelectedRow(t)}

topKey(t) ==
  {MoveBy(t, -1), MoveBy(t, 1), toggleAuto(t)} \cup killSelected(t) \cup refreshAll(t)
  \cup setPage(t, "net") \cup setPage(t, "procs") \cup {SortBy(t, c) : c \in columns}

\* The list and its header are there only on the process tab.
topClick(t) == IF t.pg = "procs" THEN {SelectRow(t, i) : i \in DOMAIN t.order} ELSE {}

\* A timer event that comes late, after auto was switched off, is ignored.
onTimer(t) ==
  IF ~t.auto THEN {t} ELSE {[u EXCEPT !.armed = TRUE] : u \in refreshAll(t)}

NewTable(reg) ==
  [reg |-> reg, born |-> Len(reg), rows |-> <<>>, order |-> <<>>,
   items |-> <<>>, resorted |-> FALSE, sel |-> 0, col |-> "pid", asc |-> TRUE,
   pg |-> "procs", auto |-> FALSE, armed |-> FALSE, events |-> 0,
   rx |-> 0, prevRX |-> 0, seen |-> FALSE, rate |-> 0, since |-> 0, most |-> 0,
   aim |-> {}, byHand |-> FALSE, stray |-> FALSE, keys |-> 0, changes |-> 0]

topInit == \E reg \in TopRegistries : top \in refreshAll(NewTable(reg))

topInput ==
  /\ top.keys < TopKeys
  /\ \E t \in topKey(top) \cup topClick(top) : top' = [t EXCEPT !.keys = @ + 1]

topTimer ==
  /\ top.events > 0
  /\ top' \in onTimer([top EXCEPT !.events = @ - 1])

TimerFires ==
  /\ top.armed
  /\ top' = [top EXCEPT !.armed = FALSE, !.events = @ + 1]

\* The registry as other programs change it: one exits, is reaped, or starts in
\* the lowest free slot, else in the lowest that has exited.
StartIn(t) ==
  LET free == {i \in DOMAIN t.reg : t.reg[i].state = "free"}
      dead == {i \in DOMAIN t.reg : t.reg[i].state = "exited"}
  IN  IF free # {} THEN {Min(free)} ELSE IF dead # {} THEN {Min(dead)} ELSE {}

topOutside ==
  /\ top.changes < TopChanges
  /\ \/ \E i \in DOMAIN top.reg :
          /\ top.reg[i].state = "running"
          /\ top' = [top EXCEPT !.reg[i].state = "exited", !.changes = @ + 1]
     \/ \E i \in DOMAIN top.reg :
          /\ top.reg[i].state = "exited"
          /\ top' = [top EXCEPT !.reg[i].state = "free", !.changes = @ + 1]
     \/ \E i \in StartIn(top), n \in TopNames :
          top' = [top EXCEPT !.reg[i] = [name |-> n, state |-> "running", exit |-> 0, inst |-> top.born + 1],
                             !.born = @ + 1, !.changes = @ + 1]

\* The device counts, or is reset.
topTraffic ==
  /\ top.changes < TopChanges
  /\ \E rx \in {0, top.rx + 1} :
       /\ rx <= MaxCount
       /\ top' = [top EXCEPT !.rx = rx, !.since = @ + (IF rx = 0 THEN 0 ELSE 1), !.changes = @ + 1]

topNext == topInput \/ topTimer \/ TimerFires \/ topOutside \/ topTraffic
-----------------------------------------------------------------------------
\* The table is in the order of the active column, equal rows in the order of their
\* slots; over any sorts, refreshes and refused snapshots the selection stays on the
\* process it was put on, that is what a kill hits, and one put there by the program
\* is neither a seat nor the manager, until that process' slot is given to another.
\* The labels on the screen are the table's rows, and the one highlighted is the
\* process selected, except between a sort and the next refresh, which alone draws
\* them anew.  The refresh never stops by itself, and a rate shown is no more than
\* was received, over resets of the device (table.go, main.go, netview.go).
TopAims ==
  /\ \A i, j \in DOMAIN top.order : i < j =>
       /\ ~shouldShift(top, top.order[i], top.order[j])
       /\ keyOf(Row(top, i), top.col) = keyOf(Row(top, j), top.col) => top.order[i] < top.order[j]
  /\ Len(top.order) = Len(top.rows)
  /\ InRegistry(top) => /\ {p.inst : p \in SelectedRow(top)} = top.aim
                        /\ ~top.byHand => \A p \in SelectedRow(top) : p.name \notin Seats \cup {TopSelf}
  /\ ~top.resorted => top.items = [i \in DOMAIN top.order |-> Row(top, i).inst]
  /\ ~top.stray
  /\ top.auto => top.armed \/ top.events > 0
  /\ top.rate <= top.most
=============================================================================
