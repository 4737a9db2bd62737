------------------------------- MODULE TabWm --------------------------------
(***************************************************************************)
(* The Go window manager, user/go/gotabwm: the tab strip with its split,   *)
(* the toasts, the launcher, the pointer latches, the session file and the *)
(* seat that drives them from WM_RPC requests, keys, the pointer and the   *)
(* composite tick.  `desk` holds the package's variables together with     *)
(* the two things outside the process they act on: the rectangles the      *)
(* kernel has accepted (`rect`, the windows that exist are `alive`) and    *)
(* SESSION.TABS (`file`).  A system call on a window succeeds exactly      *)
(* while the window exists.  `deskScript` fixes which inputs a behaviour   *)
(* uses.                                                                   *)
(***************************************************************************)
EXTENDS Integers, Sequences, FiniteSets, SequencesExt

CONSTANTS Windows,       \* window ids clients may declare
          MaxTabs,       \* tabs on the strip, and entries of the reopen list
          NavHistMax,    \* entries of a tab's navigation history
          NavPaths,      \* paths a client may declare
          NotifyMax,     \* toasts queued
          NotifyTicks,   \* ticks a toast lives
          ScanLen,       \* scanout size along the divider's axis
          PaneMin,       \* least pane size along that axis
          SashWidth,     \* gutter of a dragged divider
          HostTicks, ChordHold, \* demo mode: budgets in ticks
          Catalog,       \* APPS.TXT: the launcher's entries, sequences of letters
          filterMax,     \* letters of the launcher's filter
          SashReleases,  \* positions at which a drag of the divider may end
          DeskScripts    \* inputs and clients; each behaviour uses one script

\* Placeholder ids of restored rows start here.
sessionIDBase == 100

ASSUME WindowIds == Windows \subseteq 1 .. (sessionIDBase - 1)

ASSUME PanesPossible ==
  /\ ScanLen \in Nat /\ PaneMin \in Nat /\ SashWidth \in Nat
  /\ ScanLen >= 2 * PaneMin + SashWidth

ASSUME DeskBounds ==
  /\ MaxTabs \in Nat /\ NavHistMax \in Nat \ {0} /\ NotifyMax \in Nat \ {0}
  /\ NotifyTicks \in Nat /\ HostTicks \in Nat /\ ChordHold \in Nat
  /\ SashReleases \subseteq Int

ASSUME CatalogWords == Catalog \in Seq(Seq(STRING))

ASSUME ScriptsWellFormed ==
  DeskScripts \subseteq [inputs : SUBSET STRING, clients : SUBSET Windows]

VARIABLES desk, deskScript

deskVars == <<desk, deskScript>>

\* The title a client declares is its program's.
Title(w) == IF w = 1 THEN "Calc" ELSE IF w = 2 THEN "doc" ELSE ""

Retitles == {"doc", ""}

Full == [axis |-> "none", at |-> 0, len |-> ScanLen]

\* The positions in I from the lowest to the highest.
InOrder(I) ==
  CHOOSE o \in [1 .. Cardinality(I) -> I] :
    \A j, k \in DOMAIN o : j < k => o[j] < o[k]

\* A loop that keeps the entries of q at the positions in I.
KeptAt(q, I) == LET o == InOrder(I) IN [k \in DOMAIN o |-> q[o[k]]]
-----------------------------------------------------------------------------
(* The strip: a record of tabs, the focused index, the split and its sash. *)

guessBin(title) == IF title = "Calc" THEN "GOCALC.ELF" ELSE title

EmptyStrip == [tabs |-> <<>>, focus |-> 1, split |-> "none", sash |-> 0,
               closed |-> <<>>]

NewTab(id, title) ==
  [id |-> id, title |-> title, bin |-> guessBin(title), pinned |-> FALSE,
   frozen |-> FALSE, hist |-> <<>>, pos |-> 0]

index(s, id) == {i \in DOMAIN s.tabs : s.tabs[i].id = id}

Has(s, id) == index(s, id) # {}

IndexOf(s, id) == CHOOSE i \in index(s, id) : TRUE

\* 0 is no window.
Focused(s) == IF s.focus \in DOMAIN s.tabs THEN s.tabs[s.focus].id ELSE 0

Opens(s, id) == ~Has(s, id) /\ Len(s.tabs) < MaxTabs

OpenTab(s, id, title) ==
  IF Has(s, id)
  THEN LET i == IndexOf(s, id)
       IN  [s EXCEPT !.tabs[i].title = title,
                     !.tabs[i].bin = IF @ = "" THEN guessBin(title) ELSE @]
  ELSE IF Len(s.tabs) >= MaxTabs THEN s
  ELSE [s EXCEPT !.tabs = Append(@, NewTab(id, title)),
                 !.focus = IF s.tabs = <<>> THEN 1 ELSE @]

SetTitle(s, id, title) ==
  IF title = "" \/ ~Has(s, id) THEN s
  ELSE [s EXCEPT !.tabs[IndexOf(s, id)].title = title]

FocusTab(s, id) == IF Has(s, id) THEN [s EXCEPT !.focus = IndexOf(s, id)] ELSE s

\* A declaration drops the entries ahead of the cursor, and at the bound the
\* oldest one; declaring the current entry again changes nothing.
navRecord(t, path) ==
  LET kept == IF t.hist = <<>> THEN <<>> ELSE SubSeq(t.hist, 1, t.pos)
      room == IF Len(kept) = NavHistMax THEN Tail(kept) ELSE kept
  IN  IF path = "" \/ (t.hist # <<>> /\ t.hist[t.pos] = path) THEN t
      ELSE [t EXCEPT !.hist = Append(room, path), !.pos = Len(room) + 1]

canNavBack(t) == t.hist # <<>> /\ t.pos > 1

canNavForward(t) == t.pos < Len(t.hist)

navStep(t, back) == [t EXCEPT !.pos = IF back THEN @ - 1 ELSE @ + 1]

recordClosed(closed, bin) ==
  Append(IF Len(closed) = MaxTabs THEN Tail(closed) ELSE closed, bin)

CloseTab(s, id) ==
  LET i == IndexOf(s, id)
      ts == RemoveAt(s.tabs, i)
      n == Len(ts)
  IN  [tabs |-> ts,
       focus |-> IF n = 0 THEN 1
                 ELSE IF s.focus > i THEN s.focus - 1
                 ELSE IF s.focus > n THEN n ELSE s.focus,
       split |-> IF n < 2 THEN "none" ELSE s.split,
       sash |-> IF n < 2 THEN 0 ELSE s.sash,
       closed |-> recordClosed(s.closed, s.tabs[i].bin)]

\* Entries without an executable are popped on the way and skipped.
ReopenLastClosed(s) ==
  LET named == {j \in DOMAIN s.closed : s.closed[j] # ""}
      last == CHOOSE j \in named : \A k \in named : k <= j
  IN  [s EXCEPT !.closed = IF named = {} THEN <<>> ELSE SubSeq(@, 1, last - 1)]

NextID(s) == s.tabs[(s.focus % Len(s.tabs)) + 1].id

\* Mutant: the focused index stays where it was.
rearranged_by_index(s, ts) == [s EXCEPT !.tabs = ts]

\* Focus follows the tab, whatever its new index.
Rearranged(s, ts) ==
  FocusTab([s EXCEPT !.tabs = ts], Focused(s))

normalizePinned(s) ==
  LET pins == {i \in DOMAIN s.tabs : s.tabs[i].pinned}
  IN  Rearranged(s, KeptAt(s.tabs, pins) \o KeptAt(s.tabs, DOMAIN s.tabs \ pins))

Pin(s, id) == normalizePinned([s EXCEPT !.tabs[IndexOf(s, id)].pinned = TRUE])

Reorder(s, from, to) ==
  Rearranged(s, InsertAt(RemoveAt(s.tabs, from), to, s.tabs[from]))
-----------------------------------------------------------------------------
(* The two panes. *)

setSplit(s, kind) == [s EXCEPT !.split = kind, !.sash = 0]

Unsplit(s) == setSplit(s, "none")

\* Mutant: the gutter is left out of the bounds.
clamp_no_gutter(pos) ==
  IF pos < PaneMin THEN PaneMin
  ELSE IF pos > ScanLen - PaneMin THEN ScanLen - PaneMin ELSE pos

clampSash(pos) ==
  LET half == SashWidth \div 2
      lo == PaneMin + half
      hi == ScanLen - PaneMin - half
  IN  IF pos < lo THEN lo ELSE IF pos > hi THEN hi ELSE pos

SplitRects(kind) ==
  LET left == ScanLen \div 2
  IN  <<[axis |-> kind, at |-> 0, len |-> left],
        [axis |-> kind, at |-> left, len |-> ScanLen - left]>>

SplitRectsSash(kind, sash) ==
  LET c == clampSash(sash)
      half == SashWidth \div 2
  IN  IF kind = "none" THEN <<Full, Full>>
      ELSE IF sash <= 0 THEN SplitRects(kind)
      ELSE <<[axis |-> kind, at |-> 0, len |-> c - half],
             [axis |-> kind, at |-> c + half, len |-> ScanLen - (c + half)]>>

sashCenter(s) == IF s.sash > 0 THEN clampSash(s.sash) ELSE ScanLen \div 2

PaneRects(s) == SplitRectsSash(s.split, s.sash)

\* SET_WINDOW for the tabs in strip order; the first refusal ends the pass.
applyRects(d, rs) ==
  LET ok(i) == \A j \in 1 .. i : d.strip.tabs[j].id \in d.alive
      set == {d.strip.tabs[i].id : i \in {j \in DOMAIN rs : ok(j)}}
      at(w) == CHOOSE i \in DOMAIN rs : d.strip.tabs[i].id = w
  IN  [d EXCEPT !.rect = [w \in Windows |-> IF w \in set THEN rs[at(w)] ELSE @[w]]]

RectsTaken(d, n) == \A i \in 1 .. n : d.strip.tabs[i].id \in d.alive

applySplit(d, kind) ==
  IF Len(d.strip.tabs) # 2 THEN d
  ELSE LET e == [d EXCEPT !.strip = setSplit(@, kind)]
       IN  applyRects(e, PaneRects(e.strip))

applyUnsplit(d) ==
  LET e == [d EXCEPT !.strip = Unsplit(@)]
  IN  applyRects(e, [i \in DOMAIN e.strip.tabs |-> Full])

\* The sash is stored only after both panes were accepted.
applySashDrag(d, pos) ==
  LET to == clampSash(pos)
      e == applyRects(d, SplitRectsSash(d.strip.split, to))
  IN  IF \/ Len(d.strip.tabs) # 2 \/ d.strip.split = "none"
         \/ to = sashCenter(d.strip)
      THEN d
      ELSE IF RectsTaken(d, 2) THEN [e EXCEPT !.strip.sash = to] ELSE e

applySplitCycle(d) ==
  CASE d.strip.split = "v" -> applySplit(d, "h")
    [] d.strip.split = "h" -> applyUnsplit(d)
    [] OTHER -> applySplit(d, "v")
-----------------------------------------------------------------------------
(* The session file. *)

RowOf(t) == [title |-> t.title, bin |-> t.bin, pinned |-> t.pinned,
             frozen |-> t.frozen]

\* Restored rows were never executed by this boot and are not written back.
sessionRows(s) ==
  LET live == KeptAt(s.tabs, {i \in DOMAIN s.tabs : s.tabs[i].id < sessionIDBase})
      act == {i \in DOMAIN live : live[i].id = Focused(s)}
  IN  [rows |-> [i \in DOMAIN live |-> RowOf(live[i])],
       active |-> IF act = {} THEN 0 ELSE CHOOSE i \in act : TRUE]

\* An empty strip is not published, a failed write leaves the old file.
writeSession(d, ok) ==
  LET body == sessionRows(d.strip)
  IN  IF body.rows = <<>> \/ ~ok THEN d
      ELSE [d EXCEPT !.file = body, !.dirty = FALSE]

noteSessionMutation(d, ok) == writeSession([d EXCEPT !.dirty = TRUE], ok)

\* The file may be absent; order, flags and active row are taken as written.
applyTabsV2(file) ==
  [EmptyStrip EXCEPT
     !.tabs = [i \in DOMAIN file.rows |->
                 [NewTab(sessionIDBase + i, file.rows[i].title)
                    EXCEPT !.bin = file.rows[i].bin,
                           !.pinned = file.rows[i].pinned,
                           !.frozen = file.rows[i].frozen]],
     !.focus = IF file.active = 0 THEN 1 ELSE file.active]
-----------------------------------------------------------------------------
(* Toasts and queued navigation targets. *)

notifyQueueSet(d, q) ==
  [d EXCEPT !.toasts = q, !.painted = IF q = <<>> THEN FALSE ELSE @]

notifyPush(d, id) ==
  [d EXCEPT !.toasts =
     Append(IF Len(@) >= NotifyMax THEN Tail(@) ELSE @,
            [id |-> id, left |-> NotifyTicks])]

clearNotify(d, id) ==
  notifyQueueSet(d, KeptAt(d.toasts, {i \in DOMAIN d.toasts : d.toasts[i].id # id}))

notifyExpire(d) ==
  LET older == [i \in DOMAIN d.toasts |-> [d.toasts[i] EXCEPT !.left = @ - 1]]
  IN  notifyQueueSet(d, KeptAt(older, {i \in DOMAIN older : older[i].left > 0}))

notifyDismissByIndex(d, i) == notifyQueueSet(d, RemoveAt(d.toasts, i))

NoNav == [id |-> 0, path |-> ""]

clearPendingNav(d, id) == [d EXCEPT !.pend = IF @.id = id THEN NoNav ELSE @]

\* Mutant: a toast outlives its sender.
drop_keep_toasts(d, id) ==
  IF ~Has(d.strip, id) THEN d
  ELSE [clearPendingNav(d, id) EXCEPT !.strip = CloseTab(@, id)]

\* Every way a tab leaves the strip.
Drop(d, id) ==
  IF ~Has(d.strip, id) THEN d
  ELSE [clearNotify(clearPendingNav(d, id), id) EXCEPT !.strip = CloseTab(@, id)]

syncHostedFromStrip(d) == [d EXCEPT !.hosted = Focused(d.strip)]

noteStripOpen(d) ==
  IF Len(d.strip.tabs) # 1 THEN d
  ELSE [d EXCEPT !.demo.done = FALSE, !.demo.sawTwo = FALSE,
                 !.demo.step = 0, !.demo.hold = 0]

focusHosted(d, id) ==
  IF id \in d.alive /\ Has(d.strip, id)
  THEN [d EXCEPT !.strip = FocusTab(@, id), !.hosted = id] ELSE d

\* Closing one side of a split gives the other the viewport.  The client
\* receives WIN_CLOSE and its window goes.
closeTabByID(d, id, ok) ==
  IF id \notin d.alive THEN d
  ELSE LET gone == [d EXCEPT !.alive = @ \ {id}]
           e == IF Has(d.strip, id)
                THEN noteSessionMutation(syncHostedFromStrip(Drop(gone, id)), ok)
                ELSE syncHostedFromStrip(gone)
       IN  IF Len(e.strip.tabs) = 1 THEN applyRects(e, <<Full>>) ELSE e

closeHosted(d, ok) ==
  closeTabByID(d, IF d.strip.tabs = <<>> THEN d.hosted ELSE Focused(d.strip), ok)

sweepHosted(d) ==
  LET ts == d.strip.tabs
      bare[n \in 0 .. Len(ts)] ==
        IF n = 0 THEN d
        ELSE IF ts[n].id >= sessionIDBase THEN Drop(bare[n - 1], ts[n].id)
        ELSE bare[n - 1]
      swept[n \in 0 .. MaxTabs] ==
        IF n = 0 THEN bare[Len(ts)]
        ELSE IF swept[n - 1].strip.tabs = <<>> THEN swept[n - 1]
        ELSE closeHosted(swept[n - 1], TRUE)
  IN  swept[MaxTabs]
-----------------------------------------------------------------------------
(* The launcher. *)

asciiContainsFold(word, q) ==
  \E i \in 0 .. (Len(word) - Len(q)) : SubSeq(word, i + 1, i + Len(q)) = q

filterApps(q) == KeptAt(Catalog, {k \in DOMAIN Catalog : asciiContainsFold(Catalog[k], q)})

\* The selection is clamped to the rows left.
refreshStrip(l, q) ==
  LET n == Len(filterApps(q))
  IN  [l EXCEPT !.filter = q, !.sel = IF @ > n THEN IF n = 0 THEN 1 ELSE n ELSE @]

Dismissed(l) == [l EXCEPT !.open = FALSE, !.filter = <<>>]

openLauncher(l) ==
  IF l.open THEN Dismissed(l) ELSE [open |-> TRUE, filter |-> <<>>, sel |-> 1]

\* A missing executable leaves the launcher open.
execSelected(l, found) ==
  IF found /\ l.sel \in DOMAIN filterApps(l.filter) THEN Dismissed(l) ELSE l
-----------------------------------------------------------------------------
(* The seat's life.  The kernel's windows and the file outlive it. *)

NoFile == [rows |-> <<>>, active |-> 0]

Quiet == [btn |-> FALSE, railFrom |-> 0, content |-> FALSE, sash |-> FALSE]

Seat(up, demo, strip, file, rect, alive) ==
  [up |-> up, strip |-> strip, hosted |-> 0, pend |-> NoNav, toasts |-> <<>>,
   painted |-> FALSE, dirty |-> FALSE, file |-> file, rect |-> rect,
   alive |-> alive, ptr |-> Quiet, kbtn |-> FALSE,
   demo |-> [on |-> demo, sawTwo |-> FALSE, done |-> strip.tabs # <<>>,
             step |-> 0, hold |-> 0, left |-> 0],
   launch |-> [open |-> FALSE, filter |-> <<>>, sel |-> 1]]

deskInit ==
  /\ desk = Seat(FALSE, FALSE, EmptyStrip, NoFile, [w \in Windows |-> Full], Windows)
  /\ deskScript = [inputs |-> {}, clients |-> {}]

Uses(input) == desk.up /\ input \in deskScript.inputs

Writes == IF Uses("crash") THEN BOOLEAN ELSE {TRUE}

Desk(d) == desk' = d /\ UNCHANGED deskScript

\* Restored rows are placeholders, and end the choreography before it starts.
loadSession(demo) ==
  Seat(TRUE, demo, applyTabsV2(desk.file), desk.file, desk.rect, desk.alive)

seatStart ==
  /\ ~desk.up
  /\ deskScript' \in IF deskScript.inputs = {} THEN DeskScripts ELSE {deskScript}
  /\ desk' = loadSession("demo" \in deskScript'.inputs)

\* Killed at any moment; inside the publication of SESSION.TABS the old file
\* is gone and the new one is not there yet.
seatKilled ==
  /\ Uses("crash")
  /\ \E f \in {desk.file, NoFile} :
       Desk(Seat(FALSE, FALSE, EmptyStrip, f, desk.rect, desk.alive))

\* Demo mode has a budget of ticks.
seatDone ==
  /\ Uses("demo") /\ desk.demo.done
  /\ LET d == sweepHosted(desk)
     IN  Desk(Seat(FALSE, FALSE, EmptyStrip, d.file, d.rect, d.alive))

\* A client opens its window, or dies and the kernel reaps it.
clientWindow ==
  \E w \in deskScript.clients :
    \/ w \notin desk.alive /\ Uses("rpc") /\ Desk([desk EXCEPT !.alive = @ \cup {w}])
    \/ w \in desk.alive /\ Uses("death") /\ Desk([desk EXCEPT !.alive = @ \ {w}])
-----------------------------------------------------------------------------
(* WM_RPC: a request is served whether or not its window still exists. *)

declareFullscreen(w, title, ok) ==
  LET o == [desk EXCEPT !.strip = OpenTab(@, w, title), !.hosted = w]
      n == [(IF Opens(desk.strip, w) THEN noteStripOpen(o) ELSE o)
              EXCEPT !.demo.left = HostTicks]
      f == IF w \in desk.alive
           THEN [n EXCEPT !.strip = FocusTab(@, w), !.rect[w] = Full] ELSE n
  IN  Uses("rpc") /\ Desk(noteSessionMutation(f, ok))

attachTab(w, title, ok) ==
  LET o == [desk EXCEPT !.strip = OpenTab(@, w, title)]
      n == IF Opens(desk.strip, w)
           THEN noteSessionMutation(noteStripOpen(o), ok) ELSE o
  IN  Uses("attach") /\ Desk([n EXCEPT !.strip = FocusTab(@, w), !.hosted = w,
                                        !.demo.left = HostTicks])

detachTab(w, ok) ==
  /\ Uses("detach")
  /\ Desk(IF Has(desk.strip, w)
          THEN noteSessionMutation(syncHostedFromStrip(Drop(desk, w)), ok)
          ELSE syncHostedFromStrip(desk))

raiseTab(w) ==
  /\ Uses("focus") /\ w \in desk.alive
  /\ Desk([desk EXCEPT !.strip = FocusTab(@, w)])

cycleTab ==
  /\ Uses("focus") /\ desk.strip.tabs # <<>>
  /\ NextID(desk.strip) \in desk.alive
  /\ Desk([desk EXCEPT !.strip = FocusTab(@, NextID(@))])

navDeclare(w, path) ==
  /\ Uses("nav") /\ Has(desk.strip, w)
  /\ Desk([desk EXCEPT !.strip.tabs[IndexOf(desk.strip, w)] = navRecord(@, path)])

\* A target queued for another window stays.
navPoll(w) ==
  /\ Uses("nav") /\ desk.pend.id = w
  /\ Desk([desk EXCEPT !.pend = NoNav])

setTitle(w, title, ok) ==
  /\ Uses("title") /\ title # "" /\ Has(desk.strip, w)
  /\ Desk(noteSessionMutation([desk EXCEPT !.strip = SetTitle(@, w, title)], ok))

notify(w) ==
  /\ Uses("notify") /\ Has(desk.strip, w)
  /\ Desk(notifyPush(desk, w))

applyRPC ==
  \E w \in deskScript.clients, ok \in Writes :
    \/ declareFullscreen(w, Title(w), ok)
    \/ \E title \in Retitles : attachTab(w, title, ok) \/ setTitle(w, title, ok)
    \/ detachTab(w, ok)
    \/ raiseTab(w)
    \/ cycleTab
    \/ \E path \in NavPaths : navDeclare(w, path)
    \/ navPoll(w)
    \/ notify(w)
-----------------------------------------------------------------------------
(* Keys.  While the launcher is open it takes every key. *)

Chord(input) == Uses(input) /\ ~desk.launch.open /\ Focused(desk.strip) # 0

applyNavStep(back) ==
  LET i == desk.strip.focus
      t == desk.strip.tabs[i]
      u == navStep(t, back)
  IN  /\ Chord("nav")
      /\ IF back THEN canNavBack(t) ELSE canNavForward(t)
      /\ Desk([desk EXCEPT !.strip.tabs[i] = u,
                           !.pend = [id |-> t.id, path |-> u.hist[u.pos]]])

\* Mutant: the badge is shown but not saved.
freeze_unsaved(ok) ==
  /\ Chord("badge")
  /\ Desk([desk EXCEPT !.strip.tabs[desk.strip.focus].frozen = ~@])

applyFreezeToggle(ok) ==
  /\ Chord("badge")
  /\ Desk(noteSessionMutation(
            [desk EXCEPT !.strip.tabs[desk.strip.focus].frozen = ~@], ok))

applyHidPin(ok) ==
  /\ Chord("pin")
  /\ ~desk.strip.tabs[desk.strip.focus].pinned
  /\ Desk(noteSessionMutation(
            [desk EXCEPT !.strip = Pin(@, Focused(@))], ok))

\* The executable starts elsewhere and declares itself like any client.
applyReopen ==
  /\ Uses("reopen") /\ ~desk.launch.open
  /\ Desk([desk EXCEPT !.strip = ReopenLastClosed(@)])

altTabNext(n, cur, shift) ==
  IF shift THEN (IF cur = 1 THEN n ELSE cur - 1) ELSE (cur % n) + 1

applyAltTab(shift) ==
  LET n == Len(desk.strip.tabs)
  IN  /\ Uses("focus") /\ ~desk.launch.open /\ n >= 2
      /\ Desk(focusHosted(desk, desk.strip.tabs[altTabNext(n, desk.strip.focus, shift)].id))

applyCtrlIndex(i) ==
  /\ Uses("focus") /\ ~desk.launch.open /\ i \in DOMAIN desk.strip.tabs
  /\ Desk(focusHosted(desk, desk.strip.tabs[i].id))

handleWmKey ==
  \/ \E b \in BOOLEAN : applyNavStep(b) \/ applyAltTab(b)
  \/ \E ok \in Writes : applyFreezeToggle(ok) \/ applyHidPin(ok)
  \/ applyReopen
  \/ Uses("split") /\ ~desk.launch.open /\ Desk(applySplitCycle(desk))
  \/ \E i \in 1 .. MaxTabs : applyCtrlIndex(i)
  \/ /\ Uses("launcher") /\ ~desk.launch.open /\ desk.strip.tabs = <<>>
     /\ Desk([desk EXCEPT !.launch = openLauncher(@)])

handleLauncherKey ==
  LET l == desk.launch
      Launch(m) == Desk([desk EXCEPT !.launch = m])
  IN  /\ Uses("launcher")
      /\ \/ Launch(openLauncher(l))
         \/ l.open /\ Launch(Dismissed(l))
         \/ l.open /\ \E found \in BOOLEAN : Launch(execSelected(l, found))
         \/ l.open /\ l.filter # <<>> /\ Launch(refreshStrip(l, Front(l.filter)))
         \/ /\ l.open /\ Len(l.filter) < filterMax
            /\ \E c \in UNION {{w[i] : i \in DOMAIN w} : w \in {Catalog[k] : k \in DOMAIN Catalog}} :
                 Launch(refreshStrip(l, Append(l.filter, c)))
-----------------------------------------------------------------------------
(* The pointer.  A zone is what the hit tests find under it, in the order   *)
(* they are asked: toasts are painted last and found first.                 *)

Zone(kind, i) == [kind |-> kind, i |-> i]

Zones(d) ==
  {Zone("content", 0)}
  \cup {Zone("toast", i) : i \in DOMAIN d.toasts}
  \cup {Zone(k, i) : k \in {"cell", "close"}, i \in DOMAIN d.strip.tabs}
  \cup (IF d.strip.tabs = <<>> THEN {Zone("start", 0)} ELSE {})
  \cup (IF d.strip.split # "none" THEN {Zone("sash", 0)} ELSE {})
  \cup (IF d.launch.open THEN {Zone("row", i) : i \in DOMAIN filterApps(d.launch.filter)}
        ELSE {})

OnRail(z) == z.kind \in {"cell", "close"}

notifyClicked(d, i) ==
  focusHosted(notifyDismissByIndex(d, i), d.toasts[i].id)

applyRailReorder(d, from, to, ok) ==
  IF from = to \/ from \notin DOMAIN d.strip.tabs THEN d
  ELSE LET e == noteSessionMutation([d EXCEPT !.strip = Reorder(@, from, to)], ok)
       IN  IF e.strip.split = "none" \/ Len(e.strip.tabs) # 2 THEN e
           ELSE applyRects(e, PaneRects(e.strip))

pointerDown(z, ok) ==
  LET d == [desk EXCEPT !.ptr.btn = TRUE]
      at(latch, from) == [d EXCEPT !.ptr = [latch EXCEPT !.railFrom = from]]
      closed(e) == closeTabByID(e, e.strip.tabs[z.i].id, ok)
  IN  CASE z.kind = "toast" -> notifyClicked(d, z.i)
        [] desk.launch.open /\ z.kind = "row" ->
             [d EXCEPT !.launch = execSelected([@ EXCEPT !.sel = z.i], ok)]
        [] desk.launch.open /\ z.kind # "row" -> [d EXCEPT !.launch = Dismissed(@)]
        [] ~desk.launch.open /\ z.kind = "start" -> [d EXCEPT !.launch = openLauncher(@)]
        [] ~desk.launch.open /\ z.kind = "close" -> closed(at(d.ptr, 0))
        [] ~desk.launch.open /\ z.kind = "sash" ->
             at([d.ptr EXCEPT !.sash = TRUE], 0)
        [] ~desk.launch.open /\ z.kind = "cell" ->
             LET e == at(d.ptr, z.i)
             IN  IF z.i = d.strip.focus THEN e ELSE focusHosted(e, d.strip.tabs[z.i].id)
        [] ~desk.launch.open /\ z.kind = "content" ->
             [at([d.ptr EXCEPT !.content = TRUE], 0) EXCEPT !.kbtn = TRUE]
        [] OTHER -> d

\* The launcher swallows a release too.
pointerUp(z, pos, ok) ==
  LET d == [desk EXCEPT !.ptr.btn = FALSE]
      from == d.ptr.railFrom
      dropped == [d EXCEPT !.ptr.railFrom = 0]
      moved == IF from # 0 /\ OnRail(z) THEN applyRailReorder(dropped, from, z.i, ok)
               ELSE dropped
  IN  IF desk.launch.open THEN d
      ELSE IF d.ptr.sash THEN applySashDrag([d EXCEPT !.ptr.sash = FALSE], pos)
      ELSE IF moved.ptr.content
           THEN [moved EXCEPT !.ptr.content = FALSE, !.kbtn = FALSE] ELSE moved

pointerMotion(z) ==
  IF desk.launch.open \/ desk.ptr.sash \/ z.kind = "toast" \/ OnRail(z) THEN desk
  ELSE [desk EXCEPT !.kbtn = desk.ptr.btn]

handleWmPointer ==
  /\ Uses("pointer") \/ Uses("drag")
  /\ \E z \in {y \in Zones(desk) : y.kind = "close" => Uses("pointer")}, ok \in Writes :
       \/ ~desk.ptr.btn /\ Desk(pointerDown(z, ok))
       \/ desk.ptr.btn /\ \E pos \in IF desk.ptr.sash THEN SashReleases ELSE {0} :
                              Desk(pointerUp(z, pos, ok))
       \/ Desk(pointerMotion(z))
-----------------------------------------------------------------------------
(* The composite tick. *)

applySwapUnpinned(d) ==
  IF Len(d.strip.tabs) = 2 THEN [d EXCEPT !.strip = Reorder(@, 1, 2)] ELSE d

\* Pins Calc or the right-hand tab; the other one takes focus in between.
applyPinStay(d, ok) ==
  LET ts == d.strip.tabs
      calc == {i \in DOMAIN ts : ts[i].title = "Calc"}
      i == IF calc = {} THEN 2 ELSE CHOOSE j \in calc : \A k \in calc : j <= k
      p == [d EXCEPT !.strip = Pin(@, ts[i].id)]
      other == IF Focused(p.strip) = p.strip.tabs[1].id THEN p.strip.tabs[2].id
               ELSE p.strip.tabs[1].id
      left == p.strip.tabs[1].id
      f == [p EXCEPT !.strip = FocusTab(@, left),
                     !.hosted = IF left \in d.alive THEN left ELSE other]
  IN  IF Len(ts) # 2 \/ ts[i].pinned THEN d
      ELSE IF other \in d.alive THEN writeSession(f, ok) ELSE p

closePinnedFirst(d, ok) ==
  LET pins == {i \in DOMAIN d.strip.tabs : d.strip.tabs[i].pinned}
      first == d.strip.tabs[CHOOSE i \in pins : \A j \in pins : i <= j].id
  IN  IF pins = {} THEN closeHosted(d, ok)
      ELSE closeHosted([d EXCEPT !.strip = FocusTab(@, first), !.hosted = first], ok)

choreography(d, ok) ==
  LET step == d.demo.step + 1
      s == [d EXCEPT !.demo.step = step]
      done(e) == [e EXCEPT !.demo.done = TRUE]
  IN  CASE step = 1 -> applySwapUnpinned(s)
        [] step = 2 -> applyPinStay(s, ok)
        [] step = 3 -> applySplit(s, "v")
        [] step = 5 -> applySplit(s, "h")
        [] step \in {4, 6} -> applyUnsplit(s)
        [] step = 7 -> LET e == closePinnedFirst(s, ok)
                       IN  IF e.strip.tabs = <<>> THEN done(e) ELSE e
        [] OTHER -> done(closeHosted(s, ok))

hostCountdown(d, ok) ==
  LET e == [d EXCEPT !.demo.left = @ - 1]
  IN  IF e.demo.left > 0 THEN e
      ELSE [closeHosted(e, ok) EXCEPT !.demo.done = TRUE]

compositeTick(presented, ok) ==
  LET x == notifyExpire(desk)
      d == IF x.toasts # <<>> /\ presented THEN [x EXCEPT !.painted = TRUE] ELSE x
      saw == [d EXCEPT !.demo.sawTwo = TRUE, !.demo.step = 0, !.demo.hold = ChordHold]
      two == IF d.demo.sawTwo THEN d ELSE saw
  IN  Desk(IF ~d.demo.on \/ d.demo.done THEN d
           ELSE IF Len(d.strip.tabs) >= 2 \/ d.demo.sawTwo
           THEN IF two.demo.hold > 0 THEN [two EXCEPT !.demo.hold = @ - 1]
                ELSE choreography(two, ok)
           ELSE IF Len(d.strip.tabs) = 1 THEN hostCountdown(d, ok) ELSE d)

deskTick == desk.up /\ \E presented \in BOOLEAN, ok \in Writes : compositeTick(presented, ok)

deskNext ==
  \/ seatStart \/ seatKilled \/ seatDone \/ clientWindow
  \/ applyRPC \/ handleWmKey \/ handleLauncherKey \/ handleWmPointer \/ deskTick

deskSpec == deskInit /\ [][deskNext]_deskVars
-----------------------------------------------------------------------------
(* Properties. *)

\* A queued navigation target and every toast belong to a tab that is still
\* on the strip, whichever of the close paths ran (tabs.go CloseTab: a later
\* window that reuses the id must not receive a dead tab's navigation), and
\* the one-shot paint latch is armed only while a toast is up.
TargetsLive ==
  /\ desk.pend.id # 0 => Has(desk.strip, desk.pend.id)
  /\ \A i \in DOMAIN desk.toasts : Has(desk.strip, desk.toasts[i].id)
  /\ desk.painted => desk.toasts # <<>>

Ids(s) == [i \in DOMAIN s.tabs |-> s.tabs[i].id]

\* Pinning and dragging a tab move it by index, and focus is an index: in live
\* mode no step that rearranges the tabs moves the keyboard to another one.
FocusStays ==
  [][/\ desk.up /\ desk'.up /\ ~desk.demo.on
     /\ Ids(desk.strip) # Ids(desk'.strip)
     /\ ToSet(Ids(desk.strip)) = ToSet(Ids(desk'.strip))
     => Focused(desk'.strip) = Focused(desk.strip)]_deskVars

\* Wherever the divider was dragged, both panes keep their minimum, stay
\* inside the scanout and do not overlap, and only a strip with two tabs to
\* show is split.
PanesFit ==
  LET r == PaneRects(desk.strip)
  IN  desk.strip.split # "none" =>
        /\ Len(desk.strip.tabs) >= 2
        /\ r[1].len >= PaneMin /\ r[2].len >= PaneMin
        /\ r[1].at >= 0 /\ r[1].at + r[1].len <= r[2].at
        /\ r[2].at + r[2].len = ScanLen

\* In live mode a killed seat leaves the truth behind: unless a write failed,
\* the file names the programs of the strip in order, with their badges.
\* (What attachTab and raiseTab change on an open tab is not written: titles,
\* a program that was not known before, and the active row may lag.)
SessionTracksStrip ==
  LET live == sessionRows(desk.strip).rows
      saved == desk.file.rows
  IN  desk.up /\ ~desk.demo.on /\ ~desk.dirty /\ live # <<>> =>
        /\ Len(saved) = Len(live)
        /\ \A i \in DOMAIN live :
             /\ saved[i].pinned = live[i].pinned /\ saved[i].frozen = live[i].frozen
             /\ saved[i].bin \in {live[i].bin, ""}

\* The desktop holds together over every order of requests, keys, pointer moves,
\* deaths of clients and kills of the seat: nothing points at a closed tab, the
\* panes fit the screen, and the session file tells what the strip holds
\* (tabs.go, split.go, session.go).
DeskCoherent == TargetsLive /\ PanesFit /\ SessionTracksStrip
=============================================================================
