-------------------------------- MODULE Files --------------------------------
(***************************************************************************)
(* GOFILES.ELF, the file manager (user/go/files), over the file calls of   *)
(* user/go/vi, with the crash-safe publish of vi.WriteFileSafe.  A path is *)
(* a sequence of names below the share's root.  A name is a multiple of    *)
(* ten, ordered as the names are, and name + 1 is its one-byte sibling,    *)
(* the temporary.  A file is the body it was written from, how many bytes  *)
(* of it are there, and whether it is an orphan: a sacrificial copy (or a  *)
(* copy of one) that was never published.  Another program changes the     *)
(* share between two keys.                                                 *)
(***************************************************************************)
EXTENDS Integers, Sequences, SequencesExt, FiniteSets, FiniteSetsExt, TLC

CONSTANTS
    FmNames,        \* the names typed in the rename prompt and used by others
    FmDisks,        \* the shares the manager may be started on
    BodySize,       \* function: body -> its length in bytes
    MagicOf,        \* function: body -> the type its first bytes name, or "none"
    ExtOf,          \* function: name -> the type its extension names, or "none"
    TextBodies,     \* the bodies whose first bytes read as text
    MaxDirEntries,  \* rows of one directory listing
    maxPasteBytes,  \* the read cap
    PathDepth,      \* names in the longest path the kernel accepts
    BodyRows,       \* rows of the list pane
    MaxFmKeys       \* bound: keys, clicks and outside changes of a behaviour

VARIABLE fm

\* Every file that is no orphan has all the bytes of the body it was written from
WholeShare(disk) ==
    \A p \in DOMAIN disk : ~disk[p].dir /\ ~disk[p].orphan => disk[p].n = BodySize[disk[p].body]

ASSUME PasteCap == maxPasteBytes \in Nat

\* The manager is started on shares nobody has broken
ASSUME SharesWhole == \A d \in FmDisks : WholeShare(d)

-----------------------------------------------------------------------------
(* Paths and listings: listing.go *)

Tmp(p) == [p EXCEPT ![Len(p)] = @ + 1]

joinPath(dir, name) == IF Len(dir) < PathDepth THEN {Append(dir, name)} ELSE {}

parentPath(p) == IF p = <<>> THEN <<>> ELSE Front(p)

baseName(p) == Last(p)

entryLess(a, b) == IF a.dir # b.dir THEN a.dir ELSE a.name < b.name

sortEntries(s) == SortSeq(s, entryLess)

containsName(entries, name) == \E i \in DOMAIN entries : entries[i].name = name

\* The kernel fills at most MaxDirEntries rows, in its own order: any rows of
\* a directory that has more.  Whatever is no directory cannot be listed.
Children(disk, dir) == {p \in DOMAIN disk : Len(p) = Len(dir) + 1 /\ IsPrefix(dir, p)}

EntryOf(disk, p) == [name |-> baseName(p), dir |-> disk[p].dir, size |-> disk[p].n]

DirList(disk, dir) ==
    IF dir # <<>> /\ (dir \notin DOMAIN disk \/ ~disk[dir].dir) THEN {}
    ELSE LET all == {EntryOf(disk, p) : p \in Children(disk, dir)} IN
         {SetToSeq(s) : s \in IF Cardinality(all) <= MaxDirEntries THEN {all}
                              ELSE {t \in SUBSET all : Cardinality(t) = MaxDirEntries}}

-----------------------------------------------------------------------------
(* File calls: vi.go *)

Without(disk, p) == [q \in DOMAIN disk \ {p} |-> disk[q]]

With(disk, p, f) == [q \in DOMAIN disk \cup {p} |-> IF q = p THEN f ELSE disk[q]]

File(body, n, orphan) == [dir |-> FALSE, body |-> body, n |-> n, orphan |-> orphan]

\* readCapped: at most cap bytes, or a refusal
readCapped(disk, p, cap) ==
    IF p \in DOMAIN disk /\ ~disk[p].dir
    THEN {File(disk[p].body, IF disk[p].n > cap THEN cap ELSE disk[p].n, disk[p].orphan)} ELSE {}

\* A rename never replaces what is there
FileRename(disk, from, to) ==
    IF from \in DOMAIN disk /\ to \notin DOMAIN disk
    THEN {With(Without(disk, from), to, disk[from])} ELSE {}

FileDelete(disk, p) ==
    IF p \in DOMAIN disk /\ ~disk[p].dir THEN {Without(disk, p)} ELSE {}

Outcome(disk, rc, alive) == [disk |-> disk, rc |-> rc, alive |-> alive]

\* Plausible mistake: the body is written over the live file
write_in_place(disk, p, data) ==
    LET put(n) == With(disk, p, File(data.body, n, data.orphan)) IN
    {Outcome(disk, "err", TRUE), Outcome(put(data.n), "ok", TRUE)}
    \cup {Outcome(put(n), "err", TRUE) : n \in 0 .. data.n - 1}

\* WriteFileSafe: open and truncate the temporary, write it piece by piece,
\* sync, close, delete the target, rename.  A failure removes the temporary; a
\* crash (alive FALSE) leaves the share as the last call left it.
WriteFileSafe(disk, p, data) ==
    LET put(n) == With(disk, Tmp(p), File(data.body, n, TRUE))
        whole == put(data.n)
        bare == Without(whole, p)
        done == With(Without(bare, Tmp(p)), p, data) IN
    {Outcome(disk, "err", TRUE), Outcome(Without(disk, Tmp(p)), "err", TRUE)}
    \cup {Outcome(put(n), "err", FALSE) : n \in 0 .. data.n}
    \cup (IF p \in DOMAIN disk /\ disk[p].dir THEN {}
          ELSE {Outcome(Without(bare, Tmp(p)), "err", TRUE), Outcome(done, "ok", TRUE),
                Outcome(bare, "err", FALSE), Outcome(done, "ok", FALSE)})

-----------------------------------------------------------------------------
(* The model: state.go *)

selEntry(m) == IF m.sel \in DOMAIN m.entries THEN {m.entries[m.sel]} ELSE {}

SelPath(m) == UNION {joinPath(m.path, e.name) : e \in selEntry(m)}

clampSel(m) == IF m.sel \in DOMAIN m.entries THEN m ELSE [m EXCEPT !.sel = 1]

\* loadPreview: the selection's name and how many of its bytes were read
loadPreview(m) ==
    [m EXCEPT !.preview = {[name |-> e.name, bytes |-> b.n] :
        e \in {x \in selEntry(m) : ~x.dir},
        b \in UNION {readCapped(m.disk, p, maxPasteBytes) : p \in SelPath(m)}}]

\* A refused listing leaves no entries
refresh(m) ==
    LET lists == DirList(m.disk, m.path) IN
    IF lists = {} THEN {loadPreview([m EXCEPT !.entries = <<>>, !.sel = 1])}
    ELSE {loadPreview(clampSel([m EXCEPT !.entries = sortEntries(s)])) : s \in lists}

fmMove(m, delta) ==
    LET to == m.sel + delta IN
    IF m.entries = <<>> THEN m
    ELSE loadPreview([m EXCEPT !.sel = IF to < 1 THEN 1 ELSE IF to > Len(m.entries) THEN Len(m.entries) ELSE to])

moveCursorTo(m, i) == IF m.entries = <<>> THEN m ELSE loadPreview(clampSel([m EXCEPT !.sel = i]))

\* cd: openSel into a directory, goUp, and navGoto on the seat's request
Cd(m, p) == refresh([m EXCEPT !.path = p, !.sel = 1])

goUp(m) == IF m.path = <<>> THEN {m} ELSE Cd(m, parentPath(m.path))

\* Register, in the order of init: the first program of a type is its default
Register(table, type, bin) ==
    IF \E i \in DOMAIN table : table[i] = <<type, bin>> THEN table ELSE Append(table, <<type, bin>>)

registry == Register(Register(Register(<<>>, "image", "GOVIEW"), "text", "GOEDIT"), "image", "GOEDIT")

Handlers(type) == [i \in 1 .. Len(SelectSeq(registry, LAMBDA h : h[1] = type)) |->
                     SelectSeq(registry, LAMBDA h : h[1] = type)[i][2]]

byExt(name) == IF name \in DOMAIN ExtOf THEN ExtOf[name] ELSE "none"

\* Sniff: the bytes first, the name second, readable text last
Sniff(name, body) ==
    CASE MagicOf[body] # "none" -> MagicOf[body]
      [] byExt(name) # "none" -> byExt(name)
      [] body \in TextBodies -> "text"
      [] OTHER -> "unknown"

\* sniffOf: the type is decided by the bytes that are there now
sniffOf(m, p) == {Sniff(baseName(p), b.body) : b \in readCapped(m.disk, p, maxPasteBytes)}

\* The programs for the selection, with the path they were found for: none
\* when it is unreadable, too deep or of a type nobody opens
OpenSelPath(m) ==
    UNION {{<<p, Handlers(t)>> : t \in {u \in sniffOf(m, p) : Handlers(u) # <<>>}} : p \in SelPath(m)}

openFile(m) ==
    LET c == CHOOSE x \in OpenSelPath(m) : TRUE IN
    IF OpenSelPath(m) = {} THEN m ELSE [m EXCEPT !.launch = <<c[1], c[2][1]>>]

openSel(m) ==
    CASE selEntry(m) = {} -> {m}
      [] \E e \in selEntry(m) : e.dir -> IF SelPath(m) = {} THEN {m} ELSE UNION {Cd(m, p) : p \in SelPath(m)}
      [] OTHER -> {openFile(m)}

startOpenWith(m) ==
    LET c == CHOOSE x \in OpenSelPath(m) : TRUE IN
    IF OpenSelPath(m) = {} THEN m
    ELSE [m EXCEPT !.mode = "openwith", !.openPath = c[1], !.openCands = c[2], !.meant = c[1], !.chose = <<>>]

clearOpenWith(m) == [m EXCEPT !.mode = "normal", !.openPath = <<>>, !.openCands = <<>>]

chooseOpen(m, n) ==
    IF n \notin DOMAIN m.openCands THEN m
    ELSE clearOpenWith([m EXCEPT !.launch = <<m.openPath, m.openCands[n]>>, !.chose = m.openPath])

startRename(m) == IF selEntry(m) = {} THEN m ELSE [m EXCEPT !.mode = "rename", !.input = {}]

renameEntry(m, to) == UNION {UNION {FileRename(m.disk, p, q) : q \in joinPath(m.path, to)} : p \in SelPath(m)}

deleteEntry(m) == UNION {FileDelete(m.disk, p) : p \in SelPath(m)}

\* The name typed (none: an empty prompt) is checked against the rows listed
commitRename(m) ==
    LET n == [m EXCEPT !.mode = "normal"]
        moved == UNION {renameEntry(m, to) : to \in {t \in m.input : ~containsName(m.entries, t)}} IN
    {n} \cup UNION {refresh([n EXCEPT !.disk = d]) : d \in moved}

startDelete(m) ==
    IF \E e \in selEntry(m) : ~e.dir THEN [m EXCEPT !.mode = "confirm"] ELSE m

\* The selection of this moment is deleted, which may not be the one armed
doDelete(m) ==
    LET n == [m EXCEPT !.mode = "normal"] IN
    {n} \cup UNION {refresh([n EXCEPT !.disk = d]) :
                      d \in deleteEntry(m)}

yankClip(m, cut) ==
    IF \E e \in selEntry(m) : ~e.dir /\ SelPath(m) # {}
    THEN [m EXCEPT !.clip = SelPath(m), !.clipCut = cut] ELSE m

pasteMove(m, p) ==
    LET moved == UNION {FileRename(m.disk, p, q) : q \in joinPath(m.path, baseName(p)) \ {p}} IN
    {m} \cup UNION {refresh([m EXCEPT !.disk = d, !.clip = {}]) : d \in moved}

\* A file at the cap is refused; the target is checked against the rows only
pasteCopy(m, p) ==
    LET data == {b \in readCapped(m.disk, p, maxPasteBytes) : b.n < maxPasteBytes}
        outs == UNION {UNION {WriteFileSafe(m.disk, q, b) : b \in data} : q \in joinPath(m.path, baseName(p))} IN
    {m} \cup UNION {IF o.rc = "ok" /\ o.alive THEN refresh([m EXCEPT !.disk = o.disk])
                    ELSE {[m EXCEPT !.disk = o.disk, !.alive = o.alive]} : o \in outs}

pasteClip(m) ==
    {m} \cup
    UNION {CASE containsName(m.entries, baseName(p)) -> {m}
             [] m.clipCut -> pasteMove(m, p)
             [] OTHER -> pasteCopy(m, p) : p \in m.clip}

handleClick(m, i) ==
    CASE i \notin DOMAIN m.entries -> {m}
      [] i = m.sel -> openSel(m)
      [] OTHER -> {loadPreview([m EXCEPT !.sel = i])}

\* handleKey: a prompt owns the keyboard until it is committed or cancelled
fmKeyRename(m) ==
    commitRename(m) \cup {[m EXCEPT !.mode = "normal"], [m EXCEPT !.quit = TRUE], [m EXCEPT !.input = {}]}
    \cup {[m EXCEPT !.input = {n}] : n \in FmNames}

fmKeyOpenWith(m) ==
    {chooseOpen(m, n) : n \in 1 .. 2} \cup {clearOpenWith(m), [m EXCEPT !.quit = TRUE]}

fmKeyConfirm(m) == doDelete(m) \cup {[m EXCEPT !.mode = "normal"], [m EXCEPT !.quit = TRUE]}

fmKeyNormal(m) ==
    {fmMove(m, d) : d \in {-1, 1, -BodyRows, BodyRows}} \cup {moveCursorTo(m, 1), moveCursorTo(m, Len(m.entries))}
    \cup openSel(m) \cup goUp(m) \cup pasteClip(m)
    \cup {startRename(m), startDelete(m), yankClip(m, FALSE), yankClip(m, TRUE), startOpenWith(m), [m EXCEPT !.quit = TRUE]}

handleKey(m) ==
    CASE m.mode = "rename" -> fmKeyRename(m)
      [] m.mode = "openwith" -> fmKeyOpenWith(m)
      [] m.mode = "confirm" -> fmKeyConfirm(m)
      [] OTHER -> fmKeyNormal(m)

-----------------------------------------------------------------------------
(* main.go *)

fmVars == <<fm>>

\* drainLaunch, after the frame: the program is started on the path queued
drainLaunch(m) == [m EXCEPT !.launch = <<>>, !.ran = m.launch]

newModel(disk) ==
    refresh([disk |-> disk, path |-> <<>>, entries |-> <<>>, sel |-> 1, mode |-> "normal", input |-> {},
             clip |-> {}, clipCut |-> FALSE, preview |-> {}, openPath |-> <<>>, openCands |-> <<>>,
             launch |-> <<>>, ran |-> <<>>, quit |-> FALSE, alive |-> TRUE,
             meant |-> <<>>, chose |-> <<>>, keys |-> 0])

fmInit == fm \in UNION {newModel(d) : d \in FmDisks}

Spend(m) == [m EXCEPT !.keys = fm.keys + 1]

fmRunning == ~fm.quit /\ fm.alive /\ fm.keys < MaxFmKeys

onKey == fmRunning /\ \E m \in handleKey(fm) : fm' = Spend(drainLaunch(m))

onMouse == fmRunning /\ \E i \in 1 .. MaxDirEntries : \E m \in handleClick(fm, i) : fm' = Spend(drainLaunch(m))

\* The idle branch takes a directory the seat queued, whatever the mode is
navGoto ==
    /\ fmRunning
    /\ \E p \in {<<>>} \cup {q \in DOMAIN fm.disk : fm.disk[q].dir} :
          /\ p # fm.path
          /\ \E m \in Cd(fm, p) : fm' = Spend(m)

\* Another program stores or removes a whole file between two keys
Outside ==
    /\ fmRunning
    /\ \E n \in FmNames, b \in DOMAIN BodySize :
          fm' = Spend([fm EXCEPT !.disk = IF <<n>> \notin DOMAIN @ THEN With(@, <<n>>, File(b, BodySize[b], FALSE))
                                          ELSE IF @[<<n>>].dir THEN @ ELSE Without(@, <<n>>)])

\* After a crash the user starts the manager again
fmRestart ==
    /\ fm.quit \/ ~fm.alive
    /\ fm.keys < MaxFmKeys
    /\ \E m \in newModel(fm.disk) : fm' = Spend(m)

fmNext == onKey \/ onMouse \/ navGoto \/ Outside \/ fmRestart

fmSpec == fmInit /\ [][fmNext]_fmVars

-----------------------------------------------------------------------------
(* Properties *)

\* Whatever fails and wherever the manager dies, every file on the share that
\* is no orphan temporary holds a whole body: a paste publishes all of a file or
\* nothing (vi.WriteFileSafe, the read cap of pasteClip).
NeverPartial == WholeShare(fm.disk)

\* The program picked from the Open-with list is started on the file the list
\* was opened for, though clicks, back-steps and other programs may have moved
\* the selection or changed the directory since (startOpenWith, chooseOpen).
OpenTargetsStay == fm.chose # <<>> => fm.chose = fm.meant

\* The share stays whole and the launcher keeps its target: see the two parts.
FilesSafe == NeverPartial /\ OpenTargetsStay
=============================================================================
