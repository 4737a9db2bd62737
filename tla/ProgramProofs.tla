---------------------------- MODULE ProgramProofs ----------------------------
(***************************************************************************)
(* Proofs about four parts of the Go side, each for every value of its     *)
(* constants: what the file manager leaves on the share (Files), what the  *)
(* calculator shows (Calc), who uses the process' one TCP socket (Socket), *)
(* and whom the TLS client talks to (TlsClient).  Each part states its     *)
(* inductive invariant, has one lemma per operation, and ends with the     *)
(* theorem.                                                                *)
(***************************************************************************)
EXTENDS Files, Calc, Socket, TlsClient, FiniteSetTheorems, SetInduction, SequenceTheorems, TLAPS

-----------------------------------------------------------------------------
(* The file manager. *)

FmFields ==
  {"disk", "path", "entries", "sel", "mode", "input", "clip", "clipCut", "preview", "openPath",
   "openCands", "launch", "ran", "quit", "alive", "meant", "chose", "keys"}

FmShape(m) == m = [f \in FmFields |-> m[f]]

\* While the Open-with list is up its path is the one it was opened for, and
\* what was chosen from it last is too.
Aims(m) ==
  /\ m.mode = "openwith" => m.openPath = m.meant
  /\ m.chose # <<>> => m.chose = m.meant

FmOK(m) == FmShape(m) /\ WholeShare(m.disk) /\ Aims(m)

\* n is m but for what neither the share nor the launcher's aim depends on.
FmAlike(m, n) ==
  /\ FmShape(n)
  /\ n.disk = m.disk /\ n.mode = m.mode /\ n.openPath = m.openPath
  /\ n.meant = m.meant /\ n.chose = m.chose

LEMMA AlikeOK == ASSUME NEW m, NEW n, FmOK(m), FmAlike(m, n) PROVE FmOK(n)
  BY DEF FmOK, FmAlike, Aims

LEMMA AlikeTrans == ASSUME NEW m, NEW n, NEW o, FmAlike(m, n), FmAlike(n, o) PROVE FmAlike(m, o)
  BY DEF FmAlike

LEMMA AlikeSelf == ASSUME NEW m, FmShape(m) PROVE FmAlike(m, m)
  BY DEF FmAlike

LEMMA PreviewAlike == ASSUME NEW m, FmShape(m) PROVE FmAlike(m, loadPreview(m))
<1> DEFINE v == {[name |-> e.name, bytes |-> b.n] :
        e \in {x \in selEntry(m) : ~x.dir},
        b \in UNION {readCapped(m.disk, p, maxPasteBytes) : p \in SelPath(m)}}
<1>1. loadPreview(m) = [m EXCEPT !.preview = v]
  BY DEF loadPreview
<1> HIDE DEF v
<1> QED BY <1>1 DEF FmAlike, FmShape, FmFields

LEMMA ClampAlike == ASSUME NEW m, FmShape(m) PROVE FmAlike(m, clampSel(m))
  BY DEF FmAlike, FmShape, FmFields, clampSel

LEMMA RefreshAlike == ASSUME NEW m, FmShape(m), NEW n \in refresh(m) PROVE FmAlike(m, n)
<1>1. CASE DirList(m.disk, m.path) = {}
  <2> DEFINE e == [m EXCEPT !.entries = <<>>, !.sel = 1]
  <2>1. n = loadPreview(e)
    BY <1>1 DEF refresh
  <2>2. FmAlike(m, e)
    BY DEF FmAlike, FmShape, FmFields
  <2> QED BY <2>1, <2>2, PreviewAlike, AlikeTrans DEF FmAlike
<1>2. CASE DirList(m.disk, m.path) # {}
  <2>1. PICK s \in DirList(m.disk, m.path) : n = loadPreview(clampSel([m EXCEPT !.entries = sortEntries(s)]))
    BY <1>2 DEF refresh
  <2> DEFINE v == sortEntries(s)
             e == [m EXCEPT !.entries = v]
  <2>2. n = loadPreview(clampSel(e))
    BY <2>1
  <2> HIDE DEF v
  <2>3. FmAlike(m, e)
    BY DEF FmAlike, FmShape, FmFields
  <2>4. FmAlike(e, clampSel(e))
    BY <2>3, ClampAlike DEF FmAlike
  <2>5. FmAlike(clampSel(e), n)
    BY <2>2, <2>4, PreviewAlike DEF FmAlike
  <2> QED BY <2>3, <2>4, <2>5, AlikeTrans
<1> QED BY <1>1, <1>2

LEMMA RefreshOK == ASSUME NEW m, FmOK(m), NEW n \in refresh(m) PROVE FmOK(n)
  BY RefreshAlike, AlikeOK DEF FmOK

LEMMA CdOK == ASSUME NEW m, FmOK(m), NEW p, NEW n \in Cd(m, p) PROVE FmOK(n)
<1> DEFINE e == [m EXCEPT !.path = p, !.sel = 1]
<1>1. FmAlike(m, e)
  BY DEF FmOK, FmAlike, FmShape, FmFields
<1> QED BY <1>1, AlikeOK, RefreshOK DEF Cd

-----------------------------------------------------------------------------
(* The file calls keep the share whole. *)

LEMMA WithoutWhole == ASSUME NEW d, NEW p, WholeShare(d) PROVE WholeShare(Without(d, p))
  BY DEF WholeShare, Without

LEMMA WithWhole ==
  ASSUME NEW d, NEW p, NEW f, WholeShare(d), f.dir \/ f.orphan \/ f.n = BodySize[f.body]
  PROVE  WholeShare(With(d, p, f))
  BY DEF WholeShare, With

LEMMA RenameWhole ==
  ASSUME NEW d, NEW p, NEW q, WholeShare(d), NEW e \in FileRename(d, p, q)
  PROVE  WholeShare(e)
<1>1. p \in DOMAIN d /\ e = With(Without(d, p), q, d[p])
  BY DEF FileRename
<1>2. WholeShare(Without(d, p))
  BY WithoutWhole
<1>3. d[p].dir \/ d[p].orphan \/ d[p].n = BodySize[d[p].body]
  BY <1>1 DEF WholeShare
<1> QED BY <1>1, <1>2, <1>3, WithWhole

LEMMA DeleteWhole ==
  ASSUME NEW d, NEW p, WholeShare(d), NEW e \in FileDelete(d, p)
  PROVE  WholeShare(e)
  BY WithoutWhole DEF FileDelete

\* Whatever the publish of vi.WriteFileSafe comes to, and wherever it is cut,
\* the share is whole if what was to be written is.
LEMMA WriteWhole ==
  ASSUME NEW d, NEW p, NEW data, WholeShare(d), data.orphan \/ data.n = BodySize[data.body],
         NEW o \in WriteFileSafe(d, p, data)
  PROVE  WholeShare(o.disk)
<1> DEFINE put(n) == With(d, Tmp(p), File(data.body, n, TRUE))
           whole == put(data.n)
           bare == Without(whole, p)
           done == With(Without(bare, Tmp(p)), p, data)
<1>1. \A n : WholeShare(put(n))
  <2> TAKE n
  <2>1. File(data.body, n, TRUE).orphan
    BY DEF File
  <2> QED BY <2>1, WithWhole
<1>2. WholeShare(bare) /\ WholeShare(Without(bare, Tmp(p)))
  BY <1>1, WithoutWhole
<1>3. WholeShare(done)
  BY <1>2, WithWhole
<1>4. WholeShare(Without(d, Tmp(p)))
  BY WithoutWhole
<1>5. \/ o = Outcome(d, "err", TRUE) \/ o = Outcome(Without(d, Tmp(p)), "err", TRUE)
      \/ \E n \in 0 .. data.n : o = Outcome(put(n), "err", FALSE)
      \/ o = Outcome(Without(bare, Tmp(p)), "err", TRUE) \/ o = Outcome(done, "ok", TRUE)
      \/ o = Outcome(bare, "err", FALSE) \/ o = Outcome(done, "ok", FALSE)
  BY Zenon DEF WriteFileSafe
<1> HIDE DEF put, bare, done
<1> QED BY <1>1, <1>2, <1>3, <1>4, <1>5 DEF Outcome

\* What a paste read under the cap is all of the file, or of an orphan.
LEMMA ReadWhole ==
  ASSUME NEW d, NEW p, WholeShare(d), NEW b \in readCapped(d, p, maxPasteBytes), b.n < maxPasteBytes
  PROVE  b.orphan \/ b.n = BodySize[b.body]
<1>1. p \in DOMAIN d /\ ~d[p].dir
  BY DEF readCapped
<1>2. b = File(d[p].body, IF d[p].n > maxPasteBytes THEN maxPasteBytes ELSE d[p].n, d[p].orphan)
  BY <1>1 DEF readCapped
<1>3. ~(d[p].n > maxPasteBytes)
  BY <1>2, PasteCap DEF File
<1>4. b.body = d[p].body /\ b.n = d[p].n /\ b.orphan = d[p].orphan
  BY <1>2, <1>3 DEF File
<1> QED BY <1>1, <1>4 DEF WholeShare
-----------------------------------------------------------------------------
(* The operations of the model keep FmOK. *)

\* The share was changed by a call that keeps it whole.
LEMMA DiskOK ==
  ASSUME NEW m, FmOK(m), NEW d, WholeShare(d)
  PROVE  FmOK([m EXCEPT !.disk = d])
  BY DEF FmOK, FmShape, FmFields, Aims

\* A prompt is left.
LEMMA NormalOK == ASSUME NEW m, FmOK(m) PROVE FmOK([m EXCEPT !.mode = "normal"])
  BY DEF FmOK, FmShape, FmFields, Aims

LEMMA MoveOK == ASSUME NEW m, FmOK(m), NEW k PROVE FmOK(fmMove(m, k)) /\ FmOK(moveCursorTo(m, k))
<1> DEFINE mv(v) == [m EXCEPT !.sel = v]
<1>1. \A v : FmAlike(m, mv(v))
  BY DEF FmOK, FmAlike, FmShape, FmFields
<1>2. \A v : FmAlike(mv(v), loadPreview(mv(v))) /\ FmAlike(mv(v), clampSel(mv(v)))
  BY <1>1, PreviewAlike, ClampAlike DEF FmAlike
<1>3. \A v : FmAlike(clampSel(mv(v)), loadPreview(clampSel(mv(v))))
  BY <1>2, PreviewAlike DEF FmAlike
<1>4. \A v : FmOK(loadPreview(mv(v))) /\ FmOK(loadPreview(clampSel(mv(v))))
  BY <1>1, <1>2, <1>3, AlikeOK
<1>5. fmMove(m, k) = m \/ \E v : fmMove(m, k) = loadPreview(mv(v))
  BY DEF fmMove
<1>6. moveCursorTo(m, k) = m \/ \E v : moveCursorTo(m, k) = loadPreview(clampSel(mv(v)))
  BY DEF moveCursorTo
<1> QED BY <1>4, <1>5, <1>6

LEMMA OpenFileOK == ASSUME NEW m, FmOK(m) PROVE FmOK(openFile(m))
<1> DEFINE c == CHOOSE x \in OpenSelPath(m) : TRUE
           l == <<c[1], c[2][1]>>
           e == [m EXCEPT !.launch = l]
<1>1. openFile(m) = m \/ openFile(m) = e
  BY DEF openFile
<1> HIDE DEF l
<1>2. FmAlike(m, e)
  BY DEF FmOK, FmAlike, FmShape, FmFields
<1> QED BY <1>1, <1>2, AlikeOK

LEMMA OpenSelOK == ASSUME NEW m, FmOK(m), NEW n \in openSel(m) PROVE FmOK(n)
<1>1. n = m \/ n = openFile(m) \/ \E p : n \in Cd(m, p)
  BY DEF openSel
<1> QED BY <1>1, CdOK, OpenFileOK

LEMMA ClickOK == ASSUME NEW m, FmOK(m), NEW i, NEW n \in handleClick(m, i) PROVE FmOK(n)
<1> DEFINE e == [m EXCEPT !.sel = i]
<1>1. FmAlike(m, e)
  BY DEF FmOK, FmAlike, FmShape, FmFields
<1>2. FmOK(loadPreview(e))
  BY <1>1, PreviewAlike, AlikeOK DEF FmAlike
<1>3. n = m \/ n \in openSel(m) \/ n = loadPreview(e)
  BY DEF handleClick
<1> QED BY <1>2, <1>3, OpenSelOK

LEMMA StartOpenWithOK == ASSUME NEW m, FmOK(m) PROVE FmOK(startOpenWith(m))
<1> DEFINE c == CHOOSE x \in OpenSelPath(m) : TRUE
           a == c[1]
           b == c[2]
           e == [m EXCEPT !.mode = "openwith", !.openPath = a, !.openCands = b, !.meant = a, !.chose = <<>>]
<1>1. startOpenWith(m) = m \/ startOpenWith(m) = e
  BY DEF startOpenWith
<1> HIDE DEF a, b
<1>2. FmShape(e) /\ e.disk = m.disk
  BY DEF FmOK, FmShape, FmFields
<1>3. e.openPath = a /\ e.meant = a /\ e.chose = <<>>
  BY DEF FmOK, FmShape, FmFields
<1>4. FmOK(e)
  BY <1>2, <1>3 DEF FmOK, Aims
<1> QED BY <1>1, <1>4

LEMMA ClearOpenWithOK == ASSUME NEW m, FmOK(m) PROVE FmOK(clearOpenWith(m))
  BY DEF FmOK, FmShape, FmFields, Aims, clearOpenWith

\* The choice is of the path the list was opened for.
LEMMA ChooseOpenOK ==
  ASSUME NEW m, FmOK(m), m.mode = "openwith", NEW k PROVE FmOK(chooseOpen(m, k))
<1> DEFINE l == <<m.openPath, m.openCands[k]>>
           e == [m EXCEPT !.launch = l, !.chose = m.openPath]
<1>1. chooseOpen(m, k) = m \/ chooseOpen(m, k) = clearOpenWith(e)
  BY DEF chooseOpen
<1> HIDE DEF l
<1>2. FmShape(e) /\ e.disk = m.disk /\ e.openPath = m.openPath /\ e.meant = m.meant /\ e.chose = m.openPath
  BY DEF FmOK, FmShape, FmFields
<1>3. FmOK(e)
  BY <1>2 DEF FmOK, Aims
<1> QED BY <1>1, <1>3, ClearOpenWithOK

\* A prompt that asks for a name or a confirmation is entered.
LEMMA PromptOK == ASSUME NEW m, FmOK(m) PROVE FmOK(startRename(m)) /\ FmOK(startDelete(m))
<1>1. \A v, w : FmOK([m EXCEPT !.mode = "rename", !.input = v]) /\ FmOK([m EXCEPT !.mode = "confirm"])
  BY DEF FmOK, FmShape, FmFields, Aims
<1> QED BY <1>1 DEF startRename, startDelete

LEMMA RenameOK == ASSUME NEW m, FmOK(m), NEW n \in commitRename(m) PROVE FmOK(n)
<1> DEFINE e == [m EXCEPT !.mode = "normal"]
<1>1. FmOK(e)
  BY NormalOK
<1>2. ASSUME NEW t, NEW d \in renameEntry(m, t) PROVE WholeShare(d)
  BY <1>2, RenameWhole DEF renameEntry, FmOK
<1>3. n = e \/ \E t : \E d \in renameEntry(m, t) : n \in refresh([e EXCEPT !.disk = d])
  BY Zenon DEF commitRename
<1> HIDE DEF e
<1> QED BY <1>1, <1>2, <1>3, DiskOK, RefreshOK

LEMMA DoDeleteOK == ASSUME NEW m, FmOK(m), NEW n \in doDelete(m) PROVE FmOK(n)
<1> DEFINE e == [m EXCEPT !.mode = "normal"]
<1>1. FmOK(e)
  BY NormalOK
<1>2. ASSUME NEW d \in deleteEntry(m) PROVE WholeShare(d)
  BY <1>2, DeleteWhole DEF deleteEntry, FmOK
<1>3. n = e \/ \E d \in deleteEntry(m) : n \in refresh([e EXCEPT !.disk = d])
  BY Zenon DEF doDelete
<1> HIDE DEF e
<1> QED BY <1>1, <1>2, <1>3, DiskOK, RefreshOK

LEMMA YankOK == ASSUME NEW m, FmOK(m), NEW cut PROVE FmOK(yankClip(m, cut))
<1> DEFINE e == [m EXCEPT !.clip = SelPath(m), !.clipCut = cut]
<1>1. FmAlike(m, e)
  BY DEF FmOK, FmAlike, FmShape, FmFields
<1> QED BY <1>1, AlikeOK DEF yankClip

LEMMA PasteMoveOK == ASSUME NEW m, FmOK(m), NEW p, NEW n \in pasteMove(m, p) PROVE FmOK(n)
<1>1. n = m \/ \E q : \E d \in FileRename(m.disk, p, q) : n \in refresh([m EXCEPT !.disk = d, !.clip = {}])
  BY Zenon DEF pasteMove
<1>2. ASSUME NEW q, NEW d \in FileRename(m.disk, p, q) PROVE FmOK([m EXCEPT !.disk = d, !.clip = {}])
  <2>1. WholeShare(d)
    BY <1>2, RenameWhole DEF FmOK
  <2> QED BY <2>1 DEF FmOK, FmShape, FmFields, Aims
<1> QED BY <1>1, <1>2, RefreshOK

LEMMA PasteCopyOK == ASSUME NEW m, FmOK(m), NEW p, NEW n \in pasteCopy(m, p) PROVE FmOK(n)
<1> DEFINE data == {b \in readCapped(m.disk, p, maxPasteBytes) : b.n < maxPasteBytes}
           as(o) == IF o.rc = "ok" /\ o.alive THEN refresh([m EXCEPT !.disk = o.disk])
                    ELSE {[m EXCEPT !.disk = o.disk, !.alive = o.alive]}
           outs == UNION {UNION {WriteFileSafe(m.disk, q, b) : b \in data} : q \in joinPath(m.path, baseName(p))}
<1>0. pasteCopy(m, p) = {m} \cup UNION {as(o) : o \in outs}
  BY DEF pasteCopy
<1> HIDE DEF as
<1>1. n = m \/ \E q : \E b \in data : \E o \in WriteFileSafe(m.disk, q, b) : n \in as(o)
  <2>1. n = m \/ \E o \in outs : n \in as(o)
    BY <1>0
  <2>2. \A o \in outs : \E q : \E b \in data : o \in WriteFileSafe(m.disk, q, b)
    OBVIOUS
  <2> HIDE DEF outs, data
  <2> QED BY <2>1, <2>2
<1>2. ASSUME NEW q, NEW b \in data, NEW o \in WriteFileSafe(m.disk, q, b) PROVE WholeShare(o.disk)
  <2>1. b.orphan \/ b.n = BodySize[b.body]
    BY ReadWhole DEF FmOK
  <2> QED BY <2>1, <1>2, WriteWhole DEF FmOK
<1>3. ASSUME NEW o, WholeShare(o.disk), n \in as(o) PROVE FmOK(n)
  <2>1. CASE o.rc = "ok" /\ o.alive
    BY <1>3, <2>1, DiskOK, RefreshOK DEF as
  <2>2. CASE n = [m EXCEPT !.disk = o.disk, !.alive = o.alive]
    BY <1>3, <2>2 DEF FmOK, FmShape, FmFields, Aims
  <2> QED BY <1>3, <2>1, <2>2 DEF as
<1> HIDE DEF data
<1> QED BY <1>1, <1>2, <1>3

LEMMA PasteOK == ASSUME NEW m, FmOK(m), NEW n \in pasteClip(m) PROVE FmOK(n)
<1>1. n = m \/ \E p : n \in pasteMove(m, p) \/ n \in pasteCopy(m, p)
  BY Zenon DEF pasteClip
<1> QED BY <1>1, PasteMoveOK, PasteCopyOK

LEMMA GoUpOK == ASSUME NEW m, FmOK(m), NEW n \in goUp(m) PROVE FmOK(n)
  BY CdOK DEF goUp

\* Any key, in any mode.
LEMMA KeyOK == ASSUME NEW m, FmOK(m), NEW n \in handleKey(m) PROVE FmOK(n)
<1> DEFINE left == [m EXCEPT !.mode = "normal"]
           quits == [m EXCEPT !.quit = TRUE]
           typed(v) == [m EXCEPT !.input = v]
<1>1. FmOK(left)
  BY NormalOK
<1>2. FmOK(quits) /\ \A v : FmOK(typed(v))
  BY DEF FmOK, FmShape, FmFields, Aims
<1>3. CASE m.mode = "rename"
  <2>1. n \in commitRename(m) \/ n = left \/ n = quits \/ \E v : n = typed(v)
    BY <1>3 DEF handleKey, fmKeyRename
  <2> QED BY <1>1, <1>2, <2>1, RenameOK
<1>4. CASE m.mode = "openwith"
  <2>1. (\E k : n = chooseOpen(m, k)) \/ n = clearOpenWith(m) \/ n = quits
    BY <1>4 DEF handleKey, fmKeyOpenWith
  <2> QED BY <1>2, <1>4, <2>1, ChooseOpenOK, ClearOpenWithOK
<1>5. CASE m.mode = "confirm"
  <2>1. n \in doDelete(m) \/ n = left \/ n = quits
    BY <1>5 DEF handleKey, fmKeyConfirm
  <2> QED BY <1>1, <1>2, <2>1, DoDeleteOK
<1>6. CASE m.mode \notin {"rename", "openwith", "confirm"}
  <2>1. n \in fmKeyNormal(m)
    BY <1>6 DEF handleKey
  <2>2. \/ \E k : n = fmMove(m, k) \/ n = moveCursorTo(m, k)
        \/ n \in openSel(m) \/ n \in goUp(m) \/ n \in pasteClip(m)
        \/ n = startRename(m) \/ n = startDelete(m) \/ n = startOpenWith(m) \/ n = quits
        \/ \E cut : n = yankClip(m, cut)
    BY <2>1, Zenon DEF fmKeyNormal
  <2> HIDE DEF quits
  <2> QED BY <1>2, <2>2, MoveOK, OpenSelOK, GoUpOK, PasteOK, PromptOK, StartOpenWithOK, YankOK
<1> QED BY <1>3, <1>4, <1>5, <1>6

-----------------------------------------------------------------------------
(* The program. *)

LEMMA DrainOK == ASSUME NEW m, FmOK(m) PROVE FmOK(drainLaunch(m))
  BY DEF FmOK, FmShape, FmFields, Aims, drainLaunch

LEMMA SpendOK == ASSUME NEW m, FmOK(m) PROVE FmOK(Spend(m))
  BY DEF FmOK, FmShape, FmFields, Aims, Spend

LEMMA NewModelOK == ASSUME NEW d, WholeShare(d), NEW n \in newModel(d) PROVE FmOK(n)
<1> DEFINE m == [disk |-> d, path |-> <<>>, entries |-> <<>>, sel |-> 1, mode |-> "normal", input |-> {},
             clip |-> {}, clipCut |-> FALSE, preview |-> {}, openPath |-> <<>>, openCands |-> <<>>,
             launch |-> <<>>, ran |-> <<>>, quit |-> FALSE, alive |-> TRUE,
             meant |-> <<>>, chose |-> <<>>, keys |-> 0]
<1>1. m.disk = d /\ m.mode = "normal" /\ m.chose = <<>>
  OBVIOUS
<1>2. FmShape(m)
  BY DEF FmShape, FmFields
<1>3. n \in refresh(m)
  BY DEF newModel
<1> HIDE DEF m
<1> QED BY <1>1, <1>2, <1>3, RefreshOK DEF FmOK, Aims

LEMMA OutsideOK ==
  ASSUME NEW d, WholeShare(d), NEW p, NEW b
  PROVE  WholeShare(With(d, p, File(b, BodySize[b], FALSE)))
<1>1. File(b, BodySize[b], FALSE).n = BodySize[File(b, BodySize[b], FALSE).body]
  BY DEF File
<1> QED BY <1>1, WithWhole

LEMMA FmStep == ASSUME FmOK(fm), [fmNext]_fmVars PROVE FmOK(fm')
<1>1. CASE onKey
  <2>1. PICK m \in handleKey(fm) : fm' = Spend(drainLaunch(m))
    BY <1>1 DEF onKey
  <2> QED BY <2>1, KeyOK, DrainOK, SpendOK
<1>2. CASE onMouse
  <2>1. PICK i : \E m \in handleClick(fm, i) : fm' = Spend(drainLaunch(m))
    BY <1>2 DEF onMouse
  <2> QED BY <2>1, ClickOK, DrainOK, SpendOK
<1>3. CASE navGoto
  <2>1. PICK p : \E m \in Cd(fm, p) : fm' = Spend(m)
    BY <1>3 DEF navGoto
  <2> QED BY <2>1, CdOK, SpendOK
<1>4. CASE Outside
  <2>1. PICK d : WholeShare(d) /\ fm' = Spend([fm EXCEPT !.disk = d])
    BY <1>4, OutsideOK, WithoutWhole DEF Outside, FmOK
  <2> QED BY <2>1, DiskOK, SpendOK
<1>5. CASE fmRestart
  <2>1. PICK m \in newModel(fm.disk) : fm' = Spend(m)
    BY <1>5 DEF fmRestart
  <2> QED BY <2>1, NewModelOK, SpendOK DEF FmOK
<1>6. CASE UNCHANGED fmVars
  BY <1>6 DEF fmVars
<1> QED BY <1>1, <1>2, <1>3, <1>4, <1>5, <1>6 DEF fmNext

\* The file manager never leaves a file of the share with part of a body, unless
\* it is an orphan temporary, and starts a chosen program on the file the list was
\* opened for: for any shares, bodies, names and caps, whatever other programs
\* store and wherever a write is cut.
THEOREM ShareStaysWhole == fmSpec => []FilesSafe
<1>1. fmInit => FmOK(fm)
  BY SharesWhole, NewModelOK DEF fmInit
<1>2. FmOK(fm) /\ [fmNext]_fmVars => FmOK(fm)'
  BY FmStep
<1>3. FmOK(fm) => FilesSafe
  BY DEF FmOK, Aims, FilesSafe, NeverPartial, OpenTargetsStay
<1> QED BY <1>1, <1>2, <1>3, PTL DEF fmSpec

-----------------------------------------------------------------------------
(* The calculator. *)

I64 == minI64 .. maxI64

Magnitude(x) == IF x < 0 THEN -x ELSE x

\* Division as the schoolbook does it: the quotient without the machine's wrap.
Truncated(a, b) ==
  LET q == Magnitude(a) \div Magnitude(b) IN IF (a < 0) # (b < 0) THEN -q ELSE q

LEMMA WrapIn == ASSUME NEW x \in Int PROVE Wrap(x) \in I64
  BY CalcRange DEF Wrap, I64, minI64, maxI64

LEMMA WrapBy == ASSUME NEW x \in Int PROVE \E k \in Int : x - Wrap(x) = (2 * HalfRange) * k
<1> DEFINE W == 2 * HalfRange
           y == x - minI64
<1>1. W \in Nat \ {0} /\ y \in Int
  BY CalcRange DEF minI64
<1>2. y \div W \in Int /\ y = W * (y \div W) + (y % W)
  <2> HIDE DEF W, y
  <2> QED BY <1>1
<1>3. x - Wrap(x) = W * (y \div W)
  BY <1>1, <1>2, CalcRange DEF Wrap, minI64
<1> QED BY <1>2, <1>3

LEMMA OnlyMultiple ==
  ASSUME NEW k \in Int, NEW W \in Nat \ {0}, NEW r \in Int, -W < r, r < W, r = W * k PROVE r = 0
  OBVIOUS

\* Wrap is the only integer of the engine that differs by a whole number of
\* ranges.
LEMMA WrapOnly ==
  ASSUME NEW x \in Int, NEW y \in I64, NEW k \in Int, x - y = (2 * HalfRange) * k PROVE Wrap(x) = y
<1>1. Wrap(x) \in I64
  BY WrapIn
<1>2. PICK j \in Int : x - Wrap(x) = (2 * HalfRange) * j
  BY WrapBy
<1> DEFINE W == 2 * HalfRange
           z == Wrap(x)
<1>3. W \in Nat \ {0} /\ y \in Int /\ z \in Int /\ -W < y - z /\ y - z < W
  BY <1>1, CalcRange DEF I64, minI64, maxI64
<1>4. x - y = W * k /\ x - z = W * j
  BY <1>2
<1> HIDE DEF W, z
<1>5. W * (j - k) = W * j - W * k
  BY <1>3
<1>6. y - z = W * (j - k)
  BY <1>3, <1>4, <1>5
<1>7. y - z = 0
  <2> DEFINE t == j - k
             r == y - z
  <2>1. t \in Int /\ r \in Int /\ r = W * t /\ -W < r /\ r < W
    BY <1>3, <1>6
  <2> HIDE DEF t, r
  <2>2. r = 0
    BY <1>3, <2>1, OnlyMultiple
  <2> QED BY <2>2 DEF r
<1> QED BY <1>3, <1>7 DEF z

LEMMA WrapExact == ASSUME NEW x \in I64 PROVE Wrap(x) = x
  BY CalcRange, WrapOnly, 0 \in Int DEF I64, minI64, maxI64

LEMMA WrapNear ==
  ASSUME NEW x \in Int, -(2 * HalfRange) <= x, x < 2 * HalfRange
  PROVE  /\ x > maxI64 => Wrap(x) = x - 2 * HalfRange
         /\ x < minI64 => Wrap(x) = x + 2 * HalfRange
<1>1. CASE x > maxI64
  <2>1. x - 2 * HalfRange \in I64 /\ x - (x - 2 * HalfRange) = (2 * HalfRange) * 1
    BY <1>1, CalcRange DEF I64, minI64, maxI64
  <2> QED BY <1>1, <2>1, WrapOnly, CalcRange DEF I64, minI64, maxI64
<1>2. CASE x < minI64
  <2>1. x + 2 * HalfRange \in I64 /\ x - (x + 2 * HalfRange) = (2 * HalfRange) * (-1)
    BY <1>2, CalcRange DEF I64, minI64, maxI64
  <2> QED BY <1>2, <2>1, WrapOnly, CalcRange DEF I64, minI64, maxI64
<1> QED BY <1>1, <1>2, CalcRange DEF minI64, maxI64
-----------------------------------------------------------------------------
\* What an exact operation of the engine gives: the value when it is one of its
\* integers, a refusal when it is not.
ExactOrNot(r, x) == IF x \in I64 THEN r = Ok(x) ELSE r = Overflow

LEMMA AddExact == ASSUME NEW a \in I64, NEW b \in I64 PROVE ExactOrNot(add64(a, b), a + b)
<1>1. a + b \in Int /\ -(2 * HalfRange) <= a + b /\ a + b < 2 * HalfRange
  BY CalcRange DEF I64, minI64, maxI64
<1>2. CASE a + b \in I64
  BY <1>2, WrapExact, CalcRange DEF add64, ExactOrNot, I64, minI64, maxI64
<1>3. CASE a + b > maxI64
  <2>1. Wrap(a + b) = (a + b) - 2 * HalfRange
    BY <1>1, <1>3, WrapNear
  <2> QED BY <1>1, <1>3, <2>1, CalcRange DEF add64, ExactOrNot, I64, minI64, maxI64
<1>4. CASE a + b < minI64
  <2>1. Wrap(a + b) = a + b + 2 * HalfRange
    BY <1>1, <1>4, WrapNear
  <2> QED BY <1>1, <1>4, <2>1, CalcRange DEF add64, ExactOrNot, I64, minI64, maxI64
<1> QED BY <1>1, <1>2, <1>3, <1>4, CalcRange DEF I64, minI64, maxI64

LEMMA SubExact == ASSUME NEW a \in I64, NEW b \in I64 PROVE ExactOrNot(sub64(a, b), a - b)
<1>1. a - b \in Int /\ -(2 * HalfRange) <= a - b /\ a - b < 2 * HalfRange
  BY CalcRange DEF I64, minI64, maxI64
<1>2. CASE a - b \in I64
  BY <1>2, WrapExact, CalcRange DEF sub64, ExactOrNot, I64, minI64, maxI64
<1>3. CASE a - b > maxI64
  <2>1. Wrap(a - b) = a - b - 2 * HalfRange
    BY <1>1, <1>3, WrapNear
  <2> QED BY <1>1, <1>3, <2>1, CalcRange DEF sub64, ExactOrNot, I64, minI64, maxI64
<1>4. CASE a - b < minI64
  <2>1. Wrap(a - b) = a - b + 2 * HalfRange
    BY <1>1, <1>4, WrapNear
  <2> QED BY <1>1, <1>4, <2>1, CalcRange DEF sub64, ExactOrNot, I64, minI64, maxI64
<1> QED BY <1>1, <1>2, <1>3, <1>4, CalcRange DEF I64, minI64, maxI64

-----------------------------------------------------------------------------
(* Multiplication and its test by division. *)

LEMMA DivBounds ==
  ASSUME NEW n \in Nat, NEW d \in Nat \ {0}
  PROVE  n \div d \in Nat /\ d * (n \div d) <= n /\ n < d * (n \div d) + d
  OBVIOUS

LEMMA DivOfProduct == ASSUME NEW a \in Nat \ {0}, NEW b \in Nat PROVE (a * b) \div a = b
  OBVIOUS

LEMMA Signs ==
  ASSUME NEW a \in Int, NEW b \in Int
  PROVE  /\ (-a) * b = -(a * b) /\ a * (-b) = -(a * b) /\ (-a) * (-b) = a * b
         /\ a > 0 /\ b > 0 => a * b > 0
         /\ a >= 0 /\ b >= 0 => a * b >= 0
  OBVIOUS

\* A quotient times the divisor is less than one divisor away.
LEMMA TruncatedNear ==
  ASSUME NEW c \in Int, NEW a \in Int, a # 0
  PROVE  /\ Truncated(c, a) \in Int
         /\ -Magnitude(a) < c - a * Truncated(c, a) /\ c - a * Truncated(c, a) < Magnitude(a)
<1> DEFINE n == Magnitude(c)
           d == Magnitude(a)
           q == n \div d
<1>1. n \in Nat /\ d \in Nat \ {0}
  BY DEF Magnitude
<1>2. q \in Nat /\ d * q <= n /\ n < d * q + d
  BY <1>1, DivBounds
<1>3. Truncated(c, a) = IF (c < 0) # (a < 0) THEN -q ELSE q
  BY DEF Truncated
<1> HIDE DEF q
<1>4. a * (-q) = -(a * q) /\ (-a) * q = -(a * q) /\ a * q \in Int /\ d * q \in Int
  BY <1>1, <1>2
<1>5. CASE a > 0 /\ c >= 0
  BY <1>1, <1>2, <1>3, <1>4, <1>5 DEF Magnitude
<1>6. CASE a > 0 /\ c < 0
  BY <1>1, <1>2, <1>3, <1>4, <1>6 DEF Magnitude
<1>7. CASE a < 0 /\ c >= 0
  BY <1>1, <1>2, <1>3, <1>4, <1>7 DEF Magnitude
<1>8. CASE a < 0 /\ c < 0
  BY <1>1, <1>2, <1>3, <1>4, <1>8 DEF Magnitude
<1> QED BY <1>5, <1>6, <1>7, <1>8

LEMMA QuoIs == ASSUME NEW a, NEW b PROVE Quo(a, b) = Wrap(Truncated(a, b))
  BY DEF Quo, Truncated, Magnitude

\* The quotient is an integer of the engine, but for the least one by -1.
LEMMA TruncatedIn ==
  ASSUME NEW a \in I64, NEW b \in I64, b # 0, ~(a = minI64 /\ b = -1)
  PROVE  Truncated(a, b) \in I64
<1> DEFINE n == Magnitude(a)
           d == Magnitude(b)
           q == n \div d
<1>1. n \in Nat /\ d \in Nat \ {0} /\ n <= HalfRange /\ (n = HalfRange => a = minI64)
  BY CalcRange DEF Magnitude, I64, minI64, maxI64
<1>2. q \in Nat /\ d * q <= n /\ n < d * q + d
  BY <1>1, DivBounds
<1>3. Truncated(a, b) = IF (a < 0) # (b < 0) THEN -q ELSE q
  BY DEF Truncated
<1> HIDE DEF q
<1>4. q <= d * q
  BY <1>1, <1>2
<1>5. q <= HalfRange
  BY <1>1, <1>2, <1>4, CalcRange
<1>6. q = HalfRange => (a < 0) # (b < 0)
  <2> SUFFICES ASSUME q = HalfRange, (a < 0) = (b < 0) PROVE FALSE
    OBVIOUS
  <2>1. n = HalfRange /\ a = minI64 /\ a < 0 /\ b < 0
    BY <1>1, <1>2, <1>4, CalcRange DEF minI64, I64
  <2>2. b # -1 /\ d >= 2
    BY <2>1 DEF Magnitude, I64, minI64, maxI64
  <2>3. d * q >= 2 * q
    BY <1>1, <1>2, <2>2
  <2> QED BY <1>1, <1>2, <2>1, <2>3, CalcRange
<1> QED BY <1>2, <1>3, <1>5, <1>6, CalcRange DEF I64, minI64, maxI64

LEMMA QuoExact ==
  ASSUME NEW a \in I64, NEW b \in I64, b # 0, ~(a = minI64 /\ b = -1)
  PROVE  Quo(a, b) = Truncated(a, b)
  BY TruncatedIn, WrapExact, QuoIs

\* The one quotient that wraps.
LEMMA LeastByMinusOne == Truncated(minI64, -1) = HalfRange
<1>1. Magnitude(minI64) = HalfRange /\ Magnitude(-1) = 1
  <2>1. \A x \in Int : x < 0 => Magnitude(x) = -x
    BY DEF Magnitude
  <2>2. minI64 \in Int /\ minI64 < 0 /\ -minI64 = HalfRange
    BY CalcRange DEF minI64
  <2>3. Magnitude(-1) = -(-1)
    BY <2>1
  <2> QED BY <2>1, <2>2, <2>3
<1>2. (minI64 < 0) = (-1 < 0) /\ HalfRange \div 1 = HalfRange
  BY CalcRange DEF minI64
<1> QED BY <1>1, <1>2 DEF Truncated

LEMMA QuoWraps == Quo(minI64, -1) = minI64
<1>1. HalfRange \in Int /\ HalfRange > maxI64 /\ -(2 * HalfRange) <= HalfRange /\ HalfRange < 2 * HalfRange
  BY CalcRange DEF maxI64
<1>2. Wrap(HalfRange) = HalfRange - 2 * HalfRange
  BY <1>1, WrapNear
<1>3. Wrap(HalfRange) = minI64
  BY <1>2, CalcRange DEF minI64
<1> QED BY <1>3, LeastByMinusOne, QuoIs

\* When the test by division passes the product did not wrap, unless -1 was
\* multiplied with the least integer.
LEMMA MulSound ==
  ASSUME NEW a \in I64, NEW b \in Int, a # 0, b # 0, ~(a = -1 /\ b = minI64),
         Quo(Wrap(a * b), a) = b
  PROVE  Wrap(a * b) = a * b
<1> DEFINE x == a * b
           c == Wrap(x)
<1>1. x \in Int /\ c \in I64 /\ a \in Int
  BY WrapIn DEF I64, minI64, maxI64
<1>2. ~(c = minI64 /\ a = -1)
  BY QuoWraps
<1>3. Truncated(c, a) = b
  BY <1>1, <1>2, QuoExact
<1>4. c \in Int /\ Magnitude(a) <= HalfRange /\ Magnitude(a) \in Nat
  BY <1>1, CalcRange DEF I64, minI64, maxI64, Magnitude
<1>5. -Magnitude(a) < c - x /\ c - x < Magnitude(a)
  BY <1>1, <1>3, <1>4, TruncatedNear
<1>6. PICK k \in Int : x - c = (2 * HalfRange) * k
  BY <1>1, WrapBy
<1> HIDE DEF x, c
<1>7. x - c = 0
  <2> DEFINE r == x - c
             W == 2 * HalfRange
  <2>1. r \in Int /\ W \in Nat \ {0} /\ -W < r /\ r < W
    BY <1>1, <1>4, <1>5, CalcRange
  <2>2. r = W * k
    BY <1>6
  <2> HIDE DEF r, W
  <2>3. r = 0
    BY <2>1, <2>2, OnlyMultiple
  <2> QED BY <2>3 DEF r
<1> QED BY <1>1, <1>4, <1>7 DEF x, c

LEMMA MulComplete ==
  ASSUME NEW a \in I64, NEW b \in I64, a # 0, b # 0, a * b \in I64
  PROVE  Quo(Wrap(a * b), a) = b
<1> DEFINE x == a * b
<1>1. Wrap(x) = x
  BY WrapExact
<1>2. a \in Int /\ b \in Int
  BY DEF I64, minI64, maxI64
<1>3. Truncated(x, a) = b
  <2>1. CASE a > 0 /\ b > 0
    <3>1. x > 0 /\ x \div a = b
      BY <1>2, <2>1, Signs, DivOfProduct
    <3> QED BY <1>2, <2>1, <3>1 DEF Truncated, Magnitude
  <2>2. CASE a > 0 /\ b < 0
    <3>1. a * (-b) = -x /\ a * (-b) > 0
      BY <1>2, <2>2, Signs
    <3>2. (a * (-b)) \div a = -b
      BY <1>2, <2>2, DivOfProduct
    <3>3. x < 0 /\ (-x) \div a = -b
      BY <1>2, <3>1, <3>2
    <3> QED BY <1>2, <2>2, <3>3 DEF Truncated, Magnitude
  <2>3. CASE a < 0 /\ b > 0
    <3>1. (-a) * b = -x /\ (-a) * b > 0
      BY <1>2, <2>3, Signs
    <3>2. ((-a) * b) \div (-a) = b
      BY <1>2, <2>3, DivOfProduct
    <3>3. x < 0 /\ (-x) \div (-a) = b
      BY <1>2, <3>1, <3>2
    <3> QED BY <1>2, <2>3, <3>3 DEF Truncated, Magnitude
  <2>4. CASE a < 0 /\ b < 0
    <3>1. (-a) * (-b) = x /\ (-a) * (-b) > 0
      BY <1>2, <2>4, Signs
    <3>2. ((-a) * (-b)) \div (-a) = -b
      BY <1>2, <2>4, DivOfProduct
    <3>3. x > 0 /\ x \div (-a) = -b
      BY <1>2, <3>1, <3>2
    <3> QED BY <1>2, <2>4, <3>3 DEF Truncated, Magnitude
  <2> QED BY <1>2, <2>1, <2>2, <2>3, <2>4
<1> QED BY <1>1, <1>3, WrapExact, QuoIs

LEMMA MulExact ==
  ASSUME NEW a \in I64, NEW b \in I64, ~(a = -1 /\ b = minI64)
  PROVE  ExactOrNot(mul64(a, b), a * b)
<1>1. CASE a = 0 \/ b = 0
  <2>1. a * b = 0 /\ 0 \in I64
    BY <1>1, CalcRange DEF I64, minI64, maxI64
  <2> QED BY <1>1, <2>1 DEF mul64, ExactOrNot
<1>2. CASE a # 0 /\ b # 0
  <2>1. a * b \in Int /\ b \in Int
    BY DEF I64, minI64, maxI64
  <2>2. CASE a * b \in I64
    BY <1>2, <2>2, MulComplete, WrapExact DEF mul64, ExactOrNot
  <2>3. CASE a * b \notin I64
    <3>1. Wrap(a * b) # a * b
      BY <2>1, <2>3, WrapIn
    <3>2. Quo(Wrap(a * b), a) # b
      BY <1>2, <2>1, <3>1, MulSound
    <3> QED BY <1>2, <2>3, <3>2 DEF mul64, ExactOrNot
  <2> QED BY <2>2, <2>3
<1> QED BY <1>1, <1>2

LEMMA DivExact ==
  ASSUME NEW a \in I64, NEW b \in I64, b # 0, ~(a = minI64 /\ b = -1)
  PROVE  ExactOrNot(Ok(Quo(a, b)), Truncated(a, b))
  BY QuoExact, TruncatedIn DEF ExactOrNot

-----------------------------------------------------------------------------
(* The engine. *)

FourOps == {"+", "-", "*", "/"}

Engines ==
  [accum : I64, cur : I64, pending : FourOps \cup {""}, lastOp : FourOps \cup {""}, lastArg : I64,
   entering : BOOLEAN, hasErr : BOOLEAN]

\* The product -1 * minI64, whose overflow mul64 does not see, is never asked
\* for: the least integer is never typed, so it is the right operand only when it
\* was the left one too, and then the product is refused and no repeat remembers it.
NoBlindProduct(e) ==
  /\ e.pending = "*" /\ e.cur = minI64 => e.accum = minI64
  /\ e.lastOp = "*" => e.lastArg # minI64

EngOK(e) ==
  /\ e \in Engines
  /\ e.entering => e.cur >= 0
  /\ e.hasErr => e = fail
  /\ NoBlindProduct(e)

LEMMA FreshOK == EngOK(Engine) /\ EngOK(fail) /\ fail.hasErr /\ ~Engine.hasErr
<1>1. 0 \in I64 /\ 0 # minI64
  BY CalcRange DEF I64, minI64, maxI64
<1> QED BY <1>1 DEF EngOK, Engines, Engine, fail, NoBlindProduct, FourOps

LEMMA ExactTruncated ==
  ASSUME NEW a, NEW b
  PROVE  Exact("/", a, b) = IF b = 0 THEN maxI64 + 1 ELSE Truncated(a, b)
  BY DEF Exact, Truncated, Magnitude

\* What the operators give, before the engine takes it.
Computed(op, a, b) ==
  CASE op = "+" -> add64(a, b)
    [] op = "-" -> sub64(a, b)
    [] op = "*" -> mul64(a, b)
    [] op = "/" -> IF b = 0 \/ (a = minI64 /\ b = -1) THEN Overflow ELSE Ok(Quo(a, b))

LEMMA ComputedExact ==
  ASSUME NEW op \in FourOps, NEW a \in I64, NEW b \in I64, ~(op = "*" /\ a = -1 /\ b = minI64)
  PROVE  ExactOrNot(Computed(op, a, b), Exact(op, a, b))
<1>1. CASE op = "+"
  BY <1>1, AddExact DEF Computed, Exact
<1>2. CASE op = "-"
  BY <1>2, SubExact DEF Computed, Exact
<1>3. CASE op = "*"
  BY <1>3, MulExact DEF Computed, Exact
<1>4. CASE op = "/"
  <2>1. Computed(op, a, b) = IF b = 0 \/ (a = minI64 /\ b = -1) THEN Overflow ELSE Ok(Quo(a, b))
    BY <1>4 DEF Computed
  <2>2. CASE b = 0
    <3>1. maxI64 + 1 \notin I64
      BY CalcRange DEF I64, minI64, maxI64
    <3> QED BY <1>4, <2>1, <2>2, <3>1, ExactTruncated DEF ExactOrNot
  <2>3. CASE a = minI64 /\ b = -1
    <3>1. HalfRange \notin I64
      BY CalcRange DEF I64, minI64, maxI64
    <3>2. Exact(op, a, b) = HalfRange
      BY <1>4, <2>3, LeastByMinusOne, ExactTruncated
    <3> QED BY <2>1, <2>3, <3>1, <3>2 DEF ExactOrNot
  <2>4. CASE b # 0 /\ ~(a = minI64 /\ b = -1)
    BY <1>4, <2>1, <2>4, DivExact, ExactTruncated
  <2> QED BY <2>2, <2>3, <2>4
<1> QED BY <1>1, <1>2, <1>3, <1>4 DEF FourOps

\* One operation of the engine: the exact value, or the error.
LEMMA EvalBinaryExact ==
  ASSUME NEW e, EngOK(e), ~e.hasErr, NEW op \in FourOps, NEW a \in I64, NEW b \in I64,
         ~(op = "*" /\ a = -1 /\ b = minI64),
         e.pending # "" /\ op = "*" /\ b = minI64 => a = minI64
  PROVE  LET r == evalBinary(e, op, a, b)
             x == Exact(op, a, b)
         IN  /\ EngOK(r)
             /\ IF x \in I64 THEN ~r.hasErr /\ r.cur = x /\ ~r.entering ELSE r = fail
<1> DEFINE x == Exact(op, a, b)
           r == Computed(op, a, b)
           f == [e EXCEPT !.cur = r.v, !.accum = r.v, !.pending = "", !.entering = FALSE,
                   !.lastOp = IF e.pending # "" THEN op ELSE @,
                   !.lastArg = IF e.pending # "" THEN b ELSE @]
<1>1. evalBinary(e, op, a, b) = IF ~r.ok THEN fail ELSE f
  BY DEF evalBinary, Computed
<1>2. ExactOrNot(r, x)
  BY ComputedExact
<1>3. CASE x \notin I64
  <2>1. ~r.ok
    <3>1. r = Overflow
      BY <1>2, <1>3 DEF ExactOrNot
    <3> HIDE DEF r
    <3> QED BY <3>1 DEF Overflow
  <2> QED BY <1>1, <1>3, <2>1, FreshOK
<1>4. CASE x \in I64
  <2>1. r.ok /\ r.v = x
    <3>1. r = Ok(x)
      BY <1>2, <1>4 DEF ExactOrNot
    <3> HIDE DEF r, x
    <3> QED BY <3>1 DEF Ok
  <2>2. evalBinary(e, op, a, b) = f
    BY <1>1, <2>1
  <2>3. f \in Engines /\ f.cur = x /\ ~f.hasErr /\ ~f.entering /\ f.pending = ""
        /\ f.lastOp = (IF e.pending # "" THEN op ELSE e.lastOp)
        /\ f.lastArg = (IF e.pending # "" THEN b ELSE e.lastArg)
    <3> HIDE DEF x, r
    <3> QED BY <1>4, <2>1 DEF EngOK, Engines
  <2>4. op = "*" /\ b = minI64 /\ e.pending # "" => FALSE
    <3> SUFFICES ASSUME op = "*", b = minI64, a = minI64 PROVE FALSE
      OBVIOUS
    <3>1. x = minI64 * minI64
      BY DEF Exact
    <3>2. minI64 * minI64 = HalfRange * HalfRange /\ HalfRange * HalfRange >= HalfRange
      BY CalcRange DEF minI64
    <3> QED BY <1>4, <3>1, <3>2, CalcRange DEF I64, minI64, maxI64
  <2>5. NoBlindProduct(f)
    BY <2>3, <2>4 DEF NoBlindProduct, EngOK
  <2> HIDE DEF f, x
  <2>6. EngOK(f)
    BY <2>3, <2>5 DEF EngOK
  <2> QED BY <1>4, <2>2, <2>3, <2>6 DEF x
<1> QED BY <1>3, <1>4

\* "=" on the engine: what it shows, and that it stays sound.
LEMMA EvaluateExact ==
  ASSUME NEW e, EngOK(e), ~e.hasErr
  PROVE  /\ EngOK(Evaluate(e))
         /\ e.pending # "" =>
              LET x == Exact(e.pending, e.accum, e.cur)
              IN  IF x \in I64 THEN ~Evaluate(e).hasErr /\ Evaluate(e).cur = x ELSE Evaluate(e).hasErr
         /\ e.pending = "" /\ e.lastOp # "" =>
              LET x == Exact(e.lastOp, e.cur, e.lastArg)
              IN  IF x \in I64 THEN ~Evaluate(e).hasErr /\ Evaluate(e).cur = x ELSE Evaluate(e).hasErr
<1>0. e.accum \in I64 /\ e.cur \in I64 /\ e.lastArg \in I64 /\ NoBlindProduct(e)
  BY DEF EngOK, Engines
<1>1. e.accum \in I64 /\ e.cur \in I64 /\ e.lastArg \in I64 /\ NoBlindProduct(e) /\ -1 # minI64
  BY <1>0, CalcRange DEF minI64
<1>2. e.pending \in FourOps \cup {""} /\ e.lastOp \in FourOps \cup {""}
  BY DEF EngOK, Engines
<1>3. CASE e.pending # ""
  <2>1. Evaluate(e) = evalBinary(e, e.pending, e.accum, e.cur) /\ e.pending \in FourOps
    BY <1>2, <1>3 DEF Evaluate
  <2>2. e.pending = "*" /\ e.cur = minI64 => e.accum = minI64 /\ e.accum # -1
    BY <1>1 DEF NoBlindProduct
  <2> DEFINE r == evalBinary(e, e.pending, e.accum, e.cur)
             x == Exact(e.pending, e.accum, e.cur)
  <2>3. EngOK(r) /\ IF x \in I64 THEN ~r.hasErr /\ r.cur = x /\ ~r.entering ELSE r = fail
    BY <1>1, <2>1, <2>2, EvalBinaryExact
  <2> QED BY <1>3, <2>1, <2>3, FreshOK
<1>4. CASE e.pending = "" /\ e.lastOp # ""
  <2>1. Evaluate(e) = evalBinary(e, e.lastOp, e.cur, e.lastArg) /\ e.lastOp \in FourOps
    BY <1>2, <1>4 DEF Evaluate
  <2>2. e.lastOp = "*" => e.lastArg # minI64
    BY <1>1 DEF NoBlindProduct
  <2> DEFINE r == evalBinary(e, e.lastOp, e.cur, e.lastArg)
             x == Exact(e.lastOp, e.cur, e.lastArg)
  <2>3. EngOK(r) /\ IF x \in I64 THEN ~r.hasErr /\ r.cur = x /\ ~r.entering ELSE r = fail
    BY <1>1, <1>4, <2>1, <2>2, EvalBinaryExact
  <2> QED BY <1>4, <2>1, <2>3, FreshOK
<1>5. CASE e.pending = "" /\ e.lastOp = ""
  BY <1>5 DEF Evaluate
<1> QED BY <1>3, <1>4, <1>5

LEMMA EvaluateOK == ASSUME NEW e, EngOK(e) PROVE EngOK(Evaluate(e))
<1>1. CASE e.hasErr
  BY <1>1 DEF Evaluate
<1>2. CASE ~e.hasErr
  BY <1>2, EvaluateExact
<1> QED BY <1>1, <1>2

LEMMA SetOpOK == ASSUME NEW e, EngOK(e), NEW op \in FourOps PROVE EngOK(SetOp(e, op))
<1> DEFINE f == IF e.entering THEN Evaluate(e) ELSE e
           g == [f EXCEPT !.accum = f.cur, !.pending = op, !.entering = FALSE]
<1>1. EngOK(f)
  BY EvaluateOK
<1>2. SetOp(e, op) = f \/ (~f.hasErr /\ SetOp(e, op) = g)
  BY DEF SetOp
<1> HIDE DEF f
<1>3. CASE ~f.hasErr
  <2>1. g \in Engines /\ g.accum = f.cur /\ g.cur = f.cur /\ ~g.entering /\ ~g.hasErr
        /\ g.lastOp = f.lastOp /\ g.lastArg = f.lastArg
    BY <1>1, <1>3 DEF EngOK, Engines
  <2> HIDE DEF g
  <2> QED BY <1>1, <1>2, <2>1 DEF EngOK, NoBlindProduct
<1> QED BY <1>1, <1>2, <1>3

\* A digit that fits is appended, and the number stays one that can be typed.
LEMMA DigitOK == ASSUME NEW e, EngOK(e), NEW d \in 0 .. maxI64 PROVE EngOK(InputDigit(e, d))
<1> DEFINE grown == mul64(e.cur, 10)
           next == IF e.cur >= 0 THEN add64(grown.v, d) ELSE sub64(grown.v, d)
           put(v) == [e EXCEPT !.hasErr = FALSE, !.cur = v, !.entering = TRUE]
           as(v) == [e EXCEPT !.hasErr = FALSE, !.cur = v]
           same == [e EXCEPT !.hasErr = FALSE]
<1>0. e.cur \in I64 /\ e.entering \in BOOLEAN /\ minI64 < 0 /\ minI64 \in Int /\ maxI64 \in Int
  <2>1. e.cur \in I64 /\ e.entering \in BOOLEAN
    BY DEF EngOK, Engines
  <2> QED BY <2>1, CalcRange DEF minI64, maxI64
<1>1. InputDigit(e, d) = IF ~e.entering THEN put(d)
                         ELSE IF ~grown.ok \/ ~next.ok THEN same ELSE as(next.v)
  BY DEF InputDigit
<1>2. ASSUME NEW v \in I64, v >= 0 PROVE EngOK(put(v))
  <2>1. put(v) \in Engines /\ put(v).cur = v /\ ~put(v).hasErr /\ put(v).lastOp = e.lastOp
        /\ put(v).lastArg = e.lastArg
    BY <1>2 DEF EngOK, Engines
  <2>2. v # minI64
    BY <1>0, <1>2 DEF I64
  <2> HIDE DEF put
  <2> QED BY <1>2, <2>1, <2>2 DEF EngOK, NoBlindProduct
<1>3. d \in I64 /\ d >= 0
  BY <1>0 DEF I64
<1>4. CASE ~e.entering
  BY <1>1, <1>2, <1>3, <1>4
<1>5. CASE e.entering
  <2>1. e.cur \in I64 /\ e.cur >= 0 /\ ~e.hasErr
    BY <1>0, <1>5 DEF EngOK, fail, Engine
  <2>2. same = e /\ \A v : as(v) = put(v)
    BY <1>5, <2>1 DEF EngOK, Engines
  <2>3. ASSUME grown.ok, next.ok PROVE next.v \in I64 /\ next.v >= 0
    <3>1. grown.v \in I64 /\ grown.v >= 0
      <4>1. CASE e.cur = 0
        BY <1>0, <4>1 DEF mul64, Ok, I64, minI64, maxI64
      <4>2. CASE e.cur # 0
        <5>1. grown = Ok(Wrap(e.cur * 10)) /\ Quo(Wrap(e.cur * 10), e.cur) = 10
          BY <2>3, <4>2 DEF mul64, Overflow
        <5>2. e.cur # -1
          BY <2>1
        <5>3. Wrap(e.cur * 10) = e.cur * 10
          BY <2>1, <4>2, <5>1, <5>2, MulSound
        <5>4. e.cur * 10 \in Int /\ e.cur * 10 >= 0
          BY <2>1 DEF I64, minI64, maxI64
        <5> QED BY <5>1, <5>3, <5>4, WrapIn DEF Ok
      <4> QED BY <4>1, <4>2
    <3>2. next = add64(grown.v, d)
      BY <2>1
    <3> HIDE DEF grown, next
    <3>3. ExactOrNot(next, grown.v + d)
      BY <1>3, <3>1, <3>2, AddExact
    <3>4. next = Ok(grown.v + d) /\ grown.v + d \in I64
      BY <2>3, <3>3 DEF ExactOrNot, Overflow
    <3>5. next.v = grown.v + d
      BY <3>4 DEF Ok
    <3> QED BY <1>0, <1>3, <3>1, <3>4, <3>5 DEF I64
  <2> HIDE DEF grown, next, put, as, same
  <2>4. CASE grown.ok /\ next.ok
    BY <1>1, <1>2, <1>5, <2>2, <2>3, <2>4
  <2>5. CASE ~(grown.ok /\ next.ok)
    BY <1>1, <1>5, <2>2, <2>5
  <2> QED BY <2>4, <2>5
<1> QED BY <1>0, <1>4, <1>5

LEMMA BackspaceOK == ASSUME NEW e, EngOK(e) PROVE EngOK(Backspace(e))
<1> DEFINE q == Quo(e.cur, 10)
           f == [e EXCEPT !.cur = q, !.entering = (q # 0)]
<1>1. Backspace(e) = IF ~e.entering THEN e ELSE f
  BY DEF Backspace
<1>2. CASE e.entering
  <2>1. e.cur \in I64 /\ e.cur >= 0 /\ ~e.hasErr /\ e.cur \in Nat
    <3>1. e.cur \in I64 /\ e.cur >= 0 /\ ~e.hasErr
      BY <1>2 DEF EngOK, Engines, fail, Engine
    <3> QED BY <3>1 DEF I64, minI64, maxI64
  <2>2. Truncated(e.cur, 10) = e.cur \div 10
    BY <2>1 DEF Truncated, Magnitude
  <2>3. e.cur \div 10 \in Nat /\ e.cur \div 10 <= e.cur
    BY <2>1
  <2>4. e.cur \div 10 \in I64
    BY <2>1, <2>3, CalcRange DEF I64, minI64, maxI64
  <2>5. q \in I64 /\ q >= 0 /\ q # minI64
    BY <2>2, <2>3, <2>4, WrapExact, QuoIs, CalcRange DEF minI64
  <2> HIDE DEF q
  <2>6. f \in Engines /\ f.cur = q /\ ~f.hasErr /\ f.lastOp = e.lastOp /\ f.lastArg = e.lastArg
    BY <2>1, <2>5 DEF EngOK, Engines
  <2> HIDE DEF f
  <2> QED BY <1>1, <1>2, <2>5, <2>6 DEF EngOK, NoBlindProduct
<1> QED BY <1>1, <1>2

-----------------------------------------------------------------------------
(* The program. *)

CalcFields == {"eng", "tail", "just", "file", "keys"}

CalcOK(c) == c = [f \in CalcFields |-> c[f]] /\ EngOK(c.eng)

LEMMA CalcParts ==
  ASSUME NEW c, CalcOK(c), NEW e, EngOK(e), NEW t, NEW j, NEW f, NEW k
  PROVE  /\ CalcOK([c EXCEPT !.eng = e, !.just = j, !.tail = t])
         /\ CalcOK([c EXCEPT !.eng = e, !.tail = t, !.just = j])
         /\ CalcOK([c EXCEPT !.eng = e, !.just = j, !.file = f])
         /\ CalcOK([c EXCEPT !.eng = e, !.tail = t])
         /\ CalcOK([c EXCEPT !.keys = k])
  BY DEF CalcOK, CalcFields

LEMMA CalcStep == ASSUME CalcOK(calc), [calcNext]_calc PROVE CalcOK(calc')
<1>0. EngOK(calc.eng)
  BY DEF CalcOK
<1>1. ASSUME NEW c, CalcOK(c), CalcKey(c) PROVE CalcOK(calc')
  BY <1>1, FreshOK, CalcParts DEF CalcKey
<1>2. CASE PressDigit
  <2>1. PICK d \in CalcDigits : CalcKey(doDigit(calc, d))
    BY <1>2 DEF PressDigit
  <2>2. EngOK(InputDigit(calc.eng, d))
    BY <1>0, DigitOK, CalcKeys
  <2>3. CalcOK(doDigit(calc, d))
    BY <2>2, CalcParts DEF doDigit
  <2> QED BY <1>1, <2>1, <2>3
<1>3. CASE PressOp
  <2>1. PICK op \in CalcOps : CalcKey(doOp(calc, op))
    BY <1>3 DEF PressOp
  <2>2. EngOK(SetOp(calc.eng, op))
    BY <1>0, SetOpOK, CalcKeys DEF FourOps
  <2>3. CalcOK(doOp(calc, op))
    BY <2>2, CalcParts DEF doOp
  <2> QED BY <1>1, <2>1, <2>3
<1>4. CASE PressEval
  <2>1. PICK written \in BOOLEAN : CalcKey(doEval(calc, written))
    BY <1>4 DEF PressEval
  <2>2. EngOK(Evaluate(calc.eng))
    BY <1>0, EvaluateOK
  <2>3. CalcOK(doEval(calc, written))
    BY <2>2, CalcParts DEF doEval
  <2> QED BY <1>1, <2>1, <2>3
<1>5. CASE PressClear
  <2>1. CalcOK(doClear(calc))
    BY FreshOK, CalcParts DEF doClear
  <2> QED BY <1>1, <1>5, <2>1 DEF PressClear
<1>6. CASE PressBackspace
  <2>1. CalcOK(doBackspace(calc))
    BY <1>0, BackspaceOK, CalcParts DEF doBackspace
  <2> QED BY <1>1, <1>6, <2>1 DEF PressBackspace
<1>7. CASE UNCHANGED calc
  BY <1>7
<1> QED BY <1>2, <1>3, <1>4, <1>5, <1>6, <1>7 DEF calcNext

\* The calculator shows the exact result of every operation whose result is one
\* of its integers and ERROR for every other, for integers of any width and any
\* sequence of keys; a number being typed is never negative.
THEOREM CalculatorExact == calcSpec => []CalcSound
<1>1. calcInit => CalcOK(calc)
  BY FreshOK DEF calcInit, CalcOK, CalcFields
<1>2. CalcOK(calc) /\ [calcNext]_calc => CalcOK(calc)'
  BY CalcStep
<1>3. CalcOK(calc) => CalcSound
  <2> SUFFICES ASSUME CalcOK(calc) PROVE CalcSound
    OBVIOUS
  <2> DEFINE e == calc.eng
  <2>1. EngOK(e)
    BY DEF CalcOK
  <2>2. CalcTyped
    <3>1. e.cur \in I64
      BY <2>1 DEF EngOK, Engines
    <3>2. e.entering => e.cur \in 0 .. maxI64
      BY <2>1, <3>1, CalcRange DEF EngOK, I64, minI64, maxI64
    <3> QED BY <2>1, <3>2 DEF CalcTyped, EngOK
  <2>3. CalcExact
    BY <2>1, EvaluateExact DEF CalcExact, I64
  <2> QED BY <2>2, <2>3 DEF CalcSound
<1> QED BY <1>1, <1>2, <1>3, PTL DEF calcSpec

-----------------------------------------------------------------------------
(* The one socket of a process. *)

GPCs == {"idle", "listen", "connect", "handshake", "take", "release"}

Conns == [open : BOOLEAN, listening : BOOLEAN, gone : BOOLEAN]

Goroutines == [pc : GPCs, c : Conns, polls : Int]

TcpStates == {"idle", "syn", "listen", "half", "est", "fin", "closed"}

TcpOwners == {"me", "other", "none"}

Socks ==
  [held : BOOLEAN, tcp : TcpStates, server : BOOLEAN, owner : TcpOwners, rx : Int, left : Int, fin : BOOLEAN,
   g : [Dialers -> Goroutines]]

LEMMA TcpNames ==
  /\ "idle" \in TcpStates /\ "syn" \in TcpStates /\ "listen" \in TcpStates /\ "est" \in TcpStates
  /\ "half" \in TcpStates /\ "fin" \in TcpStates /\ "closed" \in TcpStates
  /\ "me" \in TcpOwners /\ "other" \in TcpOwners /\ "none" \in TcpOwners
  /\ 0 \in Int /\ TRUE \in BOOLEAN /\ FALSE \in BOOLEAN
  BY DEF TcpStates, TcpOwners

Using(s, d) == s.g[d].c.open \/ s.g[d].pc # "idle"

\* A connection this process dialled and still owns.
Alive(s) == s.owner = "me" /\ ~s.server /\ s.tcp \in {"syn", "est"}

\* Only a machine opened passively listens or is half open.
Passive(s) == s.tcp \in {"listen", "half"} => s.server

\* At most one goroutine is past its claim, and the flag is set exactly while one
\* is.  A live connection of the process implies the flag; a claim that has not
\* reached the kernel, or a close that has left it, finds none there.  No Conn is
\* open during a dial or a release, and a receive has one.
SockOK(s) ==
  /\ s \in Socks
  /\ \A d, e \in Dialers : Using(s, d) /\ Using(s, e) => d = e
  /\ \A d \in Dialers : Using(s, d) => s.held
  /\ s.held => \E d \in Dialers : Using(s, d)
  /\ Passive(s)
  /\ Alive(s) => s.held
  /\ \A d \in Dialers : s.g[d].pc \in {"connect", "listen", "release"} => ~Alive(s)
  /\ \A d \in Dialers : s.g[d].pc = "take" => s.g[d].c.open
  /\ \A d \in Dialers : s.g[d].pc \in {"connect", "listen", "handshake", "release"} => ~s.g[d].c.open

LEMMA SockStart == sockInit => SockOK(sock)
  BY SockBounds, TcpNames DEF sockInit, SockOK, Socks, Goroutines, GPCs, Conns, NoConn, Using, Alive,
                     Passive

\* What the steps make of a goroutine's record.
Moved(x, v) == [x EXCEPT !.pc = v, !.polls = 0]
Polled(x) == [x EXCEPT !.polls = @ + 1]
Holding(x, k) == [x EXCEPT !.c = k]

LEMMA MovedIs ==
  ASSUME NEW x \in Goroutines, NEW v \in GPCs
  PROVE  Moved(x, v) \in Goroutines /\ Moved(x, v).pc = v /\ Moved(x, v).c = x.c
<1> DEFINE y == [x EXCEPT !.pc = v]
<1>1. y \in Goroutines /\ y.pc = v /\ y.c = x.c
  BY DEF Goroutines
<1>2. Moved(x, v) = [y EXCEPT !.polls = 0]
  BY DEF Moved, Goroutines
<1> HIDE DEF y
<1> QED BY <1>1, <1>2 DEF Goroutines

LEMMA PolledIs ==
  ASSUME NEW x \in Goroutines
  PROVE  Polled(x) \in Goroutines /\ Polled(x).pc = x.pc /\ Polled(x).c = x.c
  BY DEF Goroutines, Polled

LEMMA HoldingIs ==
  ASSUME NEW x \in Goroutines, NEW k \in Conns
  PROVE  Holding(x, k) \in Goroutines /\ Holding(x, k).pc = x.pc /\ Holding(x, k).c = k
  BY DEF Goroutines, Holding

\* The machine is in the same state.
SameTcp(s, t) == t.tcp = s.tcp /\ t.server = s.server /\ t.owner = s.owner

\* s with the record of goroutine d replaced by x.
Replaced(s, d, x) == [s EXCEPT !.g = [s.g EXCEPT ![d] = x]]

LEMMA ReplacedIs ==
  ASSUME NEW s \in Socks, NEW d \in Dialers, NEW x \in Goroutines
  PROVE  LET t == Replaced(s, d, x)
         IN  /\ t \in Socks
             /\ t.held = s.held /\ SameTcp(s, t)
             /\ t.g[d] = x
             /\ \A e \in Dialers \ {d} : t.g[e] = s.g[e]
<1> DEFINE h == [s.g EXCEPT ![d] = x]
<1>1. h \in [Dialers -> Goroutines] /\ h[d] = x /\ \A e \in Dialers \ {d} : h[e] = s.g[e]
  BY DEF Socks
<1>2. Replaced(s, d, x) = [s EXCEPT !.g = h]
  BY DEF Replaced
<1> HIDE DEF h
<1> QED BY <1>1, <1>2 DEF Socks, SameTcp

LEMMA ToGIs ==
  ASSUME NEW s \in Socks, NEW d \in Dialers, NEW v
  PROVE  ToG(s, d, v) = Replaced(s, d, Moved(s.g[d], v))
  BY DEF ToG, Replaced, Moved, Socks, Goroutines

\* ToG as the steps use it: the program counter moves, the Conn stays.
LEMMA ToGKeeps ==
  ASSUME NEW s \in Socks, NEW d \in Dialers, NEW v \in GPCs
  PROVE  /\ ToG(s, d, v) \in Socks
         /\ ToG(s, d, v).held = s.held /\ SameTcp(s, ToG(s, d, v))
         /\ ToG(s, d, v).g[d].pc = v /\ ToG(s, d, v).g[d].c = s.g[d].c
         /\ \A e \in Dialers \ {d} : ToG(s, d, v).g[e] = s.g[e]
<1> DEFINE x == Moved(s.g[d], v)
<1>1. s.g[d] \in Goroutines
  BY DEF Socks
<1>2. x \in Goroutines /\ x.pc = v /\ x.c = s.g[d].c
  BY <1>1, MovedIs
<1>3. ToG(s, d, v) = Replaced(s, d, x)
  BY ToGIs
<1> HIDE DEF x
<1> QED BY <1>2, <1>3, ReplacedIs

LEMMA ClaimOK == ASSUME SockOK(sock), NEW d \in Dialers, NEW p \in BOOLEAN, Claim(d, p) PROVE SockOK(sock')
<1> DEFINE pc == IF p THEN "listen" ELSE "connect"
           t == ToG(sock, d, pc)
<1>1. pc \in {"listen", "connect"} /\ pc \in GPCs /\ sock \in Socks
  <2>1. p = TRUE \/ p = FALSE
    OBVIOUS
  <2> QED BY <2>1 DEF SockOK, GPCs
<1>2. sock' = [t EXCEPT !.held = TRUE] /\ ~sock.held /\ ~sock.g[d].c.open
  BY DEF Claim, Sock
<1> HIDE DEF pc
<1>3. /\ t \in Socks /\ SameTcp(sock, t) /\ t.g[d].pc = pc /\ t.g[d].c = sock.g[d].c
      /\ \A e \in Dialers \ {d} : t.g[e] = sock.g[e]
  BY <1>1, ToGKeeps
<1> HIDE DEF t
<1>4. /\ sock' \in Socks /\ sock'.held /\ SameTcp(sock, sock') /\ sock'.g[d].pc = pc
      /\ ~sock'.g[d].c.open
      /\ \A e \in Dialers \ {d} : sock'.g[e] = sock.g[e]
  BY <1>2, <1>3 DEF Socks, SameTcp
<1>5. \A e \in Dialers \ {d} : ~Using(sock', e) /\ sock'.g[e].pc = "idle"
  BY <1>2, <1>4 DEF SockOK, Using
<1>6. ~Alive(sock') /\ Passive(sock')
  BY <1>2, <1>4 DEF SockOK, SameTcp, Alive, Passive
<1> QED BY <1>1, <1>4, <1>5, <1>6 DEF SockOK, Using

\* A step of d that leaves it a user of the slot, and no connection where there
\* may be none.
LEMMA StillUsing ==
  ASSUME SockOK(sock), NEW d \in Dialers, Using(sock, d), NEW t \in Socks, Using(t, d), t.held, Passive(t),
         \A e \in Dialers \ {d} : t.g[e] = sock.g[e],
         t.g[d].pc \in {"connect", "listen", "release"} => ~Alive(t),
         t.g[d].pc = "take" => t.g[d].c.open,
         t.g[d].pc \in {"connect", "listen", "handshake", "release"} => ~t.g[d].c.open
  PROVE  SockOK(t)
<1>1. \A e \in Dialers \ {d} : ~Using(sock, e)
  BY DEF SockOK
<1>2. \A e \in Dialers \ {d} : ~Using(t, e) /\ t.g[e].pc = "idle"
  BY <1>1 DEF Using
<1> QED BY <1>2 DEF SockOK, Using

\* A step of d that gives the slot back.
LEMMA GivesBack ==
  ASSUME SockOK(sock), NEW d \in Dialers, Using(sock, d), NEW t \in Socks, ~Using(t, d), ~t.held,
         \A e \in Dialers \ {d} : t.g[e] = sock.g[e], Passive(t), ~Alive(t)
  PROVE  SockOK(t)
<1>1. \A e \in Dialers \ {d} : ~Using(sock, e)
  BY DEF SockOK
<1>2. \A e \in Dialers : ~Using(t, e) /\ t.g[e].pc = "idle"
  BY <1>1 DEF Using
<1> QED BY <1>2 DEF SockOK, Using

LEMMA OpenedIs ==
  ASSUME NEW s \in Socks, NEW d \in Dialers, NEW l \in BOOLEAN
  PROVE  LET t == Opened(s, d, l)
         IN  /\ t \in Socks /\ t.held /\ SameTcp(s, t) /\ t.g[d].pc = "idle" /\ t.g[d].c.open
             /\ \A e \in Dialers \ {d} : t.g[e] = s.g[e]
<1> DEFINE k == [NoConn EXCEPT !.open = TRUE, !.listening = l]
           t1 == ToG(s, d, "idle")
           x == Holding(t1.g[d], k)
           t2 == Replaced(t1, d, x)
<1>1. k \in Conns /\ k.open
  BY DEF Conns, NoConn
<1>2. /\ t1 \in Socks /\ SameTcp(s, t1) /\ t1.g[d].pc = "idle"
      /\ \A e \in Dialers \ {d} : t1.g[e] = s.g[e]
  BY ToGKeeps DEF GPCs
<1>3. Opened(s, d, l) = [[t1 EXCEPT !.g[d].c = k] EXCEPT !.held = TRUE]
  BY DEF Opened
<1> HIDE DEF k, t1
<1>4. [t1 EXCEPT !.g[d].c = k] = t2
  BY <1>2 DEF Replaced, Holding, Socks, Goroutines
<1>5. t1.g[d] \in Goroutines
  BY <1>2 DEF Socks
<1>6. x \in Goroutines /\ x.pc = "idle" /\ x.c = k
  BY <1>1, <1>2, <1>5, HoldingIs
<1> HIDE DEF x
<1>7. t2 \in Socks /\ SameTcp(t1, t2) /\ t2.g[d] = x /\ \A e \in Dialers \ {d} : t2.g[e] = t1.g[e]
  BY <1>2, <1>6, ReplacedIs
<1> HIDE DEF t2
<1>8. Opened(s, d, l) = [t2 EXCEPT !.held = TRUE]
  BY <1>3, <1>4
<1>9. [t2 EXCEPT !.held = TRUE] \in Socks /\ [t2 EXCEPT !.held = TRUE].held
      /\ SameTcp(t2, [t2 EXCEPT !.held = TRUE]) /\ [t2 EXCEPT !.held = TRUE].g = t2.g
  BY <1>7 DEF Socks, SameTcp
<1> QED BY <1>1, <1>2, <1>6, <1>7, <1>8, <1>9 DEF SameTcp

LEMMA RefusedIs ==
  ASSUME NEW s \in Socks, NEW d \in Dialers
  PROVE  LET t == Refused(s, d)
         IN  /\ t \in Socks /\ ~t.held /\ SameTcp(s, t) /\ t.g[d].pc = "idle" /\ t.g[d].c = s.g[d].c
             /\ \A e \in Dialers \ {d} : t.g[e] = s.g[e]
<1> DEFINE t1 == ToG(s, d, "idle")
<1>1. /\ t1 \in Socks /\ SameTcp(s, t1) /\ t1.g[d].pc = "idle" /\ t1.g[d].c = s.g[d].c
      /\ \A e \in Dialers \ {d} : t1.g[e] = s.g[e]
  BY ToGKeeps DEF GPCs
<1>2. Refused(s, d) = [t1 EXCEPT !.held = FALSE]
  BY DEF Refused
<1> HIDE DEF t1
<1> QED BY <1>1, <1>2 DEF Socks, SameTcp

\* What the kernel makes of the machine, the goroutines and the flag aside.
Machine(s, t) == t \in Socks /\ t.held = s.held /\ t.g = s.g /\ Passive(t)

\* A machine set to a state of its own, with its bytes and its FIN.
SetTo(s, v, sv, o, f) ==
  [s EXCEPT !.tcp = v, !.server = sv, !.owner = o, !.rx = 0, !.fin = f]

IsSet(t, s, v, sv, o) ==
  t \in Socks /\ t.held = s.held /\ t.g = s.g /\ t.tcp = v /\ t.server = sv /\ t.owner = o

LEMMA SetToIs ==
  ASSUME NEW s \in Socks, NEW v \in TcpStates,
         NEW sv \in BOOLEAN, NEW o \in TcpOwners, NEW f \in BOOLEAN
  PROVE  IsSet(SetTo(s, v, sv, o, f), s, v, sv, o)
<1> DEFINE t1 == [s EXCEPT !.tcp = v]
           t2 == [t1 EXCEPT !.server = sv]
           t3 == [t2 EXCEPT !.owner = o]
           t4 == [t3 EXCEPT !.rx = 0]
           t5 == [t4 EXCEPT !.fin = f]
<1>1. t1 \in Socks /\ t1.held = s.held /\ t1.tcp = v /\ t1.g = s.g
  BY DEF Socks
<1>2. SetTo(s, v, sv, o, f) = t5
  BY DEF SetTo, Socks
<1> HIDE DEF t1
<1>3. t2 \in Socks /\ t2.held = s.held /\ t2.tcp = v /\ t2.g = s.g /\ t2.server = sv
  BY <1>1 DEF Socks
<1> HIDE DEF t2
<1>4. /\ t3 \in Socks /\ t3.held = s.held /\ t3.tcp = v /\ t3.g = s.g /\ t3.server = sv
      /\ t3.owner = o
  BY <1>3 DEF Socks
<1> HIDE DEF t3
<1>5. /\ t4 \in Socks /\ t4.held = s.held /\ t4.tcp = v /\ t4.g = s.g /\ t4.server = sv
      /\ t4.owner = o
  BY <1>4 DEF Socks
<1> HIDE DEF t4
<1> QED BY <1>2, <1>5 DEF Socks, IsSet

LEMMA ReleasedIs ==
  ASSUME NEW s \in Socks
  PROVE  /\ Machine(s, Released(s)) /\ ~Alive(Released(s))
         /\ Released(s).server = s.server /\ Released(s).owner = s.owner
<1> DEFINE v == IF s.server THEN "listen" ELSE "idle"
<1>1. /\ v \in TcpStates
      /\ s.server \in BOOLEAN /\ s.owner \in TcpOwners /\ 0 \in Int /\ FALSE \in BOOLEAN
      /\ v \in {"idle", "listen"} /\ (v = "listen" => s.server)
  BY DEF Socks, TcpStates
<1>2. Released(s) = SetTo(s, v, s.server, s.owner, FALSE)
  BY DEF Released, SetTo, Socks
<1> HIDE DEF v
<1>3. IsSet(Released(s), s, v, s.server, s.owner)
  BY <1>1, <1>2, SetToIs
<1> QED BY <1>1, <1>3 DEF IsSet, Machine, Passive, Alive

LEMMA ResetIs == ASSUME NEW s \in Socks PROVE Machine(s, ResetTcp(s)) /\ ~Alive(ResetTcp(s))
<1>1. ResetTcp(s) = SetTo(s, "idle", FALSE, "none", FALSE)
  BY DEF ResetTcp, SetTo
<1>2. IsSet(ResetTcp(s), s, "idle", FALSE, "none")
  BY <1>1, SetToIs, TcpNames
<1> QED BY <1>2 DEF IsSet, Machine, Passive, Alive

LEMMA ClearedIs ==
  ASSUME NEW s \in Socks, Passive(s)
  PROVE  Machine(s, Cleared(s)) /\ (Alive(Cleared(s)) => Alive(s))
<1>1. CASE s.tcp = "closed"
  BY <1>1, ResetIs DEF Cleared
<1>2. CASE s.tcp # "closed"
  BY <1>2 DEF Cleared, Machine
<1> QED BY <1>1, <1>2

LEMMA DisownedIs ==
  ASSUME NEW s \in Socks, Passive(s)
  PROVE  Machine(s, Disowned(s)) /\ ~Alive(Disowned(s))
<1>1. CASE s.server
  BY <1>1 DEF Disowned, Machine, Alive
<1>2. CASE ~s.server
  <2>1. Disowned(s) = [s EXCEPT !.owner = "none"]
    BY <1>2 DEF Disowned
  <2> DEFINE t == [s EXCEPT !.owner = "none"]
  <2>2. t \in Socks /\ t.held = s.held /\ t.g = s.g /\ t.tcp = s.tcp /\ t.server = s.server
        /\ t.owner = "none"
    BY TcpNames DEF Socks
  <2> HIDE DEF t
  <2>3. Machine(s, t) /\ ~Alive(t)
    BY <2>2 DEF Machine, Passive, Alive
  <2> QED BY <2>1, <2>3 DEF t
<1> QED BY <1>1, <1>2

\* Slot 33 leaves no connection that the process dialled and owns.
LEMMA ClosingsAre ==
  ASSUME NEW s \in Socks, Passive(s), NEW u \in Closings(s)
  PROVE  Machine(s, u) /\ ~Alive(u)
<1>1. ASSUME NEW w \in Socks, Passive(w), w.held = s.held, w.g = s.g, u = Disowned(w)
      PROVE  Machine(s, u) /\ ~Alive(u)
  BY <1>1, DisownedIs DEF Machine
<1>2. Released(s) \in Socks /\ Passive(Released(s)) /\ Released(s).held = s.held /\ Released(s).g = s.g
  BY ReleasedIs DEF Machine
<1>3. CASE s.tcp = "idle"
  BY <1>3 DEF Closings, Machine, Alive
<1>4. CASE s.tcp = "listen"
  BY <1>4, ResetIs DEF Closings
<1>5. CASE s.tcp = "closed"
  <2>1. u = Disowned(Released(s))
    BY <1>5 DEF Closings
  <2> QED BY <1>1, <1>2, <2>1
<1>6. CASE s.tcp = "est"
  <2> DEFINE f == [s EXCEPT !.tcp = "fin"]
  <2>1. f \in Socks /\ Passive(f) /\ f.held = s.held /\ f.g = s.g
    BY TcpNames DEF Socks, Passive
  <2>2. u \in {Disowned(w) : w \in {s, f, Released(s)}}
    BY <1>6 DEF Closings
  <2> HIDE DEF f
  <2> QED BY <1>1, <1>2, <2>1, <2>2
<1>7. CASE s.tcp \notin {"idle", "listen", "closed", "est"}
  <2>1. u \in {Disowned(w) : w \in {s, Released(s)}}
    BY <1>7 DEF Closings
  <2> QED BY <1>1, <1>2, <2>1
<1> QED BY <1>3, <1>4, <1>5, <1>6, <1>7

\* The claim is given back over a machine that holds no connection of its own.
LEMMA RefusedOK ==
  ASSUME SockOK(sock), NEW d \in Dialers, Using(sock, d), ~sock.g[d].c.open,
         NEW s, Machine(sock, s), ~Alive(s)
  PROVE  SockOK(Refused(s, d))
<1> DEFINE t == Refused(s, d)
<1>1. /\ t \in Socks /\ ~t.held /\ SameTcp(s, t) /\ t.g[d].pc = "idle"
      /\ t.g[d].c = s.g[d].c /\ \A e \in Dialers \ {d} : t.g[e] = s.g[e]
  BY RefusedIs DEF Machine
<1> HIDE DEF t
<1>2. ~Using(t, d) /\ Passive(t) /\ ~Alive(t) /\ \A e \in Dialers \ {d} : t.g[e] = sock.g[e]
  BY <1>1 DEF Using, Machine, SameTcp, Passive, Alive
<1>3. SockOK(t)
  BY <1>1, <1>2, GivesBack
<1> QED BY <1>3 DEF t

\* A Conn is opened over the machine.
LEMMA OpenedOK ==
  ASSUME SockOK(sock), NEW d \in Dialers, Using(sock, d), NEW s, Machine(sock, s), NEW l \in BOOLEAN,
         NEW t \in Socks, t.held, t.g = Opened(s, d, l).g, Passive(t)
  PROVE  SockOK(t)
<1> DEFINE u == Opened(s, d, l)
<1>1. u.g[d].pc = "idle" /\ u.g[d].c.open /\ \A e \in Dialers \ {d} : u.g[e] = s.g[e]
  BY OpenedIs DEF Machine
<1>2. t.g = u.g
  OBVIOUS
<1> HIDE DEF u
<1>3. /\ Using(t, d) /\ t.g[d].pc = "idle"
      /\ \A e \in Dialers \ {d} : t.g[e] = sock.g[e]
  BY <1>1, <1>2 DEF Using, Machine
<1> QED BY <1>3, StillUsing

LEMMA ConnectOK == ASSUME SockOK(sock), NEW d \in Dialers, TcpConnect(d) PROVE SockOK(sock')
<1> DEFINE s == Cleared(sock)
<1>1. sock \in Socks /\ sock.g[d].pc = "connect" /\ Using(sock, d) /\ sock.held /\ ~sock.g[d].c.open
      /\ ~Alive(sock) /\ Passive(sock)
  BY DEF TcpConnect, AtG, Using, SockOK
<1>2. Machine(sock, s) /\ ~Alive(s) /\ Machine(sock, sock)
  BY <1>1, ClearedIs DEF Machine
<1>3. \/ sock' = [ToG(s, d, "handshake") EXCEPT
                    !.tcp = "syn", !.server = FALSE, !.owner = "me", !.rx = 0]
      \/ s.tcp = "est" /\ s.owner = "me" /\ sock' = Opened(s, d, FALSE)
      \/ sock' = Refused(sock, d)
      \/ sock' = Refused(s, d)
  BY DEF TcpConnect, Sock
<1> HIDE DEF s
<1>4. CASE sock' = [ToG(s, d, "handshake") EXCEPT
                      !.tcp = "syn", !.server = FALSE, !.owner = "me", !.rx = 0]
  <2> DEFINE t == ToG(s, d, "handshake")
  <2>1. /\ t \in Socks /\ t.held = s.held /\ t.g[d].pc = "handshake" /\ t.g[d].c = s.g[d].c
        /\ \A e \in Dialers \ {d} : t.g[e] = s.g[e]
    <3>1. "handshake" \in GPCs /\ s \in Socks
      BY <1>2 DEF GPCs, Machine
    <3> QED BY <3>1, ToGKeeps
  <2>2. sock' = [t EXCEPT !.tcp = "syn", !.server = FALSE, !.owner = "me", !.rx = 0]
    BY <1>4
  <2> HIDE DEF t
  <2>3. sock' = SetTo(t, "syn", FALSE, "me", t.fin) /\ t.fin \in BOOLEAN
    BY <2>1, <2>2 DEF SetTo, Socks
  <2>4. IsSet(sock', t, "syn", FALSE, "me")
    BY <2>1, <2>3, SetToIs, TcpNames
  <2>5. sock' \in Socks /\ sock'.held /\ sock'.g = t.g /\ Passive(sock')
    BY <1>1, <1>2, <2>1, <2>4 DEF IsSet, Passive, Machine
  <2>6. /\ Using(sock', d) /\ sock'.g[d].pc = "handshake" /\ ~sock'.g[d].c.open
        /\ \A e \in Dialers \ {d} : sock'.g[e] = sock.g[e]
    BY <1>1, <1>2, <2>1, <2>5 DEF Using, Machine
  <2> QED BY <1>1, <2>5, <2>6, StillUsing
<1>5. CASE sock' = Opened(s, d, FALSE)
  <2>1. sock' \in Socks /\ sock'.held /\ SameTcp(s, sock')
    BY <1>2, <1>5, OpenedIs DEF Machine
  <2>2. Passive(sock')
    BY <1>2, <2>1 DEF Machine, Passive, SameTcp
  <2> QED BY <1>1, <1>2, <1>5, <2>1, <2>2, OpenedOK
<1>6. CASE sock' = Refused(sock, d) \/ sock' = Refused(s, d)
  BY <1>1, <1>2, <1>6, RefusedOK
<1> QED BY <1>3, <1>4, <1>5, <1>6

LEMMA HandshakeOK == ASSUME SockOK(sock), NEW d \in Dialers, TcpHandshake(d) PROVE SockOK(sock')
<1>1. sock \in Socks /\ Passive(sock) /\ Using(sock, d) /\ ~sock.g[d].c.open /\ Machine(sock, sock)
  BY DEF TcpHandshake, AtG, Using, SockOK, Machine
<1>2. CASE sock' = [Opened(sock, d, FALSE) EXCEPT !.tcp = "est"]
  <2> DEFINE t == Opened(sock, d, FALSE)
  <2>1. t \in Socks /\ t.held
    BY <1>1, OpenedIs
  <2>2. sock' = [t EXCEPT !.tcp = "est"]
    BY <1>2
  <2> HIDE DEF t
  <2>3. sock' \in Socks /\ sock'.held /\ sock'.g = t.g /\ Passive(sock')
    BY <2>1, <2>2, TcpNames DEF Socks, Passive
  <2> QED BY <1>1, <2>3, OpenedOK DEF t
<1>3. CASE sock' = Refused(Released(sock), d)
  BY <1>1, <1>3, ReleasedIs, RefusedOK
<1> QED BY <1>2, <1>3 DEF TcpHandshake, Sock

LEMMA ListenOK == ASSUME SockOK(sock), NEW d \in Dialers, TcpListen(d) PROVE SockOK(sock')
<1> DEFINE s == Cleared(sock)
<1>1. sock \in Socks /\ Using(sock, d) /\ ~sock.g[d].c.open /\ ~Alive(sock) /\ Passive(sock)
  BY DEF TcpListen, AtG, Using, SockOK
<1>2. Machine(sock, s) /\ ~Alive(s) /\ Machine(sock, sock)
  BY <1>1, ClearedIs DEF Machine
<1>3. \/ sock' = [Opened(s, d, TRUE) EXCEPT
                    !.tcp = "listen", !.server = TRUE, !.owner = "me", !.rx = 0, !.fin = FALSE]
      \/ sock' = Refused(sock, d)
      \/ sock' = Refused(s, d)
  BY DEF TcpListen, Sock
<1> HIDE DEF s
<1>4. CASE sock' = [Opened(s, d, TRUE) EXCEPT
                      !.tcp = "listen", !.server = TRUE, !.owner = "me", !.rx = 0, !.fin = FALSE]
  <2> DEFINE t == Opened(s, d, TRUE)
  <2>1. t \in Socks /\ t.held
    BY <1>2, OpenedIs DEF Machine
  <2>2. sock' = SetTo(t, "listen", TRUE, "me", FALSE)
    BY <1>4 DEF SetTo
  <2> HIDE DEF t
  <2>3. IsSet(sock', t, "listen", TRUE, "me")
    BY <2>1, <2>2, SetToIs, TcpNames
  <2>4. sock' \in Socks /\ sock'.held /\ sock'.g = t.g /\ Passive(sock')
    BY <2>1, <2>3 DEF IsSet, Passive
  <2> QED BY <1>1, <1>2, <2>4, OpenedOK DEF t
<1>5. CASE sock' = Refused(sock, d) \/ sock' = Refused(s, d)
  BY <1>1, <1>2, <1>5, RefusedOK
<1> QED BY <1>3, <1>4, <1>5

\* A wait that did not end changes the count of polls only.
LEMMA PollOK ==
  ASSUME SockOK(sock), NEW d \in Dialers, Using(sock, d), sock' = [sock EXCEPT !.g[d].polls = @ + 1]
  PROVE  SockOK(sock')
<1> DEFINE x == Polled(sock.g[d])
<1>1. sock \in Socks /\ sock.g[d] \in Goroutines
  BY DEF SockOK, Socks
<1>2. sock' = Replaced(sock, d, x)
  BY <1>1 DEF Replaced, Polled, Socks
<1>3. x \in Goroutines /\ x.pc = sock.g[d].pc /\ x.c = sock.g[d].c
  BY <1>1, PolledIs
<1> HIDE DEF x
<1>4. /\ sock' \in Socks /\ sock'.held = sock.held /\ SameTcp(sock, sock') /\ sock'.g[d] = x
      /\ \A e \in Dialers \ {d} : sock'.g[e] = sock.g[e]
  <2> DEFINE t == Replaced(sock, d, x)
  <2>1. /\ t \in Socks /\ t.held = sock.held /\ SameTcp(sock, t) /\ t.g[d] = x
        /\ \A e \in Dialers \ {d} : t.g[e] = sock.g[e]
    BY <1>1, <1>3, ReplacedIs
  <2> QED BY <1>2, <2>1
<1>5. Using(sock', d) /\ Passive(sock') /\ sock'.held /\ (Alive(sock') => Alive(sock))
  <2>1. Using(sock', d)
    BY <1>3, <1>4 DEF Using
  <2>2. Passive(sock) /\ sock.held
    BY DEF SockOK
  <2> QED BY <1>4, <2>1, <2>2 DEF Passive, Alive, SameTcp
<1>6. /\ sock.g[d].pc \in {"connect", "listen", "release"} => ~Alive(sock)
      /\ sock.g[d].pc = "take" => sock.g[d].c.open
      /\ sock.g[d].pc \in {"connect", "listen", "handshake", "release"} => ~sock.g[d].c.open
  BY DEF SockOK
<1> QED BY <1>3, <1>4, <1>5, <1>6, StillUsing

LEMMA AcceptOK == ASSUME SockOK(sock), NEW d \in Dialers, Accept(d) PROVE SockOK(sock')
<1>1. sock \in Socks /\ Using(sock, d) /\ sock.held /\ sock.g[d].c.open /\ sock.g[d].c \in Conns
  BY DEF Accept, AtG, Using, SockOK, Socks, Goroutines
<1>2. CASE sock' = [ToG(sock, d, "idle") EXCEPT !.g[d].c.listening = FALSE]
  <2> DEFINE t == ToG(sock, d, "idle")
             k == [sock.g[d].c EXCEPT !.listening = FALSE]
             x == Holding(t.g[d], k)
             u == Replaced(t, d, x)
  <2>0. "idle" \in GPCs /\ sock \in Socks
    BY <1>1 DEF GPCs
  <2>1. /\ t \in Socks /\ t.held = sock.held /\ SameTcp(sock, t) /\ t.g[d].pc = "idle"
        /\ t.g[d].c = sock.g[d].c
        /\ \A e \in Dialers \ {d} : t.g[e] = sock.g[e]
    BY <2>0, ToGKeeps
  <2>2. k \in Conns /\ k.open
    BY <1>1 DEF Conns
  <2>3. sock' = [t EXCEPT !.g[d].c.listening = FALSE]
    BY <1>2
  <2> HIDE DEF t
  <2>4. sock' = u
    BY <2>1, <2>3 DEF Replaced, Holding, Socks, Goroutines
  <2>5. t.g[d] \in Goroutines
    BY <2>1 DEF Socks
  <2> HIDE DEF k
  <2>6. x \in Goroutines /\ x.pc = "idle" /\ x.c = k
    BY <2>1, <2>2, <2>5, HoldingIs
  <2> HIDE DEF x
  <2>7. u \in Socks /\ u.held = t.held /\ SameTcp(t, u) /\ u.g[d] = x /\ \A e \in Dialers \ {d} : u.g[e] = t.g[e]
    BY <2>1, <2>6, ReplacedIs
  <2> HIDE DEF u
  <2>8. Using(u, d) /\ u.held /\ Passive(u) /\ u.g[d].pc = "idle" /\ \A e \in Dialers \ {d} : u.g[e] = sock.g[e]
    BY <1>1, <2>1, <2>2, <2>6, <2>7 DEF Using, SockOK, Passive, SameTcp
  <2>9. SockOK(u)
    BY <1>1, <2>7, <2>8, StillUsing
  <2> QED BY <2>4, <2>9
<1>3. CASE sock' = [sock EXCEPT !.g[d].polls = @ + 1]
  BY <1>1, <1>3, PollOK
<1> QED BY <1>2, <1>3 DEF Accept, Sock

LEMMA ProbeOK == ASSUME SockOK(sock), NEW d \in Dialers, RecvProbe(d) PROVE SockOK(sock')
<1>1. sock \in Socks /\ Using(sock, d) /\ sock.held /\ sock.g[d].c.open
  BY DEF RecvProbe, AtG, Using, SockOK
<1>2. CASE sock' = ToG(sock, d, "take")
  <2> DEFINE t == ToG(sock, d, "take")
  <2>0. "take" \in GPCs /\ sock \in Socks
    BY <1>1 DEF GPCs
  <2>1. /\ t \in Socks /\ t.held = sock.held /\ SameTcp(sock, t) /\ t.g[d].pc = "take" /\ t.g[d].c = sock.g[d].c
        /\ \A e \in Dialers \ {d} : t.g[e] = sock.g[e]
    BY <2>0, ToGKeeps
  <2> HIDE DEF t
  <2>2. Using(t, d) /\ Passive(t)
    BY <1>1, <2>1 DEF Using, SockOK, Passive, SameTcp
  <2>3. SockOK(t)
    BY <1>1, <2>1, <2>2, StillUsing
  <2> QED BY <1>2, <2>3 DEF t
<1>3. CASE sock' = [sock EXCEPT !.g[d].polls = @ + 1]
  BY <1>1, <1>3, PollOK
<1> QED BY <1>2, <1>3 DEF RecvProbe, Sock

LEMMA TakeOK == ASSUME SockOK(sock), NEW d \in Dialers, RecvTake(d) PROVE SockOK(sock')
<1> DEFINE t == ToG(sock, d, "idle")
<1>1. sock \in Socks /\ Using(sock, d) /\ sock.held /\ sock.g[d].c.open /\ sock.g[d].c \in Conns
  BY DEF RecvTake, AtG, Using, SockOK, Socks, Goroutines
<1>0. "idle" \in GPCs /\ sock \in Socks
  BY <1>1 DEF GPCs
<1>2. /\ t \in Socks /\ t.held = sock.held /\ SameTcp(sock, t) /\ t.g[d].pc = "idle" /\ t.g[d].c = sock.g[d].c
      /\ \A e \in Dialers \ {d} : t.g[e] = sock.g[e]
  BY <1>0, ToGKeeps
<1>3. sock' = t \/ sock' = [t EXCEPT !.rx = @ - 1] \/ sock' = [t EXCEPT !.g[d].c.gone = TRUE]
  BY DEF RecvTake, Sock
<1> HIDE DEF t
<1>6. CASE sock' = t
  <2>1. Using(t, d) /\ Passive(t)
    BY <1>1, <1>2 DEF Using, SockOK, Passive, SameTcp
  <2> QED BY <1>1, <1>2, <1>6, <2>1, StillUsing
<1>4. CASE sock' = [t EXCEPT !.rx = @ - 1]
  <2>1. sock' \in Socks /\ sock'.held = t.held /\ sock'.g = t.g /\ SameTcp(t, sock')
    BY <1>2, <1>4 DEF Socks, SameTcp
  <2>2. Using(sock', d) /\ Passive(sock')
    BY <1>1, <1>2, <2>1 DEF Using, SockOK, Passive, SameTcp
  <2> QED BY <1>1, <1>2, <2>1, <2>2, StillUsing
<1>5. CASE sock' = [t EXCEPT !.g[d].c.gone = TRUE]
  <2> DEFINE k == [sock.g[d].c EXCEPT !.gone = TRUE]
             x == Holding(t.g[d], k)
             u == Replaced(t, d, x)
  <2>2. k \in Conns /\ k.open
    BY <1>1 DEF Conns
  <2>3. sock' = u
    BY <1>2, <1>5 DEF Replaced, Holding, Socks, Goroutines
  <2>4. t.g[d] \in Goroutines
    BY <1>2 DEF Socks
  <2> HIDE DEF k
  <2>5. x \in Goroutines /\ x.pc = "idle" /\ x.c = k
    BY <1>2, <2>2, <2>4, HoldingIs
  <2> HIDE DEF x
  <2>6. u \in Socks /\ u.held = t.held /\ SameTcp(t, u) /\ u.g[d] = x /\ \A e \in Dialers \ {d} : u.g[e] = t.g[e]
    BY <1>2, <2>5, ReplacedIs
  <2> HIDE DEF u
  <2>7. Using(u, d) /\ u.held /\ Passive(u) /\ u.g[d].pc = "idle" /\ \A e \in Dialers \ {d} : u.g[e] = sock.g[e]
    BY <1>1, <1>2, <2>2, <2>5, <2>6 DEF Using, SockOK, Passive, SameTcp
  <2>8. SockOK(u)
    BY <1>1, <2>6, <2>7, StillUsing
  <2> QED BY <2>3, <2>8
<1> QED BY <1>3, <1>4, <1>5, <1>6

LEMMA CloseOK == ASSUME SockOK(sock), NEW d \in Dialers, TcpClose(d) PROVE SockOK(sock')
<1>1. sock \in Socks /\ Passive(sock) /\ Using(sock, d) /\ sock.held /\ "release" \in GPCs
  BY DEF TcpClose, AtG, Using, SockOK, GPCs
<1>2. PICK s \in Closings(sock) : sock' = [ToG(s, d, "release") EXCEPT !.g[d].c = NoConn]
  BY DEF TcpClose, Sock
<1>3. Machine(sock, s) /\ ~Alive(s) /\ s \in Socks
  BY <1>1, ClosingsAre DEF Machine
<1> DEFINE t == ToG(s, d, "release")
           x == Holding(t.g[d], NoConn)
           u == Replaced(t, d, x)
<1>4. /\ t \in Socks /\ t.held = s.held /\ SameTcp(s, t) /\ t.g[d].pc = "release"
      /\ \A e \in Dialers \ {d} : t.g[e] = s.g[e]
  BY <1>1, <1>3, ToGKeeps
<1> HIDE DEF t
<1>5. NoConn \in Conns /\ ~NoConn.open
  BY DEF NoConn, Conns
<1>6. t.g[d] \in Goroutines
  BY <1>4 DEF Socks
<1>7. x \in Goroutines /\ x.pc = "release" /\ x.c = NoConn
  BY <1>4, <1>5, <1>6, HoldingIs
<1>8. sock' = u
  BY <1>2, <1>4 DEF t, Replaced, Holding, Socks, Goroutines
<1> HIDE DEF x
<1>9. u \in Socks /\ u.held = t.held /\ SameTcp(t, u) /\ u.g[d] = x
      /\ \A e \in Dialers \ {d} : u.g[e] = t.g[e]
  BY <1>4, <1>7, ReplacedIs
<1> HIDE DEF u
<1>10. Using(u, d) /\ u.g[d].pc = "release" /\ ~u.g[d].c.open /\ ~Alive(u) /\ Passive(u) /\ u.held
  BY <1>1, <1>3, <1>4, <1>5, <1>7, <1>9 DEF Using, Alive, Passive, Machine, SameTcp
<1>11. \A e \in Dialers \ {d} : u.g[e] = sock.g[e]
  BY <1>3, <1>4, <1>9 DEF Machine
<1>12. SockOK(u)
  BY <1>1, <1>9, <1>10, <1>11, StillUsing
<1> QED BY <1>8, <1>12

LEMMA ReleaseOK == ASSUME SockOK(sock), NEW d \in Dialers, ReleaseSlot(d) PROVE SockOK(sock')
<1>1. Machine(sock, sock) /\ Using(sock, d) /\ ~sock.g[d].c.open /\ ~Alive(sock)
  BY DEF ReleaseSlot, AtG, Using, SockOK, Machine
<1>2. sock' = Refused(sock, d)
  BY DEF ReleaseSlot, Sock
<1> QED BY <1>1, <1>2, RefusedOK

\* A step of the machine alone, which brings no connection to life that was not
\* alive.
LEMMA MachineOK ==
  ASSUME SockOK(sock), Machine(sock, sock'), Alive(sock') => Alive(sock)
  PROVE  SockOK(sock')
  BY DEF SockOK, Using, Machine

LEMMA PeerOK == ASSUME SockOK(sock), PeerActs PROVE SockOK(sock')
<1>1. sock \in Socks /\ Passive(sock)
  BY DEF SockOK
<1>2. CASE sock.tcp = "listen" /\ sock' = [sock EXCEPT !.tcp = "half"]
  <2>1. Machine(sock, sock') /\ ~Alive(sock')
    BY <1>1, <1>2, TcpNames DEF Socks, Machine, Passive, Alive
  <2> QED BY <2>1, MachineOK
<1>3. ASSUME sock.tcp = "half", NEW v \in {"listen", "est"}, sock' = [sock EXCEPT !.tcp = v]
      PROVE  SockOK(sock')
  <2>1. Machine(sock, sock') /\ ~Alive(sock')
    BY <1>1, <1>3, TcpNames DEF Socks, Machine, Passive, Alive
  <2> QED BY <2>1, MachineOK
<1>4. CASE sock' = [sock EXCEPT !.rx = @ + 1, !.left = @ - 1]
  <2> DEFINE t == [sock EXCEPT !.rx = @ + 1]
  <2>1. t \in Socks /\ t.held = sock.held /\ SameTcp(sock, t) /\ t.g = sock.g
    BY <1>1 DEF Socks, SameTcp
  <2>2. sock' = [t EXCEPT !.left = @ - 1]
    BY <1>1, <1>4 DEF Socks
  <2> HIDE DEF t
  <2>3. sock' \in Socks /\ sock'.held = sock.held /\ SameTcp(sock, sock') /\ sock'.g = sock.g
    BY <2>1, <2>2 DEF Socks, SameTcp
  <2>4. Machine(sock, sock') /\ (Alive(sock') => Alive(sock))
    BY <1>1, <2>3 DEF Machine, Passive, Alive, SameTcp
  <2> QED BY <2>4, MachineOK
<1>5. CASE sock' = [sock EXCEPT !.fin = TRUE]
  <2>1. Machine(sock, sock') /\ (Alive(sock') => Alive(sock))
    BY <1>1, <1>5 DEF Socks, Machine, Passive, Alive
  <2> QED BY <2>1, MachineOK
<1>6. CASE sock' = [sock EXCEPT !.tcp = "closed"]
  <2>1. Machine(sock, sock') /\ ~Alive(sock')
    BY <1>1, <1>6, TcpNames DEF Socks, Machine, Passive, Alive
  <2> QED BY <2>1, MachineOK
<1>7. CASE sock' = Released(sock)
  BY <1>1, <1>7, ReleasedIs, MachineOK
<1> QED BY <1>2, <1>3, <1>4, <1>5, <1>6, <1>7 DEF PeerActs, Sock

LEMMA OtherOK == ASSUME SockOK(sock), OtherActs PROVE SockOK(sock')
<1>1. sock \in Socks /\ Passive(sock)
  BY DEF SockOK
<1>2. ASSUME NEW v \in {"est", "listen"}, NEW sv \in BOOLEAN, v = "listen" => sv,
             sock' = SetTo(sock, v, sv, "other", FALSE)
      PROVE  SockOK(sock')
  <2>1. IsSet(sock', sock, v, sv, "other")
    <3>1. v \in TcpStates
      BY <1>2, TcpNames
    <3> QED BY <1>1, <1>2, <3>1, SetToIs, TcpNames
  <2>2. Machine(sock, sock') /\ ~Alive(sock')
    BY <1>2, <2>1 DEF IsSet, Machine, Passive, Alive
  <2> QED BY <2>2, MachineOK
<1>3. CASE sock' = [sock EXCEPT !.tcp = "est", !.server = FALSE, !.owner = "other", !.rx = 0,
                                !.fin = FALSE]
  BY <1>2, <1>3 DEF SetTo
<1>4. CASE sock' = [sock EXCEPT !.tcp = "listen", !.server = TRUE, !.owner = "other", !.rx = 0,
                                !.fin = FALSE]
  BY <1>2, <1>4 DEF SetTo
<1>5. ASSUME NEW s \in Closings(sock), sock' = s PROVE SockOK(sock')
  BY <1>1, <1>5, ClosingsAre, MachineOK
<1>6. CASE sock' = CloseOwner(sock)
  <2> DEFINE s == IF sock.tcp \in {"est", "fin"} THEN Released(sock) ELSE sock
             t == [s EXCEPT !.owner = "none"]
  <2>1. Machine(sock, s)
    BY <1>1, ReleasedIs DEF Machine
  <2>2. sock' = t
    BY <1>6 DEF CloseOwner
  <2> HIDE DEF s
  <2>3. Machine(sock, t) /\ ~Alive(t)
    BY <2>1, TcpNames DEF Machine, Passive, Alive, Socks
  <2> HIDE DEF t
  <2> QED BY <2>2, <2>3, MachineOK
<1> QED BY <1>3, <1>4, <1>5, <1>6 DEF OtherActs, Sock

LEMMA SockStep == SockOK(sock) /\ [sockNext]_sock => SockOK(sock')
<1> SUFFICES ASSUME SockOK(sock), [sockNext]_sock PROVE SockOK(sock')
  OBVIOUS
<1>1. CASE UNCHANGED sock
  BY <1>1 DEF SockOK, Using
<1>2. CASE PeerActs \/ OtherActs
  BY <1>2, PeerOK, OtherOK
<1>3. ASSUME NEW d \in Dialers,
             Dial(d) \/ Listen(d) \/ TcpConnect(d) \/ TcpHandshake(d) \/ TcpListen(d) \/ Accept(d)
             \/ RecvProbe(d) \/ RecvTake(d) \/ TcpClose(d) \/ ReleaseSlot(d)
      PROVE  SockOK(sock')
  <2>1. CASE Dial(d) \/ Listen(d)
    BY <2>1, ClaimOK DEF Dial, Listen
  <2>2. CASE TcpConnect(d)
    BY <2>2, ConnectOK
  <2>3. CASE TcpHandshake(d)
    BY <2>3, HandshakeOK
  <2>4. CASE TcpListen(d)
    BY <2>4, ListenOK
  <2>5. CASE Accept(d)
    BY <2>5, AcceptOK
  <2>6. CASE RecvProbe(d)
    BY <2>6, ProbeOK
  <2>7. CASE RecvTake(d)
    BY <2>7, TakeOK
  <2>8. CASE TcpClose(d)
    BY <2>8, CloseOK
  <2>9. CASE ReleaseSlot(d)
    BY <2>9, ReleaseOK
  <2> QED BY <1>3, <2>1, <2>2, <2>3, <2>4, <2>5, <2>6, <2>7, <2>8, <2>9
<1> QED BY <1>1, <1>2, <1>3 DEF sockNext

LEMMA OneUser == SockOK(sock) => OneSocket
<1> SUFFICES ASSUME SockOK(sock) PROVE OneSocket
  OBVIOUS
<1>1. SlotUsers(sock) = {d \in Dialers : Using(sock, d)}
  BY DEF SlotUsers, Using
<1>2. sock.held \in BOOLEAN
  BY DEF SockOK, Socks
<1>3. CASE SlotUsers(sock) = {}
  <2>1. ~sock.held /\ ~Alive(sock)
    BY <1>1, <1>3 DEF SockOK
  <2>2. Cardinality(SlotUsers(sock)) <= 1
    BY <1>3, FS_EmptySet
  <2> QED BY <1>3, <2>1, <2>2 DEF OneSocket, Alive
<1>4. ASSUME NEW d \in SlotUsers(sock) PROVE OneSocket
  <2>1. SlotUsers(sock) = {d}
    BY <1>1 DEF SockOK
  <2>2. Cardinality(SlotUsers(sock)) = 1
    BY <2>1, FS_Singleton
  <2>3. sock.held
    BY <1>1, <1>4 DEF SockOK
  <2> QED BY <1>4, <2>2, <2>3 DEF OneSocket
<1> QED BY <1>3, <1>4

\* OneSocket, for any number of goroutines and any sequence of dials, listens,
\* resets and closes: the flag of conn.go is held by exactly one goroutine while
\* a Conn is open or a claim is in progress, and the kernel's machine never holds
\* a connection that this process dialled and owns and that nobody in it will
\* close.
THEOREM OneConnection == sockSpec => []OneSocket
<1>1. sockInit => SockOK(sock)
  BY SockStart
<1>2. SockOK(sock) /\ [sockNext]_sock => SockOK(sock)'
  BY SockStep
<1>3. SockOK(sock) => OneSocket
  BY OneUser
<1> QED BY <1>1, <1>2, <1>3, PTL DEF sockSpec

-----------------------------------------------------------------------------
(* The TLS client: the chain. *)

LEMMA FoundIn ==
  ASSUME NEW s, NEW name
  PROVE  bySubject(s, name) = <<>> \/ \E i \in DOMAIN s : bySubject(s, name) = <<s[i]>>
<1> DEFINE first == {i \in DOMAIN s : s[i].subject = name /\ \A j \in 1 .. i - 1 : s[j].subject # name}
<1>1. first \subseteq DOMAIN s
  OBVIOUS
<1>2. bySubject(s, name) = IF first = {} THEN <<>> ELSE <<s[CHOOSE i \in first : TRUE]>>
  BY DEF bySubject
<1> HIDE DEF first
<1>3. first # {} => (CHOOSE i \in first : TRUE) \in first
  OBVIOUS
<1> QED BY <1>1, <1>2, <1>3

\* A path starts at the leaf, goes on over certificates of Q, and is anchored
\* only when it ends in one of R.
Climbs(p, leaf, Q, R) ==
  /\ p \in [path : Seq(Q \cup {leaf}), anchored : BOOLEAN, done : BOOLEAN]
  /\ Len(p.path) >= 1 /\ p.path[1] = leaf
  /\ \A i \in 2 .. Len(p.path) : p.path[i] \in Q
  /\ p.anchored => /\ p.done /\ Len(p.path) \in 2 .. maxPath
                   /\ p.path[Len(p.path)] \in R

LEMMA LongerClimbs ==
  ASSUME NEW leaf, NEW Q, NEW R \in SUBSET Q, NEW p, Climbs(p, leaf, Q, R), ~p.done,
         Len(p.path) < maxPath, NEW c \in Q
  PROVE  /\ Climbs([p EXCEPT !.path = @ \o <<c>>], leaf, Q, R)
         /\ c \in R => Climbs([p EXCEPT !.path = @ \o <<c>>, !.anchored = TRUE, !.done = TRUE], leaf, Q, R)
<1> DEFINE U == Q \cup {leaf}
           w == p.path \o <<c>>
<1>0. maxPath \in Nat
  BY PathBound
<1>1. p \in [path : Seq(U), anchored : BOOLEAN, done : BOOLEAN] /\ p.path \in Seq(U) /\ c \in U
  BY DEF Climbs
<1>2. w \in Seq(U) /\ Len(w) = Len(p.path) + 1 /\ w[Len(w)] = c
      /\ \A i \in 1 .. Len(p.path) : w[i] = p.path[i]
  BY <1>1
<1>3. Len(w) \in 2 .. maxPath /\ w[1] = leaf /\ \A i \in 2 .. Len(w) : w[i] \in Q
  <2>1. Len(p.path) \in Nat /\ Len(p.path) >= 1 /\ p.path[1] = leaf
        /\ \A i \in 2 .. Len(p.path) : p.path[i] \in Q
    BY <1>1 DEF Climbs
  <2>2. \A i \in 2 .. Len(w) : i = Len(w) \/ i \in 2 .. Len(p.path)
    BY <1>2, <2>1
  <2> QED BY <1>0, <1>2, <2>1, <2>2
<1>4. ~p.anchored
  BY DEF Climbs
<1> HIDE DEF w
<1>5. Climbs([p EXCEPT !.path = w], leaf, Q, R)
  BY <1>1, <1>2, <1>3, <1>4 DEF Climbs
<1>6. ASSUME c \in R PROVE Climbs([p EXCEPT !.path = w, !.anchored = TRUE, !.done = TRUE], leaf, Q, R)
  <2> DEFINE q == [p EXCEPT !.path = w]
             r == [q EXCEPT !.anchored = TRUE]
             d == [r EXCEPT !.done = TRUE]
             T == [path : Seq(U), anchored : BOOLEAN, done : BOOLEAN]
  <2>1. q \in T /\ q.path = w
    BY <1>1, <1>2
  <2>2. [p EXCEPT !.path = w, !.anchored = TRUE, !.done = TRUE] = d
    BY <1>1
  <2> HIDE DEF q
  <2>3. r \in T /\ r.path = w
    BY <2>1
  <2> HIDE DEF r
  <2>4. d \in T /\ d.path = w /\ d.done
    BY <2>3
  <2> HIDE DEF d
  <2> QED BY <1>2, <1>3, <1>6, <2>2, <2>4 DEF Climbs
<1> QED BY <1>5, <1>6 DEF w

LEMMA ExtendClimbs ==
  ASSUME NEW leaf, NEW ints, NEW roots, NEW Q, NEW R, R = Range(roots), R \subseteq Q,
         Range(ints) \subseteq Q, NEW p, Climbs(p, leaf, Q, R)
  PROVE  Climbs(extendPath(p, ints, roots), leaf, Q, R)
<1> DEFINE root == findIssuer(roots, Last(p.path).issuer)
           ic == bySubject(ints, Last(p.path).issuer)
<1>1. root = <<>> \/ \E c \in R : root = <<c>>
  BY FoundIn DEF findIssuer, Range
<1>2. ic = <<>> \/ \E c \in Q : ic = <<c>>
  BY FoundIn DEF Range
<1>3. extendPath(p, ints, roots) =
        IF p.done \/ Len(p.path) >= maxPath THEN p
        ELSE IF root # <<>> THEN [p EXCEPT !.path = @ \o root, !.anchored = TRUE, !.done = TRUE]
        ELSE IF ic # <<>> THEN [p EXCEPT !.path = @ \o ic]
        ELSE [p EXCEPT !.done = TRUE]
  BY DEF extendPath
<1> HIDE DEF root, ic
<1>4. CASE p.done \/ Len(p.path) >= maxPath
  BY <1>3, <1>4
<1>5. CASE ~(p.done \/ Len(p.path) >= maxPath)
  <2>0. ~p.done /\ Len(p.path) < maxPath
    BY <1>5, PathBound DEF Climbs
  <2>1. CASE root # <<>>
    <3>1. PICK c \in R : root = <<c>>
      BY <1>1, <2>1
    <3>2. Climbs([p EXCEPT !.path = @ \o <<c>>, !.anchored = TRUE, !.done = TRUE], leaf, Q, R)
      BY <2>0, <3>1, LongerClimbs
    <3> QED BY <1>3, <1>5, <2>1, <3>1, <3>2
  <2>2. CASE root = <<>> /\ ic # <<>>
    <3>1. PICK c \in Q : ic = <<c>>
      BY <1>2, <2>2
    <3>2. Climbs([p EXCEPT !.path = @ \o <<c>>], leaf, Q, R)
      BY <2>0, <3>1, LongerClimbs
    <3> QED BY <1>3, <1>5, <2>2, <3>1, <3>2
  <2>3. CASE root = <<>> /\ ic = <<>>
    <3>1. Climbs([p EXCEPT !.done = TRUE], leaf, Q, R)
      BY <2>0 DEF Climbs
    <3> QED BY <1>3, <1>5, <2>3, <3>1
  <2> QED BY <2>1, <2>2, <2>3
<1> QED BY <1>4, <1>5

LEMMA BuildClimbs ==
  ASSUME NEW leaf, NEW ints, NEW roots, NEW Q, NEW R, R = Range(roots), R \subseteq Q,
         Range(ints) \subseteq Q
  PROVE  Climbs(buildPath(leaf, ints, roots), leaf, Q, R)
<1> DEFINE T == [path : Seq(Q \cup {leaf}), anchored : BOOLEAN, done : BOOLEAN]
           X == {x \in T : Climbs(x, leaf, Q, R)}
           start == [path |-> <<leaf>>, anchored |-> FALSE, done |-> FALSE]
           Ext(x) == extendPath(x, ints, roots)
           p == CHOOSE b : b = [n \in 0 .. maxPath |-> IF n = 0 THEN start ELSE Ext(b[n - 1])]
<1>0. maxPath \in Nat
  BY PathBound
<1>1. buildPath(leaf, ints, roots) = p[maxPath]
  BY DEF buildPath
<1>2. start \in X
  <2>1. <<leaf>> \in Seq(Q \cup {leaf}) /\ Len(<<leaf>>) = 1 /\ <<leaf>>[1] = leaf
    OBVIOUS
  <2>2. start \in T /\ start.path = <<leaf>> /\ ~start.anchored
    BY <2>1
  <2>3. \A i \in 2 .. 1 : FALSE
    OBVIOUS
  <2> HIDE DEF start
  <2> QED BY <2>1, <2>2, <2>3 DEF Climbs
<1>3. ASSUME NEW x \in X PROVE Ext(x) \in X
  <2>1. Climbs(Ext(x), leaf, Q, R)
    BY ExtendClimbs
  <2> HIDE DEF Ext
  <2> QED BY <2>1 DEF Climbs
<1>4. ASSUME NEW x \in X PROVE Climbs(x, leaf, Q, R)
  OBVIOUS
<1> HIDE DEF X, start, Ext
<1>5. p[maxPath] \in X
  <2> DEFINE G == [n \in 1 .. maxPath |-> [x \in X |-> Ext(x)]]
  <2>1. G \in [1 .. maxPath -> [X -> X]]
    BY <1>3
  <2>2. \A n \in 1 .. maxPath, x \in X : G[n][x] = Ext(x)
    OBVIOUS
  <2> HIDE DEF G
  <2>3. PICK r \in [0 .. maxPath -> X] : r[0] = start /\ \A n \in 1 .. maxPath : r[n] = G[n][r[n - 1]]
    BY <1>0, <1>2, <2>1, IteratesExist
  <2>4. \A n \in 1 .. maxPath : n - 1 \in 0 .. maxPath /\ n \in 0 .. maxPath
    BY <1>0
  <2>5. \A n \in 0 .. maxPath : r[n] = IF n = 0 THEN start ELSE Ext(r[n - 1])
    BY <1>0, <2>2, <2>3, <2>4
  <2>6. r = [n \in 0 .. maxPath |-> IF n = 0 THEN start ELSE Ext(r[n - 1])]
    BY <2>3, <2>5
  <2>7. p = [n \in 0 .. maxPath |-> IF n = 0 THEN start ELSE Ext(p[n - 1])]
    BY <2>6
  <2> HIDE DEF p
  <2>8. \A n \in 0 .. maxPath : p[n] = IF n = 0 THEN start ELSE Ext(p[n - 1])
    BY <2>7
  <2>9. p[0] \in X /\ \A n \in 1 .. maxPath : p[n - 1] \in X => p[n] \in X
    BY <1>0, <1>2, <1>3, <2>4, <2>8
  <2> QED BY <1>0, <2>9, IteratesIn
<1> QED BY <1>1, <1>4, <1>5

LEMMA IdentityNamed ==
  ASSUME NEW c, identityOK(verifyIdentity(c, tlsHost))
  PROVE  \E i \in DOMAIN c.ext.san :
           \/ c.ext.san[i].name = tlsHost.name
           \/ c.ext.san[i].name = parseIPLiteral(tlsHost)
           \/ ~c.ext.san[i].ip /\ matchWildcard(c.ext.san[i].name, tlsHost.name)
<1> DEFINE dns == {i \in DOMAIN c.ext.san : ~c.ext.san[i].ip}
           stars == {i \in dns : "*" \in Range(c.ext.san[i].name)}
           exact == {i \in dns \ stars : c.ext.san[i].name = tlsHost.name}
           wild == {i \in stars : matchWildcard(c.ext.san[i].name, tlsHost.name)}
<1>1. CASE tlsHost.kind # "dns"
  <2>1. verifyIdentity(c, tlsHost) =
          IF \E i \in DOMAIN c.ext.san : c.ext.san[i].ip /\ c.ext.san[i].name = parseIPLiteral(tlsHost)
          THEN "MatchIP" ELSE "NoMatch"
    BY <1>1 DEF verifyIdentity
  <2> QED BY <2>1 DEF identityOK
<1>2. CASE tlsHost.kind = "dns" /\ ~hostIsSane(tlsHost.name)
  <2>1. verifyIdentity(c, tlsHost) = "MalformedHost"
    BY <1>2 DEF verifyIdentity
  <2> QED BY <2>1 DEF identityOK
<1>3. CASE tlsHost.kind = "dns" /\ hostIsSane(tlsHost.name)
  <2>1. verifyIdentity(c, tlsHost) =
             IF ~c.ext.hasSAN THEN (IF c.subjectCN = tlsHost.name THEN "MatchCNFallback" ELSE "NoMatch")
             ELSE IF exact # {} THEN "MatchDNS"
             ELSE IF wild = {} THEN "NoMatch"
             ELSE IF \E i, j \in wild : i # j THEN "Ambiguous" ELSE "MatchWildcard"
    BY <1>3 DEF verifyIdentity
  <2>2. exact # {} \/ wild # {}
    <3> HIDE DEF exact, wild
    <3> QED BY <2>1 DEF identityOK
  <2> QED BY <2>2
<1> QED BY <1>1, <1>2, <1>3

\* The path the code builds, when it passes the checks of validateChain, is one
\* of the paths the reference quantifies over.
LEMMA ChainTrusted ==
  ASSUME NEW leafDER, NEW intsDER, validateChain(leafDER, intsDER, defaultStore)
  PROVE  Trusted(leafDER, intsDER)
<1> DEFINE leaf == parseCert(leafDER)
           ints == [i \in DOMAIN intsDER |-> parseCert(intsDER[i])]
           R == Range(defaultStore)
           pool == {parseCert(intsDER[i]) : i \in DOMAIN intsDER} \cup R
           p == buildPath(leaf, ints, defaultStore)
           isPath(w) == /\ w[1] = leaf /\ Last(w) \in R
                        /\ \A i \in 1 .. Len(w) - 1 : w[i].signer = w[i + 1].key /\ w[i + 1].ext.isCA
                        /\ \A i \in DOMAIN w : inWindow(w[i])
<1>1. Climbs(p, leaf, pool, R)
  <2>1. Range(ints) \subseteq pool
    BY DEF Range
  <2> QED BY <2>1, BuildClimbs
<1>2. /\ p.anchored
      /\ \A i \in 0 .. Len(p.path) - 2 : linkOK(p.path, i)
      /\ inWindow(Last(p.path))
      /\ identityOK(verifyIdentity(leaf, tlsHost))
  BY DEF validateChain
<1>3. \E i \in DOMAIN leaf.ext.san :
           \/ leaf.ext.san[i].name = tlsHost.name
           \/ leaf.ext.san[i].name = parseIPLiteral(tlsHost)
           \/ ~leaf.ext.san[i].ip /\ matchWildcard(leaf.ext.san[i].name, tlsHost.name)
  BY <1>2, IdentityNamed
<1>4. Trusted(leafDER, intsDER) =
        /\ \E n \in 1 .. maxPath - 1 : \E mid \in [1 .. n -> pool] : isPath(<<leaf>> \o mid)
        /\ \E i \in DOMAIN leaf.ext.san :
           \/ leaf.ext.san[i].name = tlsHost.name
           \/ leaf.ext.san[i].name = parseIPLiteral(tlsHost)
           \/ ~leaf.ext.san[i].ip /\ matchWildcard(leaf.ext.san[i].name, tlsHost.name)
  BY DEF Trusted
<1> HIDE DEF leaf, pool, R, p
<1>5. PICK N \in Nat : N = Len(p.path) /\ N \in 2 .. maxPath
  BY <1>1, <1>2 DEF Climbs
<1> DEFINE mid == [i \in 1 .. N - 1 |-> p.path[i + 1]]
           w == <<leaf>> \o mid
<1>6. N - 1 \in 1 .. maxPath - 1 /\ mid \in [1 .. N - 1 -> pool]
  <2>1. \A i \in 1 .. N - 1 : i + 1 \in 2 .. N
    BY <1>5
  <2>2. \A i \in 2 .. N : p.path[i] \in pool
    BY <1>1, <1>5 DEF Climbs
  <2> QED BY <1>5, <2>1, <2>2, PathBound
<1>7. Len(w) = N /\ DOMAIN w = 1 .. N /\ \A i \in 1 .. N : w[i] = p.path[i]
  <2>1. p.path[1] = leaf
    BY <1>1 DEF Climbs
  <2>2. N - 1 \in Nat /\ mid \in Seq(pool \cup {leaf}) /\ Len(mid) = N - 1
    <3>1. N - 1 \in Nat /\ mid \in [1 .. N - 1 -> pool \cup {leaf}] /\ DOMAIN mid = 1 .. N - 1
      BY <1>5, <1>6
    <3>2. mid \in Seq(pool \cup {leaf})
      BY <3>1, SeqDef
    <3>3. Len(mid) \in Nat /\ DOMAIN mid = 1 .. Len(mid)
      BY <3>2, LenProperties
    <3> HIDE DEF mid
    <3> QED BY <3>1, <3>2, <3>3
  <2>3. <<leaf>> \in Seq(pool \cup {leaf}) /\ Len(<<leaf>>) = 1 /\ <<leaf>>[1] = leaf
    OBVIOUS
  <2>4. \A i \in 2 .. N : mid[i - 1] = p.path[i]
    BY <1>5
  <2> HIDE DEF mid
  <2>5. /\ w \in Seq(pool \cup {leaf}) /\ Len(w) = 1 + (N - 1)
        /\ \A i \in 1 .. 1 + (N - 1) : w[i] = IF i <= 1 THEN <<leaf>>[i] ELSE mid[i - 1]
    BY <2>2, <2>3, ConcatProperties
  <2> HIDE DEF w
  <2>6. \A i \in 1 .. N : i = 1 \/ i \in 2 .. N
    OBVIOUS
  <2> QED BY <1>5, <2>1, <2>3, <2>4, <2>5, <2>6
<1> HIDE DEF mid, w
<1>8. isPath(w)
  <2>1. w[1] = leaf
    BY <1>1, <1>5, <1>7 DEF Climbs
  <2>2. Last(w) \in R
    BY <1>1, <1>2, <1>5, <1>7 DEF Climbs, Last
  <2>3. ASSUME NEW i \in 1 .. N - 1
        PROVE  w[i].signer = w[i + 1].key /\ w[i + 1].ext.isCA /\ inWindow(w[i])
    <3>1. i - 1 \in 0 .. Len(p.path) - 2 /\ (i - 1) + 1 = i /\ (i - 1) + 2 = i + 1
          /\ i \in 1 .. N /\ i + 1 \in 1 .. N
      BY <1>5
    <3>2. linkOK(p.path, i - 1)
      BY <1>2, <3>1
    <3>3. p.path[i].signer = p.path[i + 1].key /\ p.path[i + 1].ext.isCA /\ inWindow(p.path[i])
      BY <3>1, <3>2 DEF linkOK, verifyCertSignature
    <3> QED BY <1>7, <3>1, <3>3
  <2>4. inWindow(w[N])
    BY <1>2, <1>5, <1>7 DEF Last
  <2>5. \A i \in DOMAIN w : inWindow(w[i])
    <3>1. \A i \in 1 .. N : i = N \/ i \in 1 .. N - 1
      OBVIOUS
    <3> QED BY <1>7, <2>3, <2>4, <3>1
  <2> QED BY <1>7, <2>1, <2>2, <2>3, <2>5
<1>9. isPath(<<leaf>> \o mid)
  BY <1>8 DEF w
<1> QED
  <2> HIDE DEF isPath
  <2> QED BY <1>3, <1>4, <1>6, <1>9

-----------------------------------------------------------------------------
(* The TLS client: records under way.                                       *)

TlsFields ==
  {"pc", "state", "transcript", "hsBuf", "readKey", "writeKey", "readSeq", "writeSeq",
   "secret", "leaf", "ints", "pendingClientCert", "pending", "stash", "delivered", "writes",
   "sealed", "reused", "net", "faults", "peer"}
PeerFields == {"srv", "said", "part", "key", "seq", "app", "sends"}

IsSeq(s) == s \in Seq(Range(s))
Flying(t) == Range(t.net) \cup Range(t.stash)

\* The fields of the connection are there, and what is under way is in order.
Whole(t) ==
  /\ t = [f \in TlsFields |-> t[f]]
  /\ t.peer = [f \in PeerFields |-> t.peer[f]]
  /\ IsSeq(t.net) /\ IsSeq(t.stash)

LEMMA SeqIs == ASSUME NEW S, NEW s \in Seq(S) PROVE IsSeq(s)
  BY SeqOfRange DEF IsSeq, Range

LEMMA EmptyIs == IsSeq(<<>>) /\ Range(<<>>) = {}
<1>1. <<>> \in Seq({})
  OBVIOUS
<1>2. DOMAIN <<>> = {}
  OBVIOUS
<1>3. Range(<<>>) = {}
  BY <1>2, Zenon DEF Range
<1> QED BY <1>1, <1>3, SeqIs

LEMMA TakeHead ==
  ASSUME NEW s, IsSeq(s), s # <<>>
  PROVE  Head(s) \in Range(s) /\ IsSeq(Tail(s)) /\ Range(Tail(s)) \subseteq Range(s)
<1>1. s \in Seq(Range(s))
  BY DEF IsSeq
<1>2. Head(s) \in Range(s) /\ Tail(s) \in Seq(Range(s))
  BY <1>1, HeadTailProperties
<1>3. \A i \in DOMAIN Tail(s) : Tail(s)[i] \in Range(s)
  BY <1>2, LenProperties
<1> QED BY <1>2, <1>3, SeqIs DEF Range

LEMMA PutLast ==
  ASSUME NEW s, IsSeq(s), NEW e
  PROVE  /\ IsSeq(Append(s, e)) /\ Range(Append(s, e)) \subseteq Range(s) \cup {e}
         /\ Len(Append(s, e)) = Len(s) + 1 /\ Append(s, e)[Len(s) + 1] = e /\ Len(s) \in Nat
         /\ \A i \in 1 .. Len(s) : Append(s, e)[i] = s[i]
<1> DEFINE S == Range(s) \cup {e}
<1>1. s \in Seq(S) /\ e \in S
  BY SeqMonotonic DEF IsSeq
<1> HIDE DEF S
<1>2. Append(s, e) \in Seq(S) /\ Len(Append(s, e)) = Len(s) + 1 /\ Append(s, e)[Len(s) + 1] = e
      /\ Len(s) \in Nat /\ \A i \in 1 .. Len(s) : Append(s, e)[i] = s[i]
  BY <1>1, AppendProperties, LenProperties
<1>3. \A i \in DOMAIN Append(s, e) : Append(s, e)[i] \in S
  BY <1>2, LenProperties
<1>4. Range(Append(s, e)) \subseteq S
  BY <1>3 DEF Range
<1> QED BY <1>2, <1>4, SeqIs DEF S

LEMMA OneIs == ASSUME NEW e PROVE IsSeq(<<e>>) /\ Range(<<e>>) = {e}
<1>1. <<e>> \in Seq({e})
  OBVIOUS
<1>2. Range(<<e>>) = {e}
  BY DEF Range
<1> QED BY <1>1, <1>2, SeqIs

\* x is t after some of what was under way has been taken in, or after an error.
Drained(x, t) ==
  /\ Whole(x) /\ Flying(x) \subseteq Flying(t) /\ x.pc \in {t.pc, "failed"}
  /\ x.state = t.state /\ x.transcript = t.transcript /\ x.readKey = t.readKey
  /\ x.writeKey = t.writeKey /\ x.readSeq = t.readSeq /\ x.secret = t.secret
  /\ x.leaf = t.leaf /\ x.ints = t.ints /\ x.pending = t.pending
  /\ x.delivered = t.delivered /\ x.peer = t.peer

Tally(x, t) == x.writeSeq = t.writeSeq /\ x.sealed = t.sealed /\ x.reused = t.reused

LEMMA FailDrains ==
  ASSUME NEW t, Whole(t)
  PROVE  LET x == [t EXCEPT !.pc = "failed"] IN Drained(x, t) /\ Tally(x, t) /\ x.pc = "failed"
<1> DEFINE x == [t EXCEPT !.pc = "failed"]
<1>1. /\ x = [f \in TlsFields |-> x[f]]
      /\ \A f \in TlsFields \ {"pc"} : x[f] = t[f]
      /\ x.pc = "failed"
  BY DEF Whole, TlsFields
<1> HIDE DEF x
<1>2. x.net = t.net /\ x.stash = t.stash /\ x.peer = t.peer
  BY <1>1 DEF TlsFields
<1> QED BY <1>1, <1>2 DEF Drained, Tally, Whole, TlsFields, Flying, x

LEMMA DrainOnce ==
  ASSUME NEW t, Whole(t)
  PROVE  Drained(drainOnce(t), t) /\ Tally(drainOnce(t), t)
<1>1. CASE t.net = <<>>
  BY <1>1 DEF drainOnce, Drained, Tally
<1>2. CASE t.net # <<>> /\ Len(t.stash) >= StashCap
  BY <1>2, FailDrains DEF drainOnce
<1>3. CASE t.net # <<>> /\ ~(Len(t.stash) >= StashCap)
  <2> DEFINE x == [t EXCEPT !.stash = Append(t.stash, Head(t.net)), !.net = Tail(t.net)]
  <2>1. drainOnce(t) = x
    BY <1>3 DEF drainOnce
  <2>2. /\ x = [f \in TlsFields |-> x[f]]
        /\ \A f \in TlsFields \ {"stash", "net"} : x[f] = t[f]
        /\ x.stash = Append(t.stash, Head(t.net)) /\ x.net = Tail(t.net)
    BY DEF Whole, TlsFields
  <2> HIDE DEF x
  <2>3. IsSeq(x.net) /\ Range(x.net) \subseteq Range(t.net) /\ Head(t.net) \in Range(t.net)
    BY <1>3, <2>2, TakeHead DEF Whole
  <2>4. IsSeq(x.stash) /\ Range(x.stash) \subseteq Range(t.stash) \cup {Head(t.net)}
    <3>1. IsSeq(t.stash)
      BY DEF Whole
    <3> DEFINE h == Head(t.net)
    <3> HIDE DEF h
    <3>2. IsSeq(Append(t.stash, h)) /\ Range(Append(t.stash, h)) \subseteq Range(t.stash) \cup {h}
      BY <3>1, PutLast
    <3> QED BY <2>2, <3>2 DEF h
  <2>5. Flying(x) \subseteq Flying(t)
    BY <2>3, <2>4 DEF Flying
  <2>6. Whole(x)
    BY <2>2, <2>3, <2>4 DEF Whole, TlsFields
  <2> QED BY <2>1, <2>2, <2>5, <2>6 DEF Drained, Tally, TlsFields
<1> QED BY <1>1, <1>2, <1>3

\* Every number used under the current key is below the next one.
NonceOK(t) ==
  /\ t.writeSeq \in Nat /\ ~t.reused
  /\ \A u \in t.sealed : u[1] = t.writeKey => u[2] \in 0 .. t.writeSeq - 1

LEMMA SendKeeps ==
  ASSUME NEW t, Whole(t), NonceOK(t), NEW x \in sendRecord(t)
  PROVE  Drained(x, t) /\ NonceOK(x) /\ \A u \in x.sealed : u \in t.sealed \/ u[1] = t.writeKey
<1> DEFINE used == <<t.writeKey, t.writeSeq>>
           e == [t EXCEPT !.writeSeq = t.writeSeq + 1, !.sealed = t.sealed \cup {used},
                          !.reused = t.reused \/ used \in t.sealed]
           s == IF t.writeKey = NoKey THEN t ELSE e
<1>1. x \in {drainOnce(s), [s EXCEPT !.pc = "failed"]}
  BY DEF sendRecord
<1>2. used \notin t.sealed /\ ~t.reused /\ t.writeSeq \in Nat
  BY DEF NonceOK
<1>3. /\ e = [f \in TlsFields |-> e[f]]
      /\ \A f \in TlsFields \ {"writeSeq", "sealed", "reused"} : e[f] = t[f]
      /\ e.writeSeq = t.writeSeq + 1 /\ e.sealed = t.sealed \cup {used} /\ ~e.reused
  <2>1. /\ e = [f \in TlsFields |-> e[f]]
        /\ \A f \in TlsFields \ {"writeSeq", "sealed", "reused"} : e[f] = t[f]
        /\ e.writeSeq = t.writeSeq + 1 /\ e.sealed = t.sealed \cup {used}
        /\ e.reused = (t.reused \/ used \in t.sealed)
    BY DEF Whole, TlsFields
  <2> HIDE DEF e, used
  <2> QED BY <1>2, <2>1
<1> HIDE DEF e
<1>4. Drained(e, t) /\ NonceOK(e) /\ \A u \in e.sealed : u \in t.sealed \/ u[1] = t.writeKey
  <2>1. Whole(e) /\ Flying(e) = Flying(t)
    BY <1>3 DEF Whole, TlsFields, Flying
  <2>2. Drained(e, t)
    BY <1>3, <2>1 DEF Drained, TlsFields
  <2>3. e.writeKey = t.writeKey
    BY <2>2 DEF Drained
  <2>4. \A u \in e.sealed : u[1] = e.writeKey => u[2] \in 0 .. e.writeSeq - 1
    BY <1>2, <1>3, <2>3 DEF NonceOK
  <2> QED BY <1>2, <1>3, <2>2, <2>4 DEF NonceOK
<1>5. Drained(s, t) /\ NonceOK(s) /\ \A u \in s.sealed : u \in t.sealed \/ u[1] = t.writeKey
  BY <1>4 DEF Drained
<1> HIDE DEF s
<1>6. Drained(x, s) /\ Tally(x, s)
  <2>1. Whole(s)
    BY <1>5 DEF Drained
  <2>2. Drained(drainOnce(s), s) /\ Tally(drainOnce(s), s)
    BY <2>1, DrainOnce
  <2>3. Drained([s EXCEPT !.pc = "failed"], s) /\ Tally([s EXCEPT !.pc = "failed"], s)
    BY <2>1, FailDrains
  <2> QED BY <1>1, <2>2, <2>3
<1>7. Drained(x, t)
  BY <1>5, <1>6 DEF Drained
<1>8. NonceOK(x) /\ \A u \in x.sealed : u \in t.sealed \/ u[1] = t.writeKey
  <2>1. x.sealed = s.sealed /\ x.writeSeq = s.writeSeq /\ x.reused = s.reused /\ x.writeKey = s.writeKey
    BY <1>6 DEF Tally, Drained
  <2> QED BY <1>5, <2>1 DEF NonceOK
<1> QED BY <1>7, <1>8

-----------------------------------------------------------------------------
(* The TLS client: the handshake.                                           *)

Event(m) == <<m.t, m.v>>

Begins(s, w) ==
  IsSeq(s) /\ IsSeq(w) /\ Len(s) <= Len(w) /\ \A i \in 1 .. Len(s) : s[i] = w[i]

\* A signature is made with a key of the peer.
SignedOK(m, p) == m.t = "CertificateVerify" => \E k \in p.srv.holds : m.key = <<k>>

\* The last unit of a Finished: the peer has said what it covers, and then it.
Ends(u) == u.m.t = "Finished" /\ ~(u.i < u.of)
UnitOK(u, p) == SignedOK(u.m, p) /\ (Ends(u) => Begins(Append(u.m.over, Event(u.m)), p.said))

HsUnits(units, p) ==
  \/ \E u : units = <<u>> /\ UnitOK(u, p)
  \/ \E u, v : /\ units = <<u, v>> /\ UnitOK(u, p) /\ UnitOK(v, p)
               /\ Ends(u) => Begins(Append(Append(u.m.over, Event(u.m)), Event(v.m)), p.said)

HsRecord(r, p) == r.key[1] # "s ap" /\ (r.outer \in {"ccs", "alert"} \/ HsUnits(r.units, p))

\* Of a message that is only half sent, and what it covers if it is a Finished.
PartOK(p) ==
  \/ p.part = <<>>
  \/ \E m : p.part = <<m>> /\ SignedOK(m, p) /\ (m.t = "Finished" => m.over = p.said)

\* The client while it shakes hands, and after each message of a record.
HsOK(t) ==
  /\ Whole(t) /\ t.sealed = {} /\ ~t.reused /\ t.writeSeq \in Nat /\ t.writeKey[1] # "c ap"
  /\ t.delivered = <<>> /\ t.pending = <<>>
  /\ t.peer.app = 0 /\ t.peer.key[1] # "s ap" /\ IsSeq(t.peer.said) /\ PartOK(t.peer)
  /\ \A r \in Flying(t) : HsRecord(r, t.peer)
  /\ t.state # "Connected"
  /\ t.state \in {"ReceivedCertificateVerify", "ReceivedFinished"} => t.leaf.key \in t.peer.srv.holds

\* x is t after a message.
Heeded(x, t) ==
  /\ x = [f \in TlsFields |-> x[f]]
  /\ x.pc = t.pc /\ x.net = t.net /\ x.stash = t.stash /\ x.peer = t.peer
  /\ x.sealed = t.sealed /\ x.reused = t.reused
  /\ x.delivered = t.delivered /\ x.pending = t.pending

LEMMA HeededKeeps ==
  ASSUME NEW t, HsOK(t), NEW x, Heeded(x, t), x.writeSeq \in Nat, x.writeKey[1] # "c ap",
         x.state # "Connected",
         x.state \in {"ReceivedCertificateVerify", "ReceivedFinished"} => x.leaf.key \in t.peer.srv.holds
  PROVE  HsOK(x)
<1>1. Whole(x) /\ Flying(x) = Flying(t) /\ x.peer = t.peer
  BY DEF Whole, Heeded, HsOK, Flying
<1> QED BY <1>1 DEF HsOK, Heeded

\* What is left as it was by a message that changes neither keys nor leaf.
Kept(x, t) ==
  Heeded(x, t) /\ x.writeSeq = t.writeSeq /\ x.writeKey = t.writeKey /\ x.leaf = t.leaf

LEMMA HeardKept ==
  ASSUME NEW t, Whole(t), NEW m
  PROVE  /\ Kept(Heard(t, m), t) /\ Heard(t, m).state = t.state
         /\ Heard(t, m).transcript = Append(t.transcript, Event(m))
BY DEF Heard, Kept, Heeded, Whole, TlsFields, Event

Progress(x, t, m) ==
  /\ HsOK(x) /\ x.peer = t.peer /\ x.pc = t.pc
  /\ x.state = "ReceivedFinished" =>
       \/ t.state = "ReceivedFinished" /\ x.transcript = Append(t.transcript, Event(m))
       \/ m.t = "Finished" /\ x.transcript = Append(m.over, Event(m))

LEMMA ErrorFails == ASSUME NEW what PROVE Failed(Fail(what))
  BY DEF Failed, Fail

\* A message that is only added to the transcript and moves the state to st.
Advanced(t, m, st) == [Heard(t, m) EXCEPT !.state = st]

LEMMA AdvancedKeeps ==
  ASSUME NEW t, HsOK(t), NEW m, NEW st, st # "Connected",
         st \in {"ReceivedCertificateVerify", "ReceivedFinished"} => t.leaf.key \in t.peer.srv.holds
  PROVE  LET x == Advanced(t, m, st)
         IN  HsOK(x) /\ x.peer = t.peer /\ x.pc = t.pc /\ x.state = st
             /\ x.transcript = Append(t.transcript, Event(m))
<1> DEFINE h == Heard(t, m)
           x == [h EXCEPT !.state = st]
<1>1. Kept(h, t) /\ h.transcript = Append(t.transcript, Event(m))
  BY HeardKept DEF HsOK
<1> HIDE DEF h
<1>2. Kept(x, t) /\ x.state = st /\ x.transcript = h.transcript
  BY <1>1 DEF Kept, Heeded, TlsFields
<1> HIDE DEF x
<1>3. HsOK(x)
  BY <1>2, HeededKeeps DEF Kept, HsOK
<1> QED BY <1>1, <1>2, <1>3 DEF Kept, Heeded, x, h, Advanced

LEMMA ServerHelloKeeps ==
  ASSUME NEW t, HsOK(t), NEW m
  PROVE  Failed(onServerHello(t, m)) \/ Progress(onServerHello(t, m), t, m)
<1>1. CASE t.state # "SentClientHello" \/ m.v # "share"
  BY <1>1, ErrorFails DEF onServerHello
<1>2. CASE ~(t.state # "SentClientHello" \/ m.v # "share")
  <2> DEFINE h == Heard(t, m)
             d == deriveHandshakeKeys(h, m.v)
             x == [d EXCEPT !.state = "ReceivedServerHello"]
  <2>1. onServerHello(t, m) = x
    BY <1>2 DEF onServerHello
  <2>2. Kept(h, t)
    BY HeardKept DEF HsOK
  <2> HIDE DEF h
  <2>3. Heeded(d, h) /\ d.writeSeq = 0 /\ d.writeKey = <<"c hs", m.v, h.transcript>>
    BY <2>2 DEF deriveHandshakeKeys, deriveSecret, Kept, Heeded, TlsFields
  <2> HIDE DEF d
  <2>4. Heeded(x, d) /\ x.writeSeq = 0 /\ x.writeKey = <<"c hs", m.v, h.transcript>>
        /\ x.state = "ReceivedServerHello"
    BY <2>3 DEF Heeded, TlsFields
  <2> HIDE DEF x
  <2>5. Heeded(x, t)
    BY <2>2, <2>3, <2>4 DEF Heeded, Kept
  <2>6. HsOK(x)
    <3>1. <<"c hs", m.v, h.transcript>>[1] = "c hs"
      OBVIOUS
    <3>2. x.writeKey[1] # "c ap"
      BY <2>4, <3>1
    <3>3. 0 \in Nat
      OBVIOUS
    <3>4. x.writeSeq \in Nat /\ x.state # "Connected"
          /\ x.state \notin {"ReceivedCertificateVerify", "ReceivedFinished"}
      BY <2>4, <3>3
    <3> QED BY <2>5, <3>2, <3>4, HeededKeeps
  <2> QED BY <2>1, <2>4, <2>5, <2>6 DEF Progress, Heeded
<1> QED BY <1>1, <1>2

LEMMA CertificateKeeps ==
  ASSUME NEW t, HsOK(t), NEW m
  PROVE  Failed(captureCertificate(t, m)) \/ Progress(captureCertificate(t, m), t, m)
<1>1. CASE t.state # "ReceivedEncryptedExtensions" \/ m.chain = <<>>
  BY <1>1, ErrorFails DEF captureCertificate
<1>2. CASE ~(t.state # "ReceivedEncryptedExtensions" \/ m.chain = <<>>)
  <2> DEFINE h == Heard(t, m)
             rest == SubSeq(m.chain, 2, IF Len(m.chain) > maxIntermediates + 1
                                        THEN maxIntermediates + 1 ELSE Len(m.chain))
             x == [h EXCEPT !.state = "ReceivedCertificate", !.leaf = m.chain[1], !.ints = rest]
  <2>1. captureCertificate(t, m) = x
    BY <1>2 DEF captureCertificate
  <2>2. Kept(h, t)
    BY HeardKept DEF HsOK
  <2> HIDE DEF h, rest
  <2>3. Heeded(x, t) /\ x.writeSeq = t.writeSeq /\ x.writeKey = t.writeKey
        /\ x.state = "ReceivedCertificate"
    BY <2>2 DEF Kept, Heeded, TlsFields
  <2> HIDE DEF x
  <2>4. HsOK(x)
    BY <2>3, HeededKeeps DEF HsOK
  <2> QED BY <2>1, <2>3, <2>4 DEF Progress, Heeded
<1> QED BY <1>1, <1>2

LEMMA SignatureKeeps ==
  ASSUME NEW t, HsOK(t), NEW m, m.t = "CertificateVerify", SignedOK(m, t.peer)
  PROVE  Failed(onCertificateVerify(t, m)) \/ Progress(onCertificateVerify(t, m), t, m)
<1>1. CASE t.state # "ReceivedCertificate" \/ ~verifyCertificateVerify(t, m)
  BY <1>1, ErrorFails DEF onCertificateVerify
<1>2. CASE ~(t.state # "ReceivedCertificate" \/ ~verifyCertificateVerify(t, m))
  <2>1. PICK k \in t.peer.srv.holds : m.key = <<k>>
    BY DEF SignedOK
  <2>2. m.key = <<t.leaf.key>>
    BY <1>2 DEF verifyCertificateVerify
  <2>3. t.leaf.key = k
    BY <2>1, <2>2
  <2> DEFINE st == "ReceivedCertificateVerify"
             x == Advanced(t, m, st)
  <2>4. onCertificateVerify(t, m) = x
    BY <1>2 DEF onCertificateVerify, Advanced
  <2>5. HsOK(x) /\ x.peer = t.peer /\ x.pc = t.pc /\ x.state = "ReceivedCertificateVerify"
    <3>1. st # "Connected"
      OBVIOUS
    <3>2. HsOK(x) /\ x.peer = t.peer /\ x.pc = t.pc /\ x.state = st
      <4> HIDE DEF st
      <4> QED BY <2>3, <3>1, AdvancedKeeps
    <3> QED BY <3>2
  <2> HIDE DEF x
  <2> QED BY <2>4, <2>5 DEF Progress
<1> QED BY <1>1, <1>2

LEMMA FinishedKeeps ==
  ASSUME NEW t, HsOK(t), NEW m, m.t = "Finished"
  PROVE  Failed(onFinished(t, m)) \/ Progress(onFinished(t, m), t, m)
<1>1. CASE t.state # "ReceivedCertificateVerify" \/ m.key # t.readKey \/ m.over # t.transcript
  BY <1>1, ErrorFails DEF onFinished
<1>2. CASE ~(t.state # "ReceivedCertificateVerify" \/ m.key # t.readKey \/ m.over # t.transcript)
  <2> DEFINE st == "ReceivedFinished"
             x == Advanced(t, m, st)
  <2>1. onFinished(t, m) = x
    BY <1>2 DEF onFinished, Advanced
  <2>2. t.leaf.key \in t.peer.srv.holds
    BY <1>2 DEF HsOK
  <2>3. HsOK(x) /\ x.peer = t.peer /\ x.pc = t.pc /\ x.transcript = Append(t.transcript, Event(m))
    <3>1. st # "Connected"
      OBVIOUS
    <3> HIDE DEF st
    <3> QED BY <2>2, <3>1, AdvancedKeeps
  <2> HIDE DEF x
  <2> QED BY <1>2, <2>1, <2>3 DEF Progress
<1> QED BY <1>1, <1>2

LEMMA ExtensionsKeep ==
  ASSUME NEW t, HsOK(t), NEW m
  PROVE  Failed(onEncryptedExtensions(t, m)) \/ Progress(onEncryptedExtensions(t, m), t, m)
<1>1. CASE t.state # "ReceivedServerHello" \/ m.v = "garbled"
  BY <1>1, ErrorFails DEF onEncryptedExtensions
<1>2. CASE ~(t.state # "ReceivedServerHello" \/ m.v = "garbled")
  <2> DEFINE st == "ReceivedEncryptedExtensions"
             x == Advanced(t, m, st)
  <2>1. onEncryptedExtensions(t, m) = x
    BY <1>2 DEF onEncryptedExtensions, Advanced
  <2>2. HsOK(x) /\ x.peer = t.peer /\ x.pc = t.pc /\ x.state = "ReceivedEncryptedExtensions"
    <3>1. st # "Connected" /\ st \notin {"ReceivedCertificateVerify", "ReceivedFinished"}
      OBVIOUS
    <3>2. HsOK(x) /\ x.peer = t.peer /\ x.pc = t.pc /\ x.state = st
      <4> HIDE DEF st
      <4> QED BY <3>1, AdvancedKeeps
    <3> QED BY <3>2
  <2> HIDE DEF x
  <2> QED BY <2>1, <2>2 DEF Progress
<1> QED BY <1>1, <1>2

LEMMA HeardKeeps ==
  ASSUME NEW t, HsOK(t), NEW m
  PROVE  /\ Progress(Heard(t, m), t, m)
         /\ Progress([Heard(t, m) EXCEPT !.pendingClientCert = TRUE], t, m)
<1> DEFINE h == Heard(t, m)
           x == [h EXCEPT !.pendingClientCert = TRUE]
<1>1. Kept(h, t) /\ h.state = t.state /\ h.transcript = Append(t.transcript, Event(m))
  BY HeardKept DEF HsOK
<1> HIDE DEF h
<1>2. Kept(x, t) /\ x.state = t.state /\ x.transcript = Append(t.transcript, Event(m))
  BY <1>1 DEF Kept, Heeded, TlsFields
<1> HIDE DEF x
<1>3. HsOK(h)
  BY <1>1, HeededKeeps DEF Kept, HsOK
<1>4. HsOK(x)
  BY <1>2, HeededKeeps DEF Kept, HsOK
<1>5. Progress(h, t, m) /\ Progress(x, t, m)
  BY <1>1, <1>2, <1>3, <1>4 DEF Progress, Kept, Heeded
<1> QED BY <1>5 DEF x, h

LEMMA ProcessKeeps ==
  ASSUME NEW t, HsOK(t), NEW m, SignedOK(m, t.peer)
  PROVE  Failed(processMessage(t, m)) \/ Progress(processMessage(t, m), t, m)
<1>1. CASE m.t = "ServerHello"
  <2>1. processMessage(t, m) = onServerHello(t, m)
    BY <1>1 DEF processMessage
  <2> QED BY <2>1, ServerHelloKeeps
<1>2. CASE m.t = "EncryptedExtensions"
  <2>1. processMessage(t, m) = onEncryptedExtensions(t, m)
    BY <1>2 DEF processMessage
  <2> QED BY <2>1, ExtensionsKeep
<1>3. CASE m.t = "Certificate"
  <2>1. processMessage(t, m) = captureCertificate(t, m)
    BY <1>3 DEF processMessage
  <2> QED BY <2>1, CertificateKeeps
<1>4. CASE m.t = "CertificateVerify"
  <2>1. processMessage(t, m) = onCertificateVerify(t, m)
    BY <1>4 DEF processMessage
  <2> QED BY <1>4, <2>1, SignatureKeeps
<1>5. CASE m.t = "Finished"
  <2>1. processMessage(t, m) = onFinished(t, m)
    BY <1>5 DEF processMessage
  <2> QED BY <1>5, <2>1, FinishedKeeps
<1>6. CASE m.t = "CertificateRequest"
  <2>1. processMessage(t, m) = [Heard(t, m) EXCEPT !.pendingClientCert = TRUE]
    BY <1>6 DEF processMessage
  <2> QED BY <2>1, HeardKeeps
<1>7. CASE m.t = "NewSessionTicket"
  <2>1. processMessage(t, m) = Heard(t, m)
    BY <1>7 DEF processMessage
  <2> QED BY <2>1, HeardKeeps
<1>8. CASE m.t \notin {"ServerHello", "EncryptedExtensions", "Certificate", "CertificateVerify",
                       "Finished", "CertificateRequest", "NewSessionTicket"}
  <2>1. processMessage(t, m) = Fail("UnexpectedMessage")
    BY <1>8 DEF processMessage
  <2> QED BY <2>1, ErrorFails
<1> QED BY <1>1, <1>2, <1>3, <1>4, <1>5, <1>6, <1>7, <1>8

LEMMA FeedUnits ==
  ASSUME NEW t, NEW units, Len(units) \in {1, 2}
  PROVE  \/ Failed(feedHandshake(t, units))
         \/ Len(units) = 1 /\ feedHandshake(t, units) = takeUnit(t, units[1])
         \/ Len(units) = 2 /\ feedHandshake(t, units) = takeUnit(takeUnit(t, units[1]), units[2])
<1> DEFINE N == Len(units)
           fed == CHOOSE b : b = [n \in 0 .. N |-> IF n = 0 THEN t ELSE takeUnit(b[n - 1], units[n])]
           a == takeUnit(t, units[1])
           c == takeUnit(a, units[2])
           r == [n \in 0 .. N |-> IF n = 0 THEN t ELSE IF n = 1 THEN a ELSE c]
<1>1. CASE Len(t.hsBuf) + Len(units) > HsBufMax
  BY <1>1, ErrorFails DEF feedHandshake
<1>2. CASE ~(Len(t.hsBuf) + Len(units) > HsBufMax)
  <2>1. feedHandshake(t, units) = fed[N]
    BY <1>2 DEF feedHandshake
  <2>0. N \in {1, 2}
    OBVIOUS
  <2> HIDE DEF N
  <2>2. \A n \in 0 .. N : n = 0 \/ n = 1 \/ (n = 2 /\ N = 2)
    BY <2>0
  <2>3. r[0] = t /\ r[1] = a /\ (N = 2 => r[2] = c)
    BY <2>0
  <2>4. a = takeUnit(r[0], units[1]) /\ (N = 2 => c = takeUnit(r[1], units[2]))
    BY <2>3
  <2>5. DOMAIN r = 0 .. N /\ r = [n \in 0 .. N |-> r[n]]
    OBVIOUS
  <2> HIDE DEF r
  <2>6. 1 - 1 = 0 /\ 2 - 1 = 1 /\ 1 # 0 /\ 2 # 0
    OBVIOUS
  <2>7. \A n \in 0 .. N : r[n] = IF n = 0 THEN t ELSE takeUnit(r[n - 1], units[n])
    <3> HIDE DEF a, c
    <3> QED BY <2>2, <2>3, <2>4, <2>6
  <2>8. r = [n \in 0 .. N |-> IF n = 0 THEN t ELSE takeUnit(r[n - 1], units[n])]
    BY <2>5, <2>7
  <2>9. fed = [n \in 0 .. N |-> IF n = 0 THEN t ELSE takeUnit(fed[n - 1], units[n])]
    BY <2>8
  <2> HIDE DEF fed
  <2>10. \A n \in 0 .. N : fed[n] = IF n = 0 THEN t ELSE takeUnit(fed[n - 1], units[n])
    BY <2>9
  <2>11. 0 \in 0 .. N /\ 1 \in 0 .. N /\ (N = 2 => 2 \in 0 .. N)
    BY <2>0
  <2>12. fed[0] = t
    BY <2>10, <2>11
  <2>13. fed[1] = a
    BY <2>6, <2>10, <2>11, <2>12
  <2>14. N = 2 => fed[2] = c
    BY <2>6, <2>10, <2>11, <2>13
  <2> QED BY <2>0, <2>1, <2>13, <2>14 DEF N
<1> QED BY <1>1, <1>2

\* Once the server's Finished is in, the client has heard what the peer said.
Agrees(t) == t.state = "ReceivedFinished" => Begins(t.transcript, t.peer.said)

LEMMA UnitKeeps ==
  ASSUME NEW t, HsOK(t), Agrees(t), NEW u, UnitOK(u, t.peer),
         t.state = "ReceivedFinished" => Begins(Append(t.transcript, Event(u.m)), t.peer.said)
  PROVE  LET x == takeUnit(t, u)
         IN  \/ Failed(x)
             \/ /\ HsOK(x) /\ Agrees(x) /\ x.peer = t.peer /\ x.pc = t.pc
                /\ x.state = "ReceivedFinished" =>
                     t.state = "ReceivedFinished" \/ (Ends(u) /\ x.transcript = Append(u.m.over, Event(u.m)))
<1>1. ~Failed(t)
  BY DEF Failed, HsOK, Whole, TlsFields
<1>2. CASE u.i < u.of
  <2> DEFINE x == [t EXCEPT !.hsBuf = Append(t.hsBuf, u)]
  <2>1. takeUnit(t, u) = x
    BY <1>1, <1>2 DEF takeUnit
  <2>2. Kept(x, t) /\ x.state = t.state /\ x.transcript = t.transcript
    BY DEF Kept, Heeded, HsOK, Whole, TlsFields
  <2> HIDE DEF x
  <2>3. HsOK(x)
    BY <2>2, HeededKeeps DEF Kept, HsOK
  <2> QED BY <2>1, <2>2, <2>3 DEF Agrees, Kept, Heeded
<1>3. CASE ~(u.i < u.of)
  <2> DEFINE e == [t EXCEPT !.hsBuf = <<>>]
  <2>1. takeUnit(t, u) = processMessage(e, u.m)
    BY <1>1, <1>3 DEF takeUnit
  <2>2. Kept(e, t) /\ e.state = t.state /\ e.transcript = t.transcript
    BY DEF Kept, Heeded, HsOK, Whole, TlsFields
  <2> HIDE DEF e
  <2>3. HsOK(e) /\ e.peer = t.peer /\ e.pc = t.pc
    BY <2>2, HeededKeeps DEF Kept, HsOK, Heeded
  <2> DEFINE x == processMessage(e, u.m)
  <2>4. Failed(x) \/ Progress(x, e, u.m)
    BY <2>3, ProcessKeeps DEF UnitOK
  <2> HIDE DEF x
  <2>5. CASE Progress(x, e, u.m)
    <3>1. HsOK(x) /\ x.peer = t.peer /\ x.pc = t.pc
      BY <2>3, <2>5 DEF Progress
    <3>2. x.state = "ReceivedFinished" =>
            \/ t.state = "ReceivedFinished" /\ x.transcript = Append(t.transcript, Event(u.m))
            \/ Ends(u) /\ x.transcript = Append(u.m.over, Event(u.m))
      BY <1>3, <2>2, <2>5 DEF Progress, Ends
    <3>3. Agrees(x)
      BY <3>1, <3>2 DEF Agrees, UnitOK
    <3> QED BY <2>1, <3>1, <3>2, <3>3 DEF x
  <2> QED BY <2>1, <2>4, <2>5 DEF x
<1> QED BY <1>2, <1>3

LEMMA FeedKeeps ==
  ASSUME NEW t, HsOK(t), t.state # "ReceivedFinished", NEW units, HsUnits(units, t.peer)
  PROVE  LET x == feedHandshake(t, units)
         IN  Failed(x) \/ (HsOK(x) /\ Agrees(x) /\ x.peer = t.peer /\ x.pc = t.pc)
<1>0. Agrees(t)
  BY DEF Agrees
<1>1. CASE \E u : units = <<u>> /\ UnitOK(u, t.peer)
  <2>1. PICK u : units = <<u>> /\ UnitOK(u, t.peer)
    BY <1>1
  <2> DEFINE x == takeUnit(t, u)
  <2>2. Failed(x) \/ (HsOK(x) /\ Agrees(x) /\ x.peer = t.peer /\ x.pc = t.pc)
    BY <1>0, <2>1, UnitKeeps
  <2>3. Failed(feedHandshake(t, units)) \/ feedHandshake(t, units) = x
    <3>1. Len(units) = 1 /\ units[1] = u
      BY <2>1
    <3> QED BY <3>1, FeedUnits
  <2> HIDE DEF x
  <2> QED BY <2>2, <2>3
<1>2. CASE \E u, v : /\ units = <<u, v>> /\ UnitOK(u, t.peer) /\ UnitOK(v, t.peer)
                     /\ Ends(u) => Begins(Append(Append(u.m.over, Event(u.m)), Event(v.m)), t.peer.said)
  <2>1. PICK u, v : /\ units = <<u, v>> /\ UnitOK(u, t.peer) /\ UnitOK(v, t.peer)
                    /\ Ends(u) => Begins(Append(Append(u.m.over, Event(u.m)), Event(v.m)), t.peer.said)
    BY <1>2
  <2> DEFINE x == takeUnit(t, u)
             y == takeUnit(x, v)
  <2>2. \/ Failed(x)
        \/ /\ HsOK(x) /\ Agrees(x) /\ x.peer = t.peer /\ x.pc = t.pc
           /\ x.state = "ReceivedFinished" =>
                Ends(u) /\ x.transcript = Append(u.m.over, Event(u.m))
    BY <1>0, <2>1, UnitKeeps
  <2>3. Failed(feedHandshake(t, units)) \/ feedHandshake(t, units) = y
    <3>1. Len(units) = 2 /\ units[1] = u /\ units[2] = v
      BY <2>1
    <3> QED BY <3>1, FeedUnits
  <2> HIDE DEF x
  <2>4. CASE Failed(x)
    <3>0. y = x
      BY <2>4 DEF takeUnit
    <3>1. Failed(y)
      BY <2>4, <3>0
    <3> HIDE DEF y
    <3> QED BY <2>3, <3>1
  <2>5. CASE ~Failed(x)
    <3>1. HsOK(x) /\ Agrees(x) /\ UnitOK(v, x.peer) /\ x.peer = t.peer /\ x.pc = t.pc
      BY <2>1, <2>2, <2>5
    <3>2. x.state = "ReceivedFinished" => Begins(Append(x.transcript, Event(v.m)), x.peer.said)
      BY <2>1, <2>2, <2>5
    <3>3. Failed(y) \/ (HsOK(y) /\ Agrees(y) /\ y.peer = x.peer /\ y.pc = x.pc)
      BY <3>1, <3>2, UnitKeeps
    <3> HIDE DEF y
    <3> QED BY <2>3, <3>1, <3>3
  <2> QED BY <2>4, <2>5
<1> QED BY <1>1, <1>2 DEF HsUnits

\* What readRecord takes off the stash, and what it hands on.
LEMMA RecordTaken ==
  ASSUME NEW t, Whole(t), t.stash # <<>>
  PROVE  LET got == readRecord(t)
             r == Head(t.stash)
             s == [t EXCEPT !.stash = Tail(t.stash)]
             opened == [s EXCEPT !.readSeq = t.readSeq + 1]
         IN  /\ r \in Flying(t) /\ Drained(s, t) /\ Tally(s, t) /\ s.pc = t.pc
             /\ \/ got[1] = s /\ got[2] \in {"ccs", "error"}
                \/ /\ got[1] = s /\ got[2] = r.outer /\ got[3] = r.units /\ t.readKey = NoKey
                   /\ r.outer \notin {"ccs", "alert"}
                \/ /\ got[1] = opened /\ got[2] = r.inner /\ got[3] = r.units
                   /\ r.outer \notin {"ccs", "alert"} /\ openRecord(t, r)
<1> DEFINE r == Head(t.stash)
           s == [t EXCEPT !.stash = Tail(t.stash)]
           opened == [s EXCEPT !.readSeq = t.readSeq + 1]
           got == readRecord(t)
<1>1. r \in Range(t.stash) /\ IsSeq(Tail(t.stash)) /\ Range(Tail(t.stash)) \subseteq Range(t.stash)
  BY TakeHead DEF Whole
<1>2. /\ s = [f \in TlsFields |-> s[f]]
      /\ \A f \in TlsFields \ {"stash"} : s[f] = t[f]
      /\ s.stash = Tail(t.stash) /\ s.readSeq = t.readSeq
  BY DEF Whole, TlsFields
<1>3. got = IF r.outer = "ccs" THEN <<s, "ccs", <<>>>>
      ELSE IF r.outer = "alert" THEN <<s, "error", <<>>>>
      ELSE IF t.readKey = NoKey THEN <<s, r.outer, r.units>>
      ELSE IF ~openRecord(t, r) THEN <<s, "error", <<>>>>
      ELSE <<opened, r.inner, r.units>>
  BY <1>2 DEF readRecord
<1> HIDE DEF s, r, opened, got
<1>4. Whole(s)
  BY <1>1, <1>2 DEF Whole, TlsFields
<1>5. Drained(s, t) /\ Tally(s, t) /\ s.pc = t.pc /\ r \in Flying(t)
  BY <1>1, <1>2, <1>4 DEF Drained, Tally, TlsFields, Flying
<1>6. \A a, b, c : <<a, b, c>>[1] = a /\ <<a, b, c>>[2] = b /\ <<a, b, c>>[3] = c
  OBVIOUS
<1>7. \/ got[1] = s /\ got[2] \in {"ccs", "error"}
      \/ /\ got[1] = s /\ got[2] = r.outer /\ got[3] = r.units /\ t.readKey = NoKey
         /\ r.outer \notin {"ccs", "alert"}
      \/ /\ got[1] = opened /\ got[2] = r.inner /\ got[3] = r.units
         /\ r.outer \notin {"ccs", "alert"} /\ openRecord(t, r)
  <2>1. CASE r.outer = "ccs"
    BY <1>3, <1>6, <2>1
  <2>2. CASE r.outer = "alert"
    BY <1>3, <1>6, <2>2
  <2>3. CASE r.outer \notin {"ccs", "alert"} /\ t.readKey = NoKey
    BY <1>3, <1>6, <2>3
  <2>4. CASE r.outer \notin {"ccs", "alert"} /\ t.readKey # NoKey /\ ~openRecord(t, r)
    BY <1>3, <1>6, <2>4
  <2>5. CASE r.outer \notin {"ccs", "alert"} /\ t.readKey # NoKey /\ openRecord(t, r)
    BY <1>3, <1>6, <2>5
  <2> QED BY <2>1, <2>2, <2>3, <2>4, <2>5
<1> QED BY <1>5, <1>7 DEF s, r, opened, got

\* HsOK goes with what is taken in.
LEMMA HsDrained ==
  ASSUME NEW t, HsOK(t), NEW x, Drained(x, t), Tally(x, t)
  PROVE  HsOK(x)
BY DEF HsOK, Drained, Tally

LEMMA HsRecordTaken ==
  ASSUME NEW t, HsOK(t), t.stash # <<>>
  PROVE  LET got == readRecord(t)
         IN  /\ HsOK(got[1]) /\ got[1].pc = t.pc /\ got[1].peer = t.peer /\ got[1].state = t.state
             /\ got[2] \in {"ccs", "error"} \/ HsUnits(got[3], t.peer)
<1> DEFINE r == Head(t.stash)
           s == [t EXCEPT !.stash = Tail(t.stash)]
           opened == [s EXCEPT !.readSeq = t.readSeq + 1]
           got == readRecord(t)
<1>1. Whole(t)
  BY DEF HsOK
<1>2. /\ r \in Flying(t) /\ Drained(s, t) /\ Tally(s, t) /\ s.pc = t.pc
      /\ \/ got[1] = s /\ got[2] \in {"ccs", "error"}
         \/ /\ got[1] = s /\ got[2] = r.outer /\ got[3] = r.units /\ t.readKey = NoKey
            /\ r.outer \notin {"ccs", "alert"}
         \/ /\ got[1] = opened /\ got[2] = r.inner /\ got[3] = r.units
            /\ r.outer \notin {"ccs", "alert"} /\ openRecord(t, r)
  BY <1>1, RecordTaken
<1> HIDE DEF s, r, got
<1>3. HsOK(s) /\ s.state = t.state /\ s.peer = t.peer
  BY <1>2, HsDrained DEF Drained
<1>4. Kept(opened, s) /\ opened.state = s.state
  BY <1>3 DEF Kept, Heeded, HsOK, Whole, TlsFields
<1> HIDE DEF opened
<1>5. HsOK(opened)
  BY <1>3, <1>4, HeededKeeps DEF Kept, HsOK
<1>6. HsRecord(r, t.peer)
  BY <1>2 DEF HsOK
<1>7. /\ HsOK(got[1]) /\ got[1].pc = t.pc /\ got[1].peer = t.peer /\ got[1].state = t.state
      /\ got[2] \in {"ccs", "error"} \/ HsUnits(got[3], t.peer)
  BY <1>2, <1>3, <1>4, <1>5, <1>6 DEF Kept, Heeded, HsRecord
<1> QED BY <1>7 DEF got

-----------------------------------------------------------------------------
(* The TLS client: the connection that is up.                               *)

AppKey(said) == deriveSecret(deriveSecret("share", "derived", <<>>), "s ap", said)
AppSeq(p) == IF p.key = AppKey(p.said) THEN p.seq ELSE 0

\* F[n] is the number of bytes the peer sealed before record n.
RecordOK(r, p, F) ==
  r.key[1] = "s ap" =>
    /\ r.key = AppKey(p.said) /\ r.seq \in 0 .. AppSeq(p) - 1
    /\ r.units \in Seq(Nat) /\ F[r.seq + 1] = F[r.seq] + Len(r.units)
    /\ \A k \in 1 .. Len(r.units) : r.units[k] = F[r.seq] + k
    /\ r.inner # "app" => r.units = <<>>

InOrder(s, n) == s \in Seq(Nat) /\ \A i \in 1 .. Len(s) : s[i] = n + i

SealedOK(p, F) ==
  /\ AppSeq(p) \in Nat /\ p.app \in Nat
  /\ F[0] = 0 /\ F[AppSeq(p)] = p.app /\ \A n \in 0 .. AppSeq(p) : F[n] <= p.app

StreamOK(t, F) ==
  /\ t.readSeq \in 0 .. AppSeq(t.peer)
  /\ InOrder(t.delivered, 0) /\ InOrder(t.pending, Len(t.delivered))
  /\ F[t.readSeq] = Len(t.delivered) + Len(t.pending)

DataOK(t, F) ==
  SealedOK(t.peer, F) /\ StreamOK(t, F) /\ \A r \in Flying(t) : RecordOK(r, t.peer, F)

UpOK(t) ==
  /\ Whole(t) /\ NonceOK(t) /\ t.readKey[1] = "s ap"
  /\ \E F \in [Nat -> Nat] : DataOK(t, F)

AuthOK(t) ==
  t.state = "Connected" =>
    /\ t.leaf.key \in t.peer.srv.holds /\ Trusted(t.leaf, t.ints)
    /\ Begins(t.readKey[3], t.peer.said)

TlsOK(t) ==
  /\ ~t.reused /\ AuthOK(t) /\ InOrder(t.delivered, 0) /\ Len(t.delivered) <= t.peer.app
  /\ t.pc = "dial" =>
       /\ HsOK(t) /\ t.net = <<>> /\ t.stash = <<>> /\ t.peer.part = <<>> /\ t.writeKey = NoKey
       /\ t.state = "Idle"
  /\ t.pc = "handshake" => HsOK(t) /\ t.state # "ReceivedFinished"
  /\ t.pc \in {"open", "read"} => UpOK(t)

LEMMA OpenOK ==
  ASSUME NEW t, UpOK(t)
  PROVE  ~t.reused /\ InOrder(t.delivered, 0) /\ Len(t.delivered) <= t.peer.app
<1>1. PICK F \in [Nat -> Nat] : DataOK(t, F)
  BY DEF UpOK
<1>2. ~t.reused
  BY DEF UpOK, NonceOK
<1>3. InOrder(t.delivered, 0) /\ F[t.readSeq] = Len(t.delivered) + Len(t.pending)
      /\ t.readSeq \in 0 .. AppSeq(t.peer) /\ InOrder(t.pending, Len(t.delivered))
  BY <1>1 DEF DataOK, StreamOK
<1>4. F[t.readSeq] <= t.peer.app /\ t.peer.app \in Nat
  BY <1>1, <1>3 DEF DataOK, SealedOK
<1>5. Len(t.delivered) \in Nat /\ Len(t.pending) \in Nat
  BY <1>3, LenProperties DEF InOrder
<1>6. \A a, b, c \in Nat : a + b <= c => a <= c
  OBVIOUS
<1>7. Len(t.delivered) + Len(t.pending) <= t.peer.app
  BY <1>3, <1>4
<1>8. Len(t.delivered) <= t.peer.app
  BY <1>4, <1>5, <1>6, <1>7
<1> QED BY <1>2, <1>3, <1>8

LEMMA Nothing == InOrder(<<>>, 0) /\ Len(<<>>) = 0
BY DEF InOrder

\* A handshake that fails leaves nothing behind.
LEMMA FailedOK ==
  ASSUME NEW x, x.pc = "failed", ~x.reused, x.state # "Connected", x.delivered = <<>>, x.peer.app = 0
  PROVE  TlsOK(x)
BY Nothing DEF TlsOK, AuthOK

\* The sends of finishHandshake: everything is as before but the numbers used.
Sending(s, t) ==
  /\ Whole(s) /\ NonceOK(s) /\ Flying(s) \subseteq Flying(t) /\ s.pc \in {t.pc, "failed"}
  /\ s.state = t.state /\ s.writeKey = t.writeKey /\ s.leaf = t.leaf /\ s.ints = t.ints
  /\ s.pending = t.pending /\ s.delivered = t.delivered /\ s.peer = t.peer
  /\ \A u \in s.sealed : u[1] = t.writeKey

LEMMA SendSends ==
  ASSUME NEW t, NEW s, Sending(s, t), NEW x \in sendRecord(s), s.pc # "failed"
  PROVE  Sending(x, t)
<1>1. Drained(x, s) /\ NonceOK(x) /\ \A u \in x.sealed : u \in s.sealed \/ u[1] = s.writeKey
  BY SendKeeps DEF Sending
<1> QED BY <1>1 DEF Sending, Drained

LEMMA FinishKeeps ==
  ASSUME NEW t, HsOK(t), t.pc = "handshake", t.state = "ReceivedFinished", Agrees(t),
         NEW x \in finishHandshake(t)
  PROVE  TlsOK(x)
<1> DEFINE master == deriveSecret(t.secret, "derived", <<>>)
           thAP == t.transcript
           Mark(s) == [s EXCEPT !.transcript = Append(@, <<"Certificate", "empty">>)]
           certSent == IF t.pendingClientCert THEN {Mark(s) : s \in sendRecord(t)} ELSE {t}
           sent == UNION {IF s.pc = "failed" THEN {s} ELSE sendRecord(s) : s \in certSent}
           rk == deriveSecret(master, "s ap", thAP)
           wk == deriveSecret(master, "c ap", thAP)
           Up(s) == [s EXCEPT !.pc = "open", !.state = "Connected", !.readSeq = 0, !.writeSeq = 0,
                           !.transcript = Append(@, <<"Finished", "client">>),
                           !.readKey = rk, !.writeKey = wk]
<1>1. \/ x = [t EXCEPT !.pc = "failed"]
      \/ /\ validateChain(t.leaf, t.ints, defaultStore)
         /\ x \in {IF s.pc = "failed" THEN s ELSE Up(s) : s \in sent}
  BY DEF finishHandshake
<1>2. CASE x = [t EXCEPT !.pc = "failed"]
  <2>1. Drained(x, t) /\ Tally(x, t) /\ x.pc = "failed"
    BY <1>2, FailDrains DEF HsOK
  <2> QED BY <2>1, FailedOK DEF HsOK, Drained, Tally
<1>3. CASE /\ validateChain(t.leaf, t.ints, defaultStore)
           /\ x \in {IF s.pc = "failed" THEN s ELSE Up(s) : s \in sent}
  <2>1. Trusted(t.leaf, t.ints)
    BY <1>3, ChainTrusted
  <2>2. Sending(t, t)
    BY DEF Sending, HsOK, NonceOK
  <2>3. ASSUME NEW s \in sendRecord(t) PROVE Sending(Mark(s), t)
    <3>1. Sending(s, t)
      BY <2>2, SendSends
    <3> DEFINE e == Mark(s)
    <3>2. /\ e = [f \in TlsFields |-> e[f]]
          /\ \A f \in TlsFields \ {"transcript"} : e[f] = s[f]
      BY <3>1 DEF Sending, Whole, TlsFields
    <3> HIDE DEF e
    <3>3. Whole(e) /\ Flying(e) = Flying(s) /\ NonceOK(e)
      BY <3>1, <3>2 DEF Sending, Whole, TlsFields, Flying, NonceOK
    <3>4. Sending(e, t)
      BY <3>1, <3>2, <3>3 DEF Sending, TlsFields
    <3> QED BY <3>4 DEF e
  <2> HIDE DEF Mark
  <2>4. \A s \in certSent : Sending(s, t)
    BY <2>2, <2>3
  <2> HIDE DEF certSent
  <2>5. ASSUME NEW s \in sent PROVE Sending(s, t)
    <3>1. PICK c \in certSent : s \in IF c.pc = "failed" THEN {c} ELSE sendRecord(c)
      OBVIOUS
    <3>2. Sending(c, t)
      BY <2>4
    <3> QED BY <3>1, <3>2, SendSends
  <2> HIDE DEF sent
  <2>6. PICK s \in sent : x = IF s.pc = "failed" THEN s ELSE Up(s)
    BY <1>3
  <2>7. Sending(s, t)
    BY <2>5
  <2>8. CASE s.pc = "failed"
    BY <2>6, <2>7, <2>8, FailedOK DEF Sending, HsOK, NonceOK
  <2>9. CASE s.pc # "failed"
    <3>1. x = Up(s)
      BY <2>6, <2>9
    <3> HIDE DEF rk, wk
    <3>2. /\ x = [f \in TlsFields |-> x[f]]
          /\ \A f \in TlsFields \ {"pc", "state", "readSeq", "writeSeq", "transcript", "readKey", "writeKey"} :
               x[f] = s[f]
          /\ x.pc = "open" /\ x.state = "Connected" /\ x.readSeq = 0 /\ x.writeSeq = 0
          /\ x.readKey = rk /\ x.writeKey = wk
      BY <2>7, <3>1 DEF Sending, Whole, TlsFields
    <3> HIDE DEF Up
    <3>3. /\ x.leaf = t.leaf /\ x.ints = t.ints /\ x.peer = t.peer /\ x.pending = <<>> /\ x.delivered = <<>>
          /\ x.net = s.net /\ x.stash = s.stash /\ x.sealed = s.sealed /\ x.reused = s.reused
      <4>1. s.leaf = t.leaf /\ s.ints = t.ints /\ s.peer = t.peer /\ s.pending = t.pending
            /\ s.delivered = t.delivered
        BY <2>7 DEF Sending
      <4>2. t.pending = <<>> /\ t.delivered = <<>>
        BY DEF HsOK
      <4>3. /\ x.leaf = s.leaf /\ x.ints = s.ints /\ x.peer = s.peer /\ x.pending = s.pending
            /\ x.delivered = s.delivered
            /\ x.net = s.net /\ x.stash = s.stash /\ x.sealed = s.sealed /\ x.reused = s.reused
        BY <3>2 DEF TlsFields
      <4> QED BY <4>1, <4>2, <4>3
    <3>4. Whole(x) /\ Flying(x) \subseteq Flying(t)
      BY <2>7, <3>2, <3>3 DEF Sending, Whole, Flying
    <3>5. rk[1] = "s ap" /\ rk[3] = t.transcript /\ wk[1] = "c ap"
      BY DEF rk, wk, deriveSecret
    <3>6. NonceOK(x)
      <4>1. \A u \in x.sealed : u[1] # x.writeKey
        <5>1. \A u \in s.sealed : u[1] = t.writeKey
          BY <2>7 DEF Sending
        <5>2. t.writeKey # wk
          BY <3>5 DEF HsOK
        <5> QED BY <3>2, <3>3, <5>1, <5>2
      <4>2. ~x.reused /\ x.writeSeq \in Nat
        BY <2>7, <3>2, <3>3 DEF Sending, NonceOK
      <4> QED BY <4>1, <4>2 DEF NonceOK
    <3>7. AuthOK(x)
      BY <2>1, <3>2, <3>3, <3>5 DEF AuthOK, HsOK, Agrees
    <3>8. UpOK(x)
      <4> DEFINE F == [n \in Nat |-> 0]
      <4>1. F \in [Nat -> Nat] /\ \A n \in Nat : F[n] = 0
        OBVIOUS
      <4> HIDE DEF F
      <4>2. t.peer.key # AppKey(t.peer.said)
        <5>1. AppKey(t.peer.said)[1] = "s ap"
          BY DEF AppKey, deriveSecret
        <5> QED BY <5>1 DEF HsOK
      <4>3. AppSeq(x.peer) = 0 /\ x.peer.app = 0
        BY <3>3, <4>2 DEF AppSeq, HsOK
      <4>4. SealedOK(x.peer, F)
        BY <4>1, <4>3 DEF SealedOK
      <4>5. StreamOK(x, F)
        <5>1. x.readSeq = 0 /\ 0 \in 0 .. 0 /\ F[0] = 0 /\ 0 + 0 = 0
          BY <3>2, <4>1
        <5> QED BY <3>3, <4>3, <5>1, Nothing DEF StreamOK
      <4>6. \A r \in Flying(x) : RecordOK(r, x.peer, F)
        BY <3>4 DEF RecordOK, HsOK, HsRecord
      <4>7. DataOK(x, F)
        BY <4>4, <4>5, <4>6 DEF DataOK
      <4> QED BY <3>2, <3>4, <3>5, <3>6, <4>1, <4>7 DEF UpOK
    <3>9. x.pc # "dial" /\ x.pc # "handshake"
      BY <3>2
    <3> QED BY <3>7, <3>8, <3>9, OpenOK DEF TlsOK
  <2> QED BY <2>8, <2>9
<1> QED BY <1>1, <1>2, <1>3

\* What UpOK looks at is all there is to keep.
LEMMA UpSame ==
  ASSUME NEW t, UpOK(t), NEW x, Whole(x), NonceOK(x), Flying(x) \subseteq Flying(t),
         x.readKey = t.readKey, x.readSeq = t.readSeq, x.pending = t.pending,
         x.delivered = t.delivered, x.peer = t.peer
  PROVE  UpOK(x)
<1>1. PICK F \in [Nat -> Nat] : DataOK(t, F)
  BY DEF UpOK
<1>2. DataOK(x, F)
  BY <1>1 DEF DataOK, StreamOK
<1> QED BY <1>1, <1>2 DEF UpOK

LEMMA UpDrainedOK ==
  ASSUME NEW t, TlsOK(t), t.pc \in {"open", "read"}, NEW x, Drained(x, t), NonceOK(x)
  PROVE  TlsOK(x)
<1>1. UpOK(t)
  BY DEF TlsOK
<1>2. UpOK(x)
  BY <1>1, UpSame DEF Drained
<1>3. AuthOK(x)
  BY DEF TlsOK, AuthOK, Drained
<1>4. x.pc # "dial" /\ x.pc # "handshake"
  BY DEF Drained
<1> QED BY <1>2, <1>3, <1>4, OpenOK DEF TlsOK

LEMMA HsDrainedOK ==
  ASSUME NEW t, TlsOK(t), t.pc = "handshake", NEW x, Drained(x, t), Tally(x, t)
  PROVE  TlsOK(x)
<1>1. HsOK(t) /\ t.state # "ReceivedFinished"
  BY DEF TlsOK
<1>2. HsOK(x) /\ x.state # "ReceivedFinished"
  BY <1>1, HsDrained DEF Drained
<1>3. AuthOK(x)
  BY <1>2 DEF AuthOK, HsOK
<1>4. x.pc \in {"handshake", "failed"}
  BY DEF Drained
<1>5. ~x.reused /\ x.delivered = <<>> /\ x.peer.app = 0
  BY <1>2 DEF HsOK
<1> QED BY <1>2, <1>3, <1>4, <1>5, Nothing DEF TlsOK

LEMMA HsStands ==
  ASSUME NEW x, HsOK(x), x.pc = "handshake", x.state # "ReceivedFinished"
  PROVE  TlsOK(x)
<1>1. ~x.reused /\ x.delivered = <<>> /\ x.peer.app = 0 /\ x.state # "Connected"
  BY DEF HsOK
<1>2. AuthOK(x)
  BY <1>1 DEF AuthOK
<1>3. InOrder(x.delivered, 0) /\ Len(x.delivered) <= x.peer.app
  <2>1. 0 <= 0
    OBVIOUS
  <2> QED BY <1>1, <2>1, Nothing
<1> QED BY <1>1, <1>2, <1>3 DEF TlsOK

\* In both phases at once: nothing was sealed.
LEMMA DrainedOK ==
  ASSUME NEW t, TlsOK(t), t.pc \in {"handshake", "open", "read"}, NEW x, Drained(x, t), Tally(x, t)
  PROVE  TlsOK(x)
<1>1. CASE t.pc = "handshake"
  BY <1>1, HsDrainedOK
<1>2. CASE t.pc \in {"open", "read"}
  <2>1. NonceOK(t)
    BY <1>2 DEF TlsOK, UpOK
  <2>2. NonceOK(x)
    BY <2>1 DEF NonceOK, Drained, Tally
  <2> QED BY <1>2, <2>2, UpDrainedOK
<1> QED BY <1>1, <1>2

LEMMA WholeNow ==
  ASSUME NEW t, TlsOK(t), t.pc \in {"dial", "handshake", "open", "read"}
  PROVE  Whole(t)
BY DEF TlsOK, HsOK, UpOK

LEMMA PlainSend ==
  ASSUME NEW t, Whole(t), t.writeKey = NoKey, NEW x \in sendRecord(t)
  PROVE  Drained(x, t) /\ Tally(x, t)
<1>1. x \in {drainOnce(t), [t EXCEPT !.pc = "failed"]}
  BY DEF sendRecord
<1> QED BY <1>1, DrainOnce, FailDrains

LEMMA handshakeKeeps ==
  ASSUME TlsOK(tls), handshake
  PROVE  TlsOK(tls')
<1> DEFINE hello == <<<<"ClientHello", "ok">>>>
           e == [tls EXCEPT !.pc = "handshake", !.state = "SentClientHello",
                            !.transcript = hello, !.peer.said = hello]
<1>0. tls.pc = "dial" /\ tls' \in sendRecord(e)
  BY DEF handshake
<1>1. HsOK(tls) /\ tls.net = <<>> /\ tls.stash = <<>> /\ tls.peer.part = <<>> /\ tls.writeKey = NoKey
  BY <1>0 DEF TlsOK
<1>2. IsSeq(hello)
  BY OneIs
<1> HIDE DEF hello
<1>3. /\ e = [f \in TlsFields |-> e[f]]
      /\ \A f \in TlsFields \ {"pc", "state", "transcript", "peer"} : e[f] = tls[f]
      /\ e.pc = "handshake" /\ e.state = "SentClientHello"
      /\ e.peer = [tls.peer EXCEPT !.said = hello]
  BY <1>1 DEF HsOK, Whole, TlsFields
<1> HIDE DEF e
<1>4. /\ e.peer = [f \in PeerFields |-> e.peer[f]]
      /\ e.peer.said = hello /\ e.peer.part = <<>> /\ e.peer.app = 0 /\ e.peer.key = tls.peer.key
  BY <1>1, <1>3 DEF HsOK, Whole, PeerFields
<1>5. e.net = <<>> /\ e.stash = <<>> /\ e.writeKey = NoKey /\ e.sealed = {} /\ ~e.reused
      /\ e.writeSeq \in Nat /\ e.delivered = <<>> /\ e.pending = <<>>
  BY <1>1, <1>3 DEF TlsFields, HsOK
<1>6. Whole(e) /\ Flying(e) = {}
  BY <1>3, <1>4, <1>5, EmptyIs DEF Whole, Flying
<1>7. HsOK(e)
  <2>1. e.writeKey[1] # "c ap"
    BY <1>5 DEF NoKey
  <2>2. PartOK(e.peer)
    BY <1>4 DEF PartOK
  <2>3. e.peer.key[1] # "s ap"
    BY <1>1, <1>4 DEF HsOK
  <2> QED BY <1>2, <1>3, <1>4, <1>5, <1>6, <2>1, <2>2, <2>3 DEF HsOK
<1>8. Drained(tls', e) /\ Tally(tls', e)
  BY <1>0, <1>5, <1>6, PlainSend
<1>9. TlsOK(e)
  BY <1>3, <1>7, HsStands
<1> QED BY <1>3, <1>8, <1>9, HsDrainedOK

LEMMA pumpOnceKeeps ==
  ASSUME TlsOK(tls), pumpOnce
  PROVE  TlsOK(tls')
<1>1. Whole(tls) /\ tls.pc \in {"handshake", "open", "read"} /\ tls.stash = <<>>
  BY WholeNow DEF pumpOnce
<1>2. CASE tls' = [tls EXCEPT !.pc = "failed"]
  BY <1>1, <1>2, FailDrains, DrainedOK
<1>3. CASE tls.net # <<>> /\ tls' = [tls EXCEPT !.stash = <<Head(tls.net)>>, !.net = Tail(tls.net)]
  <2> DEFINE x == [tls EXCEPT !.stash = <<Head(tls.net)>>, !.net = Tail(tls.net)]
  <2>1. /\ x = [f \in TlsFields |-> x[f]]
        /\ \A f \in TlsFields \ {"stash", "net"} : x[f] = tls[f]
        /\ x.stash = <<Head(tls.net)>> /\ x.net = Tail(tls.net)
    BY <1>1 DEF Whole, TlsFields
  <2> HIDE DEF x
  <2>2. IsSeq(x.net) /\ Range(x.net) \subseteq Range(tls.net) /\ Head(tls.net) \in Range(tls.net)
    BY <1>1, <1>3, <2>1, TakeHead DEF Whole
  <2>3. IsSeq(x.stash) /\ Range(x.stash) = {Head(tls.net)}
    BY <2>1, OneIs
  <2>4. Whole(x) /\ Flying(x) \subseteq Flying(tls)
    BY <1>1, <2>1, <2>2, <2>3 DEF Whole, TlsFields, Flying
  <2>5. Drained(x, tls) /\ Tally(x, tls)
    BY <2>1, <2>4 DEF Drained, Tally, TlsFields
  <2> QED BY <1>1, <1>3, <2>5, DrainedOK DEF x
<1> QED BY <1>2, <1>3 DEF pumpOnce

LEMMA tlsWriteKeeps ==
  ASSUME TlsOK(tls), tlsWrite
  PROVE  TlsOK(tls')
<1> DEFINE e == [tls EXCEPT !.writes = @ + 1]
<1>1. tls.pc = "open" /\ tls' \in sendRecord(e)
  BY DEF tlsWrite
<1>2. Whole(tls) /\ NonceOK(tls)
  BY <1>1 DEF TlsOK, UpOK
<1>3. /\ e = [f \in TlsFields |-> e[f]]
      /\ \A f \in TlsFields \ {"writes"} : e[f] = tls[f]
  BY <1>2 DEF Whole, TlsFields
<1> HIDE DEF e
<1>4. Whole(e) /\ Flying(e) = Flying(tls) /\ NonceOK(e) /\ e.pc = "open"
  BY <1>1, <1>2, <1>3 DEF Whole, TlsFields, Flying, NonceOK
<1>5. Drained(e, tls)
  BY <1>3, <1>4 DEF Drained, TlsFields
<1>6. Drained(tls', e) /\ NonceOK(tls')
  BY <1>1, <1>4, SendKeeps
<1>7. Drained(tls', tls)
  BY <1>5, <1>6 DEF Drained
<1> QED BY <1>1, <1>6, <1>7, UpDrainedOK

LEMMA tlsReadCallKeeps ==
  ASSUME TlsOK(tls), tlsReadCall
  PROVE  TlsOK(tls')
<1> DEFINE e == [tls EXCEPT !.pc = "read"]
<1>1. tls.pc = "open" /\ tls' = e
  BY DEF tlsReadCall
<1>2. UpOK(tls) /\ Whole(tls) /\ NonceOK(tls)
  BY <1>1 DEF TlsOK, UpOK
<1>3. /\ e = [f \in TlsFields |-> e[f]]
      /\ \A f \in TlsFields \ {"pc"} : e[f] = tls[f]
      /\ e.pc = "read"
  BY <1>2 DEF Whole, TlsFields
<1> HIDE DEF e
<1>4. Whole(e) /\ Flying(e) = Flying(tls) /\ NonceOK(e)
  BY <1>2, <1>3 DEF Whole, TlsFields, Flying, NonceOK
<1>5. UpOK(e)
  BY <1>2, <1>3, <1>4, UpSame DEF TlsFields
<1>6. AuthOK(e)
  BY <1>3 DEF TlsOK, AuthOK, TlsFields
<1> QED BY <1>1, <1>3, <1>5, <1>6, OpenOK DEF TlsOK

LEMMA tlsCloseKeeps ==
  ASSUME TlsOK(tls), tlsClose
  PROVE  TlsOK(tls')
<1>1. tls.pc = "open"
  BY DEF tlsClose
<1>2. PICK s \in sendRecord(tls) : tls' = [s EXCEPT !.pc = "closed", !.state = "Closed"]
  BY DEF tlsClose
<1>3. Whole(tls) /\ NonceOK(tls)
  BY <1>1 DEF TlsOK, UpOK
<1>4. Drained(s, tls) /\ NonceOK(s)
  BY <1>3, SendKeeps
<1>5. tls'.pc = "closed" /\ tls'.state = "Closed" /\ tls'.reused = s.reused
      /\ tls'.delivered = s.delivered /\ tls'.peer = s.peer
  BY <1>2, <1>4 DEF Drained, Whole, TlsFields
<1>6. ~tls'.reused /\ tls'.delivered = tls.delivered /\ tls'.peer = tls.peer
  BY <1>4, <1>5 DEF Drained, NonceOK
<1> QED BY <1>5, <1>6 DEF TlsOK, AuthOK

LEMMA netFaultKeeps ==
  ASSUME TlsOK(tls), netFault
  PROVE  TlsOK(tls')
<1> DEFINE M(t) == [t |-> t, v |-> "", key |-> NoKey, over |-> <<>>, chain |-> <<>>]
           U(t) == [i |-> 1, of |-> 1, m |-> M(t)]
           T == {"CertificateRequest", "NewSessionTicket"}
           Forged == {Record("ccs", NoKey, 0, "", <<>>), Record("alert", NoKey, 0, "", <<>>)}
                     \cup {Record("handshake", NoKey, 0, "", <<U(t)>>) : t \in T}
<1>0. /\ \E r \in Forged : tls' = [tls EXCEPT !.faults = @ + 1, !.net = Append(tls.net, r)]
      /\ \A r \in Forged : r.key = NoKey /\ (r.outer \in {"ccs", "alert"} \/ \E t \in T : r.units = <<U(t)>>)
  <2>1. \E r \in Forged : tls' = [tls EXCEPT !.faults = @ + 1, !.net = Append(tls.net, r)]
    BY DEF netFault, Arrives
  <2>2. ASSUME NEW r \in Forged
        PROVE  r.key = NoKey /\ (r.outer \in {"ccs", "alert"} \/ \E t \in T : r.units = <<U(t)>>)
    <3> HIDE DEF U, T
    <3>1. CASE r = Record("ccs", NoKey, 0, "", <<>>) \/ r = Record("alert", NoKey, 0, "", <<>>)
      <4>1. \A o : /\ Record(o, NoKey, 0, "", <<>>).key = NoKey
                   /\ Record(o, NoKey, 0, "", <<>>).outer = o
        BY DEF Record
      <4>2. r.key = NoKey /\ (r.outer = "ccs" \/ r.outer = "alert")
        BY <3>1, <4>1
      <4> QED BY <4>2
    <3>2. CASE \E t \in T : r = Record("handshake", NoKey, 0, "", <<U(t)>>)
      <4>1. PICK t \in T : r = Record("handshake", NoKey, 0, "", <<U(t)>>)
        BY <3>2
      <4>2. r.key = NoKey /\ r.units = <<U(t)>>
        BY <4>1 DEF Record
      <4> QED BY <4>2
    <3> QED BY <3>1, <3>2
  <2> QED BY <2>1, <2>2
<1> HIDE DEF Forged
<1>1. PICK r \in Forged : tls' = [tls EXCEPT !.faults = @ + 1, !.net = Append(tls.net, r)]
  BY <1>0
<1>2. tls.pc \in {"handshake", "read"}
  BY DEF netFault
<1>3. Whole(tls)
  BY <1>2, WholeNow
<1>4. r.key = NoKey /\ (r.outer \in {"ccs", "alert"} \/ \E t \in T : r.units = <<U(t)>>)
  BY <1>0, <1>1
<1>5. r.key[1] # "s ap"
  <2>1. NoKey[1] # "s ap"
    BY DEF NoKey
  <2> QED BY <1>4, <2>1
<1>6. HsRecord(r, tls.peer)
  <2>1. ASSUME NEW t \in T PROVE UnitOK(U(t), tls.peer)
    <3>1. U(t).m.t = t
      OBVIOUS
    <3> HIDE DEF U
    <3> QED BY <3>1 DEF UnitOK, SignedOK, Ends
  <2> HIDE DEF U
  <2>2. r.outer \in {"ccs", "alert"} \/ HsUnits(r.units, tls.peer)
    BY <1>4, <2>1 DEF HsUnits
  <2> QED BY <1>5, <2>2 DEF HsRecord
<1> HIDE DEF M, U, T
<1>7. /\ tls' = [f \in TlsFields |-> tls'[f]]
      /\ \A f \in TlsFields \ {"faults", "net"} : tls'[f] = tls[f]
      /\ tls'.net = Append(tls.net, r)
  BY <1>1, <1>3 DEF Whole, TlsFields
<1>8. IsSeq(tls'.net) /\ Range(tls'.net) \subseteq Range(tls.net) \cup {r}
  <2>1. IsSeq(tls.net)
    BY <1>3 DEF Whole
  <2>2. IsSeq(Append(tls.net, r)) /\ Range(Append(tls.net, r)) \subseteq Range(tls.net) \cup {r}
    BY <2>1, PutLast
  <2> QED BY <1>7, <2>2
<1>9. Whole(tls') /\ Flying(tls') \subseteq Flying(tls) \cup {r}
  BY <1>3, <1>7, <1>8 DEF Whole, TlsFields, Flying
<1>10. CASE tls.pc = "handshake"
  <2>1. HsOK(tls) /\ tls.state # "ReceivedFinished"
    BY <1>10 DEF TlsOK
  <2>2. HsOK(tls')
    BY <1>6, <1>7, <1>9, <2>1 DEF HsOK, TlsFields
  <2>3. tls'.pc = "handshake" /\ tls'.state # "ReceivedFinished" /\ tls'.delivered = tls.delivered
        /\ tls'.peer = tls.peer
    BY <1>7, <1>10, <2>1 DEF TlsFields
  <2> QED BY <2>2, <2>3, HsStands
<1>11. CASE tls.pc = "read"
  <2>1. PICK F \in [Nat -> Nat] : DataOK(tls, F)
    BY <1>11 DEF TlsOK, UpOK
  <2>2. tls.readKey[1] = "s ap" /\ NonceOK(tls)
    BY <1>11 DEF TlsOK, UpOK
  <2>3. tls'.pc = "read" /\ tls'.readKey = tls.readKey /\ tls'.peer = tls.peer /\ tls'.state = tls.state
        /\ tls'.leaf = tls.leaf /\ tls'.ints = tls.ints /\ tls'.readSeq = tls.readSeq
        /\ tls'.delivered = tls.delivered /\ tls'.pending = tls.pending
        /\ tls'.writeKey = tls.writeKey /\ tls'.writeSeq = tls.writeSeq
        /\ tls'.sealed = tls.sealed /\ tls'.reused = tls.reused
    BY <1>7, <1>11 DEF TlsFields
  <2>4. RecordOK(r, tls.peer, F)
    BY <1>5 DEF RecordOK
  <2>5. DataOK(tls', F)
    BY <1>9, <2>1, <2>3, <2>4 DEF DataOK, StreamOK
  <2>6. NonceOK(tls')
    BY <2>2, <2>3 DEF NonceOK
  <2>7. UpOK(tls')
    BY <1>9, <2>1, <2>2, <2>3, <2>5, <2>6 DEF UpOK
  <2>8. AuthOK(tls')
    BY <2>3 DEF TlsOK, AuthOK
  <2> QED BY <2>3, <2>7, <2>8, OpenOK DEF TlsOK
<1> QED BY <1>2, <1>10, <1>11

LEMMA handshakeStepKeeps ==
  ASSUME TlsOK(tls), handshakeStep
  PROVE  TlsOK(tls')
<1> DEFINE got == readRecord(tls)
           fed == feedHandshake(got[1], got[3])
<1>1. tls.pc = "handshake" /\ tls.stash # <<>>
  BY DEF handshakeStep
<1>2. HsOK(tls) /\ tls.state # "ReceivedFinished"
  BY <1>1 DEF TlsOK
<1>3. /\ HsOK(got[1]) /\ got[1].pc = tls.pc /\ got[1].peer = tls.peer /\ got[1].state = tls.state
      /\ got[2] \in {"ccs", "error"} \/ HsUnits(got[3], tls.peer)
  BY <1>1, <1>2, HsRecordTaken
<1>4. IF got[2] = "ccs" THEN tls' = got[1]
      ELSE IF got[2] \in {"error", "alert"} \/ Failed(fed)
      THEN tls' = [got[1] EXCEPT !.pc = "failed"]
      ELSE IF fed.state = "ReceivedFinished" THEN tls' \in finishHandshake(fed)
      ELSE tls' = fed
  BY DEF handshakeStep
<1> HIDE DEF got
<1>5. ASSUME NEW x, HsOK(x), x.pc = "handshake", x.state # "ReceivedFinished" PROVE TlsOK(x)
  BY <1>5, HsStands
<1>6. CASE got[2] = "ccs"
  BY <1>1, <1>2, <1>3, <1>4, <1>5, <1>6
<1>7. CASE got[2] # "ccs" /\ (got[2] \in {"error", "alert"} \/ Failed(fed))
  <2>1. tls' = [got[1] EXCEPT !.pc = "failed"]
    BY <1>4, <1>7
  <2>2. Drained(tls', got[1]) /\ Tally(tls', got[1]) /\ tls'.pc = "failed"
    BY <1>3, <2>1, FailDrains DEF HsOK
  <2> QED BY <1>3, <2>2, FailedOK DEF HsOK, Drained, Tally
<1>8. CASE got[2] # "ccs" /\ ~(got[2] \in {"error", "alert"} \/ Failed(fed))
  <2>1. HsUnits(got[3], got[1].peer) /\ got[1].state # "ReceivedFinished"
    BY <1>2, <1>3, <1>8
  <2>2. HsOK(fed) /\ Agrees(fed) /\ fed.pc = "handshake"
    BY <1>1, <1>3, <1>8, <2>1, FeedKeeps
  <2> HIDE DEF fed
  <2>3. CASE fed.state = "ReceivedFinished"
    BY <1>4, <1>8, <2>2, <2>3, FinishKeeps
  <2>4. CASE fed.state # "ReceivedFinished"
    BY <1>4, <1>5, <1>8, <2>2, <2>4
  <2> QED BY <2>3, <2>4
<1> QED BY <1>6, <1>7, <1>8

LEMMA SplitOrder ==
  ASSUME NEW d, NEW b, InOrder(d, 0), InOrder(b, Len(d)), NEW take \in 0 .. Len(b)
  PROVE  LET e == d \o SubSeq(b, 1, take)
             c == SubSeq(b, take + 1, Len(b))
         IN  InOrder(e, 0) /\ InOrder(c, Len(e)) /\ Len(e) + Len(c) = Len(d) + Len(b)
<1> DEFINE a == SubSeq(b, 1, take)
           c == SubSeq(b, take + 1, Len(b))
           e == d \o a
<1>1. PICK N \in Nat, M \in Nat : N = Len(d) /\ M = Len(b)
  BY LenProperties DEF InOrder
<1>2. take \in Nat /\ take <= M /\ take + 1 \in Int /\ M \in Int /\ 1 \in Int
  BY <1>1
<1>3. d \in Seq(Nat) /\ (\A i \in 1 .. N : d[i] = i) /\ (\A i \in 1 .. M : b[i] = N + i)
  <2>1. d \in Seq(Nat) /\ (\A i \in 1 .. N : d[i] = 0 + i) /\ (\A i \in 1 .. M : b[i] = N + i)
    BY <1>1 DEF InOrder
  <2> QED BY <2>1
<1>4. \A i \in 1 .. M : b[i] \in Nat
  BY <1>3
<1>5. a \in Seq(Nat) /\ Len(a) = take /\ \A i \in 1 .. take : a[i] = N + i
  <2>1. \A i \in 1 .. take : b[i] \in Nat
    BY <1>2, <1>4
  <2>2. a \in Seq(Nat) /\ (Len(a) = IF 1 <= take THEN take - 1 + 1 ELSE 0)
        /\ \A i \in 1 .. take - 1 + 1 : a[i] = b[1 + i - 1]
    BY <1>2, <2>1, SubSeqProperties
  <2> HIDE DEF a
  <2>3. \A i \in 1 .. take : 1 + i - 1 = i /\ i \in 1 .. take - 1 + 1 /\ i \in 1 .. M
    BY <1>2
  <2> QED BY <1>2, <1>3, <2>2, <2>3
<1>6. c \in Seq(Nat) /\ Len(c) = M - take /\ \A i \in 1 .. M - take : c[i] = N + take + i
  <2>1. \A i \in take + 1 .. M : b[i] \in Nat
    BY <1>2, <1>4
  <2>2. c \in Seq(Nat) /\ (Len(c) = IF take + 1 <= M THEN M - (take + 1) + 1 ELSE 0)
        /\ \A i \in 1 .. M - (take + 1) + 1 : c[i] = b[(take + 1) + i - 1]
    BY <1>1, <1>2, <2>1, SubSeqProperties
  <2> HIDE DEF c
  <2>3. \A i \in 1 .. M - take : (take + 1) + i - 1 = take + i /\ take + i \in 1 .. M
                                 /\ i \in 1 .. M - (take + 1) + 1 /\ N + (take + i) = N + take + i
    BY <1>1, <1>2
  <2>4. Len(c) = M - take
    BY <1>1, <1>2, <2>2
  <2> QED BY <1>3, <2>2, <2>3, <2>4
<1> HIDE DEF a, c
<1>7. e \in Seq(Nat) /\ Len(e) = N + take
      /\ \A i \in 1 .. N + take : e[i] = IF i <= N THEN d[i] ELSE a[i - N]
  BY <1>1, <1>3, <1>5, ConcatProperties
<1> HIDE DEF e
<1>8. \A i \in 1 .. N + take : e[i] = 0 + i
  <2>1. ASSUME NEW i \in 1 .. N + take PROVE e[i] = 0 + i
    <3>1. CASE i <= N
      <4>1. i \in 1 .. N
        BY <3>1
      <4>2. e[i] = d[i] /\ d[i] = i /\ 0 + i = i
        BY <1>3, <1>7, <3>1, <4>1
      <4> QED BY <4>2
    <3>2. CASE ~(i <= N)
      <4>1. i - N \in 1 .. take /\ N + (i - N) = i
        BY <1>1, <1>2, <3>2
      <4> QED BY <1>5, <1>7, <3>2, <4>1
    <3> QED BY <3>1, <3>2
  <2> QED BY <2>1
<1>9. InOrder(e, 0)
  BY <1>7, <1>8 DEF InOrder
<1>10. InOrder(c, Len(e))
  BY <1>6, <1>7 DEF InOrder
<1>11. Len(e) + Len(c) = Len(d) + Len(b)
  BY <1>1, <1>2, <1>6, <1>7
<1> QED BY <1>9, <1>10, <1>11 DEF e, a, c

LEMMA Smaller ==
  ASSUME NEW n \in Nat, NEW k \in Nat
  PROVE  (IF n < k THEN n ELSE k) \in 0 .. n
OBVIOUS

\* A connection that is up but for the bytes a record has just brought.
LEMMA DeliverKeeps ==
  ASSUME NEW t, Whole(t), NonceOK(t), t.readKey[1] = "s ap", AuthOK(t),
         NEW F \in [Nat -> Nat], SealedOK(t.peer, F), \A r \in Flying(t) : RecordOK(r, t.peer, F),
         t.readSeq \in 0 .. AppSeq(t.peer), NEW bytes, InOrder(t.delivered, 0),
         InOrder(bytes, Len(t.delivered)), F[t.readSeq] = Len(t.delivered) + Len(bytes),
         NEW size \in {1, 2}
  PROVE  TlsOK(deliver(t, bytes, size))
<1> DEFINE take == IF Len(bytes) < size THEN Len(bytes) ELSE size
           e == t.delivered \o SubSeq(bytes, 1, take)
           c == SubSeq(bytes, take + 1, Len(bytes))
           x == [t EXCEPT !.pc = "open", !.delivered = e, !.pending = c]
<1>1. deliver(t, bytes, size) = x
  BY DEF deliver
<1>2. take \in 0 .. Len(bytes)
  <2>1. Len(bytes) \in Nat
    BY LenProperties DEF InOrder
  <2>2. size \in Nat
    OBVIOUS
  <2> QED BY ONLY <2>1, <2>2, Smaller
<1> HIDE DEF take
<1>3. InOrder(e, 0) /\ InOrder(c, Len(e)) /\ Len(e) + Len(c) = Len(t.delivered) + Len(bytes)
  BY <1>2, SplitOrder
<1> HIDE DEF e, c
<1>4. /\ x = [f \in TlsFields |-> x[f]]
      /\ \A f \in TlsFields \ {"pc", "delivered", "pending"} : x[f] = t[f]
      /\ x.pc = "open" /\ x.delivered = e /\ x.pending = c
  BY DEF Whole, TlsFields
<1> HIDE DEF x
<1>5. /\ x.net = t.net /\ x.stash = t.stash /\ x.peer = t.peer /\ x.readSeq = t.readSeq
      /\ x.readKey = t.readKey /\ x.writeKey = t.writeKey /\ x.writeSeq = t.writeSeq
      /\ x.sealed = t.sealed /\ x.reused = t.reused
      /\ x.state = t.state /\ x.leaf = t.leaf /\ x.ints = t.ints
  BY <1>4 DEF TlsFields
<1>6. Whole(x) /\ Flying(x) = Flying(t) /\ NonceOK(x) /\ AuthOK(x)
  BY <1>4, <1>5 DEF Whole, Flying, NonceOK, AuthOK
<1>7. DataOK(x, F)
  BY <1>3, <1>4, <1>5, <1>6 DEF DataOK, StreamOK
<1>8. UpOK(x)
  BY <1>5, <1>6, <1>7 DEF UpOK
<1>9. TlsOK(x)
  BY <1>4, <1>6, <1>8, OpenOK DEF TlsOK
<1> QED BY <1>1, <1>9

LEMMA tlsReadKeeps ==
  ASSUME TlsOK(tls), NEW size \in {1, 2}, tlsRead(size)
  PROVE  TlsOK(tls')
<1>1. tls.pc = "read"
  BY DEF tlsRead
<1>2. UpOK(tls) /\ Whole(tls) /\ NonceOK(tls) /\ tls.readKey[1] = "s ap" /\ AuthOK(tls)
  BY <1>1 DEF TlsOK, UpOK
<1>3. PICK F \in [Nat -> Nat] : DataOK(tls, F)
  BY <1>2 DEF UpOK
<1>4. CASE tls.pending # <<>> /\ tls' = deliver(tls, tls.pending, size)
  BY <1>2, <1>3, <1>4, DeliverKeeps DEF DataOK, StreamOK
<1>5. CASE tls.pending = <<>> /\ tls.stash # <<>>
  <2> DEFINE r == Head(tls.stash)
             s == [tls EXCEPT !.stash = Tail(tls.stash)]
             opened == [s EXCEPT !.readSeq = tls.readSeq + 1]
             got == readRecord(tls)
  <2>1. /\ r \in Flying(tls) /\ Drained(s, tls) /\ Tally(s, tls) /\ s.pc = tls.pc
        /\ \/ got[1] = s /\ got[2] \in {"ccs", "error"}
           \/ /\ got[1] = s /\ got[2] = r.outer /\ got[3] = r.units /\ tls.readKey = NoKey
              /\ r.outer \notin {"ccs", "alert"}
           \/ /\ got[1] = opened /\ got[2] = r.inner /\ got[3] = r.units
              /\ r.outer \notin {"ccs", "alert"} /\ openRecord(tls, r)
    BY <1>2, <1>5, RecordTaken
  <2>2. tls' = CASE got[2] \in {"ccs", "handshake"} -> got[1]
                 [] got[2] = "app" -> deliver(got[1], got[3], size)
                 [] OTHER -> [got[1] EXCEPT !.pc = "failed"]
    BY <1>5 DEF tlsRead
  <2> HIDE DEF s, r, got
  <2>3. TlsOK(s) /\ s.pc = "read" /\ Whole(s)
    BY <1>1, <2>1, DrainedOK DEF Drained
  <2>4. CASE got[1] = s /\ got[2] \in {"ccs", "error"}
    <3>1. CASE got[2] = "ccs"
      BY <2>2, <2>3, <2>4, <3>1
    <3>2. CASE got[2] = "error"
      <4>1. tls' = [s EXCEPT !.pc = "failed"]
        BY <2>2, <2>4, <3>2
      <4> QED BY <2>3, <4>1, FailDrains, DrainedOK
    <3> QED BY <2>4, <3>1, <3>2
  <2>5. tls.readKey # NoKey
    <3>1. NoKey[1] # "s ap"
      BY DEF NoKey
    <3> QED BY <1>2, <3>1
  <2>6. CASE /\ got[1] = opened /\ got[2] = r.inner /\ got[3] = r.units
             /\ r.outer \notin {"ccs", "alert"} /\ openRecord(tls, r)
    <3>1. /\ opened = [f \in TlsFields |-> opened[f]]
          /\ \A f \in TlsFields \ {"readSeq"} : opened[f] = s[f]
          /\ opened.readSeq = tls.readSeq + 1
      BY <2>3 DEF Whole, TlsFields
    <3> HIDE DEF opened
    <3>2. /\ opened.net = s.net /\ opened.stash = s.stash /\ opened.peer = s.peer
          /\ opened.readKey = s.readKey /\ opened.writeKey = s.writeKey /\ opened.writeSeq = s.writeSeq
          /\ opened.sealed = s.sealed /\ opened.reused = s.reused /\ opened.pc = s.pc
          /\ opened.state = s.state /\ opened.leaf = s.leaf /\ opened.ints = s.ints
          /\ opened.delivered = s.delivered /\ opened.pending = s.pending
      BY <3>1 DEF TlsFields
    <3>3. Whole(opened) /\ Flying(opened) = Flying(s) /\ NonceOK(opened) /\ AuthOK(opened)
      <4>1. NonceOK(s) /\ AuthOK(s)
        BY <2>3 DEF TlsOK, UpOK
      <4> QED BY <2>3, <3>1, <3>2, <4>1 DEF Whole, Flying, NonceOK, AuthOK
    <3>4. /\ opened.peer = tls.peer /\ opened.readKey[1] = "s ap" /\ opened.delivered = tls.delivered
          /\ opened.pending = <<>> /\ Flying(opened) \subseteq Flying(tls)
      BY <1>2, <1>5, <2>1, <3>2, <3>3 DEF Drained
    <3>5. r.key[1] = "s ap" /\ r.seq = tls.readSeq
      BY <1>2, <2>6 DEF openRecord
    <3>6. /\ tls.readSeq \in 0 .. AppSeq(tls.peer) - 1
          /\ r.units \in Seq(Nat) /\ F[tls.readSeq + 1] = F[tls.readSeq] + Len(r.units)
          /\ \A k \in 1 .. Len(r.units) : r.units[k] = F[tls.readSeq] + k
          /\ r.inner # "app" => r.units = <<>>
      <4>1. RecordOK(r, tls.peer, F)
        BY <1>3, <2>1 DEF DataOK
      <4> QED BY <3>5, <4>1 DEF RecordOK
    <3>7. SealedOK(tls.peer, F) /\ StreamOK(tls, F)
      BY <1>3 DEF DataOK
    <3>8. F[tls.readSeq] = Len(tls.delivered) /\ Len(tls.delivered) \in Nat /\ InOrder(tls.delivered, 0)
      <4>1. F[tls.readSeq] = Len(tls.delivered) + Len(tls.pending) /\ InOrder(tls.delivered, 0)
        BY <3>7 DEF StreamOK
      <4>2. Len(tls.delivered) \in Nat
        BY <4>1, LenProperties DEF InOrder
      <4>3. Len(tls.pending) = 0
        BY <1>5
      <4> QED BY <4>1, <4>2, <4>3
    <3>9. tls.readSeq + 1 \in 0 .. AppSeq(tls.peer)
      <4>1. AppSeq(tls.peer) \in Nat
        BY <3>7 DEF SealedOK
      <4>2. \A a \in Nat : \A k \in 0 .. a - 1 : k + 1 \in 0 .. a
        OBVIOUS
      <4> QED BY <3>6, <4>1, <4>2
    <3>10. InOrder(r.units, Len(opened.delivered))
           /\ F[opened.readSeq] = Len(opened.delivered) + Len(r.units)
      BY <3>1, <3>4, <3>6, <3>8 DEF InOrder
    <3>11. \A q \in Flying(opened) : RecordOK(q, opened.peer, F)
      BY <1>3, <3>4 DEF DataOK
    <3>12. ASSUME r.inner # "app" PROVE TlsOK(opened)
      <4>1. r.units = <<>> /\ Len(r.units) = 0
        BY <3>6, <3>12
      <4>2. InOrder(opened.pending, Len(opened.delivered)) /\ Len(opened.pending) = 0
        BY <3>4, <3>10, <4>1
      <4>3. F[opened.readSeq] = Len(opened.delivered) + Len(opened.pending)
        BY <3>10, <4>1, <4>2
      <4>4. StreamOK(opened, F)
        BY <3>1, <3>4, <3>8, <3>9, <4>2, <4>3 DEF StreamOK
      <4>5. DataOK(opened, F)
        BY <3>4, <3>7, <3>11, <4>4 DEF DataOK
      <4>6. UpOK(opened)
        BY <3>3, <3>4, <4>5 DEF UpOK
      <4>7. opened.pc = "read"
        BY <2>3, <3>2
      <4> QED BY <3>3, <4>6, <4>7, OpenOK DEF TlsOK
    <3>13. CASE r.inner = "app"
      <4>1. tls' = deliver(opened, r.units, size)
        BY <2>2, <2>6, <3>13
      <4>2. opened.readSeq \in 0 .. AppSeq(opened.peer) /\ SealedOK(opened.peer, F)
            /\ InOrder(opened.delivered, 0)
        BY <3>1, <3>4, <3>7, <3>8, <3>9
      <4>3. TlsOK(deliver(opened, r.units, size))
        BY <3>3, <3>4, <3>10, <3>11, <4>2, DeliverKeeps
      <4> QED BY <4>1, <4>3
    <3>14. CASE r.inner \in {"ccs", "handshake"}
      <4>1. tls' = opened
        BY <2>2, <2>6, <3>14
      <4>2. r.inner # "app"
        BY <3>14
      <4> QED BY <3>12, <4>1, <4>2
    <3>15. CASE r.inner \notin {"ccs", "handshake", "app"}
      <4>1. tls' = [opened EXCEPT !.pc = "failed"]
        BY <2>2, <2>6, <3>15
      <4>2. TlsOK(opened) /\ opened.pc \in {"open", "read"}
        BY <2>3, <3>2, <3>12, <3>15
      <4>3. Drained(tls', opened) /\ Tally(tls', opened)
        BY <3>3, <4>1, FailDrains
      <4> QED BY <4>2, <4>3, DrainedOK
    <3> QED BY <3>13, <3>14, <3>15
  <2> QED BY <2>1, <2>4, <2>5, <2>6
<1> QED BY <1>4, <1>5 DEF tlsRead

LEMMA ListIs == ASSUME NEW S, NEW n \in Nat, NEW f \in [1 .. n -> S] PROVE f \in Seq(S)
  BY SeqDef

LEMMA PairIs == ASSUME NEW u, NEW v PROVE Append(<<u>>, v) = <<u, v>>
<1> DEFINE S == {u, v}
           a == Append(<<u>>, v)
           b == <<u, v>>
<1>1. <<u>> \in Seq(S) /\ v \in S /\ Len(<<u>>) = 1 /\ <<u>>[1] = u
  OBVIOUS
<1>2. b \in Seq(S) /\ Len(b) = 2 /\ b[1] = u /\ b[2] = v
  OBVIOUS
<1>3. a \in Seq(S) /\ Len(a) = 1 + 1 /\ (\A i \in 1 .. 1 : a[i] = <<u>>[i]) /\ a[1 + 1] = v
  BY <1>1, AppendProperties
<1> HIDE DEF a, b, S
<1>4. Len(a) = 2 /\ a[1] = u /\ a[2] = v
  BY <1>1, <1>3
<1>5. \A i \in 1 .. 2 : i = 1 \/ i = 2
  OBVIOUS
<1>6. a = b
  BY <1>2, <1>3, <1>4, <1>5, SeqEqual
<1> QED BY <1>6 DEF a, b

LEMMA Numbers ==
  ASSUME NEW a \in Nat, NEW k \in 0 .. a - 1
  PROVE  k \in 0 .. a /\ k + 1 \in 0 .. a /\ k \in 0 .. (a + 1) - 1
OBVIOUS

\* The record that starts where the last one ended.
LEMMA peerDataKeeps ==
  ASSUME TlsOK(tls), peerData
  PROVE  TlsOK(tls')
<1> DEFINE p == tls.peer
           key == AppKey(p.said)
           seq == AppSeq(p)
<1>1. tls.pc \in {"open", "read"}
  BY DEF peerData
<1>2. PICK n \in 0 .. 2, inner \in {"app", "handshake", "alert"} :
        /\ (inner = "app") = (n > 0)
        /\ tls' = [tls EXCEPT
              !.net = Append(tls.net, Record("app", key, seq, inner, [i \in 1 .. n |-> p.app + i])),
              !.peer = [p EXCEPT !.key = key, !.seq = seq + 1, !.app = @ + n, !.sends = @ + 1]]
  BY DEF peerData, Arrives, AppKey, AppSeq
<1>3. UpOK(tls) /\ Whole(tls) /\ NonceOK(tls) /\ tls.readKey[1] = "s ap" /\ AuthOK(tls)
  BY <1>1 DEF TlsOK, UpOK
<1>4. PICK F \in [Nat -> Nat] : DataOK(tls, F)
  BY <1>3 DEF UpOK
<1>5. seq \in Nat /\ p.app \in Nat /\ F[0] = 0 /\ F[seq] = p.app /\ \A k \in 0 .. seq : F[k] <= p.app
  BY <1>4 DEF DataOK, SealedOK
<1>6. n \in Nat /\ p.app + n \in Nat /\ seq + 1 \in Nat /\ p.app <= p.app + n
  BY <1>5
<1> DEFINE units == [i \in 1 .. n |-> p.app + i]
           r == Record("app", key, seq, inner, units)
           q == [p EXCEPT !.key = key, !.seq = seq + 1, !.app = @ + n, !.sends = @ + 1]
           G == [F EXCEPT ![seq + 1] = p.app + n]
<1>7. units \in Seq(Nat) /\ Len(units) = n /\ (\A k \in 1 .. n : units[k] = p.app + k)
      /\ (inner # "app" => units = <<>>)
  <2>1. \A k \in 1 .. n : p.app + k \in Nat
    BY <1>5, <1>6
  <2>2. units \in [1 .. n -> Nat] /\ DOMAIN units = 1 .. n /\ \A k \in 1 .. n : units[k] = p.app + k
    BY <2>1
  <2> HIDE DEF units
  <2>3. units \in Seq(Nat)
    BY <1>6, <2>2, ListIs
  <2>4. Len(units) = n
    <3>1. Len(units) \in Nat /\ DOMAIN units = 1 .. Len(units)
      BY <2>3, LenProperties
    <3> QED BY <1>6, <2>2, <3>1
  <2>5. inner # "app" => n = 0
    BY <1>2, <1>6
  <2>6. n = 0 => units = <<>>
    BY <2>3, <2>4, EmptySeq
  <2> QED BY <2>2, <2>3, <2>4, <2>5, <2>6
<1>8. /\ r.key = key /\ r.seq = seq /\ r.inner = inner /\ r.units = units
  BY DEF Record
<1>9. /\ q = [f \in PeerFields |-> q[f]] /\ q.key = key /\ q.seq = seq + 1 /\ q.app = p.app + n
      /\ q.said = p.said /\ q.srv = p.srv
  BY <1>3 DEF Whole, PeerFields
<1>10. tls' = [tls EXCEPT !.net = Append(tls.net, r), !.peer = q]
  BY <1>2
<1>11. G \in [Nat -> Nat] /\ G[seq + 1] = p.app + n /\ \A k \in 0 .. seq : G[k] = F[k]
  <2>1. \A k \in 0 .. seq : k \in Nat /\ k # seq + 1
    BY <1>5
  <2> QED BY <1>6, <2>1
<1> HIDE DEF units, r, q, G, seq, key
<1>12. /\ tls' = [f \in TlsFields |-> tls'[f]]
       /\ \A f \in TlsFields \ {"net", "peer"} : tls'[f] = tls[f]
       /\ tls'.net = Append(tls.net, r) /\ tls'.peer = q
  BY <1>3, <1>10 DEF Whole, TlsFields
<1>13. IsSeq(tls'.net) /\ Range(tls'.net) \subseteq Range(tls.net) \cup {r}
  <2>1. IsSeq(tls.net)
    BY <1>3 DEF Whole
  <2>2. IsSeq(Append(tls.net, r)) /\ Range(Append(tls.net, r)) \subseteq Range(tls.net) \cup {r}
    BY <2>1, PutLast
  <2> QED BY <1>12, <2>2
<1>14. /\ tls'.stash = tls.stash /\ tls'.readSeq = tls.readSeq /\ tls'.delivered = tls.delivered
       /\ tls'.readKey = tls.readKey /\ tls'.writeKey = tls.writeKey /\ tls'.writeSeq = tls.writeSeq
       /\ tls'.sealed = tls.sealed /\ tls'.reused = tls.reused /\ tls'.pc = tls.pc
       /\ tls'.state = tls.state /\ tls'.leaf = tls.leaf /\ tls'.ints = tls.ints
       /\ tls'.pending = tls.pending
  BY <1>12 DEF TlsFields
<1>15. Whole(tls') /\ Flying(tls') \subseteq Flying(tls) \cup {r}
  BY <1>3, <1>9, <1>12, <1>13, <1>14 DEF Whole, Flying
<1>16. AppSeq(q) = seq + 1 /\ AppKey(q.said) = key
  BY <1>9 DEF AppSeq, key
<1>17. SealedOK(q, G)
  <2>1. ASSUME NEW k \in 0 .. seq + 1 PROVE G[k] <= p.app + n
    <3>1. CASE k = seq + 1
      <4>1. p.app + n <= p.app + n
        BY <1>6
      <4> QED BY <1>11, <3>1, <4>1
    <3>2. CASE k # seq + 1
      <4>1. k \in 0 .. seq /\ k \in Nat
        BY <1>5, <3>2
      <4>2. G[k] = F[k] /\ F[k] <= p.app /\ F[k] \in Nat
        BY <1>5, <1>11, <4>1
      <4> QED BY <1>5, <1>6, <4>2
    <3> QED BY <3>1, <3>2
  <2>2. 0 \in 0 .. seq
    BY <1>5
  <2> QED BY <1>5, <1>6, <1>9, <1>11, <1>16, <2>1, <2>2 DEF SealedOK
<1>18. StreamOK(tls', G)
  <2>1. tls.readSeq \in 0 .. seq
    BY <1>4 DEF DataOK, StreamOK, seq
  <2>2. tls.readSeq \in 0 .. seq + 1 /\ G[tls.readSeq] = F[tls.readSeq]
    BY <1>5, <1>11, <2>1
  <2>3. /\ InOrder(tls.delivered, 0) /\ InOrder(tls.pending, Len(tls.delivered))
        /\ F[tls.readSeq] = Len(tls.delivered) + Len(tls.pending)
    BY <1>4 DEF DataOK, StreamOK
  <2> QED BY <1>12, <1>14, <1>16, <2>2, <2>3 DEF StreamOK
<1>19. ASSUME NEW o \in Flying(tls') PROVE RecordOK(o, q, G)
  <2>1. CASE o = r
    <3>1. seq \in 0 .. (seq + 1) - 1 /\ seq \in 0 .. seq
      BY <1>5
    <3>2. G[seq] = p.app
      BY <1>5, <1>11, <3>1
    <3> QED BY <1>7, <1>8, <1>11, <1>16, <2>1, <3>1, <3>2 DEF RecordOK
  <2>2. CASE o \in Flying(tls) /\ o.key[1] = "s ap"
    <3>1. /\ o.key = key /\ o.seq \in 0 .. seq - 1
          /\ o.units \in Seq(Nat) /\ F[o.seq + 1] = F[o.seq] + Len(o.units)
          /\ \A k \in 1 .. Len(o.units) : o.units[k] = F[o.seq] + k
          /\ o.inner # "app" => o.units = <<>>
      BY <1>4, <2>2 DEF DataOK, RecordOK, key, seq
    <3>2. o.seq \in 0 .. seq /\ o.seq + 1 \in 0 .. seq /\ o.seq \in 0 .. (seq + 1) - 1
      BY <1>5, <3>1, Numbers
    <3>3. G[o.seq] = F[o.seq] /\ G[o.seq + 1] = F[o.seq + 1]
      BY <1>11, <3>2
    <3> QED BY <1>16, <3>1, <3>2, <3>3 DEF RecordOK
  <2>3. CASE o.key[1] # "s ap"
    BY <2>3 DEF RecordOK
  <2> QED BY <1>15, <2>1, <2>2, <2>3
<1>20. DataOK(tls', G)
  BY <1>12, <1>17, <1>18, <1>19 DEF DataOK
<1>21. NonceOK(tls') /\ AuthOK(tls')
  BY <1>3, <1>9, <1>12, <1>14 DEF NonceOK, AuthOK
<1>22. UpOK(tls')
  BY <1>3, <1>11, <1>14, <1>15, <1>20, <1>21 DEF UpOK
<1>23. tls'.pc # "dial" /\ tls'.pc # "handshake"
  BY <1>1, <1>14
<1> QED BY <1>21, <1>22, <1>23, OpenOK DEF TlsOK

-----------------------------------------------------------------------------
(* The TLS client: the peer shakes hands.                                   *)

LEMMA BeginsSelf == ASSUME NEW s, IsSeq(s) PROVE Begins(s, s)
<1>1. Len(s) \in Nat
  BY LenProperties DEF IsSeq
<1> QED BY <1>1 DEF Begins

LEMMA BeginsThrough ==
  ASSUME NEW a, NEW b, NEW c, Begins(a, b), Begins(b, c)
  PROVE  Begins(a, c)
<1>1. Len(a) \in Nat /\ Len(b) \in Nat /\ Len(c) \in Nat
  BY LenProperties DEF IsSeq, Begins
<1>2. Len(a) <= Len(b) /\ Len(b) <= Len(c)
  BY DEF Begins
<1>3. \A i \in 1 .. Len(a) : i \in 1 .. Len(b)
  BY <1>1, <1>2
<1>4. Len(a) <= Len(c)
  BY <1>1, <1>2
<1> QED BY <1>3, <1>4 DEF Begins

LEMMA BeginsLonger ==
  ASSUME NEW s, IsSeq(s), NEW e
  PROVE  Begins(s, Append(s, e))
<1>1. /\ IsSeq(Append(s, e)) /\ Len(Append(s, e)) = Len(s) + 1 /\ Len(s) \in Nat
      /\ \A i \in 1 .. Len(s) : Append(s, e)[i] = s[i]
  BY PutLast
<1>2. Len(s) <= Len(Append(s, e))
  BY <1>1
<1> QED BY <1>1, <1>2 DEF Begins

\* What holds of a record still holds when the peer has said more.
Further(p, q) == q.srv = p.srv /\ Begins(p.said, q.said)

LEMMA UnitFurther ==
  ASSUME NEW p, NEW q, Further(p, q), NEW u, UnitOK(u, p)
  PROVE  UnitOK(u, q)
BY BeginsThrough DEF UnitOK, SignedOK, Further

LEMMA RecordFurther ==
  ASSUME NEW p, NEW q, Further(p, q), NEW r, HsRecord(r, p)
  PROVE  HsRecord(r, q)
<1>1. ASSUME NEW units, HsUnits(units, p) PROVE HsUnits(units, q)
  <2>1. CASE \E u : units = <<u>> /\ UnitOK(u, p)
    BY <2>1, UnitFurther DEF HsUnits
  <2>2. CASE \E u, v : /\ units = <<u, v>> /\ UnitOK(u, p) /\ UnitOK(v, p)
                       /\ Ends(u) => Begins(Append(Append(u.m.over, Event(u.m)), Event(v.m)), p.said)
    <3>1. PICK u, v : /\ units = <<u, v>> /\ UnitOK(u, p) /\ UnitOK(v, p)
                      /\ Ends(u) => Begins(Append(Append(u.m.over, Event(u.m)), Event(v.m)), p.said)
      BY <2>2
    <3>2. UnitOK(u, q) /\ UnitOK(v, q)
      BY <3>1, UnitFurther
    <3>3. Ends(u) => Begins(Append(Append(u.m.over, Event(u.m)), Event(v.m)), q.said)
      BY <3>1, BeginsThrough DEF Further
    <3> QED BY <3>1, <3>2, <3>3 DEF HsUnits
  <2> QED BY <1>1, <2>1, <2>2 DEF HsUnits
<1> QED BY <1>1 DEF HsRecord

LEMMA MessageOK ==
  ASSUME NEW p, NEW m \in PeerMessages(p)
  PROVE  SignedOK(m, p) /\ (m.t = "Finished" => m.over = p.said)
<1> DEFINE M(t, v, key, over) ==
             [t |-> t, v |-> v, key |-> key, over |-> over,
              chain |-> IF t = "Certificate" THEN p.srv.chain ELSE <<>>]
<1>1. \A t, v, key, over : /\ M(t, v, key, over).t = t
                           /\ M(t, v, key, over).key = key /\ M(t, v, key, over).over = over
  OBVIOUS
<1>2. \/ \E v : m = M("ServerHello", v, NoKey, <<>>)
      \/ \E v : m = M("EncryptedExtensions", v, NoKey, <<>>)
      \/ \E k \in p.srv.holds : m = M("CertificateVerify", k, <<k>>, p.said)
      \/ m = M("Finished", "server", p.key, p.said)
      \/ \E t \in {"Certificate", "CertificateRequest", "NewSessionTicket", "KeyUpdate"} :
           m = M(t, "", NoKey, <<>>)
  BY DEF PeerMessages
<1> HIDE DEF M
<1>3. CASE \E k \in p.srv.holds : m = M("CertificateVerify", k, <<k>>, p.said)
  <2>1. PICK k \in p.srv.holds : m = M("CertificateVerify", k, <<k>>, p.said)
    BY <1>3
  <2>2. m.t = "CertificateVerify" /\ m.key = <<k>>
    BY <1>1, <2>1
  <2> QED BY <2>2 DEF SignedOK
<1>4. CASE m = M("Finished", "server", p.key, p.said)
  <2>1. m.t = "Finished" /\ m.over = p.said
    BY <1>1, <1>4
  <2> QED BY <2>1 DEF SignedOK
<1>5. CASE m.t \notin {"CertificateVerify", "Finished"}
  BY <1>5 DEF SignedOK
<1>6. m.t \in {"CertificateVerify", "Finished"} =>
        \/ \E k \in p.srv.holds : m = M("CertificateVerify", k, <<k>>, p.said)
        \/ m = M("Finished", "server", p.key, p.said)
  <2>1. ASSUME NEW t, NEW v, NEW over, m = M(t, v, NoKey, over) PROVE m.t = t
    BY <1>1, <2>1
  <2> QED BY <1>2, <2>1
<1> QED BY <1>3, <1>4, <1>5, <1>6

\* A peer of the handshake, and the peer once it has said m.
TalkerOK(p) ==
  /\ p = [f \in PeerFields |-> p[f]]
  /\ p.app = 0 /\ p.key[1] # "s ap" /\ IsSeq(p.said) /\ PartOK(p)

LEMMA SaidOK ==
  ASSUME NEW p, TalkerOK(p), NEW m
  PROVE  LET q == Said(p, m)
         IN  TalkerOK(q) /\ Further(p, q) /\ q.said = Append(p.said, Event(m))
<1> DEFINE said == Append(p.said, <<m.t, m.v>>)
           q == Said(p, m)
<1>1. said = Append(p.said, Event(m)) /\ IsSeq(said) /\ Begins(p.said, said)
  BY PutLast, BeginsLonger DEF TalkerOK, Event
<1>2. q = IF m.t = "ServerHello"
          THEN [p EXCEPT !.said = said, !.part = <<>>, !.seq = 0, !.key = deriveSecret(m.v, "s hs", said)]
          ELSE [p EXCEPT !.said = said, !.part = <<>>]
  BY DEF Said
<1>3. deriveSecret(m.v, "s hs", said)[1] # "s ap"
  BY DEF deriveSecret
<1> HIDE DEF said, q
<1>4. /\ q = [f \in PeerFields |-> q[f]] /\ q.said = said /\ q.part = <<>>
      /\ q.srv = p.srv /\ q.app = p.app /\ (q.key = p.key \/ q.key = deriveSecret(m.v, "s hs", said))
  BY <1>2 DEF TalkerOK, PeerFields
<1>5. TalkerOK(q)
  BY <1>1, <1>3, <1>4 DEF TalkerOK, PartOK
<1>6. Further(p, q) /\ q.said = Append(p.said, Event(m))
  BY <1>1, <1>4 DEF Further
<1> QED BY <1>5, <1>6 DEF q

LEMMA PeerSendsKeeps ==
  ASSUME TlsOK(tls), tls.pc = "handshake", NEW units, NEW q, TalkerOK(q), Further(tls.peer, q),
         HsUnits(units, q), NEW odd
  PROVE  TlsOK(PeerSends(tls.peer, units, q, odd))
<1> DEFINE p == tls.peer
           outer == IF p.key = NoKey THEN "handshake" ELSE "app"
           r == Record(outer, p.key, p.seq, "handshake", units)
           w == [q EXCEPT !.sends = @ + 1, !.seq = IF q.key = p.key THEN @ + 1 ELSE @]
           x == [tls EXCEPT !.faults = @ + odd, !.net = Append(tls.net, r), !.peer = w]
<1>1. PeerSends(p, units, q, odd) = x
  BY DEF PeerSends, Arrives
<1>2. HsOK(tls) /\ Whole(tls) /\ tls.state # "ReceivedFinished"
  BY DEF TlsOK, HsOK
<1>3. r.key = p.key /\ r.units = units
  BY DEF Record
<1>4. /\ w = [f \in PeerFields |-> w[f]] /\ w.said = q.said /\ w.srv = q.srv /\ w.app = q.app
      /\ w.part = q.part /\ w.key = q.key
  BY DEF TalkerOK, PeerFields
<1> HIDE DEF r, w, outer
<1>5. /\ x = [f \in TlsFields |-> x[f]]
      /\ \A f \in TlsFields \ {"faults", "net", "peer"} : x[f] = tls[f]
      /\ x.net = Append(tls.net, r) /\ x.peer = w
  BY <1>2 DEF Whole, TlsFields
<1> HIDE DEF x
<1>6. /\ x.stash = tls.stash /\ x.pc = "handshake" /\ x.state = tls.state /\ x.leaf = tls.leaf
      /\ x.sealed = tls.sealed /\ x.reused = tls.reused /\ x.writeSeq = tls.writeSeq
      /\ x.writeKey = tls.writeKey /\ x.delivered = tls.delivered /\ x.pending = tls.pending
  BY <1>5 DEF TlsFields
<1>7. IsSeq(x.net) /\ Range(x.net) \subseteq Range(tls.net) \cup {r}
  <2>1. IsSeq(tls.net)
    BY <1>2 DEF Whole
  <2>2. IsSeq(Append(tls.net, r)) /\ Range(Append(tls.net, r)) \subseteq Range(tls.net) \cup {r}
    BY <2>1, PutLast
  <2> QED BY <1>5, <2>2
<1>8. Whole(x) /\ Flying(x) \subseteq Flying(tls) \cup {r}
  BY <1>2, <1>4, <1>5, <1>6, <1>7 DEF Whole, Flying
<1>9. Further(q, w) /\ Further(p, w) /\ IsSeq(w.said)
  <2>1. Begins(q.said, q.said) /\ IsSeq(q.said)
    BY BeginsSelf DEF TalkerOK
  <2> QED BY <1>4, <2>1 DEF Further
<1>10. HsRecord(r, w)
  <2>1. HsRecord(r, q)
    BY <1>2, <1>3 DEF HsRecord, HsOK
  <2> QED BY <1>9, <2>1, RecordFurther
<1>11. \A o \in Flying(x) : HsRecord(o, w)
  <2>1. \A o \in Flying(tls) : HsRecord(o, p)
    BY <1>2 DEF HsOK
  <2>2. \A o \in Flying(tls) : HsRecord(o, w)
    BY <1>9, <2>1, RecordFurther
  <2> QED BY <1>8, <1>10, <2>2
<1>12. w.app = 0 /\ w.key[1] # "s ap" /\ PartOK(w)
  BY <1>4 DEF TalkerOK, PartOK, SignedOK
<1>13. w.srv = p.srv
  BY <1>9 DEF Further
<1>14. HsOK(x)
  BY <1>2, <1>5, <1>6, <1>8, <1>9, <1>11, <1>12, <1>13 DEF HsOK
<1>15. TlsOK(x)
  BY <1>2, <1>6, <1>14, HsStands
<1> QED BY <1>1, <1>15

LEMMA peerHandshakeKeeps ==
  ASSUME TlsOK(tls), peerHandshake
  PROVE  TlsOK(tls')
<1> DEFINE p == tls.peer
           unit(m, i, of) == [m |-> m, i |-> i, of |-> of]
<1>1. tls.pc = "handshake"
  BY DEF peerHandshake
<1>2. TalkerOK(p)
  BY <1>1 DEF TlsOK, HsOK, Whole, TalkerOK
<1>3. \A m, i, of : unit(m, i, of).m = m /\ unit(m, i, of).i = i /\ unit(m, i, of).of = of
  OBVIOUS
<1>4. IF p.part = <<>>
      THEN \E m \in PeerMessages(p) :
             \/ tls' = PeerSends(p, <<unit(m, 1, 1)>>, Said(p, m), OddOut(p, m))
             \/ tls' = PeerSends(p, <<unit(m, 1, 2)>>, [p EXCEPT !.part = <<m>>], 1 + OddOut(p, m))
      ELSE \/ tls' = PeerSends(p, <<unit(p.part[1], 2, 2)>>, Said(p, p.part[1]), 0)
           \/ \E m \in PeerMessages(Said(p, p.part[1])) :
                tls' = PeerSends(p, Append(<<unit(p.part[1], 2, 2)>>, unit(m, 1, 1)),
                                 Said(Said(p, p.part[1]), m), OddOut(Said(p, p.part[1]), m))
  BY DEF peerHandshake
<1> HIDE DEF unit
<1>5. ASSUME NEW m, SignedOK(m, p), m.t = "Finished" => m.over = p.said, NEW i, NEW of
      PROVE  UnitOK(unit(m, i, of), Said(p, m))
  <2>1. TalkerOK(Said(p, m)) /\ Further(p, Said(p, m)) /\ Said(p, m).said = Append(p.said, Event(m))
    BY <1>2, SaidOK
  <2>2. SignedOK(m, Said(p, m))
    BY <1>5, <2>1 DEF SignedOK, Further
  <2>3. Begins(Append(p.said, Event(m)), Said(p, m).said)
    BY <2>1, BeginsSelf DEF TalkerOK
  <2> QED BY <1>3, <1>5, <2>2, <2>3 DEF UnitOK, Ends
<1>6. CASE p.part = <<>>
  <2>1. PICK m \in PeerMessages(p) :
             \/ tls' = PeerSends(p, <<unit(m, 1, 1)>>, Said(p, m), OddOut(p, m))
             \/ tls' = PeerSends(p, <<unit(m, 1, 2)>>, [p EXCEPT !.part = <<m>>], 1 + OddOut(p, m))
    BY <1>4, <1>6
  <2>2. SignedOK(m, p) /\ (m.t = "Finished" => m.over = p.said)
    BY MessageOK
  <2>3. CASE tls' = PeerSends(p, <<unit(m, 1, 1)>>, Said(p, m), OddOut(p, m))
    <3>1. HsUnits(<<unit(m, 1, 1)>>, Said(p, m))
      BY <1>5, <2>2 DEF HsUnits
    <3>2. TalkerOK(Said(p, m)) /\ Further(p, Said(p, m))
      BY <1>2, SaidOK
    <3> QED BY <1>1, <2>3, <3>1, <3>2, PeerSendsKeeps
  <2>4. CASE tls' = PeerSends(p, <<unit(m, 1, 2)>>, [p EXCEPT !.part = <<m>>], 1 + OddOut(p, m))
    <3> DEFINE q == [p EXCEPT !.part = <<m>>]
    <3>1. /\ q = [f \in PeerFields |-> q[f]] /\ q.part = <<m>> /\ q.said = p.said /\ q.srv = p.srv
          /\ q.app = p.app /\ q.key = p.key
      BY <1>2 DEF TalkerOK, PeerFields
    <3> HIDE DEF q
    <3>2. TalkerOK(q)
      BY <1>2, <2>2, <3>1 DEF TalkerOK, PartOK, SignedOK
    <3>3. Further(p, q)
      BY <1>2, <3>1, BeginsSelf DEF TalkerOK, Further
    <3>4. UnitOK(unit(m, 1, 2), q)
      <4>1. ~Ends(unit(m, 1, 2))
        BY <1>3 DEF Ends
      <4> QED BY <1>3, <2>2, <3>1, <4>1 DEF UnitOK, SignedOK
    <3>5. HsUnits(<<unit(m, 1, 2)>>, q)
      BY <3>4 DEF HsUnits
    <3>6. tls' = PeerSends(p, <<unit(m, 1, 2)>>, q, 1 + OddOut(p, m))
      BY <2>4 DEF q
    <3> QED BY <1>1, <3>2, <3>3, <3>5, <3>6, PeerSendsKeeps
  <2> QED BY <2>1, <2>3, <2>4
<1>7. CASE p.part # <<>>
  <2>1. PICK m : p.part = <<m>> /\ SignedOK(m, p) /\ (m.t = "Finished" => m.over = p.said)
    BY <1>2, <1>7 DEF TalkerOK, PartOK
  <2> DEFINE q == Said(p, m)
             u == unit(m, 2, 2)
  <2>2. p.part[1] = m
    BY <2>1
  <2>3. TalkerOK(q) /\ Further(p, q) /\ q.said = Append(p.said, Event(m))
    BY <1>2, SaidOK
  <2>4. UnitOK(u, q) /\ u.m = m
    BY <1>3, <1>5, <2>1
  <2>5. \/ tls' = PeerSends(p, <<u>>, q, 0)
        \/ \E n \in PeerMessages(q) :
             tls' = PeerSends(p, Append(<<u>>, unit(n, 1, 1)), Said(q, n), OddOut(q, n))
    BY <1>4, <1>7, <2>2
  <2> HIDE DEF q, u
  <2>6. CASE tls' = PeerSends(p, <<u>>, q, 0)
    <3>1. HsUnits(<<u>>, q)
      BY <2>4 DEF HsUnits
    <3> QED BY <1>1, <2>3, <2>6, <3>1, PeerSendsKeeps
  <2>7. CASE \E n \in PeerMessages(q) :
             tls' = PeerSends(p, Append(<<u>>, unit(n, 1, 1)), Said(q, n), OddOut(q, n))
    <3>1. PICK n \in PeerMessages(q) :
             tls' = PeerSends(p, Append(<<u>>, unit(n, 1, 1)), Said(q, n), OddOut(q, n))
      BY <2>7
    <3> DEFINE v == unit(n, 1, 1)
               z == Said(q, n)
    <3>2. SignedOK(n, q) /\ (n.t = "Finished" => n.over = q.said)
      BY MessageOK
    <3>3. TalkerOK(z) /\ Further(q, z) /\ z.said = Append(q.said, Event(n))
      BY <2>3, SaidOK
    <3>4. v.m = n /\ Append(<<u>>, v) = <<u, v>>
      <4>1. v.m = n
        BY <1>3
      <4> HIDE DEF v, z
      <4>2. Append(<<u>>, v) = <<u, v>>
        BY PairIs
      <4> QED BY <4>1, <4>2
    <3> HIDE DEF v, z
    <3>5. UnitOK(u, z)
      BY <2>4, <3>3, UnitFurther
    <3>6. Begins(Append(q.said, Event(n)), z.said)
      BY <3>3, BeginsSelf DEF TalkerOK
    <3>7. UnitOK(v, z)
      <4>1. SignedOK(n, z)
        BY <3>2, <3>3 DEF SignedOK, Further
      <4> QED BY <3>2, <3>4, <3>6, <4>1 DEF UnitOK, Ends
    <3>8. Ends(u) => Begins(Append(Append(u.m.over, Event(u.m)), Event(v.m)), z.said)
      <4>1. Ends(u) => u.m.over = p.said
        BY <2>1, <2>4 DEF Ends
      <4> QED BY <2>3, <2>4, <3>4, <3>6, <4>1
    <3>9. HsUnits(<<u, v>>, z)
      BY <3>5, <3>7, <3>8 DEF HsUnits
    <3>10. Further(p, z)
      BY <2>3, <3>3, BeginsThrough DEF Further
    <3>11. tls' = PeerSends(p, <<u, v>>, z, OddOut(q, n))
      BY <3>1, <3>4 DEF v, z
    <3> QED BY <1>1, <3>3, <3>9, <3>10, <3>11, PeerSendsKeeps
  <2> QED BY <2>5, <2>6, <2>7
<1> QED BY <1>6, <1>7

-----------------------------------------------------------------------------
LEMMA newClientOK ==
  ASSUME NEW s
  PROVE  TlsOK(newClient(s))
<1> DEFINE t == newClient(s)
<1>1. /\ t = [f \in TlsFields |-> t[f]]
      /\ t.pc = "dial" /\ t.state = "Idle" /\ t.writeKey = NoKey /\ t.writeSeq = 0
      /\ t.sealed = {} /\ ~t.reused /\ t.delivered = <<>> /\ t.pending = <<>>
      /\ t.net = <<>> /\ t.stash = <<>>
      /\ t.peer = [srv |-> s, said |-> <<>>, part |-> <<>>, key |-> NoKey, seq |-> 0,
                   app |-> 0, sends |-> 0]
  BY DEF newClient, TlsFields
<1> HIDE DEF t
<1>2. /\ t.peer = [f \in PeerFields |-> t.peer[f]] /\ t.peer.said = <<>> /\ t.peer.part = <<>>
      /\ t.peer.key = NoKey /\ t.peer.app = 0
  BY <1>1 DEF PeerFields
<1>3. NoKey[1] # "s ap" /\ NoKey[1] # "c ap"
  BY DEF NoKey
<1>4. Whole(t) /\ Flying(t) = {} /\ IsSeq(t.peer.said)
  BY <1>1, <1>2, EmptyIs DEF Whole, Flying
<1>5. PartOK(t.peer) /\ 0 \in Nat /\ 0 <= 0
  BY <1>2 DEF PartOK
<1>6. HsOK(t)
  BY <1>1, <1>2, <1>3, <1>4, <1>5 DEF HsOK
<1>7. InOrder(t.delivered, 0) /\ Len(t.delivered) <= t.peer.app
  BY <1>1, <1>2, <1>5, Nothing
<1>8. AuthOK(t)
  BY <1>1 DEF AuthOK
<1>9. TlsOK(t)
  BY <1>1, <1>2, <1>6, <1>7, <1>8 DEF TlsOK
<1> QED BY <1>9 DEF t

LEMMA AuthenticNow ==
  ASSUME TlsOK(tls)
  PROVE  TlsAuthentic
<1>1. PeerAuthentic
  <2> SUFFICES ASSUME tls.state = "Connected" PROVE IsPrefix(tls.readKey[3], tls.peer.said)
    BY DEF PeerAuthentic, TlsOK, AuthOK
  <2> DEFINE a == tls.readKey[3]
             b == tls.peer.said
  <2>1. Begins(a, b)
    BY DEF TlsOK, AuthOK
  <2> HIDE DEF a, b
  <2>2. IsSeq(a) /\ IsSeq(b) /\ Len(a) <= Len(b) /\ \A i \in 1 .. Len(a) : a[i] = b[i]
    BY <2>1 DEF Begins
  <2>3. Len(a) \in Nat /\ Len(b) \in Nat /\ a \in Seq(Range(a)) /\ b \in Seq(Range(b))
    BY <2>2, LenProperties DEF IsSeq
  <2>4. SubSeq(a, 1, Len(a)) = SubSeq(b, 1, Len(a))
    BY <2>2, <2>3
  <2>5. IsPrefix(a, b)
    BY <2>2, <2>4 DEF IsPrefix
  <2> QED BY <2>5 DEF a, b
<1>2. DataInOrder
  <2>1. tls.delivered \in Seq(Nat) /\ \A i \in 1 .. Len(tls.delivered) : tls.delivered[i] = 0 + i
    BY DEF TlsOK, InOrder
  <2>2. DOMAIN tls.delivered = 1 .. Len(tls.delivered) /\ Len(tls.delivered) \in Nat
    BY <2>1, LenProperties
  <2>3. \A i \in DOMAIN tls.delivered : tls.delivered[i] = i
    <3>1. \A i \in 1 .. Len(tls.delivered) : 0 + i = i
      BY <2>2
    <3> QED BY <2>1, <2>2, <3>1
  <2> QED BY <2>3 DEF DataInOrder, TlsOK
<1>3. ~tls.reused
  BY DEF TlsOK
<1> QED BY <1>1, <1>2, <1>3 DEF TlsAuthentic

\* The TLS client passes application data only to and from a peer that holds
\* the key of a trusted certificate for the host and has seen the same
\* handshake; the bytes come out in order and once, and no sequence number is
\* used twice under one key: for every server, chain, trust store and bound
\* (client.go: handshake, processMessage, finishHandshake, Read, sendRecord).
THEOREM DataAuthentic == tlsSpec => []TlsAuthentic
<1>1. tlsInit => TlsOK(tls)
  BY newClientOK DEF tlsInit
<1>2. TlsOK(tls) /\ [tlsNext]_tls => TlsOK(tls)'
  <2> SUFFICES ASSUME TlsOK(tls), [tlsNext]_tls PROVE TlsOK(tls')
    OBVIOUS
  <2>1. CASE handshake BY <2>1, handshakeKeeps
  <2>2. CASE handshakeStep BY <2>2, handshakeStepKeeps
  <2>3. CASE pumpOnce BY <2>3, pumpOnceKeeps
  <2>4. CASE tlsWrite BY <2>4, tlsWriteKeeps
  <2>5. CASE tlsReadCall BY <2>5, tlsReadCallKeeps
  <2>6. CASE \E size \in {1, 2} : tlsRead(size) BY <2>6, tlsReadKeeps
  <2>7. CASE tlsClose BY <2>7, tlsCloseKeeps
  <2>8. CASE peerHandshake BY <2>8, peerHandshakeKeeps
  <2>9. CASE peerData BY <2>9, peerDataKeeps
  <2>10. CASE netFault BY <2>10, netFaultKeeps
  <2>11. CASE UNCHANGED tls BY <2>11
  <2> QED BY <2>1, <2>2, <2>3, <2>4, <2>5, <2>6, <2>7, <2>8, <2>9, <2>10, <2>11 DEF tlsNext
<1>3. TlsOK(tls) => TlsAuthentic
  BY AuthenticNow
<1> QED BY <1>1, <1>2, <1>3, PTL DEF tlsSpec
=============================================================================
