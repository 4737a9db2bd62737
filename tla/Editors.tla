------------------------------- MODULE Editors -------------------------------
(***************************************************************************)
(* GOEDIT.ELF (user/go/edit) and GONOTE.ELF (user/go/note), each the only  *)
(* program that writes its file.  A buffer is a sequence of bytes; the     *)
(* file is a set of at most one body.  A save is the crash-safe publish of *)
(* vi.WriteFileSafe, which may fail before or after it has deleted the old *)
(* file.  Only what a draw shows of the text is modelled: the lines in the *)
(* viewport and where the caret is among them.                             *)
(***************************************************************************)
EXTENDS Integers, Sequences, SequencesExt, FiniteSets, TLC

CONSTANTS
    DocBodies,      \* the files the editors are started on; {} is no file
    DocKeys,        \* the keys pressed: bytes typed and named keys
    maxBuffer,      \* bytes of the edit buffer, and of the note's (MaxBytes)
    barMax,         \* bytes of the find and goto bars
    gotoDigitsMax,  \* digits of a line number
    maxLines,       \* lines GOEDIT draws
    Heights,        \* heights, in rows, the window is resized to
    MaxDocKeys      \* bound: keys and window events of a behaviour

NUL == 0

LF == 10

CR == 13

Digits == 48 .. 57

\* Keys: the byte of a typed one; an arrow is 256 and its usage code, a letter
\* with Ctrl held 512 and the letter
BS == 8
ESC == 27
DEL == 127
Arrow == [right |-> 335, left |-> 336, down |-> 337, up |-> 338]
Ctrl == [f |-> 614, g |-> 615, s |-> 627]

VARIABLE doc

-----------------------------------------------------------------------------
(* Lines of a buffer: note/buffer.go and edit/main.go *)

Breaks(b) == {i \in DOMAIN b : b[i] = LF}

\* The line of an offset, and how many lines there are
LineAt(b, cur) == 1 + Cardinality({i \in Breaks(b) : i <= cur})

LineCount(b) == 1 + Cardinality(Breaks(b))

\* lineBounds: where line n starts and ends; past the last line, the end
lineBounds(b, n) ==
    LET ends == SetToSortSeq(Breaks(b) \cup {Len(b) + 1}, <) IN
    IF n > Len(ends) THEN <<Len(b), Len(b)>>
    ELSE <<IF n = 1 THEN 0 ELSE ends[n - 1], ends[n] - 1>>

ColAt(b, cur) == cur - lineBounds(b, LineAt(b, cur))[1]

\* Plausible mistake: the view follows one line late
follow_one_late(b, cur, top, rows) ==
    LET line == LineAt(b, cur) IN
    IF line < top THEN line ELSE IF line > top + rows THEN line - rows + 1 ELSE top

\* Follow: the first visible line that keeps the caret's line in view
Follow(b, cur, top, rows) ==
    LET line == LineAt(b, cur) IN
    IF line < top THEN line ELSE IF line >= top + rows THEN line - rows + 1 ELSE top

\* The rows View returns: the line of each, and the caret's column on its own
View(b, cur, top, rows) ==
    [i \in 1 .. LET n == LineCount(b) - top + 1 IN IF n < rows THEN n ELSE rows |->
        [line |-> top + i - 1,
         col |-> IF top + i - 1 = LineAt(b, cur) THEN ColAt(b, cur) ELSE -1]]

\* GOEDIT draws from the first line and does not scroll
editRows(b, cur) == View(b, cur, 1, maxLines)

-----------------------------------------------------------------------------
(* The file *)

\* Load: CRLF and a bare CR become LF, a NUL is dropped, the rest is cut
Loaded(body) ==
    LET kept == SelectSeq([i \in DOMAIN body |->
                   IF body[i] # CR THEN body[i]
                   ELSE IF i < Len(body) /\ body[i + 1] = LF THEN NUL ELSE LF],
                   LAMBDA c : c # NUL) IN
    SubSeq(kept, 1, IF Len(kept) < maxBuffer THEN Len(kept) ELSE maxBuffer)

\* vi.ReadFileAll: at most cap bytes
LoadWhole(body, cap) == SubSeq(body, 1, IF Len(body) < cap THEN Len(body) ELSE cap)

\* The end of a save: published; refused with the old file in place; or refused
\* after the old file was deleted
WriteResult(file, data) == {<<{data}, TRUE>>, <<file, FALSE>>, <<{}, FALSE>>}

\* editor.load and app.load: a refused read leaves an empty buffer.  whole: the
\* buffer stands for all of the file.
loadEdit(file, ok) ==
    IF file = {} \/ ~ok THEN [buf |-> <<>>, cur |-> 0, whole |-> file = {}]
    ELSE LET b == LoadWhole(CHOOSE x \in file : TRUE, maxBuffer) IN
         [buf |-> b, cur |-> Len(b), whole |-> {b} = file]

loadNote(file, ok) ==
    IF file = {} \/ ~ok THEN [buf |-> <<>>, cur |-> 0, whole |-> file = {}]
    ELSE LET body == CHOOSE x \in file : TRUE
             b == Loaded(LoadWhole(body, maxBuffer + 1)) IN
         [buf |-> b, cur |-> 0, whole |-> body = b]

-----------------------------------------------------------------------------
(* Editing *)

Insert(d, c) ==
    IF Len(d.buf) >= maxBuffer THEN d
    ELSE [d EXCEPT !.buf = InsertAt(@, d.cur + 1, c), !.cur = @ + 1, !.dirty = TRUE]

backspace(d) ==
    IF d.cur = 0 THEN d
    ELSE [d EXCEPT !.buf = RemoveAt(@, d.cur), !.cur = @ - 1, !.dirty = TRUE]

Delete(d) ==
    IF d.cur >= Len(d.buf) THEN d
    ELSE [d EXCEPT !.buf = RemoveAt(@, d.cur + 1), !.dirty = TRUE]

\* Up and Down keep the column where the line is long enough
toLine(d, n) ==
    LET s == lineBounds(d.buf, n)
        at == ColAt(d.buf, d.cur) IN
    [d EXCEPT !.cur = s[1] + (IF at > s[2] - s[1] THEN s[2] - s[1] ELSE at)]

Up(d) == IF LineAt(d.buf, d.cur) <= 1 THEN d ELSE toLine(d, LineAt(d.buf, d.cur) - 1)

Down(d) == IF LineAt(d.buf, d.cur) >= LineCount(d.buf) THEN d
           ELSE toLine(d, LineAt(d.buf, d.cur) + 1)

Left(d) == IF d.cur = 0 THEN d ELSE [d EXCEPT !.cur = @ - 1]

Right(d) == IF d.cur >= Len(d.buf) THEN d ELSE [d EXCEPT !.cur = @ + 1]

\* What a key inserts: Return breaks the line, printable bytes are themselves
insertionFor(k) == IF k = CR THEN {LF} ELSE IF k \in 32 .. 126 THEN {k} ELSE {}

-----------------------------------------------------------------------------
(* Find and goto: edit/main.go *)

matchAt(b, off, pat) ==
    /\ pat # <<>> /\ off + Len(pat) <= Len(b)
    /\ SubSeq(b, off + 1, off + Len(pat)) = pat

\* The matches the first scan meets: after a match it resumes past it
scanned[b \in Seq(Nat), pat \in Seq(Nat), i \in Nat] ==
    IF i + Len(pat) > Len(b) THEN <<>>
    ELSE IF matchAt(b, i, pat) THEN <<i>> \o scanned[b, pat, i + Len(pat)]
    ELSE scanned[b, pat, i + 1]

NoMatch == [total |-> 0, ordinal |-> 0, off |-> -1]

\* The first scanned match at or past the caret, else the first of the buffer
findFrom(b, pat, from) ==
    LET hits == scanned[b, pat, 0]
        later == {i \in DOMAIN hits : hits[i] >= from}
        ord == IF later = {} THEN 1 ELSE CHOOSE i \in later : \A j \in later : i <= j IN
    IF pat = <<>> \/ hits = <<>> THEN NoMatch
    ELSE [total |-> Len(hits), ordinal |-> ord, off |-> hits[ord]]

runFind(d) ==
    LET hit == findFrom(d.buf, d.bar, d.cur)
        shut == [d EXCEPT !.mode = "edit", !.bar = <<>>] IN
    [shut EXCEPT !.cur = IF hit.off < 0 THEN @ ELSE hit.off]

\* lineOffset: after the break that starts line n
lineOffset(b, n) == IF n < 1 \/ n > LineCount(b) THEN -1 ELSE lineBounds(b, n)[1]

parseLine(digits) ==
    LET v == FoldLeft(LAMBDA acc, c : 10 * acc + c - 48, 0, digits) IN
    IF digits = <<>> \/ Len(digits) > gotoDigitsMax \/ ~(ToSet(digits) \subseteq Digits) THEN 0 ELSE v

runGoto(d) ==
    LET n == parseLine(d.bar)
        off == lineOffset(d.buf, n) IN
    [d EXCEPT !.mode = "edit", !.bar = <<>>, !.cur = IF n = 0 \/ off < 0 THEN @ ELSE off]

openBar(d, mode) == [d EXCEPT !.mode = mode, !.bar = <<>>]

\* barKey: Esc closes, Return runs, other control keys do nothing
barKey(d, k) ==
    CASE k = ESC -> [d EXCEPT !.mode = "edit", !.bar = <<>>]
      [] k = CR -> IF d.mode = "find" THEN runFind(d) ELSE runGoto(d)
      [] k \in {BS, DEL} -> IF d.bar = <<>> THEN d ELSE [d EXCEPT !.bar = Front(@)]
      [] OTHER -> IF Len(d.bar) < barMax /\ insertionFor(k) # {}
                  THEN [d EXCEPT !.bar = @ \o SetToSeq(insertionFor(k))] ELSE d

-----------------------------------------------------------------------------
(* Saves and keys *)

\* Plausible mistake: the buffer is clean whatever the save returned
save_clears_first(d) ==
    {[d EXCEPT !.file = w[1], !.dirty = FALSE, !.saved = w[2],
               !.whole = IF w[2] THEN TRUE ELSE @] :
        w \in WriteResult(d.file, d.buf)}

\* A refused save leaves the buffer as dirty as it was
save(d) ==
    {[d EXCEPT !.file = w[1], !.dirty = IF w[2] THEN FALSE ELSE @, !.saved = w[2],
               !.whole = IF w[2] THEN TRUE ELSE @] :
        w \in WriteResult(d.file, d.buf)}

editKey(d, k) ==
    CASE k = Ctrl.f -> {openBar(d, "find")}
      [] k = Ctrl.g -> {openBar(d, "goto")}
      [] d.mode # "edit" -> {barKey(d, k)}
      [] k = Ctrl.s -> save(d)
      [] k \in {BS, DEL} -> {backspace(d)}
      [] OTHER -> {IF insertionFor(k) = {} THEN d ELSE Insert(d, CHOOSE c \in insertionFor(k) : TRUE)}

noteMoves(d, k) ==
    CASE k = Ctrl.s -> save(d)
      [] k = Arrow.left -> {Left(d)}
      [] k = Arrow.right -> {Right(d)}
      [] k = Arrow.up -> {Up(d)}
      [] k = Arrow.down -> {Down(d)}
      [] k = BS -> {backspace(d)}
      [] k = DEL -> {Delete(d)}
      [] OTHER -> {IF insertionFor(k) = {} THEN d ELSE Insert(d, CHOOSE c \in insertionFor(k) : TRUE)}

\* Every handled key, and a resize, follows the caret and draws
Drawn(d) == IF d.app = "edit" THEN d ELSE [d EXCEPT !.top = Follow(d.buf, d.cur, @, d.rows)]

noteKey(d, k) == {Drawn(e) : e \in noteMoves(d, k)}

-----------------------------------------------------------------------------
(* The event loops *)

Started(app, file, ok) ==
    LET l == IF app = "edit" THEN loadEdit(file, ok) ELSE loadNote(file, ok) IN
    Drawn([app |-> app, file |-> file, buf |-> l.buf, cur |-> l.cur, whole |-> l.whole,
           dirty |-> FALSE, saved |-> TRUE, mode |-> "edit", bar |-> <<>>,
           top |-> 1, rows |-> CHOOSE h \in Heights : \A x \in Heights : x <= h,
           exit |-> "none", keys |-> 0])

docInit ==
    \E app \in {"edit", "note"}, body \in DocBodies, ok \in BOOLEAN :
        doc = Started(app, body, ok)

Pressed ==
    \E k \in DocKeys :
        /\ doc.exit = "none" /\ doc.keys < MaxDocKeys
        /\ \E d \in (IF doc.app = "edit" THEN editKey(doc, k) ELSE noteKey(doc, k)) :
               doc' = [d EXCEPT !.keys = @ + 1]

Resized ==
    \E h \in Heights :
        /\ doc.exit = "none" /\ h # doc.rows /\ doc.keys < MaxDocKeys
        /\ doc' = Drawn([doc EXCEPT !.rows = h, !.keys = @ + 1])

\* WIN_UNSAVED (the kernel posts only the dialog's Save choice): GOEDIT saves
\* and leaves, and the exit status says whether the file was published
unsavedExit ==
    /\ doc.exit = "none" /\ doc.app = "edit"
    /\ \E d \in save(doc) : doc' = [d EXCEPT !.exit = IF d.saved THEN "saved" ELSE "failed"]

\* WIN_CLOSE: GOEDIT leaves; GONOTE saves a dirty buffer first and leaves with
\* status 0 whatever the save returned
WinClose ==
    /\ doc.exit = "none"
    /\ \E d \in (IF doc.app = "note" /\ doc.dirty THEN save(doc) ELSE {doc}) :
           doc' = [d EXCEPT !.exit = "closed"]

\* The event queue is gone: the loop ends, nothing is saved
QueueGone == doc.exit = "none" /\ doc' = [doc EXCEPT !.exit = "gone"]

docNext == Pressed \/ Resized \/ unsavedExit \/ WinClose \/ QueueGone

docSpec == docInit /\ [][docNext]_doc

-----------------------------------------------------------------------------
(* Properties *)

\* What is on disk is what a clean buffer holds, unless a refused save of a
\* clean buffer deleted the file; an exit that reports "saved" has saved.
CleanIsSaved ==
    /\ ~doc.dirty /\ doc.whole =>
         IF doc.file = {} THEN doc.buf = <<>> \/ ~doc.saved ELSE doc.file = {doc.buf}
    /\ doc.exit = "saved" => doc.file = {doc.buf} /\ ~doc.dirty
    /\ doc.exit = "closed" /\ doc.app = "note" /\ doc.dirty => ~doc.saved

\* The caret is in the buffer, and after any key or resize of GONOTE exactly
\* one drawn row shows it.
CaretShown ==
    /\ doc.cur \in 0 .. Len(doc.buf)
    /\ doc.app = "note" =>
         LET rows == View(doc.buf, doc.cur, doc.top, doc.rows) IN
         Cardinality({i \in DOMAIN rows : rows[i].col >= 0}) = 1
    /\ doc.app = "edit" /\ LineAt(doc.buf, doc.cur) <= maxLines =>
         LET rows == editRows(doc.buf, doc.cur) IN
         \E i \in DOMAIN rows : rows[i].col >= 0

\* Return in an open bar would take the caret to a match, counted among the
\* matches, passing over no match but one that overlaps an earlier one; or to
\* the start of the line asked for.
JumpSound ==
    LET all == {i \in 0 .. Len(doc.buf) : matchAt(doc.buf, i, doc.bar)}
        t == findFrom(doc.buf, doc.bar, doc.cur)
        off == lineOffset(doc.buf, parseLine(doc.bar)) IN
    /\ doc.mode = "find" =>
         IF all = {} THEN t = NoMatch
         ELSE /\ t.off \in all /\ t.ordinal \in 1 .. t.total
              /\ \A i \in all \cap doc.cur .. t.off - 1 :
                     \E j \in all : j < i /\ i < j + Len(doc.bar)
    /\ doc.mode = "goto" /\ off >= 0 =>
         LineAt(doc.buf, off) = parseLine(doc.bar) /\ ColAt(doc.buf, off) = 0

\* The editors keep what was typed: what they say is saved is on the share, the
\* caret stays in the buffer and in view, and find and goto land where they say.
EditorsHonest == CleanIsSaved /\ CaretShown /\ JumpSound
=============================================================================
