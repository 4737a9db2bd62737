------------------------------ MODULE LineEdit ------------------------------
(***************************************************************************)
(* The line editor of user/go/shlib/edit.go with its history file          *)
(* (history.go): the bytes of the terminal stream, one at a time, through  *)
(* the escape decoder, the editing keys, the kill ring, the completion     *)
(* menu, reverse search and recall, and the persistence of what is         *)
(* submitted.  What Feed holds back after an event is fed again before     *)
(* anything is read, so the stream is the same however it is cut.          *)
(***************************************************************************)
EXTENDS Integers, Sequences, SequencesExt

CONSTANTS historyMax, maxSearchQuery,
          menuRowsPerPage, menuColumns, \* layout of the completion menu
          Candidates,     \* names the completer knows, sequences of characters
          EdScripts,      \* keys used, the line cap, and whether the share may fail
          MaxSubmits,     \* lines submitted
          MaxBoots        \* times the shell is started again

VARIABLES ed, edScript

Printable == {"a", "b", " ", "[", "A", "B", "C", "D", "H", "F", "f", "d", "0", "~"}

NewEditor(max) ==
  [max |-> max, buf |-> <<>>, cur |-> 0, hist |-> <<>>, hview |-> -1,
   kill |-> <<>>, killDir |-> "none", killLo |-> 0, before |-> <<>>,
   state |-> "ground", menu |-> <<>>, menuOn |-> FALSE, menuStart |-> 0,
   menuPage |-> 0, menuAt |-> 0,
   searching |-> FALSE, query |-> <<>>, draft |-> <<>>, draftCur |-> 0,
   file |-> <<>>, last |-> <<>>, appended |-> 0, lossy |-> FALSE, live |-> TRUE,
   boots |-> 0, submits |-> 0]

edInit == edScript \in EdScripts /\ ed = NewEditor(edScript.max)
-----------------------------------------------------------------------------
(* Moving and inserting. *)

Line(e, buf, cur) == [e EXCEPT !.buf = buf, !.cur = cur]

breakKill(e) == [e EXCEPT !.killDir = "none", !.killLo = 0, !.before = <<>>]

Spliced(buf, at, text) == SubSeq(buf, 1, at) \o text \o SubSeq(buf, at + 1, Len(buf))

\* Past the line cap the editor only rings the bell.
ins(e, text) ==
  IF Len(e.buf) + Len(text) > e.max THEN e
  ELSE Line(breakKill(e), Spliced(e.buf, e.cur, text), e.cur + Len(text))

Cut(buf, lo, hi) == SubSeq(buf, 1, lo) \o SubSeq(buf, hi + 1, Len(buf))

keyBackspace(e) ==
  IF e.cur = 0 THEN e ELSE Line(breakKill(e), Cut(e.buf, e.cur - 1, e.cur), e.cur - 1)

keyDelete(e) ==
  IF e.cur = Len(e.buf) THEN e ELSE Line(breakKill(e), Cut(e.buf, e.cur, e.cur + 1), e.cur)

moveTo(e, j) == IF j = e.cur THEN e ELSE Line(breakKill(e), e.buf, j)

keyLeft(e) == IF e.cur = 0 THEN e ELSE moveTo(e, e.cur - 1)

keyRight(e) == IF e.cur = Len(e.buf) THEN e ELSE moveTo(e, e.cur + 1)

keyHome(e) == breakKill(moveTo(e, 0))

keyEnd(e) == breakKill(moveTo(e, Len(e.buf)))

\* The ends of words from i on, and the starts of words up to i.
wordEnds(b, i) == {j \in i + 1 .. Len(b) : b[j] # " " /\ (j = Len(b) \/ b[j + 1] = " ")}

wordStarts(b, i) == {j \in 0 .. i - 1 : b[j + 1] # " " /\ (j = 0 \/ b[j] = " ")}

wordForward(b, i) ==
  IF wordEnds(b, i) = {} THEN Len(b)
  ELSE CHOOSE j \in wordEnds(b, i) : \A k \in wordEnds(b, i) : j <= k

wordBackward(b, i) ==
  IF wordStarts(b, i) = {} THEN 0
  ELSE CHOOSE j \in wordStarts(b, i) : \A k \in wordStarts(b, i) : k <= j
-----------------------------------------------------------------------------
(* The kill ring: one entry, grown by kills that continue the last one. *)

\* Mutant: a merge always appends.
merge_appends(e, lo, hi, dir) ==
  LET killed == SubSeq(e.buf, lo + 1, hi)
      joins == e.killDir = dir /\ e.cur = e.killLo
  IN  IF lo >= hi THEN e
      ELSE [Line(e, Cut(e.buf, lo, hi), lo) EXCEPT
              !.kill = IF joins THEN @ \o killed ELSE killed,
              !.before = IF joins THEN @ ELSE e.buf,
              !.killDir = dir, !.killLo = lo]

killRegion(e, lo, hi, dir) ==
  LET killed == SubSeq(e.buf, lo + 1, hi)
      joins == e.killDir = dir /\ e.cur = e.killLo
  IN  IF lo >= hi THEN e
      ELSE [Line(e, Cut(e.buf, lo, hi), lo) EXCEPT
              !.kill = IF ~joins THEN killed
                       ELSE IF dir = "backward" THEN killed \o @ ELSE @ \o killed,
              !.before = IF joins THEN @ ELSE e.buf,
              !.killDir = dir, !.killLo = lo]

keyKillWordBack(e) == killRegion(e, wordBackward(e.buf, e.cur), e.cur, "backward")

keyKillWordForward(e) == killRegion(e, e.cur, wordForward(e.buf, e.cur), "forward")

keyYank(e) == IF e.kill = <<>> THEN e ELSE ins(e, e.kill)

keyTranspose(e) ==
  LET i == IF e.cur = Len(e.buf) THEN e.cur - 1 ELSE e.cur
      swapped == [e.buf EXCEPT ![i] = e.buf[i + 1], ![i + 1] = e.buf[i]]
  IN  IF Len(e.buf) < 2 \/ e.cur = 0 THEN e
      ELSE Line(breakKill(e), swapped, i + 1)
-----------------------------------------------------------------------------
(* Recall. *)

Push(h, line) ==
  IF line = <<>> \/ (h # <<>> /\ Last(h) = line) THEN h
  ELSE IF Len(h) = historyMax THEN Append(Tail(h), line) ELSE Append(h, line)

histPrev(e) ==
  LET v == IF e.hview = -1 THEN Len(e.hist)
           ELSE IF e.hview > 1 THEN e.hview - 1 ELSE e.hview
  IN  IF e.hist = <<>> THEN e
      ELSE Line(breakKill([e EXCEPT !.hview = v]), e.hist[v], Len(e.hist[v]))

histNext(e) ==
  LET v == e.hview + 1
  IN  IF e.hview = -1 THEN e
      ELSE IF v <= Len(e.hist)
           THEN Line(breakKill([e EXCEPT !.hview = v]), e.hist[v], Len(e.hist[v]))
      ELSE Line(breakKill([e EXCEPT !.hview = -1]), <<>>, 0)
-----------------------------------------------------------------------------
(* Completion. *)

dismissMenu(e) == [e EXCEPT !.menu = <<>>, !.menuOn = FALSE, !.menuStart = 0,
                            !.menuPage = 0, !.menuAt = 0]

wordStart(e) ==
  LET spaces == {j \in 1 .. e.cur : e.buf[j] = " "}
  IN  IF spaces = {} THEN 0 ELSE CHOOSE j \in spaces : \A k \in spaces : k <= j

commonPrefix(cands) ==
  LET agreed == {n \in 0 .. Len(cands[1]) :
                   \A i \in DOMAIN cands : IsPrefix(SubSeq(cands[1], 1, n), cands[i])}
  IN  SubSeq(cands[1], 1, CHOOSE n \in agreed : \A m \in agreed : m <= n)

menuPages(menu) ==
  LET rows == (Len(menu) + menuColumns - 1) \div menuColumns
  IN  (rows + menuRowsPerPage - 1) \div menuRowsPerPage

\* The word is replaced by the next candidate of the snapshot.
menuCycle(e) ==
  LET at == (e.menuAt % Len(e.menu)) + 1
      cand == e.menu[at]
      tail == SubSeq(e.buf, e.cur + 1, Len(e.buf))
      f == [e EXCEPT !.menuAt = at]
  IN  IF e.menuStart + Len(cand) + Len(tail) > e.max THEN f
      ELSE Line(breakKill(f), SubSeq(e.buf, 1, e.menuStart) \o cand \o tail,
                e.menuStart + Len(cand))

keyTab(e) ==
  LET start == wordStart(e)
      word == SubSeq(e.buf, start + 1, e.cur)
      cands == SelectSeq(Candidates, LAMBDA c : IsPrefix(word, c))
      rest(text) == SubSeq(text, Len(word) + 1, Len(text))
  IN  IF e.menuOn
      THEN IF e.menuPage + 1 < menuPages(e.menu) THEN [e EXCEPT !.menuPage = @ + 1]
           ELSE menuCycle(e)
      ELSE IF cands = <<>> THEN e
      ELSE IF rest(commonPrefix(cands)) # <<>> THEN ins(e, rest(commonPrefix(cands)))
      ELSE IF Len(cands) = 1 THEN e
      ELSE [e EXCEPT !.menu = cands, !.menuStart = start, !.menuAt = 0,
                     !.menuPage = 0, !.menuOn = TRUE]
-----------------------------------------------------------------------------
(* Reverse search: the newest entry that contains the query. *)

searchEnter(e) ==
  [breakKill(e) EXCEPT !.draft = e.buf, !.draftCur = e.cur, !.searching = TRUE,
                       !.query = <<>>]

searchMatch(e) ==
  IF e.query = <<>> THEN {}
  ELSE {i \in DOMAIN e.hist : \E k \in 0 .. Len(e.hist[i]) :
          IsPrefix(e.query, SubSeq(e.hist[i], k + 1, Len(e.hist[i])))}

\* Without a match the line keeps what was matched before.
searchPaint(e) ==
  LET hits == searchMatch(e)
      m == e.hist[CHOOSE i \in hits : \A j \in hits : j <= i]
  IN  IF hits = {} THEN e ELSE Line(e, m, Len(m))

searchExit(e, accept) ==
  LET f == [breakKill(e) EXCEPT !.searching = FALSE]
      g == [f EXCEPT !.query = <<>>, !.draft = <<>>, !.draftCur = 0]
  IN  IF accept THEN g ELSE Line(g, e.draft, e.draftCur)

searchByte(e, b) ==
  IF b \in {"ESC", "^C"} THEN searchExit(e, FALSE)
  ELSE IF b = "CR" THEN searchExit(e, TRUE)
  ELSE IF b = "BS"
       THEN IF e.query = <<>> THEN e ELSE searchPaint([e EXCEPT !.query = Front(@)])
  ELSE IF b \in Printable /\ Len(e.query) < maxSearchQuery
       THEN searchPaint([e EXCEPT !.query = Append(@, b)])
  ELSE e
-----------------------------------------------------------------------------
(* The history file, a text of lines each ended by LF.  `appended` counts   *)
(* appends since this shell started or last rewrote it.                    *)

Stored(ring) == FoldLeft(LAMBDA text, line : text \o Append(line, "LF"), <<>>, ring)

\* What a write of `text` after `kept` may leave: nothing at all when the open is
\* refused, else as much of the text as was written when a chunk failed or the
\* program was killed.  One failure at a time: until it is made good nothing is
\* claimed of the file.
PartlySaved(e, kept, text) ==
  IF ~edScript.faults \/ e.lossy THEN {}
  ELSE {[e EXCEPT !.lossy = TRUE]}
         \cup {[e EXCEPT !.lossy = TRUE, !.file = kept \o SubSeq(text, 1, n)] :
                 n \in 0 .. Len(text) - 1}

\* Mutant: the rewrite takes the ring as it was before this line.
rewrite_before_push(e, line) ==
  LET whole == e.appended >= historyMax
      kept == IF whole THEN <<>> ELSE e.file
      text == IF whole THEN Stored(Front(e.hist)) ELSE Append(line, "LF")
  IN  IF line = <<>> \/ line = e.last THEN {e}
      ELSE PartlySaved(e, kept, text)
             \cup {[e EXCEPT !.file = kept \o text, !.last = line, !.lossy = @ /\ ~whole,
                             !.appended = IF whole THEN Len(e.hist) ELSE @ + 1]}

\* An append, or at the bound a rewrite: the file is emptied and written again
\* from the ring.
SaveHistory(e, line) ==
  LET whole == e.appended >= historyMax
      kept == IF whole THEN <<>> ELSE e.file
      text == IF whole THEN Stored(e.hist) ELSE Append(line, "LF")
  IN  IF line = <<>> \/ line = e.last THEN {e}
      ELSE PartlySaved(e, kept, text)
             \cup {[e EXCEPT !.file = kept \o text, !.last = line, !.lossy = @ /\ ~whole,
                             !.appended = IF whole THEN Len(e.hist) ELSE @ + 1]}

\* Every ended line goes through Push; a last line without its LF is skipped.
Load(text) ==
  FoldLeft(LAMBDA p, c : IF c = "LF" THEN [ring |-> Push(p.ring, p.line), line |-> <<>>]
                         ELSE [p EXCEPT !.line = Append(@, c)],
           [ring |-> <<>>, line |-> <<>>], text).ring

maxHistoryBytes(max) == historyMax * max

\* The read stops at the cap, so of a longer file it is the oldest lines that are
\* recalled.  A read that fails is an empty ring.
LoadHistory(max, file, readable) ==
  LET n == maxHistoryBytes(max)
      ring == IF readable THEN Load(SubSeq(file, 1, IF Len(file) < n THEN Len(file) ELSE n))
              ELSE <<>>
  IN  [NewEditor(max) EXCEPT !.file = file, !.hist = ring,
                        !.last = IF ring = <<>> THEN <<>> ELSE Last(ring)]
-----------------------------------------------------------------------------
(* Keys. *)

\* Submit empties the line and pushes it; the front-end saves it and runs it.
submit(e) ==
  SaveHistory([Line(breakKill(e), <<>>, 0) EXCEPT !.hview = -1, !.hist = Push(@, e.buf),
                                                  !.submits = @ + 1],
              e.buf)

cancel(e) == [Line(breakKill(e), <<>>, 0) EXCEPT !.hview = -1]

keyGround(e, b) ==
  CASE b = "ESC" -> [e EXCEPT !.state = "esc"]
    [] b = "BS"  -> keyBackspace(e)
    [] b = "^A"  -> keyHome(e)
    [] b = "^E"  -> keyEnd(e)
    [] b = "^K"  -> killRegion(e, e.cur, Len(e.buf), "forward")
    [] b = "^U"  -> killRegion(e, 0, e.cur, "backward")
    [] b = "^W"  -> keyKillWordBack(e)
    [] b = "^Y"  -> keyYank(e)
    [] b = "^T"  -> keyTranspose(e)
    [] b = "^L"  -> e
    [] b = "^R"  -> searchEnter(e)
    [] b = "^C"  -> cancel(e)
    [] b = "^D"  -> [e EXCEPT !.live = e.buf # <<>>]
    [] b = "TAB" -> keyTab(e)
    [] b \in Printable -> ins(e, <<b>>)

\* ESC and a letter is an Alt chord; any other byte after ESC is typed.
keyEsc(e, b) ==
  CASE b = "["  -> [e EXCEPT !.state = "csi"]
    [] b = "f"  -> moveTo(e, wordForward(e.buf, e.cur))
    [] b = "b"  -> moveTo(e, wordBackward(e.buf, e.cur))
    [] b = "d"  -> keyKillWordForward(e)
    [] b = "BS" -> keyKillWordBack(e)
    [] b \notin {"[", "f", "b", "d", "BS"} -> keyGround(e, b)

keyCSI(e, b) ==
  CASE b = "~" -> keyDelete(e)
    [] b = "A" -> histPrev(e)
    [] b = "B" -> histNext(e)
    [] b = "C" -> keyRight(e)
    [] b = "D" -> keyLeft(e)
    [] b = "H" -> keyHome(e)
    [] b = "F" -> keyEnd(e)
    [] b \notin {"~", "A", "B", "C", "D", "H", "F"} -> e

Ground(e) == [e EXCEPT !.state = "ground"]

Feed ==
  /\ ed.live
  /\ \E b \in edScript.keys :
       LET e == IF b = "TAB" THEN ed ELSE dismissMenu(ed)
           submits == b = "CR" /\ ~ed.searching /\ ed.state # "csi"
       IN  \/ submits /\ ed.submits < MaxSubmits /\ ed' \in submit(Ground(e))
           \/ ~submits /\ ed' = IF ed.searching THEN searchByte(ed, b)
                                ELSE IF e.state = "csi" /\ b = "0" THEN e
                                ELSE IF e.state = "csi" THEN keyCSI(Ground(e), b)
                                ELSE IF e.state = "esc" THEN keyEsc(Ground(e), b)
                                ELSE keyGround(e, b)
  /\ UNCHANGED edScript

\* Ctrl-D ends the program, or it is killed at any moment; the next shell
\* loads the file.
restart ==
  /\ ed.boots < MaxBoots
  /\ \E readable \in {TRUE, ~edScript.faults \/ ed.lossy} :
       ed' = [LoadHistory(ed.max, ed.file, readable) EXCEPT
                !.lossy = ed.lossy \/ ~readable, !.boots = ed.boots + 1, !.submits = ed.submits]
  /\ UNCHANGED edScript

edNext == Feed \/ restart

edSpec == edInit /\ [][edNext]_<<ed, edScript>>
-----------------------------------------------------------------------------
\* While a chain of kills goes on, Ctrl-Y puts back exactly the line the chain
\* began with, whatever mixture of Ctrl-K, Ctrl-U, Ctrl-W and Alt kills made it
\* (killRegion and breakKill of shlib/edit.go).
KillChainRestores ==
  ed.killDir # "none" => Spliced(ed.buf, ed.cur, ed.kill) = ed.before

\* A shell started now would recall exactly what this one does, appends, rewrites
\* and the duplicate rule agreeing with the ring, and a rewrite that succeeds makes
\* good what failed writes and reads had lost; not so while a failure is not made
\* good, and not when the file is longer than one read takes, which appends of
\* several shells bring about (SaveHistory, LoadHistory and History.Load).
RecallPersists ==
  ~ed.lossy /\ Len(ed.file) <= maxHistoryBytes(ed.max) => Load(ed.file) = ed.hist

=============================================================================
