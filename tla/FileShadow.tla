----------------------------- MODULE FileShadow -----------------------------
(***************************************************************************)
(* The file surface of GOOS=virelai (tools/go/overlay/syscall/             *)
(* fs_virelai.go): positioned reads and writes over a kernel handle that   *)
(* has a cursor and nothing else, from a bounded shadow per handle; and    *)
(* directory handles over a listing window that has no offset.  `fh` is    *)
(* one handle with its device file, `before` and then `dev`: `dev` is the  *)
(* file a reader reads or the bytes a writer pushed, and `before` what an  *)
(* open for appending left there.  The kernel cursor of a reader is        *)
(* virCursor, that of a writer the end of `dev`.  Any system call may      *)
(* fail.  `fhAsk` is the last call of Seek, Pread or Ftruncate.            *)
(***************************************************************************)
EXTENDS Integers, Sequences

CONSTANTS FileBytes,     \* byte values a program writes
          FileContents,  \* what a file opened for reading holds
          OldContents,   \* what a file opened for appending holds
          virShadowMax, virIOChunkMax,
          MaxPos,        \* bound on the positions a program seeks to
          DevMax,        \* bound on the device file of a writer
          DirRowsMax,    \* virDirRowsMax, the listing window
          DirSizes       \* numbers of entries a directory may have

\* Bytes are numbers and the tables have room for something.
ASSUME FileAssumption ==
  /\ FileBytes \subseteq Nat /\ FileContents \cup OldContents \subseteq Seq(Nat)
  /\ virShadowMax \in Nat /\ virIOChunkMax \in Nat
  /\ DirRowsMax \in Nat \ {0} /\ DirSizes \subseteq Nat

VARIABLES fh, fhAsk

fhVars == <<fh, fhAsk>>

Least(a, b) == IF a < b THEN a ELSE b

\* The answer of a call that returned an error.
NotServed == <<-1>>

NoAsk == [call |-> "none", whence |-> "start", offset |-> 0]

NoHandle ==
  [mode |-> "none", before |-> <<>>, shadow |-> <<>>, cursor |-> 0, pos |-> 0, flushed |-> FALSE,
   dev |-> <<>>, broken |-> FALSE, rows |-> 0, sat |-> FALSE, entries |-> 0,
   still |-> TRUE, out |-> NotServed]

fhInit == fh = NoHandle /\ fhAsk = NoAsk

\* A step to h; the call is kept with its answer, and a refusal is the same for
\* every call.
AskedFor(h, ask) == fh' = h /\ fhAsk' = IF h.out = NotServed THEN NoAsk ELSE ask

Handle(h) == AskedFor(h, NoAsk)

Asking(call, whence, offset) == [call |-> call, whence |-> whence, offset |-> offset]

virWrite(h) == h.mode \in {"w", "rw"}

shadowed(h) == virWrite(h) \/ h.mode = "r"

fhRefuse(h) == [h EXCEPT !.out = NotServed]

\* Bytes are kept while there is room, so the shadow is always a prefix.
virKeep(h, k) ==
  [h EXCEPT !.shadow = SubSeq(h.dev, 1, IF Len(@) < h.cursor THEN Len(@)
                                        ELSE Least(h.cursor + k, virShadowMax)),
            !.cursor = @ + k]

virRetained(h) == Least(Len(h.shadow), h.cursor)

\* What one kernel read may deliver; -1 is an error.
svcRead(h, want) ==
  {-1} \cup CASE h.mode = "r" /\ h.cursor < Len(h.dev) ->
                   1 .. Least(Least(want, virIOChunkMax), Len(h.dev) - h.cursor)
              [] h.mode = "r" /\ h.cursor >= Len(h.dev) -> {0}
              [] h.mode = "rw" -> {0}
              [] OTHER -> {}

\* The cursor moves to the target or to the end of the file; an error stops it
\* anywhere on the way.
virPull(h, target) ==
  LET end == IF h.mode = "r" THEN Least(target, Len(h.dev)) ELSE h.cursor
      to(c) == IF c > h.cursor THEN virKeep(h, c - h.cursor) ELSE h
  IN  [ok : IF h.mode = "w" THEN {} ELSE {TRUE}, h : {to(end)}]
      \cup [ok : {FALSE}, h : {to(c) : c \in h.cursor .. end}]

\* The size a reader is told: the row of the parent's listing, or the bytes
\* counted by reading the file to its end.
statPath(h) == Len(h.dev)

virSize(h) == IF virWrite(h) THEN Len(h.shadow) ELSE statPath(h)

\* All staged bytes in order; a failure leaves the bytes pushed so far.
virFlush(h) ==
  IF ~virWrite(h) \/ h.flushed \/ h.shadow = <<>> THEN {[ok |-> TRUE, h |-> h]}
  ELSE {[ok |-> TRUE, h |-> [h EXCEPT !.dev = @ \o h.shadow, !.cursor = Len(h.shadow),
                                       !.flushed = TRUE]]}
       \cup {[ok |-> FALSE, h |-> [h EXCEPT !.dev = @ \o SubSeq(h.shadow, 1, j),
                                            !.broken = @ \/ j > 0]]
             : j \in 0 .. (Len(h.shadow) - 1)}
-----------------------------------------------------------------------------
\* A write-open truncates unless it is for appending, which keeps what is there; the
\* position is 0 in both.  A directory is opened only for reading.  The probe for
\* O_EXCL and a full handle table refuse.
fsOpen ==
  /\ fh.mode = "none"
  /\ \/ \E m \in {"w", "rw"}, c \in OldContents \cup {<<>>} :
          Handle([NoHandle EXCEPT !.mode = m, !.before = c])
     \/ \E c \in FileContents : Handle([NoHandle EXCEPT !.mode = "r", !.dev = c])
     \/ /\ fh.dev = <<>>  \* bound: what an earlier handle wrote does not matter here
        /\ \E n \in DirSizes : Handle([NoHandle EXCEPT !.mode = "d", !.entries = n])
     \/ Handle(fhRefuse(fh))

fromShadow(h, at, n) ==
  SubSeq(h.shadow, at + 1, Least(at + n, Len(h.shadow)))

\* Where the position leaves the shadow the kernel is asked, and only there.
readAt(h, n) ==
  IF h.pos < virRetained(h)
  THEN LET b == fromShadow(h, h.pos, Least(n, virRetained(h) - h.pos))
       IN  {[h EXCEPT !.pos = @ + Len(b), !.out = b]}
  ELSE {IF k < 0 THEN fhRefuse(h)
        ELSE IF k = 0 THEN [h EXCEPT !.out = <<>>]
        ELSE [virKeep(h, k) EXCEPT !.pos = @ + k,
                !.out = SubSeq(h.dev, h.cursor + 1, h.cursor + k)]
        : k \in svcRead(h, n)}

fsRead(n) ==
  /\ shadowed(fh)
  /\ IF fh.pos < fh.cursor /\ fh.pos >= virRetained(fh) THEN Handle(fhRefuse(fh))
     ELSE IF fh.pos <= fh.cursor THEN \E g \in readAt(fh, n) : Handle(g)
     ELSE \E p \in virPull(fh, fh.pos) :
            IF p.ok THEN \E g \in readAt(p.h, n) : Handle(g) ELSE Handle(fhRefuse(p.h))

\* Pread: an offset beyond what was retained reads as empty.
preadAnswer(h, at, n) ==
  [h EXCEPT !.out = IF at >= virRetained(h) THEN <<>> ELSE fromShadow(h, at, n)]

Pread(at, n) ==
  /\ shadowed(fh)
  /\ \E g \in IF at + n <= fh.cursor THEN {preadAnswer(fh, at, n)}
              ELSE {IF p.ok THEN preadAnswer(p.h, at, n) ELSE fhRefuse(p.h) :
                    p \in virPull(fh, at + n)} :
       AskedFor(g, Asking("pread", "start", at))

\* Mutant: a patch lands at the end of the staged bytes.
stage_at_end(h, b) == [h EXCEPT !.shadow = @ \o b, !.pos = @ + Len(b), !.out = <<>>]

Staged(h, b) ==
  LET end == h.pos + Len(b)
      old == h.shadow
  IN  [h EXCEPT !.shadow = [i \in 1 .. (IF end > Len(old) THEN end ELSE Len(old)) |->
                              IF i > h.pos /\ i <= end THEN b[i - h.pos]
                              ELSE IF i \in DOMAIN old THEN old[i] ELSE 0],
                !.pos = end, !.out = <<>>]

\* After the flush only appends are answered, one kernel write at a time.
virWriteTo(b) ==
  /\ shadowed(fh)
  /\ \/ fh.mode = "r" /\ Handle(fhRefuse(fh))
     \/ /\ virWrite(fh) /\ ~fh.flushed
        /\ Handle(IF fh.pos + Len(b) > virShadowMax THEN fhRefuse(fh) ELSE Staged(fh, b))
     \/ /\ virWrite(fh) /\ fh.flushed /\ fh.cursor + Len(b) <= DevMax
        /\ \E k \in 0 .. Least(Len(b), virIOChunkMax) :
             Handle(IF fh.pos # fh.cursor \/ k = 0 THEN fhRefuse(fh)
                    ELSE [fh EXCEPT !.dev = @ \o SubSeq(b, 1, k), !.cursor = @ + k,
                                    !.pos = fh.cursor + k, !.out = <<>>])

\* Bound: a flush that keeps failing repeats what it pushed.
flushFits(h) == h.broken => Len(h.dev) + Len(h.shadow) <= DevMax

fsSync ==
  /\ shadowed(fh) /\ flushFits(fh)
  /\ \E p \in virFlush(fh), ok \in BOOLEAN :
       Handle(IF p.ok /\ ok THEN [p.h EXCEPT !.out = <<>>] ELSE fhRefuse(p.h))

\* A failed flush leaves the handle open; a failed close does not.
fsClose ==
  /\ fh.mode # "none" /\ flushFits(fh)
  /\ \E p \in virFlush(fh), ok \in (IF fh.mode = "d" THEN {TRUE} ELSE BOOLEAN) :
       Handle(IF p.ok
              THEN [NoHandle EXCEPT !.before = p.h.before, !.dev = p.h.dev, !.out = IF ok THEN <<>> ELSE NotServed]
              ELSE fhRefuse(p.h))

\* The device file cut or filled to n bytes.
DevResized(h, n) ==
  LET whole == h.before \o h.dev
      cut == [i \in 1 .. n |-> IF i \in DOMAIN whole THEN whole[i] ELSE 0]
  IN  [h EXCEPT !.before = SubSeq(cut, 1, Least(n, Len(@))),
                !.dev = SubSeq(cut, Len(h.before) + 1, n),
                !.broken = @ \/ n # Len(whole), !.out = <<>>]

\* While the bytes are staged the shadow is cut, never extended, and n counts from
\* where the handle began; after the flush the device file is resized.
Ftruncate(n) ==
  /\ shadowed(fh)
  /\ AskedFor(IF fh.mode = "r" THEN fhRefuse(fh)
              ELSE IF ~fh.flushed
              THEN [fh EXCEPT !.shadow = SubSeq(@, 1, Least(n, Len(@))),
                              !.pos = Least(@, n), !.out = <<>>]
              ELSE DevResized(fh, n),
              Asking("truncate", "start", n))

\* Only the logical position moves; a negative target is refused.
Seek(whence, offset) ==
  LET base == CASE whence = "start" -> 0
                [] whence = "current" -> fh.pos
                [] whence = "end" -> virSize(fh)
      to == base + offset
  IN  /\ shadowed(fh) /\ to <= MaxPos
      /\ AskedFor(IF to < 0 THEN fhRefuse(fh) ELSE [fh EXCEPT !.pos = to, !.out = <<to>>],
                  Asking("seek", whence, offset))
-----------------------------------------------------------------------------
\* Mutant: a full window is taken for the whole directory.
never_sat(h, rows) == h.sat

Saturated(h, rows) == h.sat \/ rows = DirRowsMax

\* The listing starts at the first entry every time; the rows delivered so far
\* are the only cursor.
ReadDirent(limit) ==
  LET rows == Least(fh.entries, DirRowsMax)
      from == Least(fh.rows, rows)
      n == Least(limit, rows - from)
      full == Saturated(fh, rows)
  IN  /\ fh.mode = "d"
      /\ Handle(IF fh.sat THEN fhRefuse(fh)
                ELSE [fh EXCEPT !.sat = full, !.rows = from + n,
                                !.out = [i \in 1 .. n |-> from + i]])

\* Another process adds or removes an entry.
dirChanges ==
  /\ fh.mode = "d" /\ fh.still
  /\ \E n \in DirSizes : Handle([fh EXCEPT !.entries = n, !.still = FALSE, !.out = NotServed])

fhNext ==
  \/ fsOpen \/ fsSync \/ fsClose \/ dirChanges
  \/ \E n \in 1 .. 2 : fsRead(n) \/ ReadDirent(n) \/ \E at \in 0 .. 3 : Pread(at, n)
  \/ \E x, y \in FileBytes : virWriteTo(<<x>>) \/ virWriteTo(<<x, y>>)
  \/ \E n \in 0 .. 2 : Ftruncate(n)
  \/ \E w \in {"start", "current", "end"}, o \in {-1, 0, 2} : Seek(w, o)

fhSpec == fhInit /\ [][fhNext]_fhVars
-----------------------------------------------------------------------------
\* The file a handle stands for: its status, its bytes and the last answer.
fileStatus(h) ==
  IF h.broken THEN "broken"
  ELSE IF virWrite(h) THEN "w" ELSE IF h.mode = "r" THEN "r" ELSE "none"

fileBytes(h) == IF h.mode = "r" \/ (virWrite(h) /\ h.flushed) THEN h.dev ELSE h.shadow

lastAnswer(h) == IF h.mode = "d" THEN NotServed ELSE h.out

FileHandle ==
  INSTANCE PosFile WITH
    Byte <- FileBytes, Contents <- FileContents, Old <- OldContents, Kept <- virShadowMax,
    status <- fileStatus(fh), before <- fh.before, file <- fileBytes(fh), pos <- fh.pos,
    disk <- fh.dev, ask <- fhAsk, out <- lastAnswer(fh)

\* Over any sequence of reads, patches, seeks, truncations, syncs and closes, and
\* whichever system calls fail, the shadow and the cursor-only handle together
\* behave as the file of PosFile (fs_virelai.go, "positional I/O"): a read returns
\* the bytes at the position asked for, a seek goes where it was told, an answered
\* write is not lost, what an append found stays, and a sync or close that returns
\* leaves exactly the file on the device.
ImplementsPosFile == FileHandle!PosSpec

\* A directory read that ends cleanly has delivered every entry of a directory
\* that did not change meanwhile: a truncated listing is refused, never passed
\* off as complete (fs_virelai.go ReadDirent).
DirComplete ==
  fh.mode = "d" /\ fh.out = <<>> /\ fh.still => fh.rows = fh.entries
=============================================================================
