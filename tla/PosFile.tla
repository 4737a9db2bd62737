------------------------------ MODULE PosFile -------------------------------
(***************************************************************************)
(* What a Go program may rely on when it holds a file of GOOS=virelai: a   *)
(* sequence of bytes with a position.  `file` is what the program has      *)
(* written or may read, `disk` what of it the device holds, `before` what  *)
(* an open for appending found there and everything else comes after.      *)
(* `ask` is the last Seek, Pread or Ftruncate, `out` the answer.  Every    *)
(* call may be refused, and a refusal changes nothing.  A handle becomes   *)
(* "broken" when a push to the device failed in the middle or the device   *)
(* was resized behind the port's back: then it promises nothing more.      *)
(*                                                                         *)
(* Three answers are not those of a file.  A positioned read at or beyond  *)
(* the bytes the port retains may say end of file inside the file; so may  *)
(* any read of a handle that is open for writing; and the end a writer     *)
(* seeks to after a sync may be an earlier one.                            *)
(***************************************************************************)
EXTENDS Integers, Sequences

CONSTANTS Byte,      \* bytes; 0 fills a hole
          Contents,  \* what a file opened for reading may hold
          Old,       \* what a file opened for appending may hold
          Kept       \* bytes of a file the port can go back to

VARIABLES status, before, file, pos, disk, ask, out

posVars == <<status, before, file, pos, disk, ask, out>>

Refused == <<-1>>

Slice(s, from, n) == SubSeq(s, from + 1, from + n)

\* Writing past the end leaves a hole of zeros.
Overwrite(s, at, b) ==
  [i \in 1 .. (IF at + Len(b) > Len(s) THEN at + Len(b) ELSE Len(s)) |->
     IF i > at /\ i <= at + Len(b) THEN b[i - at]
     ELSE IF i \in DOMAIN s THEN s[i] ELSE 0]

PosInit ==
  /\ status = "none" /\ before = <<>> /\ file = <<>> /\ pos = 0 /\ disk = <<>>
  /\ out = Refused /\ ask = [call |-> "none", whence |-> "start", offset |-> 0]

PosOpen ==
  /\ status = "none"
  /\ \/ \E c \in Contents : status' = "r" /\ file' = c /\ disk' = c /\ before' = <<>>
     \/ /\ status' = "w" /\ file' = <<>> /\ disk' = <<>>
        /\ before' \in Old \cup {<<>>}
  /\ pos' = 0 /\ out' = Refused

\* A read of n bytes at a position; an empty answer means end of file to a reader.
PosAnswer(at, n) ==
  /\ at + n <= Len(file) \/ n = 0
  /\ n = 0 => status = "w" \/ at >= Len(file)
  /\ out' = Slice(file, at, n)

PosRead ==
  /\ status \in {"r", "w"}
  /\ \E n \in 0 .. Len(file) : PosAnswer(pos, n) /\ pos' = pos + n
  /\ UNCHANGED <<status, before, file, disk>>

\* A positioned read may come back short, and does not move.
PosPread ==
  /\ status \in {"r", "w"} /\ ask'.call = "pread"
  /\ \/ \E n \in 0 .. Len(file) : PosAnswer(ask'.offset, n)
     \/ ask'.offset >= Kept /\ out' = <<>>
  /\ UNCHANGED <<status, before, file, pos, disk>>

PosWrite ==
  /\ status = "w"
  /\ \E b \in {<<x>> : x \in Byte} \cup {<<x, y>> : x, y \in Byte} :
       /\ file' = Overwrite(file, pos, b) /\ pos' = pos + Len(b)
       /\ disk' \in {disk, file'}
  /\ out' = <<>> /\ UNCHANGED <<status, before>>

\* Where a seek may count from.
SeekBase(whence) ==
  CASE whence = "start" -> {0}
    [] whence = "current" -> {pos}
    [] whence = "end" -> {Len(file)} \cup (IF status = "w" /\ disk = file THEN 0 .. Len(file) ELSE {})

PosSeek ==
  /\ status \in {"r", "w"} /\ ask'.call = "seek"
  /\ \E base \in SeekBase(ask'.whence) : pos' = base + ask'.offset
  /\ pos' >= 0 /\ out' = <<pos'>>
  /\ UNCHANGED <<status, before, file, disk>>

\* A length beyond the end leaves the file as it is, and so does the length the
\* device file has.
PosTruncate ==
  /\ status = "w" /\ ask'.call = "truncate"
  /\ LET n == ask'.offset
     IN  \/ /\ file' = Slice(file, 0, IF n < Len(file) THEN n ELSE Len(file))
            /\ pos' = IF pos > n THEN n ELSE pos
         \/ disk = file /\ n = Len(before) + Len(disk) /\ UNCHANGED <<file, pos>>
  /\ out' = <<>> /\ UNCHANGED <<status, before, disk>>

\* The answer to a sync: all of the file is on the device.
PosSync ==
  /\ status \in {"r", "w"}
  /\ disk' = file /\ out' = <<>>
  /\ UNCHANGED <<status, before, file, pos>>

\* A closed handle left all of the file on the device, whatever the answer.
PosClose ==
  /\ status \in {"r", "w"} /\ status' = "none"
  /\ disk' = file /\ file' = <<>> /\ pos' = 0
  /\ out' \in {<<>>, Refused} /\ UNCHANGED before

\* A refusal may still have pushed the file to the device, whole.
PosRefuse ==
  /\ status # "broken" /\ out' = Refused
  /\ disk' \in {disk, IF status = "none" THEN disk ELSE file}
  /\ UNCHANGED <<status, before, file, pos>>

\* Calls on other handles.
PosOther == status = "none" /\ UNCHANGED <<status, file, pos, disk>>

PosBreak == status = "w" /\ status' = "broken"

PosBroken == status = "broken" /\ status' \in {"broken", "none"}

PosNext ==
  \/ PosOpen \/ PosRead \/ PosPread \/ PosWrite \/ PosSeek \/ PosTruncate
  \/ PosSync \/ PosClose \/ PosRefuse \/ PosOther \/ PosBreak \/ PosBroken

PosSpec == PosInit /\ [][PosNext]_posVars
=============================================================================
