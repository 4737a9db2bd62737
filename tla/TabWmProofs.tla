----------------------------- MODULE TabWmProofs -----------------------------
(***************************************************************************)
(* The window manager's desktop holds together for every set of windows,   *)
(* every script of inputs and every bound.  The invariant is stated of a   *)
(* value d of `desk` (Good(d)), so that each operation of TabWm is shown   *)
(* once to preserve it, whichever action performs it.                      *)
(***************************************************************************)
EXTENDS TabWm, FiniteSetTheorems, SetInduction, TLAPS

-----------------------------------------------------------------------------
(* The invariant. *)

\* What a tab may be called, and the executables those names lead to.
Titles == {"Calc", "doc", ""}

Bins == {"GOCALC.ELF", "doc", ""}

TabRecords ==
  [id : Nat \ {0}, title : Titles, bin : Bins, pinned : BOOLEAN,
   frozen : BOOLEAN, hist : Seq(NavPaths), pos : Nat]

\* The navigation cursor is on an entry, and the history within its bound.
Tabs ==
  {t \in TabRecords : /\ Len(t.hist) <= NavHistMax /\ t.pos <= Len(t.hist)
                      /\ t.hist # <<>> => t.pos # 0}

Splits == {"none", "v", "h"}

Strips == [tabs : Seq(Tabs), focus : Nat, split : Splits, sash : Int, closed : Seq(Bins)]

\* The strip: within its array, no id twice, focus on a tab, and a split only
\* while there are two tabs to show.
StripOK(s) ==
  /\ s \in Strips
  /\ Len(s.tabs) <= MaxTabs
  /\ \A i, j \in DOMAIN s.tabs : s.tabs[i].id = s.tabs[j].id => i = j
  /\ IF s.tabs = <<>> THEN s.focus = 1 ELSE s.focus \in DOMAIN s.tabs
  /\ s.split # "none" => Len(s.tabs) >= 2

Rows == [title : Titles, bin : Bins, pinned : BOOLEAN, frozen : BOOLEAN]

Files == [rows : Seq(Rows), active : Nat]

\* The session file never holds more rows than the strip has room for.
FileOK(f) ==
  /\ f \in Files
  /\ Len(f.rows) <= MaxTabs /\ f.active <= Len(f.rows)

Rects == [axis : Splits, at : Int, len : Int]

Launchers == [open : BOOLEAN, filter : Seq(STRING), sel : Nat]

Pends == [id : Nat, path : NavPaths \cup {""}]

Toasts == [id : Nat, left : Int]

Pointers == [btn : BOOLEAN, railFrom : Nat, content : BOOLEAN, sash : BOOLEAN]

Demos ==
  [on : BOOLEAN, sawTwo : BOOLEAN, done : BOOLEAN, step : Int, hold : Int, left : Int]

Desks ==
  [up : BOOLEAN, strip : Strips, hosted : Nat, pend : Pends, toasts : Seq(Toasts),
   painted : BOOLEAN, dirty : BOOLEAN, file : Files, rect : [Windows -> Rects],
   alive : SUBSET Windows, ptr : Pointers, kbtn : BOOLEAN, demo : Demos,
   launch : Launchers]

\* TargetsLive of a value of desk.
Targets(d) ==
  /\ d.pend.id # 0 => Has(d.strip, d.pend.id)
  /\ \A i \in DOMAIN d.toasts : Has(d.strip, d.toasts[i].id)
  /\ d.painted => d.toasts # <<>>

\* The rows of a file tell those of a strip.
Tells(saved, live) ==
  /\ Len(saved) = Len(live)
  /\ \A i \in DOMAIN live :
       /\ saved[i].pinned = live[i].pinned /\ saved[i].frozen = live[i].frozen
       /\ saved[i].bin \in {live[i].bin, ""}

\* SessionTracksStrip of a value of desk.
Tracks(d) ==
  LET live == sessionRows(d.strip).rows
  IN  d.up /\ ~d.demo.on /\ ~d.dirty /\ live # <<>> => Tells(d.file.rows, live)

\* All but the session file's truth: what holds between a change of the strip
\* and its publication.
Sound(d) == d \in Desks /\ StripOK(d.strip) /\ FileOK(d.file) /\ Targets(d)

Good(d) == Sound(d) /\ Tracks(d)

\* The inductive invariant of deskSpec.
DeskInv ==
  /\ Good(desk)
  /\ deskScript \in [inputs : SUBSET STRING, clients : SUBSET Windows]

-----------------------------------------------------------------------------
(* Positions. *)

\* Every nonempty set of positions has a highest one.
LEMMA HighestPosition ==
  ASSUME NEW n \in Nat, NEW T \in SUBSET (1 .. n), T # {}
  PROVE  \E x \in T : \A y \in T : y <= x
<1> DEFINE R == {m \in Nat : \A y \in T : y <= m}
<1>1. R \in SUBSET Nat /\ n \in R
  OBVIOUS
<1>2. PICK m \in R : \A k \in R : m <= k
  BY <1>1, LeastNatural
<1>3. CASE m \in T
  BY <1>3
<1>4. CASE m \notin T
  <2>0. PICK y \in T : TRUE
    OBVIOUS
  <2>1. m # 0 /\ m - 1 \in Nat
    <3>1. y \in 1 .. n /\ m \in Nat /\ y <= m
      BY <1>2
    <3> QED
      BY <3>1
  <2>2. m - 1 \in R
    BY <2>1, <1>4
  <2>3. m <= m - 1
    BY <1>2, <2>2
  <2> QED
    BY <2>3, <2>1
<1> QED
  BY <1>3, <1>4
-----------------------------------------------------------------------------
(* The loops that keep some entries of a queue, in order. *)

\* The positions of I can be listed upwards.
LEMMA InOrderExists ==
  ASSUME NEW n \in Nat, NEW I \in SUBSET (1 .. n)
  PROVE  \E o \in [1 .. Cardinality(I) -> I] :
           \A j, k \in DOMAIN o : j < k => o[j] < o[k]
<1> DEFINE Listed(J) == \E o \in [1 .. Cardinality(J) -> J] :
                          \A j, k \in DOMAIN o : j < k => o[j] < o[k]
           S == {m \in Nat : \A J \in SUBSET (1 .. m) : Listed(J)}
<1>1. 0 \in S
  <2>1. SUFFICES ASSUME NEW J \in SUBSET (1 .. 0) PROVE Listed(J)
    OBVIOUS
  <2>2. J = {} /\ Cardinality(J) = 0
    <3>1. \A x : x \notin 1 .. 0
      OBVIOUS
    <3>2. J = {}
      BY <3>1
    <3> QED
      BY <3>2, FS_EmptySet
  <2>3. [k \in 1 .. 0 |-> 0] \in [1 .. Cardinality(J) -> J]
    BY <2>2
  <2> QED
    BY <2>2, <2>3
<1>2. ASSUME NEW m \in Nat, m \in S PROVE m + 1 \in S
  <2> SUFFICES ASSUME NEW J \in SUBSET (1 .. (m + 1)) PROVE Listed(J)
    BY m + 1 \in Nat
  <2>2. CASE m + 1 \notin J
    <3>1. J \in SUBSET (1 .. m)
      BY <2>2
    <3> QED
      BY <3>1, <1>2
  <2>3. CASE m + 1 \in J
    <3> DEFINE K == J \ {m + 1}
               c == Cardinality(K)
    <3>1. K \in SUBSET (1 .. m)
      OBVIOUS
    <3>2. PICK p \in [1 .. c -> K] : \A j, k \in DOMAIN p : j < k => p[j] < p[k]
      BY <3>1, <1>2
    <3>3. IsFiniteSet(K) /\ c \in Nat
      <4>1. IsFiniteSet(1 .. m)
        BY FS_Interval
      <4>2. IsFiniteSet(K)
        BY <3>1, <4>1, FS_Subset
      <4> QED
        BY <4>2, FS_CardinalityType
    <3>4. J = K \cup {m + 1} /\ Cardinality(J) = c + 1
      <4>1. J = K \cup {m + 1} /\ m + 1 \notin K
        BY <2>3
      <4>2. Cardinality(K \cup {m + 1}) = c + 1
        BY <3>3, <4>1, FS_AddElement
      <4> QED
        BY <4>1, <4>2
    <3> DEFINE o == [k \in 1 .. (c + 1) |-> IF k = c + 1 THEN m + 1 ELSE p[k]]
    <3>5. o \in [1 .. Cardinality(J) -> J]
      <4>1. ASSUME NEW k \in 1 .. (c + 1) PROVE o[k] \in J
        <5>1. CASE k = c + 1
          BY <5>1, <2>3
        <5>2. CASE k # c + 1
          <6>1. k \in 1 .. c
            BY <5>2, <3>3
          <6> QED
            BY <6>1, <5>2, <3>2
        <5> QED
          BY <5>1, <5>2
      <4> QED
        BY <4>1, <3>4
    <3>6. ASSUME NEW j \in DOMAIN o, NEW k \in DOMAIN o, j < k PROVE o[j] < o[k]
      <4>1. j \in 1 .. c /\ o[j] = p[j] /\ p[j] \in 1 .. m
        <5>1. j \in 1 .. c /\ j # c + 1
          BY <3>3, <3>6
        <5>2. p[j] \in K
          BY <5>1, <3>2
        <5> QED
          BY <5>1, <5>2, <3>1
      <4>2. CASE k = c + 1
        BY <4>1, <4>2, <3>3
      <4>3. CASE k # c + 1
        <5>1. k \in DOMAIN p /\ o[k] = p[k] /\ j \in DOMAIN p
          BY <4>1, <4>3, <3>2, <3>3
        <5> QED
          BY <5>1, <4>1, <3>2, <3>6
      <4> QED
        BY <4>2, <4>3
    <3> QED
      BY <3>5, <3>6
  <2> QED
    BY <2>2, <2>3
<1>3. Nat \subseteq S
  <2> HIDE DEF S
  <2> QED
    BY <1>1, <1>2, NatSetInduction
<1> QED
  BY <1>3

\* InOrder(I) lists every position of I once.
LEMMA InOrderLists ==
  ASSUME NEW n \in Nat, NEW I \in SUBSET (1 .. n)
  PROVE  LET o == InOrder(I)
         IN  /\ Cardinality(I) \in Nat /\ Cardinality(I) <= n
             /\ o \in [1 .. Cardinality(I) -> I]
             /\ \A j, k \in 1 .. Cardinality(I) : o[j] = o[k] => j = k
             /\ \A i \in I : \E k \in 1 .. Cardinality(I) : o[k] = i
<1> DEFINE o == InOrder(I)
           c == Cardinality(I)
<1>1. IsFiniteSet(1 .. n) /\ Cardinality(1 .. n) = n
  BY FS_Interval
<1>2. IsFiniteSet(I) /\ c \in Nat /\ c <= n
  BY <1>1, FS_Subset, FS_CardinalityType
<1>3. o \in [1 .. c -> I] /\ \A j, k \in DOMAIN o : j < k => o[j] < o[k]
  BY InOrderExists DEF InOrder
<1>4. ASSUME NEW j \in 1 .. c, NEW k \in 1 .. c, o[j] = o[k] PROVE j = k
  <2>1. o[j] \in Nat
    <3>1. o[j] \in I
      BY <1>3
    <3>2. o[j] \in 1 .. n
      BY <3>1
    <3> QED
      BY <3>2
  <2>2. j \in DOMAIN o /\ k \in DOMAIN o /\ j \in Nat /\ k \in Nat
    BY <1>2, <1>3
  <2>3. ~(j < k) /\ ~(k < j)
    BY <2>1, <2>2, <1>3, <1>4
  <2> QED
    BY <2>2, <2>3
<1>5. o \in Injection(1 .. c, I)
  BY <1>3, <1>4 DEF Injection, IsInjective
<1>6. Cardinality(1 .. c) = c
  BY <1>2, FS_Interval
<1>7. o \in Surjection(1 .. c, I)
  BY <1>2, <1>5, <1>6, FS_Injection
<1> QED
  BY <1>2, <1>3, <1>4, <1>7 DEF Surjection

\* What a loop that keeps the entries at the positions in I leaves.
LEMMA KeptSeq ==
  ASSUME NEW S, NEW q \in Seq(S), NEW I \in SUBSET (DOMAIN q)
  PROVE  LET o == InOrder(I)
             c == Cardinality(I)
         IN  /\ c \in Nat /\ c <= Len(q)
             /\ KeptAt(q, I) \in Seq(S) /\ Len(KeptAt(q, I)) = c
             /\ DOMAIN KeptAt(q, I) = 1 .. c
             /\ \A k \in 1 .. c : o[k] \in I /\ KeptAt(q, I)[k] = q[o[k]]
             /\ \A j, k \in 1 .. c : o[j] = o[k] => j = k
             /\ \A i \in I : \E k \in 1 .. c : o[k] = i
<1> DEFINE o == InOrder(I)
           c == Cardinality(I)
<1>1. Len(q) \in Nat /\ I \in SUBSET (1 .. Len(q))
  OBVIOUS
<1>2. /\ c \in Nat /\ c <= Len(q)
      /\ o \in [1 .. c -> I]
      /\ \A j, k \in 1 .. c : o[j] = o[k] => j = k
      /\ \A i \in I : \E k \in 1 .. c : o[k] = i
  BY <1>1, InOrderLists
<1>3. KeptAt(q, I) = [k \in 1 .. c |-> q[o[k]]]
  BY <1>2 DEF KeptAt
<1>4. ASSUME NEW k \in 1 .. c PROVE q[o[k]] \in S
  BY <1>1, <1>2
<1>5. KeptAt(q, I) \in Seq(S) /\ Len(KeptAt(q, I)) = c
  <2> HIDE DEF c, o
  <2> QED
    BY <1>2, <1>3, <1>4
<1> QED
  BY <1>2, <1>3, <1>5

\* The sequence left when one entry is taken out.
LEMMA RemoveAtSeq ==
  ASSUME NEW S, NEW q \in Seq(S), NEW i \in DOMAIN q
  PROVE  LET r == RemoveAt(q, i)
         IN  /\ r \in Seq(S) /\ Len(r) = Len(q) - 1 /\ DOMAIN r = 1 .. (Len(q) - 1)
             /\ \A k \in 1 .. (Len(q) - 1) : r[k] = q[IF k < i THEN k ELSE k + 1]
<1> DEFINE a == SubSeq(q, 1, i - 1)
           b == SubSeq(q, i + 1, Len(q))
<1>1. i \in 1 .. Len(q) /\ Len(q) \in Nat /\ i \in Nat
  OBVIOUS
<1>2. a \in Seq(S) /\ Len(a) = i - 1 /\ \A k \in 1 .. (i - 1) : a[k] = q[k]
  BY <1>1
<1>3. b \in Seq(S) /\ Len(b) = Len(q) - i /\ \A k \in 1 .. (Len(q) - i) : b[k] = q[i + k]
  BY <1>1
<1>4. RemoveAt(q, i) = a \o b
  BY DEF RemoveAt
<1> HIDE DEF a, b
<1>5. a \o b \in Seq(S) /\ Len(a \o b) = Len(q) - 1
  BY <1>1, <1>2, <1>3
<1>6. ASSUME NEW k \in 1 .. (Len(q) - 1)
      PROVE  (a \o b)[k] = q[IF k < i THEN k ELSE k + 1]
  <2>1. CASE k < i
    BY <2>1, <1>1, <1>2, <1>3
  <2>2. CASE ~(k < i)
    <3>1. k - (i - 1) \in 1 .. (Len(q) - i) /\ i + (k - (i - 1)) = k + 1
      BY <2>2, <1>1
    <3>2. (a \o b)[k] = b[k - (i - 1)]
      BY <2>2, <1>1, <1>2, <1>3
    <3> QED
      BY <3>1, <3>2, <2>2, <1>3
  <2> QED
    BY <2>1, <2>2
<1> QED
  BY <1>4, <1>5, <1>6

\* The sequence with one entry put in.
LEMMA InsertAtSeq ==
  ASSUME NEW S, NEW q \in Seq(S), NEW i \in 1 .. (Len(q) + 1), NEW e \in S
  PROVE  LET r == InsertAt(q, i, e)
         IN  /\ r \in Seq(S) /\ Len(r) = Len(q) + 1 /\ DOMAIN r = 1 .. (Len(q) + 1)
             /\ \A k \in 1 .. (Len(q) + 1) :
                  r[k] = IF k < i THEN q[k] ELSE IF k = i THEN e ELSE q[k - 1]
<1> DEFINE a == SubSeq(q, 1, i - 1)
           b == SubSeq(q, i, Len(q))
           m == a \o <<e>>
<1>1. Len(q) \in Nat /\ i \in Nat /\ 1 <= i /\ i <= Len(q) + 1
  OBVIOUS
<1>2. a \in Seq(S) /\ Len(a) = i - 1 /\ \A k \in 1 .. (i - 1) : a[k] = q[k]
  BY <1>1
<1>3. b \in Seq(S) /\ Len(b) = Len(q) - i + 1 /\ \A k \in 1 .. (Len(q) - i + 1) : b[k] = q[i + k - 1]
  BY <1>1
<1>4. InsertAt(q, i, e) = m \o b
  BY DEF InsertAt
<1> HIDE DEF a, b
<1>5. m \in Seq(S) /\ Len(m) = i /\ m[i] = e /\ \A k \in 1 .. (i - 1) : m[k] = q[k]
  BY <1>1, <1>2
<1> HIDE DEF m
<1>6. m \o b \in Seq(S) /\ Len(m \o b) = Len(q) + 1
  <2>1. m \o b \in Seq(S) /\ Len(m \o b) = Len(m) + Len(b)
    <3>1. m \in Seq(S) /\ b \in Seq(S)
      BY <1>3, <1>5
    <3> QED
      BY <3>1
  <2> QED
    BY <1>1, <1>3, <1>5, <2>1
<1>7. ASSUME NEW k \in 1 .. (Len(q) + 1)
      PROVE  (m \o b)[k] = IF k < i THEN q[k] ELSE IF k = i THEN e ELSE q[k - 1]
  <2>0. m \in Seq(S) /\ b \in Seq(S) /\ Len(m) = i
    BY <1>3, <1>5
  <2>1. CASE k <= i
    <3>1. k \in 1 .. Len(m) /\ (k = i \/ k \in 1 .. (i - 1))
      BY <2>0, <2>1, <1>1
    <3>2. (m \o b)[k] = m[k]
      BY <2>0, <3>1
    <3> QED
      BY <3>1, <3>2, <1>1, <1>5
  <2>2. CASE ~(k <= i)
    <3>1. k - i \in 1 .. (Len(q) - i + 1) /\ i + (k - i) - 1 = k - 1
      BY <2>2, <1>1
    <3>2. (m \o b)[k] = b[k - i]
      <4>1. k \in (Len(m) + 1) .. (Len(m) + Len(b)) /\ Len(m) \in Nat /\ Len(b) \in Nat
        BY <2>0, <2>2, <1>1, <1>3
      <4>2. (m \o b)[k] = b[k - Len(m)]
        BY <2>0, <4>1
      <4> QED
        BY <2>0, <4>2
    <3> QED
      BY <3>1, <3>2, <2>2, <1>1, <1>3
  <2> QED
    BY <2>1, <2>2
<1> QED
  BY <1>4, <1>6, <1>7
-----------------------------------------------------------------------------
(* The strip. *)

\* The parts of a tab.
LEMMA TabParts ==
  ASSUME NEW t \in Tabs
  PROVE  /\ t \in TabRecords
         /\ t.id \in Nat \ {0} /\ t.title \in Titles /\ t.bin \in Bins
         /\ t.pinned \in BOOLEAN /\ t.frozen \in BOOLEAN
         /\ t.hist \in Seq(NavPaths) /\ t.pos \in Nat
         /\ Len(t.hist) <= NavHistMax /\ t.pos <= Len(t.hist)
         /\ t.hist # <<>> => t.pos # 0
BY DEF Tabs, TabRecords

\* The parts of a strip.
LEMMA StripParts ==
  ASSUME NEW s, StripOK(s)
  PROVE  /\ s \in Strips
         /\ s.tabs \in Seq(Tabs) /\ s.focus \in Nat /\ s.split \in Splits
         /\ s.sash \in Int /\ s.closed \in Seq(Bins)
         /\ Len(s.tabs) \in Nat /\ DOMAIN s.tabs = 1 .. Len(s.tabs)
         /\ \A i \in DOMAIN s.tabs : s.tabs[i] \in Tabs /\ s.tabs[i].id \in Nat \ {0}
BY TabParts DEF StripOK, Strips

\* A tab that is on the strip is at the position index finds.
LEMMA IndexOfTab ==
  ASSUME NEW s, NEW id, Has(s, id)
  PROVE  IndexOf(s, id) \in DOMAIN s.tabs /\ s.tabs[IndexOf(s, id)].id = id
BY DEF Has, IndexOf, index

\* Every position's tab is on the strip.
LEMMA HasTab ==
  ASSUME NEW s, NEW i \in DOMAIN s.tabs
  PROVE  Has(s, s.tabs[i].id)
BY DEF Has, index

\* Between two strips with the same tabs at the same positions only titles,
\* histories and programs not known before may differ.
Alike(s, u) ==
  /\ DOMAIN u.tabs = DOMAIN s.tabs
  /\ \A i \in DOMAIN s.tabs :
       /\ u.tabs[i].id = s.tabs[i].id
       /\ u.tabs[i].pinned = s.tabs[i].pinned /\ u.tabs[i].frozen = s.tabs[i].frozen
       /\ s.tabs[i].bin \in {u.tabs[i].bin, ""}

\* Alike strips hold the same windows, in the same order.
LEMMA AlikeHas ==
  ASSUME NEW s, NEW u, Alike(s, u)
  PROVE  /\ \A w : Has(u, w) <=> Has(s, w)
         /\ Ids(u) = Ids(s)
BY DEF Alike, Has, index, Ids

\* Rewriting one tab and keeping its id leaves a strip sound.
LEMMA RewriteTab ==
  ASSUME NEW s, StripOK(s), NEW i \in DOMAIN s.tabs, NEW t \in Tabs, t.id = s.tabs[i].id
  PROVE  LET u == [s EXCEPT !.tabs = [@ EXCEPT ![i] = t]]
         IN  /\ StripOK(u) /\ DOMAIN u.tabs = DOMAIN s.tabs
             /\ u.tabs[i] = t /\ \A j \in DOMAIN s.tabs : j # i => u.tabs[j] = s.tabs[j]
             /\ \A j \in DOMAIN s.tabs : u.tabs[j].id = s.tabs[j].id
             /\ \A w : Has(u, w) <=> Has(s, w)
             /\ Ids(u) = Ids(s) /\ u.focus = s.focus
<1> DEFINE ts == [s.tabs EXCEPT ![i] = t]
           u == [s EXCEPT !.tabs = ts]
<1>1. s \in Strips /\ s.tabs \in Seq(Tabs)
  BY StripParts
<1>2. ts \in Seq(Tabs) /\ Len(ts) = Len(s.tabs) /\ DOMAIN ts = DOMAIN s.tabs
  BY <1>1
<1>3. ts[i] = t /\ \A j \in DOMAIN s.tabs : j # i => ts[j] = s.tabs[j]
  BY <1>1
<1>4. \A j \in DOMAIN s.tabs : ts[j].id = s.tabs[j].id
  BY <1>3
<1> HIDE DEF ts
<1>5. u \in Strips /\ u.tabs = ts /\ u.focus = s.focus /\ u.split = s.split
  BY <1>1, <1>2 DEF Strips
<1> HIDE DEF u
<1>6. StripOK(u)
  <2>1. s.tabs = <<>> <=> u.tabs = <<>>
    BY <1>1, <1>2, <1>5
  <2>2. \A j, k \in DOMAIN u.tabs : u.tabs[j].id = u.tabs[k].id => j = k
    BY <1>2, <1>4, <1>5 DEF StripOK
  <2> QED
    BY <1>2, <1>5, <2>1, <2>2 DEF StripOK
<1>7. (\A w : Has(u, w) <=> Has(s, w)) /\ Ids(u) = Ids(s)
  BY <1>2, <1>4, <1>5 DEF Has, index, Ids
<1> QED
  BY <1>2, <1>3, <1>4, <1>5, <1>6, <1>7 DEF u, ts

\* Alike is how a strip whose other fields changed relates to itself.
LEMMA AlikeSame ==
  ASSUME NEW s, NEW u, u.tabs = s.tabs
  PROVE  Alike(s, u)
BY DEF Alike

\* The executable guessed from a title is a name.
LEMMA GuessBinType ==
  ASSUME NEW title \in Titles
  PROVE  guessBin(title) \in Bins
BY DEF guessBin, Titles, Bins

\* A new tab has an empty history.
LEMMA NewTabType ==
  ASSUME NEW id \in Nat \ {0}, NEW title \in Titles
  PROVE  NewTab(id, title) \in Tabs /\ NewTab(id, title).id = id
<1>1. guessBin(title) \in Bins
  BY GuessBinType
<1>2. <<>> \in Seq(NavPaths) /\ Len(<<>>) = 0 /\ NavHistMax \in Nat
  BY DeskBounds
<1> QED
  BY <1>1, <1>2 DEF NewTab, Tabs, TabRecords

\* Focus moves to a tab of the strip and nothing else changes.
LEMMA FocusTabKeeps ==
  ASSUME NEW s, StripOK(s), NEW id
  PROVE  LET u == FocusTab(s, id)
         IN  /\ StripOK(u) /\ u.tabs = s.tabs
             /\ Has(s, id) => Focused(u) = id
<1> DEFINE u == FocusTab(s, id)
<1>1. s \in Strips
  BY StripParts
<1>2. CASE Has(s, id)
  <2> DEFINE i == IndexOf(s, id)
  <2>1. i \in DOMAIN s.tabs /\ s.tabs[i].id = id
    BY <1>2, IndexOfTab
  <2>2. i \in Nat /\ s.tabs # <<>>
    BY <2>1, StripParts
  <2> HIDE DEF i
  <2>3. u = [s EXCEPT !.focus = i]
    BY <1>2 DEF FocusTab, i
  <2>4. u \in Strips /\ u.tabs = s.tabs /\ u.focus = i /\ u.split = s.split
    BY <1>1, <2>2, <2>3 DEF Strips
  <2> QED
    BY <2>1, <2>2, <2>4 DEF StripOK, Focused
<1>3. CASE ~Has(s, id)
  BY <1>3 DEF FocusTab
<1> QED
  BY <1>2, <1>3

\* Opening a tab: an open one is retitled in place, a new one is appended while
\* there is room.
LEMMA OpenTabKeeps ==
  ASSUME NEW s, StripOK(s), NEW id \in Nat \ {0}, NEW title \in Titles
  PROVE  LET u == OpenTab(s, id, title)
         IN  /\ StripOK(u)
             /\ ~Opens(s, id) => Alike(s, u)
             /\ \A w : Has(s, w) => Has(u, w)
             /\ Opens(s, id) => Has(u, id)
<1> DEFINE u == OpenTab(s, id, title)
<1>1. s \in Strips /\ s.tabs \in Seq(Tabs)
  BY StripParts
<1>2. CASE Has(s, id)
  <2> DEFINE i == IndexOf(s, id)
             b == IF s.tabs[i].bin = "" THEN guessBin(title) ELSE s.tabs[i].bin
             t == [s.tabs[i] EXCEPT !.title = title, !.bin = b]
  <2>1. i \in DOMAIN s.tabs
    BY <1>2, IndexOfTab
  <2>2. s.tabs[i] \in Tabs
    BY <2>1, StripParts
  <2>3. guessBin(title) \in Bins /\ b \in Bins
    BY <2>2, GuessBinType, TabParts
  <2> HIDE DEF i
  <2>4. u = [s EXCEPT !.tabs = [@ EXCEPT ![i] = t]]
    BY <1>1, <1>2, <2>1, <2>2 DEF OpenTab, i, Strips, Tabs, TabRecords
  <2>5. s.tabs[i].bin \in {b, ""}
    OBVIOUS
  <2> HIDE DEF b
  <2>6. t \in Tabs /\ t.id = s.tabs[i].id
        /\ t.pinned = s.tabs[i].pinned /\ t.frozen = s.tabs[i].frozen /\ t.bin = b
    BY <2>2, <2>3 DEF Tabs, TabRecords
  <2> HIDE DEF t
  <2>7. /\ StripOK(u) /\ DOMAIN u.tabs = DOMAIN s.tabs
        /\ u.tabs[i] = t /\ \A j \in DOMAIN s.tabs : j # i => u.tabs[j] = s.tabs[j]
        /\ \A w : Has(u, w) <=> Has(s, w)
    BY <2>1, <2>4, <2>6, RewriteTab
  <2>8. Alike(s, u)
    BY <2>5, <2>6, <2>7 DEF Alike
  <2> QED
    BY <2>7, <2>8, <1>2 DEF Opens
<1>3. CASE ~Has(s, id) /\ Len(s.tabs) >= MaxTabs
  <2>1. u = s
    BY <1>3 DEF OpenTab
  <2>2. ~Opens(s, id)
    BY <1>3, <1>1, DeskBounds DEF Opens
  <2> QED
    BY <2>1, <2>2, AlikeSame
<1>4. CASE ~Has(s, id) /\ ~(Len(s.tabs) >= MaxTabs)
  <2> DEFINE t == NewTab(id, title)
             ts == Append(s.tabs, t)
             f == IF s.tabs = <<>> THEN 1 ELSE s.focus
  <2>1. t \in Tabs /\ t.id = id
    BY NewTabType
  <2> HIDE DEF t
  <2>2. /\ ts \in Seq(Tabs) /\ Len(ts) = Len(s.tabs) + 1
        /\ ts[Len(s.tabs) + 1] = t /\ \A i \in DOMAIN s.tabs : ts[i] = s.tabs[i]
    BY <1>1, <2>1
  <2>3. u = [s EXCEPT !.tabs = ts, !.focus = f]
    BY <1>4 DEF OpenTab, t
  <2>4. f \in Nat /\ f \in 1 .. (Len(s.tabs) + 1)
    BY <1>1 DEF StripOK, Strips
  <2> HIDE DEF ts, f
  <2>5. u \in Strips /\ u.tabs = ts /\ u.focus = f /\ u.split = s.split
    BY <1>1, <2>2, <2>3, <2>4 DEF Strips
  <2>6. Len(s.tabs) \in Nat /\ Len(s.tabs) + 1 <= MaxTabs /\ DOMAIN s.tabs = 1 .. Len(s.tabs)
    BY <1>1, <1>4, DeskBounds
  <2>7. DOMAIN u.tabs = 1 .. (Len(s.tabs) + 1)
    BY <2>2, <2>5
  <2>8. ASSUME NEW i \in DOMAIN u.tabs, NEW j \in DOMAIN u.tabs, u.tabs[i].id = u.tabs[j].id
        PROVE  i = j
    <3>1. \A k \in DOMAIN s.tabs : s.tabs[k].id # id
      BY <1>4 DEF Has, index
    <3>2. CASE i \in DOMAIN s.tabs /\ j \in DOMAIN s.tabs
      BY <3>2, <2>2, <2>5, <2>8 DEF StripOK
    <3>3. CASE i \notin DOMAIN s.tabs
      <4>1. i = Len(s.tabs) + 1 /\ u.tabs[i].id = id
        BY <3>3, <2>1, <2>2, <2>5, <2>6, <2>7
      <4>2. j \notin DOMAIN s.tabs
        BY <4>1, <3>1, <2>2, <2>5, <2>8
      <4> QED
        BY <4>1, <4>2, <2>6, <2>7
    <3>4. CASE j \notin DOMAIN s.tabs
      <4>1. j = Len(s.tabs) + 1 /\ u.tabs[j].id = id
        BY <3>4, <2>1, <2>2, <2>5, <2>6, <2>7
      <4>2. i \notin DOMAIN s.tabs
        BY <4>1, <3>1, <2>2, <2>5, <2>8
      <4> QED
        BY <4>1, <4>2, <2>6, <2>7
    <3> QED
      BY <3>2, <3>3, <3>4
  <2>9. u.tabs # <<>> /\ Len(u.tabs) = Len(s.tabs) + 1
    BY <2>2, <2>5, <2>6
  <2>10. StripOK(u)
    BY <2>4, <2>5, <2>6, <2>7, <2>8, <2>9 DEF StripOK
  <2>11. Has(u, id)
    BY <2>1, <2>2, <2>5, <2>6, <2>7 DEF Has, index
  <2>12. \A w : Has(s, w) => Has(u, w)
    BY <2>2, <2>5, <2>6, <2>7 DEF Has, index
  <2>13. Opens(s, id)
    BY <1>4, <2>6, DeskBounds DEF Opens
  <2> QED
    BY <2>10, <2>11, <2>12, <2>13
<1> QED
  BY <1>2, <1>3, <1>4

\* A closed tab leaves the strip and takes nobody else along; focus stays on a
\* tab and a strip of one is not split.
LEMMA CloseTabKeeps ==
  ASSUME NEW s, StripOK(s), NEW id, Has(s, id)
  PROVE  LET u == CloseTab(s, id)
         IN  /\ StripOK(u) /\ ~Has(u, id)
             /\ \A w : w # id /\ Has(s, w) => Has(u, w)
<1> DEFINE i == IndexOf(s, id)
           ts == RemoveAt(s.tabs, i)
           n == Len(ts)
           f == IF n = 0 THEN 1
                ELSE IF s.focus > i THEN s.focus - 1
                ELSE IF s.focus > n THEN n ELSE s.focus
           sp == IF n < 2 THEN "none" ELSE s.split
           sa == IF n < 2 THEN 0 ELSE s.sash
           cl == recordClosed(s.closed, s.tabs[i].bin)
           u == CloseTab(s, id)
<1>1. /\ s.tabs \in Seq(Tabs) /\ s.focus \in Nat /\ s.split \in Splits /\ s.sash \in Int
      /\ s.closed \in Seq(Bins) /\ Len(s.tabs) \in Nat /\ DOMAIN s.tabs = 1 .. Len(s.tabs)
      /\ \A j \in DOMAIN s.tabs : s.tabs[j] \in Tabs
  BY StripParts
<1>2. i \in DOMAIN s.tabs /\ s.tabs[i].id = id
  BY IndexOfTab
<1>3. u = [tabs |-> ts, focus |-> f, split |-> sp, sash |-> sa, closed |-> cl]
  BY DEF CloseTab
<1> HIDE DEF i
<1>4. /\ ts \in Seq(Tabs) /\ n = Len(s.tabs) - 1 /\ DOMAIN ts = 1 .. (Len(s.tabs) - 1)
      /\ \A k \in 1 .. (Len(s.tabs) - 1) : ts[k] = s.tabs[IF k < i THEN k ELSE k + 1]
  BY <1>1, <1>2, RemoveAtSeq
<1> HIDE DEF ts
<1>5. n \in Nat /\ i \in Nat /\ i >= 1 /\ i <= n + 1
  BY <1>1, <1>2, <1>4
<1>6. cl \in Seq(Bins)
  <2>1. s.tabs[i].bin \in Bins
    BY <1>1, <1>2, TabParts
  <2>2. CASE Len(s.closed) = MaxTabs
    <3>1. CASE s.closed = <<>>
      <4>1. MaxTabs = 0
        BY <2>2, <3>1
      <4>2. Len(s.tabs) <= 0
        BY <4>1 DEF StripOK
      <4> QED
        BY <4>2, <1>1, <1>2
    <3>2. CASE s.closed # <<>>
      <4>1. Tail(s.closed) \in Seq(Bins)
        BY <1>1, <3>2
      <4> QED
        BY <4>1, <2>1, <2>2 DEF recordClosed
    <3> QED
      BY <3>1, <3>2
  <2>3. CASE Len(s.closed) # MaxTabs
    BY <1>1, <2>1, <2>3 DEF recordClosed
  <2> QED
    BY <2>2, <2>3
<1>7. s.focus \in 1 .. (n + 1)
  BY <1>1, <1>2, <1>4, <1>5 DEF StripOK
<1>8. f \in Nat /\ (n = 0 => f = 1) /\ (n # 0 => f \in 1 .. n)
  BY <1>5, <1>7
<1>9. sp \in Splits /\ sa \in Int /\ (sp # "none" => n >= 2)
  BY <1>1, <1>5 DEF Splits
<1> HIDE DEF n, f, sp, sa, cl
<1>10. u \in Strips /\ u.tabs = ts /\ u.focus = f /\ u.split = sp
  BY <1>3, <1>4, <1>6, <1>8, <1>9 DEF Strips
<1> HIDE DEF u
<1>11. n = Len(ts)
  BY DEF n
<1>12. DOMAIN u.tabs = 1 .. n /\ (u.tabs = <<>> <=> n = 0)
  <2>1. u.tabs \in Seq(Tabs) /\ Len(u.tabs) = n
    BY <1>4, <1>10, <1>11
  <2> QED
    BY <2>1, <1>5
<1>13. \A k \in 1 .. n :
         /\ k < i => k \in DOMAIN s.tabs /\ u.tabs[k] = s.tabs[k]
         /\ ~(k < i) => k + 1 \in DOMAIN s.tabs /\ u.tabs[k] = s.tabs[k + 1]
  BY <1>1, <1>4, <1>5, <1>10
<1>14. ASSUME NEW j \in DOMAIN u.tabs, NEW k \in DOMAIN u.tabs, u.tabs[j].id = u.tabs[k].id
       PROVE  j = k
  <2>1. \A x, y \in DOMAIN s.tabs : s.tabs[x].id = s.tabs[y].id => x = y
    BY DEF StripOK
  <2>2. j \in 1 .. n /\ k \in 1 .. n
    BY <1>12
  <2> QED
    BY <2>1, <2>2, <1>5, <1>13, <1>14
<1>15. StripOK(u)
  <2>1. Len(u.tabs) <= MaxTabs
    BY <1>1, <1>4, <1>5, <1>10, <1>11, DeskBounds DEF StripOK
  <2> QED
    BY <2>1, <1>8, <1>9, <1>10, <1>11, <1>12, <1>14 DEF StripOK
<1>16. ASSUME NEW w, w # id, Has(s, w) PROVE Has(u, w)
  <2>1. PICK k \in DOMAIN s.tabs : s.tabs[k].id = w
    BY <1>16 DEF Has, index
  <2>2. k # i
    BY <2>1, <1>16, <1>2
  <2>3. CASE k < i
    <3>1. k \in 1 .. n /\ u.tabs[k] = s.tabs[k]
      BY <2>3, <1>1, <1>5, <1>13
    <3> QED
      BY <3>1, <2>1, <1>12 DEF Has, index
  <2>4. CASE ~(k < i)
    <3>1. k - 1 \in 1 .. n /\ ~(k - 1 < i) /\ (k - 1) + 1 = k
      BY <2>2, <2>4, <1>1, <1>4, <1>5, <1>11
    <3>2. u.tabs[k - 1] = s.tabs[k]
      BY <3>1, <1>13
    <3> QED
      BY <3>1, <3>2, <2>1, <1>12 DEF Has, index
  <2> QED
    BY <2>3, <2>4
<1>17. ~Has(u, id)
  <2>1. SUFFICES ASSUME NEW k \in DOMAIN u.tabs, u.tabs[k].id = id PROVE FALSE
    BY DEF Has, index
  <2>2. k \in 1 .. n
    BY <1>12
  <2>3. \A x \in DOMAIN s.tabs : s.tabs[x].id = id => x = i
    BY <1>2 DEF StripOK
  <2> QED
    BY <2>1, <2>2, <2>3, <1>5, <1>13
<1> QED
  BY <1>15, <1>16, <1>17 DEF u

\* A rearrangement of the tabs: the same windows, each once.
Rearranges(s, ts) ==
  /\ ts \in Seq(Tabs) /\ Len(ts) = Len(s.tabs)
  /\ \A i, j \in DOMAIN ts : ts[i].id = ts[j].id => i = j
  /\ \A i \in DOMAIN ts : \E j \in DOMAIN s.tabs : ts[i].id = s.tabs[j].id
  /\ \A j \in DOMAIN s.tabs : \E i \in DOMAIN ts : ts[i].id = s.tabs[j].id

\* Rearranging the tabs leaves the strip sound and the focus on the same tab.
LEMMA RearrangedKeeps ==
  ASSUME NEW s, StripOK(s), NEW ts, Rearranges(s, ts)
  PROVE  LET u == Rearranged(s, ts)
         IN  /\ StripOK(u) /\ \A w : Has(u, w) <=> Has(s, w)
             /\ u.tabs = ts /\ Focused(u) = Focused(s)
<1> DEFINE v == [s EXCEPT !.tabs = ts]
           u == Rearranged(s, ts)
<1>1. /\ s \in Strips /\ s.tabs \in Seq(Tabs) /\ Len(s.tabs) \in Nat
      /\ DOMAIN s.tabs = 1 .. Len(s.tabs)
  BY StripParts
<1>2. ts \in Seq(Tabs) /\ Len(ts) = Len(s.tabs) /\ DOMAIN ts = DOMAIN s.tabs
  BY <1>1 DEF Rearranges
<1>3. v \in Strips /\ v.tabs = ts /\ v.focus = s.focus /\ v.split = s.split
  BY <1>1, <1>2 DEF Strips
<1>4. u = FocusTab(v, Focused(s))
  BY DEF Rearranged
<1> HIDE DEF v, u
<1>5. StripOK(v)
  <2>1. v.tabs = <<>> <=> s.tabs = <<>>
    BY <1>1, <1>2, <1>3
  <2> QED
    BY <2>1, <1>2, <1>3 DEF StripOK, Rearranges
<1>6. ASSUME NEW w PROVE Has(v, w) <=> Has(s, w)
  <2>1. Has(v, w) <=> \E i \in DOMAIN ts : ts[i].id = w
    BY <1>3 DEF Has, index
  <2>2. Has(s, w) <=> \E i \in DOMAIN s.tabs : s.tabs[i].id = w
    BY DEF Has, index
  <2>3. /\ \A i \in DOMAIN ts : \E j \in DOMAIN s.tabs : ts[i].id = s.tabs[j].id
        /\ \A j \in DOMAIN s.tabs : \E i \in DOMAIN ts : ts[i].id = s.tabs[j].id
    BY DEF Rearranges
  <2> QED
    BY <2>1, <2>2, <2>3
<1>7. StripOK(u) /\ u.tabs = v.tabs /\ (Has(v, Focused(s)) => Focused(u) = Focused(s))
  BY <1>4, <1>5, FocusTabKeeps
<1>8. \A w : Has(u, w) <=> Has(v, w)
  BY <1>7 DEF Has, index
<1>9. CASE s.tabs = <<>>
  <2>1. ts = <<>> /\ s.focus \notin DOMAIN s.tabs
    BY <1>1, <1>2, <1>9
  <2>2. u.tabs = <<>> /\ Focused(s) = 0
    BY <2>1, <1>3, <1>7 DEF Focused
  <2>3. Focused(u) = 0
    BY <2>2 DEF Focused
  <2> QED
    BY <2>2, <2>3, <1>3, <1>6, <1>7, <1>8 DEF u
<1>10. CASE s.tabs # <<>>
  <2>1. s.focus \in DOMAIN s.tabs /\ Focused(s) = s.tabs[s.focus].id
    BY <1>10 DEF StripOK, Focused
  <2>2. Has(s, Focused(s))
    BY <2>1, HasTab
  <2> QED
    BY <2>2, <1>3, <1>6, <1>7, <1>8 DEF u
<1> QED
  BY <1>9, <1>10

\* The pinned tabs first, each group in its order: a rearrangement.
LEMMA normalizePinnedKeeps ==
  ASSUME NEW s, StripOK(s)
  PROVE  LET u == normalizePinned(s)
         IN  /\ StripOK(u) /\ \A w : Has(u, w) <=> Has(s, w)
             /\ Focused(u) = Focused(s)
<1> DEFINE q == s.tabs
           pins == {i \in DOMAIN s.tabs : s.tabs[i].pinned}
           rest == DOMAIN s.tabs \ pins
           a == KeptAt(q, pins)
           b == KeptAt(q, rest)
           o == InOrder(pins)
           p == InOrder(rest)
           c == Cardinality(pins)
           e == Cardinality(rest)
           ts == a \o b
<1>1. q \in Seq(Tabs) /\ Len(q) \in Nat /\ DOMAIN q = 1 .. Len(q)
  BY StripParts
<1>2. \A i, j \in DOMAIN q : q[i].id = q[j].id => i = j
  BY DEF StripOK
<1>3. pins \in SUBSET (DOMAIN q) /\ rest \in SUBSET (DOMAIN q) /\ pins \cup rest = DOMAIN q
      /\ pins \cap rest = {}
  OBVIOUS
<1>4. normalizePinned(s) = Rearranged(s, ts)
  BY DEF normalizePinned
<1> HIDE DEF pins, rest
<1>5. /\ c \in Nat /\ a \in Seq(Tabs) /\ Len(a) = c
      /\ \A k \in 1 .. c : o[k] \in pins /\ a[k] = q[o[k]]
      /\ \A j, k \in 1 .. c : o[j] = o[k] => j = k
      /\ \A i \in pins : \E k \in 1 .. c : o[k] = i
  BY <1>1, <1>3, KeptSeq
<1>6. /\ e \in Nat /\ b \in Seq(Tabs) /\ Len(b) = e
      /\ \A k \in 1 .. e : p[k] \in rest /\ b[k] = q[p[k]]
      /\ \A j, k \in 1 .. e : p[j] = p[k] => j = k
      /\ \A i \in rest : \E k \in 1 .. e : p[k] = i
  BY <1>1, <1>3, KeptSeq
<1>7. c + e = Len(q)
  <2>1. IsFiniteSet(DOMAIN q) /\ Cardinality(DOMAIN q) = Len(q)
    BY <1>1, FS_Interval
  <2>2. IsFiniteSet(pins) /\ IsFiniteSet(rest)
    BY <2>1, <1>3, FS_Subset
  <2>3. Cardinality(pins \cup rest) = c + e - Cardinality(pins \cap rest)
    BY <2>2, FS_Union
  <2> QED
    <3>1. Cardinality(pins \cap rest) = 0
      BY <1>3, FS_EmptySet
    <3>2. Len(q) = c + e - 0
      BY <3>1, <2>1, <2>3, <1>3
    <3>3. c \in Nat /\ e \in Nat
      BY <1>5, <1>6
    <3> HIDE DEF c, e, q
    <3> QED
      BY <3>2, <3>3
<1> HIDE DEF q, a, b, o, p, c, e
<1>8. /\ ts \in Seq(Tabs) /\ Len(ts) = Len(q)
      /\ \A k \in 1 .. c : ts[k] = a[k]
      /\ \A k \in 1 .. e : ts[c + k] = b[k]
  <2>1. c \in Nat /\ e \in Nat /\ a \in Seq(Tabs) /\ b \in Seq(Tabs) /\ Len(a) = c /\ Len(b) = e
    BY <1>5, <1>6
  <2>2. a \o b \in Seq(Tabs) /\ Len(a \o b) = Len(a) + Len(b)
    BY <2>1
  <2>3. ASSUME NEW k \in 1 .. c PROVE (a \o b)[k] = a[k]
    BY <2>1
  <2>4. ASSUME NEW k \in 1 .. e PROVE (a \o b)[c + k] = b[k]
    <3>1. c + k \in 1 .. (Len(a) + Len(b)) /\ ~(c + k <= Len(a)) /\ (c + k) - Len(a) = k
      BY <2>1
    <3> QED
      BY <2>1, <3>1
  <2> QED
    BY <2>1, <2>2, <2>3, <2>4, <1>7
<1> DEFINE at(k) == IF k <= c THEN o[k] ELSE p[k - c]
<1>9. DOMAIN ts = DOMAIN q
  <2>1. ts \in Seq(Tabs) /\ Len(ts) = Len(q)
    BY <1>8
  <2> HIDE DEF ts
  <2> QED
    BY <2>1, <1>1
<1> HIDE DEF ts
<1>10. ASSUME NEW k \in DOMAIN ts PROVE at(k) \in DOMAIN q /\ ts[k] = q[at(k)]
  <2>0. k \in 1 .. Len(q)
    BY <1>1, <1>9
  <2>1. CASE k <= c
    <3>1. k \in 1 .. c
      BY <2>0, <2>1, <1>1, <1>5
    <3> QED
      BY <3>1, <2>1, <1>3, <1>5, <1>8
  <2>2. CASE ~(k <= c)
    <3>1. k - c \in 1 .. e /\ c + (k - c) = k
      BY <2>0, <2>2, <1>1, <1>5, <1>6, <1>7
    <3>2. ts[k] = b[k - c]
      BY <3>1, <1>8
    <3> QED
      BY <3>1, <3>2, <2>2, <1>3, <1>6
  <2> QED
    BY <2>1, <2>2
<1>11. ASSUME NEW j \in DOMAIN ts, NEW k \in DOMAIN ts, at(j) = at(k) PROVE j = k
  <2>0. j \in 1 .. Len(q) /\ k \in 1 .. Len(q)
    BY <1>1, <1>9
  <2>1. CASE j <= c /\ k <= c
    <3>1. j \in 1 .. c /\ k \in 1 .. c
      BY <2>0, <2>1, <1>1, <1>5
    <3> QED
      BY <3>1, <2>1, <1>5, <1>11
  <2>2. CASE ~(j <= c) /\ ~(k <= c)
    <3>1. j - c \in 1 .. e /\ k - c \in 1 .. e
      BY <2>0, <2>2, <1>1, <1>5, <1>6, <1>7
    <3>2. j - c = k - c
      BY <3>1, <2>2, <1>6, <1>11
    <3> QED
      BY <3>2, <2>0, <1>5
  <2>3. CASE j <= c /\ ~(k <= c)
    <3>1. j \in 1 .. c /\ k - c \in 1 .. e
      BY <2>0, <2>3, <1>1, <1>5, <1>6, <1>7
    <3>2. o[j] \in pins /\ p[k - c] \in rest /\ o[j] = p[k - c]
      BY <3>1, <2>3, <1>5, <1>6, <1>11
    <3> QED
      BY <3>2, <1>3
  <2>4. CASE ~(j <= c) /\ k <= c
    <3>1. k \in 1 .. c /\ j - c \in 1 .. e
      BY <2>0, <2>4, <1>1, <1>5, <1>6, <1>7
    <3>2. o[k] \in pins /\ p[j - c] \in rest /\ o[k] = p[j - c]
      BY <3>1, <2>4, <1>5, <1>6, <1>11
    <3> QED
      BY <3>2, <1>3
  <2> QED
    BY <2>1, <2>2, <2>3, <2>4
<1>12. ASSUME NEW i \in DOMAIN q PROVE \E k \in DOMAIN ts : ts[k] = q[i]
  <2>1. CASE i \in pins
    <3>1. PICK k \in 1 .. c : o[k] = i
      BY <2>1, <1>5
    <3>2. k \in DOMAIN ts
      BY <1>1, <1>5, <1>6, <1>7, <1>9
    <3>3. ts[k] = q[i]
      BY <3>1, <1>5, <1>8
    <3> QED
      BY <3>2, <3>3
  <2>2. CASE i \in rest
    <3>1. PICK k \in 1 .. e : p[k] = i
      BY <2>2, <1>6
    <3>2. c + k \in DOMAIN ts
      BY <1>1, <1>5, <1>6, <1>7, <1>9
    <3>3. ts[c + k] = q[i]
      BY <3>1, <1>6, <1>8
    <3> QED
      BY <3>2, <3>3
  <2> QED
    BY <2>1, <2>2, <1>3
<1> HIDE DEF at
<1>13. Rearranges(s, ts)
  <2>1. ts \in Seq(Tabs) /\ Len(ts) = Len(s.tabs)
    BY <1>8 DEF q
  <2>2. \A i, j \in DOMAIN ts : ts[i].id = ts[j].id => i = j
    BY <1>2, <1>10, <1>11
  <2>3. \A i \in DOMAIN ts : \E j \in DOMAIN s.tabs : ts[i].id = s.tabs[j].id
    BY <1>10 DEF q
  <2>4. \A j \in DOMAIN s.tabs : \E i \in DOMAIN ts : ts[i].id = s.tabs[j].id
    BY <1>12 DEF q
  <2> QED
    BY <2>1, <2>2, <2>3, <2>4 DEF Rearranges
<1> QED
  BY <1>4, <1>13, RearrangedKeeps

\* Dragging a tab along the rail: a rearrangement.
LEMMA ReorderKeeps ==
  ASSUME NEW s, StripOK(s), NEW from \in DOMAIN s.tabs, NEW to \in DOMAIN s.tabs
  PROVE  LET u == Reorder(s, from, to)
         IN  /\ StripOK(u) /\ \A w : Has(u, w) <=> Has(s, w)
             /\ Focused(u) = Focused(s) /\ Len(u.tabs) = Len(s.tabs)
<1> DEFINE q == s.tabs
           n == Len(q)
           r == RemoveAt(q, from)
           ts == InsertAt(r, to, q[from])
           at(k) == IF k < to THEN (IF k < from THEN k ELSE k + 1)
                    ELSE IF k = to THEN from
                    ELSE IF k - 1 < from THEN k - 1 ELSE k
<1>1. q \in Seq(Tabs) /\ n \in Nat /\ DOMAIN q = 1 .. n /\ q[from] \in Tabs
  BY StripParts
<1>2. \A i, j \in DOMAIN q : q[i].id = q[j].id => i = j
  BY DEF StripOK
<1>3. Reorder(s, from, to) = Rearranged(s, ts)
  BY DEF Reorder
<1>4. /\ r \in Seq(Tabs) /\ Len(r) = n - 1
      /\ \A k \in 1 .. (n - 1) : r[k] = q[IF k < from THEN k ELSE k + 1]
  BY <1>1, RemoveAtSeq
<1>5. n \in Nat /\ n - 1 \in Nat /\ from \in 1 .. n /\ to \in 1 .. n /\ to \in 1 .. (Len(r) + 1)
  BY <1>1, <1>4
<1> HIDE DEF r
<1>6. /\ ts \in Seq(Tabs) /\ Len(ts) = Len(r) + 1 /\ DOMAIN ts = 1 .. (Len(r) + 1)
      /\ \A k \in 1 .. (Len(r) + 1) :
           ts[k] = IF k < to THEN r[k] ELSE IF k = to THEN q[from] ELSE r[k - 1]
  <2>1. r \in Seq(Tabs) /\ to \in 1 .. (Len(r) + 1) /\ q[from] \in Tabs
    BY <1>1, <1>4, <1>5
  <2> HIDE DEF q
  <2> QED
    BY <2>1, InsertAtSeq
<1> HIDE DEF ts, q, n
<1>7. Len(ts) = n /\ DOMAIN ts = 1 .. n
  BY <1>1, <1>4, <1>6
<1>8. ASSUME NEW k \in 1 .. n PROVE at(k) \in 1 .. n /\ ts[k] = q[at(k)]
  <2>1. CASE k < to
    <3>1. k \in 1 .. (n - 1) /\ k \in 1 .. (Len(r) + 1)
      BY <2>1, <1>4, <1>5
    <3>2. ts[k] = r[k] /\ r[k] = q[IF k < from THEN k ELSE k + 1]
      BY <3>1, <2>1, <1>4, <1>6
    <3>3. at(k) = IF k < from THEN k ELSE k + 1
      BY <2>1
    <3>4. at(k) \in 1 .. n
      BY <3>1, <3>3, <1>5
    <3> QED
      BY <3>2, <3>3, <3>4
  <2>2. CASE k = to
    BY <2>2, <1>4, <1>5, <1>6
  <2>3. CASE ~(k < to) /\ k # to
    <3>1. k - 1 \in 1 .. (n - 1) /\ k \in 1 .. (Len(r) + 1) /\ (k - 1) + 1 = k
      BY <2>3, <1>4, <1>5
    <3>2. ts[k] = r[k - 1] /\ r[k - 1] = q[IF k - 1 < from THEN k - 1 ELSE (k - 1) + 1]
      BY <3>1, <2>3, <1>4, <1>6
    <3>3. at(k) = IF k - 1 < from THEN k - 1 ELSE k
      BY <2>3
    <3>4. at(k) \in 1 .. n
      BY <3>1, <3>3, <1>5
    <3> QED
      BY <3>1, <3>2, <3>3, <3>4
  <2> QED
    BY <2>1, <2>2, <2>3
<1>9. ASSUME NEW j \in 1 .. n, NEW k \in 1 .. n, at(j) = at(k) PROVE j = k
  BY <1>5, <1>9
<1>10. ASSUME NEW i \in 1 .. n PROVE \E k \in 1 .. n : at(k) = i
  <2> DEFINE k == IF i = from THEN to
                  ELSE IF i < from THEN (IF i < to THEN i ELSE i + 1)
                  ELSE (IF i - 1 < to THEN i - 1 ELSE i)
  <2>1. k \in 1 .. n
    BY <1>5
  <2>2. ASSUME i = from PROVE at(k) = i
    BY <2>2, <1>5
  <2>3. ASSUME i < from PROVE at(k) = i
    BY <2>3, <1>5
  <2>4. ASSUME i > from PROVE at(k) = i
    BY <2>4, <1>5
  <2>5. at(k) = i
    BY <2>2, <2>3, <2>4, <1>5
  <2> QED
    BY <2>1, <2>5
<1> HIDE DEF at
<1>11. Rearranges(s, ts)
  <2>1. ts \in Seq(Tabs) /\ Len(ts) = Len(s.tabs)
    BY <1>6, <1>7 DEF q, n
  <2>2. \A i, j \in DOMAIN ts : ts[i].id = ts[j].id => i = j
    BY <1>1, <1>2, <1>7, <1>8, <1>9
  <2>3. \A i \in DOMAIN ts : \E j \in DOMAIN s.tabs : ts[i].id = s.tabs[j].id
    BY <1>1, <1>7, <1>8 DEF q
  <2>4. \A j \in DOMAIN s.tabs : \E i \in DOMAIN ts : ts[i].id = s.tabs[j].id
    <3>1. ASSUME NEW j \in DOMAIN q PROVE \E i \in DOMAIN ts : ts[i].id = q[j].id
      <4>1. PICK k \in 1 .. n : at(k) = j
        BY <1>1, <1>10
      <4>2. ts[k] = q[j] /\ k \in DOMAIN ts
        BY <4>1, <1>7, <1>8
      <4> QED
        BY <4>2
    <3> QED
      BY <3>1 DEF q
  <2> QED
    BY <2>1, <2>2, <2>3, <2>4 DEF Rearranges
<1> QED
  BY <1>3, <1>7, <1>11, RearrangedKeeps DEF q, n

\* Strips that show the same ids and the same focused position focus the same tab.
LEMMA FocusedSame ==
  ASSUME NEW s, NEW u, Ids(u) = Ids(s), u.focus = s.focus
  PROVE  Focused(u) = Focused(s)
<1>1. DOMAIN Ids(s) = DOMAIN s.tabs /\ DOMAIN Ids(u) = DOMAIN u.tabs
  BY DEF Ids
<1>2. \A i \in DOMAIN s.tabs : Ids(s)[i] = s.tabs[i].id
  BY DEF Ids
<1>3. \A i \in DOMAIN u.tabs : Ids(u)[i] = u.tabs[i].id
  BY DEF Ids
<1> QED
  BY <1>1, <1>2, <1>3 DEF Focused

\* Pinning a tab rearranges the strip.
LEMMA PinKeeps ==
  ASSUME NEW s, StripOK(s), NEW id, Has(s, id)
  PROVE  LET u == Pin(s, id)
         IN  /\ StripOK(u) /\ \A w : Has(u, w) <=> Has(s, w)
             /\ Focused(u) = Focused(s)
<1> DEFINE i == IndexOf(s, id)
           t == [s.tabs[i] EXCEPT !.pinned = TRUE]
           v == [s EXCEPT !.tabs = [@ EXCEPT ![i] = t]]
<1>1. i \in DOMAIN s.tabs
  BY IndexOfTab
<1>2. s.tabs[i] \in Tabs /\ s \in Strips /\ s.tabs \in Seq(Tabs)
  BY <1>1, StripParts
<1>3. Pin(s, id) = normalizePinned(v)
  BY DEF Pin
<1> HIDE DEF i
<1>4. t \in Tabs /\ t.id = s.tabs[i].id
  BY <1>2 DEF Tabs, TabRecords
<1> HIDE DEF t
<1>5. StripOK(v) /\ (\A w : Has(v, w) <=> Has(s, w)) /\ Ids(v) = Ids(s) /\ v.focus = s.focus
  BY <1>1, <1>4, RewriteTab
<1> HIDE DEF v
<1>6. Focused(v) = Focused(s)
  BY <1>5, FocusedSame
<1> QED
  BY <1>3, <1>5, <1>6, normalizePinnedKeeps

\* Rewriting a tab and keeping its badges and its program leaves an alike strip.
LEMMA RewriteAlike ==
  ASSUME NEW s, StripOK(s), NEW i \in DOMAIN s.tabs, NEW t \in Tabs,
         t.id = s.tabs[i].id, t.pinned = s.tabs[i].pinned, t.frozen = s.tabs[i].frozen,
         t.bin = s.tabs[i].bin
  PROVE  LET u == [s EXCEPT !.tabs = [@ EXCEPT ![i] = t]]
         IN  StripOK(u) /\ Alike(s, u) /\ u.focus = s.focus
<1> DEFINE u == [s EXCEPT !.tabs = [@ EXCEPT ![i] = t]]
<1>1. /\ StripOK(u) /\ DOMAIN u.tabs = DOMAIN s.tabs /\ u.focus = s.focus
      /\ u.tabs[i] = t /\ \A j \in DOMAIN s.tabs : j # i => u.tabs[j] = s.tabs[j]
  BY RewriteTab
<1> HIDE DEF u
<1>2. Alike(s, u)
  BY <1>1 DEF Alike
<1> QED
  BY <1>1, <1>2 DEF u

\* A declared path leaves the cursor on the new entry.
LEMMA navRecordKeeps ==
  ASSUME NEW t \in Tabs, NEW path \in NavPaths
  PROVE  LET u == navRecord(t, path)
         IN  u \in Tabs /\ u.id = t.id /\ u.pinned = t.pinned /\ u.frozen = t.frozen
             /\ u.bin = t.bin
<1> DEFINE kept == IF t.hist = <<>> THEN <<>> ELSE SubSeq(t.hist, 1, t.pos)
           room == IF Len(kept) = NavHistMax THEN Tail(kept) ELSE kept
           h == Append(room, path)
           u == navRecord(t, path)
<1>0. NavHistMax \in Nat /\ NavHistMax # 0
  BY DeskBounds
<1>1. /\ t \in TabRecords /\ t.hist \in Seq(NavPaths) /\ t.pos \in Nat
      /\ Len(t.hist) <= NavHistMax /\ t.pos <= Len(t.hist)
  BY TabParts
<1>2. kept \in Seq(NavPaths) /\ Len(kept) <= NavHistMax
  BY <1>0, <1>1
<1> HIDE DEF kept
<1>3. room \in Seq(NavPaths) /\ Len(room) < NavHistMax
  <2>1. CASE Len(kept) = NavHistMax
    <3>1. kept # <<>> /\ Tail(kept) \in Seq(NavPaths) /\ Len(Tail(kept)) = Len(kept) - 1
      BY <2>1, <1>0, <1>2
    <3> QED
      BY <3>1, <2>1, <1>0
  <2>2. CASE Len(kept) # NavHistMax
    <3>1. Len(kept) \in Nat
      BY <1>2
    <3> QED
      BY <3>1, <2>2, <1>0, <1>2
  <2> QED
    BY <2>1, <2>2
<1> HIDE DEF room
<1>4. Len(room) \in Nat /\ h \in Seq(NavPaths) /\ Len(h) = Len(room) + 1 /\ h # <<>>
  BY <1>3
<1> HIDE DEF h
<1>5. CASE path = "" \/ (t.hist # <<>> /\ t.hist[t.pos] = path)
  BY <1>5 DEF navRecord
<1>6. CASE ~(path = "" \/ (t.hist # <<>> /\ t.hist[t.pos] = path))
  <2>1. u = [t EXCEPT !.hist = h, !.pos = Len(room) + 1]
    BY <1>6 DEF navRecord, h, room, kept
  <2>2. Len(room) + 1 \in Nat /\ Len(room) + 1 # 0 /\ Len(h) <= NavHistMax
    BY <1>0, <1>3, <1>4
  <2> HIDE DEF u
  <2>3. /\ u \in TabRecords /\ u.hist = h /\ u.pos = Len(room) + 1
        /\ u.id = t.id /\ u.pinned = t.pinned /\ u.frozen = t.frozen /\ u.bin = t.bin
    BY <2>1, <2>2, <1>1, <1>4 DEF TabRecords
  <2>4. u \in Tabs
    BY <2>2, <2>3, <1>4 DEF Tabs
  <2> QED
    BY <2>3, <2>4 DEF u
<1> QED
  BY <1>5, <1>6

\* Back and forward keep the cursor on an entry.
LEMMA navStepKeeps ==
  ASSUME NEW t \in Tabs, NEW back \in BOOLEAN,
         IF back THEN canNavBack(t) ELSE canNavForward(t)
  PROVE  LET u == navStep(t, back)
         IN  u \in Tabs /\ u.id = t.id /\ u.pinned = t.pinned /\ u.frozen = t.frozen
             /\ u.bin = t.bin /\ u.hist[u.pos] \in NavPaths
<1> DEFINE p == IF back THEN t.pos - 1 ELSE t.pos + 1
           u == navStep(t, back)
<1>1. /\ t \in TabRecords /\ t.hist \in Seq(NavPaths) /\ t.pos \in Nat
      /\ Len(t.hist) <= NavHistMax /\ t.pos <= Len(t.hist)
  BY TabParts
<1>2. Len(t.hist) \in Nat /\ p \in Nat /\ p # 0 /\ p <= Len(t.hist)
  BY <1>1 DEF canNavBack, canNavForward
<1>3. u = [t EXCEPT !.pos = p]
  BY DEF navStep
<1> HIDE DEF p, u
<1>4. /\ u \in TabRecords /\ u.hist = t.hist /\ u.pos = p
      /\ u.id = t.id /\ u.pinned = t.pinned /\ u.frozen = t.frozen /\ u.bin = t.bin
  BY <1>1, <1>2, <1>3 DEF TabRecords
<1>5. u \in Tabs
  BY <1>1, <1>2, <1>4 DEF Tabs
<1>6. p \in 1 .. Len(t.hist)
  BY <1>2
<1>7. u.hist[u.pos] \in NavPaths
  BY <1>1, <1>4, <1>6
<1> QED
  BY <1>4, <1>5, <1>7 DEF u

\* The reopen list shrinks; the tabs stay.
LEMMA ReopenLastClosedKeeps ==
  ASSUME NEW s, StripOK(s)
  PROVE  LET u == ReopenLastClosed(s)
         IN  StripOK(u) /\ u.tabs = s.tabs /\ u.focus = s.focus
<1> DEFINE named == {j \in DOMAIN s.closed : s.closed[j] # ""}
           last == CHOOSE j \in named : \A k \in named : k <= j
           cl == IF named = {} THEN <<>> ELSE SubSeq(s.closed, 1, last - 1)
           u == ReopenLastClosed(s)
<1>1. s \in Strips /\ s.closed \in Seq(Bins)
  BY StripParts
<1>2. cl \in Seq(Bins)
  <2>1. CASE named = {}
    <3>1. cl = <<>>
      BY <2>1
    <3> HIDE DEF cl
    <3> QED
      BY <3>1
  <2>2. CASE named # {}
    <3>1. named \in SUBSET (1 .. Len(s.closed)) /\ Len(s.closed) \in Nat
      <4>1. DOMAIN s.closed = 1 .. Len(s.closed) /\ Len(s.closed) \in Nat
        BY <1>1
      <4> QED
        BY <4>1
    <3>2. \E j \in named : \A k \in named : k <= j
      BY <3>1, <2>2, HighestPosition
    <3>3. last \in named
      BY <3>2
    <3> HIDE DEF last, named
    <3>4. last \in 1 .. Len(s.closed)
      BY <3>1, <3>3
    <3>5. SubSeq(s.closed, 1, last - 1) \in Seq(Bins)
      BY <3>1, <3>4, <1>1
    <3> QED
      BY <3>5, <2>2
  <2> QED
    BY <2>1, <2>2
<1>3. u = [s EXCEPT !.closed = cl]
  BY DEF ReopenLastClosed
<1> HIDE DEF cl, u
<1>4. u \in Strips /\ u.tabs = s.tabs /\ u.focus = s.focus /\ u.split = s.split
  BY <1>1, <1>2, <1>3 DEF Strips
<1> QED
  BY <1>4 DEF StripOK, u

\* The split changes only while there are two tabs to show.
LEMMA setSplitKeeps ==
  ASSUME NEW s, StripOK(s), NEW kind \in Splits, kind # "none" => Len(s.tabs) >= 2
  PROVE  LET u == setSplit(s, kind)
         IN  StripOK(u) /\ u.tabs = s.tabs /\ u.focus = s.focus
<1> DEFINE u == setSplit(s, kind)
<1>1. s \in Strips
  BY StripParts
<1>2. u \in Strips /\ u.tabs = s.tabs /\ u.focus = s.focus /\ u.split = kind
  <2> DEFINE v == [s EXCEPT !.split = kind]
  <2>1. v \in Strips /\ v.tabs = s.tabs /\ v.focus = s.focus /\ v.split = kind
    BY <1>1 DEF Strips
  <2>2. u = [v EXCEPT !.sash = 0]
    BY <1>1 DEF setSplit, Strips
  <2> HIDE DEF v, u
  <2> QED
    BY <2>1, <2>2 DEF Strips
<1> HIDE DEF u
<1> QED
  BY <1>2 DEF StripOK, u
-----------------------------------------------------------------------------
(* The session file. *)

\* The positions of the tabs that are saved.
LivePos(s) == {i \in DOMAIN s.tabs : s.tabs[i].id < sessionIDBase}

\* The rows saved are those of the live tabs, in strip order.
LEMMA SessionRowsAre ==
  ASSUME NEW s, StripOK(s)
  PROVE  LET rows == sessionRows(s).rows
             o == InOrder(LivePos(s))
             c == Cardinality(LivePos(s))
         IN  /\ c \in Nat /\ c <= MaxTabs
             /\ rows \in Seq(Rows) /\ Len(rows) = c /\ DOMAIN rows = 1 .. c
             /\ \A k \in 1 .. c : o[k] \in DOMAIN s.tabs /\ rows[k] = RowOf(s.tabs[o[k]])
             /\ sessionRows(s).active \in 0 .. c
             /\ sessionRows(s) = [rows |-> rows, active |-> sessionRows(s).active]
<1> DEFINE q == s.tabs
           I == LivePos(s)
           o == InOrder(I)
           c == Cardinality(I)
           live == KeptAt(q, I)
           act == {i \in DOMAIN live : live[i].id = Focused(s)}
           rows == [i \in DOMAIN live |-> RowOf(live[i])]
           active == IF act = {} THEN 0 ELSE CHOOSE i \in act : TRUE
<1>1. q \in Seq(Tabs) /\ Len(q) \in Nat /\ (\A i \in DOMAIN q : q[i] \in Tabs) /\ Len(q) <= MaxTabs
  BY StripParts DEF StripOK
<1>2. I \in SUBSET (DOMAIN q)
  BY DEF LivePos
<1>3. sessionRows(s) = [rows |-> rows, active |-> active]
  BY DEF sessionRows, LivePos
<1> HIDE DEF I
<1>4. /\ c \in Nat /\ c <= Len(q) /\ DOMAIN live = 1 .. c
      /\ \A k \in 1 .. c : o[k] \in I /\ live[k] = q[o[k]]
  BY <1>1, <1>2, KeptSeq
<1> HIDE DEF live, c, o
<1>5. ASSUME NEW k \in 1 .. c
      PROVE  o[k] \in DOMAIN q /\ rows[k] = RowOf(q[o[k]]) /\ rows[k] \in Rows
  <2>1. o[k] \in DOMAIN q /\ live[k] = q[o[k]]
    BY <1>2, <1>4
  <2>2. q[o[k]] \in Tabs
    BY <2>1, <1>1
  <2>3. RowOf(q[o[k]]) \in Rows
    <3> DEFINE t == q[o[k]]
    <3>1. t.title \in Titles /\ t.bin \in Bins /\ t.pinned \in BOOLEAN /\ t.frozen \in BOOLEAN
      BY <2>2, TabParts
    <3> HIDE DEF t
    <3>2. RowOf(t) \in Rows
      BY <3>1 DEF RowOf, Rows
    <3> QED
      BY <3>2 DEF t
  <2>4. rows[k] = RowOf(live[k])
    BY <1>4
  <2> QED
    BY <2>1, <2>3, <2>4
<1>6. DOMAIN rows = 1 .. c
  BY <1>4
<1>7. active \in 0 .. c
  <2>1. act \subseteq 1 .. c
    BY <1>4
  <2>2. CASE act = {}
    BY <2>2, <1>4
  <2>3. CASE act # {}
    <3>1. active \in act
      BY <2>3
    <3> QED
      BY <3>1, <2>1, <1>4
  <2> QED
    BY <2>2, <2>3
<1>8. rows = [k \in 1 .. c |-> rows[k]]
  BY <1>6
<1> HIDE DEF rows, active
<1>9. rows \in Seq(Rows) /\ Len(rows) = c
  BY <1>4, <1>5, <1>8
<1>10. c <= MaxTabs
  BY <1>1, <1>4, DeskBounds
<1>11. sessionRows(s).rows = rows /\ sessionRows(s).active = active
  BY <1>3
<1> QED
  BY <1>3, <1>4, <1>5, <1>6, <1>7, <1>9, <1>10, <1>11 DEF o, c, I, q

\* What is saved is a session file.
LEMMA SessionRowsFile ==
  ASSUME NEW s, StripOK(s)
  PROVE  FileOK(sessionRows(s))
<1> DEFINE f == sessionRows(s)
           c == Cardinality(LivePos(s))
<1>1. /\ c \in Nat /\ c <= MaxTabs /\ f.rows \in Seq(Rows) /\ Len(f.rows) = c
      /\ f.active \in 0 .. c /\ f = [rows |-> f.rows, active |-> f.active]
  BY SessionRowsAre
<1> HIDE DEF f, c
<1>2. f \in Files
  BY <1>1 DEF Files
<1>3. FileOK(f)
  BY <1>1, <1>2 DEF FileOK
<1> QED
  BY <1>3 DEF f

\* A file that tells a strip's rows tells those of any alike strip.
LEMMA AlikeTells ==
  ASSUME NEW s, NEW u, StripOK(s), StripOK(u), Alike(s, u), NEW saved,
         sessionRows(s).rows # <<>> => Tells(saved, sessionRows(s).rows),
         sessionRows(u).rows # <<>>
  PROVE  Tells(saved, sessionRows(u).rows)
<1> DEFINE a == sessionRows(s).rows
           b == sessionRows(u).rows
           o == InOrder(LivePos(s))
           c == Cardinality(LivePos(s))
<1>1. LivePos(u) = LivePos(s)
  BY DEF LivePos, Alike
<1>2. /\ c \in Nat /\ a \in Seq(Rows) /\ Len(a) = c /\ DOMAIN a = 1 .. c
      /\ \A k \in 1 .. c : o[k] \in DOMAIN s.tabs /\ a[k] = RowOf(s.tabs[o[k]])
  BY SessionRowsAre
<1>3. /\ b \in Seq(Rows) /\ Len(b) = c /\ DOMAIN b = 1 .. c
      /\ \A k \in 1 .. c : b[k] = RowOf(u.tabs[o[k]])
  BY SessionRowsAre, <1>1
<1>4. b # <<>>
  OBVIOUS
<1> HIDE DEF b, c, o
<1>5. a # <<>>
  <2> HIDE DEF a
  <2> QED
    BY <1>2, <1>3, <1>4
<1>6. Tells(saved, a)
  BY <1>5
<1> HIDE DEF a
<1>7. ASSUME NEW k \in DOMAIN b
      PROVE  /\ saved[k].pinned = b[k].pinned /\ saved[k].frozen = b[k].frozen
             /\ saved[k].bin \in {b[k].bin, ""}
  <2> DEFINE i == o[k]
  <2>1. k \in 1 .. c /\ k \in DOMAIN a
    BY <1>2, <1>3
  <2>2. i \in DOMAIN s.tabs /\ a[k] = RowOf(s.tabs[i]) /\ b[k] = RowOf(u.tabs[i])
    BY <2>1, <1>2, <1>3
  <2>3. /\ saved[k].pinned = a[k].pinned /\ saved[k].frozen = a[k].frozen
        /\ saved[k].bin \in {a[k].bin, ""}
    BY <2>1, <1>6 DEF Tells
  <2> HIDE DEF i
  <2>4. /\ u.tabs[i].pinned = s.tabs[i].pinned /\ u.tabs[i].frozen = s.tabs[i].frozen
        /\ s.tabs[i].bin \in {u.tabs[i].bin, ""}
    BY <2>2 DEF Alike
  <2>5. /\ a[k].pinned = s.tabs[i].pinned /\ a[k].frozen = s.tabs[i].frozen
        /\ a[k].bin = s.tabs[i].bin
        /\ b[k].pinned = u.tabs[i].pinned /\ b[k].frozen = u.tabs[i].frozen
        /\ b[k].bin = u.tabs[i].bin
    BY <2>2 DEF RowOf
  <2> QED
    BY <2>3, <2>4, <2>5
<1>8. Len(saved) = Len(b)
  BY <1>2, <1>3, <1>6 DEF Tells
<1> QED
  BY <1>7, <1>8 DEF Tells, b

\* Rows restored from the file are placeholders and none of them is saved.
LEMMA applyTabsV2Keeps ==
  ASSUME NEW f, FileOK(f)
  PROVE  LET s == applyTabsV2(f)
         IN  StripOK(s) /\ sessionRows(s).rows = <<>>
<1> DEFINE n == Len(f.rows)
           tab(i) == [NewTab(sessionIDBase + i, f.rows[i].title)
                        EXCEPT !.bin = f.rows[i].bin, !.pinned = f.rows[i].pinned,
                               !.frozen = f.rows[i].frozen]
           ts == [i \in DOMAIN f.rows |-> tab(i)]
           fo == IF f.active = 0 THEN 1 ELSE f.active
           s == applyTabsV2(f)
<1>1. /\ f.rows \in Seq(Rows) /\ f.active \in Nat /\ n \in Nat /\ n <= MaxTabs /\ f.active <= n
      /\ DOMAIN f.rows = 1 .. n
  BY DEF FileOK, Files
<1>2. ASSUME NEW i \in 1 .. n
      PROVE  tab(i) \in Tabs /\ tab(i).id = sessionIDBase + i
  <2> DEFINE r == f.rows[i]
             t == NewTab(sessionIDBase + i, r.title)
             v == [t EXCEPT !.bin = r.bin]
             w == [v EXCEPT !.pinned = r.pinned]
             x == [w EXCEPT !.frozen = r.frozen]
  <2>1. r \in Rows
    BY <1>1
  <2>2. r.title \in Titles /\ r.bin \in Bins /\ r.pinned \in BOOLEAN /\ r.frozen \in BOOLEAN
    BY <2>1 DEF Rows
  <2>3. sessionIDBase + i \in Nat \ {0}
    BY <1>1 DEF sessionIDBase
  <2> HIDE DEF r
  <2>4. t \in Tabs /\ t.id = sessionIDBase + i
    BY <2>2, <2>3, NewTabType
  <2> HIDE DEF t
  <2>5. v \in Tabs /\ v.id = sessionIDBase + i
    BY <2>2, <2>4 DEF Tabs, TabRecords
  <2> HIDE DEF v
  <2>6. w \in Tabs /\ w.id = sessionIDBase + i
    BY <2>2, <2>5 DEF Tabs, TabRecords
  <2> HIDE DEF w
  <2>7. x \in Tabs /\ x.id = sessionIDBase + i
    BY <2>2, <2>6 DEF Tabs, TabRecords
  <2>8. tab(i) = x
    BY <2>4, <2>5 DEF x, w, v, t, r, Tabs, TabRecords
  <2> HIDE DEF x, tab
  <2> QED
    BY <2>7, <2>8
<1>3. s = [EmptyStrip EXCEPT !.tabs = ts, !.focus = fo]
  BY DEF applyTabsV2
<1> HIDE DEF tab
<1>4. /\ DOMAIN ts = 1 .. n /\ \A i \in 1 .. n : ts[i] = tab(i)
      /\ ts = [i \in 1 .. n |-> tab(i)]
  BY <1>1
<1> HIDE DEF ts
<1>5. ts \in Seq(Tabs) /\ Len(ts) = n
  BY <1>1, <1>2, <1>4
<1>6. fo \in Nat /\ fo >= 1 /\ (n # 0 => fo \in 1 .. n) /\ (n = 0 => fo = 1)
  BY <1>1
<1> HIDE DEF fo, n
<1>7. s = [tabs |-> ts, focus |-> fo, split |-> "none", sash |-> 0, closed |-> <<>>]
  BY <1>3 DEF EmptyStrip
<1> HIDE DEF s
<1>8. s \in Strips /\ s.tabs = ts /\ s.focus = fo /\ s.split = "none"
  <2>1. "none" \in Splits /\ <<>> \in Seq(Bins)
    BY DEF Splits
  <2> QED
    BY <2>1, <1>5, <1>6, <1>7 DEF Strips
<1>9. \A i, j \in 1 .. n : ts[i].id = ts[j].id => i = j
  <2>1. ASSUME NEW i \in 1 .. n, NEW j \in 1 .. n, ts[i].id = ts[j].id PROVE i = j
    <3>1. sessionIDBase + i = sessionIDBase + j
      BY <2>1, <1>2, <1>4
    <3> QED
      BY <3>1, <1>1 DEF sessionIDBase
  <2> QED
    BY <2>1
<1>10. ts = <<>> <=> n = 0
  BY <1>1, <1>5
<1>11. StripOK(s)
  BY <1>1, <1>4, <1>5, <1>6, <1>8, <1>9, <1>10 DEF StripOK
<1>12. LivePos(s) = {}
  <2>1. ASSUME NEW i \in 1 .. n PROVE ~(ts[i].id < sessionIDBase)
    BY <1>1, <1>2, <1>4 DEF sessionIDBase
  <2> QED
    BY <2>1, <1>4, <1>8 DEF LivePos
<1>13. Cardinality(LivePos(s)) = 0
  BY <1>12, FS_EmptySet
<1>14. sessionRows(s).rows \in Seq(Rows) /\ Len(sessionRows(s).rows) = Cardinality(LivePos(s))
  BY <1>11, SessionRowsAre
<1>15. sessionRows(s).rows = <<>>
  BY <1>13, <1>14
<1> QED
  BY <1>11, <1>15 DEF s
-----------------------------------------------------------------------------
(* The desk. *)

\* What the invariant reads of a desk besides its strip.
SameQueues(d, e) ==
  /\ e.pend = d.pend /\ e.toasts = d.toasts /\ e.painted = d.painted

SameSession(d, e) ==
  /\ e.up = d.up /\ e.dirty = d.dirty /\ e.file = d.file /\ e.demo.on = d.demo.on

\* Where the ids are the same and stand elsewhere, the same tab has the focus.
FocusKept(s, u) ==
  Ids(s) # Ids(u) /\ ToSet(Ids(s)) = ToSet(Ids(u)) => Focused(u) = Focused(s)

\* A step that touches neither the strip nor what must agree with it.
Same(d, e) == e \in Desks /\ e.strip = d.strip /\ SameQueues(d, e) /\ SameSession(d, e)

\* A step after which every tab is where it was, with its badges.
Mild(d, e) == Sound(e) /\ Alike(d.strip, e.strip) /\ SameSession(d, e)

\* A step that keeps everything that is to be kept.
Keeps(d, e) ==
  /\ Sound(e) /\ (Tracks(d) => Tracks(e)) /\ FocusKept(d.strip, e.strip)
  /\ e.up = d.up /\ e.demo.on = d.demo.on

LEMMA SameMild ==
  ASSUME NEW d, NEW e, Sound(d), Same(d, e)
  PROVE  Mild(d, e)
<1>1. Alike(d.strip, e.strip)
  BY AlikeSame DEF Same
<1>2. StripOK(e.strip) /\ FileOK(e.file) /\ e \in Desks
  BY DEF Same, SameSession, Sound
<1>3. Targets(e)
  BY DEF Same, SameQueues, Sound, Targets
<1> QED
  BY <1>1, <1>2, <1>3 DEF Mild, Same, Sound

\* The queues stay live while no tab leaves the strip.
LEMMA GrownSound ==
  ASSUME NEW d, NEW e, Sound(d), e \in Desks, StripOK(e.strip),
         \A w : Has(d.strip, w) => Has(e.strip, w), SameQueues(d, e), e.file = d.file
  PROVE  Sound(e)
BY DEF Sound, Targets, SameQueues

LEMMA AlikeMild ==
  ASSUME NEW d, NEW e, Sound(d), e \in Desks, StripOK(e.strip),
         Alike(d.strip, e.strip), SameQueues(d, e), SameSession(d, e)
  PROVE  Mild(d, e)
BY GrownSound, AlikeHas DEF Mild, SameSession

LEMMA MildTrans ==
  ASSUME NEW d, NEW e, NEW f, Mild(d, e), Mild(e, f)
  PROVE  Mild(d, f)
<1>1. Alike(d.strip, f.strip)
  BY DEF Mild, Alike
<1> QED
  BY <1>1 DEF Mild, SameSession

LEMMA AlikeFocus ==
  ASSUME NEW s, NEW u, Alike(s, u)
  PROVE  FocusKept(s, u)
BY AlikeHas DEF FocusKept

\* A window of a strip is among its ids.
LEMMA IdsHas ==
  ASSUME NEW s, NEW w
  PROVE  w \in ToSet(Ids(s)) <=> Has(s, w)
<1>1. DOMAIN Ids(s) = DOMAIN s.tabs /\ \A i \in DOMAIN s.tabs : Ids(s)[i] = s.tabs[i].id
  BY DEF Ids
<1>2. w \in ToSet(Ids(s)) <=> \E i \in DOMAIN s.tabs : Ids(s)[i] = w
  BY <1>1 DEF ToSet
<1>3. Has(s, w) <=> \E i \in DOMAIN s.tabs : s.tabs[i].id = w
  BY DEF Has, index
<1> QED
  BY <1>1, <1>2, <1>3

\* When a window came or went, the tabs were not merely rearranged.
LEMMA OtherFocus ==
  ASSUME NEW s, NEW u, NEW w, ~(Has(s, w) <=> Has(u, w))
  PROVE  FocusKept(s, u)
<1>1. ~(w \in ToSet(Ids(s)) <=> w \in ToSet(Ids(u)))
  BY IdsHas
<1> QED
  BY <1>1 DEF FocusKept

LEMMA MildKeeps ==
  ASSUME NEW d, NEW e, Sound(d), Mild(d, e)
  PROVE  Keeps(d, e)
<1>1. StripOK(d.strip) /\ StripOK(e.strip)
  BY DEF Mild, Sound
<1>2. ASSUME Tracks(d) PROVE Tracks(e)
  <2>1. SUFFICES ASSUME d.up, ~d.demo.on, ~d.dirty, sessionRows(e.strip).rows # <<>>
                 PROVE  Tells(d.file.rows, sessionRows(e.strip).rows)
    BY DEF Tracks, Mild, SameSession
  <2>2. sessionRows(d.strip).rows # <<>> => Tells(d.file.rows, sessionRows(d.strip).rows)
    BY <1>2, <2>1 DEF Tracks
  <2> QED
    BY <1>1, <2>1, <2>2, AlikeTells DEF Mild
<1>3. FocusKept(d.strip, e.strip)
  BY AlikeFocus DEF Mild
<1> QED
  BY <1>2, <1>3 DEF Keeps, Mild, SameSession

LEMMA KeepsSame ==
  ASSUME NEW d, NEW e, NEW f, Keeps(d, e), Same(e, f)
  PROVE  Keeps(d, f)
<1>1. Sound(e) /\ Mild(e, f)
  BY SameMild DEF Keeps
<1>2. Keeps(e, f)
  BY <1>1, MildKeeps
<1>3. f.strip = e.strip
  BY DEF Same
<1> QED
  BY <1>2, <1>3 DEF Keeps

LEMMA SameKeeps ==
  ASSUME NEW d, NEW e, NEW f, Sound(d), Same(d, e), Keeps(e, f)
  PROVE  Keeps(d, f)
<1>1. Keeps(d, e)
  BY SameMild, MildKeeps
<1>2. e.strip = d.strip
  BY DEF Same
<1> QED
  BY <1>1, <1>2 DEF Keeps
-----------------------------------------------------------------------------
(* Publishing the session. *)

\* A publication: what is written is what the strip holds.
LEMMA writeSessionKeeps ==
  ASSUME NEW d, Sound(d), NEW ok \in BOOLEAN
  PROVE  LET e == writeSession(d, ok)
         IN  /\ Sound(e) /\ e.strip = d.strip /\ e.up = d.up /\ e.demo = d.demo
             /\ e.alive = d.alive /\ (d.dirty \/ Tracks(d) => Tracks(e))
             /\ e.ptr = d.ptr /\ SameQueues(d, e)
<1> DEFINE body == sessionRows(d.strip)
           e == writeSession(d, ok)
<1>1. CASE body.rows = <<>> \/ ~ok
  <2>1. e = d
    BY <1>1 DEF writeSession
  <2>2. d.dirty => Tracks(d)
    BY DEF Tracks
  <2> QED
    BY <2>1, <2>2 DEF SameQueues
<1>2. CASE ~(body.rows = <<>> \/ ~ok)
  <2>1. e = [d EXCEPT !.file = body, !.dirty = FALSE]
    BY <1>2 DEF writeSession
  <2>2. d \in Desks /\ StripOK(d.strip)
    BY DEF Sound
  <2>3. FileOK(body) /\ body \in Files
    BY <2>2, SessionRowsFile DEF FileOK
  <2> HIDE DEF e, body
  <2>4. /\ e \in Desks /\ e.file = body /\ e.strip = d.strip /\ e.up = d.up /\ e.demo = d.demo
        /\ e.alive = d.alive /\ e.ptr = d.ptr /\ SameQueues(d, e)
    BY <2>1, <2>2, <2>3 DEF Desks, SameQueues
  <2>5. Sound(e)
    BY <2>3, <2>4 DEF Sound, Targets, SameQueues
  <2>6. Tells(body.rows, body.rows)
    BY DEF Tells
  <2>7. Tracks(e)
    BY <2>4, <2>6 DEF Tracks, body
  <2> QED
    BY <2>4, <2>5, <2>7 DEF e
<1> QED
  BY <1>1, <1>2

\* After a change that is written through, the file tells the strip, or is
\* known not to.
LEMMA noteSessionMutationKeeps ==
  ASSUME NEW d, Sound(d), NEW ok \in BOOLEAN
  PROVE  LET e == noteSessionMutation(d, ok)
         IN  /\ Sound(e) /\ Tracks(e) /\ e.strip = d.strip /\ e.up = d.up /\ e.demo = d.demo
             /\ e.alive = d.alive /\ e.ptr = d.ptr /\ SameQueues(d, e)
<1> DEFINE f == [d EXCEPT !.dirty = TRUE]
<1>0. d \in Desks
  BY DEF Sound
<1>1. /\ f \in Desks /\ f.dirty = TRUE /\ f.strip = d.strip /\ f.up = d.up /\ f.demo = d.demo
      /\ f.alive = d.alive /\ f.ptr = d.ptr /\ SameQueues(d, f) /\ f.file = d.file
  BY <1>0 DEF Desks, SameQueues
<1> HIDE DEF f
<1>2. Sound(f)
  BY <1>1 DEF Sound, Targets, SameQueues
<1>3. noteSessionMutation(d, ok) = writeSession(f, ok)
  BY DEF noteSessionMutation, f
<1> DEFINE e == writeSession(f, ok)
<1>4. /\ Sound(e) /\ e.strip = f.strip /\ e.up = f.up /\ e.demo = f.demo
      /\ e.alive = f.alive /\ (f.dirty \/ Tracks(f) => Tracks(e))
      /\ e.ptr = f.ptr /\ SameQueues(f, e)
  BY <1>2, writeSessionKeeps
<1> HIDE DEF e
<1>5. Tracks(e)
  BY <1>1, <1>4
<1>6. SameQueues(d, e)
  BY <1>1, <1>4 DEF SameQueues
<1>7. noteSessionMutation(d, ok) = e
  BY <1>3 DEF e
<1> QED
  BY <1>1, <1>4, <1>5, <1>6, <1>7
-----------------------------------------------------------------------------
(* The panes. *)

\* Assigning the strip.
LEMMA SetStrip ==
  ASSUME NEW d \in Desks, NEW x \in Strips
  PROVE  LET e == [d EXCEPT !.strip = x]
         IN  /\ e \in Desks /\ e.strip = x /\ SameQueues(d, e) /\ SameSession(d, e)
             /\ e.alive = d.alive /\ e.rect = d.rect /\ e.demo = d.demo /\ e.ptr = d.ptr
             /\ e.launch = d.launch
BY DEF Desks, SameQueues, SameSession

\* A sound strip that shows the same tabs may replace the desk's.
LEMMA SetStripMild ==
  ASSUME NEW d, Sound(d), NEW x, StripOK(x), Alike(d.strip, x)
  PROVE  LET e == [d EXCEPT !.strip = x]
         IN  Mild(d, e) /\ e.strip = x /\ e.alive = d.alive /\ e.demo = d.demo /\ e.ptr = d.ptr
<1> DEFINE e == [d EXCEPT !.strip = x]
<1>1. d \in Desks /\ x \in Strips
  BY StripParts DEF Sound
<1>2. /\ e \in Desks /\ e.strip = x /\ SameQueues(d, e) /\ SameSession(d, e)
      /\ e.alive = d.alive /\ e.demo = d.demo /\ e.ptr = d.ptr
  BY <1>1, SetStrip
<1> HIDE DEF e
<1>3. Mild(d, e)
  BY <1>2, AlikeMild
<1> QED
  BY <1>2, <1>3 DEF e

\* Half of the divider's gutter.
LEMMA HalfSash ==
  /\ SashWidth \div 2 \in Nat /\ 2 * (SashWidth \div 2) <= SashWidth
  /\ ScanLen \div 2 \in Nat /\ 2 * (ScanLen \div 2) <= ScanLen
  /\ ScanLen <= 2 * (ScanLen \div 2) + 1
BY PanesPossible

\* A clamped divider leaves both panes their minimum.
LEMMA clampSashBounds ==
  ASSUME NEW pos \in Int
  PROVE  LET c == clampSash(pos)
             half == SashWidth \div 2
         IN  c \in Int /\ PaneMin + half <= c /\ c <= ScanLen - PaneMin - half
<1> DEFINE half == SashWidth \div 2
<1>1. half \in Nat /\ 2 * half <= SashWidth
  BY HalfSash
<1>2. clampSash(pos) = IF pos < PaneMin + half THEN PaneMin + half
                       ELSE IF pos > ScanLen - PaneMin - half THEN ScanLen - PaneMin - half
                       ELSE pos
  BY DEF clampSash
<1> HIDE DEF half
<1> QED
  BY <1>1, <1>2, PanesPossible DEF half

\* The panes are rectangles.
LEMMA PaneRectTypes ==
  ASSUME NEW kind \in Splits, NEW sash \in Int
  PROVE  SplitRectsSash(kind, sash) \in Seq(Rects) /\ Len(SplitRectsSash(kind, sash)) = 2
<1> DEFINE half == SashWidth \div 2
           left == ScanLen \div 2
           c == clampSash(sash)
           rs == SplitRectsSash(kind, sash)
<1>1. half \in Int /\ left \in Int /\ c \in Int /\ ScanLen \in Int
  BY HalfSash, clampSashBounds, PanesPossible
<1>2. CASE kind = "none"
  <2>1. rs = <<Full, Full>>
    BY <1>2 DEF SplitRectsSash
  <2>2. Full \in Rects
    BY <1>1 DEF Full, Rects, Splits
  <2> HIDE DEF rs
  <2> QED
    BY <2>1, <2>2 DEF rs
<1>3. CASE kind # "none" /\ sash <= 0
  <2>1. rs = <<[axis |-> kind, at |-> 0, len |-> left],
               [axis |-> kind, at |-> left, len |-> ScanLen - left]>>
    BY <1>3 DEF SplitRectsSash, SplitRects
  <2>2. /\ [axis |-> kind, at |-> 0, len |-> left] \in Rects
        /\ [axis |-> kind, at |-> left, len |-> ScanLen - left] \in Rects
    BY <1>1 DEF Rects
  <2> HIDE DEF rs
  <2> QED
    BY <2>1, <2>2 DEF rs
<1>4. CASE kind # "none" /\ ~(sash <= 0)
  <2>1. rs = <<[axis |-> kind, at |-> 0, len |-> c - half],
               [axis |-> kind, at |-> c + half, len |-> ScanLen - (c + half)]>>
    BY <1>4 DEF SplitRectsSash
  <2>2. /\ [axis |-> kind, at |-> 0, len |-> c - half] \in Rects
        /\ [axis |-> kind, at |-> c + half, len |-> ScanLen - (c + half)] \in Rects
    BY <1>1 DEF Rects
  <2> HIDE DEF rs
  <2> QED
    BY <2>1, <2>2 DEF rs
<1> QED
  BY <1>2, <1>3, <1>4

\* The kernel's rectangles change, nothing else.
LEMMA applyRectsSame ==
  ASSUME NEW d \in Desks, NEW rs \in Seq(Rects)
  PROVE  LET e == applyRects(d, rs)
         IN  Same(d, e) /\ e.alive = d.alive /\ e.ptr = d.ptr /\ e.demo = d.demo
<1> DEFINE ok(i) == \A j \in 1 .. i : d.strip.tabs[j].id \in d.alive
           set == {d.strip.tabs[i].id : i \in {j \in DOMAIN rs : ok(j)}}
           at(w) == CHOOSE i \in DOMAIN rs : d.strip.tabs[i].id = w
           r == [w \in Windows |-> IF w \in set THEN rs[at(w)] ELSE d.rect[w]]
           e == applyRects(d, rs)
<1>1. d.rect \in [Windows -> Rects]
  BY DEF Desks
<1>2. ASSUME NEW w \in set PROVE rs[at(w)] \in Rects
  <2>1. \E i \in DOMAIN rs : d.strip.tabs[i].id = w
    BY <1>2
  <2>2. at(w) \in DOMAIN rs
    BY <2>1
  <2> QED
    BY <2>2
<1>3. e = [d EXCEPT !.rect = r]
  BY DEF applyRects
<1> HIDE DEF set, at
<1>4. r \in [Windows -> Rects]
  BY <1>1, <1>2
<1> HIDE DEF r, e
<1>5. /\ e \in Desks /\ e.strip = d.strip /\ SameQueues(d, e) /\ SameSession(d, e)
      /\ e.alive = d.alive /\ e.ptr = d.ptr /\ e.demo = d.demo
  BY <1>3, <1>4 DEF Desks, SameQueues, SameSession
<1> QED
  BY <1>5 DEF e, Same

LEMMA applySplitMild ==
  ASSUME NEW d, Sound(d), NEW kind \in Splits
  PROVE  Mild(d, applySplit(d, kind)) /\ applySplit(d, kind).alive = d.alive
<1> DEFINE x == setSplit(d.strip, kind)
           e == [d EXCEPT !.strip = x]
           rs == PaneRects(x)
<1>1. CASE Len(d.strip.tabs) # 2
  <2>1. applySplit(d, kind) = d
    BY <1>1 DEF applySplit
  <2>2. Mild(d, d)
    BY AlikeSame DEF Mild, SameSession
  <2> QED
    BY <2>1, <2>2
<1>2. CASE Len(d.strip.tabs) = 2
  <2>1. StripOK(d.strip) /\ d \in Desks
    BY DEF Sound
  <2>2. StripOK(x) /\ x.tabs = d.strip.tabs
    BY <1>2, <2>1, setSplitKeeps
  <2> HIDE DEF x
  <2>3. Mild(d, e) /\ e.strip = x /\ e.alive = d.alive
    BY <2>2, AlikeSame, SetStripMild
  <2>4. applySplit(d, kind) = applyRects(e, PaneRects(e.strip))
    BY <1>2 DEF applySplit, x
  <2> HIDE DEF e
  <2>5. x.split \in Splits /\ x.sash \in Int
    BY <2>2, StripParts
  <2>6. rs \in Seq(Rects)
    BY <2>5, PaneRectTypes DEF PaneRects
  <2> HIDE DEF rs
  <2>7. Sound(e) /\ e \in Desks
    BY <2>3 DEF Mild, Sound
  <2>8. Same(e, applyRects(e, rs)) /\ applyRects(e, rs).alive = e.alive
    BY <2>6, <2>7, applyRectsSame
  <2>9. Mild(e, applyRects(e, rs))
    BY <2>7, <2>8, SameMild
  <2>10. applySplit(d, kind) = applyRects(e, rs)
    BY <2>3, <2>4 DEF rs
  <2> QED
    BY <2>3, <2>8, <2>9, <2>10, MildTrans
<1> QED
  BY <1>1, <1>2

LEMMA applyUnsplitMild ==
  ASSUME NEW d, Sound(d)
  PROVE  Mild(d, applyUnsplit(d)) /\ applyUnsplit(d).alive = d.alive
<1> DEFINE x == Unsplit(d.strip)
           e == [d EXCEPT !.strip = x]
           rs == [i \in DOMAIN x.tabs |-> Full]
<1>1. StripOK(d.strip) /\ d \in Desks /\ "none" \in Splits
  BY DEF Sound, Splits
<1>2. StripOK(x) /\ x.tabs = d.strip.tabs
  BY <1>1, setSplitKeeps DEF Unsplit
<1> HIDE DEF x
<1>3. Mild(d, e) /\ e.strip = x /\ e.alive = d.alive
  BY <1>2, AlikeSame, SetStripMild
<1>4. rs \in Seq(Rects)
  <2>1. Full \in Rects
    BY PanesPossible DEF Full, Rects, Splits
  <2>2. DOMAIN x.tabs = 1 .. Len(x.tabs) /\ Len(x.tabs) \in Nat
    BY <1>2, StripParts
  <2> QED
    BY <2>1, <2>2
<1>5. applyUnsplit(d) = applyRects(e, rs)
  <2>1. applyUnsplit(d) = applyRects(e, [i \in DOMAIN e.strip.tabs |-> Full])
    BY DEF applyUnsplit, x
  <2> HIDE DEF e
  <2> QED
    BY <2>1, <1>3
<1> HIDE DEF e, rs
<1>6. Sound(e) /\ e \in Desks
  BY <1>3 DEF Mild, Sound
<1>7. Same(e, applyRects(e, rs)) /\ applyRects(e, rs).alive = e.alive
  BY <1>4, <1>6, applyRectsSame
<1>8. Mild(e, applyRects(e, rs))
  BY <1>6, <1>7, SameMild
<1> QED
  BY <1>3, <1>5, <1>7, <1>8, MildTrans

LEMMA applySashDragMild ==
  ASSUME NEW d, Sound(d), NEW pos \in Int
  PROVE  Mild(d, applySashDrag(d, pos))
<1> DEFINE to == clampSash(pos)
           rs == SplitRectsSash(d.strip.split, to)
           e == applyRects(d, rs)
           f == [e EXCEPT !.strip.sash = to]
           x == [e.strip EXCEPT !.sash = to]
<1>1. to \in Int
  BY clampSashBounds
<1>2. d \in Desks /\ StripOK(d.strip) /\ d.strip.split \in Splits
  BY StripParts DEF Sound
<1> HIDE DEF to
<1>3. rs \in Seq(Rects)
  BY <1>1, <1>2, PaneRectTypes
<1>4. Same(d, e)
  BY <1>2, <1>3, applyRectsSame
<1>5. Mild(d, e) /\ Mild(d, d)
  BY <1>4, SameMild, AlikeSame DEF Mild, SameSession
<1>6. applySashDrag(d, pos) \in {d, e, f}
  BY DEF applySashDrag, to
<1> HIDE DEF e, rs
<1>7. e \in Desks /\ e.strip = d.strip /\ Sound(e)
  BY <1>4, <1>5 DEF Same, Mild
<1>8. f = [e EXCEPT !.strip = x]
  BY <1>7 DEF Desks, Strips
<1>9. x \in Strips /\ x.tabs = e.strip.tabs /\ x.focus = e.strip.focus /\ x.split = e.strip.split
  BY <1>1, <1>2, <1>7, StripParts DEF Strips
<1> HIDE DEF x
<1>10. StripOK(x)
  BY <1>2, <1>7, <1>9 DEF StripOK
<1>11. Mild(e, [e EXCEPT !.strip = x])
  BY <1>7, <1>9, <1>10, AlikeSame, SetStripMild
<1> QED
  BY <1>5, <1>6, <1>8, <1>11, MildTrans

LEMMA applySplitCycleMild ==
  ASSUME NEW d, Sound(d)
  PROVE  Mild(d, applySplitCycle(d))
<1>1. "h" \in Splits /\ "v" \in Splits
  BY DEF Splits
<1>2. Mild(d, applySplit(d, "h")) /\ Mild(d, applySplit(d, "v")) /\ Mild(d, applyUnsplit(d))
  BY <1>1, applySplitMild, applyUnsplitMild
<1> QED
  BY <1>2 DEF applySplitCycle
-----------------------------------------------------------------------------
(* The toasts. *)

\* A shorter queue of the same senders; the paint latch follows it.
LEMMA notifyQueueSetKeeps ==
  ASSUME NEW d \in Desks, NEW q \in Seq(Toasts)
  PROVE  LET e == notifyQueueSet(d, q)
         IN  /\ e \in Desks /\ e.toasts = q /\ (e.painted => e.toasts # <<>>)
             /\ e.strip = d.strip /\ e.pend = d.pend /\ SameSession(d, e)
             /\ e.alive = d.alive /\ e.ptr = d.ptr /\ e.demo = d.demo /\ e.rect = d.rect
<1> DEFINE p == IF q = <<>> THEN FALSE ELSE d.painted
           e == notifyQueueSet(d, q)
<1>1. p \in BOOLEAN /\ (p => q # <<>>)
  BY DEF Desks
<1>2. e = [d EXCEPT !.toasts = q, !.painted = p]
  BY DEF notifyQueueSet
<1> HIDE DEF p, e
<1>3. /\ e \in Desks /\ e.toasts = q /\ e.painted = p
      /\ e.strip = d.strip /\ e.pend = d.pend /\ SameSession(d, e)
      /\ e.alive = d.alive /\ e.ptr = d.ptr /\ e.demo = d.demo /\ e.rect = d.rect
  BY <1>1, <1>2 DEF Desks, SameSession
<1>4. e.painted => e.toasts # <<>>
  BY <1>1, <1>3
<1> QED
  BY <1>3, <1>4 DEF e

\* The toasts of one sender go, the others stay.
LEMMA clearNotifyKeeps ==
  ASSUME NEW d \in Desks, NEW id
  PROVE  LET e == clearNotify(d, id)
         IN  /\ e \in Desks /\ (e.painted => e.toasts # <<>>)
             /\ \A k \in DOMAIN e.toasts :
                  e.toasts[k].id # id /\ \E i \in DOMAIN d.toasts : e.toasts[k].id = d.toasts[i].id
             /\ e.strip = d.strip /\ e.pend = d.pend /\ SameSession(d, e)
             /\ e.alive = d.alive /\ e.ptr = d.ptr /\ e.demo = d.demo /\ e.rect = d.rect
<1> DEFINE q == d.toasts
           I == {i \in DOMAIN q : q[i].id # id}
           r == KeptAt(q, I)
           o == InOrder(I)
           c == Cardinality(I)
           e == clearNotify(d, id)
<1>1. q \in Seq(Toasts)
  BY DEF Desks
<1>2. I \in SUBSET (DOMAIN q)
  OBVIOUS
<1>3. \A i \in I : i \in DOMAIN q /\ q[i].id # id
  OBVIOUS
<1>4. e = notifyQueueSet(d, r)
  BY DEF clearNotify
<1> HIDE DEF q, I
<1>5. /\ r \in Seq(Toasts) /\ DOMAIN r = 1 .. c
      /\ \A k \in 1 .. c : o[k] \in I /\ r[k] = q[o[k]]
  BY <1>1, <1>2, KeptSeq
<1> HIDE DEF r, c, o
<1>6. /\ e \in Desks /\ e.toasts = r /\ (e.painted => e.toasts # <<>>)
      /\ e.strip = d.strip /\ e.pend = d.pend /\ SameSession(d, e)
      /\ e.alive = d.alive /\ e.ptr = d.ptr /\ e.demo = d.demo /\ e.rect = d.rect
  BY <1>4, <1>5, notifyQueueSetKeeps
<1> HIDE DEF e
<1>7. ASSUME NEW k \in DOMAIN e.toasts
      PROVE  e.toasts[k].id # id /\ \E i \in DOMAIN d.toasts : e.toasts[k].id = d.toasts[i].id
  <2>1. k \in 1 .. c /\ o[k] \in I /\ e.toasts[k] = q[o[k]]
    BY <1>5, <1>6
  <2>2. o[k] \in DOMAIN q /\ q[o[k]].id # id
    BY <2>1, <1>3
  <2> QED
    BY <2>1, <2>2 DEF q
<1> QED
  BY <1>6, <1>7 DEF e

\* A toast that is dismissed or expires leaves the others live.
LEMMA FewerToasts ==
  ASSUME NEW d, Sound(d), NEW e \in Desks, e.painted => e.toasts # <<>>,
         \A k \in DOMAIN e.toasts : \E i \in DOMAIN d.toasts : e.toasts[k].id = d.toasts[i].id,
         e.strip = d.strip, e.pend = d.pend, SameSession(d, e)
  PROVE  Mild(d, e)
<1>1. Targets(e)
  BY DEF Sound, Targets
<1>2. Sound(e)
  BY <1>1 DEF Sound, SameSession
<1> QED
  BY <1>2, AlikeSame DEF Mild

LEMMA notifyExpireMild ==
  ASSUME NEW d, Sound(d)
  PROVE  LET e == notifyExpire(d)
         IN  /\ Mild(d, e) /\ e.strip = d.strip /\ e.alive = d.alive
             /\ e.ptr = d.ptr /\ e.demo = d.demo
<1> DEFINE q == d.toasts
           older == [i \in DOMAIN d.toasts |-> [d.toasts[i] EXCEPT !.left = @ - 1]]
           I == {i \in DOMAIN older : older[i].left > 0}
           r == KeptAt(older, I)
           o == InOrder(I)
           c == Cardinality(I)
           e == notifyExpire(d)
<1>0. d \in Desks
  BY DEF Sound
<1>1. q \in Seq(Toasts) /\ Len(q) \in Nat /\ DOMAIN q = 1 .. Len(q)
  BY <1>0 DEF Desks
<1>2. ASSUME NEW i \in DOMAIN q PROVE older[i] \in Toasts /\ older[i].id = q[i].id
  <2>1. q[i] \in Toasts
    BY <1>1
  <2>2. older[i] = [q[i] EXCEPT !.left = q[i].left - 1]
    OBVIOUS
  <2> HIDE DEF older, q
  <2> QED
    BY <2>1, <2>2 DEF Toasts
<1>3. older = [i \in 1 .. Len(q) |-> older[i]] /\ DOMAIN older = DOMAIN q
  BY <1>1
<1>4. e = notifyQueueSet(d, r)
  BY DEF notifyExpire
<1> HIDE DEF older, q
<1>5. older \in Seq(Toasts)
  BY <1>1, <1>2, <1>3
<1>6. I \in SUBSET (DOMAIN older)
  OBVIOUS
<1> HIDE DEF I
<1>7. /\ r \in Seq(Toasts) /\ DOMAIN r = 1 .. c
      /\ \A k \in 1 .. c : o[k] \in I /\ r[k] = older[o[k]]
  BY <1>5, <1>6, KeptSeq
<1> HIDE DEF r, c, o
<1>8. /\ e \in Desks /\ e.toasts = r /\ (e.painted => e.toasts # <<>>)
      /\ e.strip = d.strip /\ e.pend = d.pend /\ SameSession(d, e)
      /\ e.alive = d.alive /\ e.ptr = d.ptr /\ e.demo = d.demo
  BY <1>0, <1>4, <1>7, notifyQueueSetKeeps
<1> HIDE DEF e
<1>9. ASSUME NEW k \in DOMAIN e.toasts
      PROVE  \E i \in DOMAIN d.toasts : e.toasts[k].id = d.toasts[i].id
  <2>1. k \in 1 .. c /\ o[k] \in I /\ e.toasts[k] = older[o[k]]
    BY <1>7, <1>8
  <2>2. o[k] \in DOMAIN q /\ older[o[k]].id = q[o[k]].id
    BY <2>1, <1>2, <1>3, <1>6
  <2> QED
    BY <2>1, <2>2 DEF q
<1>10. Mild(d, e)
  BY <1>8, <1>9, FewerToasts
<1> QED
  BY <1>8, <1>10 DEF e

LEMMA notifyDismissMild ==
  ASSUME NEW d, Sound(d), NEW i \in DOMAIN d.toasts
  PROVE  LET e == notifyDismissByIndex(d, i)
         IN  /\ Mild(d, e) /\ e.strip = d.strip /\ e.alive = d.alive
             /\ e.ptr = d.ptr /\ e.demo = d.demo
<1> DEFINE q == d.toasts
           r == RemoveAt(q, i)
           e == notifyDismissByIndex(d, i)
<1>0. d \in Desks
  BY DEF Sound
<1>1. q \in Seq(Toasts) /\ Len(q) \in Nat /\ DOMAIN q = 1 .. Len(q)
  BY <1>0 DEF Desks
<1>2. e = notifyQueueSet(d, r)
  BY DEF notifyDismissByIndex
<1>3. /\ r \in Seq(Toasts) /\ DOMAIN r = 1 .. (Len(q) - 1)
      /\ \A k \in 1 .. (Len(q) - 1) : r[k] = q[IF k < i THEN k ELSE k + 1]
  BY <1>1, RemoveAtSeq
<1> HIDE DEF r
<1>4. /\ e \in Desks /\ e.toasts = r /\ (e.painted => e.toasts # <<>>)
      /\ e.strip = d.strip /\ e.pend = d.pend /\ SameSession(d, e)
      /\ e.alive = d.alive /\ e.ptr = d.ptr /\ e.demo = d.demo
  BY <1>0, <1>2, <1>3, notifyQueueSetKeeps
<1> HIDE DEF e, q
<1>5. ASSUME NEW k \in DOMAIN e.toasts
      PROVE  \E j \in DOMAIN d.toasts : e.toasts[k].id = d.toasts[j].id
  <2> DEFINE j == IF k < i THEN k ELSE k + 1
  <2>1. k \in 1 .. (Len(q) - 1) /\ e.toasts[k] = q[j]
    BY <1>3, <1>4
  <2>2. j \in DOMAIN q
    BY <2>1, <1>1
  <2> QED
    BY <2>1, <2>2 DEF q
<1>6. Mild(d, e)
  BY <1>4, <1>5, FewerToasts
<1> QED
  BY <1>4, <1>6 DEF e

\* A toast is queued for a tab of the strip.
LEMMA notifyPushMild ==
  ASSUME NEW d, Sound(d), NEW id \in Nat, Has(d.strip, id)
  PROVE  Mild(d, notifyPush(d, id))
<1> DEFINE q == d.toasts
           a == IF Len(q) >= NotifyMax THEN Tail(q) ELSE q
           t == [id |-> id, left |-> NotifyTicks]
           r == Append(a, t)
           e == notifyPush(d, id)
<1>0. d \in Desks /\ NotifyMax \in Nat /\ NotifyMax # 0
  BY DeskBounds DEF Sound
<1>1. q \in Seq(Toasts) /\ Len(q) \in Nat /\ DOMAIN q = 1 .. Len(q)
  BY <1>0 DEF Desks
<1>2. t \in Toasts /\ t.id = id
  BY DeskBounds DEF Toasts
<1>3. e = [d EXCEPT !.toasts = r]
  BY DEF notifyPush
<1>4. a \in Seq(Toasts) /\ \A k \in DOMAIN a : \E i \in DOMAIN q : a[k] = q[i]
  <2>1. CASE Len(q) >= NotifyMax
    <3>1. q # <<>>
      BY <2>1, <1>0, <1>1
    <3>2. /\ Tail(q) \in Seq(Toasts) /\ DOMAIN Tail(q) = 1 .. (Len(q) - 1)
          /\ \A k \in 1 .. (Len(q) - 1) : Tail(q)[k] = q[k + 1]
      BY <3>1, <1>1
    <3>3. \A k \in 1 .. (Len(q) - 1) : k + 1 \in DOMAIN q
      BY <1>1
    <3>4. a = Tail(q)
      BY <2>1
    <3> HIDE DEF a, q
    <3> QED
      BY <3>2, <3>3, <3>4
  <2>2. CASE ~(Len(q) >= NotifyMax)
    BY <2>2, <1>1
  <2> QED
    BY <2>1, <2>2
<1> HIDE DEF a, t, q
<1>5. /\ r \in Seq(Toasts) /\ r # <<>>
      /\ \A k \in DOMAIN r : r[k] = t \/ \E j \in DOMAIN a : r[k] = a[j]
  <2>1. a \in Seq(Toasts) /\ Len(a) \in Nat /\ DOMAIN a = 1 .. Len(a)
    BY <1>4
  <2>2. r \in Seq(Toasts) /\ Len(r) = Len(a) + 1
    BY <1>2, <2>1
  <2>3. r[Len(a) + 1] = t /\ \A k \in 1 .. Len(a) : r[k] = a[k]
    BY <1>2, <2>1
  <2> HIDE DEF r
  <2>4. r # <<>> /\ DOMAIN r = 1 .. (Len(a) + 1)
    BY <2>1, <2>2
  <2>5. ASSUME NEW k \in DOMAIN r PROVE k = Len(a) + 1 \/ k \in DOMAIN a
    BY <2>1, <2>4
  <2> QED
    BY <2>1, <2>2, <2>3, <2>4, <2>5
<1> HIDE DEF r, e
<1>6. /\ e \in Desks /\ e.toasts = r /\ e.strip = d.strip /\ e.pend = d.pend
      /\ SameSession(d, e)
  BY <1>0, <1>3, <1>5 DEF Desks, SameSession
<1>7. ASSUME NEW k \in DOMAIN e.toasts PROVE Has(e.strip, e.toasts[k].id)
  <2>1. \A i \in DOMAIN q : Has(d.strip, q[i].id)
    BY DEF Sound, Targets, q
  <2>2. r[k] = t \/ \E i \in DOMAIN q : r[k] = q[i]
    BY <1>4, <1>5, <1>6
  <2> QED
    BY <2>1, <2>2, <1>2, <1>6
<1>8. Targets(e)
  BY <1>5, <1>6, <1>7 DEF Sound, Targets
<1>9. Sound(e)
  BY <1>6, <1>8 DEF Sound, SameSession
<1> QED
  BY <1>6, <1>9, AlikeSame DEF Mild, e
-----------------------------------------------------------------------------
(* Closing tabs. *)

\* The focused window, or none.
LEMMA FocusedType ==
  ASSUME NEW s, StripOK(s)
  PROVE  /\ Focused(s) \in Nat
         /\ s.tabs # <<>> => s.focus \in DOMAIN s.tabs /\ Has(s, Focused(s))
         /\ Focused(s) # 0 => s.focus \in DOMAIN s.tabs
<1>1. \A i \in DOMAIN s.tabs : s.tabs[i].id \in Nat \ {0}
  BY StripParts
<1>2. Focused(s) \in Nat /\ (Focused(s) # 0 => s.focus \in DOMAIN s.tabs)
  BY <1>1 DEF Focused
<1>3. s.tabs # <<>> => s.focus \in DOMAIN s.tabs
  BY DEF StripOK
<1>4. s.focus \in DOMAIN s.tabs => Focused(s) = s.tabs[s.focus].id
  BY DEF Focused
<1> QED
  BY <1>2, <1>3, <1>4, HasTab

\* The queued target of a closed tab is dropped.
LEMMA clearPendingNavKeeps ==
  ASSUME NEW d \in Desks, NEW id
  PROVE  LET e == clearPendingNav(d, id)
         IN  /\ e \in Desks /\ (e.pend.id # 0 => e.pend.id = d.pend.id /\ e.pend.id # id)
             /\ e.strip = d.strip /\ e.toasts = d.toasts /\ e.painted = d.painted
             /\ SameSession(d, e) /\ e.alive = d.alive /\ e.ptr = d.ptr /\ e.demo = d.demo
<1> DEFINE p == IF d.pend.id = id THEN NoNav ELSE d.pend
           e == clearPendingNav(d, id)
<1>1. NoNav \in Pends /\ NoNav.id = 0
  BY DEF NoNav, Pends
<1>2. p \in Pends /\ (p.id # 0 => p.id = d.pend.id /\ p.id # id)
  BY <1>1 DEF Desks
<1>3. e = [d EXCEPT !.pend = p]
  BY DEF clearPendingNav
<1> HIDE DEF p, e
<1>4. /\ e \in Desks /\ e.pend = p
      /\ e.strip = d.strip /\ e.toasts = d.toasts /\ e.painted = d.painted
      /\ SameSession(d, e) /\ e.alive = d.alive /\ e.ptr = d.ptr /\ e.demo = d.demo
  BY <1>2, <1>3 DEF Desks, SameSession
<1> QED
  BY <1>2, <1>4 DEF e

\* A tab leaves the strip together with its toasts and its queued target.
LEMMA DropKeeps ==
  ASSUME NEW d, Sound(d), NEW id
  PROVE  LET e == Drop(d, id)
         IN  /\ Sound(e) /\ SameSession(d, e) /\ e.alive = d.alive /\ e.ptr = d.ptr
             /\ e.demo = d.demo /\ ~Has(e.strip, id)
<1> DEFINE p == clearPendingNav(d, id)
           n == clearNotify(p, id)
           x == CloseTab(d.strip, id)
           e == [n EXCEPT !.strip = x]
<1>0. d \in Desks /\ StripOK(d.strip) /\ FileOK(d.file)
  BY DEF Sound
<1>1. CASE ~Has(d.strip, id)
  BY <1>1 DEF Drop, SameSession
<1>2. CASE Has(d.strip, id)
  <2>1. /\ p \in Desks /\ (p.pend.id # 0 => p.pend.id = d.pend.id /\ p.pend.id # id)
        /\ p.strip = d.strip /\ p.toasts = d.toasts
        /\ SameSession(d, p) /\ p.alive = d.alive /\ p.ptr = d.ptr /\ p.demo = d.demo
    BY <1>0, clearPendingNavKeeps
  <2> HIDE DEF p
  <2>2. /\ n \in Desks /\ (n.painted => n.toasts # <<>>)
        /\ \A k \in DOMAIN n.toasts :
             n.toasts[k].id # id /\ \E i \in DOMAIN p.toasts : n.toasts[k].id = p.toasts[i].id
        /\ n.strip = p.strip /\ n.pend = p.pend /\ SameSession(p, n)
        /\ n.alive = p.alive /\ n.ptr = p.ptr /\ n.demo = p.demo
    BY <2>1, clearNotifyKeeps
  <2>3. Drop(d, id) = [n EXCEPT !.strip = CloseTab(n.strip, id)]
    BY <1>2 DEF Drop, p
  <2> HIDE DEF n
  <2>4. Drop(d, id) = e
    BY <2>1, <2>2, <2>3
  <2>5. /\ StripOK(x) /\ ~Has(x, id)
        /\ \A w : w # id /\ Has(d.strip, w) => Has(x, w)
    BY <1>0, <1>2, CloseTabKeeps
  <2>6. x \in Strips
    BY <2>5, StripParts
  <2> HIDE DEF x
  <2>7. /\ e \in Desks /\ e.strip = x /\ SameQueues(n, e) /\ SameSession(n, e)
        /\ e.alive = n.alive /\ e.demo = n.demo /\ e.ptr = n.ptr
    BY <2>2, <2>6, SetStrip
  <2> HIDE DEF e
  <2>8. SameSession(d, e)
    BY <2>1, <2>2, <2>7 DEF SameSession
  <2>9. e.pend.id # 0 => Has(e.strip, e.pend.id)
    BY <2>1, <2>2, <2>5, <2>7 DEF Sound, Targets, SameQueues
  <2>10. ASSUME NEW k \in DOMAIN e.toasts PROVE Has(e.strip, e.toasts[k].id)
    <3>1. e.toasts = n.toasts
      BY <2>7 DEF SameQueues
    <3>2. PICK i \in DOMAIN d.toasts : n.toasts[k].id = d.toasts[i].id /\ n.toasts[k].id # id
      BY <3>1, <2>1, <2>2
    <3>3. Has(d.strip, d.toasts[i].id)
      BY DEF Sound, Targets
    <3> QED
      BY <3>1, <3>2, <3>3, <2>5, <2>7
  <2>11. e.painted => e.toasts # <<>>
    BY <2>2, <2>7 DEF SameQueues
  <2>12. Targets(e)
    BY <2>9, <2>10, <2>11 DEF Targets
  <2>13. Sound(e)
    BY <1>0, <2>5, <2>7, <2>8, <2>12 DEF Sound, SameSession
  <2> QED
    BY <2>1, <2>2, <2>4, <2>5, <2>7, <2>8, <2>13
<1> QED
  BY <1>1, <1>2

\* The hosted window follows the strip.
LEMMA syncHostedSame ==
  ASSUME NEW d, Sound(d)
  PROVE  LET e == syncHostedFromStrip(d)
         IN  Same(d, e) /\ e.alive = d.alive /\ e.ptr = d.ptr /\ e.demo = d.demo
<1> DEFINE h == Focused(d.strip)
<1>1. d \in Desks /\ h \in Nat
  BY FocusedType DEF Sound
<1>2. syncHostedFromStrip(d) = [d EXCEPT !.hosted = h]
  BY DEF syncHostedFromStrip
<1> HIDE DEF h
<1> QED
  BY <1>1, <1>2 DEF Desks, Same, SameQueues, SameSession

LEMMA SetAliveSame ==
  ASSUME NEW d \in Desks, NEW a \in SUBSET Windows
  PROVE  LET e == [d EXCEPT !.alive = a]
         IN  Same(d, e) /\ e.alive = a /\ e.ptr = d.ptr /\ e.demo = d.demo
BY DEF Desks, Same, SameQueues, SameSession

\* Closing a window, whichever path asks for it.
LEMMA closeTabByIDKeeps ==
  ASSUME NEW d, Sound(d), NEW id, NEW ok \in BOOLEAN
  PROVE  Keeps(d, closeTabByID(d, id, ok)) /\ closeTabByID(d, id, ok).demo = d.demo
<1> DEFINE gone == [d EXCEPT !.alive = @ \ {id}]
           p == Drop(gone, id)
           h == syncHostedFromStrip(p)
           n == noteSessionMutation(h, ok)
           g == syncHostedFromStrip(gone)
           e == IF Has(d.strip, id) THEN n ELSE g
           r == applyRects(e, <<Full>>)
           z == closeTabByID(d, id, ok)
<1>0. d \in Desks
  BY DEF Sound
<1>1. CASE id \notin d.alive
  <2>1. z = d
    BY <1>1 DEF closeTabByID
  <2>2. Mild(d, d)
    BY AlikeSame DEF Mild, SameSession
  <2>3. Keeps(d, d)
    BY <2>2, MildKeeps
  <2> QED
    BY <2>1, <2>3
<1>2. CASE id \in d.alive
  <2>1. gone = [d EXCEPT !.alive = d.alive \ {id}] /\ d.alive \ {id} \in SUBSET Windows
    BY <1>0 DEF Desks
  <2>2. Same(d, gone) /\ gone.demo = d.demo
    BY <1>0, <2>1, SetAliveSame
  <2>3. z = IF Len(e.strip.tabs) = 1 THEN r ELSE e
    BY <1>2 DEF closeTabByID
  <2> HIDE DEF gone
  <2>4. Sound(gone) /\ gone.strip = d.strip
    BY <2>2, SameMild DEF Mild, Same
  <2>5. Keeps(d, n) /\ n.demo = d.demo
    <3>1. /\ Sound(p) /\ SameSession(gone, p) /\ p.demo = gone.demo /\ ~Has(p.strip, id)
      BY <2>4, DropKeeps
    <3> HIDE DEF p
    <3>2. Same(p, h) /\ h.demo = p.demo
      BY <3>1, syncHostedSame
    <3>3. Sound(h) /\ h.strip = p.strip /\ h.up = p.up
      BY <3>1, <3>2, SameMild DEF Mild, Same, SameSession
    <3> HIDE DEF h
    <3>4. Sound(n) /\ Tracks(n) /\ n.strip = h.strip /\ n.up = h.up /\ n.demo = h.demo
      BY <3>3, noteSessionMutationKeeps
    <3> HIDE DEF n
    <3>5. n.up = d.up /\ n.demo = d.demo
      BY <2>2, <3>1, <3>2, <3>3, <3>4 DEF Same, SameSession
    <3>6. ASSUME Has(d.strip, id) PROVE Keeps(d, n)
      <4>1. FocusKept(d.strip, n.strip)
        BY <3>1, <3>3, <3>4, <3>6, OtherFocus
      <4> QED
        BY <4>1, <3>4, <3>5 DEF Keeps
    <3>7. ASSUME ~Has(d.strip, id) PROVE Keeps(d, n)
      <4>1. p = gone
        BY <2>4, <3>7 DEF Drop, p
      <4>2. FocusKept(d.strip, n.strip)
        BY <4>1, <2>4, <3>3, <3>4, AlikeSame, AlikeFocus
      <4> QED
        BY <4>2, <3>4, <3>5 DEF Keeps
    <3> QED
      BY <3>5, <3>6, <3>7
  <2>6. Keeps(d, g) /\ g.demo = d.demo
    <3>1. Same(gone, g) /\ g.demo = gone.demo
      BY <2>4, syncHostedSame
    <3>2. Keeps(d, gone)
      BY <2>2, SameMild, MildKeeps
    <3> QED
      BY <2>2, <3>1, <3>2, KeepsSame
  <2> HIDE DEF n, g
  <2>7. Keeps(d, e) /\ e.demo = d.demo
    BY <2>5, <2>6
  <2> HIDE DEF e
  <2>8. Same(e, r) /\ r.demo = e.demo
    <3>1. e \in Desks
      BY <2>7 DEF Keeps, Sound
    <3>2. <<Full>> \in Seq(Rects)
      <4>1. Full \in Rects
        BY PanesPossible DEF Full, Rects, Splits
      <4> HIDE DEF Full
      <4> QED
        BY <4>1
    <3> QED
      BY <3>1, <3>2, applyRectsSame
  <2>9. Keeps(d, r) /\ r.demo = d.demo
    BY <2>7, <2>8, KeepsSame
  <2> HIDE DEF r
  <2> QED
    BY <2>3, <2>7, <2>9
<1> QED
  BY <1>1, <1>2

LEMMA closeHostedKeeps ==
  ASSUME NEW d, Sound(d), NEW ok \in BOOLEAN
  PROVE  Keeps(d, closeHosted(d, ok)) /\ closeHosted(d, ok).demo = d.demo
BY closeTabByIDKeeps DEF closeHosted

SoundDesks == {d \in Desks : Sound(d)}

\* The sweep at the end of demo mode leaves a sound desk.
LEMMA sweepHostedSound ==
  ASSUME NEW d, Sound(d)
  PROVE  Sound(sweepHosted(d))
<1> DEFINE ts == d.strip.tabs
           N == Len(ts)
           X == SoundDesks
           St(n, x) == IF ts[n].id >= sessionIDBase THEN Drop(x, ts[n].id) ELSE x
           Cl(x) == IF x.strip.tabs = <<>> THEN x ELSE closeHosted(x, TRUE)
           bare == CHOOSE b : b = [n \in 0 .. N |-> IF n = 0 THEN d ELSE St(n, b[n - 1])]
           swept == CHOOSE b : b = [n \in 0 .. MaxTabs |->
                                      IF n = 0 THEN bare[N] ELSE Cl(b[n - 1])]
<1>0. N \in Nat /\ MaxTabs \in Nat
  BY StripParts, DeskBounds DEF Sound
<1>1. sweepHosted(d) = swept[MaxTabs]
  BY DEF sweepHosted
<1>2. ASSUME NEW n \in 1 .. N, NEW x \in X PROVE St(n, x) \in X
  <2>1. Sound(x)
    BY DEF SoundDesks
  <2>2. Sound(Drop(x, ts[n].id))
    BY <2>1, DropKeeps
  <2>3. Sound(St(n, x))
    BY <2>1, <2>2
  <2> HIDE DEF St
  <2> QED
    BY <2>3 DEF SoundDesks, Sound
<1>3. ASSUME NEW x \in X PROVE Cl(x) \in X
  <2>1. Sound(x)
    BY DEF SoundDesks
  <2>2. Sound(closeHosted(x, TRUE))
    BY <2>1, closeHostedKeeps DEF Keeps
  <2>3. Sound(Cl(x))
    BY <2>1, <2>2
  <2> HIDE DEF Cl
  <2> QED
    BY <2>3 DEF SoundDesks, Sound
<1>4. d \in X
  BY DEF SoundDesks, Sound
<1> HIDE DEF St, Cl, X, N
<1>5. bare[N] \in X
  <2> DEFINE G == [n \in 1 .. N |-> [x \in X |-> St(n, x)]]
  <2>1. G \in [1 .. N -> [X -> X]]
    BY <1>2
  <2>2. \A n \in 1 .. N, x \in X : G[n][x] = St(n, x)
    OBVIOUS
  <2> HIDE DEF G
  <2>3. PICK r \in [0 .. N -> X] : r[0] = d /\ \A n \in 1 .. N : r[n] = G[n][r[n - 1]]
    BY <1>0, <1>4, <2>1, IteratesExist
  <2>4. ASSUME NEW n \in 1 .. N PROVE r[n] = St(n, r[n - 1])
    <3>1. n - 1 \in 0 .. N
      BY <1>0
    <3> QED
      BY <3>1, <2>2, <2>3
  <2>5. r = [n \in 0 .. N |-> IF n = 0 THEN d ELSE St(n, r[n - 1])]
    <3>1. \A n \in 0 .. N : n # 0 => n \in 1 .. N
      BY <1>0
    <3> QED
      BY <3>1, <2>3, <2>4
  <2>6. bare = [n \in 0 .. N |-> IF n = 0 THEN d ELSE St(n, bare[n - 1])]
    BY <2>5
  <2> HIDE DEF bare
  <2>7. bare[0] = d /\ \A n \in 1 .. N : bare[n] = St(n, bare[n - 1])
    <3>1. 0 \in 0 .. N /\ \A n \in 1 .. N : n \in 0 .. N /\ n # 0
      BY <1>0
    <3> QED
      BY <3>1, <2>6
  <2>8. \A n \in 1 .. N : bare[n - 1] \in X => bare[n] \in X
    BY <2>7, <1>2
  <2> QED
    BY <1>0, <1>4, <2>7, <2>8, IteratesIn
<1> HIDE DEF bare
<1>6. swept[MaxTabs] \in X
  <2> DEFINE M == MaxTabs
             a == bare[N]
             G == [n \in 1 .. M |-> [x \in X |-> Cl(x)]]
  <2>1. G \in [1 .. M -> [X -> X]]
    BY <1>3
  <2>2. \A n \in 1 .. M, x \in X : G[n][x] = Cl(x)
    OBVIOUS
  <2> HIDE DEF G, a
  <2>3. PICK r \in [0 .. M -> X] : r[0] = a /\ \A n \in 1 .. M : r[n] = G[n][r[n - 1]]
    <3>1. a \in X /\ M \in Nat
      BY <1>0, <1>5 DEF a
    <3> HIDE DEF M
    <3> QED
      BY <3>1, <2>1, IteratesExist
  <2>4. ASSUME NEW n \in 1 .. M PROVE r[n] = Cl(r[n - 1])
    <3>1. n - 1 \in 0 .. M
      BY <1>0
    <3> QED
      BY <3>1, <2>2, <2>3
  <2>5. r = [n \in 0 .. M |-> IF n = 0 THEN a ELSE Cl(r[n - 1])]
    <3>1. \A n \in 0 .. M : n # 0 => n \in 1 .. M
      BY <1>0
    <3> QED
      BY <3>1, <2>3, <2>4
  <2>6. swept = [n \in 0 .. M |-> IF n = 0 THEN a ELSE Cl(swept[n - 1])]
    BY <2>5 DEF a
  <2> HIDE DEF swept
  <2>7. swept[0] = a /\ \A n \in 1 .. M : swept[n] = Cl(swept[n - 1])
    <3>1. 0 \in 0 .. M /\ \A n \in 1 .. M : n \in 0 .. M /\ n # 0
      BY <1>0
    <3> QED
      BY <3>1, <2>6
  <2>8. \A n \in 1 .. M : swept[n - 1] \in X => swept[n] \in X
    BY <2>7, <1>3
  <2> QED
    BY <1>0, <1>5, <2>7, <2>8, IteratesIn DEF a
<1> QED
  BY <1>1, <1>6 DEF X, SoundDesks
-----------------------------------------------------------------------------
(* The steps. *)

\* Assignments to what the invariant does not read.
LEMMA SetOthersSame ==
  ASSUME NEW d \in Desks
  PROVE  /\ \A h \in Nat : LET e == [d EXCEPT !.hosted = h]
                           IN  Same(d, e) /\ e.alive = d.alive /\ e.ptr = d.ptr /\ e.demo = d.demo
                               /\ e.launch = d.launch
         /\ \A p \in Pointers : LET e == [d EXCEPT !.ptr = p]
                                IN  Same(d, e) /\ e.alive = d.alive /\ e.ptr = p /\ e.demo = d.demo
                                    /\ e.launch = d.launch
         /\ \A k \in BOOLEAN : LET e == [d EXCEPT !.kbtn = k]
                               IN  Same(d, e) /\ e.alive = d.alive /\ e.ptr = d.ptr
                                   /\ e.demo = d.demo /\ e.launch = d.launch
         /\ \A l \in Launchers : LET e == [d EXCEPT !.launch = l]
                                 IN  Same(d, e) /\ e.alive = d.alive /\ e.ptr = d.ptr
                                     /\ e.demo = d.demo
         /\ \A r \in [Windows -> Rects] : LET e == [d EXCEPT !.rect = r]
                                          IN  Same(d, e) /\ e.alive = d.alive /\ e.ptr = d.ptr
                                              /\ e.demo = d.demo /\ e.launch = d.launch
         /\ \A m \in Demos : LET e == [d EXCEPT !.demo = m]
                             IN  /\ m.on = d.demo.on => Same(d, e)
                                 /\ e.alive = d.alive /\ e.ptr = d.ptr /\ e.demo = m
                                 /\ e.launch = d.launch
BY DEF Desks, Same, SameQueues, SameSession

\* What a step may do: keep everything, or, in demo mode, keep the desk sound.
StepOK(d, e) ==
  /\ Good(e)
  /\ d.up /\ e.up /\ ~d.demo.on => FocusKept(d.strip, e.strip)

LEMMA KeepsStep ==
  ASSUME NEW d, NEW e, Good(d), Keeps(d, e)
  PROVE  StepOK(d, e)
BY DEF StepOK, Good, Keeps

LEMMA MildStep ==
  ASSUME NEW d, NEW e, Good(d), Mild(d, e)
  PROVE  StepOK(d, e)
BY KeepsStep, MildKeeps DEF Good

LEMMA SameStep ==
  ASSUME NEW d, NEW e, Good(d), Same(d, e)
  PROVE  StepOK(d, e)
BY MildStep, SameMild DEF Good

\* In demo mode the file is not compared with the strip.
LEMMA DemoStep ==
  ASSUME NEW d, NEW e, Sound(e), d.demo.on, e.demo.on
  PROVE  StepOK(d, e)
BY DEF StepOK, Good, Tracks

\* A seat that is down, or has just restored its rows.
LEMMA SeatGood ==
  ASSUME NEW up \in BOOLEAN, NEW demo \in BOOLEAN, NEW s, StripOK(s),
         sessionRows(s).rows = <<>>, NEW f, FileOK(f), NEW r \in [Windows -> Rects],
         NEW a \in SUBSET Windows
  PROVE  Good(Seat(up, demo, s, f, r, a)) /\ Seat(up, demo, s, f, r, a).up = up
<1> DEFINE e == Seat(up, demo, s, f, r, a)
           q == Quiet
           m == [on |-> demo, sawTwo |-> FALSE, done |-> s.tabs # <<>>, step |-> 0,
                 hold |-> 0, left |-> 0]
           l == [open |-> FALSE, filter |-> <<>>, sel |-> 1]
           t == <<>>
<1>1. q \in Pointers
  BY DEF Quiet, Pointers
<1>2. m \in Demos
  BY DEF Demos
<1>3. l \in Launchers
  BY DEF Launchers
<1>4. NoNav \in Pends /\ NoNav.id = 0
  BY DEF NoNav, Pends
<1>5. t \in Seq(Toasts) /\ t = <<>> /\ DOMAIN t = {}
  OBVIOUS
<1>6. s \in Strips /\ f \in Files
  BY StripParts DEF FileOK
<1>7. e = [up |-> up, strip |-> s, hosted |-> 0, pend |-> NoNav, toasts |-> t,
           painted |-> FALSE, dirty |-> FALSE, file |-> f, rect |-> r, alive |-> a,
           ptr |-> q, kbtn |-> FALSE, demo |-> m, launch |-> l]
  BY DEF Seat
<1> HIDE DEF e, q, m, l, t
<1>8. /\ e \in Desks /\ e.strip = s /\ e.file = f /\ e.pend = NoNav /\ e.toasts = t
      /\ e.painted = FALSE /\ e.up = up
  BY <1>1, <1>2, <1>3, <1>4, <1>5, <1>6, <1>7 DEF Desks
<1>9. Targets(e)
  BY <1>4, <1>5, <1>8 DEF Targets
<1>10. Sound(e)
  BY <1>8, <1>9 DEF Sound
<1>11. Tracks(e)
  BY <1>8 DEF Tracks
<1> QED
  BY <1>8, <1>10, <1>11 DEF Good, e

\* The strip of a seat that is down, and the file before the first save.
LEMMA EmptySeat ==
  /\ StripOK(EmptyStrip) /\ sessionRows(EmptyStrip).rows = <<>>
  /\ FileOK(NoFile)
<1>1. FileOK(NoFile)
  BY DeskBounds DEF FileOK, NoFile, Files
<1>2. EmptyStrip.tabs = <<>> /\ DOMAIN EmptyStrip.tabs = {} /\ Len(EmptyStrip.tabs) = 0
  BY DEF EmptyStrip
<1>3. EmptyStrip \in Strips /\ EmptyStrip.focus = 1 /\ EmptyStrip.split = "none"
  <2> DEFINE t == <<>>
  <2>1. t \in Seq(Tabs) /\ t \in Seq(Bins)
    OBVIOUS
  <2>2. EmptyStrip = [tabs |-> t, focus |-> 1, split |-> "none", sash |-> 0, closed |-> t]
    BY DEF EmptyStrip
  <2> HIDE DEF t
  <2> QED
    BY <2>1, <2>2 DEF Strips, Splits
<1>4. StripOK(EmptyStrip)
  BY <1>2, <1>3, DeskBounds DEF StripOK
<1>5. LivePos(EmptyStrip) = {} /\ Cardinality(LivePos(EmptyStrip)) = 0
  BY <1>2, FS_EmptySet DEF LivePos
<1>6. sessionRows(EmptyStrip).rows \in Seq(Rows) /\ Len(sessionRows(EmptyStrip).rows) = 0
  BY <1>4, <1>5, SessionRowsAre
<1> QED
  BY <1>1, <1>4, <1>6

\* The rectangles and windows of a sound desk.
LEMMA DeskParts ==
  ASSUME NEW d, Good(d)
  PROVE  /\ Sound(d) /\ d \in Desks /\ StripOK(d.strip) /\ FileOK(d.file)
         /\ d.rect \in [Windows -> Rects] /\ d.alive \in SUBSET Windows
         /\ d.ptr \in Pointers /\ d.launch \in Launchers /\ d.demo \in Demos
         /\ d.hosted \in Nat /\ d.toasts \in Seq(Toasts) /\ d.up \in BOOLEAN
         /\ d.demo.on \in BOOLEAN
BY DEF Good, Sound, Desks, Demos

LEMMA deskInitInv ==
  ASSUME deskInit
  PROVE  DeskInv
<1>1. [w \in Windows |-> Full] \in [Windows -> Rects]
  BY PanesPossible DEF Full, Rects, Splits
<1>2. Good(desk)
  BY <1>1, EmptySeat, SeatGood DEF deskInit
<1>3. deskScript \in [inputs : SUBSET STRING, clients : SUBSET Windows]
  BY DEF deskInit
<1> QED
  BY <1>2, <1>3 DEF DeskInv

\* What is to be shown of every step.
Step == StepOK(desk, desk') /\ deskScript' \in [inputs : SUBSET STRING, clients : SUBSET Windows]

LEMMA seatStartStep ==
  ASSUME DeskInv, seatStart
  PROVE  Step
<1>0. Good(desk) /\ ~desk.up
  BY DEF DeskInv, seatStart
<1>1. deskScript' \in [inputs : SUBSET STRING, clients : SUBSET Windows]
  BY ScriptsWellFormed DEF DeskInv, seatStart
<1>2. ASSUME NEW b \in BOOLEAN PROVE Good(loadSession(b))
  <2>1. StripOK(applyTabsV2(desk.file)) /\ sessionRows(applyTabsV2(desk.file)).rows = <<>>
    BY <1>0, DeskParts, applyTabsV2Keeps
  <2> QED
    BY <1>0, <2>1, DeskParts, SeatGood DEF loadSession
<1>3. PICK b \in BOOLEAN : desk' = loadSession(b)
  <2> DEFINE b == "demo" \in deskScript'.inputs
  <2>1. b \in BOOLEAN /\ desk' = loadSession(b)
    BY DEF seatStart
  <2> HIDE DEF b
  <2> QED
    BY <2>1
<1>4. Good(desk')
  BY <1>2, <1>3
<1> QED
  BY <1>0, <1>1, <1>4 DEF Step, StepOK

LEMMA seatKilledStep ==
  ASSUME DeskInv, seatKilled
  PROVE  Step
<1>0. Good(desk)
  BY DEF DeskInv
<1>1. PICK f \in {desk.file, NoFile} :
        Desk(Seat(FALSE, FALSE, EmptyStrip, f, desk.rect, desk.alive))
  BY DEF seatKilled
<1>2. FileOK(f)
  BY <1>0, DeskParts, EmptySeat
<1>3. Good(desk') /\ desk'.up = FALSE
  BY <1>0, <1>1, <1>2, DeskParts, EmptySeat, SeatGood DEF Desk
<1> QED
  BY <1>1, <1>3 DEF Step, StepOK, DeskInv, Desk

LEMMA seatDoneStep ==
  ASSUME DeskInv, seatDone
  PROVE  Step
<1> DEFINE d == sweepHosted(desk)
<1>1. Desk(Seat(FALSE, FALSE, EmptyStrip, d.file, d.rect, d.alive))
  BY DEF seatDone
<1>2. Sound(d)
  BY sweepHostedSound DEF DeskInv, Good
<1> HIDE DEF d
<1>3. FileOK(d.file) /\ d.rect \in [Windows -> Rects] /\ d.alive \in SUBSET Windows
  BY <1>2 DEF Sound, Desks
<1>4. Good(desk') /\ desk'.up = FALSE
  BY <1>1, <1>3, EmptySeat, SeatGood DEF Desk
<1> QED
  BY <1>1, <1>4 DEF Step, StepOK, DeskInv, Desk

\* A step that leaves the script alone.
LEMMA DeskStep ==
  ASSUME DeskInv, NEW e, Desk(e), StepOK(desk, e)
  PROVE  Step
BY DEF Step, Desk, DeskInv

LEMMA clientWindowStep ==
  ASSUME DeskInv, clientWindow
  PROVE  Step
<1>0. Good(desk) /\ desk \in Desks /\ desk.alive \in SUBSET Windows
  BY DeskParts DEF DeskInv
<1>1. PICK w \in deskScript.clients :
         \/ Desk([desk EXCEPT !.alive = @ \cup {w}])
         \/ Desk([desk EXCEPT !.alive = @ \ {w}])
  BY DEF clientWindow
<1>2. w \in Windows
  BY DEF DeskInv
<1>3. Same(desk, [desk EXCEPT !.alive = @ \cup {w}])
  BY <1>0, <1>2, SetAliveSame
<1>4. Same(desk, [desk EXCEPT !.alive = @ \ {w}])
  BY <1>0, SetAliveSame
<1>5. StepOK(desk, [desk EXCEPT !.alive = @ \cup {w}])
  BY <1>0, <1>3, SameStep
<1>6. StepOK(desk, [desk EXCEPT !.alive = @ \ {w}])
  BY <1>0, <1>4, SameStep
<1> QED
  BY <1>1, <1>5, <1>6, DeskStep
-----------------------------------------------------------------------------
(* Requests of the clients. *)

\* A window's id, and the title its program declares.
LEMMA ClientIds ==
  ASSUME DeskInv, NEW w \in deskScript.clients
  PROVE  w \in Windows /\ w \in Nat \ {0} /\ Title(w) \in Titles
<1>1. w \in Windows /\ w \in 1 .. (sessionIDBase - 1)
  BY WindowIds DEF DeskInv
<1> QED
  BY <1>1 DEF sessionIDBase, Title, Titles

LEMMA WritesBoolean ==
  ASSUME NEW ok \in Writes
  PROVE  ok \in BOOLEAN
BY DEF Writes

\* The strip after an open, and after the open tab took the focus.
LEMMA OpenedStrip ==
  ASSUME NEW s, StripOK(s), NEW w \in Nat \ {0}, NEW title \in Titles
  PROVE  LET u == OpenTab(s, w, title)
             v == FocusTab(u, w)
         IN  /\ StripOK(u) /\ StripOK(v)
             /\ \A x : Has(s, x) => Has(u, x)
             /\ \A x : Has(s, x) => Has(v, x)
             /\ FocusKept(s, u) /\ FocusKept(s, v)
             /\ ~Opens(s, w) => Alike(s, u) /\ Alike(s, v)
<1> DEFINE u == OpenTab(s, w, title)
           v == FocusTab(u, w)
<1>1. /\ StripOK(u) /\ (~Opens(s, w) => Alike(s, u))
      /\ \A x : Has(s, x) => Has(u, x)
      /\ Opens(s, w) => Has(u, w)
  BY OpenTabKeeps
<1> HIDE DEF u
<1>2. StripOK(v) /\ v.tabs = u.tabs
  BY <1>1, FocusTabKeeps
<1> HIDE DEF v
<1>3. \A x : Has(v, x) <=> Has(u, x)
  BY <1>2 DEF Has, index
<1>4. ~Opens(s, w) => Alike(s, u) /\ Alike(s, v)
  BY <1>1, <1>2 DEF Alike
<1>5. Opens(s, w) => Has(u, w) /\ Has(v, w) /\ ~Has(s, w)
  BY <1>1, <1>3 DEF Opens
<1>6. CASE Opens(s, w)
  BY <1>1, <1>2, <1>3, <1>5, <1>6, OtherFocus DEF u, v
<1>7. CASE ~Opens(s, w)
  BY <1>1, <1>2, <1>3, <1>4, <1>7, AlikeFocus DEF u, v
<1> QED
  BY <1>6, <1>7

LEMMA ResetDemo ==
  ASSUME NEW x \in Demos
  PROVE  LET m == [x EXCEPT !.done = FALSE, !.sawTwo = FALSE, !.step = 0, !.hold = 0]
         IN  m \in Demos /\ m.on = x.on
<1> DEFINE y == [x EXCEPT !.done = FALSE, !.sawTwo = FALSE]
           z == [y EXCEPT !.step = 0]
<1>2. y \in Demos /\ y.on = x.on
  BY DEF Demos
<1> HIDE DEF y
<1>3. z \in Demos /\ z.on = x.on
  BY <1>2 DEF Demos
<1> HIDE DEF z
<1>4. [z EXCEPT !.hold = 0] \in Demos /\ [z EXCEPT !.hold = 0].on = x.on
  BY <1>3 DEF Demos
<1>5. [z EXCEPT !.hold = 0] = [x EXCEPT !.done = FALSE, !.sawTwo = FALSE, !.step = 0, !.hold = 0]
  BY DEF y, z
<1> QED
  BY <1>4, <1>5

LEMMA StartChoreography ==
  ASSUME NEW x \in Demos
  PROVE  LET m == [x EXCEPT !.sawTwo = TRUE, !.step = 0]
         IN  m \in Demos /\ m.on = x.on
<1> DEFINE y == [x EXCEPT !.sawTwo = TRUE]
<1>1. y \in Demos /\ y.on = x.on
  BY DEF Demos
<1> HIDE DEF y
<1>2. [y EXCEPT !.step = 0] \in Demos /\ [y EXCEPT !.step = 0].on = x.on
  BY <1>1 DEF Demos
<1>3. [y EXCEPT !.step = 0] = [x EXCEPT !.sawTwo = TRUE, !.step = 0]
  BY DEF y
<1> QED
  BY <1>2, <1>3

LEMMA noteStripOpenSame ==
  ASSUME NEW d \in Desks
  PROVE  LET e == noteStripOpen(d) IN Same(d, e) /\ e.alive = d.alive
<1> DEFINE m == [d.demo EXCEPT !.done = FALSE, !.sawTwo = FALSE, !.step = 0, !.hold = 0]
<1>0. d.demo \in Demos
  BY DEF Desks
<1>1. m \in Demos /\ m.on = d.demo.on
  BY <1>0, ResetDemo
<1>2. noteStripOpen(d) = IF Len(d.strip.tabs) # 1 THEN d ELSE [d EXCEPT !.demo = m]
  BY DEF noteStripOpen, Desks
<1> HIDE DEF m
<1>3. Same(d, [d EXCEPT !.demo = m]) /\ [d EXCEPT !.demo = m].alive = d.alive
  BY <1>1, SetOthersSame
<1>4. Same(d, d)
  BY DEF Same, SameQueues, SameSession
<1> QED
  BY <1>2, <1>3, <1>4

LEMMA SetLeftSame ==
  ASSUME NEW d \in Desks, NEW n \in Int
  PROVE  LET e == [d EXCEPT !.demo.left = n] IN Same(d, e) /\ e.alive = d.alive /\ e.demo.on = d.demo.on
<1> DEFINE m == [d.demo EXCEPT !.left = n]
<1>0. d.demo \in Demos
  BY DEF Desks
<1>1. m \in Demos /\ m.on = d.demo.on
  BY <1>0 DEF Demos
<1>2. [d EXCEPT !.demo.left = n] = [d EXCEPT !.demo = m]
  OBVIOUS
<1> HIDE DEF m
<1> DEFINE e == [d EXCEPT !.demo = m]
<1>3. Same(d, e) /\ e.alive = d.alive /\ e.demo = m
  BY <1>1, SetOthersSame
<1> QED
  BY <1>1, <1>2, <1>3

\* Publishing a change of the strip.
LEMMA PublishKeeps ==
  ASSUME NEW d, NEW e, Sound(e), FocusKept(d.strip, e.strip), e.up = d.up,
         e.demo.on = d.demo.on, NEW ok \in BOOLEAN
  PROVE  Keeps(d, noteSessionMutation(e, ok))
BY noteSessionMutationKeeps DEF Keeps

\* Two assignments that leave the queues and the session alone.
LEMMA LightTrans ==
  ASSUME NEW d, NEW e, NEW f, SameQueues(d, e), SameSession(d, e),
         SameQueues(e, f), SameSession(e, f)
  PROVE  SameQueues(d, f) /\ SameSession(d, f)
BY DEF SameQueues, SameSession

\* A declaration opens the tab, or retitles it, and gives it the screen.
LEMMA declareFullscreenStep ==
  ASSUME DeskInv, NEW w \in deskScript.clients, NEW ok \in Writes,
         declareFullscreen(w, Title(w), ok)
  PROVE  Step
<1> DEFINE u == OpenTab(desk.strip, w, Title(w))
           o == [desk EXCEPT !.strip = OpenTab(@, w, Title(w)), !.hosted = w]
           k == IF Opens(desk.strip, w) THEN noteStripOpen(o) ELSE o
           n == [k EXCEPT !.demo.left = HostTicks]
           g == [n EXCEPT !.strip = FocusTab(@, w), !.rect[w] = Full]
           f == IF w \in desk.alive THEN g ELSE n
<1>0. Good(desk) /\ w \in Windows /\ w \in Nat \ {0} /\ Title(w) \in Titles /\ ok \in BOOLEAN
  BY ClientIds, WritesBoolean DEF DeskInv
<1>1. /\ Sound(desk) /\ desk \in Desks /\ StripOK(desk.strip)
      /\ HostTicks \in Int
  BY <1>0, DeskParts, DeskBounds
<1>2. Desk(noteSessionMutation(f, ok))
  BY DEF declareFullscreen
<1>3. /\ StripOK(u) /\ StripOK(FocusTab(u, w))
      /\ \A x : Has(desk.strip, x) => Has(u, x)
      /\ \A x : Has(desk.strip, x) => Has(FocusTab(u, w), x)
      /\ FocusKept(desk.strip, u) /\ FocusKept(desk.strip, FocusTab(u, w))
  BY <1>0, <1>1, OpenedStrip
<1>4. o \in Desks /\ o.strip = u /\ SameQueues(desk, o) /\ SameSession(desk, o)
  <2>1. u \in Strips
    BY <1>3, StripParts
  <2>2. o = [desk EXCEPT !.strip = u, !.hosted = w]
    OBVIOUS
  <2> HIDE DEF u, o
  <2> QED
    BY <1>0, <1>1, <2>1, <2>2 DEF Desks, SameQueues, SameSession
<1> HIDE DEF o, u
<1>5. k \in Desks /\ k.strip = u /\ SameQueues(desk, k) /\ SameSession(desk, k)
  <2>1. Same(o, noteStripOpen(o))
    BY <1>4, noteStripOpenSame
  <2> QED
    BY <1>4, <2>1, LightTrans DEF Same
<1> HIDE DEF k
<1>6. n \in Desks /\ n.strip = u /\ SameQueues(desk, n) /\ SameSession(desk, n)
  <2>1. Same(k, n)
    BY <1>1, <1>5, SetLeftSame
  <2> QED
    BY <1>5, <2>1, LightTrans DEF Same
<1> HIDE DEF n
<1>7. g \in Desks /\ g.strip = FocusTab(u, w) /\ SameQueues(desk, g) /\ SameSession(desk, g)
  <2> DEFINE v == FocusTab(u, w)
             r == [n.rect EXCEPT ![w] = Full]
  <2>1. v \in Strips
    BY <1>3, StripParts
  <2>2. r \in [Windows -> Rects]
    BY <1>0, <1>6, PanesPossible DEF Desks, Full, Rects, Splits
  <2>3. g = [n EXCEPT !.strip = v, !.rect = r]
    BY <1>6
  <2> HIDE DEF v, r, g
  <2>4. g \in Desks /\ g.strip = v /\ SameQueues(n, g) /\ SameSession(n, g)
    BY <1>6, <2>1, <2>2, <2>3 DEF Desks, SameQueues, SameSession
  <2> QED
    BY <1>6, <2>4, LightTrans DEF v
<1> HIDE DEF g
<1>8. Sound(f) /\ FocusKept(desk.strip, f.strip) /\ SameSession(desk, f)
  <2>1. Sound(n)
    BY <1>1, <1>3, <1>6, GrownSound DEF SameSession
  <2>2. Sound(g)
    BY <1>1, <1>3, <1>7, GrownSound DEF SameSession
  <2> QED
    BY <1>3, <1>6, <1>7, <2>1, <2>2
<1> HIDE DEF f
<1>9. Keeps(desk, noteSessionMutation(f, ok))
  BY <1>0, <1>8, PublishKeeps DEF SameSession
<1> QED
  BY <1>0, <1>2, <1>9, KeepsStep, DeskStep

LEMMA MildGood ==
  ASSUME NEW d, NEW e, Good(d), Mild(d, e)
  PROVE  Good(e)
BY MildStep DEF StepOK

LEMMA SameGood ==
  ASSUME NEW d, NEW e, Good(d), Same(d, e)
  PROVE  Good(e) /\ e.strip = d.strip
BY SameStep DEF StepOK, Same

\* Attaching an open tab again is not a change of the strip that is saved.
LEMMA attachTabStep ==
  ASSUME DeskInv, NEW w \in deskScript.clients, NEW title \in Retitles, NEW ok \in Writes,
         attachTab(w, title, ok)
  PROVE  Step
<1> DEFINE u == OpenTab(desk.strip, w, title)
           v == FocusTab(u, w)
           o == [desk EXCEPT !.strip = OpenTab(@, w, title)]
           n == IF Opens(desk.strip, w) THEN noteSessionMutation(noteStripOpen(o), ok) ELSE o
           z == [n EXCEPT !.strip = v]
           y == [z EXCEPT !.hosted = w]
           r == [y EXCEPT !.demo.left = HostTicks]
<1>0. Good(desk) /\ w \in Windows /\ w \in Nat \ {0} /\ title \in Titles /\ ok \in BOOLEAN
  BY ClientIds, WritesBoolean DEF DeskInv, Retitles, Titles
<1>1. /\ Sound(desk) /\ desk \in Desks /\ StripOK(desk.strip)
      /\ HostTicks \in Int
  BY <1>0, DeskParts, DeskBounds
<1>3. /\ StripOK(u) /\ StripOK(v)
      /\ \A x : Has(desk.strip, x) => Has(u, x)
      /\ FocusKept(desk.strip, v)
      /\ ~Opens(desk.strip, w) => Alike(desk.strip, u)
  BY <1>0, <1>1, OpenedStrip
<1>4. o \in Desks /\ o.strip = u /\ SameQueues(desk, o) /\ SameSession(desk, o)
  BY <1>1, <1>3, StripParts, SetStrip
<1>5. Sound(o)
  <2> HIDE DEF o, u
  <2> QED
    BY <1>1, <1>3, <1>4, GrownSound DEF SameSession
<1>6. Good(n) /\ n.strip = u
  <2> HIDE DEF o, u, v
  <2>1. CASE Opens(desk.strip, w)
    <3>1. Sound(noteStripOpen(o)) /\ noteStripOpen(o).strip = u
      BY <1>4, <1>5, noteStripOpenSame, SameMild DEF Mild, Same
    <3> QED
      BY <1>0, <2>1, <3>1, noteSessionMutationKeeps DEF Good
  <2>2. CASE ~Opens(desk.strip, w)
    <3>1. Mild(desk, o)
      BY <1>1, <1>3, <1>4, <2>2, AlikeMild
    <3> QED
      BY <1>0, <1>4, <2>2, <3>1, MildGood
  <2> QED
    BY <2>1, <2>2
<1>7. Desk(r)
  <2>1. v = FocusTab(n.strip, w)
    BY <1>6
  <2>2. Desk([n EXCEPT !.strip = FocusTab(@, w), !.hosted = w, !.demo.left = HostTicks])
    BY DEF attachTab
  <2> HIDE DEF n, v
  <2> QED
    BY <2>1, <2>2
<1>8. Good(z) /\ z.strip = v
  <2> HIDE DEF n, v
  <2>1. Alike(n.strip, v)
    BY <1>6, <1>3, FocusTabKeeps, AlikeSame DEF v
  <2>2. Mild(n, z) /\ z.strip = v
    BY <1>3, <1>6, <2>1, SetStripMild DEF Good
  <2> QED
    BY <1>6, <2>2, MildGood
<1> HIDE DEF z
<1>9. Good(y) /\ y.strip = v
  BY <1>0, <1>8, DeskParts, SetOthersSame, SameGood
<1> HIDE DEF y
<1>10. Good(r) /\ r.strip = v
  <2>1. y \in Desks
    BY <1>9, DeskParts
  <2>2. Same(y, r)
    BY <1>1, <2>1, SetLeftSame
  <2> QED
    BY <1>9, <2>2, SameGood
<1> HIDE DEF r, v
<1>11. StepOK(desk, r)
  BY <1>3, <1>10 DEF StepOK
<1> QED
  BY <1>7, <1>11, DeskStep

LEMMA detachTabStep ==
  ASSUME DeskInv, NEW w \in deskScript.clients, NEW ok \in Writes, detachTab(w, ok)
  PROVE  Step
<1> DEFINE p == Drop(desk, w)
           q == syncHostedFromStrip(p)
<1>0. Good(desk) /\ Sound(desk) /\ ok \in BOOLEAN
  BY WritesBoolean, DeskParts DEF DeskInv
<1>1. CASE Has(desk.strip, w)
  <2>1. Sound(p) /\ SameSession(desk, p) /\ ~Has(p.strip, w)
    BY <1>0, DropKeeps
  <2> HIDE DEF p
  <2>2. Same(p, q)
    BY <2>1, syncHostedSame
  <2>3. Sound(q) /\ q.strip = p.strip /\ SameSession(desk, q)
    BY <2>1, <2>2, SameMild DEF Mild, Same, SameSession
  <2> HIDE DEF q
  <2>4. FocusKept(desk.strip, q.strip)
    BY <1>1, <2>1, <2>3, OtherFocus
  <2>5. StepOK(desk, noteSessionMutation(q, ok))
    BY <1>0, <2>3, <2>4, PublishKeeps, KeepsStep DEF SameSession
  <2>6. Desk(noteSessionMutation(q, ok))
    BY <1>1 DEF detachTab, q, p
  <2> QED
    BY <2>5, <2>6, DeskStep
<1>2. CASE ~Has(desk.strip, w)
  <2>1. StepOK(desk, syncHostedFromStrip(desk))
    BY <1>0, syncHostedSame, SameStep
  <2>2. Desk(syncHostedFromStrip(desk))
    BY <1>2 DEF detachTab
  <2> QED
    BY <2>1, <2>2, DeskStep
<1> QED
  BY <1>1, <1>2

\* Giving a tab the focus moves no tab.
LEMMA FocusTabMild ==
  ASSUME NEW d, Sound(d), NEW id
  PROVE  LET e == [d EXCEPT !.strip = FocusTab(@, id)]
         IN  /\ Mild(d, e) /\ e.alive = d.alive /\ e.demo = d.demo /\ e.ptr = d.ptr
             /\ e.strip = FocusTab(d.strip, id)
<1> DEFINE v == FocusTab(d.strip, id)
<1>1. StripOK(v) /\ v.tabs = d.strip.tabs
  BY FocusTabKeeps DEF Sound
<1>2. [d EXCEPT !.strip = FocusTab(@, id)] = [d EXCEPT !.strip = v]
  OBVIOUS
<1> HIDE DEF v
<1>3. Alike(d.strip, v)
  BY <1>1, AlikeSame
<1> QED
  BY <1>1, <1>2, <1>3, SetStripMild DEF v

LEMMA raiseTabStep ==
  ASSUME DeskInv, NEW w, raiseTab(w)
  PROVE  Step
<1>1. Good(desk) /\ Sound(desk)
  BY DEF DeskInv, Good
<1>2. Mild(desk, [desk EXCEPT !.strip = FocusTab(@, w)])
  BY <1>1, FocusTabMild
<1>3. StepOK(desk, [desk EXCEPT !.strip = FocusTab(@, w)])
  BY <1>1, <1>2, MildStep
<1> QED
  BY <1>3, DeskStep DEF raiseTab

LEMMA cycleTabStep ==
  ASSUME DeskInv, cycleTab
  PROVE  Step
<1> DEFINE id == NextID(desk.strip)
<1>1. Good(desk) /\ Sound(desk)
  BY DEF DeskInv, Good
<1>2. Mild(desk, [desk EXCEPT !.strip = FocusTab(@, id)])
  BY <1>1, FocusTabMild
<1>3. StepOK(desk, [desk EXCEPT !.strip = FocusTab(@, id)])
  BY <1>1, <1>2, MildStep
<1>4. Desk([desk EXCEPT !.strip = FocusTab(@, id)])
  BY DEF cycleTab
<1> QED
  BY <1>3, <1>4, DeskStep

\* Rewriting one tab, with its badges kept.
LEMMA RewriteMild ==
  ASSUME NEW d, Sound(d), NEW i \in DOMAIN d.strip.tabs, NEW t \in Tabs,
         t.id = d.strip.tabs[i].id, t.pinned = d.strip.tabs[i].pinned,
         t.frozen = d.strip.tabs[i].frozen, t.bin = d.strip.tabs[i].bin
  PROVE  LET e == [d EXCEPT !.strip.tabs[i] = t]
         IN  /\ Mild(d, e) /\ e.strip = [d.strip EXCEPT !.tabs = [@ EXCEPT ![i] = t]]
             /\ e.strip.focus = d.strip.focus
<1> DEFINE x == [d.strip EXCEPT !.tabs = [@ EXCEPT ![i] = t]]
<1>1. StripOK(x) /\ Alike(d.strip, x) /\ x.focus = d.strip.focus
  BY RewriteAlike DEF Sound
<1>2. [d EXCEPT !.strip.tabs[i] = t] = [d EXCEPT !.strip = x]
  OBVIOUS
<1> HIDE DEF x
<1>3. Mild(d, [d EXCEPT !.strip = x]) /\ [d EXCEPT !.strip = x].strip = x
  BY <1>1, SetStripMild
<1> QED
  BY <1>1, <1>2, <1>3 DEF x

LEMMA navDeclareStep ==
  ASSUME DeskInv, NEW w, NEW path \in NavPaths, navDeclare(w, path)
  PROVE  Step
<1> DEFINE i == IndexOf(desk.strip, w)
           t == navRecord(desk.strip.tabs[i], path)
<1>1. Good(desk) /\ Sound(desk) /\ StripOK(desk.strip) /\ Has(desk.strip, w)
  BY DeskParts DEF DeskInv, navDeclare
<1>2. i \in DOMAIN desk.strip.tabs /\ desk.strip.tabs[i] \in Tabs
  BY <1>1, IndexOfTab, StripParts
<1>3. Desk([desk EXCEPT !.strip.tabs[i] = navRecord(@, path)])
  BY DEF navDeclare
<1> HIDE DEF i
<1>4. Desk([desk EXCEPT !.strip.tabs[i] = t])
  BY <1>3
<1>5. /\ t \in Tabs /\ t.id = desk.strip.tabs[i].id /\ t.pinned = desk.strip.tabs[i].pinned
      /\ t.frozen = desk.strip.tabs[i].frozen /\ t.bin = desk.strip.tabs[i].bin
  BY <1>2, navRecordKeeps
<1> HIDE DEF t
<1>6. Mild(desk, [desk EXCEPT !.strip.tabs[i] = t])
  BY <1>1, <1>2, <1>5, RewriteMild
<1>7. StepOK(desk, [desk EXCEPT !.strip.tabs[i] = t])
  BY <1>1, <1>6, MildStep
<1> QED
  BY <1>4, <1>7, DeskStep

\* The queued target may change to one that is on the strip, or to none.
LEMMA SetPendMild ==
  ASSUME NEW d, Sound(d), NEW p \in Pends, p.id # 0 => Has(d.strip, p.id)
  PROVE  Mild(d, [d EXCEPT !.pend = p])
<1> DEFINE e == [d EXCEPT !.pend = p]
<1>1. /\ e \in Desks /\ e.strip = d.strip /\ e.pend = p /\ e.toasts = d.toasts
      /\ e.painted = d.painted /\ SameSession(d, e)
  BY DEF Sound, Desks, SameSession
<1> HIDE DEF e
<1>2. Sound(e)
  BY <1>1 DEF Sound, Targets, SameSession
<1> QED
  BY <1>1, <1>2, AlikeSame DEF Mild, e

LEMMA navPollStep ==
  ASSUME DeskInv, NEW w, navPoll(w)
  PROVE  Step
<1>1. Good(desk) /\ Sound(desk) /\ NoNav \in Pends /\ NoNav.id = 0
  BY DEF DeskInv, Good, NoNav, Pends
<1>2. Mild(desk, [desk EXCEPT !.pend = NoNav])
  BY <1>1, SetPendMild
<1>3. StepOK(desk, [desk EXCEPT !.pend = NoNav])
  BY <1>1, <1>2, MildStep
<1> QED
  BY <1>3, DeskStep DEF navPoll

LEMMA setTitleStep ==
  ASSUME DeskInv, NEW w, NEW title \in Retitles, NEW ok \in Writes, setTitle(w, title, ok)
  PROVE  Step
<1> DEFINE s == desk.strip
           i == IndexOf(s, w)
           t == [s.tabs[i] EXCEPT !.title = title]
           x == [s EXCEPT !.tabs = [@ EXCEPT ![i] = t]]
           e == [desk EXCEPT !.strip = x]
<1>1. /\ Good(desk) /\ Sound(desk) /\ StripOK(s) /\ Has(s, w)
      /\ title # "" /\ title \in Titles /\ ok \in BOOLEAN
  BY DeskParts, WritesBoolean DEF DeskInv, setTitle, Retitles, Titles
<1>2. i \in DOMAIN s.tabs /\ s.tabs[i] \in Tabs
  BY <1>1, IndexOfTab, StripParts
<1>3. SetTitle(s, w, title) = x
  BY <1>1 DEF SetTitle
<1>4. Desk(noteSessionMutation(e, ok))
  <2>1. Desk(noteSessionMutation([desk EXCEPT !.strip = SetTitle(@, w, title)], ok))
    BY DEF setTitle
  <2> HIDE DEF x
  <2> QED
    BY <1>3, <2>1
<1> HIDE DEF i, s
<1>5. /\ t \in Tabs /\ t.id = s.tabs[i].id /\ t.pinned = s.tabs[i].pinned
      /\ t.frozen = s.tabs[i].frozen /\ t.bin = s.tabs[i].bin
  BY <1>1, <1>2 DEF Tabs, TabRecords
<1> HIDE DEF t
<1>6. StripOK(x) /\ Alike(s, x)
  BY <1>1, <1>2, <1>5, RewriteAlike
<1> HIDE DEF x
<1>7. Mild(desk, e)
  BY <1>1, <1>6, SetStripMild DEF s
<1> HIDE DEF e
<1>8. Keeps(desk, noteSessionMutation(e, ok))
  BY <1>1, <1>7, AlikeFocus, PublishKeeps DEF Mild, SameSession
<1> QED
  BY <1>1, <1>4, <1>8, KeepsStep, DeskStep

LEMMA notifyStep ==
  ASSUME DeskInv, NEW w \in deskScript.clients, notify(w)
  PROVE  Step
<1>1. Good(desk) /\ Sound(desk) /\ Has(desk.strip, w) /\ w \in Nat
  BY ClientIds DEF DeskInv, Good, notify
<1>2. StepOK(desk, notifyPush(desk, w))
  BY <1>1, notifyPushMild, MildStep
<1> QED
  BY <1>2, DeskStep DEF notify

LEMMA applyRPCStep ==
  ASSUME DeskInv, applyRPC
  PROVE  Step
<1>1. PICK w \in deskScript.clients, ok \in Writes :
        \/ declareFullscreen(w, Title(w), ok)
        \/ \E title \in Retitles : attachTab(w, title, ok) \/ setTitle(w, title, ok)
        \/ detachTab(w, ok)
        \/ raiseTab(w)
        \/ cycleTab
        \/ \E path \in NavPaths : navDeclare(w, path)
        \/ navPoll(w)
        \/ notify(w)
  BY DEF applyRPC
<1> QED
  BY <1>1, declareFullscreenStep, attachTabStep, setTitleStep, detachTabStep, raiseTabStep,
     cycleTabStep, navDeclareStep, navPollStep, notifyStep
-----------------------------------------------------------------------------
(* Keys. *)

\* A new strip that is published.
LEMMA RestripKeeps ==
  ASSUME NEW d, Sound(d), NEW x, StripOK(x), \A w : Has(d.strip, w) => Has(x, w),
         FocusKept(d.strip, x), NEW ok \in BOOLEAN
  PROVE  LET e == [d EXCEPT !.strip = x]
         IN  Sound(e) /\ e.strip = x /\ Keeps(d, noteSessionMutation(e, ok))
<1> DEFINE e == [d EXCEPT !.strip = x]
<1>1. e \in Desks /\ e.strip = x /\ SameQueues(d, e) /\ SameSession(d, e)
  BY StripParts, SetStrip DEF Sound
<1> HIDE DEF e
<1>2. Sound(e)
  BY <1>1, GrownSound DEF SameSession
<1>3. Keeps(d, noteSessionMutation(e, ok))
  BY <1>1, <1>2, PublishKeeps DEF SameSession
<1> QED
  BY <1>1, <1>2, <1>3 DEF e

\* Only a window that exists and has a tab takes the focus.
LEMMA focusHostedMild ==
  ASSUME NEW d, Sound(d), NEW id
  PROVE  LET e == focusHosted(d, id)
         IN  Mild(d, e) /\ e.strip.tabs = d.strip.tabs /\ e.demo = d.demo /\ e.ptr = d.ptr
<1>1. CASE id \in d.alive /\ Has(d.strip, id)
  <2> DEFINE m == [d EXCEPT !.strip = FocusTab(@, id)]
             e == [m EXCEPT !.hosted = id]
  <2>1. focusHosted(d, id) = e
    BY <1>1 DEF focusHosted
  <2>2. Mild(d, m) /\ m.demo = d.demo /\ m.ptr = d.ptr /\ m.strip.tabs = d.strip.tabs
    BY FocusTabMild, FocusTabKeeps DEF Sound
  <2>3. id \in Nat
    <3>1. id \in Windows
      BY <1>1 DEF Sound, Desks
    <3> QED
      BY <3>1, WindowIds DEF sessionIDBase
  <2> HIDE DEF m
  <2>4. m \in Desks /\ Sound(m)
    BY <2>2 DEF Mild, Sound
  <2>5. Same(m, e) /\ e.demo = d.demo /\ e.ptr = d.ptr
    BY <2>2, <2>3, <2>4, SetOthersSame
  <2> HIDE DEF e
  <2>6. Mild(m, e)
    BY <2>4, <2>5, SameMild
  <2> QED
    BY <2>1, <2>2, <2>5, <2>6, MildTrans DEF Same
<1>2. CASE ~(id \in d.alive /\ Has(d.strip, id))
  <2>1. Same(d, d)
    BY DEF Sound, Same, SameQueues, SameSession
  <2>2. Mild(d, d)
    BY <2>1, SameMild
  <2> QED
    BY <1>2, <2>2 DEF focusHosted
<1> QED
  BY <1>1, <1>2

\* The queued target names the tab that moved in its history.
LEMMA applyNavStepStep ==
  ASSUME DeskInv, NEW back \in BOOLEAN, applyNavStep(back)
  PROVE  Step
<1> DEFINE i == desk.strip.focus
           t == desk.strip.tabs[i]
           u == navStep(t, back)
           p == [id |-> t.id, path |-> u.hist[u.pos]]
           m == [desk EXCEPT !.strip.tabs[i] = u]
           e == [m EXCEPT !.pend = p]
<1>1. Good(desk) /\ Sound(desk) /\ StripOK(desk.strip) /\ Focused(desk.strip) # 0
  BY DeskParts DEF DeskInv, applyNavStep, Chord
<1>2. i \in DOMAIN desk.strip.tabs /\ t \in Tabs /\ t.id \in Nat /\ Has(desk.strip, t.id)
  BY <1>1, FocusedType, StripParts, HasTab
<1>3. Desk(e) /\ IF back THEN canNavBack(t) ELSE canNavForward(t)
  BY DEF applyNavStep
<1>4. /\ u \in Tabs /\ u.id = t.id /\ u.pinned = t.pinned /\ u.frozen = t.frozen
      /\ u.bin = t.bin /\ u.hist[u.pos] \in NavPaths
  BY <1>2, <1>3, navStepKeeps
<1>5. p \in Pends /\ p.id = t.id
  <2> HIDE DEF t, u
  <2> QED
    BY <1>2, <1>4 DEF Pends
<1> HIDE DEF p, u
<1>6. Mild(desk, m)
  BY <1>1, <1>2, <1>4, RewriteMild
<1> HIDE DEF m
<1>7. Has(m.strip, p.id)
  BY <1>2, <1>5, <1>6, AlikeHas DEF Mild
<1>8. Mild(m, e)
  BY <1>5, <1>6, <1>7, SetPendMild DEF Mild
<1> HIDE DEF e
<1>9. StepOK(desk, e)
  BY <1>1, <1>6, <1>8, MildTrans, MildStep
<1> QED
  BY <1>3, <1>9, DeskStep

\* A badge is part of what is saved.
LEMMA applyFreezeToggleStep ==
  ASSUME DeskInv, NEW ok \in Writes, applyFreezeToggle(ok)
  PROVE  Step
<1> DEFINE s == desk.strip
           i == s.focus
           t == [s.tabs[i] EXCEPT !.frozen = ~@]
           x == [s EXCEPT !.tabs = [@ EXCEPT ![i] = t]]
           e == [desk EXCEPT !.strip = x]
<1>1. /\ Good(desk) /\ Sound(desk) /\ StripOK(s) /\ Focused(s) # 0 /\ ok \in BOOLEAN
  BY DeskParts, WritesBoolean DEF DeskInv, applyFreezeToggle, Chord
<1>2. i \in DOMAIN s.tabs /\ s.tabs[i] \in Tabs
  BY <1>1, FocusedType, StripParts
<1>3. Desk(noteSessionMutation(e, ok))
  BY DEF applyFreezeToggle
<1> HIDE DEF s, i
<1>4. t \in Tabs /\ t.id = s.tabs[i].id
  BY <1>1, <1>2 DEF Tabs, TabRecords
<1> HIDE DEF t
<1>5. StripOK(x) /\ (\A w : Has(x, w) <=> Has(s, w)) /\ Ids(x) = Ids(s)
  BY <1>1, <1>2, <1>4, RewriteTab
<1> HIDE DEF x
<1>6. FocusKept(s, x)
  BY <1>5 DEF FocusKept
<1>7. StepOK(desk, noteSessionMutation(e, ok))
  BY <1>1, <1>5, <1>6, RestripKeeps, KeepsStep DEF s
<1> HIDE DEF e
<1> QED
  BY <1>3, <1>7, DeskStep

LEMMA applyHidPinStep ==
  ASSUME DeskInv, NEW ok \in Writes, applyHidPin(ok)
  PROVE  Step
<1> DEFINE x == Pin(desk.strip, Focused(desk.strip))
           e == [desk EXCEPT !.strip = x]
<1>1. /\ Good(desk) /\ Sound(desk) /\ StripOK(desk.strip) /\ Focused(desk.strip) # 0
      /\ ok \in BOOLEAN
  BY DeskParts, WritesBoolean DEF DeskInv, applyHidPin, Chord
<1>2. Has(desk.strip, Focused(desk.strip))
  BY <1>1, HasTab DEF Focused
<1>3. StripOK(x) /\ (\A w : Has(x, w) <=> Has(desk.strip, w)) /\ Focused(x) = Focused(desk.strip)
  BY <1>1, <1>2, PinKeeps
<1>4. Desk(noteSessionMutation(e, ok))
  BY DEF applyHidPin
<1> HIDE DEF x
<1>5. FocusKept(desk.strip, x)
  BY <1>3 DEF FocusKept
<1>6. StepOK(desk, noteSessionMutation(e, ok))
  BY <1>1, <1>3, <1>5, RestripKeeps, KeepsStep
<1> HIDE DEF e
<1> QED
  BY <1>4, <1>6, DeskStep

LEMMA applyReopenStep ==
  ASSUME DeskInv, applyReopen
  PROVE  Step
<1> DEFINE x == ReopenLastClosed(desk.strip)
           e == [desk EXCEPT !.strip = x]
<1>1. Good(desk) /\ Sound(desk) /\ StripOK(desk.strip)
  BY DeskParts DEF DeskInv
<1>2. StripOK(x) /\ x.tabs = desk.strip.tabs
  BY <1>1, ReopenLastClosedKeeps
<1>3. Desk(e)
  BY DEF applyReopen
<1> HIDE DEF x
<1>4. StepOK(desk, e)
  BY <1>1, <1>2, AlikeSame, SetStripMild, MildStep
<1> HIDE DEF e
<1> QED
  BY <1>3, <1>4, DeskStep

\* The focus moves to another index, and no tab does.
LEMMA FocusKeysStep ==
  ASSUME DeskInv, \/ \E b \in BOOLEAN : applyAltTab(b)
                  \/ \E i \in 1 .. MaxTabs : applyCtrlIndex(i)
  PROVE  Step
<1>1. Good(desk) /\ Sound(desk)
  BY DEF DeskInv, Good
<1>2. PICK id : Desk(focusHosted(desk, id))
  BY DEF applyAltTab, applyCtrlIndex
<1>3. Mild(desk, focusHosted(desk, id))
  BY <1>1, focusHostedMild
<1>4. StepOK(desk, focusHosted(desk, id))
  BY <1>1, <1>3, MildStep
<1> QED
  BY <1>2, <1>4, DeskStep

LEMMA openLauncherType ==
  ASSUME NEW l \in Launchers
  PROVE  openLauncher(l) \in Launchers /\ Dismissed(l) \in Launchers
<1> DEFINE q == <<>>
<1>1. q \in Seq(STRING)
  OBVIOUS
<1>2. Dismissed(l) = [l EXCEPT !.open = FALSE, !.filter = q]
  BY DEF Dismissed
<1>3. openLauncher(l) = IF l.open THEN Dismissed(l) ELSE [open |-> TRUE, filter |-> q, sel |-> 1]
  BY DEF openLauncher
<1> HIDE DEF q
<1>4. Dismissed(l) \in Launchers
  BY <1>1, <1>2 DEF Launchers
<1>5. [open |-> TRUE, filter |-> q, sel |-> 1] \in Launchers
  BY <1>1 DEF Launchers
<1> QED
  BY <1>3, <1>4, <1>5

\* The launcher is not what the invariant reads.
LEMMA LaunchStep ==
  ASSUME DeskInv, NEW l \in Launchers, Desk([desk EXCEPT !.launch = l])
  PROVE  Step
<1>1. Good(desk) /\ desk \in Desks
  BY DeskParts DEF DeskInv
<1>2. StepOK(desk, [desk EXCEPT !.launch = l])
  BY <1>1, SetOthersSame, SameStep
<1> QED
  BY <1>2, DeskStep

LEMMA handleWmKeyStep ==
  ASSUME DeskInv, handleWmKey
  PROVE  Step
<1>1. Good(desk) /\ Sound(desk) /\ desk.launch \in Launchers
  BY DeskParts DEF DeskInv
<1>2. CASE Desk(applySplitCycle(desk))
  BY <1>1, <1>2, applySplitCycleMild, MildStep, DeskStep
<1>3. CASE Desk([desk EXCEPT !.launch = openLauncher(@)])
  <2>1. openLauncher(desk.launch) \in Launchers
    BY <1>1, openLauncherType
  <2>2. Desk([desk EXCEPT !.launch = openLauncher(desk.launch)])
    BY <1>3
  <2> QED
    BY <2>1, <2>2, LaunchStep
<1> QED
  BY <1>2, <1>3, applyNavStepStep, applyFreezeToggleStep, applyHidPinStep, applyReopenStep,
     FocusKeysStep DEF handleWmKey
-----------------------------------------------------------------------------
(* The launcher. *)

LEMMA filterAppsType ==
  ASSUME NEW q
  PROVE  /\ filterApps(q) \in Seq(Seq(STRING)) /\ Len(filterApps(q)) \in Nat
         /\ DOMAIN filterApps(q) = 1 .. Len(filterApps(q))
<1> DEFINE I == {k \in DOMAIN Catalog : asciiContainsFold(Catalog[k], q)}
<1>1. I \in SUBSET (DOMAIN Catalog) /\ filterApps(q) = KeptAt(Catalog, I)
  BY DEF filterApps
<1> HIDE DEF I
<1>2. KeptAt(Catalog, I) \in Seq(Seq(STRING))
  BY <1>1, CatalogWords, KeptSeq
<1> QED
  BY <1>1, <1>2

\* The selection is clamped to the rows left.
LEMMA refreshStripType ==
  ASSUME NEW l \in Launchers, NEW q \in Seq(STRING)
  PROVE  refreshStrip(l, q) \in Launchers
<1> DEFINE n == Len(filterApps(q))
           k == IF l.sel > n THEN IF n = 0 THEN 1 ELSE n ELSE l.sel
<1>1. k \in Nat
  BY filterAppsType DEF Launchers
<1>2. refreshStrip(l, q) = [l EXCEPT !.filter = q, !.sel = k]
  BY DEF refreshStrip, Launchers
<1> HIDE DEF k
<1> QED
  BY <1>1, <1>2 DEF Launchers

LEMMA execSelectedType ==
  ASSUME NEW l \in Launchers, NEW found
  PROVE  execSelected(l, found) \in Launchers
BY openLauncherType DEF execSelected

LEMMA handleLauncherKeyStep ==
  ASSUME DeskInv, handleLauncherKey
  PROVE  Step
<1> DEFINE l == desk.launch
<1>1. l \in Launchers /\ l.filter \in Seq(STRING)
  BY DeskParts DEF DeskInv, Launchers
<1>2. CASE Desk([desk EXCEPT !.launch = openLauncher(l)])
  BY <1>1, <1>2, openLauncherType, LaunchStep
<1>3. CASE Desk([desk EXCEPT !.launch = Dismissed(l)])
  BY <1>1, <1>3, openLauncherType, LaunchStep
<1>4. CASE \E found \in BOOLEAN : Desk([desk EXCEPT !.launch = execSelected(l, found)])
  BY <1>1, <1>4, execSelectedType, LaunchStep
<1>5. CASE l.filter # <<>> /\ Desk([desk EXCEPT !.launch = refreshStrip(l, Front(l.filter))])
  <2>1. Front(l.filter) \in Seq(STRING)
    <3> DEFINE f == l.filter
    <3>1. f \in Seq(STRING) /\ Len(f) \in Nat
      BY <1>1
    <3> HIDE DEF f
    <3>2. SubSeq(f, 1, Len(f) - 1) \in Seq(STRING)
      BY <3>1
    <3> QED
      BY <3>2 DEF Front, f
  <2> QED
    BY <1>1, <1>5, <2>1, refreshStripType, LaunchStep
<1>6. CASE \E c \in UNION {{w[i] : i \in DOMAIN w} : w \in {Catalog[k] : k \in DOMAIN Catalog}} :
             Desk([desk EXCEPT !.launch = refreshStrip(l, Append(l.filter, c))])
  <2>1. PICK c \in UNION {{w[i] : i \in DOMAIN w} : w \in {Catalog[k] : k \in DOMAIN Catalog}} :
           Desk([desk EXCEPT !.launch = refreshStrip(l, Append(l.filter, c))])
    BY <1>6
  <2>2. PICK k \in DOMAIN Catalog : \E i \in DOMAIN Catalog[k] : c = Catalog[k][i]
    OBVIOUS
  <2>3. Catalog[k] \in Seq(STRING)
    BY CatalogWords
  <2>4. c \in STRING
    BY <2>2, <2>3
  <2>5. Append(l.filter, c) \in Seq(STRING)
    BY <1>1, <2>4
  <2> QED
    BY <1>1, <2>1, <2>5, refreshStripType, LaunchStep
<1> QED
  BY <1>2, <1>3, <1>4, <1>5, <1>6 DEF handleLauncherKey
-----------------------------------------------------------------------------
(* The pointer. *)

\* A click on a toast dismisses it and raises its sender.
LEMMA notifyClickedMild ==
  ASSUME NEW d, Sound(d), NEW i \in DOMAIN d.toasts
  PROVE  Mild(d, notifyClicked(d, i))
<1> DEFINE e == notifyDismissByIndex(d, i)
           id == d.toasts[i].id
<1>1. Mild(d, e)
  BY notifyDismissMild
<1> HIDE DEF e
<1>2. Mild(e, focusHosted(e, id))
  BY <1>1, focusHostedMild DEF Mild
<1> QED
  BY <1>1, <1>2, MildTrans DEF notifyClicked, e

\* Dropping a tab on another cell moves it there, and the panes follow.
LEMMA applyRailReorderKeeps ==
  ASSUME NEW d, Sound(d), NEW from, NEW to \in DOMAIN d.strip.tabs, NEW ok \in BOOLEAN
  PROVE  LET e == applyRailReorder(d, from, to, ok)
         IN  Keeps(d, e) /\ e.ptr = d.ptr
<1>0. Same(d, d)
  BY DEF Sound, Same, SameQueues, SameSession
<1>1. CASE from = to \/ from \notin DOMAIN d.strip.tabs
  BY <1>0, <1>1, SameMild, MildKeeps DEF applyRailReorder
<1>2. CASE ~(from = to \/ from \notin DOMAIN d.strip.tabs)
  <2> DEFINE x == Reorder(d.strip, from, to)
             n == [d EXCEPT !.strip = x]
             e == noteSessionMutation(n, ok)
             f == applyRects(e, PaneRects(e.strip))
  <2>1. /\ StripOK(x) /\ (\A w : Has(x, w) <=> Has(d.strip, w))
        /\ Focused(x) = Focused(d.strip)
    BY <1>2, ReorderKeeps DEF Sound
  <2>2. applyRailReorder(d, from, to, ok) =
          IF e.strip.split = "none" \/ Len(e.strip.tabs) # 2 THEN e ELSE f
    BY <1>2 DEF applyRailReorder
  <2> HIDE DEF x
  <2>3. FocusKept(d.strip, x)
    BY <2>1 DEF FocusKept
  <2>4. Keeps(d, e) /\ Sound(n)
    BY <2>1, <2>3, RestripKeeps
  <2>5. n.ptr = d.ptr
    BY DEF Sound, Desks
  <2> HIDE DEF n
  <2>6. e.ptr = d.ptr
    BY <2>4, <2>5, noteSessionMutationKeeps
  <2> HIDE DEF e
  <2>7. e \in Desks /\ e.strip.split \in Splits /\ e.strip.sash \in Int
    BY <2>4, StripParts DEF Keeps, Sound
  <2>8. PaneRects(e.strip) \in Seq(Rects)
    BY <2>7, PaneRectTypes DEF PaneRects
  <2>9. Same(e, f) /\ f.ptr = e.ptr
    BY <2>7, <2>8, applyRectsSame
  <2> HIDE DEF f
  <2>10. Keeps(d, f)
    BY <2>4, <2>9, KeepsSame
  <2> QED
    BY <2>2, <2>4, <2>6, <2>9, <2>10
<1> QED
  BY <1>1, <1>2

\* What the hit tests find.
LEMMA ZoneParts ==
  ASSUME DeskInv, NEW z \in Zones(desk)
  PROVE  /\ z.i \in Nat
         /\ z.kind = "toast" => z.i \in DOMAIN desk.toasts
         /\ z.kind \in {"cell", "close"} => z.i \in DOMAIN desk.strip.tabs
<1>1. /\ desk.toasts \in Seq(Toasts) /\ desk.strip.tabs \in Seq(Tabs)
  BY DeskParts, StripParts DEF DeskInv
<1>2. \A q : DOMAIN filterApps(q) = 1 .. Len(filterApps(q)) /\ Len(filterApps(q)) \in Nat
  BY filterAppsType
<1>3. \/ z = Zone("content", 0)
      \/ \E i \in DOMAIN desk.toasts : z = Zone("toast", i)
      \/ \E k \in {"cell", "close"}, i \in DOMAIN desk.strip.tabs : z = Zone(k, i)
      \/ z = Zone("start", 0)
      \/ z = Zone("sash", 0)
      \/ \E i \in DOMAIN filterApps(desk.launch.filter) : z = Zone("row", i)
  BY DEF Zones
<1>4. CASE z = Zone("content", 0) \/ z = Zone("start", 0) \/ z = Zone("sash", 0)
  BY <1>4 DEF Zone
<1>5. CASE \E i \in DOMAIN desk.toasts : z = Zone("toast", i)
  BY <1>1, <1>5 DEF Zone
<1>6. CASE \E k \in {"cell", "close"}, i \in DOMAIN desk.strip.tabs : z = Zone(k, i)
  BY <1>1, <1>6 DEF Zone
<1>7. CASE \E i \in DOMAIN filterApps(desk.launch.filter) : z = Zone("row", i)
  BY <1>2, <1>7 DEF Zone
<1> QED
  BY <1>3, <1>4, <1>5, <1>6, <1>7

LEMMA SameThen ==
  ASSUME NEW c, NEW d, NEW e, Same(c, d), StepOK(d, e)
  PROVE  StepOK(c, e)
BY DEF StepOK, Same, SameSession

\* A press: every latch it sets is forgotten by the invariant.
LEMMA pointerDownStep ==
  ASSUME DeskInv, NEW z \in Zones(desk), NEW ok \in BOOLEAN
  PROVE  StepOK(desk, pointerDown(z, ok))
<1> DEFINE p == [desk.ptr EXCEPT !.btn = TRUE]
           d == [desk EXCEPT !.ptr.btn = TRUE]
           at(latch, from) == [d EXCEPT !.ptr = [latch EXCEPT !.railFrom = from]]
           closed(e) == closeTabByID(e, e.strip.tabs[z.i].id, ok)
           cell == LET e == at(d.ptr, z.i)
                   IN  IF z.i = d.strip.focus THEN e ELSE focusHosted(e, d.strip.tabs[z.i].id)
           row == [d EXCEPT !.launch = execSelected([@ EXCEPT !.sel = z.i], ok)]
           away == [d EXCEPT !.launch = Dismissed(@)]
           start == [d EXCEPT !.launch = openLauncher(@)]
           sash == at([d.ptr EXCEPT !.sash = TRUE], 0)
           content == [at([d.ptr EXCEPT !.content = TRUE], 0) EXCEPT !.kbtn = TRUE]
<1>1. /\ Good(desk) /\ desk \in Desks /\ desk.ptr \in Pointers /\ desk.launch \in Launchers
      /\ z.i \in Nat /\ (z.kind = "toast" => z.i \in DOMAIN desk.toasts)
  BY DeskParts, ZoneParts DEF DeskInv
<1>2. p \in Pointers
  BY <1>1 DEF Pointers
<1>3. Same(desk, d) /\ d.ptr = p /\ d.launch = desk.launch
  <2>1. d = [desk EXCEPT !.ptr = p]
    OBVIOUS
  <2> HIDE DEF d, p
  <2> QED
    BY <1>1, <1>2, <2>1, SetOthersSame
<1>4. Good(d) /\ Sound(d) /\ d \in Desks /\ d.toasts = desk.toasts
  BY <1>1, <1>3, SameGood, DeskParts DEF Same, SameQueues
<1>5. pointerDown(z, ok) =
        CASE z.kind = "toast" -> notifyClicked(d, z.i)
          [] desk.launch.open /\ z.kind = "row" -> row
          [] desk.launch.open /\ z.kind # "row" -> away
          [] ~desk.launch.open /\ z.kind = "start" -> start
          [] ~desk.launch.open /\ z.kind = "close" -> closed(at(d.ptr, 0))
          [] ~desk.launch.open /\ z.kind = "sash" -> sash
          [] ~desk.launch.open /\ z.kind = "cell" -> cell
          [] ~desk.launch.open /\ z.kind = "content" -> content
          [] OTHER -> d
  BY DEF pointerDown
<1> HIDE DEF d, p
<1>6. ASSUME NEW q \in Pointers, NEW k \in Nat PROVE Same(d, at(q, k))
  <2>1. [q EXCEPT !.railFrom = k] \in Pointers
    BY DEF Pointers
  <2> QED
    BY <1>4, <2>1, SetOthersSame
<1>7. [d.ptr EXCEPT !.sash = TRUE] \in Pointers /\ [d.ptr EXCEPT !.content = TRUE] \in Pointers
  BY <1>2, <1>3 DEF Pointers
<1>8. ASSUME NEW l \in Launchers PROVE StepOK(d, [d EXCEPT !.launch = l])
  BY <1>4, SetOthersSame, SameStep
<1>9. z.kind = "toast" => StepOK(d, notifyClicked(d, z.i))
  BY <1>1, <1>4, notifyClickedMild, MildStep
<1>10. StepOK(d, row) /\ StepOK(d, away) /\ StepOK(d, start)
  <2>1. [d.launch EXCEPT !.sel = z.i] \in Launchers
    BY <1>1, <1>3 DEF Launchers
  <2>2. execSelected([d.launch EXCEPT !.sel = z.i], ok) \in Launchers
    BY <2>1, execSelectedType
  <2>3. Dismissed(d.launch) \in Launchers /\ openLauncher(d.launch) \in Launchers
    BY <1>1, <1>3, openLauncherType
  <2>4. StepOK(d, row)
    BY <2>2, <1>8
  <2> QED
    BY <2>3, <2>4, <1>8
<1>11. StepOK(d, closed(at(d.ptr, 0)))
  <2> DEFINE e == at(d.ptr, 0)
  <2>1. Same(d, e)
    BY <1>2, <1>3, <1>6
  <2> HIDE DEF e, at
  <2>2. Good(e) /\ Sound(e)
    BY <1>4, <2>1, SameGood DEF Good
  <2>3. StepOK(e, closed(e))
    BY <2>2, closeTabByIDKeeps, KeepsStep
  <2> QED
    BY <2>1, <2>3, SameThen DEF e
<1>12. StepOK(d, sash)
  BY <1>4, <1>6, <1>7, SameStep
<1>13. StepOK(d, cell)
  <2> DEFINE e == at(d.ptr, z.i)
             id == d.strip.tabs[z.i].id
  <2>1. Same(d, e)
    BY <1>1, <1>2, <1>3, <1>6
  <2> HIDE DEF e, at, id
  <2>2. Good(e) /\ Sound(e) /\ StepOK(d, e)
    BY <1>4, <2>1, SameGood, SameStep DEF Good
  <2>3. StepOK(e, focusHosted(e, id))
    BY <2>2, focusHostedMild, MildStep
  <2>4. StepOK(d, focusHosted(e, id))
    BY <2>1, <2>3, SameThen
  <2> QED
    BY <2>2, <2>4 DEF e, id
<1>14. StepOK(d, content)
  <2> DEFINE e == at([d.ptr EXCEPT !.content = TRUE], 0)
  <2>1. Same(d, e)
    BY <1>6, <1>7
  <2> HIDE DEF e, at
  <2>2. Good(e) /\ e \in Desks
    BY <1>4, <2>1, SameGood, DeskParts
  <2>3. StepOK(e, [e EXCEPT !.kbtn = TRUE])
    BY <2>2, SetOthersSame, SameStep
  <2> QED
    BY <2>1, <2>3, SameThen DEF e
<1>15. StepOK(d, d)
  <2>1. Same(d, d)
    BY <1>4 DEF Same, SameQueues, SameSession
  <2> QED
    BY <1>4, <2>1, SameStep
<1> HIDE DEF row, away, start, sash, cell, content, closed, at
<1>16. StepOK(d, pointerDown(z, ok))
  BY <1>5, <1>9, <1>10, <1>11, <1>12, <1>13, <1>14, <1>15
<1> QED
  BY <1>3, <1>16, SameThen

\* A release ends the drag of a tab or of the divider.
LEMMA pointerUpStep ==
  ASSUME DeskInv, NEW z \in Zones(desk), NEW pos \in Int, NEW ok \in BOOLEAN
  PROVE  StepOK(desk, pointerUp(z, pos, ok))
<1> DEFINE p == [desk.ptr EXCEPT !.btn = FALSE]
           d == [desk EXCEPT !.ptr.btn = FALSE]
           from == d.ptr.railFrom
           dropped == [d EXCEPT !.ptr.railFrom = 0]
           moved == IF from # 0 /\ OnRail(z) THEN applyRailReorder(dropped, from, z.i, ok)
                    ELSE dropped
           free == [d EXCEPT !.ptr.sash = FALSE]
           last == [moved EXCEPT !.ptr.content = FALSE, !.kbtn = FALSE]
<1>1. /\ Good(desk) /\ desk \in Desks /\ desk.ptr \in Pointers
      /\ (z.kind \in {"cell", "close"} => z.i \in DOMAIN desk.strip.tabs)
  BY DeskParts, ZoneParts DEF DeskInv
<1>2. p \in Pointers
  BY <1>1 DEF Pointers
<1>3. Same(desk, d) /\ d.ptr = p
  <2>1. d = [desk EXCEPT !.ptr = p]
    OBVIOUS
  <2> HIDE DEF d, p
  <2> QED
    BY <1>1, <1>2, <2>1, SetOthersSame
<1>4. pointerUp(z, pos, ok) =
        IF desk.launch.open THEN d
        ELSE IF d.ptr.sash THEN applySashDrag(free, pos)
        ELSE IF moved.ptr.content THEN last ELSE moved
  BY DEF pointerUp
<1>5. Good(d) /\ Sound(d) /\ d \in Desks /\ d.strip = desk.strip /\ d.ptr \in Pointers
  BY <1>1, <1>2, <1>3, SameGood, DeskParts
<1> HIDE DEF d, p
<1>6. Same(d, free)
  <2> DEFINE q == [d.ptr EXCEPT !.sash = FALSE]
  <2>1. q \in Pointers
    BY <1>5 DEF Pointers
  <2>2. free = [d EXCEPT !.ptr = q]
    OBVIOUS
  <2> HIDE DEF q, free
  <2> QED
    BY <1>5, <2>1, <2>2, SetOthersSame
<1>7. Same(d, dropped)
  <2> DEFINE q == [d.ptr EXCEPT !.railFrom = 0]
  <2>1. q \in Pointers
    BY <1>5 DEF Pointers
  <2>2. dropped = [d EXCEPT !.ptr = q]
    OBVIOUS
  <2> HIDE DEF q, dropped
  <2> QED
    BY <1>5, <2>1, <2>2, SetOthersSame
<1> HIDE DEF free, dropped
<1>8. StepOK(d, applySashDrag(free, pos))
  <2>1. Good(free) /\ Sound(free)
    BY <1>5, <1>6, SameGood DEF Good
  <2>2. StepOK(free, applySashDrag(free, pos))
    BY <2>1, applySashDragMild, MildStep
  <2> QED
    BY <1>6, <2>2, SameThen
<1>9. Keeps(d, moved)
  <2>1. Keeps(d, dropped) /\ Sound(dropped)
    BY <1>5, <1>7, SameMild, MildKeeps DEF Keeps
  <2>2. CASE from # 0 /\ OnRail(z)
    <3>1. z.i \in DOMAIN dropped.strip.tabs
      BY <1>1, <1>5, <1>7, <2>2 DEF OnRail, Same
    <3>2. Keeps(dropped, applyRailReorder(dropped, from, z.i, ok))
      BY <2>1, <3>1, applyRailReorderKeeps
    <3>3. Keeps(d, applyRailReorder(dropped, from, z.i, ok))
      BY <1>5, <1>7, <3>2, SameKeeps
    <3> QED
      BY <2>2, <3>3
  <2>3. CASE ~(from # 0 /\ OnRail(z))
    BY <2>1, <2>3
  <2> QED
    BY <2>2, <2>3
<1> HIDE DEF moved
<1>10. StepOK(d, moved) /\ moved \in Desks /\ moved.ptr \in Pointers
  BY <1>5, <1>9, KeepsStep, DeskParts DEF StepOK
<1>11. Keeps(d, last)
  <2> DEFINE q == [moved.ptr EXCEPT !.content = FALSE]
             m == [moved EXCEPT !.ptr = q]
  <2>1. q \in Pointers
    BY <1>10 DEF Pointers
  <2>2. last = [m EXCEPT !.kbtn = FALSE]
    OBVIOUS
  <2> HIDE DEF q
  <2>3. Same(moved, m)
    BY <1>10, <2>1, SetOthersSame
  <2> HIDE DEF m, last
  <2>4. Keeps(d, m) /\ m \in Desks
    BY <1>9, <2>3, KeepsSame DEF Same
  <2>5. Same(m, last)
    BY <2>2, <2>4, SetOthersSame
  <2> QED
    BY <2>4, <2>5, KeepsSame
<1>12. StepOK(d, last)
  BY <1>5, <1>11, KeepsStep
<1>13. StepOK(d, d)
  <2>1. Same(d, d)
    BY <1>5 DEF Same, SameQueues, SameSession
  <2> QED
    BY <1>5, <2>1, SameStep
<1> HIDE DEF last
<1>14. StepOK(d, pointerUp(z, pos, ok))
  BY <1>4, <1>8, <1>10, <1>12, <1>13
<1> QED
  BY <1>3, <1>14, SameThen

LEMMA pointerMotionStep ==
  ASSUME DeskInv, NEW z
  PROVE  StepOK(desk, pointerMotion(z))
<1>1. Good(desk) /\ desk \in Desks /\ desk.ptr.btn \in BOOLEAN
  BY DeskParts DEF DeskInv, Pointers
<1>2. Same(desk, desk)
  BY <1>1 DEF Same, SameQueues, SameSession
<1>3. Same(desk, [desk EXCEPT !.kbtn = desk.ptr.btn])
  BY <1>1, SetOthersSame
<1>4. Same(desk, pointerMotion(z))
  BY <1>2, <1>3 DEF pointerMotion
<1> QED
  BY <1>1, <1>4, SameStep

LEMMA handleWmPointerStep ==
  ASSUME DeskInv, handleWmPointer
  PROVE  Step
<1>1. PICK z \in Zones(desk), ok \in Writes :
        \/ Desk(pointerDown(z, ok))
        \/ \E pos \in IF desk.ptr.sash THEN SashReleases ELSE {0} : Desk(pointerUp(z, pos, ok))
        \/ Desk(pointerMotion(z))
  BY DEF handleWmPointer
<1>2. ok \in BOOLEAN
  BY WritesBoolean
<1>3. CASE Desk(pointerDown(z, ok))
  BY <1>2, <1>3, pointerDownStep, DeskStep
<1>4. CASE \E pos \in IF desk.ptr.sash THEN SashReleases ELSE {0} : Desk(pointerUp(z, pos, ok))
  <2>1. PICK pos \in IF desk.ptr.sash THEN SashReleases ELSE {0} : Desk(pointerUp(z, pos, ok))
    BY <1>4
  <2>2. pos \in Int
    BY DeskBounds
  <2> QED
    BY <1>2, <2>1, <2>2, pointerUpStep, DeskStep
<1>5. CASE Desk(pointerMotion(z))
  BY <1>5, pointerMotionStep, DeskStep
<1> QED
  BY <1>1, <1>3, <1>4, <1>5
-----------------------------------------------------------------------------
(* The composite tick. *)

\* In demo mode the tabs may move and the focus with them: what is kept is
\* everything but the file's truth.
InDemo(d) == Sound(d) /\ d.demo.on = TRUE

LEMMA SetDemoKeeps ==
  ASSUME NEW d, InDemo(d), NEW m \in Demos, m.on = TRUE
  PROVE  LET e == [d EXCEPT !.demo = m] IN InDemo(e) /\ e.demo = m
<1> DEFINE e == [d EXCEPT !.demo = m]
<1>1. Same(d, e) /\ e.demo = m
  BY SetOthersSame DEF InDemo, Sound
<1> HIDE DEF e
<1>2. Sound(e)
  BY <1>1, SameMild DEF InDemo, Mild
<1> QED
  BY <1>1, <1>2 DEF InDemo, e

LEMMA SetDoneKeeps ==
  ASSUME NEW d, InDemo(d)
  PROVE  InDemo([d EXCEPT !.demo.done = TRUE])
<1> DEFINE m == [d.demo EXCEPT !.done = TRUE]
<1>1. d.demo \in Demos /\ d.demo.on = TRUE
  BY DEF InDemo, Sound, Desks
<1>2. m \in Demos /\ m.on = TRUE
  BY <1>1 DEF Demos
<1>3. [d EXCEPT !.demo.done = TRUE] = [d EXCEPT !.demo = m]
  OBVIOUS
<1> HIDE DEF m
<1> QED
  BY <1>2, <1>3, SetDemoKeeps

LEMMA SetCountersKeep ==
  ASSUME NEW d, InDemo(d), NEW n \in Int
  PROVE  /\ InDemo([d EXCEPT !.demo.step = n])
         /\ InDemo([d EXCEPT !.demo.hold = n])
         /\ InDemo([d EXCEPT !.demo.left = n])
<1> DEFINE s == [d.demo EXCEPT !.step = n]
           h == [d.demo EXCEPT !.hold = n]
           l == [d.demo EXCEPT !.left = n]
<1>1. d.demo \in Demos /\ d.demo.on = TRUE
  BY DEF InDemo, Sound, Desks
<1>2. /\ s \in Demos /\ s.on = TRUE /\ h \in Demos /\ h.on = TRUE
      /\ l \in Demos /\ l.on = TRUE
  BY <1>1 DEF Demos
<1>3. /\ [d EXCEPT !.demo.step = n] = [d EXCEPT !.demo = s]
      /\ [d EXCEPT !.demo.hold = n] = [d EXCEPT !.demo = h]
      /\ [d EXCEPT !.demo.left = n] = [d EXCEPT !.demo = l]
  OBVIOUS
<1> HIDE DEF s, h, l
<1> QED
  BY <1>2, <1>3, SetDemoKeeps

LEMMA MildDemo ==
  ASSUME NEW d, NEW e, InDemo(d), Mild(d, e)
  PROVE  InDemo(e)
BY DEF InDemo, Mild, SameSession

LEMMA KeepsDemo ==
  ASSUME NEW d, NEW e, InDemo(d), Keeps(d, e)
  PROVE  InDemo(e)
BY DEF InDemo, Keeps

\* A strip with the same windows.
LEMMA RestripDemo ==
  ASSUME NEW d, InDemo(d), NEW x, StripOK(x), \A w : Has(x, w) <=> Has(d.strip, w)
  PROVE  LET e == [d EXCEPT !.strip = x]
         IN  InDemo(e) /\ e.strip = x /\ e.alive = d.alive
<1> DEFINE e == [d EXCEPT !.strip = x]
<1>1. /\ e \in Desks /\ e.strip = x /\ SameQueues(d, e) /\ SameSession(d, e)
      /\ e.alive = d.alive
  BY StripParts, SetStrip DEF InDemo, Sound
<1> HIDE DEF e
<1>2. Sound(e)
  BY <1>1, GrownSound DEF InDemo, SameSession
<1> QED
  BY <1>1, <1>2 DEF InDemo, SameSession, e

LEMMA applySwapUnpinnedKeeps ==
  ASSUME NEW d, InDemo(d)
  PROVE  InDemo(applySwapUnpinned(d))
<1> DEFINE x == Reorder(d.strip, 1, 2)
<1>1. CASE Len(d.strip.tabs) = 2
  <2>1. StripOK(d.strip)
    BY DEF InDemo, Sound
  <2>2. 1 \in DOMAIN d.strip.tabs /\ 2 \in DOMAIN d.strip.tabs
    BY <1>1, <2>1, StripParts
  <2>3. StripOK(x) /\ \A w : Has(x, w) <=> Has(d.strip, w)
    BY <2>1, <2>2, ReorderKeeps
  <2>4. applySwapUnpinned(d) = [d EXCEPT !.strip = x]
    BY <1>1 DEF applySwapUnpinned
  <2> HIDE DEF x
  <2> QED
    BY <2>3, <2>4, RestripDemo
<1>2. CASE Len(d.strip.tabs) # 2
  BY <1>2 DEF applySwapUnpinned
<1> QED
  BY <1>1, <1>2

\* The lowest position of a set of them.
LEMMA LowestPosition ==
  ASSUME NEW n \in Nat, NEW T \in SUBSET (1 .. n), T # {}
  PROVE  (CHOOSE i \in T : \A j \in T : i <= j) \in T
<1>1. T \in SUBSET Nat
  OBVIOUS
<1>2. \E i \in T : \A j \in T : i <= j
  BY <1>1, LeastNatural
<1> QED
  BY <1>2

LEMMA AliveIds ==
  ASSUME NEW d, Sound(d), NEW w \in d.alive
  PROVE  w \in Nat
<1>1. w \in Windows
  BY DEF Sound, Desks
<1> QED
  BY <1>1, WindowIds DEF sessionIDBase

LEMMA applyPinStayKeeps ==
  ASSUME NEW d, InDemo(d), NEW ok \in BOOLEAN
  PROVE  InDemo(applyPinStay(d, ok))
<1> DEFINE ts == d.strip.tabs
           calc == {j \in DOMAIN ts : ts[j].title = "Calc"}
           i == IF calc = {} THEN 2 ELSE CHOOSE j \in calc : \A k \in calc : j <= k
           x == Pin(d.strip, ts[i].id)
           p == [d EXCEPT !.strip = x]
           other == IF Focused(p.strip) = p.strip.tabs[1].id THEN p.strip.tabs[2].id
                    ELSE p.strip.tabs[1].id
           left == p.strip.tabs[1].id
           h == IF left \in d.alive THEN left ELSE other
           g == [p EXCEPT !.strip = FocusTab(@, left)]
           f == [g EXCEPT !.hosted = h]
<1>1. applyPinStay(d, ok) =
        IF Len(ts) # 2 \/ ts[i].pinned THEN d
        ELSE IF other \in d.alive THEN writeSession(f, ok) ELSE p
  BY DEF applyPinStay
<1>2. CASE Len(ts) # 2
  BY <1>1, <1>2
<1>3. CASE Len(ts) = 2
  <2>1. StripOK(d.strip) /\ DOMAIN ts = 1 .. 2
    BY <1>3, StripParts DEF InDemo, Sound
  <2>2. i \in DOMAIN ts
    <3>1. calc \in SUBSET (1 .. 2)
      BY <2>1
    <3>2. calc # {} => (CHOOSE j \in calc : \A k \in calc : j <= k) \in calc
      BY <3>1, LowestPosition
    <3> HIDE DEF calc
    <3>3. CASE calc = {}
      BY <2>1, <3>3
    <3>4. CASE calc # {}
      <4>1. i = CHOOSE j \in calc : \A k \in calc : j <= k
        BY <3>4
      <4> QED
        BY <2>1, <3>1, <3>2, <3>4, <4>1
    <3> QED
      BY <3>3, <3>4
  <2> HIDE DEF i
  <2>3. Has(d.strip, ts[i].id)
    BY <2>2, HasTab
  <2>4. StripOK(x) /\ \A w : Has(x, w) <=> Has(d.strip, w)
    BY <2>1, <2>3, PinKeeps
  <2> HIDE DEF x
  <2>5. InDemo(p) /\ p.alive = d.alive
    BY <2>4, RestripDemo
  <2> HIDE DEF p, other, left
  <2>6. Mild(p, g)
    BY <2>5, FocusTabMild DEF InDemo
  <2> HIDE DEF g
  <2>7. InDemo(g) /\ g \in Desks
    BY <2>5, <2>6, MildDemo DEF InDemo, Sound
  <2>8. CASE other \in d.alive
    <3>1. h \in Nat
      BY <2>8, AliveIds DEF InDemo
    <3> HIDE DEF h
    <3>2. Same(g, f)
      BY <2>7, <3>1, SetOthersSame
    <3> HIDE DEF f
    <3>3. InDemo(f)
      BY <2>7, <3>2, SameMild, MildDemo DEF InDemo
    <3>4. InDemo(writeSession(f, ok))
      BY <3>3, writeSessionKeeps DEF InDemo
    <3> QED
      BY <1>1, <2>8, <3>4
  <2>9. CASE other \notin d.alive
    BY <1>1, <2>5, <2>9
  <2> QED
    BY <2>8, <2>9
<1> QED
  BY <1>2, <1>3

LEMMA closePinnedFirstKeeps ==
  ASSUME NEW d, InDemo(d), NEW ok \in BOOLEAN
  PROVE  InDemo(closePinnedFirst(d, ok))
<1> DEFINE pins == {i \in DOMAIN d.strip.tabs : d.strip.tabs[i].pinned}
           k == CHOOSE i \in pins : \A j \in pins : i <= j
           first == d.strip.tabs[k].id
           g == [d EXCEPT !.strip = FocusTab(@, first)]
           f == [g EXCEPT !.hosted = first]
<1>1. closePinnedFirst(d, ok) = IF pins = {} THEN closeHosted(d, ok) ELSE closeHosted(f, ok)
  BY DEF closePinnedFirst
<1>2. InDemo(closeHosted(d, ok))
  BY closeHostedKeeps, KeepsDemo DEF InDemo
<1>3. ASSUME pins # {} PROVE InDemo(closeHosted(f, ok))
  <2>1. StripOK(d.strip)
    BY DEF InDemo, Sound
  <2>2. pins \in SUBSET (1 .. Len(d.strip.tabs)) /\ Len(d.strip.tabs) \in Nat
    BY <2>1, StripParts
  <2> HIDE DEF pins
  <2>3. k \in pins
    BY <1>3, <2>2, LowestPosition
  <2> HIDE DEF k
  <2>4. first \in Nat
    BY <2>1, <2>3, StripParts DEF pins
  <2> HIDE DEF first
  <2>5. Mild(d, g)
    BY FocusTabMild DEF InDemo
  <2> HIDE DEF g
  <2>6. InDemo(g) /\ g \in Desks
    BY <2>5, MildDemo DEF InDemo, Sound
  <2>7. Same(g, f)
    BY <2>4, <2>6, SetOthersSame
  <2> HIDE DEF f
  <2>8. InDemo(f)
    BY <2>6, <2>7, SameMild, MildDemo DEF InDemo
  <2> QED
    BY <2>8, closeHostedKeeps, KeepsDemo DEF InDemo
<1> QED
  BY <1>1, <1>2, <1>3

\* The demo's eight moves, whatever state they meet.
LEMMA choreographyKeeps ==
  ASSUME NEW d, InDemo(d), NEW ok \in BOOLEAN
  PROVE  InDemo(choreography(d, ok))
<1> DEFINE step == d.demo.step + 1
           s == [d EXCEPT !.demo.step = step]
           done(e) == [e EXCEPT !.demo.done = TRUE]
           c == closePinnedFirst(s, ok)
           k == closeHosted(s, ok)
<1>1. step \in Int
  BY DEF InDemo, Sound, Desks, Demos
<1>2. choreography(d, ok) =
        CASE step = 1 -> applySwapUnpinned(s)
          [] step = 2 -> applyPinStay(s, ok)
          [] step = 3 -> applySplit(s, "v")
          [] step = 5 -> applySplit(s, "h")
          [] step \in {4, 6} -> applyUnsplit(s)
          [] step = 7 -> IF c.strip.tabs = <<>> THEN done(c) ELSE c
          [] OTHER -> done(k)
  BY DEF choreography
<1> HIDE DEF step
<1>3. InDemo(s)
  BY <1>1, SetCountersKeep
<1> HIDE DEF s
<1>4. InDemo(applySwapUnpinned(s)) /\ InDemo(applyPinStay(s, ok))
  BY <1>3, applySwapUnpinnedKeeps, applyPinStayKeeps
<1>5. /\ InDemo(applySplit(s, "v")) /\ InDemo(applySplit(s, "h"))
      /\ InDemo(applyUnsplit(s))
  <2>1. Mild(s, applySplit(s, "v")) /\ Mild(s, applySplit(s, "h")) /\ Mild(s, applyUnsplit(s))
    BY <1>3, applySplitMild, applyUnsplitMild DEF InDemo, Splits
  <2> QED
    BY <1>3, <2>1, MildDemo
<1>6. InDemo(c) /\ InDemo(k)
  BY <1>3, closePinnedFirstKeeps, closeHostedKeeps, KeepsDemo DEF InDemo
<1> HIDE DEF c, k
<1>7. InDemo(done(c)) /\ InDemo(done(k))
  BY <1>6, SetDoneKeeps
<1> HIDE DEF done
<1> QED
  BY <1>2, <1>4, <1>5, <1>6, <1>7

LEMMA hostCountdownKeeps ==
  ASSUME NEW d, InDemo(d), NEW ok \in BOOLEAN
  PROVE  InDemo(hostCountdown(d, ok))
<1> DEFINE n == d.demo.left - 1
           e == [d EXCEPT !.demo.left = n]
           k == closeHosted(e, ok)
<1>1. n \in Int
  BY DEF InDemo, Sound, Desks, Demos
<1>2. hostCountdown(d, ok) = IF e.demo.left > 0 THEN e ELSE [k EXCEPT !.demo.done = TRUE]
  BY DEF hostCountdown
<1> HIDE DEF n
<1>3. InDemo(e)
  BY <1>1, SetCountersKeep
<1> HIDE DEF e
<1>4. InDemo(k)
  BY <1>3, closeHostedKeeps, KeepsDemo DEF InDemo
<1> HIDE DEF k
<1> QED
  BY <1>2, <1>3, <1>4, SetDoneKeeps

\* A tick ages the toasts, and in demo mode makes the next move.
LEMMA deskTickStep ==
  ASSUME DeskInv, deskTick
  PROVE  Step
<1>1. PICK presented \in BOOLEAN, ok \in Writes : compositeTick(presented, ok)
  BY DEF deskTick
<1> DEFINE x == notifyExpire(desk)
           y == [x EXCEPT !.painted = TRUE]
           d == IF x.toasts # <<>> /\ presented THEN y ELSE x
           saw == [d EXCEPT !.demo.sawTwo = TRUE, !.demo.step = 0, !.demo.hold = ChordHold]
           two == IF d.demo.sawTwo THEN d ELSE saw
           r == IF ~d.demo.on \/ d.demo.done THEN d
                ELSE IF Len(d.strip.tabs) >= 2 \/ d.demo.sawTwo
                THEN IF two.demo.hold > 0 THEN [two EXCEPT !.demo.hold = @ - 1]
                     ELSE choreography(two, ok)
                ELSE IF Len(d.strip.tabs) = 1 THEN hostCountdown(d, ok) ELSE d
<1>2. Desk(r)
  BY <1>1 DEF compositeTick
<1>3. Good(desk) /\ Sound(desk) /\ ok \in BOOLEAN
  BY WritesBoolean, DeskParts DEF DeskInv
<1>4. Mild(desk, x)
  BY <1>3, notifyExpireMild
<1> HIDE DEF x
<1>5. ASSUME x.toasts # <<>> PROVE Mild(x, y)
  <2>1. /\ y \in Desks /\ y.strip = x.strip /\ y.pend = x.pend /\ y.toasts = x.toasts
        /\ SameSession(x, y)
    BY <1>4 DEF Mild, Sound, Desks, SameSession
  <2> HIDE DEF y
  <2> QED
    BY <1>4, <1>5, <2>1, FewerToasts DEF Mild
<1> HIDE DEF y
<1>6. Mild(desk, d)
  BY <1>4, <1>5, MildTrans
<1> HIDE DEF d
<1>7. CASE ~d.demo.on \/ d.demo.done
  <2>1. r = d
    BY <1>7
  <2> QED
    BY <1>2, <1>3, <1>6, <2>1, MildStep, DeskStep
<1>8. CASE d.demo.on /\ ~d.demo.done
  <2>1. InDemo(d) /\ desk.demo.on /\ d.demo \in Demos
    <3>1. Sound(d) /\ d.demo \in Demos
      BY <1>6 DEF Mild, Sound, Desks
    <3> QED
      BY <1>6, <1>8, <3>1 DEF InDemo, Mild, SameSession, Demos
  <2>2. InDemo(saw)
    <3> DEFINE m == [d.demo EXCEPT !.sawTwo = TRUE, !.step = 0]
               n == [m EXCEPT !.hold = ChordHold]
    <3>0. d.demo \in Demos /\ d.demo.on = TRUE
      BY <2>1 DEF InDemo
    <3>1. m \in Demos /\ m.on = TRUE
      BY <3>0, StartChoreography
    <3>2. saw = [d EXCEPT !.demo = n]
      OBVIOUS
    <3> HIDE DEF m
    <3>3. n \in Demos /\ n.on = TRUE
      BY <3>1, DeskBounds DEF Demos
    <3> HIDE DEF n, saw
    <3> QED
      BY <2>1, <3>2, <3>3, SetDemoKeeps
  <2> HIDE DEF saw
  <2>3. InDemo(two)
    BY <2>1, <2>2
  <2> HIDE DEF two
  <2>4. InDemo([two EXCEPT !.demo.hold = @ - 1])
    <3> DEFINE h == two.demo.hold - 1
    <3>1. h \in Int
      BY <2>3 DEF InDemo, Sound, Desks, Demos
    <3>2. [two EXCEPT !.demo.hold = @ - 1] = [two EXCEPT !.demo.hold = h]
      OBVIOUS
    <3> HIDE DEF h
    <3> QED
      BY <2>3, <3>1, <3>2, SetCountersKeep
  <2>5. InDemo(choreography(two, ok)) /\ InDemo(hostCountdown(d, ok))
    BY <1>3, <2>1, <2>3, choreographyKeeps, hostCountdownKeeps
  <2>6. InDemo(r)
    BY <2>1, <2>4, <2>5
  <2> HIDE DEF r
  <2>7. StepOK(desk, r)
    BY <2>1, <2>6, DemoStep DEF InDemo
  <2> QED
    BY <1>2, <2>7, DeskStep
<1> QED
  BY <1>7, <1>8
-----------------------------------------------------------------------------
(* The theorems. *)

LEMMA deskNextStep ==
  ASSUME DeskInv, deskNext
  PROVE  Step
BY seatStartStep, seatKilledStep, seatDoneStep, clientWindowStep, applyRPCStep,
   handleWmKeyStep, handleLauncherKeyStep, handleWmPointerStep, deskTickStep DEF deskNext

\* Good(desk) holds in every reachable state of the desktop: every request,
\* key, pointer event and tick, every death of a client and every kill of the
\* seat preserves it (gotabwm's tabs.go, split.go, session.go, notify.go).
THEOREM DeskInvariant == deskSpec => []DeskInv
<1>1. deskInit => DeskInv
  BY deskInitInv
<1>2. DeskInv /\ [deskNext]_deskVars => DeskInv'
  <2>1. ASSUME DeskInv, deskNext PROVE DeskInv'
    BY <2>1, deskNextStep DEF Step, StepOK, DeskInv
  <2>2. ASSUME DeskInv, UNCHANGED deskVars PROVE DeskInv'
    BY <2>2 DEF deskVars, DeskInv
  <2> QED
    BY <2>1, <2>2
<1> QED
  BY <1>1, <1>2, PTL DEF deskSpec

\* The panes of a sound strip fit the scanout.
LEMMA PanesOfStrip ==
  ASSUME NEW s, StripOK(s), s.split # "none"
  PROVE  LET r == PaneRects(s)
         IN  /\ Len(s.tabs) >= 2
             /\ r[1].len >= PaneMin /\ r[2].len >= PaneMin
             /\ r[1].at >= 0 /\ r[1].at + r[1].len <= r[2].at
             /\ r[2].at + r[2].len = ScanLen
<1> DEFINE half == SashWidth \div 2
           mid == ScanLen \div 2
           c == clampSash(s.sash)
           r == PaneRects(s)
<1>1. /\ half \in Nat /\ 2 * half <= SashWidth /\ mid \in Nat /\ 2 * mid <= ScanLen
      /\ ScanLen <= 2 * mid + 1
  BY HalfSash
<1>2. s.sash \in Int /\ Len(s.tabs) >= 2
  BY StripParts DEF StripOK
<1>3. c \in Int /\ PaneMin + half <= c /\ c <= ScanLen - PaneMin - half
  BY <1>2, clampSashBounds
<1>4. CASE s.sash <= 0
  <2>1. r = <<[axis |-> s.split, at |-> 0, len |-> mid],
              [axis |-> s.split, at |-> mid, len |-> ScanLen - mid]>>
    BY <1>4 DEF PaneRects, SplitRectsSash, SplitRects
  <2>2. /\ r[1].at = 0 /\ r[1].len = mid /\ r[2].at = mid /\ r[2].len = ScanLen - mid
    BY <2>1
  <2> HIDE DEF r, mid
  <2> QED
    BY <1>1, <1>2, <2>2, PanesPossible DEF r
<1>5. CASE ~(s.sash <= 0)
  <2>1. r = <<[axis |-> s.split, at |-> 0, len |-> c - half],
              [axis |-> s.split, at |-> c + half, len |-> ScanLen - (c + half)]>>
    BY <1>5 DEF PaneRects, SplitRectsSash
  <2> HIDE DEF c, half
  <2>2. /\ r[1].at = 0 /\ r[1].len = c - half /\ r[2].at = c + half
        /\ r[2].len = ScanLen - (c + half)
    BY <2>1
  <2> HIDE DEF r
  <2> QED
    BY <1>1, <1>2, <1>3, <2>2, PanesPossible DEF r
<1> QED
  BY <1>4, <1>5

\* Nothing points at a closed tab, the panes fit the screen and the session
\* file tells what the strip holds, whatever the windows, the bounds and the
\* script of inputs (tabs.go CloseTab, split.go, session.go writeSession).
THEOREM DeskIsCoherent == deskSpec => []DeskCoherent
<1>1. DeskInv => DeskCoherent
  <2> SUFFICES ASSUME DeskInv PROVE DeskCoherent
    OBVIOUS
  <2>1. TargetsLive
    BY DEF DeskInv, Good, Sound, Targets, TargetsLive
  <2>2. PanesFit
    BY PanesOfStrip DEF DeskInv, Good, Sound, PanesFit
  <2>3. SessionTracksStrip
    BY DEF DeskInv, Good, Tracks, Tells, SessionTracksStrip
  <2> QED
    BY <2>1, <2>2, <2>3 DEF DeskCoherent
<1> QED
  BY <1>1, DeskInvariant, PTL

\* In live mode no step that rearranges the tabs moves the keyboard to another
\* one: pinning and dragging move a tab by index, and the focused index is
\* recomputed from the tab (tabs.go Reorder, normalizePinned).
THEOREM FocusStaysOnTab == deskSpec => FocusStays
<1> DEFINE A == /\ desk.up /\ desk'.up /\ ~desk.demo.on
                /\ Ids(desk.strip) # Ids(desk'.strip)
                /\ ToSet(Ids(desk.strip)) = ToSet(Ids(desk'.strip))
                => Focused(desk'.strip) = Focused(desk.strip)
<1>1. DeskInv /\ [deskNext]_deskVars => [A]_deskVars
  <2>1. ASSUME DeskInv, deskNext PROVE A
    BY <2>1, deskNextStep DEF Step, StepOK, FocusKept
  <2> QED
    BY <2>1
<1>2. deskSpec => [][A]_deskVars
  <2> HIDE DEF A
  <2> QED
    BY <1>1, DeskInvariant, PTL DEF deskSpec
<1> QED
  BY <1>2 DEF FocusStays
=============================================================================
