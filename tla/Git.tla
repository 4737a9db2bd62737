--------------------------------- MODULE Git ---------------------------------
(***************************************************************************)
(* GOTGIT.ELF, the clone client (user/go/git), the repository reader       *)
(* (user/go/git/gitread) and GOGITUI.ELF, the browser over it              *)
(* (user/go/gitui).  An object is its type and its atoms, a sequence:      *)
(* bytes of a blob, entries of a tree, the tree and the parents of         *)
(* a commit.  Hashing is injective: an object's id is the object.  A ref   *)
(* is a directory and a leaf.  A path in the worktree is a sequence of     *)
(* names.  Every file is published by vi.WriteFileSafe, and the client may *)
(* die between any two calls and be run again.                             *)
(***************************************************************************)
EXTENDS Integers, Sequences, SequencesExt, FiniteSets, FiniteSetsExt, Folds, TLC

CONSTANTS
    GitServers,     \* what a server may hold: refs, objects, how they are packed
    GitRepos,       \* repositories GOGITUI may be started on
    LongNames,      \* names that make a path of more than maxPath bytes
    maxObjSize,     \* atoms of an object
    insMax,         \* atoms one delta instruction may insert
    maxChunk,       \* atoms of one stored block
    Radix,          \* base of the variable-length numbers (128 in the code)
    MaxVar,         \* numbers, texts and code lengths the codecs are tried on
    CodecTexts,
    CodeLengths,
    LogLimit,
    GitBytes,       \* bytes typed into GOGITUI
    GitEdits,       \* bodies another program writes to the worktree
    MaxGitRuns,     \* bound: times the client is started
    MaxGitSteps     \* bound: bytes typed and outside edits

VARIABLE git

-----------------------------------------------------------------------------
(* Variable-length numbers: a digit, and whether more follow *)

encodeDeltaVar[v \in Nat] ==
    IF v < Radix THEN <<[d |-> v, more |-> FALSE]>>
    ELSE <<[d |-> v % Radix, more |-> TRUE]>> \o encodeDeltaVar[v \div Radix]

readDeltaVar(b) ==
    LET n == CHOOSE i \in DOMAIN b : ~b[i].more /\ \A j \in 1 .. i - 1 : b[j].more IN
    FoldRight(LAMBDA x, acc : x.d + Radix * acc, SubSeq(b, 1, n), 0)

\* Offsets are stored most significant digit first, each step one less
OfsDigits[back \in Nat] ==
    IF back = 0 THEN <<>>
    ELSE Append(OfsDigits[(back - 1) \div Radix], [d |-> (back - 1) % Radix, more |-> TRUE])

encodeOfs(back) == Append(OfsDigits[back \div Radix], [d |-> back % Radix, more |-> FALSE])

readOfsDelta(b) ==
    FoldLeft(LAMBDA off, x : Radix * (off + 1) + x.d, b[1].d, Tail(b))

-----------------------------------------------------------------------------
(* Deltas and packs: pack.go.  A failure is the empty set.                  *)

HashObject(type, atoms) == <<type, atoms>>

CommonPrefix(a, b) ==
    CHOOSE n \in 0 .. Len(a) :
        /\ IsPrefix(SubSeq(a, 1, n), b)
        /\ n = Len(a) \/ ~IsPrefix(SubSeq(a, 1, n + 1), b)

\* A sequence in pieces of at most n
Pieces(s, n) ==
    [i \in 1 .. (Len(s) + n - 1) \div n |->
        SubSeq(s, n * (i - 1) + 1, IF n * i < Len(s) THEN n * i ELSE Len(s))]

Inserts(rest) ==
    [i \in DOMAIN Pieces(rest, insMax) |->
        [copy |-> FALSE, off |-> 0, size |-> 0, atoms |-> Pieces(rest, insMax)[i]]]

\* encodeDelta: copy the common prefix, insert the rest
encodeDelta(base, target) ==
    LET n == CommonPrefix(base, target) IN
    [src |-> Len(base), dst |-> Len(target),
     cmds |-> (IF n > 0 THEN <<[copy |-> TRUE, off |-> 0, size |-> n, atoms |-> <<>>]>> ELSE <<>>)
              \o Inserts(SubSeq(target, n + 1, Len(target)))]

\* A copy past the base, or a result of another length, refuses the delta
applyPackDelta(base, delta) ==
    LET grow(out, c) ==
            UNION {IF ~c.copy THEN {o \o c.atoms}
                   ELSE IF c.off + c.size > Len(base) THEN {}
                   ELSE {o \o SubSeq(base, c.off + 1, c.off + c.size)} : o \in out} IN
    IF delta.src # Len(base) \/ delta.dst > maxObjSize THEN {}
    ELSE {o \in FoldLeft(grow, {<<>>}, delta.cmds) : Len(o) = delta.dst}

NoDelta == [src |-> 0, dst |-> 0, cmds |-> <<>>]

\* PackObjects: each object whole, or as a delta against another, named by
\* offset (an earlier one) or by id
PackObjects(objs, from, ofs) ==
    [i \in DOMAIN objs |->
        IF from[i] = 0
        THEN [kind |-> "whole", type |-> objs[i].type, atoms |-> objs[i].atoms,
              delta |-> NoDelta, back |-> <<>>, base |-> <<>>]
        ELSE [kind |-> IF ofs[i] THEN "ofs" ELSE "ref", type |-> "", atoms |-> <<>>,
              delta |-> encodeDelta(objs[from[i]].atoms, objs[i].atoms),
              back |-> IF ofs[i] THEN encodeOfs(i - from[i]) ELSE <<>>,
              base |-> IF ofs[i] THEN <<>> ELSE HashObject(objs[from[i]].type, objs[from[i]].atoms)]]

\* findBase: by offset whatever its state, by id among the resolved
findBase(raw, i) ==
    LET o == raw[i] IN
    IF o.kind = "ofs" THEN {i - readOfsDelta(o.back)} \cap DOMAIN raw
    ELSE {j \in DOMAIN raw : raw[j].done /\ raw[j].id = o.base}

Done(o, type, atoms) == [o EXCEPT !.type = type, !.atoms = atoms, !.id = HashObject(type, atoms), !.done = TRUE]

\* One object of one pass: resolved when its base is, else left for the next
\* pass; a delta that does not apply fails the pack
resolveOne(r, i) ==
    LET o == r.raw[i]
        bases == {j \in findBase(r.raw, i) : r.raw[j].done}
        b == r.raw[CHOOSE j \in bases : TRUE]
        out == applyPackDelta(b.atoms, o.delta) IN
    IF r.err \/ o.done THEN r
    ELSE IF o.kind = "whole" THEN [r EXCEPT !.raw[i] = Done(o, o.type, o.atoms)]
    ELSE IF bases = {} THEN r
    ELSE IF out = {} THEN [r EXCEPT !.err = TRUE]
    ELSE [r EXCEPT !.raw[i] = Done(o, b.type, CHOOSE d \in out : TRUE)]

\* Plausible mistake: one pass is enough
resolve_once(raw) ==
    LET r == FoldLeft(resolveOne, [err |-> FALSE, raw |-> raw], [i \in DOMAIN raw |-> i]) IN
    IF r.err THEN {} ELSE {SelectSeq(r.raw, LAMBDA o : o.done)}

\* Passes are made until one makes no progress
resolveDeltas(raw) ==
    LET pass(r, n) == FoldLeft(resolveOne, r, [i \in DOMAIN raw |-> i])
        r == FoldLeft(pass, [err |-> FALSE, raw |-> raw], [i \in DOMAIN raw |-> i]) IN
    IF r.err \/ \E i \in DOMAIN raw : ~r.raw[i].done THEN {} ELSE {r.raw}

\* ParsePack: the checksum, each object, the deltas
ParsePack(pack, intact) ==
    IF ~intact \/ \E i \in DOMAIN pack : Len(pack[i].atoms) > maxObjSize THEN {}
    ELSE {[i \in DOMAIN r |-> [type |-> r[i].type, atoms |-> r[i].atoms]] :
            r \in resolveDeltas([i \in DOMAIN pack |->
                [kind |-> pack[i].kind, type |-> pack[i].type, atoms |-> pack[i].atoms,
                 delta |-> pack[i].delta, back |-> pack[i].back, base |-> pack[i].base,
                 id |-> <<"none", <<>>>>, done |-> FALSE]])}

-----------------------------------------------------------------------------
(* Compressed streams: flate.go.  A stream is a sequence of blocks, a block *)
(* stored bytes or literals and matches.                                    *)

\* decodeBlock: a match copies from what is already out, byte by byte
decodeToken(cap, out, t) ==
    UNION {IF t.dist = 0 THEN (IF Len(o) >= cap THEN {} ELSE {Append(o, t.lit)})
           ELSE IF t.dist > Len(o) \/ Len(o) + t.len > cap THEN {}
           ELSE {FoldLeft(LAMBDA x, k : Append(x, x[Len(x) + 1 - t.dist]), o, [k \in 1 .. t.len |-> k])} :
           o \in out}

inflateBlock(cap, out, b) ==
    IF b.stored THEN {o \o b.bytes : o \in {x \in out : Len(x) + Len(b.bytes) <= cap}}
    ELSE FoldLeft(LAMBDA o, t : decodeToken(cap, o, t), out, b.toks)

\* inflateDeflate and inflateZlib: the blocks, then the checksum of the result
inflateZlib(stream, cap) ==
    {o \in FoldLeft(LAMBDA out, b : inflateBlock(cap, out, b), {<<>>}, stream.blocks) : o = stream.sum}

\* zlibStore: stored blocks of at most maxChunk
zlibStore(atoms) ==
    [blocks |-> [i \in DOMAIN Pieces(atoms, maxChunk) |->
                    [stored |-> TRUE, bytes |-> Pieces(atoms, maxChunk)[i], toks |-> <<>>]],
     sum |-> atoms]

\* A canonical code: how many symbols have each length, the first code of each
\* length, the symbols in order of length
blCount(lengths, n) == Cardinality({i \in DOMAIN lengths : lengths[i] = n})

firstCode(lengths, n) ==
    FoldLeft(LAMBDA code, b : 2 * (code + (IF b = 1 THEN 0 ELSE blCount(lengths, b - 1))), 0, [b \in 1 .. n |-> b])

SymbolsOf(lengths, n) == SetToSortSeq({i \in DOMAIN lengths : lengths[i] = n}, <)

\* huffmanTree.decode: the shortest prefix of the bits that is a code
huffmanDecode(lengths, bits) ==
    LET value(n) == FoldLeft(LAMBDA v, b : 2 * v + b, 0, SubSeq(bits, 1, n))
        fits == {n \in DOMAIN bits :
                    value(n) - firstCode(lengths, n) \in 0 .. blCount(lengths, n) - 1}
        n == Min(fits) IN
    IF fits = {} THEN {} ELSE {SymbolsOf(lengths, n)[1 + value(n) - firstCode(lengths, n)]}

-----------------------------------------------------------------------------
(* The smart protocol: https.go, pktline.go, smart.go *)

\* classify: only https to a literal address is fetched
Fetchable(url) == url = "https"

\* parseInfoRefs: the ref lines of what arrived; the service line and flushes
\* are skipped, and a cut line ends the scan
parseInfoRefs(pkts) == SelectSeq(pkts, LAMBDA p : p.kind = "ref")

\* pickWant: main or master, else HEAD, else the first
pickWant(refs) ==
    LET named(leaves, dir) == {i \in DOMAIN refs : refs[i].dir = dir /\ refs[i].leaf \in leaves}
        main == named({"main", "master"}, "refs/heads")
        head == named({"HEAD"}, "") IN
    IF refs = <<>> THEN {}
    ELSE {refs[IF main # {} THEN Min(main) ELSE IF head # {} THEN Max(head) ELSE 1]}

\* extractPack: band 1 carries the pack, band 2 progress, band 3 an error; a
\* packet that starts the pack without a band takes the rest of the stream
extractPack(pkts) ==
    LET raw == {i \in DOMAIN pkts : pkts[i].band = "raw"}
        bad == {i \in DOMAIN pkts : pkts[i].band = "3"}
        upto == IF raw = {} THEN Len(pkts) ELSE Min(raw) - 1
        banded == SelectSeq(SubSeq(pkts, 1, upto), LAMBDA p : p.band = "1") IN
    IF \E i \in bad : i <= upto THEN {}
    ELSE {[i \in DOMAIN banded |-> banded[i].piece] \o
          [i \in 1 .. Len(pkts) - upto |-> pkts[upto + i].piece]}

\* httpsRequest and readTLS: a connection that fails before the first byte is
\* an error, one that fails later is the end of the response
Responses(pkts) == {SubSeq(pkts, 1, k) : k \in 1 .. Len(pkts)}

-----------------------------------------------------------------------------
(* The repository on the share: store.go, repo.go *)

EmptyRepo == [objs |-> {}, head |-> {}, heads |-> {}, work |-> << >>, index |-> {}]

\* Repo.Get: an object whose bytes do not hash to its name is not returned
Get(disk, id) == {o \in disk.objs : HashObject(o.type, o.atoms) = id}

\* resolveRef: the file the ref names
resolveRef(disk, ref) ==
    IF ref.dir = "refs/heads" THEN {h.id : h \in {x \in disk.heads : x.leaf = ref.leaf}} ELSE {}

HeadOf(disk) == UNION {resolveRef(disk, r) : r \in disk.head}

CommitTree(c) == c.atoms[1]

parents(c) == Tail(c.atoms)

\* writeStore: the objects in pack order, HEAD, then the branch under its leaf
StoreWrites(objs, want) ==
    LET name == IF want.leaf = "HEAD" THEN [dir |-> "refs/heads", leaf |-> "main"]
                ELSE [dir |-> want.dir, leaf |-> want.leaf] IN
    [i \in DOMAIN objs |-> [to |-> "obj", obj |-> objs[i]]]
    \o <<[to |-> "head", ref |-> name], [to |-> "ref", leaf |-> name.leaf, id |-> want.id]>>

FindObj(objs, id) == {o \in ToSet(objs) : HashObject(o.type, o.atoms) = id}

\* checkout: the wanted commit (else the last commit of the pack), its tree's
\* own blobs; subtrees are left out, and so are names whose path would be too long
CheckoutWrites(objs, want) ==
    LET commits == SelectSeq(objs, LAMBDA o : o.type = "commit")
        asked == {o \in FindObj(objs, want.id) : o.type = "commit"}
        c == IF asked # {} THEN CHOOSE o \in asked : TRUE ELSE Last(commits)
        trees == {o \in FindObj(objs, CommitTree(c)) : o.type = "tree"}
        t == CHOOSE o \in trees : TRUE
        ents == SelectSeq(t.atoms, LAMBDA e : e.mode = "blob" /\ e.name \notin LongNames
                    /\ \E o \in FindObj(objs, e.id) : o.type = "blob") IN
    IF commits = <<>> \/ trees = {} THEN <<>>
    ELSE [i \in DOMAIN ents |-> [to |-> "work", path |-> <<ents[i].name>>, atoms |-> ents[i].id[2]]]

\* What one published file changes, and what its deletion changes
Published(disk, w) ==
    CASE w.to = "obj" -> [disk EXCEPT !.objs = @ \cup {w.obj}]
      [] w.to = "head" -> [disk EXCEPT !.head = {w.ref}]
      [] w.to = "ref" -> [disk EXCEPT !.heads = {h \in @ : h.leaf # w.leaf} \cup {[leaf |-> w.leaf, id |-> w.id]}]
      [] w.to = "work" -> [disk EXCEPT !.work = (w.path :> w.atoms) @@ @]

Deleted(disk, w) ==
    CASE w.to = "obj" -> [disk EXCEPT !.objs = @ \ {w.obj}]
      [] w.to = "head" -> [disk EXCEPT !.head = {}]
      [] w.to = "ref" -> [disk EXCEPT !.heads = {h \in @ : h.leaf # w.leaf}]
      [] w.to = "work" -> [disk EXCEPT !.work = [p \in DOMAIN @ \ {w.path} |-> @[p]]]

-----------------------------------------------------------------------------
(* The client: main.go *)

GitIdle == [view |-> "none", scroll |-> 0, ms |-> <<>>, status |-> <<>>, log |-> <<>>]

gitInit ==
    \/ \E s \in GitServers :
           git = [phase |-> "args", srv |-> s, want |-> {}, todo |-> <<>>, objs |-> <<>>, disk |-> EmptyRepo,
                  ui |-> GitIdle, runs |-> 1, steps |-> 0]
    \/ \E d \in GitRepos :
           git = [phase |-> "idle", srv |-> << >>, want |-> {}, todo |-> <<>>, objs |-> <<>>, disk |-> d,
                  ui |-> GitIdle, runs |-> MaxGitRuns, steps |-> 0]

GitFails == git' = [git EXCEPT !.phase = "failed", !.todo = <<>>]

\* main: the URL is classified, the directories made
GitStart ==
    /\ git.phase = "args"
    /\ \E url \in {"https", "http", "dns", "url"} :
           \/ Fetchable(url) /\ git' = [git EXCEPT !.phase = "refs"]
           \/ ~Fetchable(url) /\ GitFails

GitRefs ==
    /\ git.phase = "refs"
    /\ \/ GitFails
       \/ \E body \in Responses(git.srv.refs) :
          \E w \in pickWant(parseInfoRefs(body)) :
              git' = [git EXCEPT !.phase = "pack", !.want = {w}]

\* The pack that arrived is the pack that was sent, or its checksum is wrong
GitPack ==
    /\ git.phase = "pack"
    /\ \/ GitFails
       \/ \E body \in Responses(git.srv.body) :
          \E pieces \in extractPack(body) :
          \E objs \in ParsePack(PackObjects(git.srv.objs, git.srv.from, git.srv.ofs),
                                pieces = [i \in 1 .. git.srv.pieces |-> i]),
             w \in git.want :
              /\ {"blob", "tree", "commit"} \subseteq {o.type : o \in ToSet(objs)}
              /\ git' = [git EXCEPT !.phase = "store", !.objs = objs, !.todo = StoreWrites(objs, w)]

\* One file: published; refused; refused after the old file was deleted
GitWrite ==
    /\ git.phase \in {"store", "checkout"} /\ git.todo # <<>>
    /\ \/ git' = [git EXCEPT !.disk = Published(@, Head(git.todo)), !.todo = Tail(@)]
       \/ \E d \in {git.disk, Deleted(git.disk, Head(git.todo))} :
              git' = [git EXCEPT !.disk = d, !.phase = "failed", !.todo = <<>>]

GitStored ==
    /\ git.phase = "store" /\ git.todo = <<>>
    /\ \E w \in git.want :
           LET files == CheckoutWrites(git.objs, w) IN
           IF files = <<>> THEN GitFails ELSE git' = [git EXCEPT !.phase = "checkout", !.todo = files]

GitOK == git.phase = "checkout" /\ git.todo = <<>> /\ git' = [git EXCEPT !.phase = "ok"]

\* The client dies, with the file it was publishing deleted or not
GitCrash ==
    /\ git.phase \in {"store", "checkout"} /\ git.todo # <<>>
    /\ \E d \in {git.disk, Deleted(git.disk, Head(git.todo))} :
           git' = [git EXCEPT !.phase = "failed", !.disk = d, !.todo = <<>>]

GitAgain ==
    /\ git.phase \in {"ok", "failed"} /\ git.runs < MaxGitRuns
    /\ git' = [git EXCEPT !.phase = "args", !.runs = @ + 1, !.want = {}, !.objs = <<>>]

-----------------------------------------------------------------------------
(* The reader: status.go, log.go, diff.go *)

RECURSIVE Walk(_, _, _)
Walk(disk, prefix, id) ==
    LET trees == {o \in Get(disk, id) : o.type = "tree"}
        ents == ToSet((CHOOSE o \in trees : TRUE).atoms)
        subs == {<<e, Walk(disk, Append(prefix, e.name), e.id)>> : e \in {x \in ents : x.mode = "tree"}} IN
    IF trees = {} \/ \E s \in subs : s[2] = {} THEN {}
    ELSE {{[path |-> Append(prefix, e.name), id |-> e.id] : e \in {x \in ents : x.mode = "blob"}}
          \cup UNION {UNION s[2] : s \in subs}}

\* headFiles: the files of HEAD's tree, or nothing when one object is missing
headFiles(disk) ==
    UNION {UNION {IF c.type = "commit" THEN Walk(disk, <<>>, CommitTree(c)) ELSE {} : c \in Get(disk, id)} :
           id \in HeadOf(disk)}

\* scanWorktree: what is listed and can still be read
scanWorktree(disk, gone) == {[path |-> p, id |-> HashObject("blob", disk.work[p])] : p \in DOMAIN disk.work \ gone}

Paths(fs) == {f.path : f \in fs}

Changes(old, new) ==
    {<<"A", p>> : p \in Paths(new) \ Paths(old)} \cup {<<"D", p>> : p \in Paths(old) \ Paths(new)}
    \cup {<<"M", f.path>> : f \in {x \in new : x.path \in Paths(old) /\ x \notin old}}

\* Status: index against HEAD, worktree against the index (HEAD without one)
GitStatus(disk, gone) ==
    {LET work == scanWorktree(disk, gone)
         index == UNION disk.index
         tracked == IF disk.index = {} THEN head ELSE index IN
     [staged |-> IF disk.index = {} THEN {} ELSE Changes(head, index),
      modified |-> {c \in Changes(tracked, work) : c[1] # "A"},
      untracked |-> Paths(work) \ Paths(tracked)] : head \in headFiles(disk)}

\* Log: along first parents, until an object is missing or seen before
RECURSIVE LogFrom(_, _, _)
LogFrom(disk, ids, n) ==
    LET cs == {o \in UNION {Get(disk, id) : id \in ids} : o.type = "commit"}
        c == CHOOSE o \in cs : TRUE IN
    IF n = 0 \/ cs = {} THEN <<>>
    ELSE <<HashObject(c.type, c.atoms)>>
         \o LogFrom(disk, {parents(c)[i] : i \in 1 .. IF parents(c) = <<>> THEN 0 ELSE 1}, n - 1)

Log(disk) == LogFrom(disk, HeadOf(disk), LogLimit)

\* makeFileDiff: the common first lines, the common last ones, what is between
makeFileDiff(a, b) ==
    LET p == CommonPrefix(a, b)
        ra == SubSeq(a, p + 1, Len(a))
        rb == SubSeq(b, p + 1, Len(b))
        s == CommonPrefix(Reverse(ra), Reverse(rb)) IN
    [prefix |-> p, suffix |-> s, del |-> SubSeq(ra, 1, Len(ra) - s), add |-> SubSeq(rb, 1, Len(rb) - s)]

-----------------------------------------------------------------------------
(* GOGITUI: it loads once; keys and SGR mouse reports share its terminal *)

loadData ==
    /\ git.phase \in {"idle", "ok", "failed"} /\ git.ui.view = "none"
    /\ \E gone \in {{}} \cup {{p} : p \in DOMAIN git.disk.work} :
       \E s \in GitStatus(git.disk, gone) :
           git' = [git EXCEPT !.phase = "ui", !.ui = [GitIdle EXCEPT !.view = "status", !.status = s, !.log = Log(git.disk)]]

\* model.Update
Update(ui, b) ==
    CASE b \in {"1", "2", "3"} ->
             [ui EXCEPT !.view = CASE b = "1" -> "status" [] b = "2" -> "log" [] OTHER -> "diff", !.scroll = 0]
      [] b = "j" -> [ui EXCEPT !.scroll = @ + 1]
      [] b = "k" /\ ui.scroll > 0 -> [ui EXCEPT !.scroll = @ - 1]
      [] b = "q" -> [ui EXCEPT !.view = "quit"]
      [] OTHER -> ui

\* msStep: the bytes of ESC [ < b ; x ; y M so far.  A byte that does not
\* continue the report drops what was collected and is a key itself.
msStep(ui, b) ==
    LET n == Len(ui.ms) IN
    IF (n = 0 /\ b = "esc") \/ (n = 1 /\ b = "[") \/ (n = 2 /\ b = "<") \/ (n > 2 /\ b \in {"1", ";"})
    THEN [ui EXCEPT !.ms = Append(@, b)]
    ELSE IF n > 2 /\ b = "M" /\ Len(SelectSeq(ui.ms, LAMBDA x : x = ";")) = 2
    THEN [ui EXCEPT !.ms = <<>>]
    ELSE Update([ui EXCEPT !.ms = <<>>], b)

GitTyped ==
    /\ git.phase = "ui" /\ git.ui.view # "quit" /\ git.steps < MaxGitSteps
    /\ \E b \in GitBytes :
           git' = [git EXCEPT !.steps = @ + 1,
                              !.ui = IF @.ms # <<>> \/ b = "esc" THEN msStep(@, b) ELSE Update(@, b)]

\* Another program edits the worktree
GitOutside ==
    /\ git.phase \in {"idle", "ok", "failed"} /\ git.steps < MaxGitSteps
    /\ \E p \in DOMAIN git.disk.work, body \in GitEdits :
           git' = [git EXCEPT !.steps = @ + 1,
                   !.disk.work = IF body = {} THEN [q \in DOMAIN @ \ {p} |-> @[q]]
                                 ELSE [@ EXCEPT ![p] = CHOOSE x \in body : TRUE]]

gitNext ==
    \/ GitStart \/ GitRefs \/ GitPack \/ GitWrite \/ GitStored \/ GitOK \/ GitCrash \/ GitAgain
    \/ loadData \/ GitTyped \/ GitOutside

-----------------------------------------------------------------------------
(* Properties *)

\* A pack yields the objects it was made from, in any order of the objects,
\* through chains of deltas by offset and by id.
PackFaithful ==
    git.phase = "args" =>
        ParsePack(PackObjects(git.srv.objs, git.srv.from, git.srv.ofs), TRUE) = {git.srv.objs}

\* The codecs invert: numbers, stored streams, canonical codes, diffs.
CodecsInvert ==
    git.phase = "args" /\ git.runs = 1 =>
        /\ \A v \in 1 .. MaxVar : readDeltaVar(encodeDeltaVar[v]) = v /\ readOfsDelta(encodeOfs(v)) = v
        /\ \A t \in CodecTexts : inflateZlib(zlibStore(t), maxObjSize) = (IF Len(t) <= maxObjSize THEN {t} ELSE {})
        /\ \A a, b \in CodecTexts :
               LET d == makeFileDiff(a, b) IN
               SubSeq(a, 1, d.prefix) \o d.add \o SubSeq(a, Len(a) - d.suffix + 1, Len(a)) = b
        /\ \A l \in CodeLengths : \A i \in DOMAIN l :
               LET code == firstCode(l, l[i]) + Cardinality({j \in 1 .. i - 1 : l[j] = l[i]})
                   bits == [k \in 1 .. l[i] |-> (code \div 2 ^ (l[i] - k)) % 2] IN
               l[i] > 0 => huffmanDecode(l, bits) = {i}

\* A clone that reported OK left every object of the server, a HEAD that
\* resolves to the commit it asked for (when its branch is directly under
\* refs/heads), and the top-level files of that commit's tree, whatever the
\* crashes and failures of earlier runs; but for the files whose path is too long,
\* which checkout skips without a word.
CloneComplete ==
    git.phase = "ok" /\ git.steps = 0 =>
        /\ ToSet(git.srv.objs) \subseteq git.disk.objs
        /\ \A w \in git.want :
               /\ w.dir \in {"", "refs/heads"} => HeadOf(git.disk) = {w.id}
               /\ \A e \in ToSet(CommitTree([atoms |-> w.id[2]])[2]) :
                      e.mode = "blob" /\ e.name \notin LongNames =>
                          /\ <<e.name>> \in DOMAIN git.disk.work
                          /\ HashObject("blob", git.disk.work[<<e.name>>]) = e.id

\* When GOGITUI shows nothing staged or modified, every tracked file is the
\* same in HEAD, in the index and in the worktree it read.
CleanMeansEqual ==
    \A s \in GitStatus(git.disk, {}) :
        s.staged = {} /\ s.modified = {} =>
            \A head \in headFiles(git.disk) :
                /\ head \subseteq scanWorktree(git.disk, {})
                /\ git.disk.index # {} => head = UNION git.disk.index

\* Cloning and reading keep the repository: what was packed is what is stored,
\* what is reported OK is complete, what is shown clean is equal.
GitSound == PackFaithful /\ CodecsInvert /\ CloneComplete /\ CleanMeansEqual
=============================================================================
