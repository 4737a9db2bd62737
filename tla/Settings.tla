------------------------------ MODULE Settings -------------------------------
(***************************************************************************)
(* SETTINGS.TXT: the codec of user/go/settings/settings.go and the panel   *)
(* GOSET.ELF (user/go/goset/main.go) that edits it.  A file is its schema  *)
(* version, its lines and its size; a line is a key and a value, and a     *)
(* line that is none (a comment, no "=") has no key.  A value is a name    *)
(* with a length, and some have blanks at an end.  The kernel's `settings  *)
(* set` and other programs write the same file.                            *)
(***************************************************************************)
EXTENDS Integers, Sequences, SequencesExt, FiniteSetsExt, TLC

CONSTANTS SetFiles,       \* files the share may hold when the panel starts
          SetInputs,      \* lines typed in the panel, as keys with values
          SetOutside,     \* files another writer leaves meanwhile
          KnownKeys,      \* the kernel's table: keys, defaults, vocabularies
          PaletteKeys,    \* the colour rows, accepted and not seeded
          FontKeys,       \* the font row, accepted and not seeded
          Trimmed,        \* value with blanks at an end -> without them
          ValLen,         \* value -> its length, 1 for the others
          Colours,        \* values of six hex digits
          MaxSettings, MaxVal, MaxBody,
          MaxPanelKeys,   \* bound: keys and clicks
          MaxPanels       \* bound: times the panel is started

VARIABLE panel

NoSettings == [ver |-> -1, lines |-> <<>>, size |-> 0]

Setting(k, v) == [key |-> k, val |-> v]

TrimSpace(v) == IF v \in DOMAIN Trimmed THEN Trimmed[v] ELSE v

ValueLen(v) == IF v \in DOMAIN ValLen THEN ValLen[v] ELSE 1
-----------------------------------------------------------------------------
(* The codec: settings.go *)

Named(table, key) == SelectSeq(table, LAMBDA k : k.name = key)

Known(key) == Named(KnownKeys, key)

Editable(key) == Named(KnownKeys \o PaletteKeys \o FontKeys, key) # <<>>

\* The palette rows have no vocabulary to cycle through.
Vocab(key) ==
  LET own == Named(KnownKeys \o FontKeys, key) IN IF own = <<>> THEN <<>> ELSE own[1].vocab

NextVocab(vocab, cur) ==
  LET at == SelectInSeq(vocab, LAMBDA v : v = cur) IN vocab[(at % Len(vocab)) + 1]

prevVocab(vocab, cur) ==
  LET at == SelectInSeq(vocab, LAMBDA v : v = cur) IN
  IF at <= 1 THEN Last(vocab) ELSE vocab[at - 1]

\* Rows without a key, and those the caps refuse, are dropped; past the table's
\* size the rest of the file is.
ParseSettings(f) ==
  LET kept == SelectSeq([i \in DOMAIN f.lines |-> Setting(f.lines[i].key, TrimSpace(f.lines[i].val))],
                        LAMBDA s : s.key # "" /\ ValueLen(s.val) <= MaxVal)
  IN  SubSeq(kept, 1, IF Len(kept) > MaxSettings THEN MaxSettings ELSE Len(kept))

Render(rows) ==
  [ver |-> 2, lines |-> rows,
   size |-> 1 + FoldLeft(LAMBDA n, s : n + ValueLen(s.val), 0, rows)]

RowsOf(rows, key) == {i \in DOMAIN rows : rows[i].key = key}

\* The last row of a key counts.
GetSetting(rows, key) == IF RowsOf(rows, key) = {} THEN {} ELSE {rows[Max(RowsOf(rows, key))].val}

\* Mutant: the first row is changed, the one that does not count.
put_first(rows, key, val) ==
  IF RowsOf(rows, key) = {} THEN Append(rows, Setting(key, val))
  ELSE [rows EXCEPT ![Min(RowsOf(rows, key))].val = val]

Put(rows, key, val) ==
  IF RowsOf(rows, key) = {} THEN Append(rows, Setting(key, val))
  ELSE [rows EXCEPT ![Max(RowsOf(rows, key))].val = val]

\* Rows for the keys of a table that are not there, with their defaults.
Filled(rows, table) ==
  FoldLeft(LAMBDA r, k : IF RowsOf(r, k.name) # {} THEN r ELSE Append(r, Setting(k.name, k.default)),
           rows, table)

DisplayRows(rows) == Filled(rows, KnownKeys)

\* The value in force: the file's, else the compiled default.
Effective(rows, key) ==
  IF RowsOf(rows, key) # {} THEN GetSetting(rows, key) ELSE {k.default : k \in Range(Known(key))}

\* A newer or malformed header (3 here) and a file past the buffer are refused
\* whole.
LoadSettings(f) ==
  IF f = NoSettings THEN [state |-> "missing", rows |-> <<>>]
  ELSE IF f.size > MaxBody \/ f.ver > 2 THEN [state |-> "corrupt", rows |-> <<>>]
  ELSE [state |-> "ok", rows |-> ParseSettings(f)]

\* vi.WriteFileSafe (Files has it call by call): the target is the old file, the
\* new one, or gone, with the return code or after a crash.
Publish(old, new) ==
  {<<new, "ok">>, <<old, "err">>, <<NoSettings, "err">>, <<new, "crash">>, <<old, "crash">>, <<NoSettings, "crash">>}
-----------------------------------------------------------------------------
(* The panel: goset/main.go *)

ensurePaletteRows(rows) ==
  IF GetSetting(rows, "theme") = {"custom"} THEN Filled(rows, PaletteKeys) ELSE rows

\* newPanel: of a corrupt file the defaults are shown, read-only.  A read the
\* kernel refuses counts as a missing file.
newPanel(p, read) ==
  LET f == LoadSettings(read)
  IN  [p EXCEPT !.up = TRUE, !.state = f.state, !.disp = ensurePaletteRows(DisplayRows(f.rows)),
                !.sel = 1, !.focus = "input", !.saved = <<>>,
                !.read = read, !.foreign = read # p.file, !.want = <<>>]

panelSet(p, key, val) ==
  IF p.state = "corrupt" THEN p
  ELSE LET rows == Put(p.disp, key, val)
       IN  [p EXCEPT !.disp = IF key = "theme" THEN ensurePaletteRows(rows) ELSE rows,
                     !.want = (key :> val) @@ @]

\* A key the tables do not have, and a colour that is none, are dropped.
applyField(p, in) ==
  IF in.key = "" \/ ~Editable(in.key) \/ (Named(PaletteKeys, in.key) # <<>> /\ in.val \notin Colours)
  THEN p ELSE panelSet(p, in.key, TrimSpace(in.val))

\* Mutant: a corrupt file is replaced by what the panel shows.
save_corrupt(p) ==
  {[p EXCEPT !.file = r[1], !.saved = IF r[2] = "ok" THEN p.disp ELSE <<>>, !.up = r[2] # "crash"] :
     r \in Publish(p.file, Render(p.disp))}

\* save: the table as shown, or nothing.
panelSave(p) ==
  IF p.state = "corrupt" THEN {p}
  ELSE {CASE r[2] = "ok" -> [p EXCEPT !.file = r[1], !.state = "ok", !.saved = p.disp,
                                      !.foreign = FALSE]
          [] r[2] = "err" -> [p EXCEPT !.file = r[1], !.saved = <<>>]
          [] r[2] = "crash" -> [p EXCEPT !.file = r[1], !.saved = <<>>, !.up = FALSE] :
        r \in Publish(p.file, Render(p.disp))}

\* A row without a vocabulary is left alone.
cycle(p, dir) ==
  LET row == p.disp[p.sel]
      vocab == Vocab(row.key)
  IN  IF vocab = <<>> THEN p
      ELSE panelSet(p, row.key, IF dir < 0 THEN prevVocab(vocab, row.val) ELSE NextVocab(vocab, row.val))

Select(p, i) ==
  [p EXCEPT !.sel = IF i < 1 THEN 1 ELSE IF i > Len(p.disp) THEN Len(p.disp) ELSE i]

ring == <<"list", "input", "save", "quit">>

\* Tab and Shift-Tab
FocusBy(p, d) ==
  LET at == SelectInSeq(ring, LAMBDA w : w = p.focus) - 1
  IN  [p EXCEPT !.focus = ring[((at + d) % Len(ring)) + 1]]

\* key: Enter applies what is in the field and saves, whatever has the focus; the arrows
\* to the sides cycle the row unless the text field has them.
panelKey(p) ==
  UNION {panelSave(applyField(p, in)) : in \in SetInputs} \cup panelSave(p)
  \cup {Select(p, i) : i \in {p.sel - 1, p.sel + 1, 1, Len(p.disp)}}
  \cup {IF p.focus = "input" THEN p ELSE cycle(p, d) : d \in {-1, 1}}
  \cup {FocusBy(p, d) : d \in {-1, 1}}
  \cup {[p EXCEPT !.up = FALSE]}

\* handle on a click: a row, the field, Save or Close.
panelClick(p) ==
  {[Select(p, i) EXCEPT !.focus = "list"] : i \in DOMAIN p.disp}
  \cup {[p EXCEPT !.focus = "input"]}
  \cup panelSave([p EXCEPT !.focus = "save"])
  \cup {[p EXCEPT !.focus = "quit", !.up = FALSE]}

panelInit ==
  \E f \in SetFiles :
    panel = [file |-> f, up |-> FALSE, state |-> "missing", disp |-> <<>>, sel |-> 1, focus |-> "input",
             saved |-> <<>>, read |-> f, foreign |-> FALSE, want |-> <<>>, keys |-> 0, starts |-> 0, wrote |-> FALSE]

panelStart ==
  /\ ~panel.up /\ panel.starts < MaxPanels
  /\ \E read \in {panel.file, NoSettings} : panel' = [newPanel(panel, read) EXCEPT !.starts = @ + 1]

panelInput ==
  /\ panel.up /\ panel.keys < MaxPanelKeys
  /\ \E p \in panelKey(panel) \cup panelClick(panel) : panel' = [p EXCEPT !.keys = @ + 1]

\* The kernel's `settings set`, or another program, once.
settingsSet ==
  /\ ~panel.wrote
  /\ \E f \in SetOutside : panel' = [panel EXCEPT !.file = f, !.foreign = TRUE, !.wrote = TRUE]

panelNext == panelStart \/ panelInput \/ settingsSet
-----------------------------------------------------------------------------
\* A table the codec takes back whole: no value too long, not too many rows, not
\* too large a file.
RoundTrips(rows) ==
  /\ \A i \in DOMAIN rows : ValueLen(rows[i].val) <= MaxVal
  /\ Len(rows) <= MaxSettings
  /\ Render(rows).size <= MaxBody

Kept(rows) == SelectSeq(rows, LAMBDA s : ~Editable(s.key))

KnownNames == {k.name : k \in Range(KnownKeys)}

\* A file the codec refused is left as it is; and after a save that was reported, with no edit
\* or other writer since, of a table the codec takes back, whoever loads the
\* file finds what was set in the panel, every other setting in force as it was
\* (a value loses blanks at its end), and the rows of keys nobody knows
\* (settings.go: Load, Set, Render; goset/main.go: set, save, cycle).
SettingsSafe ==
  LET now == LoadSettings(panel.file).rows
      before == LoadSettings(panel.read).rows
  IN  /\ panel.up /\ LoadSettings(panel.read).state = "corrupt" /\ ~panel.foreign => panel.file = panel.read
      /\ panel.up /\ panel.saved = panel.disp /\ RoundTrips(panel.saved) /\ ~panel.foreign =>
           /\ \A k \in DOMAIN panel.want : GetSetting(now, k) = {TrimSpace(panel.want[k])}
           /\ \A k \in KnownNames \ DOMAIN panel.want :
                Effective(now, k) = {TrimSpace(v) : v \in Effective(before, k)}
           /\ Kept(now) = Kept(before)
=============================================================================
