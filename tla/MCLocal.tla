------------------------------ MODULE MCLocal -------------------------------
(***************************************************************************)
(* Small inputs of the local programs: file manager, editors, image        *)
(* viewer, settings, terminal and task manager.                            *)
(***************************************************************************)
EXTENDS Files, Editors, Viewer, Settings, Term, Top, TLC
-----------------------------------------------------------------------------
\* Two shares: a file that also exists below the directory, and two files whose
\* names collide with what the directory holds.
FmFile(b) == [dir |-> FALSE, body |-> b, n |-> BodySize[b], orphan |-> FALSE]
FmDir == [dir |-> TRUE, body |-> "s", n |-> 0, orphan |-> FALSE]

MCFmDisks == {
  (<<20>> :> FmDir) @@ (<<40>> :> FmFile("s")) @@ (<<20, 40>> :> FmFile("l")),
  (<<20>> :> FmDir) @@ (<<40>> :> FmFile("s")) @@ (<<60>> :> FmFile("l")) @@ (<<20, 60>> :> FmFile("s"))}
MCBodySize == ("s" :> 2) @@ ("l" :> 3)
MCMagicOf == ("s" :> "image") @@ ("l" :> "none")
MCExtOf == (40 :> "archive")
-----------------------------------------------------------------------------
\* No file, a file of two lines, and one that is longer than the buffer and holds
\* a carriage return and a NUL; every key of either editor.
MCDocBodies == {{}, {<<97, 10, 97>>}, {<<97, 13, 10, 0, 98, 97>>}}
MCDocKeys ==
  {97, 50, CR, BS, DEL, ESC, 600} \cup {Arrow[a] : a \in DOMAIN Arrow}
  \cup {Ctrl[c] : c \in DOMAIN Ctrl}
-----------------------------------------------------------------------------
\* Sizes a header may claim, up to the width of a word; pictures smaller and
\* larger than the window in either direction.
MCClaims == {1, 3, 40, 700, 2048, 4095} \X {1, 3, 40, 700, 2048, 4095}
MCPictures == {<<4, 4>>, <<3, 10>>, <<10, 3>>, <<40, 40>>}
MCzoomTable == <<25, 50, 100, 150, 300>>
MCwinMax == <<50, 40>>
MCwinMin == <<10, 8>>
MCwinPad == <<2, 4>>
MCWinSizes == {<<7, 8>>, <<12, 9>>, <<12, 3>>}
MCDragTo == {<<0, 0>>, <<6, 2>>}
-----------------------------------------------------------------------------
\* No file; one with a comment, a key nobody knows and a key twice; one whose
\* table is full once the colours are shown; a newer schema; one too large.
SetKey(n, d, v) == [name |-> n, default |-> d, vocab |-> v]
MCKnownKeys == <<SetKey("prompt", "p ", <<>>), SetKey("theme", "dark", <<"dark", "custom">>),
                 SetKey("wm", "go", <<"go", "none">>)>>
MCPaletteKeys == <<SetKey("palette_fg", "00ff00", <<>>)>>
MCFontKeys == <<SetKey("font_size", "medium", <<"small", "medium">>)>>
MCTrimmed == ("p " :> "p") @@ ("q " :> "q")
MCValLen == ("long" :> 4)
SetFile(v, l, n) == [ver |-> v, lines |-> l, size |-> n]
MCSetFiles == {
  NoSettings,
  SetFile(1, <<Setting("", "note"), Setting("theme", "dark"), Setting("x", "q "), Setting("theme", "custom")>>, 5),
  SetFile(2, <<Setting("x", "1"), Setting("y", "long"), Setting("font_size", "small"), Setting("y", "2")>>, 8),
  SetFile(3, <<Setting("theme", "custom")>>, 2),
  SetFile(2, <<Setting("wm", "none")>>, 20)}
MCSetInputs == {Setting("theme", "custom"), Setting("palette_fg", "red"), Setting("palette_fg", "ffffff"),
                Setting("prompt", "long"), Setting("wm", "q "), Setting("x", "2")}
MCSetOutside == {SetFile(2, <<Setting("wm", "none")>>, 2), SetFile(3, <<>>, 1)}
-----------------------------------------------------------------------------
\* Lines typed ahead of an exit, one whose beginning is, Ctrl-D once, twice and
\* taken back, and every way to close; a startup file that leaves.
MCTermScripts == {
  <<"set", "CR", "ex", "it", "CR", "set", "CR", "ex", "it", "CR", "se", "t", "CR">>,
  <<"ex", "it", "CR", "ex", "it", " --close", "CR">>,
  <<"ex", "it", "CR", "^D", "^D", "^D">>,
  <<"^D", "se", "^D", "^C", "^D", "monitor", "CR">>,
  <<"^D", "set", "CR", "^D", "^D">>,
  <<"read", "CR", "se", "CR", "se", "t", "CR", "set", "CR">>}
MCTermStartups == {<<>>, <<SetLine>>, <<SetLine, ExitLine>>}
MCTermSettings == {<<>>, <<<<"prompt", "x">>, <<"term_restart", "exit">>>>,
                   <<<<"term_restart", "stay">>, <<"term_restart", "exit">>>>}
-----------------------------------------------------------------------------
\* A seat, two programs whose names and states sort differently from their
\* slots, and the manager.
TopProc(n, s, i) == [name |-> n, state |-> s, exit |-> 0, inst |-> i]
MCTopRegistries == {<<TopProc(1, "running", 1), TopProc(4, "exited", 2), TopProc(2, "running", 3),
                      TopProc(3, "running", 4)>>}
=============================================================================
