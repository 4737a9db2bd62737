-------------------------------- MODULE Term --------------------------------
(***************************************************************************)
(* GOTERM.ELF (user/go/term/main.go): a window bound to /dev/tty that      *)
(* hosts one shell after another.  The engine (Shell), the editor and the  *)
(* history file (LineEdit) have modules of their own; here a key is a      *)
(* piece of a line, a line is the sequence of its pieces, and the engine   *)
(* is the action a line makes it return.  The terminal's queue delivers    *)
(* what was typed in reads of bounded size that may end anywhere.          *)
(***************************************************************************)
EXTENDS Integers, Sequences, SequencesExt

CONSTANTS TermScripts,    \* what a user may type, sequences of keys
          TermStartups,   \* lines STARTUP.SH and PROFILE.SH may hold together
          TermSettings,   \* rows SETTINGS.TXT may hold, keys with their values
          TermRead        \* keys one read of the tty returns at most

VARIABLE term

ExitLine == <<"ex", "it">>

ExitClose == <<"ex", "it", " --close">>

MonitorLine == <<"monitor">>

SetLine == <<"set">>

ReadLine == <<"read">>
-----------------------------------------------------------------------------
(* Leaving. *)

termShutdown(t, why) ==
  [t EXCEPT !.alive = FALSE, !.attached = FALSE, !.fd = FALSE, !.win = FALSE, !.why = why]

\* The monitor's handover detaches first; the exit path detaches again.
termLeave(t, act) ==
  termShutdown(IF act = "monitor" THEN [t EXCEPT !.attached = FALSE] ELSE t, act)
-----------------------------------------------------------------------------
(* The shell of a session. *)

\* Only the exact value "exit" in the first row for the key selects it.
restartPolicy(rows) ==
  LET own == SelectSeq(rows, LAMBDA r : r[1] = "term_restart")
  IN  IF own # <<>> /\ own[1][2] = "exit" THEN "exit" ELSE "stay"

EngineAct(line) ==
  IF line = ExitLine THEN "exit" ELSE IF line = MonitorLine THEN "monitor" ELSE "continue"

\* The environment remembers which session a name was set in.
EngineRun(t, line) ==
  IF line = SetLine THEN [t EXCEPT !.env = @ \cup {t.session}]
  ELSE IF line = ReadLine THEN [t EXCEPT !.reading = TRUE] ELSE t

\* Nobody typed the startup lines, so they are not recorded.  One that leaves
\* ends the program, whatever the policy.
StartupLine(t, line) ==
  IF ~t.alive THEN t
  ELSE IF EngineAct(line) = "continue" THEN EngineRun(t, line) ELSE termLeave(t, EngineAct(line))

\* A new shell and a new editor.
startSession(t) ==
  FoldLeft(StartupLine, [t EXCEPT !.env = {}, !.buf = <<>>, !.restart = FALSE, !.eof = FALSE,
                                  !.eofs = 0, !.ragged = t.session > 0], t.startup)
-----------------------------------------------------------------------------
(* handle, one editor outcome at a time. *)

\* Mutant: a submitted line does not take the first Ctrl-D back.
submit_keeps_eof(t, line) ==
  LET s == [t EXCEPT !.eofs = 0]
  IN  IF line = ExitClose THEN termShutdown(s, "close")
      ELSE IF EngineAct(line) = "exit" /\ t.policy = "stay" THEN [s EXCEPT !.restart = TRUE]
      ELSE IF EngineAct(line) # "continue" THEN termLeave(s, EngineAct(line))
      ELSE EngineRun(s, line)

onSubmit(t, line) ==
  LET s == [t EXCEPT !.eof = FALSE, !.eofs = 0]
  IN  IF line = ExitClose THEN termShutdown(s, "close")
      ELSE IF EngineAct(line) = "exit" /\ t.policy = "stay" THEN [s EXCEPT !.restart = TRUE]
      ELSE IF EngineAct(line) # "continue" THEN termLeave(s, EngineAct(line))
      ELSE EngineRun(s, line)

onEOF(t) == IF t.eof THEN termShutdown(t, "eof") ELSE [t EXCEPT !.eof = TRUE]

onCancel(t) == [t EXCEPT !.eof = FALSE, !.eofs = 0]

\* One key through the editor.  Ctrl-D on a line that is not empty deletes
\* forward, at its end nothing.  While `read` runs, the rest of the chunk stays
\* with the editor.  `whole` is what was typed since the last line ended, whoever
\* took it; `ragged` that the line being typed may have lost its beginning, `torn`
\* that another one was not what was typed.
termFeed(t, k) ==
  IF ~t.alive THEN t
  ELSE IF t.reading THEN [t EXCEPT !.batch = Append(@, k)]
  ELSE CASE k = "CR" ->
              onSubmit([t EXCEPT !.buf = <<>>, !.whole = <<>>, !.ragged = FALSE,
                                 !.torn = @ \/ (t.buf # t.whole /\ ~t.ragged)],
                       t.buf)
         [] k = "^C" -> onCancel([t EXCEPT !.buf = <<>>, !.whole = <<>>, !.ragged = FALSE])
         [] k = "^D" -> IF t.buf = <<>> THEN onEOF([t EXCEPT !.eofs = @ + 1]) ELSE t
         [] OTHER -> [t EXCEPT !.buf = Append(@, k), !.whole = Append(@, k)]
-----------------------------------------------------------------------------
(* The program. *)

termInit ==
  \E s \in TermStartups, rows \in TermSettings, keys \in TermScripts :
    term = [alive |-> TRUE, up |-> FALSE, win |-> FALSE, fd |-> FALSE, attached |-> FALSE,
            session |-> 0, policy |-> restartPolicy(rows), startup |-> s,
            env |-> {}, buf |-> <<>>, restart |-> FALSE, eof |-> FALSE, queue |-> keys, why |-> "",
            eofs |-> 0, whole |-> <<>>, ragged |-> FALSE, torn |-> FALSE, reading |-> FALSE,
            batch |-> <<>>]

\* main: each call may be refused, and what was made before it is given back.
termMain ==
  /\ term.alive /\ ~term.up
  /\ \/ \E status \in {"no window", "no tty", "not attached"} :
          term' = termShutdown([term EXCEPT !.up = TRUE], status)
     \/ term' = startSession([term EXCEPT !.up = TRUE, !.win = TRUE, !.fd = TRUE, !.attached = TRUE])

\* The loop looks at `restart` once a read is fed to its end.
PassEnds(t) ==
  IF t.alive /\ t.restart /\ ~t.reading THEN startSession([t EXCEPT !.session = @ + 1]) ELSE t

Taken(n) == [term EXCEPT !.queue = SubSeq(@, n + 1, Len(@))]

termPass ==
  /\ term.alive /\ term.up /\ ~term.reading
  /\ \E n \in 1 .. TermRead :
       /\ n <= Len(term.queue)
       /\ term' = PassEnds(FoldLeft(termFeed, Taken(n), SubSeq(term.queue, 1, n)))

\* The engine's `read VAR` takes the terminal's queue itself, and forgets what
\* follows the end of the line in the same read; then the editor gets the rest of
\* the chunk the command was in.
ReadTTYLine ==
  /\ term.alive /\ term.reading
  /\ \E n \in 1 .. TermRead :
       /\ n <= Len(term.queue)
       /\ LET got == SubSeq(term.queue, 1, n)
              ends == {i \in DOMAIN got : got[i] = "CR"}
              first == CHOOSE i \in ends : \A j \in ends : i <= j
              final == CHOOSE i \in ends : \A j \in ends : j <= i
              t == FoldLeft(termFeed, [Taken(n) EXCEPT !.reading = FALSE, !.batch = <<>>],
                            term.batch)
          IN  term' = IF ends = {} THEN Taken(n)
                      ELSE PassEnds([t EXCEPT
                             !.whole = (IF first = final THEN @ ELSE <<>>)
                                         \o SubSeq(got, final + 1, n),
                             !.ragged = TRUE])

\* WIN_CLOSE, or the event queue refuses; neither is seen while `read` waits.
termClosed ==
  /\ term.alive /\ term.up /\ ~term.reading
  /\ \E why \in {"win_close", "poll"} : term' = termShutdown(term, why)

termNext == termMain \/ termPass \/ ReadTTYLine \/ termClosed
-----------------------------------------------------------------------------
\* On every way out of the program the terminal is unbound, its handle closed and
\* the window gone, and while it runs it holds all three; it ends on Ctrl-D only for
\* the second of two with no line or Ctrl-C between, and then always; a restarted
\* shell has nothing of the one before and never follows under term_restart=exit;
\* and a line that is run is the line that was typed, but for the first line of a
\* restarted session, whose beginning may have gone to the editor of the last one,
\* and the first line after a `read`, which forgets what it read beyond its own
\* line (runSession, leave, shutdown, ReadTTYLine of term/main.go).
TermFaithful ==
  /\ term.up => /\ term.attached = term.alive
                /\ term.fd = term.alive
                /\ term.win = term.alive
  /\ term.alive => term.eofs <= 1
  /\ term.why = "eof" => term.eofs = 2
  /\ term.env \subseteq {term.session}
  /\ term.policy = "exit" => term.session = 0
  /\ ~term.torn
=============================================================================
