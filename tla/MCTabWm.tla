------------------------------ MODULE MCTabWm -------------------------------
\* Each script is a set of inputs of the desktop that interact and the windows
\* of the clients that take part.
EXTENDS TabWm

DeskRun(inputs, clients) == [inputs |-> {"rpc"} \cup inputs, clients |-> clients]

MCDeskScripts == {
  DeskRun({"pin", "focus"}, {1, 2, 3}),
  DeskRun({"pin", "focus", "detach"}, {1, 2}),
  DeskRun({"badge", "crash"}, {1, 2}),
  DeskRun({"title", "attach", "crash"}, {2, 3}),
  DeskRun({"reopen", "detach"}, {1, 2, 3}),
  DeskRun({"nav", "detach"}, {1, 2}),
  DeskRun({"split", "drag"}, {1, 2}),
  DeskRun({"split"}, {1, 2, 3}),
  DeskRun({"launcher", "pointer"}, {1}),
  DeskRun({"notify", "detach"}, {1, 2}),
  DeskRun({"notify", "pointer"}, {1}),
  DeskRun({"pointer", "detach"}, {1, 2}),
  DeskRun({"death", "demo"}, {1}),
  DeskRun({"demo", "crash"}, {1})}

\* The names of two programs that share a letter.
MCCatalog == <<<<"c", "a">>, <<"n", "a">>>>
=============================================================================
