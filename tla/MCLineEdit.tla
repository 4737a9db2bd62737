----------------------------- MODULE MCLineEdit -----------------------------
\* Each script is a set of keys that interact, with the width of the line; the
\* share fails in the scripts that are about the history file.
EXTENDS LineEdit

MCCandidates == <<<<"a", "b">>, <<"a", "a">>, <<"b", " ">>>>

EdKeys(max, keys) == [max |-> max, keys |-> keys, faults |-> FALSE]

EdFaults(max, keys) == [max |-> max, keys |-> keys, faults |-> TRUE]

MCEdScripts == {
  EdKeys(3, {"a", " ", "^K", "^U", "^W", "^A", "^Y"}),
  EdKeys(3, {"a", " ", "ESC", "d", "f"}),
  EdKeys(3, {"a", " ", "ESC", "b", "BS"}),
  EdKeys(2, {"a", "b", "^T", "^E", "^C", "^L", "ESC", "[", "H", "F", "~", "0"}),
  EdKeys(3, {"a", "^T", "ESC", "[", "C", "D"}),
  EdFaults(2, {"a", "b", "CR", "^D"}),
  EdFaults(1, {"a", "CR", "ESC", "[", "A", "B"}),
  EdKeys(2, {"a", "^R", "CR", "ESC"}),
  EdKeys(2, {"a", "^R", "CR", "BS"}),
  EdKeys(2, {"a", "^R", "CR", "^C", "^U"}),
  EdKeys(3, {"a", "b", "TAB", "BS", " "})}
=============================================================================
