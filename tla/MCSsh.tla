------------------------------- MODULE MCSsh --------------------------------
\* A session that succeeds, and the ones that differ from it in one way.
EXTENDS Ssh

SshGood ==
  [pin |-> "host", seed |-> TRUE, key |-> "listed", offers |-> TRUE, cmd |-> "ls",
   out |-> <<1, 2>>, status |-> 3, window |-> 4, bound |-> 9]

MCSshConfigs == {
  SshGood, [SshGood EXCEPT !.pin = "none"], [SshGood EXCEPT !.pin = "other"],
  [SshGood EXCEPT !.seed = FALSE], [SshGood EXCEPT !.key = "unlisted"],
  [SshGood EXCEPT !.offers = FALSE], [SshGood EXCEPT !.cmd = ""], [SshGood EXCEPT !.out = <<>>],
  [SshGood EXCEPT !.window = 1], [SshGood EXCEPT !.window = 0], [SshGood EXCEPT !.bound = 3]}
=============================================================================
