----------------------------- MODULE MCExecute ------------------------------
(* Small commands for Execute: pipes of one unit, so that two units fill one. *)
EXTENDS Execute

\* A command that reads and answers twice; one that reads nothing and
\* writes more to standard error than a pipe holds.
Commands == {<<"in", "out", "out">>, <<"err", "err">>}
OneOutput == {<<"out">>}
=============================================================================
