------------------------------ MODULE MCParts -------------------------------
(***************************************************************************)
(* The smaller parts, each on small inputs: a run is one of the backend's  *)
(* main until it serves, of the unit tests, of the sums of two blocks, or  *)
(* of the connections of one worker thread.                                *)
(***************************************************************************)
EXTENDS Startup, UnitTests, Checksum, HttpConnections

VARIABLE part

Init == /\ part \in {"backend", "utest", "sums", "http"}
        /\ StartupInit /\ TestsInit /\ ChecksumInit /\ HttpInit
        /\ part # "backend" => tty /\ env = CHOOSE e \in Environments : TRUE

\* One connection has both requests, the second of which is for either route or for none; or two
\* share a single one, after which the server keeps the connection.
FewRequests ==
    \/ /\ client'[2] = "away"
       /\ Len(asked'[1]) = 2 => asked'[1][2] \in {"version", "socket", "missing"}
    \/ /\ FoldFunction(LAMBDA s, n : Len(s) + n, 0, asked') <= 1
       /\ \A c \in Conns : ToSet(asked'[c]) \subseteq {"version"}

Next == \/ part = "backend" /\ StartupNext /\ UNCHANGED <<part, testsVars, checksumVars, httpVars>>
        \/ part = "utest" /\ TestsNext /\ UNCHANGED <<part, startupVars, checksumVars, httpVars>>
        \/ part = "sums" /\ ChecksumNext /\ UNCHANGED <<part, startupVars, testsVars, httpVars>>
        \/ /\ part = "http" /\ HttpNext /\ FewRequests
           /\ UNCHANGED <<part, startupVars, testsVars, checksumVars>>
Spec == /\ Init /\ [][Next]_<<part, startupVars, testsVars, checksumVars, httpVars>>
        /\ part = "http" => HttpFairness

\* -V, -c, --config, -help (one dash too few), --help, two words.
Arg(dashes, rest) == [dashes |-> dashes, rest |-> rest]
SomeArguments == {Arg(1, "V"), Arg(1, "c"), Arg(2, "config"), Arg(1, "help"), Arg(2, "help"),
                  Arg(0, "a"), Arg(0, "b")}

\* The heads, one behind a comment; settings that are right, out of range, or taken from the
\* environment, where HOST is a number that is too long, a number, or nothing; a setting commented out.
SomeLines == {<<"[", "debug", "]">>, <<"[", "general", "]", "#", "=">>, <<"[", "server", "]">>,
              <<"verbose", "=", "true">>, <<"trim_symbol", "=", "1", "#", "x">>,
              <<"backtrace_level", "=", "%HOST%">>, <<"color", "=", "true">>,
              <<"port", "=", "1">>, <<"port", "=", "70000">>, <<"listen_addr", "=", "%HOST%">>,
              <<"#", "verbose", "=", "1">>}

Env(color, verb, l, t, h) == [COLOR |-> color, VERBOSE |-> verb, BACKTRACE_LEVEL |-> l,
                              TRIM_SYMBOL |-> t, HOST |-> h]
SomeEnvironments == {Env(<<>>, <<>>, <<>>, <<>>, <<"10000000000">>),
                     Env(<<"always">>, <<"false">>, <<"1">>, <<"false">>, <<"1">>),
                     Env(<<"off">>, <<"1">>, <<"h">>, <<"1">>, <<>>)}
SomeVariables == [ref \in {"%HOST%"} |-> "HOST"]
\* 1, 70000 and a numeral that stands for no long long.
Numerals == [n \in {"1", "70000", "10000000000"} |->
               IF n = "1" THEN 1 ELSE IF n = "70000" THEN 70000 ELSE 100000000]

ThreeTests == <<"config", "lz4", "vterm">>
SomeNames == ToSet(ThreeTests) \cup {"list", "x"}

\* A request without a host is answered as one for the page, by another code.
MostRequests == Kinds \ {"noHost"}
=============================================================================
