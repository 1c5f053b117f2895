------------------------------ MODULE UnitTests -----------------------------
(***************************************************************************)
(* The main of the unit tests (src/src/utest/main.cpp): each selected test *)
(* runs on a thread of its own while main polls a flag, then its result is *)
(* read and counted; the counts decide what the program returns.  The      *)
(* thread's two stores and main's reads are steps of their own.            *)
(***************************************************************************)
EXTENDS Naturals, FiniteSets, SequencesExt

CONSTANTS Tests,     \* the identifiers of test::unit_tests, in their order
          Names,     \* names a user may give, in lower case; "list" among them
          MaxNames   \* how many of them

ASSUME UnitTestsAssumption ==
    /\ Tests \in Seq(ToSet(Tests)) /\ IsInjective(Tests)
    /\ MaxNames \in Nat

VARIABLES
    tpc,       \* where main is
    names,     \* argv[1] .. argv[argc - 1]
    next,      \* the test main is at
    worker,    \* the thread of the test
    verdict,   \* what the test returned; history
    result,    \* the variable both threads use; "unset" until the thread sets it
    finished,  \* the flag both threads use
    passed,    \* success
    failed,    \* failed
    found,     \* selective_count
    ran        \* history: the tests that returned, each with its verdict

testsVars == <<tpc, names, next, worker, verdict, result, finished, passed, failed, found, ran>>

TestsInit ==
    /\ tpc = "start" /\ names = <<>> /\ next = 1
    /\ worker = "none" /\ verdict = "none" /\ result = "unset" /\ finished = FALSE
    /\ passed = 0 /\ failed = 0 /\ found = 0 /\ ran = <<>>
-----------------------------------------------------------------------------
Selective == names # <<>>
Selected(t) == ~Selective \/ t \in ToSet(names)

Start ==
    /\ tpc = "start"
    /\ \E n \in 0 .. MaxNames : names' \in [1 .. n -> Names]
    /\ tpc' = IF names' = <<"list">> THEN "success" ELSE "loop"
    /\ UNCHANGED <<next, worker, verdict, result, finished, passed, failed, found, ran>>

Skip ==
    /\ tpc = "loop" /\ next <= Len(Tests)
    /\ ~Selected(Tests[next])
    /\ next' = next + 1
    /\ UNCHANGED <<tpc, names, worker, verdict, result, finished, passed, failed, found, ran>>

\* A fresh result, not initialised, and a fresh flag.
Spawn ==
    /\ tpc = "loop" /\ next <= Len(Tests)
    /\ Selected(Tests[next])
    /\ tpc' = "poll" /\ worker' = "running"
    /\ verdict' = "none" /\ result' = "unset" /\ finished' = FALSE
    /\ found' = IF Selective THEN found + 1 ELSE found
    /\ UNCHANGED <<names, next, passed, failed, ran>>

\* The thread: run, store the result, set the flag.
Return ==
    /\ worker = "running" /\ worker' = "returned"
    /\ verdict' \in {"pass", "fail"}
    /\ ran' = Append(ran, <<Tests[next], verdict'>>)
    /\ UNCHANGED <<tpc, names, next, result, finished, passed, failed, found>>

\* An exception that leaves the thread ends the process.
Throw ==
    /\ worker = "running" /\ worker' = "none"
    /\ tpc' = "terminated"
    /\ UNCHANGED <<names, next, verdict, result, finished, passed, failed, found, ran>>

SetResult ==
    /\ worker = "returned" /\ worker' = "set"
    /\ result' = verdict
    /\ UNCHANGED <<tpc, names, next, verdict, finished, passed, failed, found, ran>>

SetFinished ==
    /\ worker = "set" /\ worker' = "ended"
    /\ finished' = TRUE
    /\ UNCHANGED <<tpc, names, next, verdict, result, passed, failed, found, ran>>

\* Mutant: main stops waiting and counts without the thread.
SeenEarly ==
    /\ tpc = "poll"
    /\ tpc' = "count"
    /\ UNCHANGED <<names, next, worker, verdict, result, finished, passed, failed, found, ran>>

\* main sees the flag, and then joins the thread.
Seen ==
    /\ tpc = "poll" /\ finished
    /\ tpc' = "join"
    /\ UNCHANGED <<names, next, worker, verdict, result, finished, passed, failed, found, ran>>

Join ==
    /\ tpc = "join" /\ worker = "ended"
    /\ tpc' = "count" /\ worker' = "none"
    /\ UNCHANGED <<names, next, verdict, result, finished, passed, failed, found, ran>>

\* A result that was not set may read as either.
Count ==
    /\ tpc = "count"
    /\ \/ result \in {"pass", "unset"} /\ passed' = passed + 1 /\ UNCHANGED failed
       \/ result \in {"fail", "unset"} /\ failed' = failed + 1 /\ UNCHANGED passed
    /\ next' = next + 1 /\ tpc' = "loop"
    /\ UNCHANGED <<names, worker, verdict, result, finished, found, ran>>

\* Mutant: a name that no test has goes unnoticed.
AllPassedFound == failed = 2 \/ (Selective /\ failed = 0)
AllPassed == failed = 2 \/ (Selective /\ failed = 0 /\ found = Len(names))

Conclude ==
    /\ tpc = "loop" /\ next > Len(Tests)
    /\ tpc' = IF AllPassed THEN "success" ELSE "failure"
    /\ UNCHANGED <<names, next, worker, verdict, result, finished, passed, failed, found, ran>>

Main == Start \/ Skip \/ Spawn \/ Seen \/ Join \/ Count \/ Conclude
Test == Return \/ Throw \/ SetResult \/ SetFinished
TestsNext == Main \/ Test
TestsSpec == TestsInit /\ [][TestsNext]_testsVars
-----------------------------------------------------------------------------
Failures == {i \in DOMAIN ran : ran[i][2] = "fail"}

\* The tests that ran are the selected ones of the first n, each once, in their order.
InTurn(n) ==
    /\ {ran[i][1] : i \in DOMAIN ran} = {Tests[m] : m \in {k \in 1 .. n : Selected(Tests[k])}}
    /\ \A i, j \in DOMAIN ran :
          i < j => \E k, m \in 1 .. n : k < m /\ ran[i][1] = Tests[k] /\ ran[j][1] = Tests[m]

\* Whatever the order of the thread's stores and main's reads, the counts are those of the tests
\* that ran, and at the end every selected test ran once, in the order of the table.
CountsTrue ==
    /\ tpc \in {"loop", "success", "failure"} =>
         /\ failed = Cardinality(Failures)
         /\ passed = Len(ran) - failed
    /\ tpc = "failure" \/ (tpc = "success" /\ names # <<"list">>) => InTurn(Len(Tests))

RanTests == {ran[i][1] : i \in DOMAIN ran}

\* Success is earned by the tests themselves, not by the counters that stand for them: when all
\* tests were asked for, every test of the table ran and exactly two of them failed; when
\* some were named, each name is that of one test, none is named twice, and every named test ran
\* and returned true.  One selection is left out: if exactly two of the named tests fail,
\* utest/main.cpp:162 counts that as success too, although 157 colours a selective run as good
\* only with no failure and 165 then prints "all unit tests passed".
SuccessEarned ==
    tpc = "success" /\ names # <<"list">> =>
        IF ~Selective
        THEN Cardinality(Failures) = 2 /\ RanTests = ToSet(Tests) /\ Len(ran) = Len(Tests)
        ELSE Cardinality(Failures) # 2 =>
                 /\ Failures = {} /\ IsInjective(names)
                 /\ RanTests = ToSet(names) /\ Len(ran) = Len(names)
=============================================================================
