--------------------------- MODULE UnitTestsProofs --------------------------
(***************************************************************************)
(* Proofs about UnitTests: the counts are those of the tests that ran, the *)
(* selected tests ran once each in the order of the table, and success is  *)
(* reported only for tests that all ran and did not fail, or of which      *)
(* exactly two failed.                                                     *)
(*                                                                         *)
(* A test has returned before it is counted: Pending names the steps       *)
(* between.  The thread's stores come in one order, result before flag, so *)
(* a flag that is seen means a result that is the verdict (Phases); the    *)
(* counts lag by the pending test (Counted); and the tests that returned   *)
(* are a prefix of the selected ones (Ordered).                            *)
(***************************************************************************)
EXTENDS UnitTests, FiniteSetTheorems, TLAPS

Busy == tpc \in {"poll", "join", "count"}
Pending == Busy /\ worker # "running"
Verdicts == {"pass", "fail"}

NamesGiven == \E n \in Nat : names \in [1 .. n -> Names]
Typed ==
    /\ tpc \in {"start", "loop", "poll", "join", "count", "success", "failure", "terminated"}
    /\ NamesGiven
    /\ next \in 1 .. Len(Tests) + 1
    /\ worker \in {"none", "running", "returned", "set", "ended"}
    /\ verdict \in Verdicts \cup {"none"} /\ result \in Verdicts \cup {"unset"}
    /\ finished \in BOOLEAN
    /\ passed \in Nat /\ failed \in Nat /\ found \in Nat
    /\ ran \in Seq(ToSet(Tests) \X Verdicts)

\* What each place of main says of the thread and its two stores.
Phases ==
    /\ tpc = "start" => names = <<>> /\ ran = <<>> /\ next = 1 /\ found = 0
    /\ ~Busy \/ tpc = "count" => worker = "none"
    /\ tpc = "poll" => worker # "none"
    /\ tpc = "join" => worker = "ended"
    /\ tpc = "poll" /\ finished => worker = "ended"
    /\ Busy => next <= Len(Tests) /\ Selected(Tests[next])
    /\ Pending => /\ ran # <<>> /\ ran[Len(ran)][2] = verdict /\ verdict \in Verdicts
                  /\ worker # "returned" => result = verdict
    /\ tpc = "success" /\ names # <<"list">> => AllPassed
    /\ tpc = "failure" \/ (tpc = "success" /\ names # <<"list">>) => next = Len(Tests) + 1

\* The counts are those of the tests that returned, but for the pending one.
Counted ==
    tpc # "terminated" =>
        /\ Cardinality(Failures) = IF Pending /\ verdict = "fail" THEN failed + 1 ELSE failed
        /\ Len(ran) = IF Pending THEN passed + failed + 1 ELSE passed + failed
        /\ Selective => found = IF Busy /\ worker = "running" THEN Len(ran) + 1 ELSE Len(ran)

\* The tests that returned are the selected ones of those main has passed.
Ordered == tpc # "terminated" => InTurn(IF Pending THEN next ELSE next - 1)

TestsInv == Typed /\ Phases /\ Counted /\ Ordered
-----------------------------------------------------------------------------
\* The failures of a longer history.
LEMMA FailuresFinite ==
    ASSUME Typed
    PROVE  IsFiniteSet(Failures) /\ Cardinality(Failures) \in Nat
<1>1. IsFiniteSet(1 .. Len(ran))
  <2>1. Len(ran) \in Nat
    BY DEF Typed
  <2> QED
    BY <2>1, FS_Interval
<1>2. Failures \in SUBSET (1 .. Len(ran))
  BY DEF Typed, Failures
<1>3. IsFiniteSet(Failures)
  BY <1>1, <1>2, FS_Subset
<1> QED
  BY <1>3, FS_CardinalityType

LEMMA FailuresGrow ==
    ASSUME Typed, NEW t \in ToSet(Tests), NEW v \in Verdicts, ran' = Append(ran, <<t, v>>)
    PROVE  Cardinality(Failures') = IF v = "fail" THEN Cardinality(Failures) + 1
                                    ELSE Cardinality(Failures)
<1>1. /\ ran' \in Seq(ToSet(Tests) \X Verdicts) /\ Len(ran') = Len(ran) + 1
      /\ Len(ran) \in Nat /\ ran'[Len(ran) + 1][2] = v
      /\ \A i \in 1 .. Len(ran) : ran'[i] = ran[i]
  BY DEF Typed
<1>2. DOMAIN ran' = 1 .. Len(ran) + 1 /\ DOMAIN ran = 1 .. Len(ran)
  BY <1>1 DEF Typed
<1>3. Failures' = IF v = "fail" THEN Failures \cup {Len(ran) + 1} ELSE Failures
  BY <1>1, <1>2 DEF Failures
<1>4. Len(ran) + 1 \notin Failures
  BY <1>1, <1>2 DEF Failures
<1>5. IsFiniteSet(Failures)
  BY FailuresFinite
<1>6. Cardinality(Failures \cup {Len(ran) + 1}) = Cardinality(Failures) + 1
  BY <1>4, <1>5, FS_AddElement
<1> QED
  BY <1>3, <1>6

\* One more test of the table: one that is not selected changes nothing, one that is and has
\* returned is the last.
LEMMA InTurnSkip ==
    ASSUME Typed, NEW n \in Nat, n + 1 \in 1 .. Len(Tests), ~Selected(Tests[n + 1]), InTurn(n)
    PROVE  InTurn(n + 1)
<1>1. {k \in 1 .. n + 1 : Selected(Tests[k])} = {k \in 1 .. n : Selected(Tests[k])}
  OBVIOUS
<1>2. {ran[i][1] : i \in DOMAIN ran}
        = {Tests[m] : m \in {k \in 1 .. n + 1 : Selected(Tests[k])}}
  BY <1>1, Zenon DEF InTurn
<1>3. ASSUME NEW i \in DOMAIN ran, NEW j \in DOMAIN ran, i < j
      PROVE  \E k, m \in 1 .. n + 1 : k < m /\ ran[i][1] = Tests[k] /\ ran[j][1] = Tests[m]
  <2>1. PICK k \in 1 .. n, m \in 1 .. n : k < m /\ ran[i][1] = Tests[k] /\ ran[j][1] = Tests[m]
    BY <1>3 DEF InTurn
  <2>2. k \in 1 .. n + 1 /\ m \in 1 .. n + 1
    OBVIOUS
  <2> QED
    BY <2>1, <2>2
<1> QED
  BY <1>2, <1>3 DEF InTurn

LEMMA InTurnReturn ==
    ASSUME UnitTestsAssumption, Typed, NEW n \in Nat, n + 1 \in 1 .. Len(Tests),
           Selected(Tests[n + 1]), InTurn(n), UNCHANGED names,
           NEW v \in Verdicts, ran' = Append(ran, <<Tests[n + 1], v>>)
    PROVE  InTurn(n + 1)'
<1>1. /\ Len(ran) \in Nat /\ DOMAIN ran' = 1 .. Len(ran) + 1 /\ DOMAIN ran = 1 .. Len(ran)
      /\ ran'[Len(ran) + 1][1] = Tests[n + 1]
      /\ \A i \in DOMAIN ran : i \in DOMAIN ran' /\ ran'[i] = ran[i]
  <2>1. Tests[n + 1] \in ToSet(Tests)
    BY DEF ToSet, UnitTestsAssumption
  <2> QED
    BY <2>1 DEF Typed
<1>2. {k \in 1 .. n + 1 : Selected(Tests[k])} = {k \in 1 .. n : Selected(Tests[k])} \cup {n + 1}
  OBVIOUS
<1>3. \A t : Selected(t)' <=> Selected(t)
  BY DEF Selected, Selective
<1>4. {ran'[i][1] : i \in DOMAIN ran'} = {ran[i][1] : i \in DOMAIN ran} \cup {Tests[n + 1]}
  <2>1. DOMAIN ran' = DOMAIN ran \cup {Len(ran) + 1}
    BY <1>1
  <2> QED
    BY <1>1, <2>1
<1>5. {ran'[i][1] : i \in DOMAIN ran'}
        = {Tests[m] : m \in {k \in 1 .. n + 1 : Selected(Tests[k])'}}
  <2>1. {ran[i][1] : i \in DOMAIN ran} = {Tests[m] : m \in {k \in 1 .. n : Selected(Tests[k])}}
    BY DEF InTurn
  <2>2. {k \in 1 .. n + 1 : Selected(Tests[k])'} = {k \in 1 .. n : Selected(Tests[k])} \cup {n + 1}
    BY <1>2, <1>3
  <2> QED
    BY <1>4, <2>1, <2>2
<1>6. ASSUME NEW i \in DOMAIN ran', NEW j \in DOMAIN ran', i < j
      PROVE  \E k, m \in 1 .. n + 1 : k < m /\ ran'[i][1] = Tests[k] /\ ran'[j][1] = Tests[m]
  <2>1. CASE j \in DOMAIN ran
    <3>1. i \in DOMAIN ran
      BY <1>1, <1>6, <2>1
    <3>2. PICK k \in 1 .. n, m \in 1 .. n : k < m /\ ran[i][1] = Tests[k] /\ ran[j][1] = Tests[m]
      BY <1>6, <2>1, <3>1 DEF InTurn
    <3>3. k \in 1 .. n + 1 /\ m \in 1 .. n + 1
      OBVIOUS
    <3>4. ran'[i][1] = Tests[k] /\ ran'[j][1] = Tests[m]
      BY <1>1, <2>1, <3>1, <3>2
    <3> QED
      BY <3>2, <3>3, <3>4
  <2>2. CASE j \notin DOMAIN ran
    <3>1. j = Len(ran) + 1 /\ i \in DOMAIN ran
      BY <1>1, <1>6, <2>2
    <3>2. PICK k \in 1 .. n : ran[i][1] = Tests[k]
      <4>1. ran[i][1] \in {ran[h][1] : h \in DOMAIN ran}
        BY <3>1
      <4>2. ran[i][1] \in {Tests[k] : k \in {h \in 1 .. n : Selected(Tests[h])}}
        BY <4>1, Zenon DEF InTurn
      <4> QED
        BY ONLY <4>2
    <3>3. k < n + 1 /\ k \in 1 .. n + 1 /\ n + 1 \in 1 .. n + 1
      OBVIOUS
    <3>4. ran'[i][1] = Tests[k] /\ ran'[j][1] = Tests[n + 1]
      BY <1>1, <3>1, <3>2
    <3> QED
      BY <3>3, <3>4
  <2> QED
    BY <2>1, <2>2
<1> QED
  BY <1>5, <1>6 DEF InTurn

\* A step that starts no test and ends none leaves the histories alone.
LEMMA Unchanged ==
    ASSUME UNCHANGED <<names, ran>>
    PROVE  /\ Failures' = Failures /\ (Selective' <=> Selective)
           /\ \A n : InTurn(n)' <=> InTurn(n)
           /\ \A t : Selected(t)' <=> Selected(t)
BY DEF Failures, Selective, InTurn, Selected
-----------------------------------------------------------------------------
LEMMA StartKeeps ==
    ASSUME UnitTestsAssumption, TestsInv, Start
    PROVE  TestsInv'
<1>1. PICK k \in 0 .. MaxNames : names' \in [1 .. k -> Names]
  BY DEF Start
<1>2. k \in Nat
  BY DEF UnitTestsAssumption
<1>3. Typed'
  <2>1. NamesGiven'
    BY <1>1, <1>2 DEF NamesGiven
  <2> QED
    BY <2>1 DEF TestsInv, Typed, Start
<1>4. Phases'
  BY DEF TestsInv, Typed, Phases, Start, Busy, Pending
<1>5. Counted'
  <2>1. Failures' = Failures
    BY DEF Failures, Start
  <2>2. ~Pending /\ ~Pending' /\ ~Busy /\ ~Busy' /\ tpc # "terminated"
    BY DEF Pending, Busy, Start
  <2>3. /\ UNCHANGED <<ran, found, passed, failed>> /\ found = 0 /\ Len(ran) = 0
    BY DEF TestsInv, Phases, Start
  <2> QED
    BY <2>1, <2>2, <2>3 DEF TestsInv, Counted
<1>6. Ordered'
  <2>1. ran' = <<>> /\ next' = 1 /\ ~Pending'
    BY DEF TestsInv, Phases, Start, Pending, Busy
  <2>2. InTurn(0)'
    BY <2>1 DEF InTurn
  <2> QED
    BY <2>1, <2>2 DEF Ordered
<1> QED
  BY <1>3, <1>4, <1>5, <1>6 DEF TestsInv

LEMMA SkipKeeps ==
    ASSUME UnitTestsAssumption, TestsInv, Skip
    PROVE  TestsInv'
<1>1. Typed'
  <2>1. NamesGiven' <=> NamesGiven
    BY DEF NamesGiven, Skip
  <2>2. next' \in 1 .. Len(Tests) + 1
    BY DEF TestsInv, Typed, Skip, UnitTestsAssumption
  <2> QED
    BY <2>1, <2>2 DEF TestsInv, Typed, Skip
<1>2. Phases'
  BY Unchanged DEF TestsInv, Typed, Phases, Skip, Busy, Pending
<1>3. ~Pending /\ ~Pending' /\ ~Busy /\ ~Busy' /\ tpc # "terminated" /\ UNCHANGED <<names, ran>>
  BY DEF Pending, Busy, Skip
<1>4. Counted'
  BY <1>3, Unchanged DEF TestsInv, Counted, Skip
<1>5. Ordered'
  <2>1. /\ next - 1 \in Nat /\ (next - 1) + 1 = next /\ next' - 1 = next
        /\ next \in 1 .. Len(Tests) /\ ~Selected(Tests[next])
    BY DEF TestsInv, Typed, Skip, UnitTestsAssumption
  <2>2. InTurn(next - 1)
    BY <1>3 DEF TestsInv, Ordered
  <2>3. InTurn(next)
    BY <2>1, <2>2, InTurnSkip DEF TestsInv
  <2> QED
    BY <1>3, <2>1, <2>3, Unchanged DEF Ordered
<1> QED
  BY <1>1, <1>2, <1>4, <1>5 DEF TestsInv

LEMMA SpawnKeeps ==
    ASSUME UnitTestsAssumption, TestsInv, Spawn
    PROVE  TestsInv'
<1>1. Typed'
  <2>1. NamesGiven' <=> NamesGiven
    BY DEF NamesGiven, Spawn
  <2>2. found' \in {found, found + 1}
    BY DEF Spawn
  <2>3. found' \in Nat
    BY <2>2 DEF TestsInv, Typed
  <2> QED
    BY <2>1, <2>3 DEF TestsInv, Typed, Spawn
<1>2. Phases'
  BY Unchanged DEF TestsInv, Typed, Phases, Spawn, Busy, Pending
<1>3. /\ ~Pending /\ ~Pending' /\ ~Busy /\ Busy' /\ worker' = "running"
      /\ tpc # "terminated" /\ UNCHANGED <<names, ran, next>>
  BY DEF Pending, Busy, Spawn
<1>4. Counted'
  BY <1>3, Unchanged DEF TestsInv, Typed, Counted, Spawn
<1>5. Ordered'
  BY <1>3, Unchanged DEF TestsInv, Ordered
<1> QED
  BY <1>1, <1>2, <1>4, <1>5 DEF TestsInv

LEMMA ReturnKeeps ==
    ASSUME UnitTestsAssumption, TestsInv, Return
    PROVE  TestsInv'
<1>1. /\ tpc = "poll" /\ tpc' = "poll" /\ worker = "running" /\ worker' = "returned"
      /\ ~Pending /\ Pending' /\ Busy /\ Busy' /\ verdict' \in Verdicts
      /\ ran' = Append(ran, <<Tests[next], verdict'>>) /\ UNCHANGED <<names, next, failed, passed, found>>
  BY DEF TestsInv, Phases, Return, Pending, Busy, Verdicts
<1>2. /\ next - 1 \in Nat /\ (next - 1) + 1 = next /\ next \in 1 .. Len(Tests)
      /\ Selected(Tests[next]) /\ Tests[next] \in ToSet(Tests)
  BY <1>1 DEF TestsInv, Typed, Phases, UnitTestsAssumption, ToSet
<1>3. Len(ran') = Len(ran) + 1 /\ ran'[Len(ran')] = <<Tests[next], verdict'>> /\ ran' # <<>>
  BY <1>1, <1>2 DEF TestsInv, Typed
<1>4. Typed'
  <2>1. NamesGiven' <=> NamesGiven
    BY DEF NamesGiven, Return
  <2> QED
    BY <2>1, <1>1, <1>2 DEF TestsInv, Typed, Return
<1>5. Phases'
  <2>1. Selected(Tests[next])'
    BY <1>1, <1>2 DEF Selected, Selective
  <2> QED
    BY <1>1, <1>2, <1>3, <2>1 DEF TestsInv, Phases, Return
<1>6. Counted'
  <2>1. Cardinality(Failures') = IF verdict' = "fail" THEN Cardinality(Failures) + 1
                                 ELSE Cardinality(Failures)
    BY <1>1, <1>2, FailuresGrow DEF TestsInv
  <2>2. Selective' <=> Selective
    BY <1>1 DEF Selective
  <2> QED
    BY <1>1, <1>3, <2>1, <2>2 DEF TestsInv, Typed, Counted
<1>7. Ordered'
  <2>1. InTurn(next - 1)
    BY <1>1 DEF TestsInv, Ordered
  <2>2. InTurn((next - 1) + 1)'
    BY <1>1, <1>2, <2>1, InTurnReturn DEF TestsInv
  <2> QED
    BY <1>1, <1>2, <2>2 DEF Ordered
<1> QED
  BY <1>4, <1>5, <1>6, <1>7 DEF TestsInv

\* The end of the process: nothing more is counted.
LEMMA ThrowKeeps ==
    ASSUME TestsInv, Throw
    PROVE  TestsInv'
<1>1. NamesGiven' <=> NamesGiven
  BY DEF NamesGiven, Throw
<1> QED
  BY <1>1 DEF TestsInv, Typed, Phases, Counted, Ordered, Throw, Busy, Pending

LEMMA SetResultKeeps ==
    ASSUME TestsInv, SetResult
    PROVE  TestsInv'
<1>1. /\ Busy /\ Busy' /\ Pending /\ Pending' /\ tpc' = tpc /\ tpc = "poll"
      /\ worker = "returned" /\ worker' = "set"
  BY DEF TestsInv, Phases, SetResult, Pending, Busy
<1>2. Typed'
  <2>1. NamesGiven' <=> NamesGiven
    BY DEF NamesGiven, SetResult
  <2> QED
    BY <2>1, <1>1 DEF TestsInv, Typed, Phases, SetResult
<1>3. Phases'
  BY <1>1, Unchanged DEF TestsInv, Phases, SetResult
<1>4. Counted'
  BY <1>1, Unchanged DEF TestsInv, Counted, SetResult
<1>5. Ordered'
  BY <1>1, Unchanged DEF TestsInv, Ordered, SetResult
<1> QED
  BY <1>2, <1>3, <1>4, <1>5 DEF TestsInv

LEMMA SetFinishedKeeps ==
    ASSUME TestsInv, SetFinished
    PROVE  TestsInv'
<1>1. /\ Busy /\ Busy' /\ Pending /\ Pending' /\ tpc' = tpc /\ tpc = "poll"
      /\ worker = "set" /\ worker' = "ended"
  BY DEF TestsInv, Phases, SetFinished, Pending, Busy
<1>2. Typed'
  <2>1. NamesGiven' <=> NamesGiven
    BY DEF NamesGiven, SetFinished
  <2> QED
    BY <2>1, <1>1 DEF TestsInv, Typed, SetFinished
<1>3. Phases'
  BY <1>1, Unchanged DEF TestsInv, Phases, SetFinished
<1>4. Counted'
  BY <1>1, Unchanged DEF TestsInv, Counted, SetFinished
<1>5. Ordered'
  BY <1>1, Unchanged DEF TestsInv, Ordered, SetFinished
<1> QED
  BY <1>2, <1>3, <1>4, <1>5 DEF TestsInv

LEMMA SeenKeeps ==
    ASSUME TestsInv, Seen
    PROVE  TestsInv'
<1>1. /\ Busy /\ Busy' /\ Pending /\ Pending' /\ tpc = "poll" /\ tpc' = "join"
      /\ worker = "ended" /\ worker' = "ended"
  BY DEF TestsInv, Phases, Seen, Pending, Busy
<1>2. Typed'
  <2>1. NamesGiven' <=> NamesGiven
    BY DEF NamesGiven, Seen
  <2> QED
    BY <2>1, <1>1 DEF TestsInv, Typed, Seen
<1>3. Phases'
  BY <1>1, Unchanged DEF TestsInv, Phases, Seen
<1>4. Counted'
  BY <1>1, Unchanged DEF TestsInv, Counted, Seen
<1>5. Ordered'
  BY <1>1, Unchanged DEF TestsInv, Ordered, Seen
<1> QED
  BY <1>2, <1>3, <1>4, <1>5 DEF TestsInv

LEMMA JoinKeeps ==
    ASSUME TestsInv, Join
    PROVE  TestsInv'
<1>1. /\ Busy /\ Busy' /\ Pending /\ Pending' /\ tpc = "join" /\ tpc' = "count"
      /\ worker = "ended" /\ worker' = "none"
  BY DEF TestsInv, Phases, Join, Pending, Busy
<1>2. Typed'
  <2>1. NamesGiven' <=> NamesGiven
    BY DEF NamesGiven, Join
  <2> QED
    BY <2>1, <1>1 DEF TestsInv, Typed, Join
<1>3. Phases'
  BY <1>1, Unchanged DEF TestsInv, Phases, Join
<1>4. Counted'
  BY <1>1, Unchanged DEF TestsInv, Counted, Join
<1>5. Ordered'
  BY <1>1, Unchanged DEF TestsInv, Ordered, Join
<1> QED
  BY <1>2, <1>3, <1>4, <1>5 DEF TestsInv

LEMMA CountKeeps ==
    ASSUME TestsInv, Count
    PROVE  TestsInv'
<1>1. /\ Busy /\ ~Busy' /\ Pending /\ ~Pending' /\ tpc = "count" /\ tpc' = "loop"
      /\ worker = "none" /\ worker' = "none" /\ result = verdict /\ verdict \in Verdicts
      /\ UNCHANGED <<names, ran>> /\ next <= Len(Tests)
  BY DEF TestsInv, Phases, Count, Pending, Busy
<1>2. \/ verdict = "pass" /\ passed' = passed + 1 /\ failed' = failed
      \/ verdict = "fail" /\ failed' = failed + 1 /\ passed' = passed
  BY <1>1 DEF Count, Verdicts
<1>3. Typed'
  <2>1. NamesGiven' <=> NamesGiven
    BY DEF NamesGiven, Count
  <2> QED
    BY <2>1, <1>1, <1>2 DEF TestsInv, Typed, Count
<1>4. Phases'
  BY <1>1 DEF TestsInv, Phases, Count
<1>5. Counted'
  BY <1>1, <1>2, Unchanged DEF TestsInv, Typed, Counted, Count
<1>6. Ordered'
  <2>1. next' - 1 = next
    BY DEF TestsInv, Typed, Count
  <2> QED
    BY <1>1, <2>1, Unchanged DEF TestsInv, Ordered
<1> QED
  BY <1>3, <1>4, <1>5, <1>6 DEF TestsInv

LEMMA ConcludeKeeps ==
    ASSUME UnitTestsAssumption, TestsInv, Conclude
    PROVE  TestsInv'
<1>1. /\ ~Busy /\ ~Busy' /\ ~Pending /\ ~Pending' /\ tpc = "loop" /\ worker' = worker
      /\ tpc' \in {"success", "failure"} /\ (tpc' = "success" => AllPassed)
      /\ next' = next /\ next = Len(Tests) + 1 /\ UNCHANGED <<names, ran, failed, passed, found>>
  BY DEF TestsInv, Typed, Conclude, Pending, Busy, UnitTestsAssumption
<1>2. AllPassed' <=> AllPassed
  BY <1>1 DEF AllPassed, Selective
<1>3. Typed'
  <2>1. NamesGiven' <=> NamesGiven
    BY DEF NamesGiven, Conclude
  <2> QED
    BY <2>1, <1>1 DEF TestsInv, Typed, Conclude
<1>4. Phases'
  BY <1>1, <1>2 DEF TestsInv, Phases, Conclude
<1>5. Counted'
  BY <1>1, Unchanged DEF TestsInv, Counted
<1>6. Ordered'
  BY <1>1, Unchanged DEF TestsInv, Ordered
<1> QED
  BY <1>3, <1>4, <1>5, <1>6 DEF TestsInv
-----------------------------------------------------------------------------
LEMMA TestsInductive == UnitTestsAssumption => (TestsSpec => []TestsInv)
<1> SUFFICES ASSUME UnitTestsAssumption
             PROVE  TestsSpec => []TestsInv
  OBVIOUS
<1>1. TestsInit => TestsInv
  <2> SUFFICES ASSUME TestsInit
               PROVE  TestsInv
    OBVIOUS
  <2>1. Typed
    <3>1. <<>> \in [1 .. 0 -> Names] /\ 0 \in Nat
      OBVIOUS
    <3>2. NamesGiven
      BY <3>1 DEF NamesGiven, TestsInit
    <3>3. 1 \in 1 .. Len(Tests) + 1
      BY DEF UnitTestsAssumption
    <3>4. <<>> \in Seq(ToSet(Tests) \X Verdicts)
      OBVIOUS
    <3> QED
      BY <3>2, <3>3, <3>4 DEF TestsInit, Typed
  <2>2. Phases
    BY DEF TestsInit, Phases, Busy, Pending
  <2>3. Failures = {} /\ ~Pending /\ ~Busy /\ ran = <<>> /\ Len(ran) = 0 /\ next = 1
    BY DEF TestsInit, Failures, Pending, Busy
  <2>4. Counted
    BY <2>3, FS_EmptySet DEF TestsInit, Counted
  <2>5. InTurn(0)
    BY <2>3 DEF InTurn
  <2> QED
    BY <2>1, <2>2, <2>3, <2>4, <2>5 DEF TestsInv, Ordered
<1>2. TestsInv /\ [TestsNext]_testsVars => TestsInv'
  <2> SUFFICES ASSUME TestsInv, [TestsNext]_testsVars
               PROVE  TestsInv'
    OBVIOUS
  <2>1. CASE UNCHANGED testsVars
    <3>1. /\ (Busy' <=> Busy) /\ (Pending' <=> Pending) /\ (NamesGiven' <=> NamesGiven)
          /\ (AllPassed' <=> AllPassed)
      BY <2>1 DEF testsVars, Busy, Pending, NamesGiven, AllPassed, Selective
    <3>2. Typed' /\ Phases'
      BY <2>1, <3>1, Unchanged DEF testsVars, TestsInv, Typed, Phases
    <3>3. Counted' /\ Ordered'
      BY <2>1, <3>1, Unchanged DEF testsVars, TestsInv, Counted, Ordered
    <3> QED
      BY <3>2, <3>3 DEF TestsInv
  <2> QED
    BY <2>1, StartKeeps, SkipKeeps, SpawnKeeps, ReturnKeeps, ThrowKeeps, SetResultKeeps,
       SetFinishedKeeps, SeenKeeps, JoinKeeps, CountKeeps, ConcludeKeeps
       DEF TestsNext, Main, Test
<1> QED
  BY <1>1, <1>2, PTL DEF TestsSpec

\* In any run of the unit tests, however the thread's stores and main's reads interleave, the counts
\* are those of the tests that returned, and at the end each selected test has run once, in order.
THEOREM CountsSafe == TestsSpec => []CountsTrue
<1>1. TestsInv => CountsTrue
  <2> SUFFICES ASSUME TestsInv
               PROVE  CountsTrue
    OBVIOUS
  <2>1. tpc \in {"loop", "success", "failure"} =>
          failed = Cardinality(Failures) /\ passed = Len(ran) - failed
    BY DEF TestsInv, Typed, Counted, Pending, Busy
  <2>2. tpc = "failure" \/ (tpc = "success" /\ names # <<"list">>) => InTurn(Len(Tests))
    BY UnitTestsAssumption DEF TestsInv, Ordered, Phases, Pending, Busy, UnitTestsAssumption
  <2> QED
    BY <2>1, <2>2 DEF CountsTrue
<1> QED
  BY <1>1, TestsInductive, UnitTestsAssumption, PTL

\* No test runs twice: a history in the order of the table is one of different tests.
LEMMA RanOnce ==
    ASSUME UnitTestsAssumption, Typed, NEW n \in Nat, n <= Len(Tests), InTurn(n),
           NEW i \in DOMAIN ran, NEW j \in DOMAIN ran, i # j
    PROVE  ran[i][1] # ran[j][1]
<1>1. \A a, b \in 1 .. n : a < b => Tests[a] # Tests[b]
  BY DEF UnitTestsAssumption, IsInjective
<1>2. i < j \/ j < i
  BY DEF Typed
<1> QED
  BY <1>1, <1>2 DEF InTurn

\* The selected tests that ran are as many as the names only if each name is one of them.
LEMMA EachNamed ==
    ASSUME UnitTestsAssumption, Typed, Selective, InTurn(Len(Tests)), Len(ran) = Len(names)
    PROVE  IsInjective(names) /\ RanTests = ToSet(names)
<1> DEFINE Ran == {ran[i][1] : i \in DOMAIN ran}
           What == [i \in DOMAIN ran |-> ran[i][1]]
<1>1. PICK k \in Nat : names \in [1 .. k -> Names]
  BY DEF Typed, NamesGiven
<1>2. Len(names) = k /\ DOMAIN names = 1 .. k /\ DOMAIN ran = 1 .. k
  BY <1>1 DEF Typed
<1>3. IsFiniteSet(1 .. k) /\ Cardinality(1 .. k) = k
  BY <1>1, FS_Interval
<1>4. What \in Injection(1 .. k, Ran)
  <2>1. Len(Tests) \in Nat
    BY DEF UnitTestsAssumption
  <2>2. \A i, j \in 1 .. k : What[i] = What[j] => i = j
    BY <1>2, <2>1, RanOnce
  <2>3. What \in [1 .. k -> Ran]
    BY <1>2
  <2> QED
    BY <2>2, <2>3, <1>2 DEF Injection, IsInjective
<1>5. What \in Surjection(1 .. k, Ran)
  BY <1>2, <1>4 DEF Surjection, Injection
<1>6. IsFiniteSet(Ran) /\ Cardinality(Ran) = k
  <2> HIDE DEF Ran, What
  <2> QED
    BY <1>3, <1>4, <1>5, FS_Surjection
<1>7. names \in Surjection(1 .. k, ToSet(names))
  BY <1>1, <1>2 DEF Surjection, ToSet
<1>8. IsFiniteSet(ToSet(names)) /\ Cardinality(ToSet(names)) <= k
  BY <1>3, <1>7, FS_Surjection
<1>9. Ran \subseteq ToSet(names)
  <2>1. Ran = {Tests[m] : m \in {j \in 1 .. Len(Tests) : Selected(Tests[j])}}
    BY DEF InTurn
  <2>2. \A t : Selected(t) => t \in ToSet(names)
    BY DEF Selected
  <2> QED
    BY <2>1, <2>2
<1>10. Ran = ToSet(names)
  <2> HIDE DEF Ran, What
  <2>1. Cardinality(Ran) <= Cardinality(ToSet(names)) /\ Cardinality(ToSet(names)) \in Nat
    BY <1>8, <1>9, FS_Subset, FS_CardinalityType
  <2>2. Cardinality(ToSet(names)) = Cardinality(Ran)
    BY <1>1, <1>6, <1>8, <2>1
  <2> QED
    BY <1>8, <1>9, <2>2, FS_Subset
<1>11. names \in Injection(1 .. k, ToSet(names))
  <2> HIDE DEF Ran, What
  <2> QED
    BY <1>3, <1>6, <1>7, <1>10, FS_Surjection
<1>12. RanTests = Ran
  BY DEF RanTests
<1> QED
  BY <1>10, <1>11, <1>12 DEF Injection

\* When no test is named, each test of the table has run once at the end.
LEMMA AllRan ==
    ASSUME UnitTestsAssumption, Typed, ~Selective, InTurn(Len(Tests))
    PROVE  RanTests = ToSet(Tests) /\ Len(ran) = Len(Tests)
<1>1. Len(Tests) \in Nat /\ DOMAIN Tests = 1 .. Len(Tests)
  BY DEF UnitTestsAssumption
<1>2. Len(ran) \in Nat /\ DOMAIN ran = 1 .. Len(ran)
  BY DEF Typed
<1>3. RanTests = ToSet(Tests)
  <2>1. {k \in 1 .. Len(Tests) : Selected(Tests[k])} = 1 .. Len(Tests)
    BY DEF Selected
  <2>2. RanTests = {Tests[m] : m \in 1 .. Len(Tests)}
    BY <2>1 DEF InTurn, RanTests
  <2> QED
    BY <1>1, <2>2 DEF ToSet
<1> DEFINE What == [i \in 1 .. Len(ran) |-> ran[i][1]]
<1>4. What \in Bijection(1 .. Len(ran), RanTests)
  <2>1. \A i, j \in 1 .. Len(ran) : What[i] = What[j] => i = j
    BY <1>1, <1>2, RanOnce
  <2>2. What \in [1 .. Len(ran) -> RanTests]
    BY <1>2 DEF RanTests
  <2>3. \A t \in RanTests : \E i \in 1 .. Len(ran) : What[i] = t
    BY <1>2 DEF RanTests
  <2> HIDE DEF What
  <2> QED
    BY <2>1, <2>2, <2>3 DEF Bijection, Injection, Surjection, IsInjective
<1>5. Tests \in Bijection(1 .. Len(Tests), ToSet(Tests))
  <2>1. Tests \in [1 .. Len(Tests) -> ToSet(Tests)]
    BY DEF UnitTestsAssumption
  <2>2. \A t \in ToSet(Tests) : \E i \in 1 .. Len(Tests) : Tests[i] = t
    BY <1>1 DEF ToSet
  <2> QED
    BY <1>1, <2>1, <2>2 DEF UnitTestsAssumption, Bijection, Injection, Surjection, IsInjective
<1>6. \A n \in Nat : IsFiniteSet(1 .. n) /\ Cardinality(1 .. n) = n
  BY FS_Interval
<1>7. Cardinality(RanTests) = Len(ran)
  <2>1. ExistsBijection(1 .. Len(ran), RanTests)
    BY <1>4, Zenon DEF ExistsBijection
  <2> HIDE DEF What
  <2> QED
    BY <1>2, <1>6, <2>1, FS_Bijection
<1>8. Cardinality(ToSet(Tests)) = Len(Tests)
  <2>1. ExistsBijection(1 .. Len(Tests), ToSet(Tests))
    BY <1>5, Zenon DEF ExistsBijection
  <2> QED
    BY <1>1, <1>6, <2>1, FS_Bijection
<1> QED
  BY <1>3, <1>7, <1>8

\* In any run of the unit tests, success means that every test of the table ran and two of them
\* failed, or that every named test ran and returned true (or, of the named ones, two failed).
THEOREM SuccessSafe == TestsSpec => []SuccessEarned
<1>1. TestsInv => SuccessEarned
  <2> SUFFICES ASSUME TestsInv, tpc = "success", names # <<"list">>
               PROVE  IF ~Selective
                      THEN Cardinality(Failures) = 2 /\ RanTests = ToSet(Tests)
                               /\ Len(ran) = Len(Tests)
                      ELSE Cardinality(Failures) # 2 =>
                               /\ Failures = {} /\ IsInjective(names)
                               /\ RanTests = ToSet(names) /\ Len(ran) = Len(names)
    BY DEF SuccessEarned
  <2>1. ~Pending /\ ~Busy /\ AllPassed /\ next = Len(Tests) + 1
    BY DEF TestsInv, Phases, Pending, Busy
  <2>2. failed = Cardinality(Failures) /\ (Selective => found = Len(ran))
    BY <2>1 DEF TestsInv, Counted
  <2>3. InTurn(Len(Tests))
    BY <2>1, UnitTestsAssumption DEF TestsInv, Ordered, UnitTestsAssumption
  <2>4. CASE ~Selective
    <3>1. failed = 2
      BY <2>1, <2>4 DEF AllPassed
    <3>2. RanTests = ToSet(Tests) /\ Len(ran) = Len(Tests)
      BY <2>3, <2>4, AllRan, UnitTestsAssumption DEF TestsInv
    <3> QED
      BY <2>2, <2>4, <3>1, <3>2
  <2>5. CASE Selective /\ failed # 2
    <3>1. failed = 0 /\ found = Len(names)
      BY <2>1, <2>5 DEF AllPassed
    <3>2. Failures = {}
      BY <2>2, <3>1, FailuresFinite, FS_EmptySet DEF TestsInv
    <3>3. Len(ran) = Len(names)
      BY <2>2, <2>5, <3>1
    <3>4. IsInjective(names) /\ RanTests = ToSet(names)
      BY <2>3, <2>5, <3>3, EachNamed, UnitTestsAssumption DEF TestsInv
    <3> QED
      BY <2>5, <3>2, <3>3, <3>4
  <2>6. CASE Selective /\ failed = 2
    BY <2>2, <2>6
  <2> QED
    BY <2>4, <2>5, <2>6
<1> QED
  BY <1>1, TestsInductive, UnitTestsAssumption, PTL
=============================================================================
