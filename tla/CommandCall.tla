---------------------------- MODULE CommandCall -----------------------------
(***************************************************************************)
(* What exec_command_ promises its caller: one command is run; when the    *)
(* call returns, the command has ended, and what is returned is all it     *)
(* wrote; a call may fail instead, at any time before.  A call is void     *)
(* once it shares the process's pipes with another: nothing is promised.   *)
(* Execute implements it with a fork, three pipes and a fixed order of     *)
(* reads.                                                                  *)
(***************************************************************************)
EXTENDS Naturals, Sequences

CONSTANTS Streams    \* what a command writes to

VARIABLES phase,     \* of the call
          written,   \* per stream, what the command has written
          good,      \* did the command end well?
          answer     \* what the call returned, or NoAnswer

vars == <<phase, written, good, answer>>

NoAnswer == [output |-> [i \in Streams |-> <<>>], zero |-> FALSE]

Init == /\ phase = "running"
        /\ written = [i \in Streams |-> <<>>]
        /\ good = FALSE
        /\ answer = NoAnswer

\* The command, which outlives a call that failed or is void.
Emit == /\ phase \in {"running", "failed", "void"}
        /\ \E i \in Streams :
              /\ written' = [written EXCEPT ![i] = written'[i]]
              /\ Len(written'[i]) = Len(written[i]) + 1
              /\ SubSeq(written'[i], 1, Len(written[i])) = written[i]
        /\ UNCHANGED <<phase, good, answer>>

End == /\ phase' = IF phase = "running" THEN "ended" ELSE phase
       /\ phase \in {"running", "failed", "void"}
       /\ good' \in BOOLEAN
       /\ UNCHANGED <<written, answer>>

\* The call returns all that was written, and success only if the command had it.
Return == /\ phase = "ended" /\ phase' = "returned"
          /\ answer'.output = written
          /\ answer'.zero => good
          /\ UNCHANGED <<written, good>>

Fail == /\ phase \in {"running", "ended"} /\ phase' = "failed"
        /\ UNCHANGED <<written, good, answer>>

Overlap == /\ phase # "returned" /\ phase' = "void"
           /\ UNCHANGED <<written, good, answer>>

Next == Emit \/ End \/ Return \/ Fail \/ Overlap

Spec == Init /\ [][Next]_vars
=============================================================================
