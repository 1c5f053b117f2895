--------------------------- MODULE BlockRegister ----------------------------
(***************************************************************************)
(* What the block store promises its clients: a register for each name.    *)
(* A dump sets it, and is answered when it is set; while it is under way   *)
(* the register may be found unset.  A query is answered with what the     *)
(* register was at some moment since the query was made.  Names that two   *)
(* dumps have been written to at once, and exempt names, are void: nothing *)
(* is promised about them.  BlockStore implements it with files that are   *)
(* truncated and written in place.                                         *)
(***************************************************************************)
CONSTANTS Clients, Names,
          Exempt         \* names that are void from the start

VARIABLES held,     \* names whose block can be found
          void,     \* names about which nothing is promised
          phase,    \* of each client's request
          name,     \* the name in it
          was       \* of a query: whether the name was held, since it was made

vars == <<held, void, phase, name, was>>

Init ==
    /\ held = {}
    /\ void = Exempt
    /\ phase = [c \in Clients |-> "idle"]
    /\ name \in [Clients -> Names]
    /\ was = [c \in Clients |-> {}]

Becomes(c, p) == /\ phase' = [phase EXCEPT ![c] = p]
                 /\ was' = [was EXCEPT ![c] = {}]

Ask(c, b) ==
    /\ phase[c] = "idle"
    /\ name' = [name EXCEPT ![c] = b]
    /\ IF b \in void
       THEN Becomes(c, "void")
       ELSE \/ Becomes(c, "dump")
            \/ /\ phase' = [phase EXCEPT ![c] = "query"]
               /\ was' = [was EXCEPT ![c] = {(b \in held)}]
    /\ UNCHANGED <<held, void>>

\* Only a dump that is under way sets a register or unsets it.
Change(b) ==
    /\ b \notin void
    /\ \E c \in Clients : phase[c] = "dump" /\ name[c] = b
    /\ held' = IF b \in held THEN held \ {b} ELSE held \cup {b}
    /\ was' = [c \in Clients |-> IF phase[c] = "query" /\ name[c] = b
                                 THEN was[c] \cup {(b \in held')} ELSE was[c]]
    /\ UNCHANGED <<void, phase, name>>

\* The disk is full.
Fail(c) == /\ phase[c] = "dump" /\ Becomes(c, "unwritten")
           /\ UNCHANGED <<held, void, name>>

Store(c) == /\ \/ phase[c] = "dump" /\ name[c] \in held
               \/ phase[c] = "unwritten"
            /\ Becomes(c, "stored")
            /\ UNCHANGED <<held, void, name>>

Find(c) == /\ phase[c] = "query" /\ TRUE \in was[c] /\ Becomes(c, "found")
           /\ UNCHANGED <<held, void, name>>

Miss(c) == /\ phase[c] = "query" /\ FALSE \in was[c] /\ Becomes(c, "missing")
           /\ UNCHANGED <<held, void, name>>

\* The system does not open a file, or has no memory to compress a block.
Refuse(c) == /\ phase[c] \in {"dump", "unwritten", "query"} /\ Becomes(c, "refused")
             /\ UNCHANGED <<held, void, name>>

\* A second dump of a name that has one under way: the name is void from now on.
Overlap(b) ==
    /\ b \notin void
    /\ \E c, d \in Clients : /\ c # d /\ name[c] = b /\ name[d] = b
                             /\ phase[c] \in {"dump", "unwritten"} /\ phase[d] = "dump"
    /\ void' = void \cup {b}
    /\ held' = held \ {b}
    /\ phase' = [c \in Clients |-> IF phase[c] # "idle" /\ name[c] = b
                                   THEN "void" ELSE phase[c]]
    /\ was' = [c \in Clients |-> IF name[c] = b THEN {} ELSE was[c]]
    /\ UNCHANGED name

Reply(c) == /\ phase[c] \in {"stored", "found", "missing", "refused", "void"}
            /\ Becomes(c, "idle")
            /\ UNCHANGED <<held, void, name>>

\* The program ends and is started again: the registers stay.
Crash == /\ phase' = [c \in Clients |-> "idle"] /\ was' = [c \in Clients |-> {}]
         /\ UNCHANGED <<held, void, name>>

Next == \/ \E c \in Clients : \/ \E b \in Names : Ask(c, b)
                              \/ Fail(c) \/ Store(c) \/ Find(c) \/ Miss(c)
                              \/ Refuse(c) \/ Reply(c)
        \/ \E b \in Names : Change(b) \/ Overlap(b)
        \/ Crash

Spec == Init /\ [][Next]_vars
=============================================================================
