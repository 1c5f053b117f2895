------------------------- MODULE BlockStoreRegister -------------------------
(***************************************************************************)
(* BlockStore as an implementation of BlockRegister.  Two history variables*)
(* remember, of each request, what the mapping needs to know of its past;  *)
(* no action of BlockStore reads them.                                     *)
(***************************************************************************)
EXTENDS BlockStore

VARIABLES
    was,      \* readers: whether the block could be found, since the request
    refused   \* workers whose file was not opened, or whose writing was given up

(* The names the register promises nothing about.                          *)
Void == Raw \cup contended

(* The blocks of which a reader who starts now gets all of the payload.    *)
Held == {b \in files \ Void : 1..PayLast(b) \subseteq has[b]}

Reading(w) == pc[w] \in ReaderPc \cup {"open"} /\ arg[w] \notin Void

RememberInit == /\ was = [w \in Workers |-> {}]
                /\ refused = {}

Remember ==
    /\ was' = [w \in Workers |->
                 IF Reading(w)' THEN was[w] \cup {(arg[w] \in Held)'} ELSE {}]
    /\ refused' = {w \in Workers :
                     /\ pc'[w] = "error"
                     /\ \/ w \in refused
                        \/ pc[w] \in {"create", "begin", "update"}
                        \/ pc[w] = "open" /\ arg[w] \in files}

RegisterInit == Init /\ RememberInit
RegisterNext == Next /\ Remember
registerVars == <<vars, was, refused>>
RegisterSpec == RegisterInit /\ [][RegisterNext]_registerVars
-----------------------------------------------------------------------------
(* What a client may make of the place its worker is at.                   *)
Phase(w) ==
    CASE pc[w] = "idle"                            -> "idle"
      [] pc[w] # "idle" /\ arg[w] \in Void         -> "void"
      [] pc[w] # "idle" /\ arg[w] \notin Void      ->
           CASE pc[w] = "create"                   -> "dump"
             [] pc[w] \in WriterPc                 -> IF bad[w] THEN "unwritten" ELSE "dump"
             [] pc[w] \in ReaderPc \cup {"open"}   -> "query"
             [] pc[w] = "stored"                   -> "stored"
             [] pc[w] = "found"                    -> IF out[w] = Whole THEN "found" ELSE "wrong"
             [] pc[w] = "error"                    -> IF w \in refused THEN "refused" ELSE "missing"

Register == INSTANCE BlockRegister
    WITH Clients <- Workers, Names <- Blocks, Exempt <- Raw,
         held <- Held, void <- Void,
         phase <- [w \in Workers |-> Phase(w)], name <- arg, was <- was

(* The store is a register for each name: "Success" to a dump means that   *)
(* the block can be found (or that the disk was full, which nobody looks   *)
(* at, file_access.cpp:76-85), a found block was there at some moment of   *)
(* the query and a missing one was not, and what is stored stays until the *)
(* name is dumped again, crashes or not.  Blocks LZ4 cannot shrink and     *)
(* names two dumps were written to at once are left out.                   *)
IsRegister == Register!Spec
=============================================================================
