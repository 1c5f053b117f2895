---------------------------- MODULE MCBlockStore ----------------------------
(* Small instances of BlockStore for TLC.  Blocks do not interact: a run   *)
(* is about one of them.                                                   *)
EXTENDS BlockStoreRegister, TLC
CONSTANTS r, z, w1, w2

VARIABLE focus

FocusInit == RegisterInit /\ focus \in Blocks /\ arg = [w \in Workers |-> focus]
FocusNext == RegisterNext /\ UNCHANGED focus /\ arg' = arg
FocusSpec == /\ FocusInit /\ [][FocusNext]_<<registerVars, focus>>
             /\ \A w \in Workers : WF_vars(Handler(w))

Units == 3

(* z shrinks to two units: its frame of five takes two fills of the buffer *)
(* of three.  r is stored raw: a frame of six units, two fills.            *)
Both     == {r, z}
Unshrunk == {r}
Lengths  == (r :> Units) @@ (z :> 2)
Length   == r :> Units
=============================================================================
