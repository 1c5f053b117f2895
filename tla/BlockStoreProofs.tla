-------------------------- MODULE BlockStoreProofs --------------------------
(***************************************************************************)
(* Proofs about BlockStore, for any number of workers, any blocks and any  *)
(* block size, and that it implements BlockRegister.                       *)
(***************************************************************************)
EXTENDS BlockStoreRegister, TLAPS

(* A writer has handed its stream the parts of the frame its place in the  *)
(* code says, and the stream has written no more than that.                *)
WriterInv ==
    \A w \in Workers :
        /\ pc[w] \in WriterPc => arg[w] \in files /\ off[w] <= handed[w]
        /\ pc[w] = "begin"  => handed[w] = 0
        /\ pc[w] = "update" => handed[w] = 1
        /\ pc[w] = "end"    => handed[w] = PayLast(arg[w])
        /\ pc[w] = "close"  => handed[w] = FrameLen(arg[w])
        /\ pc[w] = "stored" => arg[w] \in files

(* A file never grows beyond its block's frame.                            *)
FileInv == \A b \in Blocks : len[b] <= FrameLen(b) /\ has[b] \subseteq 1..len[b]

AckedInv == acked \subseteq files

(* How many units of the block the decoder has made of the first n units   *)
(* of the frame of b.                                                      *)
Decoded(b, n) == IF b \in Raw
                 THEN IF n < 3 THEN 0 ELSE IF n > PayLast(b) THEN N ELSE n - 2
                 ELSE IF n < PayLast(b) THEN 0 ELSE N

(* The reader's indices are in order, and wr_off counts what was decoded.  *)
ReaderInv ==
    \A w \in Workers :
        /\ pc[w] \in ReaderPc \cup {"found"} =>
              /\ fed[w] <= pos[w] /\ pos[w] <= FrameLen(arg[w])
              /\ pos[w] <= fed[w] + N
              /\ wr[w] = Decoded(arg[w], fed[w])
        /\ pc[w] = "fill" => fed[w] < FrameLen(arg[w]) /\ pos[w] < fed[w] + N
        /\ pc[w] = "decompress" => fed[w] < pos[w]
        /\ pc[w] = "found" => wr[w] = N

Basic == TypeOK /\ WriterInv /\ FileInv /\ AckedInv /\ ReaderInv

(* Unless a writer was abandoned, every position of a file either holds    *)
(* its unit or is still to be written by a writer that will.               *)
Covered ==
    \A b \in files \ damaged : \A i \in 1..FrameLen(b) :
        \/ i \in has[b]
        \/ \E w \in Workers : w \in Writers(b) /\ ~bad[w] /\ off[w] < i

(* A file that never had two writers at once has at most one, which is at  *)
(* its end, and no holes.                                                  *)
Uncontended ==
    \A b \in Blocks \ contended :
        /\ has[b] = 1..len[b]
        /\ \A w \in Writers(b) : off[w] = len[b]
        /\ \A w, v \in Writers(b) : w = v

(* So a reader of such a file has met no hole, and out holds the block as  *)
(* soon as the decoder has delivered it.                                   *)
ReadExact ==
    \A w \in Workers :
        pc[w] \in ReaderPc \cup {"found"} /\ arg[w] \notin contended =>
            /\ seen[w] = 1..pos[w]
            /\ arg[w] \notin Raw /\ wr[w] = N => out[w] = Whole

(* A quiet reader reads the whole frame.                                   *)
QuietInv ==
    \A w \in quiet :
        /\ pc[w] \in ReaderPc \cup {"found"}
        /\ Intact(arg[w])
        /\ seen[w] = 1..pos[w]
        /\ pc[w] = "finish" => fed[w] = FrameLen(arg[w])
        /\ eof[w] => pos[w] = FrameLen(arg[w])

IInv == Basic /\ Covered /\ Uncontended /\ ReadExact /\ QuietInv
-----------------------------------------------------------------------------
(* The parameters and the derived lengths, as numbers.                     *)
LEMMA Lengths ==
    /\ N \in Nat /\ N >= 3
    /\ \A b \in Blocks :
         /\ PayLast(b) \in 3..(N + 2)
         /\ FrameLen(b) = PayLast(b) + 1
         /\ FrameLen(b) \in 4..(N + 3)
         /\ b \in Raw <=> PayLast(b) = N + 2
BY BlockStoreAssumption DEF PayLast, FrameLen

LEMMA BasicInit == Init => Basic
BY Lengths DEF Init, Basic, TypeOK, WriterInv, FileInv, AckedInv, ReaderInv, Pc,
   WriterPc, ReaderPc, Unit, Zero

(* What Decoded counts: nothing at the start, never more than a block, and *)
(* for a raw block a call's share is what RawUnits says.                   *)
LEMMA DecodedCounts ==
    ASSUME NEW b \in Blocks
    PROVE  /\ Decoded(b, 0) = 0
           /\ Decoded(b, FrameLen(b)) = N
           /\ \A n \in 0..(N + 3) : Decoded(b, n) \in 0..N
BY Lengths DEF Decoded

LEMMA RawCounts ==
    ASSUME NEW w, arg[w] \in Raw, fed[w] \in Nat, pos[w] \in Nat,
           fed[w] < pos[w], pos[w] <= FrameLen(arg[w])
    PROVE  /\ RawUnits(w) \in 0..N
           /\ RawUnits(w) + Decoded(arg[w], fed[w]) = Decoded(arg[w], pos[w])
           /\ RawUnits(w) > 0 => RawStart(w) \in 2..(N + 2)
           /\ RawUnits(w) > 0 => RawStart(w) + RawUnits(w) <= N + 2
<1> DEFINE b == arg[w]
<1>1. b \in Blocks
  BY BlockStoreAssumption
<1>2. PayLast(b) = N + 2 /\ FrameLen(b) = N + 3 /\ N \in Nat /\ N >= 3
  BY <1>1, Lengths
<1>3. QED
  BY <1>1, <1>2 DEF Decoded, RawUnits, RawStart

LEMMA TypeNext == Basic /\ [Next]_vars => TypeOK'
<1> SUFFICES ASSUME Basic, [Next]_vars PROVE TypeOK'
  OBVIOUS
<1> USE Lengths DEF TypeOK, Goto, fileVars, writerVars, readerVars, historyVars
<1>0. TypeOK /\ FileInv /\ ReaderInv
  BY DEF Basic
<1>1. ASSUME NEW w \in Workers, NEW b \in Blocks, DumpBlock(w, b) \/ QueryBlock(w, b)
      PROVE TypeOK'
  <2>1. pc' \in [Workers -> Pc] /\ arg' \in [Workers -> Blocks]
    BY <1>0, <1>1 DEF DumpBlock, QueryBlock, Pc
  <2>2. QED
    BY <1>0, <1>1, <2>1 DEF DumpBlock, QueryBlock
<1>2. ASSUME NEW w \in Workers, Create(w) PROVE TypeOK'
  <2>1. pc' \in [Workers -> Pc]
    BY <1>0, <1>2 DEF Create, Pc, WriterPc
  <2>2. len' \in [Blocks -> 0..(N + 3)] /\ has' \in [Blocks -> SUBSET (1..(N + 3))]
    BY <1>0, <1>2 DEF Create
  <2>3. handed' \in [Workers -> 0..(N + 3)] /\ off' \in [Workers -> 0..(N + 3)]
    BY <1>0, <1>2 DEF Create
  <2>4. /\ files' \subseteq Blocks /\ damaged' \subseteq Blocks /\ contended' \subseteq Blocks
        /\ quiet' \subseteq Workers /\ bad' \in [Workers -> BOOLEAN]
    BY <1>0, <1>2 DEF Create
  <2>5. UNCHANGED <<arg, readerVars, acked>>
    BY <1>2 DEF Create
  <2>6. QED
    BY <1>0, <2>1, <2>2, <2>3, <2>4, <2>5
<1>3. ASSUME NEW w \in Workers, OpenFails(w) \/ NoSuchBlock(w) PROVE TypeOK'
  BY <1>0, <1>3 DEF OpenFails, NoSuchBlock, Pc
<1>4. ASSUME NEW w \in Workers, CompressBegin(w) \/ CompressUpdate(w) \/ CompressEnd(w)
      PROVE TypeOK'
  <2>1. PayLast(arg[w]) \in 0..(N + 3) /\ FrameLen(arg[w]) \in 0..(N + 3) /\ 1 \in 0..(N + 3)
    BY <1>0
  <2>2. CASE CompressBegin(w)
    BY <1>0, <2>1, <2>2 DEF CompressBegin, Hand, Pc, WriterPc
  <2>3. CASE CompressUpdate(w)
    BY <1>0, <2>1, <2>3 DEF CompressUpdate, Hand, Pc, WriterPc
  <2>4. CASE CompressEnd(w)
    BY <1>0, <2>1, <2>4 DEF CompressEnd, Hand, Pc, WriterPc
  <2>5. QED
    BY <1>4, <2>2, <2>3, <2>4
<1>5. ASSUME NEW w \in Workers, NEW upto \in 1..(N + 3), Flush(w, upto) PROVE TypeOK'
  <2>1. has' \in [Blocks -> SUBSET (1..(N + 3))]
    <3>1. arg[w] \in Blocks /\ off[w] \in 0..(N + 3) /\ has \in [Blocks -> SUBSET (1..(N + 3))]
      BY <1>0
    <3>2. (off[w] + 1)..upto \subseteq 1..(N + 3)
      BY <3>1
    <3>3. has' = [has EXCEPT ![arg[w]] = @ \cup (off[w] + 1)..upto]
      BY <1>5 DEF Flush
    <3>4. QED
      BY <3>1, <3>2, <3>3
  <2>2. len' \in [Blocks -> 0..(N + 3)] /\ off' \in [Workers -> 0..(N + 3)]
    BY <1>0, <1>5 DEF Flush
  <2>3. QED
    BY <1>0, <1>5, <2>1, <2>2 DEF Flush
<1>6. ASSUME NEW w \in Workers, WriteFails(w) \/ CompressFails(w) PROVE TypeOK'
  BY <1>0, <1>6 DEF WriteFails, CompressFails, Pc
<1>7. ASSUME NEW w \in Workers, Close(w) PROVE TypeOK'
  BY <1>0, <1>7 DEF Close, Pc
<1>8. ASSUME NEW w \in Workers, Open(w) PROVE TypeOK'
  <2>0. Zero \in [1..N -> Unit]
    BY DEF Zero, Unit
  <2>1. out' \in [Workers -> [1..N -> Unit]]
    BY <1>0, <1>8, <2>0 DEF Open
  <2>2. pc' \in [Workers -> Pc]
    BY <1>0, <1>8 DEF Open, Pc, ReaderPc
  <2>3. seen' \in [Workers -> SUBSET (1..(N + 3))] /\ pos' \in [Workers -> 0..(N + 3)]
    BY <1>0, <1>8 DEF Open
  <2>4. /\ fed' \in [Workers -> 0..(N + 3)] /\ wr' \in [Workers -> 0..N]
        /\ eof' \in [Workers -> BOOLEAN] /\ quiet' \subseteq Workers
    BY <1>0, <1>8 DEF Open
  <2>5. UNCHANGED <<fileVars, arg, writerVars, acked, damaged, contended>>
    BY <1>8 DEF Open
  <2>6. QED
    BY <1>0, <2>1, <2>2, <2>3, <2>4, <2>5
<1>9. ASSUME NEW w \in Workers, NEW upto \in 1..(N + 3), ReadSome(w, upto) PROVE TypeOK'
  <2>1. seen' \in [Workers -> SUBSET (1..(N + 3))]
    BY <1>0, <1>9 DEF ReadSome
  <2>2. pos' \in [Workers -> 0..(N + 3)]
    BY <1>0, <1>9 DEF ReadSome
  <2>3. pc' \in [Workers -> Pc]
    BY <1>0, <1>9 DEF ReadSome, Pc, ReaderPc
  <2>4. QED
    BY <1>0, <1>9, <2>1, <2>2, <2>3 DEF ReadSome
<1>10. ASSUME NEW w \in Workers, ReadEof(w) PROVE TypeOK'
  BY <1>0, <1>10 DEF ReadEof, Pc, ReaderPc
<1>11. ASSUME NEW w \in Workers, DecompressRaw(w) PROVE TypeOK'
  <2>1. fed' \in [Workers -> 0..(N + 3)] /\ pc' \in [Workers -> Pc]
    BY <1>0, <1>11 DEF DecompressRaw, AfterDecompress, Pc, ReaderPc
  <2>2. /\ fed[w] < pos[w] /\ pos[w] <= FrameLen(arg[w])
        /\ wr[w] = Decoded(arg[w], fed[w]) /\ arg[w] \in Raw
    BY <1>0, <1>11 DEF ReaderInv, DecompressRaw, ReaderPc
  <2>a. /\ RawUnits(w) \in 0..N
        /\ RawUnits(w) + Decoded(arg[w], fed[w]) = Decoded(arg[w], pos[w])
        /\ RawUnits(w) > 0 => /\ RawStart(w) \in 2..(N + 2)
                              /\ RawStart(w) + RawUnits(w) <= N + 2
    BY <1>0, <2>2, RawCounts
  <2>3. wr' \in [Workers -> 0..N]
    <3>1. wr[w] + RawUnits(w) = Decoded(arg[w], pos[w])
      BY <1>0, <2>2, <2>a
    <3>2. Decoded(arg[w], pos[w]) \in 0..N
      BY <1>0, DecodedCounts
    <3>3. QED
      BY <1>0, <1>11, <3>1, <3>2 DEF DecompressRaw
  <2>4. out' \in [Workers -> [1..N -> Unit]]
    <3>1. ASSUME NEW j \in 1..N, j <= RawUnits(w) PROVE RawUnit(w, RawStart(w) + j) \in Unit
      <4>1. RawStart(w) + j \in 2..(N + 2)
        BY <2>a, <3>1
      <4>2. QED
        BY <4>1 DEF RawUnit, Unit
    <3>2. [j \in 1..N |-> IF j <= RawUnits(w) THEN RawUnit(w, RawStart(w) + j) ELSE out[w][j]]
            \in [1..N -> Unit]
      BY <1>0, <3>1
    <3>3. QED
      BY <1>0, <1>11, <3>2 DEF DecompressRaw
  <2>5. QED
    BY <1>0, <1>11, <2>1, <2>3, <2>4 DEF DecompressRaw, AfterDecompress
<1>12. ASSUME NEW w \in Workers, DecompressPart(w) PROVE TypeOK'
  BY <1>0, <1>12 DEF DecompressPart, AfterDecompress, Pc, ReaderPc
<1>13. ASSUME NEW w \in Workers, DecompressBlock(w) PROVE TypeOK'
  <2>1. Whole \in [1..N -> Unit] /\ Garbled \in [1..N -> Unit] /\ N \in 0..N
    BY DEF Whole, Garbled, Unit
  <2>2. fed' \in [Workers -> 0..(N + 3)] /\ pc' \in [Workers -> Pc]
    BY <1>0, <1>13 DEF DecompressBlock, AfterDecompress, Pc, ReaderPc
  <2>3. wr' \in [Workers -> 0..N] /\ out' \in [Workers -> [1..N -> Unit]]
    BY <1>0, <1>13, <2>1 DEF DecompressBlock
  <2>4. QED
    BY <1>0, <1>13, <2>2, <2>3 DEF DecompressBlock, AfterDecompress
<1>14. ASSUME NEW w \in Workers, DecompressError(w) PROVE TypeOK'
  BY <1>0, <1>14 DEF DecompressError, Pc
<1>15. ASSUME NEW w \in Workers, Finish(w) PROVE TypeOK'
  BY <1>0, <1>15 DEF Finish, Pc
<1>16. ASSUME NEW W \in SUBSET Workers, Forget(W), UNCHANGED <<fileVars, arg, contended>>,
              acked' \subseteq Blocks, damaged' \subseteq Blocks
       PROVE TypeOK'
  <2>1. Zero \in [1..N -> Unit] /\ 0 \in 0..(N + 3) /\ 0 \in 0..N
    BY DEF Zero, Unit
  <2>2. /\ pc' \in [Workers -> Pc] /\ handed' \in [Workers -> 0..(N + 3)]
        /\ off' \in [Workers -> 0..(N + 3)] /\ bad' \in [Workers -> BOOLEAN]
    BY <1>0, <1>16, <2>1 DEF Forget, Pc
  <2>3. /\ pos' \in [Workers -> 0..(N + 3)] /\ seen' \in [Workers -> SUBSET (1..(N + 3))]
        /\ fed' \in [Workers -> 0..(N + 3)] /\ eof' \in [Workers -> BOOLEAN]
    BY <1>0, <1>16, <2>1 DEF Forget
  <2>4. wr' \in [Workers -> 0..N] /\ out' \in [Workers -> [1..N -> Unit]]
    BY <1>0, <1>16, <2>1 DEF Forget
  <2>5. QED
    BY <1>0, <1>16, <2>2, <2>3, <2>4 DEF Forget
<1>17. ASSUME NEW w \in Workers, Reply(w) PROVE TypeOK'
  BY <1>0, <1>16, <1>17 DEF Reply
<1>18. CASE Crash
  BY <1>0, <1>16, <1>18 DEF Crash
<1>19. CASE UNCHANGED vars
  BY <1>0, <1>19 DEF vars
<1>20. QED
  BY <1>1, <1>2, <1>3, <1>4, <1>5, <1>6, <1>7, <1>8, <1>9, <1>10, <1>11, <1>12,
     <1>13, <1>14, <1>15, <1>17, <1>18, <1>19 DEF Next, Handler, Write, Read

LEMMA WriterNext == Basic /\ [Next]_vars => WriterInv' /\ FileInv' /\ AckedInv'
<1> SUFFICES ASSUME Basic, [Next]_vars PROVE WriterInv' /\ FileInv' /\ AckedInv'
  OBVIOUS
<1> USE Lengths DEF TypeOK, Goto, fileVars, writerVars, readerVars, historyVars,
        WriterInv, AckedInv, FileInv
<1>0. TypeOK /\ WriterInv /\ FileInv /\ AckedInv
  BY DEF Basic
<1>1. ASSUME NEW w \in Workers, NEW b \in Blocks, DumpBlock(w, b) \/ QueryBlock(w, b)
      PROVE WriterInv' /\ FileInv' /\ AckedInv'
  <2>1. /\ pc'[w] \in {"create", "open"} /\ UNCHANGED <<fileVars, writerVars, acked>>
        /\ \A v \in Workers \ {w} : pc'[v] = pc[v] /\ arg'[v] = arg[v]
    BY <1>0, <1>1 DEF DumpBlock, QueryBlock, historyVars
  <2>2. QED
    BY <1>0, <2>1 DEF WriterPc
<1>2. ASSUME NEW w \in Workers, Create(w) PROVE WriterInv' /\ FileInv' /\ AckedInv'
  <2>0. /\ len' = [len EXCEPT ![arg[w]] = 0] /\ has' = [has EXCEPT ![arg[w]] = {}]
        /\ files \subseteq files' /\ acked' = acked
    BY <1>2 DEF Create
  <2>1. FileInv' /\ AckedInv'
    <3>1. AckedInv'
      BY <1>0, <2>0
    <3>2. ASSUME NEW b \in Blocks
          PROVE  \/ len'[b] = 0 /\ has'[b] = {}
                 \/ len'[b] = len[b] /\ has'[b] = has[b]
      BY <1>0, <2>0
    <3>3. ASSUME NEW b \in Blocks PROVE len'[b] <= FrameLen(b) /\ has'[b] \subseteq 1..len'[b]
      <4>1. len[b] <= FrameLen(b) /\ has[b] \subseteq 1..len[b] /\ 0 <= FrameLen(b)
        BY <1>0
      <4>2. QED
        BY <3>2, <4>1
    <3>4. QED
      BY <3>1, <3>3
  <2>2. WriterInv'
    <3>1. /\ pc' = [pc EXCEPT ![w] = "begin"] /\ files' = files \cup {arg[w]}
          /\ handed' = [handed EXCEPT ![w] = 0] /\ off' = [off EXCEPT ![w] = 0]
          /\ UNCHANGED arg
      BY <1>2 DEF Create
    <3>2. ASSUME NEW v \in Workers, v # w PROVE WriterInv!(v)'
      BY <1>0, <3>1, <3>2 DEF WriterPc
    <3>3. WriterInv!(w)'
      BY <1>0, <3>1 DEF WriterPc
    <3>4. QED
      BY <3>2, <3>3
  <2>3. QED
    BY <2>1, <2>2
<1>3. ASSUME NEW w \in Workers, OpenFails(w) \/ NoSuchBlock(w) \/ Open(w) \/ ReadEof(w)
                                \/ DecompressError(w) \/ Finish(w)
      PROVE WriterInv' /\ FileInv' /\ AckedInv'
  <2>1. /\ UNCHANGED <<fileVars, arg, writerVars, acked>>
        /\ \E label \in ReaderPc \cup {"error", "found"} : pc' = [pc EXCEPT ![w] = label]
    BY <1>3 DEF OpenFails, NoSuchBlock, Open, ReadEof, DecompressError, Finish, ReaderPc
  <2>2. QED
    BY <1>0, <2>1 DEF WriterPc, ReaderPc
<1>4. ASSUME NEW w \in Workers, CompressBegin(w) \/ CompressUpdate(w) \/ CompressEnd(w)
      PROVE WriterInv' /\ FileInv' /\ AckedInv'
  <2>1. CASE CompressBegin(w)
    BY <1>0, <2>1 DEF CompressBegin, Hand, WriterPc
  <2>2. CASE CompressUpdate(w)
    BY <1>0, <2>2 DEF CompressUpdate, Hand, WriterPc
  <2>3. CASE CompressEnd(w)
    BY <1>0, <2>3 DEF CompressEnd, Hand, WriterPc
  <2>4. QED
    BY <1>4, <2>1, <2>2, <2>3
<1>5. ASSUME NEW w \in Workers, NEW upto \in 1..(N + 3), Flush(w, upto)
      PROVE WriterInv' /\ FileInv' /\ AckedInv'
  <2>1. WriterInv' /\ AckedInv'
    BY <1>0, <1>5 DEF Flush, WriterPc
  <2>2. upto <= FrameLen(arg[w])
    BY <1>0, <1>5 DEF Flush, WriterPc
  <2>3. len' = [len EXCEPT ![arg[w]] = IF upto > @ THEN upto ELSE @]
    BY <1>5 DEF Flush
  <2>4. has' = [has EXCEPT ![arg[w]] = @ \cup (off[w] + 1)..upto]
    BY <1>5 DEF Flush
  <2>5. ASSUME NEW b \in Blocks PROVE len[b]' <= FrameLen(b)
    BY <1>0, <2>2, <2>3
  <2>6. ASSUME NEW b \in Blocks PROVE has[b]' \subseteq 1..len[b]'
    <3>1. CASE b # arg[w]
      BY <1>0, <2>3, <2>4, <3>1
    <3>2. CASE b = arg[w]
      <4>1. len'[b] >= upto /\ len'[b] >= len[b] /\ len'[b] \in Nat /\ len[b] \in Nat
        BY <1>0, <2>3, <3>2
      <4>2. has'[b] = has[b] \cup (off[w] + 1)..upto /\ off[w] \in Nat
        BY <1>0, <2>4, <3>2
      <4>3. has[b] \subseteq 1..len[b]
        BY <1>0
      <4>4. QED
        BY <4>1, <4>2, <4>3
    <3>3. QED
      BY <3>1, <3>2
  <2>7. QED
    BY <2>1, <2>5, <2>6
<1>6. ASSUME NEW w \in Workers, WriteFails(w) \/ CompressFails(w)
      PROVE WriterInv' /\ FileInv' /\ AckedInv'
  BY <1>0, <1>6 DEF WriteFails, CompressFails, WriterPc
<1>7. ASSUME NEW w \in Workers, Close(w) PROVE WriterInv' /\ FileInv' /\ AckedInv'
  BY <1>0, <1>7 DEF Close, WriterPc
<1>8. ASSUME NEW w \in Workers, NEW upto \in 1..(N + 3), ReadSome(w, upto)
      PROVE WriterInv' /\ FileInv' /\ AckedInv'
  BY <1>0, <1>8 DEF ReadSome, WriterPc
<1>9. ASSUME NEW w \in Workers, DecompressRaw(w) \/ DecompressPart(w) \/ DecompressBlock(w)
      PROVE WriterInv' /\ FileInv' /\ AckedInv'
  <2>1. AfterDecompress(w) /\ UNCHANGED historyVars
    BY <1>9 DEF DecompressRaw, DecompressPart, DecompressBlock, AfterDecompress
  <2>2. QED
    BY <1>0, <2>1 DEF AfterDecompress, WriterPc
<1>10. ASSUME NEW W \in SUBSET Workers, Forget(W), UNCHANGED <<fileVars, arg>>,
              acked' \subseteq files
       PROVE WriterInv' /\ FileInv' /\ AckedInv'
  BY <1>0, <1>10 DEF Forget, WriterPc
<1>11. ASSUME NEW w \in Workers, Reply(w) PROVE WriterInv' /\ FileInv' /\ AckedInv'
  <2>1. acked' \subseteq files
    BY <1>0, <1>11 DEF Reply
  <2>2. QED
    BY <1>10, <1>11, <2>1 DEF Reply
<1>12. CASE Crash
  BY <1>0, <1>10, <1>12 DEF Crash
<1>13. CASE UNCHANGED vars
  BY <1>0, <1>13 DEF vars
<1>14. QED
  BY <1>1, <1>2, <1>3, <1>4, <1>5, <1>6, <1>7, <1>8, <1>9, <1>11, <1>12, <1>13
  DEF Next, Handler, Write, Read

LEMMA ReaderNext == Basic /\ [Next]_vars => ReaderInv'
<1> SUFFICES ASSUME Basic, [Next]_vars PROVE ReaderInv'
  OBVIOUS
<1> USE Lengths DEF TypeOK, Goto, fileVars, writerVars, readerVars, historyVars, ReaderInv
<1>0. TypeOK /\ FileInv /\ ReaderInv
  BY DEF Basic
<1>1. ASSUME NEW w \in Workers, UNCHANGED <<pos, fed, wr>>,
             \A v \in Workers \ {w} : pc'[v] = pc[v] /\ arg'[v] = arg[v],
             pc'[w] \notin ReaderPc \cup {"found"}
      PROVE ReaderInv'
  BY <1>0, <1>1 DEF ReaderPc
<1>2. ASSUME NEW w \in Workers, Write(w) PROVE ReaderInv'
  <2>1. UNCHANGED <<pos, fed, wr, arg>>
    BY <1>2 DEF Write, Create, CompressBegin, CompressUpdate, CompressEnd, Hand, Flush, Close
  <2>2. \E label \in Pc \ (ReaderPc \cup {"found"}) : pc' = [pc EXCEPT ![w] = label]
    <3>1. CASE \E upto \in 1..(N + 3) : Flush(w, upto)
      <4>1. pc[w] \in WriterPc /\ UNCHANGED pc
        BY <3>1 DEF Flush
      <4>2. pc' = [pc EXCEPT ![w] = pc[w]]
        BY <1>0, <4>1
      <4>3. QED
        BY <4>1, <4>2 DEF Pc, WriterPc, ReaderPc
    <3>2. QED
      BY <1>2, <3>1 DEF Write, Create, CompressBegin, CompressUpdate, CompressEnd, Hand,
         Close, Pc, WriterPc, ReaderPc
  <2>3. QED
    BY <1>0, <1>1, <2>1, <2>2
<1>3. ASSUME NEW w \in Workers, NEW b \in Blocks, DumpBlock(w, b) \/ QueryBlock(w, b)
      PROVE ReaderInv'
  BY <1>0, <1>1, <1>3 DEF DumpBlock, QueryBlock, ReaderPc
<1>4. ASSUME NEW w \in Workers, OpenFails(w) \/ NoSuchBlock(w) \/ DecompressError(w)
                                \/ CompressFails(w)
      PROVE ReaderInv'
  BY <1>0, <1>1, <1>4 DEF OpenFails, NoSuchBlock, DecompressError, CompressFails, ReaderPc
<1>5. ASSUME NEW w \in Workers, WriteFails(w) PROVE ReaderInv'
  BY <1>0, <1>5 DEF WriteFails
<1>6. ASSUME NEW w \in Workers, Open(w) PROVE ReaderInv'
  <2>1. Decoded(arg[w], 0) = 0
    BY <1>0, DecodedCounts
  <2>2. QED
    BY <1>0, <1>6, <2>1 DEF Open, ReaderPc
<1>7. ASSUME NEW w \in Workers, NEW upto \in 1..(N + 3), ReadSome(w, upto) PROVE ReaderInv'
  <2>1. upto <= FrameLen(arg[w])
    <3>1. upto <= len[arg[w]]
      BY <1>7 DEF ReadSome
    <3>2. arg[w] \in Blocks /\ len[arg[w]] \in Nat
      BY <1>0
    <3>3. len[arg[w]] <= FrameLen(arg[w])
      BY <1>0, <3>2 DEF FileInv
    <3>4. QED
      BY <3>1, <3>2, <3>3
  <2>2. /\ pos' = [pos EXCEPT ![w] = upto] /\ UNCHANGED <<arg, fed, wr>>
        /\ pc' = [pc EXCEPT ![w] = IF upto = fed[w] + N THEN "decompress" ELSE "fill"]
        /\ pc[w] = "fill" /\ pos[w] < upto /\ upto <= fed[w] + N
    BY <1>7 DEF ReadSome
  <2>3. ASSUME NEW v \in Workers, v # w PROVE ReaderInv!(v)'
    <3>1. pc'[v] = pc[v] /\ pos'[v] = pos[v] /\ arg'[v] = arg[v]
      BY <1>0, <2>2, <2>3
    <3>2. fed'[v] = fed[v] /\ wr'[v] = wr[v]
      BY <2>2
    <3>3. ReaderInv!(v)
      BY <1>0
    <3>4. QED
      BY <3>1, <3>2, <3>3
  <2>4. ReaderInv!(w)'
    <3>1. /\ pos'[w] = upto /\ arg'[w] = arg[w] /\ fed'[w] = fed[w] /\ wr'[w] = wr[w]
          /\ pc'[w] = IF upto = fed[w] + N THEN "decompress" ELSE "fill"
      BY <1>0, <2>2
    <3>2. fed[w] < FrameLen(arg[w]) /\ wr[w] = Decoded(arg[w], fed[w]) /\ fed[w] <= pos[w]
      BY <1>0, <2>2 DEF ReaderPc
    <3>3. fed[w] \in Nat /\ pos[w] \in Nat /\ arg[w] \in Blocks
      BY <1>0
    <3>4. QED
      BY <2>1, <2>2, <3>1, <3>2, <3>3
  <2>5. QED
    BY <2>3, <2>4
<1>8. ASSUME NEW w \in Workers, ReadEof(w) PROVE ReaderInv'
  <2>1. /\ UNCHANGED <<arg, pos, fed, wr>> /\ pc[w] = "fill"
        /\ pc' = [pc EXCEPT ![w] = IF pos[w] = fed[w] THEN "finish" ELSE "decompress"]
    BY <1>8 DEF ReadEof
  <2>2. ASSUME NEW v \in Workers, v # w PROVE ReaderInv!(v)'
    BY <1>0, <2>1, <2>2 DEF ReaderPc
  <2>3. ReaderInv!(w)'
    BY <1>0, <2>1 DEF ReaderPc
  <2>4. QED
    BY <2>2, <2>3
<1>9. ASSUME NEW w \in Workers, AfterDecompress(w), pc[w] = "decompress",
             wr' = [wr EXCEPT ![w] = Decoded(arg[w], pos[w])]
      PROVE ReaderInv'
  <2>1. /\ fed' = [fed EXCEPT ![w] = pos[w]] /\ UNCHANGED <<arg, pos>>
        /\ pc' = [pc EXCEPT ![w] = IF pos[w] = FrameLen(arg[w]) THEN "finish" ELSE "fill"]
    BY <1>9 DEF AfterDecompress
  <2>2. QED
    BY <1>0, <1>9, <2>1 DEF ReaderPc
<1>10. ASSUME NEW w \in Workers, DecompressRaw(w) PROVE ReaderInv'
  <2>1. /\ pc[w] = "decompress" /\ arg[w] \in Raw /\ AfterDecompress(w)
        /\ wr' = [wr EXCEPT ![w] = @ + RawUnits(w)]
    BY <1>10 DEF DecompressRaw
  <2>2. fed[w] < pos[w] /\ pos[w] <= FrameLen(arg[w]) /\ wr[w] = Decoded(arg[w], fed[w])
    BY <1>0, <2>1 DEF ReaderPc
  <2>3. RawUnits(w) + Decoded(arg[w], fed[w]) = Decoded(arg[w], pos[w]) /\ RawUnits(w) \in 0..N
    BY <1>0, <2>1, <2>2, RawCounts
  <2>4. wr[w] + RawUnits(w) = Decoded(arg[w], pos[w])
    BY <1>0, <2>2, <2>3
  <2>5. wr' = [wr EXCEPT ![w] = Decoded(arg[w], pos[w])]
    BY <2>1, <2>4
  <2>6. QED
    BY <1>9, <2>1, <2>5
<1>11. ASSUME NEW w \in Workers, DecompressPart(w) PROVE ReaderInv'
  <2>1. /\ pc[w] = "decompress" /\ arg[w] \notin Raw /\ AfterDecompress(w)
        /\ PayLast(arg[w]) \notin Chunk(w) /\ wr' = wr
    BY <1>11 DEF DecompressPart
  <2>2. wr[w] = Decoded(arg[w], fed[w])
    BY <1>0, <2>1 DEF ReaderPc
  <2>3. Decoded(arg[w], pos[w]) = Decoded(arg[w], fed[w])
    BY <1>0, <2>1 DEF Decoded, Chunk
  <2>4. wr' = [wr EXCEPT ![w] = Decoded(arg[w], pos[w])]
    BY <1>0, <2>1, <2>2, <2>3
  <2>5. QED
    BY <1>9, <2>1, <2>4
<1>12. ASSUME NEW w \in Workers, DecompressBlock(w) PROVE ReaderInv'
  <2>1. /\ pc[w] = "decompress" /\ arg[w] \notin Raw /\ AfterDecompress(w)
        /\ PayLast(arg[w]) \in Chunk(w) /\ wr' = [wr EXCEPT ![w] = N]
    BY <1>12 DEF DecompressBlock
  <2>2. Decoded(arg[w], pos[w]) = N
    BY <1>0, <2>1 DEF Decoded, Chunk
  <2>3. QED
    BY <1>9, <2>1, <2>2
<1>13. ASSUME NEW w \in Workers, Finish(w) PROVE ReaderInv'
  BY <1>0, <1>13 DEF Finish, ReaderPc
<1>14. ASSUME NEW W \in SUBSET Workers, Forget(W), UNCHANGED arg PROVE ReaderInv'
  BY <1>0, <1>14 DEF Forget, ReaderPc
<1>15. CASE Crash \/ \E w \in Workers : Reply(w)
  BY <1>14, <1>15 DEF Crash, Reply
<1>16. CASE UNCHANGED vars
  BY <1>0, <1>16 DEF vars
<1>17. QED
  BY <1>2, <1>3, <1>4, <1>5, <1>6, <1>7, <1>8, <1>10, <1>11, <1>12, <1>13, <1>15, <1>16
  DEF Next, Handler, Read

(* Every reachable state is well typed and its writers' and readers'       *)
(* indices are in order.                                                   *)
LEMMA BasicHolds == Spec => []Basic
<1>1. Basic /\ [Next]_vars => Basic'
  BY TypeNext, WriterNext, ReaderNext DEF Basic
<1>2. QED
  BY BasicInit, <1>1, PTL DEF Spec

(* Every reachable state is well typed: in particular wr_off never    *)
(* passes BLOCK_SIZE,                                                      *)
(* so the copy at file_access.cpp:49 stays inside its array.               *)
THEOREM TypeCorrect == Spec => []TypeOK
<1>1. Basic => TypeOK
  BY DEF Basic
<1>2. QED
  BY BasicHolds, <1>1, PTL
-----------------------------------------------------------------------------
(* Acknowledged blocks.                                                    *)
LEMMA CoveredNext == Basic /\ Covered /\ [Next]_vars => Covered'
<1> SUFFICES ASSUME Basic, Covered, [Next]_vars PROVE Covered'
  OBVIOUS
<1> USE Lengths DEF Goto, fileVars, writerVars, readerVars, historyVars
<1>0. TypeOK /\ WriterInv
  BY DEF Basic
<1>1. ASSUME UNCHANGED files, damaged \subseteq damaged',
             \A b \in Blocks : has[b] \subseteq has'[b],
             \A b \in Blocks, v \in Workers :
                v \in Writers(b) /\ ~bad[v] /\ b \notin damaged'
                   => v \in Writers(b)' /\ ~bad'[v] /\ off'[v] = off[v]
      PROVE Covered'
  BY <1>0, <1>1 DEF Covered, TypeOK
<1>2. ASSUME NEW w \in Workers, UNCHANGED <<files, has, arg, off, bad, damaged>>,
             NEW label \in Pc, pc' = [pc EXCEPT ![w] = label],
             pc[w] \in WriterPc => label \in WriterPc
      PROVE Covered'
  BY <1>0, <1>1, <1>2 DEF Writers, TypeOK
<1>3. ASSUME NEW w \in Workers, NEW b \in Blocks, DumpBlock(w, b) \/ QueryBlock(w, b)
      PROVE Covered'
  BY <1>0, <1>1, <1>3 DEF DumpBlock, QueryBlock, Writers, WriterPc, TypeOK
<1>4. ASSUME NEW w \in Workers, NEW c \in Blocks, c = arg[w], Create(w) PROVE Covered'
  <2>1. /\ files' = files \cup {c} /\ has' = [has EXCEPT ![c] = {}]
        /\ off' = [off EXCEPT ![w] = 0] /\ bad' = [bad EXCEPT ![w] = FALSE]
        /\ pc' = [pc EXCEPT ![w] = "begin"] /\ pc[w] = "create" /\ UNCHANGED arg
        /\ damaged' = damaged \ {c}
    BY <1>4 DEF Create
  <2>2. w \in Writers(c)' /\ ~bad'[w] /\ off'[w] = 0
    BY <1>0, <1>4, <2>1 DEF Writers, WriterPc, TypeOK
  <2>3. ASSUME NEW b \in files' \ damaged', NEW i \in 1..FrameLen(b)
        PROVE  i \in has'[b] \/ \E v \in Workers : v \in Writers(b)' /\ ~bad'[v] /\ off'[v] < i
    <3>1. CASE b = c
      BY <2>2, <2>3, <3>1
    <3>2. CASE b # c
      <4>1. b \in files \ damaged /\ has'[b] = has[b] /\ b \in Blocks
        BY <1>0, <2>1, <2>3, <3>2 DEF TypeOK
      <4>2. ASSUME NEW v \in Workers, v \in Writers(b)
            PROVE  v \in Writers(b)' /\ bad'[v] = bad[v] /\ off'[v] = off[v]
        BY <1>0, <2>1, <4>2 DEF Writers, WriterPc, TypeOK
      <4>3. QED
        BY <4>1, <4>2 DEF Covered
    <3>3. QED
      BY <3>1, <3>2
  <2>4. QED
    BY <2>3 DEF Covered
<1>5. ASSUME NEW w \in Workers, CompressBegin(w) \/ CompressUpdate(w) \/ CompressEnd(w)
      PROVE Covered'
  <2>1. \E label \in WriterPc : pc' = [pc EXCEPT ![w] = label]
    BY <1>5 DEF CompressBegin, CompressUpdate, CompressEnd, Hand, WriterPc
  <2>2. UNCHANGED <<files, has, arg, off, bad, damaged>>
    BY <1>5 DEF CompressBegin, CompressUpdate, CompressEnd, Hand
  <2>3. QED
    BY <1>2, <2>1, <2>2 DEF Pc
<1>6. ASSUME NEW w \in Workers, NEW upto \in 1..(N + 3), Flush(w, upto) PROVE Covered'
  <2>1. /\ off' = [off EXCEPT ![w] = upto]
        /\ has' = [has EXCEPT ![arg[w]] = @ \cup (off[w] + 1)..upto]
        /\ UNCHANGED <<files, pc, arg, bad, damaged>>
    BY <1>6 DEF Flush
  <2>2. ASSUME NEW b \in files \ damaged, NEW i \in 1..FrameLen(b)
        PROVE  i \in has'[b] \/ \E v \in Workers : v \in Writers(b)' /\ ~bad'[v] /\ off'[v] < i
    <3>1. b \in Blocks /\ i \in Nat /\ has[b] \subseteq has'[b]
      BY <1>0, <2>1, <2>2 DEF TypeOK
    <3>2. Writers(b)' = Writers(b)
      BY <2>1 DEF Writers
    <3>3. CASE i \in has[b]
      BY <3>1, <3>3
    <3>4. ASSUME NEW v \in Workers, v \in Writers(b), ~bad[v], off[v] < i
          PROVE i \in has'[b] \/ (v \in Writers(b)' /\ ~bad'[v] /\ off'[v] < i)
      <4>1. CASE v = w /\ i <= upto
        <5>1. b = arg[w] /\ off[w] \in Nat
          BY <1>0, <3>4, <4>1 DEF Writers, TypeOK
        <5>2. i \in (off[w] + 1)..upto
          BY <3>1, <3>4, <4>1, <5>1
        <5>3. (off[w] + 1)..upto \subseteq has'[b]
          BY <1>0, <2>1, <3>1, <5>1 DEF TypeOK
        <5>4. QED
          BY <5>2, <5>3
      <4>2. CASE v = w /\ ~(i <= upto)
        BY <1>0, <2>1, <3>1, <3>2, <3>4, <4>2 DEF TypeOK
      <4>3. CASE v # w
        BY <1>0, <2>1, <3>2, <3>4, <4>3 DEF TypeOK
      <4>4. QED
        BY <4>1, <4>2, <4>3
    <3>5. QED
      BY <2>2, <3>3, <3>4 DEF Covered
  <2>3. QED
    BY <2>1, <2>2 DEF Covered
<1>7. ASSUME NEW w \in Workers, WriteFails(w) PROVE Covered'
  BY <1>0, <1>1, <1>7 DEF WriteFails, Writers, TypeOK
<1>8. ASSUME NEW w \in Workers, Close(w) PROVE Covered'
  <2>1. /\ pc[w] = "close" /\ pc' = [pc EXCEPT ![w] = "stored"]
        /\ bad[w] \/ off[w] = FrameLen(arg[w])
        /\ UNCHANGED <<files, has, arg, off, bad, damaged>>
    BY <1>0, <1>8 DEF Close, WriterInv
  <2>2. ASSUME NEW b \in files \ damaged, NEW i \in 1..FrameLen(b), NEW v \in Workers,
               v \in Writers(b), ~bad[v], off[v] < i
        PROVE  v \in Writers(b)'
    <3>1. v # w
      BY <1>0, <2>1, <2>2 DEF Writers, TypeOK
    <3>2. QED
      BY <1>0, <2>1, <2>2, <3>1 DEF Writers, TypeOK
  <2>3. QED
    BY <2>1, <2>2 DEF Covered
<1>c. ASSUME NEW w \in Workers, CompressFails(w) PROVE Covered'
  <2>1. /\ damaged' = damaged \cup {arg[w]} /\ UNCHANGED <<files, has, arg, off, bad>>
        /\ \A v \in Workers \ {w} : pc'[v] = pc[v]
    BY <1>0, <1>c DEF CompressFails, TypeOK
  <2>2. ASSUME NEW b \in files \ damaged', NEW v \in Workers, v \in Writers(b)
        PROVE  v \in Writers(b)'
    <3>1. v # w
      BY <2>1, <2>2 DEF Writers
    <3>2. QED
      BY <2>1, <2>2, <3>1 DEF Writers
  <2>3. QED
    BY <2>1, <2>2 DEF Covered
<1>9. ASSUME NEW w \in Workers, Read(w) \/ OpenFails(w) PROVE Covered'
  <2>1. /\ UNCHANGED <<files, has, arg, off, bad, damaged>>
        /\ pc[w] \notin WriterPc
        /\ \A v \in Workers \ {w} : pc'[v] = pc[v]
    BY <1>0, <1>9 DEF Read, OpenFails, Open, NoSuchBlock, ReadSome, ReadEof, DecompressRaw,
       DecompressPart, DecompressBlock, AfterDecompress, DecompressError, Finish, WriterPc, TypeOK
  <2>2. QED
    BY <1>0, <1>1, <2>1 DEF Writers, TypeOK
<1>10. ASSUME NEW w \in Workers, Reply(w) PROVE Covered'
  BY <1>0, <1>1, <1>10 DEF Reply, Forget, Writers, WriterPc, TypeOK
<1>11. CASE Crash
  <2>1. \A b \in Blocks, v \in Workers : v \in Writers(b) => b \in damaged'
    BY <1>11 DEF Crash
  <2>2. QED
    BY <1>1, <1>11, <2>1 DEF Crash
<1>12. CASE UNCHANGED vars
  BY <1>0, <1>1, <1>12 DEF vars, Writers
<1>13. \A w \in Workers : arg[w] \in Blocks
  BY <1>0 DEF TypeOK
<1>14. QED
  BY <1>3, <1>4, <1>5, <1>6, <1>7, <1>8, <1>c, <1>9, <1>10, <1>11, <1>12, <1>13
  DEF Next, Handler, Write

(* A block acknowledged to a client is on disk, whole, whenever nobody is  *)
(* rewriting it and no write of it was abandoned.                          *)
THEOREM AckedSafe == Spec => []AckedIntact
<1>1. Init => Covered
  BY DEF Init, Covered
<1>2. ASSUME Basic, Covered PROVE AckedIntact
  <2>1. ASSUME NEW b \in acked, Writers(b) = {}, b \notin damaged PROVE Intact(b)
    <3>1. b \in files /\ b \in Blocks
      BY <1>2, <2>1 DEF Basic, AckedInv, TypeOK
    <3>2. 1..FrameLen(b) \subseteq has[b]
      BY <1>2, <2>1, <3>1 DEF Covered
    <3>3. has[b] \subseteq 1..len[b] /\ len[b] <= FrameLen(b) /\ len[b] \in Nat
      BY <1>2, <3>1 DEF Basic, FileInv, TypeOK
    <3>4. FrameLen(b) \in 1..FrameLen(b) /\ FrameLen(b) \in Nat
      BY <3>1, Lengths
    <3>5. len[b] = FrameLen(b)
      BY <3>2, <3>3, <3>4
    <3>6. QED
      BY <3>1, <3>2, <3>3, <3>5 DEF Intact
  <2>2. QED
    BY <2>1 DEF AckedIntact
<1>3. QED
  BY BasicHolds, CoveredNext, <1>1, <1>2, PTL DEF Spec
-----------------------------------------------------------------------------
(* Reads of a file that never had two writers at once.                     *)
LEMMA Intervals ==
    ASSUME NEW m \in Nat, NEW n \in Nat, m <= n
    PROVE  (1..m) \cup ((m + 1)..n) = 1..n
OBVIOUS

LEMMA UncontendedNext == Basic /\ Uncontended /\ [Next]_vars => Uncontended'
<1> SUFFICES ASSUME Basic, Uncontended, [Next]_vars PROVE Uncontended'
  OBVIOUS
<1> USE Lengths DEF Goto, fileVars, writerVars, readerVars, historyVars
<1>0. TypeOK /\ WriterInv
  BY DEF Basic
<1>1. ASSUME UNCHANGED <<len, has>>, contended \subseteq contended',
             \A b \in Blocks : Writers(b)' \subseteq Writers(b),
             \A b \in Blocks : \A v \in Writers(b)' : off'[v] = off[v]
      PROVE Uncontended'
  BY <1>1 DEF Uncontended
<1>2. ASSUME NEW w \in Workers, NEW c \in Blocks, c = arg[w], Create(w) PROVE Uncontended'
  <2>1. /\ len' = [len EXCEPT ![c] = 0] /\ has' = [has EXCEPT ![c] = {}]
        /\ off' = [off EXCEPT ![w] = 0]
        /\ pc' = [pc EXCEPT ![w] = "begin"] /\ pc[w] = "create" /\ UNCHANGED arg
        /\ contended' = IF Writers(c) = {} THEN contended
                        ELSE contended \cup {c}
    BY <1>2 DEF Create
  <2>2. ASSUME NEW b \in Blocks, b # c
        PROVE  /\ Writers(b)' = Writers(b) /\ w \notin Writers(b)
               /\ has'[b] = has[b] /\ len'[b] = len[b]
    BY <1>0, <1>2, <2>1, <2>2 DEF Writers, TypeOK
  <2>3. Writers(c)' = Writers(c) \cup {w}
    BY <1>0, <1>2, <2>1 DEF Writers, WriterPc, TypeOK
  <2>4. has'[c] = {} /\ len'[c] = 0 /\ 1..0 = {} /\ off'[w] = 0
    BY <1>0, <2>1 DEF TypeOK
  <2>5. ASSUME NEW b \in Blocks, b \notin contended', b # c
        PROVE  /\ has'[b] = 1..len'[b]
               /\ \A v \in Writers(b)' : off'[v] = len'[b]
               /\ \A v, u \in Writers(b)' : v = u
    <3>1. \A v \in Writers(b) : off'[v] = off[v]
      BY <1>0, <2>1, <2>2, <2>5 DEF Writers, TypeOK
    <3>2. b \notin contended
      BY <2>1, <2>5
    <3>3. QED
      BY <2>2, <2>5, <3>1, <3>2 DEF Uncontended
  <2>6. ASSUME c \notin contended'
        PROVE  /\ has'[c] = 1..len'[c]
               /\ \A v \in Writers(c)' : off'[v] = len'[c]
               /\ \A v, u \in Writers(c)' : v = u
    <3>1. Writers(c)' = {w}
      BY <2>1, <2>3, <2>6
    <3>2. QED
      BY <2>4, <3>1
  <2>7. QED
    BY <2>5, <2>6 DEF Uncontended
<1>3. ASSUME NEW w \in Workers, NEW upto \in 1..(N + 3), Flush(w, upto) PROVE Uncontended'
  <2>1. /\ off' = [off EXCEPT ![w] = upto] /\ off[w] < upto
        /\ len' = [len EXCEPT ![arg[w]] = IF upto > @ THEN upto ELSE @]
        /\ has' = [has EXCEPT ![arg[w]] = @ \cup (off[w] + 1)..upto]
        /\ UNCHANGED <<pc, arg, contended>> /\ w \in Writers(arg[w])
    BY <1>3 DEF Flush, Writers
  <2>2. \A b : Writers(b)' = Writers(b)
    BY <2>1 DEF Writers
  <2>3. ASSUME NEW b \in Blocks \ contended
        PROVE  /\ has'[b] = 1..len'[b]
               /\ \A v \in Writers(b)' : off'[v] = len'[b]
               /\ \A v, u \in Writers(b)' : v = u
    <3>1. /\ has[b] = 1..len[b]
          /\ \A v \in Writers(b) : off[v] = len[b]
          /\ \A v, u \in Writers(b) : v = u
      BY DEF Uncontended
    <3>2. CASE b = arg[w]
      <4>1. Writers(b) = {w} /\ off[w] = len[b] /\ len[b] \in Nat
        BY <1>0, <2>1, <3>1, <3>2 DEF TypeOK
      <4>2. len'[b] = upto /\ off'[w] = upto
        BY <1>0, <2>1, <3>2, <4>1 DEF TypeOK
      <4>3. has'[b] = has[b] \cup (off[w] + 1)..upto
        BY <1>0, <2>1, <3>2 DEF TypeOK
      <4>4. (1..len[b]) \cup ((len[b] + 1)..upto) = 1..upto
        <5>1. len[b] \in Nat /\ upto \in Nat /\ len[b] <= upto
          BY <2>1, <4>1
        <5>2. QED
          BY <5>1, Intervals
      <4>5. QED
        BY <2>2, <3>1, <4>1, <4>2, <4>3, <4>4
    <3>3. CASE b # arg[w]
      <4>1. has'[b] = has[b] /\ len'[b] = len[b] /\ w \notin Writers(b)
        BY <1>0, <2>1, <3>3 DEF Writers, TypeOK
      <4>2. \A v \in Writers(b) : off'[v] = off[v]
        BY <1>0, <2>1, <4>1 DEF Writers, TypeOK
      <4>3. QED
        BY <2>2, <3>1, <4>1, <4>2
    <3>4. QED
      BY <3>2, <3>3
  <2>4. QED
    BY <2>1, <2>3 DEF Uncontended
<1>4. ASSUME NEW w \in Workers, CompressBegin(w) \/ CompressUpdate(w) \/ CompressEnd(w)
      PROVE Uncontended'
  <2>1. /\ \E label \in WriterPc : pc' = [pc EXCEPT ![w] = label]
        /\ pc[w] \in WriterPc /\ UNCHANGED <<len, has, arg, off, contended>>
    BY <1>4 DEF CompressBegin, CompressUpdate, CompressEnd, Hand, WriterPc
  <2>2. QED
    BY <1>0, <1>1, <2>1 DEF Writers, TypeOK
<1>5. ASSUME NEW w \in Workers, NEW b \in Blocks, DumpBlock(w, b) \/ QueryBlock(w, b)
      PROVE Uncontended'
  BY <1>0, <1>1, <1>5 DEF DumpBlock, QueryBlock, Writers, WriterPc, TypeOK
<1>6. ASSUME NEW w \in Workers, Close(w) \/ Read(w) \/ OpenFails(w) \/ CompressFails(w)
      PROVE Uncontended'
  <2>1. UNCHANGED <<len, has, arg, off, contended>>
    BY <1>6 DEF Close, Read, OpenFails, CompressFails, Open, NoSuchBlock, ReadSome, ReadEof, DecompressRaw,
       DecompressPart, DecompressBlock, AfterDecompress, DecompressError, Finish
  <2>2. \E label \in ReaderPc \cup {"stored", "found", "error"} : pc' = [pc EXCEPT ![w] = label]
    <3>1. CASE Close(w) \/ OpenFails(w) \/ CompressFails(w)
      BY <3>1 DEF Close, OpenFails, CompressFails
    <3>2. CASE Read(w)
      BY <3>2 DEF Read, Open, NoSuchBlock, ReadSome, ReadEof, DecompressRaw, DecompressPart,
         DecompressBlock, AfterDecompress, DecompressError, Finish, ReaderPc
    <3>3. QED
      BY <1>6, <3>1, <3>2
  <2>3. pc'[w] \notin WriterPc /\ \A v \in Workers \ {w} : pc'[v] = pc[v]
    BY <1>0, <2>2 DEF TypeOK, ReaderPc, WriterPc
  <2>4. QED
    BY <1>0, <1>1, <2>1, <2>3 DEF Writers, TypeOK
<1>7. ASSUME NEW w \in Workers, WriteFails(w) PROVE Uncontended'
  BY <1>1, <1>7 DEF WriteFails, Writers
<1>8. ASSUME NEW W \in SUBSET Workers, Forget(W), UNCHANGED <<fileVars, arg, contended>>
      PROVE Uncontended'
  BY <1>0, <1>1, <1>8 DEF Forget, Writers, WriterPc, TypeOK
<1>9. CASE Crash \/ \E w \in Workers : Reply(w)
  BY <1>8, <1>9 DEF Crash, Reply
<1>10. CASE UNCHANGED vars
  BY <1>1, <1>10 DEF vars, Writers
<1>11. \A w \in Workers : arg[w] \in Blocks
  BY <1>0 DEF TypeOK
<1>12. QED
  BY <1>2, <1>3, <1>4, <1>5, <1>6, <1>7, <1>9, <1>10, <1>11 DEF Next, Handler, Write

LEMMA ReadExactNext == Basic /\ Uncontended /\ ReadExact /\ [Next]_vars => ReadExact'
<1> SUFFICES ASSUME Basic, Uncontended, ReadExact, [Next]_vars PROVE ReadExact'
  OBVIOUS
<1> USE Lengths DEF Goto, fileVars, writerVars, readerVars, historyVars
<1>0. TypeOK /\ ReaderInv /\ FileInv
  BY DEF Basic
<1>1. ASSUME contended \subseteq contended',
             \A v \in Workers : pc'[v] \in ReaderPc \cup {"found"} =>
                /\ pc[v] \in ReaderPc \cup {"found"} /\ arg'[v] = arg[v]
                /\ seen'[v] = seen[v] /\ pos'[v] = pos[v]
                /\ wr'[v] = wr[v] /\ out'[v] = out[v]
      PROVE ReadExact'
  BY <1>1 DEF ReadExact
<1>2. ASSUME NEW w \in Workers, Write(w) PROVE ReadExact'
  <2>1. UNCHANGED <<readerVars, arg>> /\ contended \subseteq contended'
    BY <1>2 DEF Write, Create, CompressBegin, CompressUpdate, CompressEnd, Hand, Flush, Close
  <2>2. \A v \in Workers : pc'[v] \in ReaderPc \cup {"found"} => pc'[v] = pc[v]
    BY <1>0, <1>2 DEF Write, Create, CompressBegin, CompressUpdate, CompressEnd, Hand, Flush,
       Close, ReaderPc, TypeOK
  <2>3. QED
    BY <1>1, <2>1, <2>2
<1>3. ASSUME NEW w \in Workers, NEW b \in Blocks, DumpBlock(w, b) \/ QueryBlock(w, b)
      PROVE ReadExact'
  BY <1>0, <1>1, <1>3 DEF DumpBlock, QueryBlock, ReaderPc, TypeOK
<1>4. ASSUME NEW w \in Workers, \/ OpenFails(w) \/ NoSuchBlock(w) \/ DecompressError(w)
                                \/ ReadEof(w) \/ Finish(w) \/ CompressFails(w)
      PROVE ReadExact'
  BY <1>0, <1>1, <1>4 DEF OpenFails, NoSuchBlock, DecompressError, ReadEof, Finish,
     CompressFails, ReaderPc, TypeOK
<1>5. ASSUME NEW w \in Workers, WriteFails(w) PROVE ReadExact'
  BY <1>1, <1>5 DEF WriteFails
<1>6. ASSUME NEW w \in Workers, Open(w) PROVE ReadExact'
  <2>1. /\ UNCHANGED <<arg, contended>> /\ \A v \in Workers \ {w} : pc'[v] = pc[v]
        /\ pos' = [pos EXCEPT ![w] = 0] /\ seen' = [seen EXCEPT ![w] = {}]
        /\ wr' = [wr EXCEPT ![w] = 0] /\ out' = [out EXCEPT ![w] = Zero]
    BY <1>0, <1>6 DEF Open, TypeOK
  <2>2. 1..0 = {} /\ N # 0
    OBVIOUS
  <2>3. ASSUME NEW v \in Workers, v # w PROVE ReadExact!(v)'
    BY <1>0, <2>1, <2>3 DEF ReadExact, TypeOK
  <2>4. ReadExact!(w)'
    BY <1>0, <2>1, <2>2 DEF TypeOK
  <2>5. QED
    BY <2>3, <2>4 DEF ReadExact
<1>7. ASSUME NEW w \in Workers, NEW upto \in 1..(N + 3), ReadSome(w, upto) PROVE ReadExact'
  <2>1. /\ UNCHANGED <<arg, wr, out, contended>> /\ pc[w] = "fill"
        /\ pos' = [pos EXCEPT ![w] = upto] /\ pos[w] < upto /\ upto <= len[arg[w]]
        /\ seen' = [seen EXCEPT ![w] = @ \cup (has[arg[w]] \cap (pos[w] + 1)..upto)]
        /\ \A v \in Workers \ {w} : pc'[v] = pc[v]
    BY <1>0, <1>7 DEF ReadSome, TypeOK
  <2>2. ASSUME arg[w] \notin contended PROVE seen'[w] = 1..pos'[w]
    <3>1. seen[w] = 1..pos[w] /\ has[arg[w]] = 1..len[arg[w]]
      BY <1>0, <2>1, <2>2 DEF ReadExact, Uncontended, ReaderPc, TypeOK
    <3>2. pos'[w] = upto /\ seen'[w] = seen[w] \cup (has[arg[w]] \cap (pos[w] + 1)..upto)
      BY <1>0, <2>1 DEF TypeOK
    <3>3. pos[w] \in Nat /\ len[arg[w]] \in Nat
      BY <1>0 DEF TypeOK
    <3>4. has[arg[w]] \cap (pos[w] + 1)..upto = (pos[w] + 1)..upto
      BY <2>1, <3>1, <3>3
    <3>5. (1..pos[w]) \cup ((pos[w] + 1)..upto) = 1..upto
      <4>1. upto \in Nat /\ pos[w] <= upto
        BY <2>1, <3>3
      <4>2. QED
        BY <3>3, <4>1, Intervals
    <3>6. QED
      BY <3>1, <3>2, <3>4, <3>5
  <2>3. ASSUME NEW v \in Workers, v # w PROVE ReadExact!(v)'
    BY <1>0, <2>1, <2>3 DEF ReadExact, TypeOK
  <2>4. ReadExact!(w)'
    BY <1>0, <2>1, <2>2 DEF ReadExact, ReaderPc, TypeOK
  <2>5. QED
    BY <2>3, <2>4 DEF ReadExact
<1>8. ASSUME NEW w \in Workers, AfterDecompress(w), pc[w] = "decompress",
             \A v \in Workers \ {w} : wr'[v] = wr[v] /\ out'[v] = out[v],
             arg[w] \notin Raw /\ arg[w] \notin contended /\ wr'[w] = N => out'[w] = Whole
      PROVE ReadExact'
  <2>1. /\ UNCHANGED <<arg, pos, seen, contended>>
        /\ \A v \in Workers \ {w} : pc'[v] = pc[v]
    BY <1>0, <1>8 DEF AfterDecompress, TypeOK
  <2>2. QED
    BY <1>0, <1>8, <2>1 DEF ReadExact, ReaderPc
<1>9. ASSUME NEW w \in Workers, DecompressRaw(w) PROVE ReadExact'
  BY <1>0, <1>8, <1>9 DEF DecompressRaw, TypeOK
<1>10. ASSUME NEW w \in Workers, DecompressPart(w) PROVE ReadExact'
  BY <1>8, <1>10 DEF DecompressPart, ReadExact, ReaderPc
<1>11. ASSUME NEW w \in Workers, DecompressBlock(w) PROVE ReadExact'
  <2>1. /\ pc[w] = "decompress" /\ AfterDecompress(w) /\ PayLast(arg[w]) \in Chunk(w)
        /\ out'[w] = Whole <=> 3..PayLast(arg[w]) \subseteq seen[w]
    <3>1. PICK block \in {Whole, Garbled} :
             /\ block = Whole <=> 3..PayLast(arg[w]) \subseteq seen[w]
             /\ out' = [out EXCEPT ![w] = block]
      BY <1>11 DEF DecompressBlock
    <3>2. out'[w] = block
      BY <1>0, <3>1 DEF TypeOK
    <3>3. QED
      BY <1>11, <3>1, <3>2 DEF DecompressBlock
  <2>2. \A v \in Workers \ {w} : wr'[v] = wr[v] /\ out'[v] = out[v]
    BY <1>0, <1>11 DEF DecompressBlock, TypeOK
  <2>3. ASSUME arg[w] \notin contended PROVE 3..PayLast(arg[w]) \subseteq seen[w]
    <3>1. seen[w] = 1..pos[w] /\ PayLast(arg[w]) \in Nat /\ pos[w] \in Nat
      BY <1>0, <2>1, <2>3 DEF ReadExact, ReaderPc, TypeOK
    <3>2. QED
      BY <2>1, <3>1 DEF Chunk
  <2>4. QED
    BY <1>8, <2>1, <2>2, <2>3
<1>12. ASSUME NEW W \in SUBSET Workers, Forget(W), UNCHANGED <<arg, contended>>
       PROVE ReadExact'
  BY <1>0, <1>1, <1>12 DEF Forget, ReaderPc, TypeOK
<1>13. CASE Crash \/ \E w \in Workers : Reply(w)
  BY <1>12, <1>13 DEF Crash, Reply
<1>14. CASE UNCHANGED vars
  BY <1>1, <1>14 DEF vars
<1>15. QED
  BY <1>2, <1>3, <1>4, <1>5, <1>6, <1>7, <1>9, <1>10, <1>11, <1>13, <1>14
  DEF Next, Handler, Read

(* A query of a block that LZ4 shrinks answers with the block that was     *)
(* stored, whatever truncations and rewrites happen under the read, as     *)
(* long as no two writers ever had the file open together.                 *)
THEOREM FoundSafe == Spec => []FoundIsWhole
<1>1. Init => Uncontended /\ ReadExact
  <2>1. ASSUME Init PROVE Uncontended
    <3>1. \A b \in Blocks : Writers(b) = {} /\ len[b] = 0 /\ has[b] = {}
      BY <2>1 DEF Init, Writers, WriterPc
    <3>2. 1..0 = {}
      OBVIOUS
    <3>3. QED
      BY <3>1, <3>2 DEF Uncontended
  <2>2. ASSUME Init PROVE ReadExact
    BY <2>2 DEF Init, ReadExact, ReaderPc
  <2>3. QED
    BY <2>1, <2>2
<1>2. Basic /\ ReadExact => FoundIsWhole
  BY DEF Basic, ReaderInv, ReadExact, FoundIsWhole
<1>3. QED
  BY BasicHolds, UncontendedNext, ReadExactNext, <1>1, <1>2, PTL DEF Spec
-----------------------------------------------------------------------------
(* A writer's write(2) leaves an entire file as it is: it writes the units *)
(* that are there already.                                                 *)
LEMMA FlushKeeps ==
    ASSUME Basic, NEW w \in Workers, NEW upto \in 1..(N + 3), Flush(w, upto),
           NEW b \in Blocks, Intact(b)
    PROVE  Intact(b)'
<1> USE Lengths
<1>0. TypeOK /\ WriterInv
  BY DEF Basic
<1>1. upto <= FrameLen(arg[w]) /\ off[w] \in Nat
  <2>1. /\ pc[w] \in WriterPc /\ upto <= handed[w] /\ arg[w] \in Blocks
        /\ off[w] \in Nat /\ handed[w] \in Nat
    BY <1>0 DEF Flush, TypeOK
  <2>2. handed[w] \in {0, 1, PayLast(arg[w]), FrameLen(arg[w])}
    BY <1>0, <2>1 DEF WriterInv, WriterPc
  <2>3. QED
    BY <2>1, <2>2
<1>2. /\ len' = [len EXCEPT ![arg[w]] = IF upto > @ THEN upto ELSE @]
      /\ has' = [has EXCEPT ![arg[w]] = @ \cup (off[w] + 1)..upto]
      /\ UNCHANGED files
  BY DEF Flush
<1>3. CASE b = arg[w]
  <2>1. len'[b] = len[b] /\ has'[b] = has[b] \cup (off[w] + 1)..upto
    BY <1>0, <1>1, <1>2, <1>3 DEF Intact, TypeOK
  <2>2. (off[w] + 1)..upto \subseteq 1..FrameLen(b)
    BY <1>1, <1>3
  <2>3. has'[b] = has[b]
    BY <2>1, <2>2 DEF Intact
  <2>4. QED
    BY <1>2, <2>1, <2>3 DEF Intact
<1>4. CASE b # arg[w]
  BY <1>0, <1>2, <1>4 DEF Intact, TypeOK
<1>5. QED
  BY <1>3, <1>4

(* Reads of a file that stays whole.                                       *)
LEMMA QuietNext == Basic /\ QuietInv /\ [Next]_vars => QuietInv'
<1> SUFFICES ASSUME Basic, QuietInv, [Next]_vars PROVE QuietInv'
  OBVIOUS
<1> USE Lengths DEF Goto, fileVars, writerVars, readerVars, historyVars
<1>0. TypeOK /\ ReaderInv /\ FileInv /\ WriterInv
  BY DEF Basic
<1>1. ASSUME \A b \in Blocks : Intact(b) /\ (\E v \in quiet' : arg[v] = b) => Intact(b)',
             \A v \in quiet' :
                /\ v \in quiet /\ arg'[v] = arg[v] /\ pc'[v] = pc[v] /\ fed'[v] = fed[v]
                /\ seen'[v] = seen[v] /\ pos'[v] = pos[v] /\ eof'[v] = eof[v]
      PROVE QuietInv'
  BY <1>0, <1>1 DEF QuietInv, TypeOK
<1>2. ASSUME NEW w \in Workers, Write(w) PROVE QuietInv'
  <2>1. UNCHANGED <<readerVars, arg>> /\ quiet' \subseteq quiet
    BY <1>2 DEF Write, Create, CompressBegin, CompressUpdate, CompressEnd, Hand, Flush, Close
  <2>2. w \notin quiet /\ \A v \in Workers \ {w} : pc'[v] = pc[v]
    BY <1>0, <1>2 DEF QuietInv, Write, Create, CompressBegin, CompressUpdate, CompressEnd, Hand,
       Flush, Close, ReaderPc, WriterPc, TypeOK
  <2>3. ASSUME NEW b \in Blocks, Intact(b), NEW v \in quiet', arg[v] = b PROVE Intact(b)'
    <3>1. CASE Create(w)
      BY <1>0, <2>3, <3>1 DEF Create, Intact, TypeOK
    <3>2. ASSUME NEW upto \in 1..(N + 3), Flush(w, upto) PROVE Intact(b)'
      BY <2>3, <3>2, FlushKeeps
    <3>3. CASE CompressBegin(w) \/ CompressUpdate(w) \/ CompressEnd(w) \/ Close(w)
      BY <2>3, <3>3 DEF CompressBegin, CompressUpdate, CompressEnd, Hand, Close, Intact
    <3>4. QED
      BY <1>2, <3>1, <3>2, <3>3 DEF Write
  <2>4. QED
    BY <1>0, <1>1, <2>1, <2>2, <2>3 DEF TypeOK
<1>3. ASSUME UNCHANGED <<fileVars, arg>>, NEW w \in Workers, quiet' \subseteq quiet,
             w \notin quiet', UNCHANGED <<pos, seen, fed, eof>>,
             \A v \in Workers \ {w} : pc'[v] = pc[v]
      PROVE QuietInv'
  BY <1>0, <1>1, <1>3 DEF Intact, TypeOK
<1>4. ASSUME NEW w \in Workers, NEW b \in Blocks, DumpBlock(w, b) \/ QueryBlock(w, b)
      PROVE QuietInv'
  <2>1. w \notin quiet
    BY <1>4 DEF DumpBlock, QueryBlock, QuietInv, ReaderPc
  <2>2. \A v \in Workers \ {w} : pc'[v] = pc[v] /\ arg'[v] = arg[v]
    BY <1>0, <1>4 DEF DumpBlock, QueryBlock, TypeOK
  <2>3. UNCHANGED <<fileVars, readerVars, quiet>>
    BY <1>4 DEF DumpBlock, QueryBlock
  <2>4. \A v \in quiet' : v \in Workers \ {w}
    BY <1>0, <2>1, <2>3 DEF TypeOK
  <2>5. QED
    BY <1>1, <2>2, <2>3, <2>4 DEF Intact
<1>5. ASSUME NEW w \in Workers, OpenFails(w) \/ NoSuchBlock(w) \/ CompressFails(w)
      PROVE QuietInv'
  <2>1. w \notin quiet
    BY <1>5 DEF OpenFails, NoSuchBlock, CompressFails, QuietInv, ReaderPc
  <2>2. QED
    BY <1>0, <1>3, <1>5, <2>1 DEF OpenFails, NoSuchBlock, CompressFails, TypeOK
<1>6. ASSUME NEW w \in Workers, DecompressError(w) PROVE QuietInv'
  <2>1. ASSUME w \in quiet PROVE FALSE
    <3>1. /\ seen[w] = 1..pos[w] /\ fed[w] \in Nat /\ pos[w] \in Nat
          /\ PayLast(arg[w]) \in Nat
      BY <1>0, <2>1 DEF QuietInv, TypeOK
    <3>2. Chunk(w) \subseteq seen[w]
      BY <3>1 DEF Chunk
    <3>3. PayLast(arg[w]) \in Chunk(w) => 3..PayLast(arg[w]) \subseteq seen[w]
      BY <3>1 DEF Chunk
    <3>4. QED
      BY <1>6, <3>2, <3>3 DEF DecompressError, HeadersOk
  <2>2. QED
    BY <1>0, <1>3, <1>6, <2>1 DEF DecompressError, TypeOK
<1>7. ASSUME NEW w \in Workers, WriteFails(w) PROVE QuietInv'
  BY <1>1, <1>7 DEF WriteFails, Intact
<1>8. ASSUME NEW w \in Workers, Open(w) PROVE QuietInv'
  <2>1. /\ UNCHANGED <<fileVars, arg>> /\ \A v \in Workers \ {w} : pc'[v] = pc[v]
        /\ pc'[w] = "fill" /\ pos' = [pos EXCEPT ![w] = 0] /\ seen' = [seen EXCEPT ![w] = {}]
        /\ fed' = [fed EXCEPT ![w] = 0] /\ eof' = [eof EXCEPT ![w] = FALSE]
        /\ quiet' = IF Intact(arg[w]) THEN quiet \cup {w} ELSE quiet
    BY <1>0, <1>8 DEF Open, TypeOK
  <2>2. w \notin quiet
    BY <1>8 DEF Open, QuietInv, ReaderPc
  <2>3. 1..0 = {} /\ \A b : Intact(b)' = Intact(b)
    BY <2>1 DEF Intact
  <2>4. ASSUME NEW v \in quiet', v # w PROVE QuietInv!(v)'
    BY <1>0, <2>1, <2>3, <2>4 DEF QuietInv, Intact, TypeOK
  <2>5. ASSUME w \in quiet' PROVE QuietInv!(w)'
    BY <1>0, <2>1, <2>2, <2>3, <2>5 DEF TypeOK, ReaderPc, Intact
  <2>6. QED
    BY <2>4, <2>5 DEF QuietInv
<1>9. ASSUME NEW w \in Workers, UNCHANGED <<fileVars, arg, quiet>>,
             \A v \in Workers \ {w} : /\ pc'[v] = pc[v] /\ fed'[v] = fed[v] /\ eof'[v] = eof[v]
                                      /\ seen'[v] = seen[v] /\ pos'[v] = pos[v],
             w \in quiet => /\ pc'[w] \in ReaderPc \cup {"found"}
                            /\ seen'[w] = 1..pos'[w]
                            /\ pc'[w] = "finish" => fed'[w] = FrameLen(arg[w])
                            /\ eof'[w] => pos'[w] = FrameLen(arg[w])
      PROVE QuietInv'
  <2>1. \A v \in quiet : Intact(arg[v])' /\ arg'[v] = arg[v]
    BY <1>0, <1>9 DEF QuietInv, Intact
  <2>2. \A v \in quiet \ {w} : v \in Workers
    BY <1>0 DEF TypeOK
  <2>3. QED
    BY <1>0, <1>9, <2>1, <2>2 DEF QuietInv
<1>10. ASSUME NEW w \in Workers, NEW upto \in 1..(N + 3), ReadSome(w, upto) PROVE QuietInv'
  <2>1. /\ UNCHANGED <<fileVars, arg, quiet, fed, eof>> /\ pc'[w] \in {"fill", "decompress"}
        /\ ~eof[w] /\ pos[w] < upto /\ upto <= len[arg[w]]
        /\ pos' = [pos EXCEPT ![w] = upto]
        /\ seen' = [seen EXCEPT ![w] = @ \cup (has[arg[w]] \cap (pos[w] + 1)..upto)]
        /\ \A v \in Workers \ {w} : pc'[v] = pc[v]
    BY <1>0, <1>10 DEF ReadSome, TypeOK
  <2>2. ASSUME w \in quiet PROVE seen'[w] = 1..pos'[w]
    <3>1. /\ seen[w] = 1..pos[w] /\ has[arg[w]] = 1..len[arg[w]]
          /\ pos[w] \in Nat /\ len[arg[w]] \in Nat /\ upto \in Nat /\ pos[w] <= upto
      BY <1>0, <2>1, <2>2 DEF QuietInv, Intact, TypeOK
    <3>2. pos'[w] = upto /\ seen'[w] = seen[w] \cup (has[arg[w]] \cap (pos[w] + 1)..upto)
      BY <1>0, <2>1 DEF TypeOK
    <3>3. has[arg[w]] \cap (pos[w] + 1)..upto = (pos[w] + 1)..upto
      BY <2>1, <3>1
    <3>4. (1..pos[w]) \cup ((pos[w] + 1)..upto) = 1..upto
      BY <3>1, Intervals
    <3>5. QED
      BY <3>1, <3>2, <3>3, <3>4
  <2>3. QED
    BY <1>0, <1>9, <2>1, <2>2 DEF TypeOK, ReaderPc
<1>11. ASSUME NEW w \in Workers, ReadEof(w) PROVE QuietInv'
  <2>1. /\ UNCHANGED <<fileVars, arg, quiet, fed, pos, seen>> /\ pc[w] = "fill"
        /\ pc' = [pc EXCEPT ![w] = IF pos[w] = fed[w] THEN "finish" ELSE "decompress"]
        /\ eof[w] \/ pos[w] >= len[arg[w]]
        /\ eof' = [eof EXCEPT ![w] = TRUE]
    BY <1>11 DEF ReadEof
  <2>2. ASSUME w \in quiet PROVE pos[w] = FrameLen(arg[w]) /\ fed[w] < pos[w]
    <3>1. /\ len[arg[w]] = FrameLen(arg[w]) /\ fed[w] < FrameLen(arg[w])
          /\ pos[w] <= FrameLen(arg[w]) /\ (eof[w] => pos[w] = FrameLen(arg[w]))
      BY <1>0, <2>1, <2>2 DEF QuietInv, Intact, ReaderInv, ReaderPc
    <3>2. pos[w] \in Nat /\ FrameLen(arg[w]) \in Nat
      BY <1>0 DEF TypeOK
    <3>3. QED
      BY <2>1, <3>1, <3>2
  <2>3. w \in quiet => pc'[w] = "decompress" /\ seen[w] = 1..pos[w]
    BY <1>0, <2>1, <2>2 DEF QuietInv, TypeOK
  <2>4. QED
    BY <1>0, <1>9, <2>1, <2>2, <2>3 DEF TypeOK, ReaderPc
<1>12. ASSUME NEW w \in Workers, DecompressRaw(w) \/ DecompressPart(w) \/ DecompressBlock(w)
       PROVE QuietInv'
  <2>1. AfterDecompress(w) /\ pc[w] = "decompress"
    BY <1>12 DEF DecompressRaw, DecompressPart, DecompressBlock
  <2>2. /\ UNCHANGED <<fileVars, arg, quiet, eof, pos, seen>>
        /\ pc' = [pc EXCEPT ![w] = IF pos[w] = FrameLen(arg[w]) THEN "finish" ELSE "fill"]
        /\ fed' = [fed EXCEPT ![w] = pos[w]]
    BY <2>1 DEF AfterDecompress
  <2>3. w \in quiet => seen[w] = 1..pos[w] /\ (eof[w] => pos[w] = FrameLen(arg[w]))
    BY DEF QuietInv
  <2>4. QED
    BY <1>0, <1>9, <2>2, <2>3 DEF TypeOK, ReaderPc
<1>13. ASSUME NEW w \in Workers, Finish(w) PROVE QuietInv'
  <2>1. /\ UNCHANGED <<fileVars, arg, quiet, eof, pos, seen, fed>> /\ pc[w] = "finish"
        /\ pc' = [pc EXCEPT ![w] = IF wr[w] = N THEN "found" ELSE "error"]
    BY <1>13 DEF Finish
  <2>2. ASSUME w \in quiet PROVE wr[w] = N
    BY <1>0, <2>1, <2>2, DecodedCounts DEF QuietInv, ReaderInv, ReaderPc, TypeOK
  <2>3. w \in quiet => seen[w] = 1..pos[w] /\ (eof[w] => pos[w] = FrameLen(arg[w]))
    BY DEF QuietInv
  <2>4. QED
    BY <1>0, <1>9, <2>1, <2>2, <2>3 DEF TypeOK, ReaderPc
<1>14. ASSUME NEW W \in SUBSET Workers, Forget(W), UNCHANGED <<fileVars, arg>> PROVE QuietInv'
  <2>1. \A v \in quiet' :
          /\ v \in quiet /\ pc'[v] = pc[v] /\ fed'[v] = fed[v]
          /\ seen'[v] = seen[v] /\ pos'[v] = pos[v] /\ eof'[v] = eof[v]
    BY <1>0, <1>14 DEF Forget, TypeOK
  <2>2. QED
    BY <1>1, <1>14, <2>1 DEF Intact
<1>15. CASE Crash \/ \E w \in Workers : Reply(w)
  BY <1>14, <1>15 DEF Crash, Reply
<1>16. CASE UNCHANGED vars
  BY <1>1, <1>16 DEF vars, Intact
<1>17. QED
  BY <1>2, <1>4, <1>5, <1>6, <1>7, <1>8, <1>10, <1>11, <1>12, <1>13, <1>15, <1>16
  DEF Next, Handler, Read

(* A query of a file that is whole from the open to the end of the read is *)
(* never answered with an error of the decoder or of the size assertion.   *)
THEOREM QuietSafe == Spec => []QuietReadFinds
<1>1. Init => QuietInv
  BY DEF Init, QuietInv
<1>2. QuietInv => QuietReadFinds
  BY DEF QuietInv, QuietReadFinds, ReaderPc
<1>3. QED
  BY BasicHolds, QuietNext, <1>1, <1>2, PTL DEF Spec
-----------------------------------------------------------------------------
(* What takes an entire block away.                                        *)
Rewritten(b) == \E w \in Workers : pc[w] = "create" /\ arg[w] = b /\ pc'[w] = "begin"

LEMMA IntactStep ==
    ASSUME Basic, [Next]_vars, NEW b \in Blocks, Intact(b), ~Intact(b)'
    PROVE  Rewritten(b)
<1>1. ASSUME UNCHANGED fileVars PROVE FALSE
  BY <1>1 DEF fileVars, Intact
<1>2. ASSUME NEW w \in Workers, Create(w) PROVE Rewritten(b)
  <2>1. arg[w] = b
    BY <1>2 DEF Create, Intact, Basic, TypeOK
  <2>2. pc[w] = "create" /\ pc'[w] = "begin"
    BY <1>2 DEF Create, Goto, Basic, TypeOK
  <2>3. QED
    BY <2>1, <2>2 DEF Rewritten
<1>3. ASSUME NEW w \in Workers, NEW upto \in 1..(N + 3), Flush(w, upto) PROVE FALSE
  BY <1>3, FlushKeeps
<1>4. ASSUME NEW w \in Workers, Write(w) PROVE Rewritten(b)
  BY <1>1, <1>2, <1>3, <1>4
  DEF Write, CompressBegin, CompressUpdate, CompressEnd, Hand, Close
<1>5. ASSUME NEW w \in Workers, Read(w) \/ Reply(w) PROVE UNCHANGED fileVars
  BY <1>5 DEF Read, Open, NoSuchBlock, ReadSome, ReadEof, DecompressRaw, DecompressPart,
     DecompressBlock, DecompressError, AfterDecompress, Finish, Reply
<1>6. ASSUME NEW w \in Workers,
             \/ \E c \in Blocks : DumpBlock(w, c) \/ QueryBlock(w, c)
             \/ OpenFails(w) \/ CompressFails(w) \/ WriteFails(w)
      PROVE  UNCHANGED fileVars
  BY <1>6 DEF DumpBlock, QueryBlock, OpenFails, CompressFails, WriteFails
<1>7. Crash \/ UNCHANGED vars => UNCHANGED fileVars
  BY DEF Crash, vars, fileVars
<1>8. QED
  BY <1>1, <1>4, <1>5, <1>6, <1>7 DEF Next, Handler

(* Nothing but a new truncation by a writer of the same block takes away a *)
(* block that is entire on disk.                                           *)
THEOREM LossIsRewrite == Spec => LostOnlyToRewrite
<1>1. Basic /\ [Next]_vars =>
        [\A b \in Blocks : Intact(b) /\ ~Intact(b)' =>
           \E w \in Workers : pc[w] = "create" /\ arg[w] = b /\ pc'[w] = "begin"]_vars
  BY IntactStep DEF Rewritten
<1>2. QED
  BY BasicHolds, <1>1, PTL DEF Spec, LostOnlyToRewrite
-----------------------------------------------------------------------------
(***************************************************************************)
(* BlockStore is a register for each name (BlockStoreRegister).  The       *)
(* reader's loop ends at the end of the frame or of the file, and it reads *)
(* a file that exists.                                                     *)
(***************************************************************************)
LoopInv ==
    \A w \in Workers :
        /\ pc[w] \in ReaderPc => arg[w] \in files
        /\ pc[w] = "finish" => /\ fed[w] = pos[w]
                               /\ eof[w] \/ pos[w] = FrameLen(arg[w])

LEMMA LoopNext == Basic /\ LoopInv /\ [Next]_vars => LoopInv'
<1> SUFFICES ASSUME Basic, LoopInv, [Next]_vars PROVE LoopInv'
  OBVIOUS
<1> USE DEF Goto, fileVars, readerVars
<1>0. TypeOK
  BY DEF Basic
<1>1. ASSUME NEW w \in Workers, files \subseteq files', UNCHANGED arg,
             \A v \in Workers \ {w} : /\ pc'[v] = pc[v] /\ fed'[v] = fed[v]
                                      /\ pos'[v] = pos[v] /\ eof'[v] = eof[v],
             pc'[w] \in ReaderPc => arg[w] \in files,
             pc'[w] = "finish" => /\ fed'[w] = pos'[w]
                                  /\ eof'[w] \/ pos'[w] = FrameLen(arg[w])
      PROVE  LoopInv'
  <2>1. ASSUME NEW v \in Workers, v # w PROVE LoopInv!(v)'
    BY <1>1, <2>1 DEF LoopInv
  <2>2. LoopInv!(w)'
    BY <1>1
  <2>3. QED
    BY <2>1, <2>2 DEF LoopInv
<1>2. ASSUME NEW w \in Workers, files \subseteq files', UNCHANGED <<arg, readerVars>>,
             pc'[w] \notin ReaderPc, \A v \in Workers \ {w} : pc'[v] = pc[v]
      PROVE  LoopInv'
  BY <1>1, <1>2 DEF ReaderPc
<1>3. ASSUME NEW w \in Workers, NEW b \in Blocks, DumpBlock(w, b) \/ QueryBlock(w, b)
      PROVE  LoopInv'
  <2>1. /\ UNCHANGED <<files, readerVars>> /\ pc'[w] \in {"create", "open"}
        /\ \A v \in Workers \ {w} : pc'[v] = pc[v] /\ arg'[v] = arg[v]
    BY <1>0, <1>3 DEF DumpBlock, QueryBlock, TypeOK
  <2>2. QED
    BY <2>1 DEF LoopInv, ReaderPc
<1>4. ASSUME NEW w \in Workers, Create(w) \/ OpenFails(w) \/ NoSuchBlock(w) \/ CompressBegin(w)
              \/ CompressUpdate(w) \/ CompressEnd(w) \/ Close(w) \/ DecompressError(w) \/ Finish(w)
              \/ CompressFails(w)
      PROVE  LoopInv'
  <2>1. \E label \in {"begin", "error", "update", "end", "close", "stored", "found"} :
          pc' = [pc EXCEPT ![w] = label]
    BY <1>4 DEF Create, OpenFails, NoSuchBlock, CompressBegin, CompressUpdate, CompressEnd, Hand,
       Close, CompressFails, DecompressError, Finish
  <2>2. pc'[w] \notin ReaderPc /\ \A v \in Workers \ {w} : pc'[v] = pc[v]
    BY <1>0, <2>1 DEF TypeOK, ReaderPc
  <2>3. files \subseteq files' /\ UNCHANGED <<arg, readerVars>>
    BY <1>4 DEF Create, OpenFails, NoSuchBlock, CompressBegin, CompressUpdate, CompressEnd, Hand,
       Close, CompressFails, DecompressError, Finish
  <2>4. QED
    BY <1>2, <2>2, <2>3
<1>5. ASSUME NEW w \in Workers, (\E upto \in 1..(N + 3) : Flush(w, upto)) \/ WriteFails(w)
      PROVE  LoopInv'
  <2>1. UNCHANGED <<files, pc, arg, readerVars>>
    BY <1>5 DEF Flush, WriteFails
  <2>2. QED
    BY <2>1 DEF LoopInv
<1>6. ASSUME NEW w \in Workers, Open(w) PROVE LoopInv'
  <2>1. /\ UNCHANGED <<files, arg>> /\ arg[w] \in files /\ pc'[w] = "fill"
        /\ \A v \in Workers \ {w} : /\ pc'[v] = pc[v] /\ fed'[v] = fed[v]
                                    /\ pos'[v] = pos[v] /\ eof'[v] = eof[v]
    BY <1>0, <1>6 DEF Open, TypeOK
  <2>2. QED
    BY <1>1, <2>1
<1>7. ASSUME NEW w \in Workers, NEW upto \in 1..(N + 3), ReadSome(w, upto) PROVE LoopInv'
  <2>1. /\ UNCHANGED <<files, arg, fed, eof>> /\ pc[w] = "fill" /\ pc'[w] # "finish"
        /\ \A v \in Workers \ {w} : pc'[v] = pc[v] /\ pos'[v] = pos[v]
    BY <1>0, <1>7 DEF ReadSome, TypeOK
  <2>2. QED
    BY <1>1, <2>1 DEF LoopInv, ReaderPc
<1>8. ASSUME NEW w \in Workers, ReadEof(w) PROVE LoopInv'
  <2>1. /\ UNCHANGED <<files, arg, fed, pos>> /\ pc[w] = "fill" /\ eof'[w]
        /\ pc'[w] = IF pos[w] = fed[w] THEN "finish" ELSE "decompress"
        /\ \A v \in Workers \ {w} : pc'[v] = pc[v] /\ eof'[v] = eof[v]
    BY <1>0, <1>8 DEF ReadEof, TypeOK
  <2>2. QED
    BY <1>1, <2>1 DEF LoopInv, ReaderPc
<1>9. ASSUME NEW w \in Workers, DecompressRaw(w) \/ DecompressPart(w) \/ DecompressBlock(w)
      PROVE  LoopInv'
  <2>1. AfterDecompress(w) /\ pc[w] = "decompress"
    BY <1>9 DEF DecompressRaw, DecompressPart, DecompressBlock
  <2>2. /\ UNCHANGED <<files, arg, eof, pos>> /\ fed'[w] = pos[w]
        /\ pc'[w] = IF pos[w] = FrameLen(arg[w]) THEN "finish" ELSE "fill"
        /\ \A v \in Workers \ {w} : pc'[v] = pc[v] /\ fed'[v] = fed[v]
    BY <1>0, <2>1 DEF AfterDecompress, TypeOK
  <2>3. QED
    BY <1>1, <2>1, <2>2 DEF LoopInv, ReaderPc
<1>10. ASSUME NEW W \in SUBSET Workers, Forget(W), UNCHANGED <<fileVars, arg>> PROVE LoopInv'
  <2>1. \A v \in Workers : \/ pc'[v] = "idle"
                           \/ /\ pc'[v] = pc[v] /\ fed'[v] = fed[v]
                              /\ pos'[v] = pos[v] /\ eof'[v] = eof[v]
    BY <1>10 DEF Forget
  <2>2. QED
    BY <1>10, <2>1 DEF LoopInv, ReaderPc
<1>11. CASE Crash \/ \E w \in Workers : Reply(w)
  BY <1>10, <1>11 DEF Crash, Reply
<1>12. CASE UNCHANGED vars
  BY <1>12 DEF vars, LoopInv
<1>13. QED
  BY <1>3, <1>4, <1>5, <1>6, <1>7, <1>8, <1>9, <1>11, <1>12 DEF Next, Handler, Write, Read

(* Why was[w] is enough to answer: it has the moment at hand, one at which *)
(* the block was held if the reader has met the end of its payload, and one*)
(* at which it was not if it has met the end of the file before.           *)
Seen(w) ==
    /\ (arg[w] \in Held) \in was[w]
    /\ pc[w] \in ReaderPc /\ PayLast(arg[w]) <= pos[w] => TRUE \in was[w]
    /\ pc[w] \in ReaderPc /\ eof[w] /\ pos[w] < PayLast(arg[w]) => FALSE \in was[w]

WasOf(w) == IF Reading(w) THEN Seen(w) ELSE was[w] = {}

WasInv ==
    /\ was \in [Workers -> SUBSET BOOLEAN]
    /\ \A w \in Workers : WasOf(w)
    /\ \A w \in refused : pc[w] = "error"

LEMMA WasInit == RegisterInit => WasInv
BY DEF RegisterInit, Init, RememberInit, WasInv, WasOf, Reading, ReaderPc

(* What Remember makes of the history of one worker, and of the types.     *)
LEMMA Remembers ==
    ASSUME WasInv, Remember
    PROVE  /\ was' \in [Workers -> SUBSET BOOLEAN]
           /\ \A w \in refused' : pc'[w] = "error"
           /\ \A w \in Workers :
                 was'[w] = IF Reading(w)' THEN was[w] \cup {(arg[w] \in Held)'} ELSE {}
<1>1. ASSUME NEW w \in Workers
      PROVE  (IF Reading(w)' THEN was[w] \cup {(arg[w] \in Held)'} ELSE {}) \in SUBSET BOOLEAN
  <2>1. was[w] \in SUBSET BOOLEAN
    BY DEF WasInv
  <2>2. (arg[w] \in Held)' = TRUE \/ (arg[w] \in Held)' = FALSE
    OBVIOUS
  <2>3. {(arg[w] \in Held)'} \subseteq BOOLEAN
    BY <2>2
  <2>4. QED
    BY <2>1, <2>3
<1>2. was' = [w \in Workers |->
                IF Reading(w)' THEN was[w] \cup {(arg[w] \in Held)'} ELSE {}]
  BY DEF Remember
<1>3. \A w \in refused' : pc'[w] = "error"
  BY DEF Remember
<1>4. QED
  BY <1>1, <1>2, <1>3

(* The others' files may change, names may become void: a worker that is   *)
(* where it was keeps what it has seen.                                    *)
LEMMA Onlooker ==
    ASSUME WasInv, Remember, NEW v \in Workers, Void \subseteq Void',
           pc'[v] = pc[v], arg'[v] = arg[v], pos'[v] = pos[v], eof'[v] = eof[v]
    PROVE  WasOf(v)'
<1>1. was'[v] = IF Reading(v)' THEN was[v] \cup {(arg[v] \in Held)'} ELSE {}
  BY Remembers
<1>2. CASE ~Reading(v)'
  BY <1>1, <1>2 DEF WasOf
<1>3. CASE Reading(v)'
  <2>1. Reading(v)
    BY <1>3 DEF Reading
  <2>2. Seen(v)
    BY <2>1 DEF WasInv, WasOf
  <2>3. /\ (arg[v] \in Held)' \in was'[v] /\ was[v] \subseteq was'[v]
    BY <1>1, <1>3
  <2>4. PayLast(arg[v])' = PayLast(arg[v])
    BY DEF PayLast
  <2>5. Seen(v)'
    BY <2>2, <2>3, <2>4 DEF Seen
  <2>6. QED
    BY <1>3, <2>5 DEF WasOf
<1>4. QED
  BY <1>2, <1>3

(* A file without holes is held from the end of its payload on.            *)
LEMMA HeldByLength ==
    ASSUME Basic, Uncontended, NEW b \in files \ Void
    PROVE  b \in Held <=> PayLast(b) <= len[b]
<1>1. b \in Blocks \ contended /\ has[b] = 1..len[b] /\ len[b] \in Nat
  BY DEF Basic, TypeOK, Void, Uncontended
<1>2. PayLast(b) \in Nat /\ PayLast(b) >= 1
  BY <1>1, Lengths
<1>3. 1..PayLast(b) \subseteq 1..len[b] <=> PayLast(b) <= len[b]
  BY <1>1, <1>2
<1>4. QED
  BY <1>1, <1>3 DEF Held

LEMMA WasNext ==
    Basic /\ Uncontended /\ LoopInv /\ WasInv /\ [RegisterNext]_registerVars => WasInv'
<1> SUFFICES ASSUME Basic, Uncontended, LoopInv, WasInv, [RegisterNext]_registerVars
             PROVE  WasInv'
  OBVIOUS
<1> USE DEF Goto, fileVars, readerVars
<1>0. TypeOK
  BY DEF Basic
<1>a. CASE UNCHANGED registerVars
  <2>1. UNCHANGED <<was, refused, pc, arg, pos, eof, files, has, contended>>
    BY <1>a DEF registerVars, vars
  <2>2. Held' = Held /\ Void' = Void
    BY <2>1 DEF Held, Void
  <2>3. ASSUME NEW w \in Workers PROVE WasOf(w)'
    BY <2>1, <2>2 DEF WasInv, WasOf, Seen, Reading, PayLast
  <2>4. QED
    BY <2>1, <2>3 DEF WasInv
<1>b. CASE Next /\ Remember
  <2>0. /\ was' \in [Workers -> SUBSET BOOLEAN]
        /\ \A w \in refused' : pc'[w] = "error"
        /\ \A w \in Workers :
              was'[w] = IF Reading(w)' THEN was[w] \cup {(arg[w] \in Held)'} ELSE {}
    BY <1>b, Remembers
  <2>1. ASSUME NEW w \in Workers, contended \subseteq contended',
               \A v \in Workers \ {w} : /\ pc'[v] = pc[v] /\ arg'[v] = arg[v]
                                        /\ pos'[v] = pos[v] /\ eof'[v] = eof[v],
               WasOf(w)'
        PROVE  WasInv'
    <3>1. Void \subseteq Void'
      BY <2>1 DEF Void
    <3>2. ASSUME NEW v \in Workers, v # w PROVE WasOf(v)'
      BY <1>b, <2>1, <3>1, <3>2, Onlooker
    <3>3. QED
      BY <2>0, <2>1, <3>2 DEF WasInv
  <2>2. ASSUME NEW w \in Workers, ~Reading(w)' PROVE WasOf(w)'
    BY <2>0, <2>2 DEF WasOf
  <2>3. ASSUME NEW w \in Workers, UNCHANGED <<contended, arg, pos, eof>>,
               pc'[w] \notin ReaderPc \cup {"open"}, \A v \in Workers \ {w} : pc'[v] = pc[v]
        PROVE  WasInv'
    <3>1. WasOf(w)'
      BY <2>2, <2>3 DEF Reading
    <3>2. QED
      BY <2>1, <2>3, <3>1
  <2>4. ASSUME NEW w \in Workers, NEW b \in Blocks, DumpBlock(w, b) \/ QueryBlock(w, b)
        PROVE  WasInv'
    <3>1. /\ UNCHANGED <<contended, pos, eof>> /\ pc'[w] \in {"create", "open"}
          /\ \A v \in Workers \ {w} : pc'[v] = pc[v] /\ arg'[v] = arg[v]
      BY <1>0, <2>4 DEF DumpBlock, QueryBlock, TypeOK, historyVars
    <3>2. WasOf(w)'
      <4>1. CASE ~Reading(w)'
        BY <2>2, <4>1
      <4>2. CASE Reading(w)'
        <5>1. (arg[w] \in Held)' \in was'[w]
          BY <2>0, <4>2
        <5>2. pc'[w] \notin ReaderPc
          BY <3>1 DEF ReaderPc
        <5>3. QED
          BY <4>2, <5>1, <5>2 DEF WasOf, Seen
      <4>3. QED
        BY <4>1, <4>2
    <3>3. QED
      BY <2>1, <3>1, <3>2
  <2>5. ASSUME NEW w \in Workers, Create(w) \/ OpenFails(w) \/ NoSuchBlock(w)
                \/ CompressBegin(w) \/ CompressUpdate(w) \/ CompressEnd(w) \/ Close(w)
                \/ DecompressError(w) \/ Finish(w) \/ CompressFails(w)
        PROVE  WasInv'
    <3>1. \E label \in {"begin", "error", "update", "end", "close", "stored", "found"} :
            pc' = [pc EXCEPT ![w] = label]
      BY <2>5 DEF Create, OpenFails, NoSuchBlock, CompressBegin, CompressUpdate, CompressEnd,
         Hand, Close, CompressFails, DecompressError, Finish
    <3>2. /\ pc'[w] \notin ReaderPc \cup {"open"}
          /\ \A v \in Workers \ {w} : pc'[v] = pc[v]
      BY <1>0, <3>1 DEF TypeOK, ReaderPc
    <3>3. contended \subseteq contended' /\ UNCHANGED <<arg, pos, eof>>
      BY <2>5 DEF Create, OpenFails, NoSuchBlock, CompressBegin, CompressUpdate, CompressEnd,
         Hand, Close, CompressFails, DecompressError, Finish, historyVars
    <3>4. WasOf(w)'
      BY <2>2, <3>2 DEF Reading
    <3>5. QED
      BY <2>1, <3>2, <3>3, <3>4
  <2>6. ASSUME NEW w \in Workers, (\E upto \in 1..(N + 3) : Flush(w, upto)) \/ WriteFails(w)
        PROVE  WasInv'
    <3>1. UNCHANGED <<pc, arg, pos, eof, contended>> /\ pc[w] \in WriterPc
      BY <2>6 DEF Flush, WriteFails, historyVars
    <3>2. QED
      BY <2>3, <3>1 DEF WriterPc, ReaderPc
  <2>7. ASSUME NEW w \in Workers, UNCHANGED <<contended, arg>>, pc'[w] \in ReaderPc,
               \A v \in Workers \ {w} : /\ pc'[v] = pc[v] /\ pos'[v] = pos[v]
                                        /\ eof'[v] = eof[v],
               Reading(w)' /\ PayLast(arg[w]) <= pos'[w] => TRUE \in was'[w],
               Reading(w)' /\ eof'[w] /\ pos'[w] < PayLast(arg[w]) => FALSE \in was'[w]
        PROVE  WasInv'
    <3>1. CASE Reading(w)'
      <4>1. (arg[w] \in Held)' \in was'[w]
        BY <2>0, <3>1
      <4>2. PayLast(arg[w])' = PayLast(arg[w])
        BY <2>7 DEF PayLast
      <4>3. Seen(w)'
        BY <2>7, <3>1, <4>1, <4>2 DEF Seen
      <4>4. WasOf(w)'
        BY <3>1, <4>3 DEF WasOf
      <4>5. QED
        BY <2>1, <2>7, <4>4
    <3>2. CASE ~Reading(w)'
      BY <2>1, <2>2, <2>7, <3>2
    <3>3. QED
      BY <3>1, <3>2
  <2>8. ASSUME NEW w \in Workers, Open(w) PROVE WasInv'
    <3>1. /\ UNCHANGED <<contended, arg>> /\ pc'[w] = "fill" /\ pos'[w] = 0 /\ ~eof'[w]
          /\ \A v \in Workers \ {w} : /\ pc'[v] = pc[v] /\ pos'[v] = pos[v]
                                      /\ eof'[v] = eof[v]
      BY <1>0, <2>8 DEF Open, TypeOK
    <3>2. ~(PayLast(arg[w]) <= 0)
      BY <1>0, Lengths DEF TypeOK
    <3>3. PayLast(arg[w]) <= pos'[w] => FALSE
      BY <3>1, <3>2
    <3>4. QED
      BY <2>7, <3>1, <3>3 DEF ReaderPc
  <2>9. ASSUME NEW w \in Workers, NEW upto \in 1..(N + 3), ReadSome(w, upto) PROVE WasInv'
    <3>1. /\ UNCHANGED <<files, len, has, contended, arg, eof>> /\ ~eof[w] /\ pos'[w] = upto
          /\ pc[w] = "fill" /\ pc'[w] \in {"fill", "decompress"} /\ upto <= len[arg[w]]
          /\ \A v \in Workers \ {w} : pc'[v] = pc[v] /\ pos'[v] = pos[v]
      BY <1>0, <2>9 DEF ReadSome, TypeOK, historyVars
    <3>2. Void' = Void /\ Held' = Held
      BY <3>1 DEF Void, Held
    <3>3. ASSUME Reading(w)', PayLast(arg[w]) <= pos'[w] PROVE TRUE \in was'[w]
      <4>1. arg[w] \in files \ Void /\ arg[w] \in Blocks
        BY <1>0, <3>1, <3>2, <3>3 DEF Reading, LoopInv, ReaderPc, TypeOK
      <4>2. PayLast(arg[w]) <= len[arg[w]]
        <5>1. PayLast(arg[w]) \in Nat /\ len[arg[w]] \in Nat
          BY <1>0, <4>1, Lengths DEF TypeOK
        <5>2. QED
          BY <3>1, <3>3, <5>1
      <4>3. arg[w] \in Held
        BY <4>1, <4>2, HeldByLength
      <4>4. QED
        BY <2>0, <3>1, <3>2, <3>3, <4>3
    <3>4. QED
      BY <2>7, <3>1, <3>3 DEF ReaderPc
  <2>10. ASSUME NEW w \in Workers, ReadEof(w) PROVE WasInv'
    <3>1. /\ UNCHANGED <<files, len, has, contended, arg, pos>>
          /\ pc[w] = "fill" /\ pc'[w] \in {"finish", "decompress"}
          /\ eof[w] \/ pos[w] >= len[arg[w]]
          /\ \A v \in Workers \ {w} : pc'[v] = pc[v] /\ eof'[v] = eof[v]
      BY <1>0, <2>10 DEF ReadEof, TypeOK, historyVars
    <3>2. Void' = Void /\ Held' = Held
      BY <3>1 DEF Void, Held
    <3>3. ASSUME Reading(w)'
          PROVE  /\ Reading(w) /\ was[w] \subseteq was'[w] /\ (arg[w] \in Held) \in was'[w]
                 /\ Seen(w)
      <4>1. Reading(w)
        BY <3>1, <3>2, <3>3 DEF Reading, ReaderPc
      <4>2. QED
        BY <2>0, <3>1, <3>2, <3>3, <4>1 DEF WasInv, WasOf
    <3>4. Reading(w)' /\ PayLast(arg[w]) <= pos'[w] => TRUE \in was'[w]
      BY <3>1, <3>3 DEF Seen, ReaderPc
    <3>5. ASSUME Reading(w)', pos'[w] < PayLast(arg[w]) PROVE FALSE \in was'[w]
      <4>1. CASE eof[w]
        BY <3>1, <3>3, <3>5, <4>1 DEF Seen, ReaderPc
      <4>2. CASE ~eof[w]
        <5>1. arg[w] \in files \ Void /\ arg[w] \in Blocks
          BY <1>0, <3>1, <3>2, <3>5 DEF Reading, LoopInv, ReaderPc, TypeOK
        <5>2. PayLast(arg[w]) \in Nat /\ len[arg[w]] \in Nat /\ pos[w] \in Nat
          BY <1>0, <5>1, Lengths DEF TypeOK
        <5>3. ~(PayLast(arg[w]) <= len[arg[w]])
          BY <3>1, <3>5, <4>2, <5>2
        <5>4. arg[w] \notin Held
          BY <5>1, <5>3, HeldByLength
        <5>5. (arg[w] \in Held) = FALSE
          BY <5>4
        <5>6. QED
          BY <3>3, <3>5, <5>5
      <4>3. QED
        BY <4>1, <4>2
    <3>6. QED
      BY <2>7, <3>1, <3>4, <3>5 DEF ReaderPc
  <2>11. ASSUME NEW w \in Workers, DecompressRaw(w) \/ DecompressPart(w) \/ DecompressBlock(w)
         PROVE  WasInv'
    <3>1. AfterDecompress(w) /\ pc[w] = "decompress" /\ UNCHANGED contended
      BY <2>11 DEF DecompressRaw, DecompressPart, DecompressBlock, AfterDecompress, historyVars
    <3>2. /\ UNCHANGED <<arg, eof, pos>> /\ pc'[w] \in {"finish", "fill"}
          /\ \A v \in Workers \ {w} : pc'[v] = pc[v]
      BY <1>0, <3>1 DEF AfterDecompress, TypeOK
    <3>3. Reading(w)' => Reading(w)
      BY <3>1, <3>2 DEF Reading, ReaderPc, Void
    <3>4. Reading(w)' => Seen(w) /\ was[w] \subseteq was'[w]
      BY <2>0, <3>3 DEF WasInv, WasOf
    <3>5. QED
      BY <2>7, <3>1, <3>2, <3>4 DEF Seen, ReaderPc
  <2>12. ASSUME NEW w \in Workers, Reply(w) PROVE WasInv'
    <3>1. /\ UNCHANGED <<contended, arg>> /\ pc'[w] = "idle"
          /\ \A v \in Workers \ {w} : /\ pc'[v] = pc[v] /\ pos'[v] = pos[v]
                                      /\ eof'[v] = eof[v]
      BY <2>12 DEF Reply, Forget
    <3>2. WasOf(w)'
      BY <2>2, <3>1 DEF Reading, ReaderPc
    <3>3. QED
      BY <2>1, <3>1, <3>2
  <2>13. CASE Crash
    <3>1. \A v \in Workers : pc'[v] = "idle"
      BY <2>13 DEF Crash, Forget
    <3>2. \A v \in Workers : WasOf(v)'
      BY <2>2, <3>1 DEF Reading, ReaderPc
    <3>3. QED
      BY <2>0, <3>2 DEF WasInv
  <2>14. QED
    BY <1>b, <2>4, <2>5, <2>6, <2>8, <2>9, <2>10, <2>11, <2>12, <2>13
    DEF Next, Handler, Write, Read
<1>c. QED
  BY <1>a, <1>b DEF RegisterNext

(* The phase of a worker, place by place.                                  *)
PhaseAt(w) ==
    /\ pc[w] = "idle" => Phase(w) = "idle"
    /\ pc[w] # "idle" /\ arg[w] \in Void => Phase(w) = "void"
    /\ arg[w] \notin Void =>
         /\ pc[w] = "create" => Phase(w) = "dump"
         /\ pc[w] \in WriterPc => Phase(w) = IF bad[w] THEN "unwritten" ELSE "dump"
         /\ pc[w] \in ReaderPc \cup {"open"} => Phase(w) = "query"
         /\ pc[w] = "stored" => Phase(w) = "stored"
         /\ pc[w] = "found" /\ out[w] = Whole => Phase(w) = "found"
         /\ pc[w] = "error" /\ w \in refused => Phase(w) = "refused"
         /\ pc[w] = "error" /\ w \notin refused => Phase(w) = "missing"

LEMMA Phases == ASSUME NEW w \in Workers PROVE PhaseAt(w) /\ PhaseAt(w)'
<1>1. PhaseAt(w)
  <2>1. CASE pc[w] = "idle"
    BY <2>1 DEF PhaseAt, Phase, WriterPc, ReaderPc
  <2>2. CASE pc[w] # "idle" /\ arg[w] \in Void
    BY <2>2 DEF PhaseAt, Phase
  <2>3. CASE pc[w] # "idle" /\ arg[w] \notin Void
    BY <2>3 DEF PhaseAt, Phase, WriterPc, ReaderPc
  <2>4. QED
    BY <2>1, <2>2, <2>3
<1>2. PhaseAt(w)'
  <2>1. CASE pc'[w] = "idle"
    BY <2>1 DEF PhaseAt, Phase, WriterPc, ReaderPc
  <2>2. CASE pc'[w] # "idle" /\ arg'[w] \in Void'
    BY <2>2 DEF PhaseAt, Phase
  <2>3. CASE pc'[w] # "idle" /\ arg'[w] \notin Void'
    BY <2>3 DEF PhaseAt, Phase, WriterPc, ReaderPc
  <2>4. QED
    BY <2>1, <2>2, <2>3
<1>3. QED
  BY <1>1, <1>2

(* A worker whose own variables and whose name's standing are unchanged is *)
(* in the same phase.                                                      *)
LEMMA SamePhase ==
    ASSUME NEW w \in Workers, pc'[w] = pc[w], arg'[w] = arg[w], bad'[w] = bad[w],
           out'[w] = out[w], (arg[w] \in Void)' <=> arg[w] \in Void, Remember, WasInv
    PROVE  Phase(w)' = Phase(w)
<1>1. pc[w] = "error" => (w \in refused' <=> w \in refused)
  BY DEF Remember
<1>2. QED
  BY <1>1 DEF Phase

LEMMA QueryPhase ==
    ASSUME NEW w \in Workers, TypeOK
    PROVE  Phase(w) = "query" <=> Reading(w)
<1>1. pc[w] \in Pc
  BY DEF TypeOK
<1>2. QED
  BY <1>1 DEF Phase, Reading, Pc, WriterPc, ReaderPc

(* Nothing is learnt from a block that is as it was.                       *)
LEMMA Unlearnt ==
    ASSUME WasInv, Remember, NEW v \in Workers, Reading(v)' <=> Reading(v),
           (arg[v] \in Held)' <=> arg[v] \in Held
    PROVE  was'[v] = was[v]
<1>1. was'[v] = IF Reading(v)' THEN was[v] \cup {(arg[v] \in Held)'} ELSE {}
  BY Remembers
<1>2. CASE ~Reading(v)
  BY <1>1, <1>2 DEF WasInv, WasOf
<1>3. CASE Reading(v) /\ arg[v] \in Held
  <2>1. (arg[v] \in Held) = TRUE /\ (arg[v] \in Held)' = TRUE
    BY <1>3
  <2>2. (arg[v] \in Held) \in was[v]
    BY <1>3 DEF WasInv, WasOf, Seen
  <2>3. was'[v] = was[v] \cup {TRUE} /\ TRUE \in was[v]
    BY <1>1, <1>3, <2>1, <2>2
  <2>4. QED
    BY <2>3
<1>4. CASE Reading(v) /\ arg[v] \notin Held
  <2>1. (arg[v] \in Held) = FALSE /\ (arg[v] \in Held)' = FALSE
    BY <1>4
  <2>2. (arg[v] \in Held) \in was[v]
    BY <1>4 DEF WasInv, WasOf, Seen
  <2>3. was'[v] = was[v] \cup {FALSE} /\ FALSE \in was[v]
    BY <1>1, <1>4, <2>1, <2>2
  <2>4. QED
    BY <2>3
<1>5. QED
  BY <1>2, <1>3, <1>4

(* A step of one worker that touches no file changes its own phase and     *)
(* history, and nothing else of the register.                              *)
LEMMA Moves ==
    ASSUME TypeOK, WasInv, Remember, NEW w \in Workers, UNCHANGED <<files, has, contended>>,
           \A v \in Workers \ {w} : /\ pc'[v] = pc[v] /\ arg'[v] = arg[v]
                                    /\ bad'[v] = bad[v] /\ out'[v] = out[v],
           NEW p, p = Phase(w)', NEW q, q = was'[w]
    PROVE  /\ Held' = Held /\ Void' = Void
           /\ [v \in Workers |-> Phase(v)]' = [[v \in Workers |-> Phase(v)] EXCEPT ![w] = p]
           /\ was' = [was EXCEPT ![w] = q]
<1>1. Held' = Held /\ Void' = Void
  BY DEF Held, Void
<1>2. ASSUME NEW v \in Workers, v # w PROVE Phase(v)' = Phase(v)
  BY <1>1, <1>2, SamePhase
<1>3. ASSUME NEW v \in Workers, v # w PROVE was'[v] = was[v]
  <2>1. Reading(v)' <=> Reading(v)
    BY <1>1, <1>3 DEF Reading
  <2>2. (arg[v] \in Held)' <=> arg[v] \in Held
    BY <1>1, <1>3
  <2>3. QED
    BY <2>1, <2>2, Unlearnt
<1>4. was \in [Workers -> SUBSET BOOLEAN] /\ was' \in [Workers -> SUBSET BOOLEAN]
  BY Remembers DEF WasInv
<1>5. was' = [was EXCEPT ![w] = q]
  BY <1>3, <1>4
<1>6. [v \in Workers |-> Phase(v)]' = [[v \in Workers |-> Phase(v)] EXCEPT ![w] = p]
  BY <1>2
<1>7. QED
  BY <1>1, <1>5, <1>6

(* A step inside a request, which no client can see.                       *)
LEMMA Silent ==
    ASSUME TypeOK, WasInv, Remember, NEW w \in Workers, UNCHANGED <<files, has, contended, arg>>,
           \A v \in Workers \ {w} : /\ pc'[v] = pc[v] /\ bad'[v] = bad[v] /\ out'[v] = out[v],
           Phase(w)' = Phase(w), Reading(w)' <=> Reading(w)
    PROVE  UNCHANGED Register!vars
<1>1. PICK p : p = Phase(w)'
  OBVIOUS
<1>2. PICK q : q = was'[w]
  OBVIOUS
<1>3. /\ Held' = Held /\ Void' = Void
      /\ [v \in Workers |-> Phase(v)]' = [[v \in Workers |-> Phase(v)] EXCEPT ![w] = p]
      /\ was' = [was EXCEPT ![w] = q]
  BY <1>1, <1>2, Moves
<1>4. [v \in Workers |-> Phase(v)]' = [v \in Workers |-> Phase(v)]
  BY <1>1, <1>3
<1>5. was'[w] = was[w]
  <2>1. (arg[w] \in Held)' <=> arg[w] \in Held
    BY <1>3
  <2>2. QED
    BY <2>1, Unlearnt
<1>6. was' = was
  BY <1>2, <1>3, <1>5 DEF WasInv
<1>7. QED
  BY <1>3, <1>4, <1>6 DEF Register!vars

(* A step that ends what a client may see of its request.                  *)
LEMMA Ends ==
    ASSUME TypeOK, WasInv, Remember, NEW w \in Workers, UNCHANGED <<files, has, contended, arg>>,
           \A v \in Workers \ {w} : /\ pc'[v] = pc[v] /\ bad'[v] = bad[v] /\ out'[v] = out[v],
           ~Reading(w)', NEW p, p = Phase(w)'
    PROVE  /\ Register!Becomes(w, p)
           /\ UNCHANGED <<Held, Void, arg>>
<1>1. was'[w] = {}
  BY Remembers
<1>2. PICK q : q = was'[w]
  OBVIOUS
<1>3. /\ Held' = Held /\ Void' = Void
      /\ [v \in Workers |-> Phase(v)]' = [[v \in Workers |-> Phase(v)] EXCEPT ![w] = p]
      /\ was' = [was EXCEPT ![w] = q]
  BY <1>2, Moves
<1>4. QED
  BY <1>1, <1>2, <1>3 DEF Register!Becomes

(* A step that touches one file, or none, and leaves every request where   *)
(* it is.                                                                  *)
LEMMA Changes ==
    ASSUME TypeOK, TypeOK', WasInv, Remember, NEW b \in Blocks, Void' = Void, UNCHANGED arg,
           \A v \in Workers : Phase(v)' = Phase(v) /\ (Reading(v)' <=> Reading(v)),
           \A c \in Blocks \ {b} : c \in Held' <=> c \in Held,
           b \notin Void => \E w \in Workers : arg[w] = b /\ Phase(w) = "dump"
    PROVE  Register!Change(b) \/ UNCHANGED Register!vars
<1>1. [v \in Workers |-> Phase(v)]' = [v \in Workers |-> Phase(v)]
  OBVIOUS
<1>2. ASSUME NEW v \in Workers
      PROVE  was'[v] = IF Reading(v) THEN was[v] \cup {(arg[v] \in Held)'} ELSE was[v]
  <2>1. was'[v] = IF Reading(v)' THEN was[v] \cup {(arg[v] \in Held)'} ELSE {}
    BY Remembers
  <2>2. ~Reading(v) => was[v] = {}
    BY DEF WasInv, WasOf
  <2>3. QED
    BY <2>1, <2>2
<1>3. ASSUME NEW v \in Workers, (arg[v] \in Held)' <=> arg[v] \in Held
      PROVE  was'[v] = was[v]
  BY <1>3, Unlearnt
<1>4. was \in [Workers -> SUBSET BOOLEAN] /\ was' \in [Workers -> SUBSET BOOLEAN]
  BY Remembers DEF WasInv
<1>5. Held \subseteq Blocks /\ Held' \subseteq Blocks
  <2>1. files \subseteq Blocks /\ Held \subseteq files
    BY DEF TypeOK, Held
  <2>2. files' \subseteq Blocks /\ Held' \subseteq files'
    BY DEF TypeOK, Held
  <2>3. QED
    BY <2>1, <2>2
<1>6. CASE b \in Held' <=> b \in Held
  <2>1. Held' = Held
    BY <1>5, <1>6
  <2>2. ASSUME NEW v \in Workers PROVE was'[v] = was[v]
    <3>1. (arg[v] \in Held)' <=> arg[v] \in Held
      BY <2>1
    <3>2. QED
      BY <1>3, <3>1
  <2>3. was' = was
    BY <1>4, <2>2
  <2>4. QED
    BY <1>1, <2>1, <2>3 DEF Register!vars
<1>7. CASE ~(b \in Held' <=> b \in Held)
  <2>1. b \notin Void
    BY <1>7 DEF Held
  <2>2. Held' = IF b \in Held THEN Held \ {b} ELSE Held \cup {b}
    BY <1>5, <1>7
  <2>3. PICK x : x = {(b \in Held)'}
    OBVIOUS
  <2>4. ASSUME NEW v \in Workers
        PROVE  was'[v] = IF Phase(v) = "query" /\ arg[v] = b THEN was[v] \cup x ELSE was[v]
    <3>1. Phase(v) = "query" <=> Reading(v)
      BY QueryPhase
    <3>2. CASE Reading(v) /\ arg[v] = b
      <4>1. (arg[v] \in Held)' = (b \in Held)'
        BY <3>2
      <4>2. was'[v] = was[v] \cup x
        BY <1>2, <2>3, <3>2, <4>1, Zenon
      <4>3. QED
        BY <3>1, <3>2, <4>2
    <3>3. CASE ~(Reading(v) /\ arg[v] = b)
      <4>1. ~Reading(v) \/ ((arg[v] \in Held)' <=> arg[v] \in Held)
        BY <3>3 DEF TypeOK
      <4>2. was'[v] = was[v]
        BY <1>2, <1>3, <4>1
      <4>3. QED
        BY <3>1, <3>3, <4>2
    <3>4. QED
      BY <3>2, <3>3
  <2>5. was' = [v \in Workers |-> IF Phase(v) = "query" /\ arg[v] = b
                                  THEN was[v] \cup x ELSE was[v]]
    BY <1>4, <2>4
  <2>6. QED
    BY <1>1, <2>1, <2>2, <2>3, <2>5 DEF Register!Change
<1>8. QED
  BY <1>6, <1>7

(* One lemma for each kind of step.  The register's view of the request of *)
(* w is its name and phase, as in the mapping.                             *)
RegisterStep == Register!Next \/ UNCHANGED Register!vars

LEMMA AskStep ==
    ASSUME TypeOK, WasInv, Remember, NEW w \in Workers, NEW b \in Blocks,
           DumpBlock(w, b) \/ QueryBlock(w, b)
    PROVE  RegisterStep
<1>1. /\ UNCHANGED <<files, has, contended, bad, out>> /\ pc[w] = "idle"
      /\ pc'[w] = IF DumpBlock(w, b) THEN "create" ELSE "open"
      /\ arg' = [arg EXCEPT ![w] = b]
      /\ \A v \in Workers \ {w} : pc'[v] = pc[v] /\ arg'[v] = arg[v]
  BY DEF DumpBlock, QueryBlock, Goto, TypeOK, fileVars, writerVars, readerVars, historyVars
<1>2. PICK p : p = Phase(w)'
  OBVIOUS
<1>3. PICK q : q = was'[w]
  OBVIOUS
<1>4. /\ Held' = Held /\ Void' = Void
      /\ [v \in Workers |-> Phase(v)]' = [[v \in Workers |-> Phase(v)] EXCEPT ![w] = p]
      /\ was' = [was EXCEPT ![w] = q]
  BY <1>1, <1>2, <1>3, Moves
<1>5. Phase(w) = "idle"
  BY <1>1, Phases DEF PhaseAt
<1>6. arg'[w] = b
  BY <1>1 DEF TypeOK
<1>7. was'[w] = IF Reading(w)' THEN was[w] \cup {(arg[w] \in Held)'} ELSE {}
  BY Remembers
<1>8. was[w] = {}
  BY <1>1 DEF WasInv, WasOf, Reading, ReaderPc
<1>9. CASE b \in Void
  <2>1. p = "void"
    BY <1>1, <1>2, <1>4, <1>6, <1>9, Phases DEF PhaseAt
  <2>2. q = {}
    BY <1>3, <1>4, <1>6, <1>7, <1>9 DEF Reading
  <2>3. Register!Ask(w, b)
    BY <1>1, <1>4, <1>5, <1>9, <2>1, <2>2 DEF Register!Ask, Register!Becomes
  <2>4. QED
    BY <2>3 DEF RegisterStep, Register!Next
<1>10. CASE b \notin Void /\ pc'[w] = "create"
  <2>1. p = "dump"
    BY <1>2, <1>4, <1>6, <1>10, Phases DEF PhaseAt
  <2>2. q = {}
    BY <1>3, <1>7, <1>10 DEF Reading, ReaderPc
  <2>3. Register!Ask(w, b)
    BY <1>1, <1>4, <1>5, <1>10, <2>1, <2>2 DEF Register!Ask, Register!Becomes
  <2>4. QED
    BY <2>3 DEF RegisterStep, Register!Next
<1>11. CASE b \notin Void /\ pc'[w] = "open"
  <2>1. p = "query"
    BY <1>2, <1>4, <1>6, <1>11, Phases DEF PhaseAt
  <2>2. Reading(w)'
    BY <1>4, <1>6, <1>11 DEF Reading
  <2>3. (arg[w] \in Held)' = (b \in Held)
    BY <1>4, <1>6
  <2>4. was'[w] = {} \cup {(b \in Held)}
    BY <1>7, <1>8, <2>2, <2>3, Zenon
  <2>5. q = {(b \in Held)}
    BY <1>3, <2>4
  <2>6. Register!Ask(w, b)
    BY <1>1, <1>4, <1>5, <1>11, <2>1, <2>5 DEF Register!Ask
  <2>7. QED
    BY <2>6 DEF RegisterStep, Register!Next
<1>12. QED
  BY <1>1, <1>9, <1>10, <1>11

LEMMA CreateStep ==
    ASSUME TypeOK, TypeOK', WasInv, Remember, NEW w \in Workers, Create(w)
    PROVE  RegisterStep
<1> DEFINE b == arg[w]
<1>1. /\ arg' = arg /\ b \in Blocks /\ pc[w] = "create" /\ pc'[w] = "begin" /\ ~bad'[w]
      /\ files' = files \cup {b} /\ has' = [has EXCEPT ![b] = {}] /\ out' = out
      /\ contended' = IF Writers(b) = {} THEN contended ELSE contended \cup {b}
      /\ \A v \in Workers \ {w} : pc'[v] = pc[v] /\ bad'[v] = bad[v]
  BY DEF Create, Goto, TypeOK, readerVars
<1>2. ASSUME NEW c \in Blocks \ {b} PROVE c \in Held' <=> c \in Held
  <2>1. c \in Void' <=> c \in Void
    BY <1>1 DEF Void
  <2>2. has'[c] = has[c] /\ (c \in files' <=> c \in files)
    BY <1>1 DEF TypeOK
  <2>3. QED
    BY <2>1, <2>2 DEF Held, PayLast
<1>3. ~Reading(w)' /\ ~Reading(w)
  BY <1>1 DEF Reading, ReaderPc
<1>4. CASE Void' = Void
  <2>1. ASSUME NEW v \in Workers PROVE Phase(v)' = Phase(v) /\ (Reading(v)' <=> Reading(v))
    <3>1. CASE v # w
      BY <1>1, <1>4, <3>1, SamePhase DEF Reading
    <3>2. CASE v = w /\ b \in Void
      BY <1>1, <1>3, <1>4, <3>2, Phases DEF PhaseAt
    <3>3. CASE v = w /\ b \notin Void
      BY <1>1, <1>3, <1>4, <3>3, Phases DEF PhaseAt, WriterPc
    <3>4. QED
      BY <3>1, <3>2, <3>3
  <2>2. b \notin Void => arg[w] = b /\ Phase(w) = "dump"
    BY <1>1, Phases DEF PhaseAt
  <2>3. QED
    BY <1>1, <1>2, <1>4, <2>1, <2>2, Changes DEF RegisterStep, Register!Next
<1>5. CASE Void' # Void
  <2>1. Writers(b) # {} /\ b \notin Void /\ Void' = Void \cup {b}
    BY <1>1, <1>5 DEF Void
  <2>2. PICK v \in Workers : arg[v] = b /\ pc[v] \in WriterPc
    BY <2>1 DEF Writers
  <2>3. /\ v # w /\ Phase(v) \in {"dump", "unwritten"} /\ Phase(w) = "dump"
    BY <1>1, <2>1, <2>2, Phases DEF PhaseAt, WriterPc
  <2>4. Held' = Held \ {b}
    <3>1. b \notin Held'
      BY <2>1 DEF Held
    <3>2. Held \subseteq Blocks /\ Held' \subseteq Blocks
      <4>1. Held \subseteq files /\ files \subseteq Blocks
        BY DEF TypeOK, Held
      <4>2. Held' \subseteq files' /\ files' \subseteq Blocks
        BY DEF TypeOK, Held
      <4>3. QED
        BY <4>1, <4>2
    <3>3. QED
      BY <1>2, <3>1, <3>2
  <2>5. ASSUME NEW c \in Workers
        PROVE  Phase(c)' = IF Phase(c) # "idle" /\ arg[c] = b THEN "void" ELSE Phase(c)
    <3>1. CASE arg[c] # b
      BY <1>1, <2>1, <3>1, SamePhase
    <3>2. CASE arg[c] = b /\ pc[c] = "idle"
      BY <1>1, <3>2, Phases DEF PhaseAt
    <3>3. CASE arg[c] = b /\ pc[c] # "idle"
      <4>1. pc'[c] # "idle" /\ arg'[c] \in Void'
        BY <1>1, <2>1, <3>3
      <4>2. Phase(c)' = "void"
        BY <4>1, Phases DEF PhaseAt
      <4>3. Phase(c) # "idle"
        <5>1. pc[c] \in Pc /\ arg[c] \notin Void
          BY <2>1, <3>3 DEF TypeOK
        <5>2. QED
          BY <3>3, <5>1 DEF Phase, Pc, WriterPc, ReaderPc
      <4>4. QED
        BY <3>3, <4>2, <4>3
    <3>4. QED
      BY <3>1, <3>2, <3>3
  <2>6. ASSUME NEW c \in Workers
        PROVE  was'[c] = IF arg[c] = b THEN {} ELSE was[c]
    <3>1. CASE arg[c] = b
      BY <1>1, <2>1, <3>1, Remembers DEF Reading
    <3>2. CASE arg[c] # b
      <4>1. arg'[c] = arg[c] /\ arg[c] \in Blocks \ {b} /\ pc'[c] = pc[c]
        BY <1>1, <3>2 DEF TypeOK
      <4>2. (Reading(c)' <=> Reading(c)) /\ ((arg[c] \in Held)' <=> arg[c] \in Held)
        BY <1>2, <2>1, <4>1 DEF Reading
      <4>3. QED
        BY <3>2, <4>2, Unlearnt
    <3>3. QED
      BY <3>1, <3>2
  <2>7. [c \in Workers |-> Phase(c)]' =
          [c \in Workers |-> IF Phase(c) # "idle" /\ arg[c] = b THEN "void" ELSE Phase(c)]
    BY <2>5
  <2>8. was' = [c \in Workers |-> IF arg[c] = b THEN {} ELSE was[c]]
    BY <2>6, Remembers
  <2>9. Register!Overlap(b)
    BY <1>1, <2>1, <2>2, <2>3, <2>4, <2>7, <2>8 DEF Register!Overlap
  <2>10. QED
    BY <1>1, <2>9 DEF RegisterStep, Register!Next
<1>6. QED
  BY <1>4, <1>5

LEMMA FlushStep ==
    ASSUME TypeOK, TypeOK', WasInv, Remember, NEW w \in Workers, NEW upto \in 1..(N + 3),
           Flush(w, upto)
    PROVE  RegisterStep
<1> DEFINE b == arg[w]
<1>1. /\ UNCHANGED <<files, contended, pc, arg, bad, out>> /\ b \in Blocks
      /\ pc[w] \in WriterPc /\ ~bad[w]
      /\ has' = [has EXCEPT ![b] = @ \cup (off[w] + 1)..upto]
  BY DEF Flush, TypeOK, readerVars, historyVars
<1>2. Void' = Void
  BY <1>1 DEF Void
<1>3. ASSUME NEW c \in Blocks \ {b} PROVE c \in Held' <=> c \in Held
  <2>1. has'[c] = has[c]
    BY <1>1 DEF TypeOK
  <2>2. QED
    BY <1>1, <1>2, <2>1 DEF Held, PayLast
<1>4. ASSUME NEW v \in Workers PROVE Phase(v)' = Phase(v) /\ (Reading(v)' <=> Reading(v))
  BY <1>1, <1>2, SamePhase DEF Reading
<1>5. b \notin Void => arg[w] = b /\ Phase(w) = "dump"
  BY <1>1, Phases DEF PhaseAt
<1>6. QED
  BY <1>1, <1>2, <1>3, <1>4, <1>5, Changes DEF RegisterStep, Register!Next

(* Steps of one worker inside the code, which touch no file: those of a    *)
(* void request are silent; the others are an answer or silent.            *)
Inside(w) ==
    /\ UNCHANGED <<files, has, contended, arg>>
    /\ \A v \in Workers \ {w} : /\ pc'[v] = pc[v] /\ bad'[v] = bad[v] /\ out'[v] = out[v]

LEMMA VoidStep ==
    ASSUME TypeOK, WasInv, Remember, NEW w \in Workers, Inside(w), arg[w] \in Void,
           pc[w] # "idle", pc'[w] # "idle"
    PROVE  RegisterStep
<1>1. arg'[w] \in Void'
  BY DEF Inside, Void
<1>2. Phase(w) = "void" /\ Phase(w)' = "void"
  BY <1>1, Phases DEF PhaseAt
<1>3. ~Reading(w) /\ ~Reading(w)'
  BY <1>1 DEF Reading
<1>4. QED
  BY <1>2, <1>3, Silent DEF Inside, RegisterStep

LEMMA WriteStep ==
    ASSUME TypeOK, WasInv, Remember, NEW w \in Workers,
           CompressBegin(w) \/ CompressUpdate(w) \/ CompressEnd(w)
    PROVE  RegisterStep
<1>1. /\ Inside(w) /\ UNCHANGED bad /\ pc[w] \in WriterPc /\ pc'[w] \in WriterPc
  BY DEF CompressBegin, CompressUpdate, CompressEnd, Hand, Goto, Inside, TypeOK, WriterPc,
     fileVars, readerVars, historyVars
<1>2. CASE arg[w] \in Void
  BY <1>1, <1>2, VoidStep DEF WriterPc
<1>3. CASE arg[w] \notin Void
  <2>1. arg'[w] \notin Void'
    BY <1>1, <1>3 DEF Inside, Void
  <2>2. Phase(w)' = Phase(w)
    BY <1>1, <1>3, <2>1, Phases DEF PhaseAt
  <2>3. ~Reading(w) /\ ~Reading(w)'
    BY <1>1 DEF Reading, WriterPc, ReaderPc
  <2>4. QED
    BY <1>1, <2>2, <2>3, Silent DEF Inside, RegisterStep
<1>4. QED
  BY <1>2, <1>3

LEMMA WriteFailsStep ==
    ASSUME TypeOK, WasInv, Remember, NEW w \in Workers, WriteFails(w)
    PROVE  RegisterStep
<1>1. /\ Inside(w) /\ pc[w] \in WriterPc /\ pc'[w] = pc[w] /\ ~bad[w] /\ bad'[w]
  BY DEF WriteFails, Inside, TypeOK, fileVars, readerVars
<1>2. CASE arg[w] \in Void
  BY <1>1, <1>2, VoidStep DEF WriterPc
<1>3. CASE arg[w] \notin Void
  <2>1. arg'[w] \notin Void'
    BY <1>1, <1>3 DEF Inside, Void
  <2>2. PICK p : p = Phase(w)'
    OBVIOUS
  <2>3. p = "unwritten" /\ Phase(w) = "dump"
    BY <1>1, <1>3, <2>1, <2>2, Phases DEF PhaseAt
  <2>4. ~Reading(w)'
    BY <1>1 DEF Reading, WriterPc, ReaderPc
  <2>5. Register!Becomes(w, p) /\ UNCHANGED <<Held, Void, arg>>
    BY <1>1, <2>2, <2>4, Ends DEF Inside
  <2>6. Register!Fail(w)
    BY <2>3, <2>5 DEF Register!Fail
  <2>7. QED
    BY <2>6 DEF RegisterStep, Register!Next
<1>4. QED
  BY <1>2, <1>3

LEMMA CloseStep ==
    ASSUME Basic, Uncontended, WasInv, Remember, NEW w \in Workers, Close(w)
    PROVE  RegisterStep
<1>0. TypeOK /\ WriterInv
  BY DEF Basic
<1>1. /\ Inside(w) /\ pc[w] = "close" /\ pc'[w] = "stored" /\ (bad[w] \/ off[w] = handed[w])
  BY <1>0 DEF Close, Goto, Inside, TypeOK, fileVars, writerVars, readerVars, historyVars
<1>2. CASE arg[w] \in Void
  BY <1>0, <1>1, <1>2, VoidStep
<1>3. CASE arg[w] \notin Void
  <2>1. arg'[w] \notin Void'
    BY <1>1, <1>3 DEF Inside, Void
  <2>2. PICK p : p = Phase(w)'
    OBVIOUS
  <2>3. p = "stored" /\ Phase(w) = IF bad[w] THEN "unwritten" ELSE "dump"
    BY <1>1, <1>3, <2>1, <2>2, Phases DEF PhaseAt, WriterPc
  <2>4. ~Reading(w)'
    BY <1>1 DEF Reading, ReaderPc
  <2>5. Register!Becomes(w, p) /\ UNCHANGED <<Held, Void, arg>>
    BY <1>0, <1>1, <2>2, <2>4, Ends DEF Inside
  <2>6. ASSUME ~bad[w] PROVE arg[w] \in Held
    <3>1. arg[w] \in files /\ handed[w] = FrameLen(arg[w]) /\ arg[w] \in Blocks
      BY <1>0, <1>1 DEF WriterInv, WriterPc, TypeOK
    <3>2. off[w] = len[arg[w]]
      <4>1. arg[w] \in Blocks \ contended /\ w \in Writers(arg[w])
        BY <1>1, <1>3, <3>1 DEF Void, Writers, WriterPc
      <4>2. QED
        BY <4>1 DEF Uncontended
    <3>3. PayLast(arg[w]) <= len[arg[w]]
      BY <1>1, <2>6, <3>1, <3>2, Lengths
    <3>4. QED
      BY <1>3, <3>1, <3>3, HeldByLength
  <2>7. Register!Store(w)
    BY <2>3, <2>5, <2>6 DEF Register!Store
  <2>8. QED
    BY <2>7 DEF RegisterStep, Register!Next
<1>4. QED
  BY <1>2, <1>3

LEMMA OpenFailsStep ==
    ASSUME TypeOK, WasInv, Remember, NEW w \in Workers, OpenFails(w)
    PROVE  RegisterStep
<1>1. /\ Inside(w) /\ pc[w] \in {"create", "open"} /\ pc'[w] = "error"
      /\ pc[w] = "open" => arg[w] \in files
  BY DEF OpenFails, Goto, Inside, TypeOK, fileVars, writerVars, readerVars, historyVars
<1>2. CASE arg[w] \in Void
  BY <1>1, <1>2, VoidStep
<1>3. CASE arg[w] \notin Void
  <2>1. arg'[w] \notin Void'
    BY <1>1, <1>3 DEF Inside, Void
  <2>2. PICK p : p = Phase(w)'
    OBVIOUS
  <2>3. w \in refused'
    BY <1>1 DEF Remember
  <2>4. p = "refused" /\ Phase(w) \in {"dump", "query"}
    BY <1>1, <1>3, <2>1, <2>2, <2>3, Phases DEF PhaseAt
  <2>5. ~Reading(w)'
    BY <1>1 DEF Reading, ReaderPc
  <2>6. Register!Becomes(w, p) /\ UNCHANGED <<Held, Void, arg>>
    BY <1>1, <2>2, <2>5, Ends DEF Inside
  <2>7. Register!Refuse(w)
    BY <2>4, <2>6 DEF Register!Refuse
  <2>8. QED
    BY <2>7 DEF RegisterStep, Register!Next
<1>4. QED
  BY <1>2, <1>3

LEMMA CompressFailsStep ==
    ASSUME TypeOK, WasInv, Remember, NEW w \in Workers, CompressFails(w)
    PROVE  RegisterStep
<1>1. Inside(w) /\ pc[w] \in {"begin", "update"} /\ pc'[w] = "error"
  BY DEF CompressFails, Goto, Inside, TypeOK, fileVars, writerVars, readerVars
<1>2. CASE arg[w] \in Void
  BY <1>1, <1>2, VoidStep
<1>3. CASE arg[w] \notin Void
  <2>1. arg'[w] \notin Void'
    BY <1>1, <1>3 DEF Inside, Void
  <2>2. PICK p : p = Phase(w)'
    OBVIOUS
  <2>3. w \in refused'
    BY <1>1 DEF Remember
  <2>4. p = "refused" /\ Phase(w) \in {"dump", "unwritten"}
    BY <1>1, <1>3, <2>1, <2>2, <2>3, Phases DEF PhaseAt, WriterPc
  <2>5. ~Reading(w)'
    BY <1>1 DEF Reading, ReaderPc
  <2>6. Register!Becomes(w, p) /\ UNCHANGED <<Held, Void, arg>>
    BY <1>1, <2>2, <2>5, Ends DEF Inside
  <2>7. Register!Refuse(w)
    BY <2>4, <2>6 DEF Register!Refuse
  <2>8. QED
    BY <2>7 DEF RegisterStep, Register!Next
<1>4. QED
  BY <1>2, <1>3

LEMMA NoSuchBlockStep ==
    ASSUME TypeOK, WasInv, Remember, NEW w \in Workers, NoSuchBlock(w)
    PROVE  RegisterStep
<1>1. /\ Inside(w) /\ pc[w] = "open" /\ pc'[w] = "error" /\ arg[w] \notin files
  BY DEF NoSuchBlock, Goto, Inside, TypeOK, fileVars, writerVars, readerVars, historyVars
<1>2. CASE arg[w] \in Void
  BY <1>1, <1>2, VoidStep
<1>3. CASE arg[w] \notin Void
  <2>1. arg'[w] \notin Void'
    BY <1>1, <1>3 DEF Inside, Void
  <2>2. PICK p : p = Phase(w)'
    OBVIOUS
  <2>3. w \notin refused'
    BY <1>1 DEF Remember, WasInv
  <2>4. p = "missing" /\ Phase(w) = "query"
    BY <1>1, <1>3, <2>1, <2>2, <2>3, Phases DEF PhaseAt
  <2>5. Register!Becomes(w, p) /\ UNCHANGED <<Held, Void, arg>>
    <3>1. ~Reading(w)'
      BY <1>1 DEF Reading, ReaderPc
    <3>2. QED
      BY <1>1, <2>2, <3>1, Ends DEF Inside
  <2>6. FALSE \in was[w]
    <3>1. Reading(w)
      BY <1>1, <1>3 DEF Reading
    <3>2. (arg[w] \in Held) \in was[w]
      BY <3>1 DEF WasInv, WasOf, Seen
    <3>3. (arg[w] \in Held) = FALSE
      BY <1>1 DEF Held
    <3>4. QED
      BY <3>2, <3>3
  <2>7. Register!Miss(w)
    BY <2>4, <2>5, <2>6 DEF Register!Miss
  <2>8. QED
    BY <2>7 DEF RegisterStep, Register!Next
<1>4. QED
  BY <1>2, <1>3

LEMMA ReadStep ==
    ASSUME TypeOK, WasInv, Remember, NEW w \in Workers,
           \/ Open(w) \/ (\E upto \in 1..(N + 3) : ReadSome(w, upto)) \/ ReadEof(w)
           \/ DecompressRaw(w) \/ DecompressPart(w) \/ DecompressBlock(w)
    PROVE  RegisterStep
<1>1. /\ Inside(w) /\ pc[w] \in ReaderPc \cup {"open"} /\ pc'[w] \in ReaderPc
  <2>1. CASE Open(w)
    BY <2>1 DEF Open, Goto, Inside, TypeOK, ReaderPc, fileVars, writerVars
  <2>2. ASSUME NEW upto \in 1..(N + 3), ReadSome(w, upto)
        PROVE  /\ Inside(w) /\ pc[w] \in ReaderPc /\ pc'[w] \in ReaderPc
    BY <2>2 DEF ReadSome, Goto, Inside, TypeOK, ReaderPc, fileVars, writerVars, historyVars
  <2>3. CASE ReadEof(w)
    BY <2>3 DEF ReadEof, Goto, Inside, TypeOK, ReaderPc, fileVars, writerVars, historyVars
  <2>4. CASE DecompressRaw(w) \/ DecompressPart(w) \/ DecompressBlock(w)
    <3>1. /\ AfterDecompress(w) /\ pc[w] = "decompress"
          /\ \A v \in Workers \ {w} : out'[v] = out[v]
      BY <2>4 DEF DecompressRaw, DecompressPart, DecompressBlock, TypeOK
    <3>2. QED
      BY <3>1 DEF AfterDecompress, Goto, Inside, TypeOK, ReaderPc, fileVars, writerVars,
         historyVars
  <2>5. QED
    BY <2>1, <2>2, <2>3, <2>4
<1>2. CASE arg[w] \in Void
  BY <1>1, <1>2, VoidStep DEF ReaderPc
<1>3. CASE arg[w] \notin Void
  <2>1. arg'[w] \notin Void'
    BY <1>1, <1>3 DEF Inside, Void
  <2>2. Phase(w)' = "query" /\ Phase(w) = "query"
    BY <1>1, <1>3, <2>1, Phases DEF PhaseAt
  <2>3. Reading(w) /\ Reading(w)'
    BY <1>1, <1>3, <2>1 DEF Reading
  <2>4. QED
    BY <1>1, <2>2, <2>3, Silent DEF Inside, RegisterStep
<1>4. QED
  BY <1>2, <1>3

(* A file with one writer at a time has no holes, hence nothing in it that *)
(* the decoder refuses.                                                    *)
LEMMA DecompressErrorStep ==
    ASSUME TypeOK, ReadExact, WasInv, Remember, NEW w \in Workers, DecompressError(w)
    PROVE  RegisterStep
<1>1. /\ Inside(w) /\ pc[w] = "decompress" /\ pc'[w] = "error"
  BY DEF DecompressError, Goto, Inside, TypeOK, fileVars, writerVars, readerVars, historyVars
<1>2. CASE arg[w] \in Void
  BY <1>1, <1>2, VoidStep
<1>3. CASE arg[w] \notin Void
  <2>1. /\ seen[w] = 1..pos[w] /\ fed[w] \in Nat /\ pos[w] \in Nat
        /\ PayLast(arg[w]) \in Nat
    BY <1>1, <1>3, Lengths DEF ReadExact, ReaderPc, Void, TypeOK
  <2>2. Chunk(w) \subseteq seen[w]
    BY <2>1 DEF Chunk
  <2>3. PayLast(arg[w]) \in Chunk(w) => 3..PayLast(arg[w]) \subseteq seen[w]
    BY <2>1 DEF Chunk
  <2>4. QED
    BY <2>2, <2>3 DEF DecompressError, HeadersOk
<1>4. QED
  BY <1>2, <1>3

LEMMA FinishStep ==
    ASSUME Basic, LoopInv, FoundIsWhole', WasInv, Remember, NEW w \in Workers, Finish(w)
    PROVE  RegisterStep
<1>0. TypeOK /\ ReaderInv
  BY DEF Basic
<1>1. /\ Inside(w) /\ pc[w] = "finish" /\ UNCHANGED out
      /\ pc'[w] = IF wr[w] = N THEN "found" ELSE "error"
  BY <1>0 DEF Finish, Goto, Inside, TypeOK, fileVars, writerVars, readerVars, historyVars
<1>2. CASE arg[w] \in Void
  BY <1>0, <1>1, <1>2, VoidStep
<1>3. CASE arg[w] \notin Void
  <2>1. arg'[w] \notin Void'
    BY <1>1, <1>3 DEF Inside, Void
  <2>2. PICK p : p = Phase(w)'
    OBVIOUS
  <2>3. Phase(w) = "query" /\ Reading(w)
    BY <1>1, <1>3, Phases DEF PhaseAt, ReaderPc, Reading
  <2>4. Register!Becomes(w, p) /\ UNCHANGED <<Held, Void, arg>>
    <3>1. ~Reading(w)'
      BY <1>1 DEF Reading, ReaderPc
    <3>2. QED
      BY <1>0, <1>1, <2>2, <3>1, Ends DEF Inside
  <2>5. /\ arg[w] \in Blocks /\ arg[w] \notin Raw /\ pos[w] \in Nat
        /\ PayLast(arg[w]) \in Nat /\ FrameLen(arg[w]) = PayLast(arg[w]) + 1
    BY <1>0, <1>3, Lengths DEF Void, TypeOK
  <2>6. /\ wr[w] = IF pos[w] < PayLast(arg[w]) THEN 0 ELSE N
        /\ eof[w] \/ pos[w] = FrameLen(arg[w])
    <3>1. wr[w] = Decoded(arg[w], fed[w]) /\ fed[w] = pos[w]
      BY <1>0, <1>1 DEF ReaderInv, ReaderPc, LoopInv
    <3>2. QED
      BY <1>1, <2>5, <3>1 DEF Decoded, LoopInv
  <2>7. Seen(w)
    BY <2>3 DEF WasInv, WasOf
  <2>8. CASE wr[w] = N
    <3>1. PayLast(arg[w]) <= pos[w]
      BY <2>5, <2>6, <2>8, Lengths
    <3>2. TRUE \in was[w]
      BY <1>1, <2>7, <3>1 DEF Seen, ReaderPc
    <3>3. pc'[w] = "found" /\ out'[w] = Whole
      BY <1>1, <2>1, <2>8 DEF FoundIsWhole, Void
    <3>4. p = "found"
      BY <2>1, <2>2, <3>3, Phases DEF PhaseAt, Whole
    <3>5. Register!Find(w)
      BY <2>3, <2>4, <3>2, <3>4 DEF Register!Find
    <3>6. QED
      BY <3>5 DEF RegisterStep, Register!Next
  <2>9. CASE wr[w] # N
    <3>1. pos[w] < PayLast(arg[w]) /\ eof[w]
      BY <2>5, <2>6, <2>9
    <3>2. FALSE \in was[w]
      BY <1>1, <2>7, <3>1 DEF Seen, ReaderPc
    <3>3. pc'[w] = "error" /\ w \notin refused'
      BY <1>1, <2>9 DEF Remember, WasInv
    <3>4. p = "missing"
      BY <2>1, <2>2, <3>3, Phases DEF PhaseAt
    <3>5. Register!Miss(w)
      BY <2>3, <2>4, <3>2, <3>4 DEF Register!Miss
    <3>6. QED
      BY <3>5 DEF RegisterStep, Register!Next
  <2>10. QED
    BY <2>8, <2>9
<1>4. QED
  BY <1>2, <1>3

LEMMA ReplyStep ==
    ASSUME TypeOK, FoundIsWhole, WasInv, Remember, NEW w \in Workers, Reply(w)
    PROVE  RegisterStep
<1>1. Inside(w) /\ pc[w] \in {"stored", "found", "error"} /\ pc'[w] = "idle"
  BY DEF Reply, Forget, Inside, fileVars
<1>2. PICK p : p = Phase(w)'
  OBVIOUS
<1>3. p = "idle"
  BY <1>1, <1>2, Phases DEF PhaseAt
<1>4. Phase(w) \in {"stored", "found", "missing", "refused", "void"}
  <2>1. pc[w] = "found" /\ arg[w] \notin Void => out[w] = Whole
    BY DEF FoundIsWhole, Void
  <2>2. QED
    BY <1>1, <2>1, Phases DEF PhaseAt
<1>5. ~Reading(w)'
  BY <1>1 DEF Reading, ReaderPc
<1>6. Register!Becomes(w, p) /\ UNCHANGED <<Held, Void, arg>>
  BY <1>1, <1>2, <1>5, Ends DEF Inside
<1>7. Register!Reply(w)
  BY <1>3, <1>4, <1>6 DEF Register!Reply
<1>8. QED
  BY <1>7 DEF RegisterStep, Register!Next

LEMMA CrashStep ==
    ASSUME TypeOK, WasInv, Remember, Crash
    PROVE  RegisterStep
<1>1. UNCHANGED <<files, has, arg, contended>> /\ \A v \in Workers : pc'[v] = "idle"
  BY DEF Crash, Forget, fileVars
<1>2. Held' = Held /\ Void' = Void
  BY <1>1 DEF Held, Void
<1>3. \A v \in Workers : Phase(v)' = "idle"
  BY <1>1, Phases DEF PhaseAt
<1>4. \A v \in Workers : was'[v] = {}
  BY <1>1, Remembers DEF Reading, ReaderPc
<1>5. [v \in Workers |-> Phase(v)]' = [v \in Workers |-> "idle"]
  BY <1>3
<1>6. was' = [v \in Workers |-> {}]
  BY <1>4, Remembers
<1>7. Register!Crash
  BY <1>1, <1>2, <1>5, <1>6 DEF Register!Crash
<1>8. QED
  BY <1>7 DEF RegisterStep, Register!Next

LEMMA StepsAreRegisterSteps ==
    ASSUME Basic, Basic', Uncontended, ReadExact, LoopInv, WasInv, FoundIsWhole, FoundIsWhole',
           Next, Remember
    PROVE  RegisterStep
<1>0. TypeOK /\ TypeOK'
  BY DEF Basic
<1>1. ASSUME NEW w \in Workers, NEW b \in Blocks, DumpBlock(w, b) \/ QueryBlock(w, b)
      PROVE  RegisterStep
  BY <1>0, <1>1, AskStep
<1>2. ASSUME NEW w \in Workers, Write(w) PROVE RegisterStep
  <2>1. CASE Create(w)
    BY <1>0, <2>1, CreateStep
  <2>2. ASSUME NEW upto \in 1..(N + 3), Flush(w, upto) PROVE RegisterStep
    BY <1>0, <2>2, FlushStep
  <2>3. CASE Close(w)
    BY <2>3, CloseStep
  <2>4. QED
    BY <1>0, <1>2, <2>1, <2>2, <2>3, WriteStep DEF Write
<1>3. ASSUME NEW w \in Workers, Read(w) PROVE RegisterStep
  <2>1. CASE NoSuchBlock(w)
    BY <1>0, <2>1, NoSuchBlockStep
  <2>2. CASE DecompressError(w)
    BY <1>0, <2>2, DecompressErrorStep
  <2>3. CASE Finish(w)
    BY <2>3, FinishStep
  <2>4. QED
    BY <1>0, <1>3, <2>1, <2>2, <2>3, ReadStep DEF Read
<1>4. ASSUME NEW w \in Workers, OpenFails(w) \/ CompressFails(w) \/ WriteFails(w) \/ Reply(w)
      PROVE  RegisterStep
  BY <1>0, <1>4, OpenFailsStep, CompressFailsStep, WriteFailsStep, ReplyStep
<1>5. CASE Crash
  BY <1>0, <1>5, CrashStep
<1>6. QED
  BY <1>1, <1>2, <1>3, <1>4, <1>5 DEF Next, Handler

(* The block store implements a register for each name: "Success" to a     *)
(* dump means the block can be found, unless the disk was full; a query is *)
(* answered with what the register was at some moment of the query; and a  *)
(* block that is stored stays until its name is dumped again, whatever     *)
(* crashes.  Blocks LZ4 cannot shrink and names two dumps wrote at once    *)
(* are void.                                                               *)
THEOREM ImplementsRegister == RegisterSpec => IsRegister
<1>1. RegisterSpec => Spec
  <2>1. RegisterInit => Init
    BY DEF RegisterInit
  <2>2. [RegisterNext]_registerVars => [Next]_vars
    BY DEF RegisterNext, registerVars
  <2>3. QED
    BY <2>1, <2>2, PTL DEF RegisterSpec, Spec
<1>2. RegisterInit => Register!Init /\ WasInv
  <2>1. ASSUME RegisterInit PROVE Held = {} /\ Void = Raw
    BY <2>1 DEF RegisterInit, Init, Held, Void
  <2>2. ASSUME RegisterInit
        PROVE  [w \in Workers |-> Phase(w)] = [w \in Workers |-> "idle"]
    BY <2>2 DEF RegisterInit, Init, Phase
  <2>3. QED
    BY <2>1, <2>2, WasInit DEF RegisterInit, Init, RememberInit, Register!Init
<1>3. Init => Uncontended /\ ReadExact /\ LoopInv
  BY DEF Init, Uncontended, ReadExact, LoopInv, ReaderPc, Writers, WriterPc
<1>4. Basic /\ Basic' /\ Uncontended /\ ReadExact /\ LoopInv /\ WasInv /\ FoundIsWhole
        /\ FoundIsWhole' /\ [RegisterNext]_registerVars => [Register!Next]_Register!vars
  <2>1. ASSUME UNCHANGED registerVars PROVE UNCHANGED Register!vars
    <3>1. UNCHANGED <<files, has, pc, arg, bad, out, contended, was, refused>>
      BY <2>1 DEF registerVars, vars
    <3>2. Held' = Held /\ Void' = Void
      BY <3>1 DEF Held, Void
    <3>3. \A w \in Workers : Phase(w)' = Phase(w)
      BY <3>1, <3>2 DEF Phase
    <3>4. QED
      BY <3>1, <3>2, <3>3 DEF Register!vars
  <2>2. QED
    BY <2>1, StepsAreRegisterSteps DEF RegisterNext, RegisterStep
<1>5. QED
  BY <1>1, <1>2, <1>3, <1>4, BasicHolds, FoundSafe, UncontendedNext, ReadExactNext, LoopNext,
     WasNext, PTL DEF RegisterSpec, Spec, IsRegister, Register!Spec
=============================================================================
