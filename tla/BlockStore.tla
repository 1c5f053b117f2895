----------------------------- MODULE BlockStore -----------------------------
(***************************************************************************)
(* The block storage of the backend: write_block_on_my_end and             *)
(* get_block_on_my_end (src/src/backend/file_access.cpp) run by Crow's     *)
(* worker threads for the "dump_block" and "query_block" requests of the   *)
(* "/stream" websocket (src/src/backend/CrowStream.cpp).                   *)
(*                                                                         *)
(* A block is identified with its CRC-64 name: two different blocks have   *)
(* different names here.  A block has N units (BLOCK_SIZE bytes) and is    *)
(* kept in a file of the dictionary as one LZ4 frame:                      *)
(*                                                                         *)
(*    1 frame header | 2 block header | 3 .. 2+PayLen[b] payload | endmark *)
(*                                                                         *)
(* A block in Raw did not shrink: LZ4F stores its N units as they are.     *)
(* Every writer of a name writes the same frame, so the byte at a position *)
(* of a file is either the frame's or, in a hole left by a truncation, a   *)
(* zero: a file is its length and the set of positions that are not holes. *)
(***************************************************************************)
EXTENDS Integers, FiniteSets

CONSTANTS Workers,   \* Crow's worker threads
          Blocks,    \* the blocks clients store or ask for, by name
          Raw,       \* the blocks LZ4 cannot shrink
          PayLen,    \* payload length of a block's frame
          N          \* units in a block, and in the reader's buffer

ASSUME BlockStoreAssumption ==
    /\ N \in Nat /\ N >= 3
    /\ Raw \subseteq Blocks
    /\ PayLen \in [Blocks -> 1..N]
    /\ \A b \in Blocks : b \in Raw <=> PayLen[b] = N

PayLast(b)  == 2 + PayLen[b]
FrameLen(b) == PayLast(b) + 1

VARIABLES
    files,      \* names that exist in the dictionary directory
    len, has,   \* of each file: its length, its positions that are not holes
    pc, arg,    \* where a worker is, and the block its request names
    handed,     \* writer: frame units given to the ofstream so far
    off,        \* writer: frame units the ofstream has written to the file
    bad,        \* writer: badbit, a write(2) has failed
    pos, seen,  \* reader: units read from the file, those that were no holes
    fed, eof,   \* reader: units given to LZ4F_decompress; the ifstream's eofbit
    wr, out,    \* reader: wr_off and the array out
    acked,      \* history: blocks a client was told are stored
    damaged,    \* history: names whose last writers include an abandoned one
    contended,  \* history: names two writers have had open at the same time
    quiet       \* history: readers whose file has been entire since the open

fileVars    == <<files, len, has>>
writerVars  == <<handed, off, bad>>
readerVars  == <<pos, seen, fed, eof, wr, out>>
historyVars == <<acked, damaged, contended, quiet>>
vars == <<files, len, has, pc, arg, handed, off, bad, pos, seen, fed, eof,
          wr, out, acked, damaged, contended, quiet>>

Unit  == 0..(N + 1)               \* of the array out
Zero  == [j \in 1..N |-> 0]       \* as initialised
Whole == [j \in 1..N |-> j]       \* the block that was stored
Garbled == [j \in 1..N |-> N + 1] \* what LZ4 makes of a damaged payload

WriterPc == {"begin", "update", "end", "close"}
ReaderPc == {"fill", "decompress", "finish"}
Pc == WriterPc \cup ReaderPc \cup
      {"idle", "create", "open", "stored", "found", "error"}

(* The workers that have the file of b open for writing. *)
Writers(b) == {w \in Workers : arg[w] = b /\ pc[w] \in WriterPc}

(* The frame of b is on disk, entire.                                      *)
Intact(b) == b \in files /\ len[b] = FrameLen(b) /\ has[b] = 1..FrameLen(b)
-----------------------------------------------------------------------------
Init ==
    /\ files = {}
    /\ len = [b \in Blocks |-> 0]
    /\ has = [b \in Blocks |-> {}]
    /\ pc = [w \in Workers |-> "idle"]
    /\ arg \in [Workers -> Blocks]
    /\ handed = [w \in Workers |-> 0]
    /\ off = [w \in Workers |-> 0]
    /\ bad = [w \in Workers |-> FALSE]
    /\ pos = [w \in Workers |-> 0]
    /\ seen = [w \in Workers |-> {}]
    /\ fed = [w \in Workers |-> 0]
    /\ eof = [w \in Workers |-> FALSE]
    /\ wr = [w \in Workers |-> 0]
    /\ out = [w \in Workers |-> Zero]
    /\ acked = {}
    /\ damaged = {}
    /\ contended = {}
    /\ quiet = {}

Goto(w, label) == pc' = [pc EXCEPT ![w] = label]

(* onmessage: "dump_block" decodes and pads the content, "query_block"     *)
(* takes the name from the request.                                        *)
DumpBlock(w, b) ==
    /\ pc[w] = "idle"
    /\ Goto(w, "create")
    /\ arg' = [arg EXCEPT ![w] = b]
    /\ UNCHANGED <<fileVars, writerVars, readerVars, historyVars>>

QueryBlock(w, b) ==
    /\ pc[w] = "idle"
    /\ Goto(w, "open")
    /\ arg' = [arg EXCEPT ![w] = b]
    /\ UNCHANGED <<fileVars, writerVars, readerVars, historyVars>>

(* The ofstream opens the file at its final path and truncates it.         *)
Create(w) ==
    LET b == arg[w] IN
    /\ pc[w] = "create"
    /\ Goto(w, "begin")
    /\ files' = files \cup {b}
    /\ len' = [len EXCEPT ![b] = 0]
    /\ has' = [has EXCEPT ![b] = {}]
    /\ handed' = [handed EXCEPT ![w] = 0]
    /\ off' = [off EXCEPT ![w] = 0]
    /\ bad' = [bad EXCEPT ![w] = FALSE]
    /\ damaged' = damaged \ {b}
    /\ contended' = IF Writers(b) = {} THEN contended ELSE contended \cup {b}
    /\ quiet' = {v \in quiet : arg[v] # b}
    /\ UNCHANGED <<arg, readerVars, acked>>

(* Mutated form of OpenFails: the failed open is cleaned up after.         *)
OpenFailsRemoves(w) ==
    /\ pc[w] \in {"create", "open"}
    /\ pc[w] = "open" => arg[w] \in files
    /\ Goto(w, "error")
    /\ files' = files \ {arg[w]}
    /\ UNCHANGED <<len, has, arg, writerVars, readerVars, historyVars>>

(* The open of an ofstream or of an ifstream fails: assert_short throws.   *)
OpenFails(w) ==
    /\ pc[w] \in {"create", "open"}
    /\ pc[w] = "open" => arg[w] \in files
    /\ Goto(w, "error")
    /\ UNCHANGED <<fileVars, arg, writerVars, readerVars, historyVars>>

(* compressBegin, compressUpdate, compressEnd: each hands its part of the  *)
(* frame to the stream, which need not write it at once.                   *)
Hand(w, from, to, upto) ==
    /\ pc[w] = from
    /\ Goto(w, to)
    /\ handed' = [handed EXCEPT ![w] = upto]
    /\ UNCHANGED <<fileVars, arg, off, bad, readerVars, historyVars>>

CompressBegin(w)  == Hand(w, "begin", "update", 1)
CompressUpdate(w) == Hand(w, "update", "end", PayLast(arg[w]))
CompressEnd(w)    == Hand(w, "end", "close", FrameLen(arg[w]))

(* The stream writes some of what it was handed at its own offset; units   *)
(* between the end of a file truncated meanwhile and that offset are holes.*)
Flush(w, upto) ==
    LET b == arg[w] IN
    /\ pc[w] \in WriterPc
    /\ ~bad[w]
    /\ off[w] < upto /\ upto <= handed[w]
    /\ off' = [off EXCEPT ![w] = upto]
    /\ len' = [len EXCEPT ![b] = IF upto > @ THEN upto ELSE @]
    /\ has' = [has EXCEPT ![b] = @ \cup (off[w] + 1)..upto]
    /\ UNCHANGED <<files, pc, arg, handed, bad, readerVars, historyVars>>

(* A write(2) fails (disk full): the stream goes bad, and nobody looks.    *)
WriteFails(w) ==
    /\ pc[w] \in WriterPc
    /\ ~bad[w]
    /\ off[w] < handed[w]
    /\ bad' = [bad EXCEPT ![w] = TRUE]
    /\ damaged' = damaged \cup {arg[w]}
    /\ UNCHANGED <<fileVars, pc, arg, handed, off, readerVars, acked, contended, quiet>>

(* An assertion fails after the truncation: there is no memory for the     *)
(* compression context, or LZ4F_compressUpdate refuses.  The stream's      *)
(* destructor flushes what it was handed; the file stays as it is.         *)
CompressFails(w) ==
    /\ pc[w] \in {"begin", "update"}
    /\ bad[w] \/ off[w] = handed[w]
    /\ Goto(w, "error")
    /\ damaged' = damaged \cup {arg[w]}
    /\ UNCHANGED <<fileVars, arg, writerVars, readerVars, acked, contended, quiet>>

(* Mutated form of Close: the name is returned before the stream is flushed.*)
CloseUnflushed(w) ==
    /\ pc[w] = "close"
    /\ Goto(w, "stored")
    /\ UNCHANGED <<fileVars, arg, writerVars, readerVars, historyVars>>

(* The function returns the name; the stream's destructor has flushed.     *)
Close(w) ==
    /\ pc[w] = "close"
    /\ bad[w] \/ off[w] = handed[w]
    /\ Goto(w, "stored")
    /\ UNCHANGED <<fileVars, arg, writerVars, readerVars, historyVars>>
-----------------------------------------------------------------------------
(* get_block_on_my_end: the existence check and the open of the ifstream.  *)
Open(w) ==
    /\ pc[w] = "open"
    /\ arg[w] \in files
    /\ Goto(w, "fill")
    /\ pos' = [pos EXCEPT ![w] = 0]
    /\ seen' = [seen EXCEPT ![w] = {}]
    /\ fed' = [fed EXCEPT ![w] = 0]
    /\ eof' = [eof EXCEPT ![w] = FALSE]
    /\ wr' = [wr EXCEPT ![w] = 0]
    /\ out' = [out EXCEPT ![w] = Zero]
    /\ quiet' = IF Intact(arg[w]) THEN quiet \cup {w} ELSE quiet
    /\ UNCHANGED <<fileVars, arg, writerVars, acked, damaged, contended>>

NoSuchBlock(w) ==
    /\ pc[w] = "open"
    /\ arg[w] \notin files
    /\ Goto(w, "error")
    /\ UNCHANGED <<fileVars, arg, writerVars, readerVars, historyVars>>

(* ifs.read(in, BLOCK_SIZE): as many read(2) as it takes to fill the N     *)
(* units of the buffer or to meet the end of the file.                     *)
ReadSome(w, upto) ==
    LET b == arg[w] IN
    /\ pc[w] = "fill"
    /\ ~eof[w]
    /\ pos[w] < upto /\ upto <= len[b] /\ upto <= fed[w] + N
    /\ pos' = [pos EXCEPT ![w] = upto]
    /\ seen' = [seen EXCEPT ![w] = @ \cup (has[b] \cap (pos[w] + 1)..upto)]
    /\ Goto(w, IF upto = fed[w] + N THEN "decompress" ELSE "fill")
    /\ UNCHANGED <<fileVars, arg, writerVars, fed, eof, wr, out, historyVars>>

ReadEof(w) ==
    /\ pc[w] = "fill"
    /\ eof[w] \/ pos[w] >= len[arg[w]]
    /\ eof' = [eof EXCEPT ![w] = TRUE]
    /\ Goto(w, IF pos[w] = fed[w] THEN "finish" ELSE "decompress")
    /\ UNCHANGED <<fileVars, arg, writerVars, pos, seen, fed, wr, out, historyVars>>

(* One call of LZ4F_decompress on the units fed+1 .. pos of the frame, and *)
(* the copy after it.  The decoder always writes from the start of out.    *)
Chunk(w)     == (fed[w] + 1)..pos[w]
HeadersOk(w) == Chunk(w) \cap 1..2 \subseteq seen[w]

(* Mutated forms of AfterDecompress: the loop ends with the first buffer,  *)
(* and the input is not consumed.                                          *)
AfterOneBuffer(w) ==
    /\ fed' = [fed EXCEPT ![w] = pos[w]]
    /\ Goto(w, "finish")
    /\ UNCHANGED <<fileVars, arg, writerVars, pos, seen, eof, historyVars>>
AfterNoProgress(w) ==
    /\ Goto(w, IF pos[w] = FrameLen(arg[w]) THEN "finish" ELSE "fill")
    /\ UNCHANGED <<fileVars, arg, writerVars, fed, pos, seen, eof, historyVars>>

AfterDecompress(w) ==
    /\ fed' = [fed EXCEPT ![w] = pos[w]]
    /\ Goto(w, IF pos[w] = FrameLen(arg[w]) THEN "finish" ELSE "fill")
    /\ UNCHANGED <<fileVars, arg, writerVars, pos, seen, eof, historyVars>>

(* Mutated form of RawStart: the headers are counted as payload.           *)
RawStartAtHeader(w) == fed[w]
RawStart(w)  == IF fed[w] < 2 THEN 2 ELSE fed[w]
RawUnits(w)  == IF pos[w] < 3 THEN 0
                ELSE IF pos[w] > PayLast(arg[w]) THEN PayLast(arg[w]) - RawStart(w)
                ELSE pos[w] - RawStart(w)
RawUnit(w, p) == IF p \in seen[w] THEN p - 2 ELSE 0

DecompressRaw(w) ==
    /\ pc[w] = "decompress" /\ arg[w] \in Raw /\ HeadersOk(w)
    /\ wr' = [wr EXCEPT ![w] = @ + RawUnits(w)]
    /\ out' = [out EXCEPT ![w] = [j \in 1..N |->
                 IF j <= RawUnits(w) THEN RawUnit(w, RawStart(w) + j) ELSE @[j]]]
    /\ AfterDecompress(w)

(* A compressed payload is kept by the decoder until all of it is there.   *)
DecompressPart(w) ==
    /\ pc[w] = "decompress" /\ arg[w] \notin Raw /\ HeadersOk(w)
    /\ PayLast(arg[w]) \notin Chunk(w)
    /\ AfterDecompress(w)
    /\ UNCHANGED <<wr, out>>

DecompressBlock(w) ==
    /\ pc[w] = "decompress" /\ arg[w] \notin Raw /\ HeadersOk(w)
    /\ PayLast(arg[w]) \in Chunk(w)
    /\ \E block \in {Whole, Garbled} :
         /\ block = Whole <=> 3..PayLast(arg[w]) \subseteq seen[w]
         /\ out' = [out EXCEPT ![w] = block]
    /\ wr' = [wr EXCEPT ![w] = N]
    /\ AfterDecompress(w)

(* LZ4F_isError: a zero in place of a header, or a payload that no longer  *)
(* decodes because of a hole.                                              *)
DecompressError(w) ==
    /\ pc[w] = "decompress"
    /\ \/ ~HeadersOk(w)
       \/ /\ arg[w] \notin Raw
          /\ PayLast(arg[w]) \in Chunk(w)
          /\ ~(3..PayLast(arg[w]) \subseteq seen[w])
    /\ Goto(w, "error")
    /\ UNCHANGED <<fileVars, arg, writerVars, readerVars, historyVars>>

(* Mutated form of Finish: the assertion is dropped.                       *)
FinishUnchecked(w) ==
    /\ pc[w] = "finish"
    /\ Goto(w, "found")
    /\ UNCHANGED <<fileVars, arg, writerVars, readerVars, historyVars>>

(* assert_short(wr_off == BLOCK_SIZE) and return out.                      *)
Finish(w) ==
    /\ pc[w] = "finish"
    /\ Goto(w, IF wr[w] = N THEN "found" ELSE "error")
    /\ UNCHANGED <<fileVars, arg, writerVars, readerVars, historyVars>>
-----------------------------------------------------------------------------
(* The locals of the handler and of the two functions, gone for the workers*)
(* in W.                                                                   *)
Forget(W) ==
    /\ pc' = [w \in Workers |-> IF w \in W THEN "idle" ELSE pc[w]]
    /\ handed' = [w \in Workers |-> IF w \in W THEN 0 ELSE handed[w]]
    /\ off' = [w \in Workers |-> IF w \in W THEN 0 ELSE off[w]]
    /\ bad' = [w \in Workers |-> IF w \in W THEN FALSE ELSE bad[w]]
    /\ pos' = [w \in Workers |-> IF w \in W THEN 0 ELSE pos[w]]
    /\ seen' = [w \in Workers |-> IF w \in W THEN {} ELSE seen[w]]
    /\ fed' = [w \in Workers |-> IF w \in W THEN 0 ELSE fed[w]]
    /\ eof' = [w \in Workers |-> IF w \in W THEN FALSE ELSE eof[w]]
    /\ wr' = [w \in Workers |-> IF w \in W THEN 0 ELSE wr[w]]
    /\ out' = [w \in Workers |-> IF w \in W THEN Zero ELSE out[w]]
    /\ quiet' = quiet \ W

(* send_data: the reply of the handler, "Success" or, from its catch       *)
(* clause, "Error".                                                        *)
Reply(w) ==
    /\ pc[w] \in {"stored", "found", "error"}
    /\ Forget({w})
    /\ acked' = IF pc[w] = "stored" THEN acked \cup {arg[w]} ELSE acked
    /\ UNCHANGED <<fileVars, arg, damaged, contended>>

(* The process dies and is started again: every thread is gone, the files  *)
(* stay as they are.                                                       *)
Crash ==
    /\ Forget(Workers)
    /\ damaged' = damaged \cup {b \in Blocks : Writers(b) # {}}
    /\ UNCHANGED <<fileVars, arg, acked, contended>>

Write(w) ==
    \/ Create(w) \/ CompressBegin(w) \/ CompressUpdate(w) \/ CompressEnd(w)
    \/ \E upto \in 1..(N + 3) : Flush(w, upto)
    \/ Close(w)

Read(w) ==
    \/ Open(w) \/ NoSuchBlock(w)
    \/ \E upto \in 1..(N + 3) : ReadSome(w, upto)
    \/ ReadEof(w)
    \/ DecompressRaw(w) \/ DecompressPart(w) \/ DecompressBlock(w)
    \/ DecompressError(w) \/ Finish(w)

Handler(w) == Write(w) \/ Read(w) \/ Reply(w)

Next ==
    \/ \E w \in Workers :
         \/ \E b \in Blocks : DumpBlock(w, b) \/ QueryBlock(w, b)
         \/ Handler(w)
         \/ OpenFails(w) \/ CompressFails(w) \/ WriteFails(w)
    \/ Crash

Spec == Init /\ [][Next]_vars

(* Each worker is an operating system thread: it keeps running.            *)
FairSpec == Spec /\ \A w \in Workers : WF_vars(Handler(w))
-----------------------------------------------------------------------------
(* Types; wr_off stays within the array it indexes.                        *)
TypeOK ==
    /\ files \subseteq Blocks
    /\ len \in [Blocks -> 0..(N + 3)]
    /\ has \in [Blocks -> SUBSET (1..(N + 3))]
    /\ pc \in [Workers -> Pc]
    /\ arg \in [Workers -> Blocks]
    /\ handed \in [Workers -> 0..(N + 3)]
    /\ off \in [Workers -> 0..(N + 3)]
    /\ bad \in [Workers -> BOOLEAN]
    /\ pos \in [Workers -> 0..(N + 3)]
    /\ seen \in [Workers -> SUBSET (1..(N + 3))]
    /\ fed \in [Workers -> 0..(N + 3)]
    /\ eof \in [Workers -> BOOLEAN]
    /\ wr \in [Workers -> 0..N]
    /\ out \in [Workers -> [1..N -> Unit]]
    /\ acked \subseteq Blocks
    /\ damaged \subseteq Blocks
    /\ contended \subseteq Blocks
    /\ quiet \subseteq Workers

(* What dump_block promised: once a client has been told a block is stored *)
(* its whole frame is in the file, unless somebody is rewriting it or a    *)
(* writer of it was abandoned (crash, failed write, failed assertion) since*)
(* it was last truncated.  Writers of one name, however they interleave their     *)
(* truncations and writes, converge (file_access.cpp:71-84).               *)
AckedIntact ==
    \A b \in acked : Writers(b) = {} /\ b \notin damaged => Intact(b)

(* What query_block promises: the block it answers with is the block that  *)
(* was stored, even when the file was truncated and rewritten under the    *)
(* read (file_access.cpp:16-61).  For blocks LZ4 shrinks, and files no two *)
(* writers ever had open together.                                         *)
FoundIsWhole ==
    \A w \in Workers :
        pc[w] = "found" /\ arg[w] \notin Raw \cup contended => out[w] = Whole

(* The same for every block: the assertion wr_off == BLOCK_SIZE            *)
(* (file_access.cpp:56) lets a block out only when it has been restored.   *)
FoundIsStored ==
    \A w \in Workers :
        pc[w] = "found" /\ arg[w] \notin contended => out[w] = Whole

(* A read of a file that was entire when it was opened and that nobody has *)
(* truncated since finds a block, in any number of read(2) and however the *)
(* file falls into the two buffers: no error of the decoder, no failed     *)
(* assertion on wr_off (file_access.cpp:33-57).                            *)
QuietReadFinds == \A w \in quiet : pc[w] # "error"

(* Nothing but a new truncation by a writer of the same block, which is    *)
(* then at its first unit, takes away a block that is entire on disk: no   *)
(* late write, failed write, reader or crash does.                         *)
LostOnlyToRewrite ==
    [][\A b \in Blocks : Intact(b) /\ ~Intact(b)' =>
          \E w \in Workers : pc[w] = "create" /\ arg[w] = b /\ pc'[w] = "begin"]_vars

(* The handler's loops end: every request is answered, or lost in a crash. *)
RequestsAnswered ==
    \A w \in Workers : pc[w] # "idle" ~> pc[w] = "idle"
=============================================================================
