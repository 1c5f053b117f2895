------------------------------ MODULE Checksum ------------------------------
(***************************************************************************)
(* The name of a block: its CRC-64 (src/src/core/crc64sum.cpp) in          *)
(* hexadecimal (src/src/core/bin2hex.cpp).  BlockStore takes a block's     *)
(* name for the block; here two blocks are summed side by side, byte by    *)
(* byte.  A word, a byte or a digit is the set of its bits that are one,   *)
(* bit 0 the lowest, and ^ is the symmetric difference; a digit has        *)
(* DigitBits bits instead of 4, a word WordBytes bytes instead of 8.       *)
(***************************************************************************)
EXTENDS Naturals, FiniteSets, Sequences, FiniteSetsExt

CONSTANTS DigitBits,  \* bits of a hexadecimal digit
          WordBytes,  \* sizeof(crc64_value)
          Polynomial, \* the generator, its lowest coefficient in the highest bit
          LineChars,  \* max_line_char_num
          MaxBytes    \* bound: bytes of a block

ByteBits == 2 * DigitBits
Width == WordBytes * ByteBits
Low(n) == 0 .. n - 1  \* the n lowest bits

ASSUME ChecksumAssumption ==
    /\ DigitBits \in Nat \ {0} /\ WordBytes \in Nat \ {0}
    /\ Polynomial \subseteq Low(Width) /\ Width - 1 \in Polynomial
    /\ LineChars \in Nat /\ LineChars % 2 = 0 /\ LineChars > 2 * WordBytes
    /\ MaxBytes \in Nat

VARIABLES block, crc  \* two blocks, as far as they are summed, and their crc64_value

checksumVars == <<block, crc>>

Byte == SUBSET Low(ByteBits)
Both == {1, 2}

ChecksumInit ==
    /\ block = [b \in Both |-> <<>>]
    /\ crc = [b \in Both |-> Low(Width)]
-----------------------------------------------------------------------------
\* One turn of the inner loop of init_crc64, and several.
Down(x, n) == {i \in Low(Width) : i + n \in x}
Shift(x) == IF 0 \in x THEN SymDiff(Down(x, 1), Polynomial) ELSE Down(x, 1)
Shifted(x, n) == LET s[k \in 0 .. n] == IF k = 0 THEN x ELSE Shift(s[k - 1]) IN s[n]

\* Mutant: the inner loop stops one turn early.
TableShort == [i \in Byte |-> Shifted(i, ByteBits - 1)]
Table == [i \in Byte |-> Shifted(i, ByteBits)]

Update(x, byte) == SymDiff(Table[SymDiff(x, byte) \cap Low(ByteBits)], Down(x, ByteBits))

\* c_bin2hex: the two digits of a byte.
\* Mutant: the low half twice.
DigitsLow(byte) == <<byte \cap Low(DigitBits), byte \cap Low(DigitBits)>>
Digits(byte) == <<{i \in Low(DigitBits) : i + DigitBits \in byte}, byte \cap Low(DigitBits)>>

\* get_checksum_str: the bytes of the word from the lowest, and a line break after each LineChars.
NameOfSum(x) ==
    LET byte(k) == {q \in Low(ByteBits) : k * ByteBits + q \in x}
        digit(d) == Digits(byte(d \div 2))[1 + (d % 2)]
        line == LineChars + 1
    IN  [p \in 1 .. 2 * WordBytes + (2 * WordBytes) \div LineChars |->
           IF p % line = 0 THEN "newline" ELSE digit(p - 1 - (p \div line))]

UpdateBoth ==
    /\ Len(block[1]) < MaxBytes
    /\ \E d \in [Both -> Byte] :
          /\ block' = [b \in Both |-> Append(block[b], d[b])]
          /\ crc' = [b \in Both |-> Update(crc[b], d[b])]

ChecksumNext == UpdateBoth
ChecksumSpec == ChecksumInit /\ [][ChecksumNext]_checksumVars
-----------------------------------------------------------------------------
\* The bits of a block in the order they are summed: bit j of the block, from 0.
Bits(s) == {j \in Low(Len(s) * ByteBits) : j % ByteBits \in s[j \div ByteBits + 1]}

\* The powers of x modulo the generator.
Power == [n \in 0 .. MaxBytes * ByteBits |-> Shifted({0}, n)]

\* The sum is the remainder of the division by the generator: each bit of the block counts with
\* the power of x its place has, however the table puts them together byte by byte.
IsRemainder ==
    \A b \in Both :
        LET n == Len(block[b]) * ByteBits
            ones == Bits(block[b])
            sum == {i \in Low(Width) : Cardinality({j \in ones : i \in Power[n - j]}) % 2 = 1}
        IN  crc[b] = SymDiff(Shifted(Low(Width), n), sum)

\* Two blocks whose differences lie within Width bits have different names, of one line each.
NamesApart ==
    LET differ == SymDiff(Bits(block[1]), Bits(block[2]))
    IN  /\ (differ # {} /\ \A i, j \in differ : j < i + Width) =>
              NameOfSum(crc[1]) # NameOfSum(crc[2])
        /\ \A b \in Both : Len(NameOfSum(crc[b])) = 2 * WordBytes
=============================================================================
