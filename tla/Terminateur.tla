----------------------------- MODULE Terminateur -----------------------------
(***************************************************************************)
(* The two encodings by which an archive of format 7 or earlier points to  *)
(* its catalogue, byte by byte: the infinint, a number behind a byte whose *)
(* single set bit gives its width, and the terminateur, the end of the     *)
(* file, which gives in unary the distance back to an infinint.            *)
(*                                                                         *)
(* A file is a sequence of bytes, an offset counts from 0.  A result is    *)
(* the number read, or the way it failed.                                  *)
(***************************************************************************)
EXTENDS Integers, Sequences, SequencesExt

CONSTANTS
    TG,        \* bytes per group of an infinint and per unary bit, 4 in the code
    MAX_BITS   \* the longest terminateur read, 4096 bits in the code

ASSUME TerminateurConstants == TG \in Nat \ {0} /\ MAX_BITS \in Nat

Ok(value) == [result |-> "ok", value |-> value]
Failed(result) == [result |-> result, value |-> 0]

Byte(f, offset) == f[offset + 1]

\* A byte with one set bit: its leading zeros.
leading_zeros == [b \in {128, 64, 32, 16, 8, 4, 2, 1} |->
                     CHOOSE n \in 0..7 : b * 2 ^ n = 128]

BigEndian(bytes) == FoldLeft(LAMBDA value, b : value * 256 + b, 0, bytes)

\* Two groups fill a u64; whatever is wider is refused.
read_infinint(f, offset) ==
    IF offset >= Len(f) THEN Failed("io")
    ELSE IF Byte(f, offset) \notin {128, 64} THEN Failed("corrupt")
    ELSE LET data_bytes == (leading_zeros[Byte(f, offset)] + 1) * TG IN
         IF offset + 1 + data_bytes > Len(f) THEN Failed("io")
         ELSE Ok(BigEndian(SubSeq(f, offset + 2, offset + 1 + data_bytes)))

\* The run of 0xFF at the end; the byte before it holds the last bits.
padding(f) == Len(f) - SelectLastInSeq(f, LAMBDA b : b # 255)

\* The bytes with no set bits but the n high ones: 0x80, 0xC0 and so on.
HighBits == <<128, 192, 224, 240, 248, 252, 254>>
unary == [b \in Range(HighBits) |-> CHOOSE n \in 1..7 : HighBits[n] = b]

\* Faulty: the bits of the 0xFF bytes are not counted.
infinint_start_OneByte(f) ==
    LET pos == Len(f) - padding(f) - 1 IN
    pos - unary[Byte(f, pos)] * TG

\* Where the terminateur says the infinint is; negative if before the file.
infinint_start(f) ==
    LET pos == Len(f) - padding(f) - 1
        bits == 8 * padding(f) + unary[Byte(f, pos)]
    IN pos - bits * TG

read_terminateur(f) ==
    IF 8 * padding(f) > MAX_BITS \/ padding(f) = Len(f) THEN Failed("corrupt")
    ELSE IF Byte(f, Len(f) - padding(f) - 1) \notin DOMAIN unary THEN Failed("corrupt")
    ELSE IF infinint_start(f) < 0 THEN Failed("corrupt")
    ELSE read_infinint(f, infinint_start(f))

-----------------------------------------------------------------------------
(***************************************************************************)
(* The writer: libdar's infinint, as many groups as the number needs, and  *)
(* its terminateur, the infinint filled up to whole groups, then one bit   *)
(* per group, the bits that do not fill a byte first.                      *)
(***************************************************************************)
Zeros(n) == [i \in 1..n |-> 0]
Digits(n, width) == [i \in 1..width |-> (n \div 256 ^ (width - i)) % 256]
groups(n) == CHOOSE k \in 1..8 : /\ n < 256 ^ (k * TG)
                                 /\ \A j \in 1..(k - 1) : n >= 256 ^ (j * TG)
\* With `wide` groups, of which the first may be zeros.
WrittenInfinint(n, wide) ==
    <<2 ^ (8 - wide)>> \o Zeros((wide - groups(n)) * TG) \o Digits(n, groups(n) * TG)

WrittenTerminateur(n, wide) ==
    LET infinint == WrittenInfinint(n, wide)
        fill == (TG - (Len(infinint) % TG)) % TG
        bits == (Len(infinint) + fill) \div TG
    IN infinint \o Zeros(fill)
           \o <<HighBits[bits % 8]>> \o [i \in 1..(bits \div 8) |-> 255]
=============================================================================
