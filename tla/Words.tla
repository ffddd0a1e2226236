-------------------------------- MODULE Words --------------------------------
(***************************************************************************)
(* The arithmetic of compiler.h on words of one, two, four and eight bytes: *)
(* bit fields, counting of zeros, logarithm, reversal of bits and of bytes,  *)
(* alignment, and the extrema that the processor's signed instructions       *)
(* compute.  A word is the set of the places of its ones.                   *)
(***************************************************************************)
EXTENDS Integers
LOCAL Sets == INSTANCE FiniteSetsExt

CONSTANTS
  Byte,    \* bits of a byte
  Samples  \* bound: words that the second argument is taken from

U8  == Byte
U16 == 2 * Byte
U32 == 4 * Byte
U64 == 8 * Byte

Word(n)       == SUBSET (0..n - 1)
Cast(w, n)    == {b \in w : b < n}
Left(w, k, n) == Cast({b + k : b \in w}, n)
Right(w, k)   == {b - k : b \in {c \in w : c >= k}}
WordOf        == [n \in 0..2^U32 - 1 |-> {b \in 0..U32 - 1 : (n \div 2^b) % 2 = 1}]
Value         == [w \in Word(U32) |-> Sets!MapThenSumSet(LAMBDA b : 2^b, w)]

-----------------------------------------------------------------------------
(* Bits and bit fields.  For zero the instruction of clz and ctz gives the  *)
(* width.                                                                   *)

Rd_bits(value, mask)       == value \cap mask
Wr_bits(word, mask, bits)  == (word \ mask) \cup (bits \cap mask)
Tst_bits(value, mask)      == Rd_bits(value, mask) # {}
Clr_bits(word, mask)       == word \ mask
Set_bits(word, mask)       == word \cup mask
Tgl_bits(word, mask)       == (word \ mask) \cup (mask \ word)

clz(w) == IF w = {} THEN U32 ELSE U32 - 1 - Sets!Max(w)
ctz(w) == IF w = {} THEN U32 ELSE Sets!Min(w)

Rd_bitfield(value, mask)        == Right(Rd_bits(value, mask), ctz(mask))
Unshifted(word, mask, field)    == Wr_bits(word, mask, field)  \* MUTANT: the field is not moved to its place
Wr_bitfield(word, mask, field)  == Wr_bits(word, mask, Left(field, ctz(mask), U32))

(* The logarithm of a constant is a chain of tests from the highest bit on, *)
(* and must not be of zero.                                                 *)
ilog2_constant(w) == CHOOSE b \in w : \A c \in w : c <= b
ilog2(w)          == U32 - 1 - clz(w)

-----------------------------------------------------------------------------
(* Reversals. *)

bit_reverse32(w) == {U32 - 1 - b : b \in Cast(w, U32)}
bit_reverse8(w)  == Cast(Right(bit_reverse32(Cast(w, U8)), 3 * Byte), U8)
bit_reverse16(w) == Cast(Right(bit_reverse32(Cast(w, U16)), 2 * Byte), U16)
bit_reverse64(w) == bit_reverse32(Right(w, U32)) \cup Left(bit_reverse32(w), U32, U64)

Swap16(w) == Cast(Right(Cast(w, U16), Byte) \cup Left(Cast(w, U16), Byte, U32), U16)
Swap32(w) == Swap16(Right(Cast(w, U32), U16)) \cup Left(Swap16(w), U16, U32)
Swap64(w) == Swap32(Right(Cast(w, U64), U32)) \cup Left(Swap32(w), U32, U64)

(* The k-th byte of n in memory, which begins with the most significant one; *)
(* LSB counts from the other end.                                           *)
MSB(w, k, n) == Cast(Right(w, (n - 1 - k) * Byte), U8)
LSB(w, k, n) == MSB(w, n - 1 - k, n)

-----------------------------------------------------------------------------
(* Alignment with a boundary, a power of two, and extrema.  Additions wrap;  *)
(* min, max and abs take their arguments for signed integers, Min, Max and   *)
(* Abs are those of C.                                                      *)

Low(n)               == WordOf[Value[n] - 1]
Test_align(val, n)   == ~Tst_bits(val, Low(n))
Get_align(val, n)    == Rd_bits(val, Low(n))
Set_align(w, n, alg) == Wr_bits(w, Low(n), alg)
Align_up(val, n)     == WordOf[(Value[val] + Value[Low(n)]) % 2^U32] \ Low(n)
Align_down(val, n)   == val \ Low(n)

Signed(v)   == IF v >= 2^(U32 - 1) THEN v - 2^U32 ELSE v
Abs(a)      == IF a < 0 THEN -a ELSE a
Min(a, b)   == IF a < b THEN a ELSE b
Max(a, b)   == IF a > b THEN a ELSE b
abs(a)      == Signed(Abs(Signed(a)) % 2^U32)
min(a, b)   == IF Signed(b) < Signed(a) THEN b ELSE a
max(a, b)   == IF Signed(b) > Signed(a) THEN b ELSE a

-----------------------------------------------------------------------------
(* A program calls one of them after another. *)

VARIABLES
  fn, x, y,  \* the call: the function and its arguments, a mask, a boundary or half a word
  r          \* its result

vars == <<fn, x, y, r>>

Masks      == {lo..hi : lo, hi \in 0..U32 - 1} \ {{}}
Boundaries == {{b} : b \in 0..U32 - 1}
Half(w, v) == w \cup Left(v, U32, U64)

Call(f, a, b, result) == fn' = f /\ x' = a /\ y' = b /\ r' = result

Init == fn = "none" /\ x = {} /\ y = {} /\ r = {}

WriteField == \E w \in Samples, m \in Masks, f \in Word(U8) : Call("Wr_bitfield", <<w, f>>, m, Wr_bitfield(w, m, f))
TakeLog    == \E w \in Word(U32) : Call("ilog2", w, {}, ilog2(w))
Reverse    ==
  \E w \in Word(U32) :
    \/ Call("bit_reverse8", w, {}, bit_reverse8(w)) \/ Call("bit_reverse16", w, {}, bit_reverse16(w))
    \/ Call("Swap16", w, {}, Swap16(w)) \/ Call("Swap32", w, {}, Swap32(w))
    \/ \E v \in Samples : \/ Call("bit_reverse64", w, v, bit_reverse64(Half(w, v)))
                          \/ Call("Swap64", w, v, Swap64(Half(w, v)))
Align      ==
  \E w \in Word(U32), n \in Boundaries :
    \/ Call("Align_up", w, n, Align_up(w, n)) \/ Call("Align_down", w, n, Align_down(w, n))
    \/ \E v \in Samples : Call("Set_align", <<w, v>>, n, Set_align(w, n, v))
Extremum   ==
  \E w \in Word(U32), v \in Samples :
    \/ Call("min", w, v, min(Value[w], Value[v])) \/ Call("max", w, v, max(Value[w], Value[v]))
    \/ Call("abs", w, v, abs(Value[w]))

Return     == fn # "none" /\ fn' = "none" /\ x' = {} /\ y' = {} /\ r' = {}

Next == (fn = "none" /\ (WriteField \/ TakeLog \/ Reverse \/ Align \/ Extremum)) \/ Return

Spec == Init /\ [][Next]_vars

-----------------------------------------------------------------------------
(* Every function gives what its description says, for every word, the edges *)
(* of its width included: a bit field reads back as it was written, cut to   *)
(* its place, and its neighbours stay; the logarithm is the one rounded down, *)
(* -1 for zero; bits and bytes come back in the opposite order from both     *)
(* halves of a double word; alignment is the next multiple unless there is   *)
(* none; minimum and maximum are those of two integers below half the range. *)
(* (Wr_bitfield, ilog2, bit_reverse64, Swap64, Align_up, min)               *)
Mirrored(a, b, n)  == \A k \in 0..n - 1 : k \in a <=> n - 1 - k \in b
BytesTurned(a, b, n) == \A k \in 0..n - 1 : MSB(a, k, n) = LSB(b, k, n)
WordsAsDescribed ==
  CASE fn = "Wr_bitfield"   -> /\ Rd_bitfield(r, y) = {b \in x[2] : b + ctz(y) \in y}
                               /\ Clr_bits(r, y) = Clr_bits(x[1], y)
    [] fn = "ilog2"         -> IF x = {} THEN r = -1
                               ELSE /\ r = ilog2_constant(x)
                                    /\ 2^r <= Value[x] /\ Value[x] < 2^(r + 1)
    [] fn = "bit_reverse8"  -> Mirrored(Cast(x, U8), r, U8)
    [] fn = "bit_reverse16" -> Mirrored(Cast(x, U16), r, U16)
    [] fn = "bit_reverse64" -> Mirrored(Half(x, y), r, U64)
    [] fn = "Swap16"        -> BytesTurned(Cast(x, U16), r, 2)
    [] fn = "Swap32"        -> BytesTurned(x, r, 4)
    [] fn = "Swap64"        -> BytesTurned(Half(x, y), r, 8)
    [] fn = "Align_up"      -> /\ Test_align(r, y)
                               /\ Value[r] - Value[x] \in (IF Value[x] > 2^U32 - Value[y] THEN {-Value[x]}
                                                           ELSE 0..Value[y] - 1)
    [] fn = "Align_down"    -> Test_align(r, y) /\ Value[x] - Value[r] \in 0..Value[y] - 1
    [] fn = "Set_align"     -> Get_align(r, y) = Get_align(x[2], y) /\ Align_down(r, y) = Align_down(x[1], y)
    [] fn = "abs"           -> r = Abs(Signed(Value[x])) \/ Value[x] = 2^(U32 - 1)
    [] fn \in {"min", "max"} ->
         U32 - 1 \in x \cup y \/ r = (IF fn = "min" THEN Min(Value[x], Value[y]) ELSE Max(Value[x], Value[y]))
    [] OTHER -> TRUE
=============================================================================
