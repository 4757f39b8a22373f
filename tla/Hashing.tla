------------------------------- MODULE Hashing -------------------------------
(***************************************************************************)
(* The hash functions of object.c: _Py_HashDouble() of patches/3.3 and of  *)
(* patches/2.7, _Py_HashPointer() and _Py_HashBytes(), with words of a few *)
(* bits.  A finite double is sign * num * 2^exp, num odd or zero.  The     *)
(* hash of an integer is external, in longobject.c and intobject.c.        *)
(***************************************************************************)
EXTENDS Integers, Sequences, SequencesExt
LOCAL INSTANCE Bitwise

CONSTANTS
  HashBits,      \* _PyHASH_BITS
  ChunkBits,     \* 28
  MantissaBits,  \* of a double
  LongBits,      \* of a long, a pointer and Py_hash_t
  MaxExp         \* bound: the exponent of num

ASSUME HashingAssumption ==
  /\ {HashBits, ChunkBits, MantissaBits, LongBits, MaxExp} \subseteq Nat \ {0}
  /\ ChunkBits < HashBits /\ HashBits < LongBits /\ 4 < LongBits

VARIABLE hashed  \* what was hashed, by which function

HashInit == hashed = [f |-> "none"]

Modulus == 2^HashBits - 1
Long(x) == LET w == x % 2^LongBits IN IF w < 2^(LongBits - 1) THEN w ELSE w - 2^LongBits

\* Mutant: -1 is noticed before the sign is applied.
NotErrorBefore(x, sign) == sign * (IF Long(x) = -1 THEN -2 ELSE x)

\* -1 says that there was an error, and is no hash.
NotError(x, sign) == IF Long(sign * x) = -1 THEN -2 ELSE Long(sign * x)

\* frexp(): the fraction, in units of 2^-MantissaBits, and the exponent.
Length(num) == CHOOSE n \in 0 .. MantissaBits : num < 2^n /\ (n > 0 => num >= 2^(n - 1))
Frexp(d) == [m |-> d.num * 2^(MantissaBits - Length(d.num)),
             e |-> IF d.num = 0 THEN 0 ELSE d.exp + Length(d.num)]

-----------------------------------------------------------------------------
(* 3.3                                                                     *)

\* x * 2^n modulo Modulus
Rotated(x, n) == ((x * 2^n) % 2^HashBits) + (x \div 2^(HashBits - n))

\* "process 28 bits at a time": [x, e] when nothing is left of m.
RECURSIVE Chunks(_, _, _)
Chunks(m, x, e) ==
  IF m = 0 THEN [x |-> x, e |-> e]
  ELSE LET scaled == m * 2^ChunkBits
           sum == Rotated(x, ChunkBits) + scaled \div 2^MantissaBits
       IN Chunks(scaled % 2^MantissaBits,
                 IF sum >= Modulus THEN sum - Modulus ELSE sum, e - ChunkBits)

\* Mutant: the remainder of C, whose sign is that of e, made positive.
ExponentTruncated(e) == IF e >= 0 THEN e % HashBits ELSE (-e) % HashBits

\* Neither % in it has a negative operand.
Exponent(e) == IF e >= 0 THEN e % HashBits ELSE HashBits - 1 - ((-1 - e) % HashBits)

HashDouble(d) ==
  LET f == Frexp(d)
      c == Chunks(f.m, 0, f.e)
  IN NotError(Rotated(c.x, Exponent(c.e)), d.sign)

-----------------------------------------------------------------------------
(* 2.7, and what is the same.                                              *)

\* The hash of an int or a long, external: itself when a long has room for it.
HashLong(n) ==
  LET abs == IF n < 0 THEN -n ELSE n
  IN NotError(abs % (2^LongBits - 1), IF n < 0 THEN -1 ELSE 1)

\* intpart > LONG_MAX/2 || -intpart > LONG_MAX/2
IsBig(num) == num > (2^(LongBits - 1) - 1) \div 2

\* Another double gives the sum of two parts of its fraction and its exponent.
HashDouble27(d) ==
  LET f == Frexp(d)
      scale == 2^(LongBits - 1)
      hipart == (f.m * scale) \div 2^MantissaBits
      low == (((f.m * scale) % 2^MantissaBits) * scale) \div 2^MantissaBits
      value == d.num * 2^d.exp
  IN CASE d.exp >= 0 /\ IsBig(value) -> HashLong(d.sign * value)
       [] d.exp >= 0 /\ ~IsBig(value) -> NotError(d.sign * value, 1)
       [] d.exp < 0 -> NotError(d.sign * (hipart + low) + f.e * 2^(LongBits \div 2), 1)

\* The address, rotated by 4 bits.
HashPointer(p) == NotError((p \div 16) + ((p * 2^(LongBits - 4)) % 2^LongBits), 1)

\* _PyHASH_MULTIPLIER is 1000003, whose low seven bits are those of 67.
HashBytes(bytes, prefix, suffix) ==
  LET mixed(x, byte) == ((67 * x) % 2^LongBits) ^^ byte
      first == prefix ^^ ((Head(bytes) * 2^7) % 2^LongBits)
  IN IF bytes = <<>> THEN 0
     ELSE NotError((FoldLeft(mixed, first, bytes) ^^ Len(bytes)) ^^ suffix, 1)

-----------------------------------------------------------------------------
Doubles ==
  {d \in [sign : {-1, 1}, num : 0 .. 2^MantissaBits - 1, exp : -MaxExp .. MaxExp] :
     d.num % 2 = 1 \/ (d.num = 0 /\ d.exp = 0)}

\* A word has few bits, and so have the bytes.
HashPick ==
  /\ hashed.f = "none"
  /\ \/ \E d \in Doubles : hashed' = [f |-> "double", d |-> d]
     \/ \E p \in 0 .. 2^LongBits - 1 : hashed' = [f |-> "pointer", p |-> p]
     \/ \E bytes \in BoundedSeq({0, 1, 5, 15}, 3), prefix, suffix \in {0, 21, 2^LongBits - 1} :
          hashed' = [f |-> "bytes", bytes |-> bytes, prefix |-> prefix, suffix |-> suffix]

\* The hashes of what was picked, by version.
Hashes ==
  CASE hashed.f = "double" -> {HashDouble(hashed.d), HashDouble27(hashed.d)}
    [] hashed.f = "pointer" -> {HashPointer(hashed.p)}
    [] hashed.f = "bytes" -> {HashBytes(hashed.bytes, hashed.prefix, hashed.suffix)}
    [] hashed.f = "none" -> {}

-----------------------------------------------------------------------------
\* Numbers that are equal have one hash, whatever their types: the hash of a
\* double is that of the rational, the reduction of |d| modulo 2^n - 1 with the
\* sign of d, in 3.3; in 2.7 it is that of the integer, if it is one
\* (3.3 object.c:639-694, 2.7 object.c:1041).
EqualHashEqual ==
  hashed.f = "double" =>
    LET d == hashed.d
        reduced == CHOOSE r \in 0 .. Modulus - 1 :
                     IF d.exp >= 0 THEN r = (d.num * 2^d.exp) % Modulus
                     ELSE (r * 2^(-d.exp)) % Modulus = d.num % Modulus
    IN /\ HashDouble(d) = NotError(reduced, d.sign)
       /\ d.exp >= 0 => HashDouble27(d) = HashLong(d.sign * d.num * 2^d.exp)

\* No hash looks like an error, and each fits its type (object.c:736).
NeverMinusOne == \A h \in Hashes : h # -1 /\ h \in -2^(LongBits - 1) .. 2^(LongBits - 1) - 1

=============================================================================
