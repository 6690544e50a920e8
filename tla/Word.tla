-------------------------------- MODULE Word --------------------------------
(***************************************************************************)
(* The int of C and Java, 32 bits wide, as a pair of 16 bit halves, the high *)
(* one first, so that no number in the model is wider than that of TLC.     *)
(***************************************************************************)
EXTENDS Integers, Sequences

Half == 65536
Zero == <<0, 0>>

\* The word for an integer.
WordOf(n) == <<(n \div Half) % Half, n % Half>>

\* Overflow wraps around, as the build of the C code and Java both do.
Add(a, b) ==
  LET low == a[2] + b[2] IN <<(a[1] + b[1] + (low \div Half)) % Half, low % Half>>

Complement(a) == <<Half - 1 - a[1], Half - 1 - a[2]>>

\* The bits that both halves have.
AndHalf(x, y) ==
  LET Both(bit) == IF (x \div bit) % 2 = 1 /\ (y \div bit) % 2 = 1 THEN bit ELSE 0
  IN Both(1) + Both(2) + Both(4) + Both(8) + Both(16) + Both(32) + Both(64) + Both(128)
     + Both(256) + Both(512) + Both(1024) + Both(2048) + Both(4096) + Both(8192) + Both(16384) + Both(32768)

AndWord(a, b) == <<AndHalf(a[1], b[1]), AndHalf(a[2], b[2])>>

Negative(a) == a[1] >= Half \div 2
Positive(a) == ~Negative(a) /\ a # Zero

\* 2^n, for n up to 16.
TwoTo(n) ==
  <<1, 2, 4, 8, 16, 32, 64, 128, 256, 512, 1024, 2048, 4096, 8192, 16384, 32768, 65536>>[n + 1]

\* The shift count is taken modulo 32: by the definition of Java, and by the shift instructions
\* that a C compiler emits for x86.
ShiftLeft(a, count) ==
  LET n == count % 32 IN
    IF n < 16 THEN <<(a[1] * TwoTo(n) + a[2] \div TwoTo(16 - n)) % Half, (a[2] * TwoTo(n)) % Half>>
    ELSE <<(a[2] * TwoTo(n - 16)) % Half, 0>>

\* The sign is shifted in.
ShiftRight(a, count) ==
  LET n == count % 32
      High(k) == a[1] \div TwoTo(k) + (IF Negative(a) THEN Half - TwoTo(16 - k) ELSE 0)
  IN CASE n = 0 -> a
       [] n \in 1 .. 15 -> <<High(n), ((a[1] * TwoTo(16 - n)) % Half) + (a[2] \div TwoTo(n))>>
       [] n >= 16 -> <<IF Negative(a) THEN Half - 1 ELSE 0, High(n - 16)>>

\* Four bytes, that at the lowest address first, and the word they make.
bytesToInteger(b) == <<256 * b[1] + b[2], 256 * b[3] + b[4]>>

integerToBytes(w) == <<w[1] \div 256, w[1] % 256, w[2] \div 256, w[2] % 256>>

bigEndianValue(mem) == <<256 * mem[1] + mem[2], 256 * mem[3] + mem[4]>>
littleEndianValue(mem) == <<256 * mem[4] + mem[3], 256 * mem[2] + mem[1]>>
=============================================================================
