-------------------------------- MODULE Crc16 --------------------------------
(***************************************************************************)
(* crc16_calculate of androidCmdHandle_thread.c, the checksum of a frame,  *)
(* and beside it the division of polynomials that a checksum of this kind  *)
(* stands for.                                                             *)
(*                                                                         *)
(* A register is the set of the positions of its one bits, 0 the lowest:   *)
(* exclusive or is the symmetric difference, a shift adds to every         *)
(* position, and a bit that leaves a uint16_t is position 16.  A           *)
(* polynomial over GF(2) is, in the same way, the set of its exponents.    *)
(***************************************************************************)
EXTENDS Integers, Sequences

Weight == <<1, 2, 4, 8, 16, 32, 64, 128>>

\* The one bits of a byte, and the byte that has these.
Bits(byte) == {e \in 0 .. 7 : (byte \div Weight[e + 1]) % 2 = 1}

ByteOf(bits) ==
  LET w(e) == IF e \in bits THEN Weight[e + 1] ELSE 0
  IN w(0) + w(1) + w(2) + w(3) + w(4) + w(5) + w(6) + w(7)

Plus(p, q) == (p \ q) \cup (q \ p)
Up(p, n)   == {e + n : e \in p}

\* A slip: the shifts of a plain register, without the polynomial.
ShiftedOnly(crc) == Up(crc, 1) \ {16}

\* crc << 1 in a uint16_t, 0x1021 added when a one falls out.
Shifted(crc) ==
  LET doubled == Up(crc, 1) \ {16}
  IN IF 15 \in crc THEN Plus(doubled, {12, 5, 0}) ELSE doubled

\* One turn of the while loop.
AfterByte(crc, byte) ==
  LET bits[i \in 0 .. 8] == IF i = 0 THEN Plus(crc, Up(Bits(byte), 8))
                            ELSE Shifted(bits[i - 1])
  IN bits[8]

crc16_calculate(data) ==
  LET crc[i \in 0 .. Len(data)] == IF i = 0 THEN {} ELSE AfterByte(crc[i - 1], data[i])
  IN crc[Len(data)]

-----------------------------------------------------------------------------
\* The bytes as one polynomial, the last bit of the last byte its constant term,
\* times x^16.
Degrees(data) == {e \in 16 .. 8 * Len(data) + 15 :
                    (e - 16) % 8 \in Bits(data[Len(data) - ((e - 16) \div 8)])}

\* The CCITT polynomial.
Ccitt == {16, 12, 5, 0}

\* One turn of the division: the term of degree 16 + n goes.
Reduced(p, n) == IF 16 + n \in p THEN Plus(p, Up(Ccitt, n)) ELSE p

\* What is left of p, of a degree below 16 + n, when it is divided by Ccitt: the
\* terms go one by one, the highest first.
Remainder(p, n) ==
  LET left[i \in 0 .. n] == IF i = 0 THEN p ELSE Reduced(left[i - 1], n - i)
  IN left[n]
=============================================================================
