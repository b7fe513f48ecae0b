-------------------------------- MODULE Bits --------------------------------
(***************************************************************************)
(* Bytes, 16-bit words, and the sets of bits that are 1 in them, for the   *)
(* two CRCs of the wire protocols.                                         *)
(***************************************************************************)
EXTENDS Integers

Byte == 0..255
MaxWord == 65535

\* High and low byte of a 16-bit word, and the word of two bytes.
Hi(n) == n \div 256
Lo(n) == n % 256
Word(hi, lo) == 256 * hi + lo

BitsOf(n) == {k \in 0..15 : (n \div 2^k) % 2 = 1}

\* The number that four bits from k on make.
Nibble(bits, k) ==
    LET Bit(i) == IF i \in bits THEN 1 ELSE 0
    IN Bit(k) + 2 * Bit(k + 1) + 4 * Bit(k + 2) + 8 * Bit(k + 3)

NumberOf(bits) ==
    Nibble(bits, 0) + 16 * (Nibble(bits, 4) + 16 * (Nibble(bits, 8) + 16 * Nibble(bits, 12)))

Xor(a, b) == (a \ b) \cup (b \ a)

\* The 16-bit registers a CRC is computed in.
Register == SUBSET (0..15)
=============================================================================
