------------------------------- MODULE Packet -------------------------------
(***************************************************************************)
(* The 16-bit CRC of packet.c.  Operators apply a function to their         *)
(* arguments so that TLC evaluates each argument once.                      *)
(***************************************************************************)
EXTENDS Naturals, Sequences

\* unsigned char and unsigned short.
MaxOctet == 255
MaxWord == 65535
Octet == 0..MaxOctet
Word16 == 0..MaxWord

\* The exclusive or of two 4-bit values, and of two 16-bit values.
XorNibble ==
    [a \in 0..15 |-> [b \in 0..15 |->
        LET Bit(k) == k * (((a \div k) + (b \div k)) % 2)
        IN  Bit(1) + Bit(2) + Bit(4) + Bit(8)]]

Xor(m, n) ==
    [a \in Word16 |-> [b \in Word16 |->
        LET Nibble(k) == k * XorNibble[(a \div k) % 16][(b \div k) % 16]
        IN  Nibble(1) + Nibble(16) + Nibble(256) + Nibble(4096)]][m][n]

\* Mutant of Mix: `val ^= val << 4` without the truncation to unsigned char.
MixUntruncated == [val \in Octet |-> Xor(val, val * 16)]

\* Mutant of Mix: `val = val << 4`, assigned instead of xored.
MixAssigned == [val \in Octet |-> (val * 16) % 256]

\* `val ^= val << 4` on an unsigned char.
Mix == [val \in Octet |-> Xor(val, (val * 16) % 256)]

\* The body of crcUpdate's loop: the CRC after one more byte.
crcStep(crc, byte) ==
    [c \in Word16 |-> [b \in Octet |->
        LET val == Mix[Xor(b, c % 256)]
        IN  Xor(Xor(((val * 256) % 65536) + (c \div 256), val \div 16), val * 8)]][crc][byte]

\* mangoh_bridge_packet_crcUpdate: the CRC after a sequence of bytes.
crcUpdate(crc, bytes) ==
    LET after[idx \in 0..Len(bytes)] ==
            IF idx = 0 THEN crc ELSE crcStep(after[idx - 1], bytes[idx])
    IN  after[Len(bytes)]
=============================================================================
