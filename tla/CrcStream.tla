------------------------------ MODULE CrcStream ------------------------------
(***************************************************************************)
(* A stream of bytes and its CRC, one step for each iteration of the loop of*)
(* crcUpdate in packet.c; beside it the CRC that the loop stands for, and   *)
(* the CRCs of what the other side receives when the line inverts bits.     *)
(***************************************************************************)
EXTENDS Packet

CONSTANTS
    Seed,       \* the CRC to start from, MANGOH_BRIDGE_PACKET_CRC_RESET
    Bytes,      \* the bytes the streams are made of
    Errors,     \* errors on the line: the bits inverted in a byte (the low 8 bits) and in
                \* the byte after it (the high ones)
    MaxLength   \* bound: the length of the streams

ASSUME StreamAssumption ==
    /\ Seed \in Word16
    /\ Bytes \subseteq Octet
    /\ Errors \subseteq Word16 \ {0}

VARIABLES
    stream,     \* the bytes fed so far
    crc,        \* the CRC of the code over them
    ref,        \* the reference CRC over them
    damaged     \* the streams that came out of one error: the CRC of each, and the
                \* bits that are inverted in its next byte

crcVars == <<stream, crc, ref, damaged>>

\* The reference: polynomial x^16 + x^12 + x^5 + 1, least significant bit first,
\* one bit at a time.
RefBit(c) ==
    [d \in Word16 |-> IF d % 2 = 1 THEN Xor(d \div 2, 33800) ELSE d \div 2][c]
RefNibble(c) == RefBit(RefBit(RefBit(RefBit(c))))
RefStep(c, byte) == RefNibble(RefNibble(Xor(c, byte)))

CrcInit ==
    /\ stream = <<>>
    /\ crc = Seed
    /\ ref = Seed
    /\ damaged = {}

\* One more byte, and with it the streams damaged earlier or from this byte on.
Feed(b) ==
    /\ Len(stream) < MaxLength
    /\ stream' = Append(stream, b)
    /\ crc' = crcStep(crc, b)
    /\ ref' = RefStep(ref, b)
    /\ damaged' = {<<crcStep(d[1], Xor(b, d[2])), 0>> : d \in damaged}
                    \cup {<<crcStep(crc, Xor(b, e % 256)), e \div 256>> : e \in Errors}

CrcNext == \E b \in Bytes : Feed(b)

CrcSpec == CrcInit /\ [][CrcNext]_crcVars

-----------------------------------------------------------------------------
\* The shifts and truncations of crcUpdate, written for an 8-bit value and a
\* 16-bit register, compute the bit-serial CRC of every stream and stay within
\* 16 bits; a missing truncation shows only for some bytes.
CrcIsReference == crc = ref /\ crc \in Word16 /\ crc = crcUpdate(Seed, stream)

\* The comparison in mangoh_bridge_process_crc catches every error that inverts bits
\* of one byte or of two bytes in a row: no stream damaged in that way has the CRC
\* of the stream that was sent.
ErrorsDetected == <<crc, 0>> \notin damaged
=============================================================================
