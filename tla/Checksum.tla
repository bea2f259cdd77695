----------------------------- MODULE Checksum -----------------------------
(***************************************************************************)
(* The checksum of the packets: crc16 of the injector (injector.py), which *)
(* is hazard_packet_crc16 of the nodes (HazardPacket.cpp), bit by bit.     *)
(* Packets are sequences of bits, the lowest bit of a byte first.          *)
(***************************************************************************)
EXTENDS Integers, Sequences

Bit == {0, 1}
BitXor(a, b) == (a + b) % 2

Bits(n, width) ==
    LET left[i \in 1 .. width] == IF i = 1 THEN n ELSE left[i - 1] \div 2
    IN  [i \in 1 .. width |-> left[i] % 2]

\* Mutant: the register is only turned, without a polynomial.
ShiftTurned(reg, bit) ==
    [k \in 1 .. 16 |-> IF k = 16 THEN BitXor(reg[1], bit) ELSE reg[k + 1]]

\* One bit more: what drops out of the register, with that bit, decides whether 0xA001
\* (the bits 16, 14 and 1) is added.
Shift(reg, bit) ==
    LET out == BitXor(reg[1], bit)
    IN  [k \in 1 .. 16 |-> CASE k = 16          -> out
                             [] k \in {1, 14}   -> BitXor(reg[k + 1], out)
                             [] k \notin {1, 14, 16} -> reg[k + 1]]

\* crc16: the register of 16 bits, from all ones, after all bits.
Crc16(bits) ==
    LET reg[i \in 0 .. Len(bits)] ==
            IF i = 0 THEN [k \in 1 .. 16 |-> 1] ELSE Shift(reg[i - 1], bits[i])
    IN  reg[Len(bits)]

\* The last 16 bits of a packet are the checksum of the others.
CrcValid(packet) ==
    Crc16(SubSeq(packet, 1, Len(packet) - 16)) = SubSeq(packet, Len(packet) - 15, Len(packet))
=============================================================================
