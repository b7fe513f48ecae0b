----------------------------- MODULE FeigFrames -----------------------------
(***************************************************************************)
(* Frames of the FEIG readers (class FeigProtocol and the constants of     *)
(* rfid_utils/settings.py): CRC, building of requests, checking of frames  *)
(* and parsing of their payloads.  A byte is a number below 256; positions *)
(* in a payload are counts of the bytes before them, as in the code.       *)
(***************************************************************************)
EXTENDS Bits, SequencesExt

(* CRC-16: the register is the set of its bits that are 1.                 *)

\* 0x8408
Polynomial == {3, 10, 15}

ShiftRight(bits) == {k - 1 : k \in bits \ {0}}

CrcBit(crc) ==
    IF 0 \in crc THEN Xor(ShiftRight(crc), Polynomial) ELSE ShiftRight(crc)

\* One round of the outer loop: crc ^ byte, then eight shifts.
CrcByte[crc \in Register, byte \in Byte] ==
    LET shifted[k \in 0..8] ==
            IF k = 0 THEN Xor(crc, BitsOf(byte)) ELSE CrcBit(shifted[k - 1])
    IN shifted[8]

crc16(data) ==
    LET crc[i \in 0..Len(data)] == IF i = 0 THEN 0..15 ELSE CrcByte[crc[i - 1], data[i]]
    IN NumberOf(crc[Len(data)])

----------------------------------------------------------------------------
(* Building and checking frames.                                           *)

STX == 2

\* The shortest frame: STX, length, address, command, CRC.
MinLength == 7

\* CRC16 over everything before it, least significant byte first.
WithCrc(packet) == Append(Append(packet, Lo(crc16(packet))), Hi(crc16(packet)))

\* Requests, acknowledgements, and also the frames of the reader: com_adr is 255
\* in the former.
Frame(com_adr, data) ==
    LET length == Len(data) + 6
    IN WithCrc(<<STX, Hi(length), Lo(length), com_adr>> \o data)

create_request_by_code(command, data) == Frame(255, <<command % 256>> \o data)

Invalid == [valid |-> FALSE, data |-> <<>>]

\* parse_response of a frame whose length field is at least MinLength, which read_frame
\* sees to, or of what send_raw read; "valid" with the payload, or not.
parse_response(r) ==
    LET length == Word(r[2], r[3])
        received == Word(r[length], r[length - 1])
    IN IF r = <<>> \/ r[1] # STX \/ Len(r) < length THEN Invalid
       ELSE IF received # crc16(SubSeq(r, 1, length - 2)) THEN Invalid
       ELSE [valid |-> TRUE, data |-> SubSeq(r, 5, length - 2)]

----------------------------------------------------------------------------
(* Payloads: command, status, then what the command brings.                *)

Has(data, n) == Len(data) >= n

U16(data, pos) == Word(data[pos + 1], data[pos + 2])

\* The low byte of a record layout: DATE, TIME and IDD are its bits 0, 1 and 2.
LayoutBits(data, pos) == BitsOf(data[pos + 4])

\* Bytes of an IDD before the identifier; its length is the last of them.
IddHeader == [type \in {0, 3, 9} |-> CASE type = 0 -> 2 [] type = 3 -> 4 [] type = 9 -> 3]

\* Result of parsing one record: the position behind it and its tags (none for
\* a record without IDD), or a break out of the loop over the records.
Break == [broken |-> TRUE, pos |-> 0, tags |-> <<>>]
Parsed(pos, tags) == [broken |-> FALSE, pos |-> pos, tags |-> tags]

\* Identifier, then the inputs (2 bytes) and signals (4 bytes) every IDD is followed by.
Idd(data, pos) ==
    IF ~Has(data, pos + 1) THEN Break
    ELSE IF data[pos + 1] \notin DOMAIN IddHeader THEN Break
    ELSE LET header == IddHeader[data[pos + 1]]
             behind == pos + header + data[pos + header]
         IN IF ~Has(data, pos + header + 1) \/ ~Has(data, behind + 6) THEN Break
            ELSE Parsed(behind + 6, <<Reverse(SubSeq(data, pos + header + 1, behind))>>)

\* Seeded fault: records in another order of the optional sectors.
Record_IddOnly(data, pos) ==
    IF ~Has(data, pos + 4) THEN Break
    ELSE IF 2 \in LayoutBits(data, pos) THEN Idd(data, pos + 4) ELSE Parsed(pos + 4, <<>>)

\* One record of a tag event: layout, DATE (5 bytes), TIME (4 bytes), IDD.
Record(data, pos) ==
    IF ~Has(data, pos + 4) THEN Break
    ELSE LET layout == LayoutBits(data, pos)
             sectors == pos + 4 + (IF 0 \in layout THEN 5 ELSE 0)
                                + (IF 1 \in layout THEN 4 ELSE 0)
         IN IF ~Has(data, sectors) THEN Break
            ELSE IF 2 \in layout THEN Idd(data, sectors)
            ELSE Parsed(sectors, <<>>)

\* The loop over the data sets; a break in any of them ends it.
ReadTags(data) ==
    LET after[i \in 0..U16(data, 2)] ==
            IF i = 0 THEN Parsed(4, <<>>)
            ELSE LET was == after[i - 1]
                     next == Record(data, was.pos)
                 IN IF was.broken THEN was
                    ELSE IF next.broken THEN [was EXCEPT !.broken = TRUE]
                    ELSE Parsed(next.pos, was.tags \o next.tags)
    IN IF Has(data, 4) THEN after[U16(data, 2)].tags ELSE <<>>

\* IN1 of the current state (the second word) of each record of an input event;
\* the one layout must have the inputs at bit 2 or bit 12.
ReadInputs(data) ==
    LET layout == BitsOf(Word(data[7], data[8]))
        fit == (Len(data) - 8) \div 8
        sets == U16(data, 2)
    IN IF ~Has(data, 8) \/ layout \cap {2, 12} = {} THEN <<>>
       ELSE [i \in 1..Min({sets, fit}) |-> 0 \in BitsOf(data[8 * i + 8])]

HeartbeatEvent == 42   \* 0x2A
TagEvent == 43         \* 0x2B
InputEvent == 44       \* 0x2C

\* parse_buffer_data: "short" for less than two bytes; a status other than 0 is all
\* that is returned of a payload that has one.
parse_buffer_data(data) ==
    IF ~Has(data, 2) THEN [short |-> TRUE, command |-> 0, tags |-> <<>>, inputs |-> <<>>]
    ELSE [short |-> FALSE, command |-> data[1],
          tags |-> IF data[2] = 0 /\ data[1] = TagEvent THEN ReadTags(data) ELSE <<>>,
          inputs |-> IF data[2] = 0 /\ data[1] = InputEvent THEN ReadInputs(data) ELSE <<>>]

----------------------------------------------------------------------------
(* The lamp commands kept as finished frames in rfid_utils/settings.py.    *)

read_complete == <<2, 0, 13, 255, 114, 1, 1, 129, 1, 0, 25, 35, 107>>
read_complete_with_error == <<2, 0, 13, 255, 114, 1, 1, 129, 11, 0, 20, 188, 195>>
=============================================================================
