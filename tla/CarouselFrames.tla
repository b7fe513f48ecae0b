--------------------------- MODULE CarouselFrames ---------------------------
(***************************************************************************)
(* The 8-byte frames between the posts of a carousel and the listener      *)
(* (listener/protocol.py), and the weight a post is answered               *)
(* (listener/processing.py).  Weights are in grams; a value that may be    *)
(* None is a set of at most one element.                                   *)
(***************************************************************************)
EXTENDS Bits, SequencesExt

FRAME_SIZE == 8

REQUEST_TYPE_FILL == 122          \* 0x7A
RESPONSE_TYPE_FILL == 90          \* 0x5A
REQUEST_TYPE_FULL_WEIGHT == 112   \* 0x70
RESPONSE_TYPE_FULL_WEIGHT == 80   \* 0x50

----------------------------------------------------------------------------

\* 0x1021
poly == {0, 5, 12}

\* One turn of the inner loop: the next bit of the message is shifted in.
CrcBit(reg, bit) ==
    LET shifted == {k + 1 : k \in reg} \cup bit
    IN IF 16 \in shifted THEN Xor(shifted \ {16}, poly) ELSE shifted

CrcByte[reg \in Register, byte \in Byte] ==
    LET after[k \in 0..8] ==
            IF k = 0 THEN reg
            ELSE CrcBit(after[k - 1], IF 8 - k \in BitsOf(byte) THEN {0} ELSE {})
    IN after[8]

calc_crc(message) ==
    LET padded == message \o <<0, 0>>
        reg[i \in 0..Len(padded)] == IF i = 0 THEN 0..15 ELSE CrcByte[reg[i - 1], padded[i]]
    IN NumberOf(reg[Len(padded)])

WithCrc(payload) == payload \o <<Hi(calc_crc(payload)), Lo(calc_crc(payload))>>

validate_frame_crc(frame) ==
    /\ Len(frame) = FRAME_SIZE
    /\ Word(frame[7], frame[8]) = calc_crc(SubSeq(frame, 1, 6))

\* FrameFields: what the listener reads of a frame.
parse_request_frame(data) ==
    [request_type |-> data[1], post_number |-> data[2], weight_combined |-> Word(data[4], data[5])]

\* struct.error: the weight does not fit into two bytes.
Packable(full_weight) == full_weight \in 0..MaxWord

build_response_packet(request_type, post_number, full_weight) ==
    LET type == IF request_type = REQUEST_TYPE_FILL THEN RESPONSE_TYPE_FILL
                ELSE RESPONSE_TYPE_FULL_WEIGHT
    IN WithCrc(<<type, post_number, 255, Hi(full_weight), Lo(full_weight), 255>>)

----------------------------------------------------------------------------

is_value_in_range(value, range) ==
    /\ \A from \in range.from : value >= from
    /\ \A to \in range.to : value <= to

\* weight_correction of check_settings: one for all posts, or that of the post.
Correction(settings, post_number) ==
    IF ~settings.use_weight_management THEN {0}
    ELSE IF settings.use_common_correction THEN settings.weight_correction_value
    ELSE settings.post_correction[post_number]

Abs(n) == IF n < 0 THEN -n ELSE n

\* Seeded fault: an open range of the passport difference accepts everything, like
\* the other ranges.
DiffInRange_Open(diff, range) == is_value_in_range(diff, range)

\* Both ends of the range of the passport difference must be set.
DiffInRange(diff, range) ==
    range.from # {} /\ range.to # {} /\ is_value_in_range(diff, range)

\* int((brutto + correction) * 1000) of two floats in kilograms: the product may fall just
\* short of the gram.
Grams(weight) == {weight - 1, weight}

\* full_weight of request_processing for a popped passport; none if no response is required.
FullWeight(passport, settings, post_number) ==
    LET accepted ==
            {brutto \in passport.brutto : \E netto \in passport.netto :
                /\ passport.filling_status /\ ~settings.read_only
                /\ is_value_in_range(netto, settings.min_balloon_weight)
                /\ is_value_in_range(brutto, settings.max_balloon_weight)
                /\ DiffInRange(Abs(brutto - netto), settings.passport_weight_diff)}
    IN UNION {Grams(brutto + correction) :
                brutto \in accepted, correction \in Correction(settings, post_number)}
=============================================================================
