------------------------------ MODULE MCWires ------------------------------
(***************************************************************************)
(* The two wire protocols on concrete frames.                              *)
(***************************************************************************)
EXTENDS Wires

Fill == [request_type |-> 122, post_number |-> 20, weight_combined |-> 14000, fill_flag |-> 0]
Full == [request_type |-> 112, post_number |-> 20, weight_combined |-> 44000, fill_flag |-> 2]
MCRequests == {Fill, Full}

Passport == [filling_status |-> TRUE, netto |-> {19000}, brutto |-> {41000}]
MCPassports == {Passport, [Passport EXCEPT !.brutto = {70000}], [Passport EXCEPT !.netto = {}]}

Unbounded == [from |-> {}, to |-> {}]
OwnCorrection ==
    [use_weight_management |-> TRUE, use_common_correction |-> FALSE,
     weight_correction_value |-> {}, post_correction |-> [p \in {20} |-> {1000}],
     read_only |-> FALSE, min_balloon_weight |-> Unbounded, max_balloon_weight |-> Unbounded,
     passport_weight_diff |-> [from |-> {20000}, to |-> {60000}]]
MCSettings ==
    {OwnCorrection, [OwnCorrection EXCEPT !.passport_weight_diff.to = {}],
     [OwnCorrection EXCEPT !.passport_weight_diff.to = {21000}],
     [OwnCorrection EXCEPT !.use_common_correction = TRUE, !.weight_correction_value = {0},
                           !.max_balloon_weight.to = {50000}]}

\* The frames the repository's tests give as examples.
ASSUME CarouselExamples ==
    /\ WithCrc(<<122, 20, 16, 54, 176, 0>>) = <<122, 20, 16, 54, 176, 0, 13, 83>>
    /\ WithCrc(<<112, 20, 16, 171, 224, 2>>) = <<112, 20, 16, 171, 224, 2, 159, 196>>
    /\ build_response_packet(122, 20, 42000) = <<90, 20, 255, 164, 16, 255, 125, 136>>

----------------------------------------------------------------------------
(* The events of a FEIG reader: records of both known types, of a foreign  *)
(* one and without an identifier, inputs, and cut or damaged frames.       *)

Feig == INSTANCE FeigFrames

Record1 == [date |-> TRUE, time |-> TRUE, type |-> 3, id |-> <<224, 2>>]
Record2 == [date |-> FALSE, time |-> TRUE, type |-> 0, id |-> <<1, 224>>]
Record3 == [date |-> TRUE, time |-> FALSE, type |-> 9, id |-> <<5>>]
Foreign == [date |-> FALSE, time |-> FALSE, type |-> 7, id |-> <<6>>]
Untagged == [date |-> TRUE, time |-> FALSE, type |-> 3, id |-> <<>>]

Plain == [command |-> Feig!HeartbeatEvent, status |-> 0, records |-> <<>>, inputs |-> <<>>,
          cut |-> 0, damage |-> "none"]
Tags(records) == [Plain EXCEPT !.command = Feig!TagEvent, !.records = records]
Inputs(states) == [Plain EXCEPT !.command = Feig!InputEvent, !.inputs = states]

Anything ==
    {Plain, [Plain EXCEPT !.command = 49], [Plain EXCEPT !.cut = 1], [Plain EXCEPT !.cut = 2],
     Tags(<<Record1, Record2>>), Tags(<<Untagged, Record3>>),
     Tags(<<Record2, Foreign, Record1>>), [Tags(<<Record1>>) EXCEPT !.status = 148],
     Inputs(<<TRUE, FALSE>>)}
    \cup {[Tags(<<Record1, Record3>>) EXCEPT !.cut = cut] : cut \in {1, 7, 22, 25, 34, 44}}
    \cup {[Inputs(<<TRUE, TRUE>>) EXCEPT !.cut = cut] : cut \in {3, 8, 18}}
    \cup {[Plain EXCEPT !.damage = damage] : damage \in {"crc", "stx", "length"}}

MCEvents == <<Anything, {Tags(<<Record2>>), Plain, [Plain EXCEPT !.damage = "crc"]},
             {Tags(<<Record2>>)}>>

\* The lamp commands kept as finished frames in settings.py are frames of the protocol:
\* the ones create_request makes of their fields.
ASSUME LampFramesAreRequests ==
    /\ Feig!read_complete = Feig!create_request_by_code(114, <<1, 1, 129, 1, 0, 25>>)
    /\ Feig!read_complete_with_error = Feig!create_request_by_code(114, <<1, 1, 129, 11, 0, 20>>)

\* No byte within the answers to 116 commands, nor within those to fewer, can be taken for
\* the start of one.
ASSUME AnswersStartOnce == Link!OneStart(116)

\* However the requests are damaged, no other eight bytes of two in a row pass the CRC.
ASSUME RequestsApart == FramesApart
=============================================================================
