-------------------------- MODULE MiriadaRequests --------------------------
(***************************************************************************)
(* What is sent to Miriada for a balloon, by the reader and the batch: a   *)
(* set with the request, or none when its preparation fails (ValueError).  *)
(*                                                                         *)
(* A batch is a record of batch_type, reader_number, balloons_type, truck  *)
(* (its number and the name of its type), ttn and tags; ttn and the name   *)
(* of the type are sets with at most one value.                            *)
(***************************************************************************)
EXTENDS Integers

MIRIADA_BATCH_STATUS_READERS == {2, 3, 4, 5, 6}
MIRIADA_FILLING_READERS == {8}

should_send_balloon_status_immediately(reader) == reader \in MIRIADA_FILLING_READERS

Payload(tag) == [nfctag |-> {tag}, fulness |-> {}, number_auto |-> {}, type_car |-> {},
                 id_ttn |-> {}]

build_loading_payload(tag, batch) ==
    {[Payload(tag) EXCEPT !.fulness = {1}, !.number_auto = {batch.truck.number},
                          !.type_car = {IF type = "cage" THEN 0 ELSE 1},
                          !.id_ttn = batch.ttn] :
        type \in batch.truck.type}

build_unloading_payload(tag, batch) ==
    {[Payload(tag) EXCEPT !.fulness = {IF batch.balloons_type = "f" THEN 1 ELSE 0},
                          !.id_ttn = batch.ttn] :
        kind \in {batch.balloons_type} \cap {"e", "f"}}

\* The batch handed over, if it has the type; without one, the first that is found.
get_batch(type, batch, found) ==
    LET ofType == {b \in (IF batch # {} THEN batch ELSE found) : b.batch_type = type}
    IN IF ofType = {} THEN {} ELSE {CHOOSE b \in ofType : TRUE}

\* It is looked for among the active batches of today and of the reader.
get_batch_data_for_loading(tag, batch, reader, active) ==
    UNION {build_loading_payload(tag, b) : b \in get_batch("u", batch,
               {c \in active : c.reader_number = reader /\ tag \in c.tags})}

get_batch_data_for_unloading(tag, batch, reader, active) ==
    UNION {build_unloading_payload(tag, b) : b \in get_batch("l", batch,
               {c \in active : c.reader_number = reader})}

prepare_payload_for_miriada(reader, tag, batch, active) ==
    LET To(url, payloads) == {[url |-> url, payload |-> p] : p \in payloads}
    IN IF reader = 8 THEN To("fillingballoon", {Payload(tag)})
       ELSE IF reader \in {5, 6}
       THEN To("balloontosklad", get_batch_data_for_unloading(tag, batch, reader, active))
       ELSE IF reader \in {2, 3, 4}
       THEN To("balloontocar", get_batch_data_for_loading(tag, batch, reader, active))
       ELSE {}
=============================================================================
