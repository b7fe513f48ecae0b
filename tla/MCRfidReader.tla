---------------------------- MODULE MCRfidReader ----------------------------
(* Instances of RfidReader for TLC. *)
EXTENDS RfidReader, TLC

CONSTANTS t1, t2, t3, noise

\* Two balloons at once; a third one beside a stranger's transponder; then one of the
\* first two again: the filter has forgotten t1 when the third came in between.
MCTagEvents == <<{<<t1, t2>>}, {<<noise, t3>>}, {<<t1>>, <<t2>>}>>
=============================================================================
