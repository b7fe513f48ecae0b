-------------------------------- MODULE Wires --------------------------------
(***************************************************************************)
(* The two wire protocols, the one of the carousels (CarouselTransport)    *)
(* and the one of the FEIG readers (FeigLink).  They share nothing; each   *)
(* is exercised from initial states of its own while the other one rests.  *)
(***************************************************************************)
EXTENDS CarouselTransport

\* Those of FeigLink.
CONSTANTS Events, Segments, MaxCommands

VARIABLES sent, unsent, inbox, count, pc, header, handled, acks, refused,
          conn, asked, pending, coming, answers, start, took, disturbed

Link == INSTANCE FeigLink

ASSUME EventsAssumption == Link!LinkAssumption

feigVars == <<sent, unsent, inbox, count, pc, header, handled, acks, refused,
              conn, asked, pending, coming, answers, start, took, disturbed>>

----------------------------------------------------------------------------

WiresInit == Init /\ Link!Init

\* Whoever takes the first step is the one that is exercised.
WiresNext ==
    \/ Init /\ Link!Next /\ UNCHANGED transVars
    \/ Link!Init /\ conn = "none" /\ Next /\ UNCHANGED feigVars

WiresSpec == WiresInit /\ [][WiresNext]_<<transVars, feigVars>>

----------------------------------------------------------------------------
(* What FeigLink states, and the types of both.                            *)

WiresTypeOK == TypeOK /\ Link!TypeOK
EventsExact == Link!EventsExact
AcksInOrder == Link!AcksInOrder
AnswersMatch == Link!AnswersMatch
=============================================================================
