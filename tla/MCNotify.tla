------------------------------ MODULE MCNotify ------------------------------
(***************************************************************************)
(* KumNotify.tla for TLC: a message that asks for a time, one with no body *)
(* whose time is not read, and one of no summary.                          *)
(***************************************************************************)
EXTENDS KumNotify

Message(s, b, t) == [app |-> TRUE, summary |-> s, body |-> b, time |-> t]

MCMessages == {Message(TRUE, TRUE, 1), Message(TRUE, FALSE, 1),
               Message(FALSE, TRUE, 1)}
=============================================================================
