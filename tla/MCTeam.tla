------------------------------- MODULE MCTeam -------------------------------
(***************************************************************************)
(* An instance of Team for TLC: a founder and two others, one of whom is   *)
(* invited by mail.                                                        *)
(***************************************************************************)
EXTENDS Team

CONSTANTS f, a, b

MCUsers == {f, a, b}
MCRecipients == {b}
=============================================================================
