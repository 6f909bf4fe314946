------------------------------- MODULE MCHost -------------------------------
(***************************************************************************)
(* Host for TLC.  40 vectors stand for 256: the exceptions, an interrupt   *)
(* without a handler of its own, and the three of the APIC.  A line buffer *)
(* of 5 truncates the long message behind the prefix, and a screen of 2    *)
(* lines of 3 columns scrolls.                                             *)
(***************************************************************************)
EXTENDS Host

MCMessages == {<<"a", "\n">>, <<"c", "d", "e", "f">>}
MCPrefix == <<"p">>
=============================================================================
