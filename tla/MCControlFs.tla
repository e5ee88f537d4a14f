---------------------------- MODULE MCControlFs ----------------------------
(* ControlFs with two properties: a flag, whose type does not accept the      *)
(* spelling of its default (lexical_cast<bool> reads "0" and "1" only), and   *)
(* one of an enumeration that may not change while the program runs.          *)
EXTENDS ControlFs, TLC

CONSTANTS flag, fixed, yes, no, junk

Defaults  == flag :> yes @@ fixed :> no
Accepted  == flag :> {no} @@ fixed :> {yes, no}
ThreeIds == 1..3
=============================================================================
