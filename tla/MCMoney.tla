------------------------------ MODULE MCMoney -------------------------------
(***************************************************************************)
(* A ten-bit word: the cents of a text reach the limit, fall one short of  *)
(* it and exceed it, and whole parts reach and exceed the unsigned range.  *)
(***************************************************************************)
EXTENDS MoneyAccount

MCWholes == {0, 1, 4, 5, 6, 10, 1023, 1024}
MCFractions == {<<>>, <<1>>, <<9>>, <<0, 1>>, <<1, 1>>, <<1, 2>>, <<1, 3>>, <<9, 9>>}
=============================================================================
