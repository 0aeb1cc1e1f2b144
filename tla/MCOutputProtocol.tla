---------------------------- MODULE MCOutputProtocol ----------------------------
(***************************************************************************)
(* A small instance of OutputProtocol: a writer, its output and a reader.  *)
(***************************************************************************)
EXTENDS OutputProtocol

CONSTANTS w1, raw

OneWriter  == {w1}
OneName    == {raw}
OneOutput  == [w \in OneWriter |-> <<raw>>]
==============================================================================
