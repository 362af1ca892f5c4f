--------------------------- MODULE MCLeagueLedger ---------------------------
(* Finite instances of LeagueLedger for TLC: an automatic checkpoint with two *)
(* decks and an incumbent with one of them.                                   *)
EXTENDS LeagueLedgerProperties, TLC

Controllers == {"auto", "manual"}
Kinds == [auto |-> "automatic", manual |-> "manual"]
Pairs == {<<"auto", "d1">>, <<"auto", "d2">>, <<"manual", "d1">>}
=============================================================================
