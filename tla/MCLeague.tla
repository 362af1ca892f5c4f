------------------------------ MODULE MCLeague ------------------------------
(* Finite instances of League for TLC: one controller plays against itself    *)
(* with two decks; what controllers do to the queue is LeagueLedger's.        *)
EXTENDS LeagueProperties, TLC

Controllers == {"manual"}
Kinds == [manual |-> "manual"]
Pairs == {<<"manual", "d1">>, <<"manual", "d2">>}
=============================================================================
