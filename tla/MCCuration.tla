----------------------------- MODULE MCCuration -----------------------------
(* A small instance of Curation.                                           *)
EXTENDS Curation

MCParts == <<"part one", "part two">>
MCGatherings == {<<"joined", "opened">>}
=============================================================================
