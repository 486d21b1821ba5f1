--------------------------- MODULE MCDatabaseList ---------------------------
(***************************************************************************)
(* An instance of DatabaseList for TLC: names of one and two characters.   *)
(***************************************************************************)
EXTENDS DatabaseList

CONSTANTS d1, d2, d3

NameLength == [d \in Databases |-> IF d = d2 THEN 2 ELSE 1]
=============================================================================
