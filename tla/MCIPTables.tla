----------------------------- MODULE MCIPTables -----------------------------
(***************************************************************************)
(* Small instances of IPTables.                                            *)
(***************************************************************************)
EXTENDS IPTables

OldTarget == <<"old", "return">>
=============================================================================
