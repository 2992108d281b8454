---------------------------- MODULE MCMessages ------------------------------
(* The names of the fields, in the order of the dictionary.                   *)
EXTENDS Messages

MCAscending == <<"a", "id", "nodes", "q", "r", "t", "target", "y">>
=============================================================================
