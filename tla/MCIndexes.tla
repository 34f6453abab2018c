----------------------------- MODULE MCIndexes -----------------------------
(* Indexes with all four scans, in the order of updateIndexes. *)
EXTENDS Indexes

MCOrder == <<"miners", "addrindex", "addrstat", "addrbal">>
=============================================================================
