------------------------------ MODULE MCVfsTree ------------------------------
(***************************************************************************)
(* Listings in any order, with duplicates and with orphans, of up to       *)
(* MaxEntries entries over a few paths up to three names deep.             *)
(***************************************************************************)
EXTENDS VfsTree

CONSTANTS MaxEntries

TreePaths == {<<"a">>, <<"b">>, <<"a", "b">>, <<"a", "b", "a">>, <<"b", "b">>}

AllListings ==
    UNION {[1..n -> [path : TreePaths, kind : {"Dir", "File"}]] : n \in 0..MaxEntries}

MCListings == {s \in AllListings : ParentsAreDirs(s)}
=============================================================================
