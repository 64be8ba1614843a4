---------------------------- MODULE MCCollections ----------------------------
(* Three keys, one of them NaN, and two iterators.                            *)
EXTENDS CollectionProperties
=============================================================================
