----------------------------- MODULE MCMigrate ------------------------------
(***************************************************************************)
(* Three checkouts: the current one, an older one with fewer files, and    *)
(* one whose second file was edited after the fact.                        *)
(***************************************************************************)
EXTENDS Migrate

MCDigest == {"d1", "d2", "d3", "edited"}
MCCheckout == {<<"d1", "d2", "d3">>, <<"d1", "d2">>, <<"d1", "edited">>}
=============================================================================
