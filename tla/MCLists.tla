------------------------------ MODULE MCLists ------------------------------
(***************************************************************************)
(* A small instance of Lists: two observables that are drained and one or  *)
(* two that zip and mergeMap read, a pool that fills up, and lists too     *)
(* large for it.                                                           *)
(***************************************************************************)
EXTENDS Lists

MCChains == {<< >>, << "filter", "map" >>, << "map", "take" >>,
  << "mergeMap" >>, << "mergeMap", "map" >>}

MCZipChains == {<< >>, << "filter", "take" >>}
=============================================================================
