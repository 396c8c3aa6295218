------------------------------- MODULE MCDocument -------------------------------
(* A project, and one picture in a directory. *)
EXTENDS Document, TLC

CONSTANTS picture, images, top

MCParent == (project :> top) @@ (picture :> images) @@ (images :> top)
Symmetric == Permutations(Data) \union Permutations(Files)
=============================================================================
