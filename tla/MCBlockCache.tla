---------------------------- MODULE MCBlockCache ----------------------------
(* BlockCache on a chain of a few blocks, two reorgs and chunks of two: the *)
(* bounds are in the cfg files.                                             *)
EXTENDS BlockCache
=============================================================================
