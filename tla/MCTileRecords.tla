----------------------------- MODULE MCTileRecords -----------------------------
(***************************************************************************)
(* One address more than geometries that can be alive at a time; they are  *)
(* alike.                                                                  *)
(***************************************************************************)
EXTENDS TileRecords, TLC

Symmetry == Permutations(Addresses)

(* As the comment in init() has it, only what is larger than 50 MiB is     *)
(* taken for an invalid read.                                              *)
MiB == 1024 * 1024

OnlyHugeRefused == refused # 0 => refused > 50 * MiB
================================================================================
