------------------------- MODULE MCMultipartUpload -------------------------
(***************************************************************************)
(* Instances of MultipartUpload for TLC. Sizes are in megabytes: with the  *)
(* smallest part at 5 and at most three parts, an empty file has nothing to *)
(* upload, 7 takes two parts of which the second is short, and 17 runs     *)
(* into MAX_PARTS and is refused where MaxNumParts is 2. One more file is  *)
(* of a type the API refuses.                                              *)
(***************************************************************************)
EXTENDS MultipartUpload

CONSTANTS Sizes, Depths

MCAllowedNames == {"data.csv"}

MCFiles ==
  [name : MCAllowedNames, depth : Depths, size : Sizes]
    \cup [name : {"tool.exe"}, depth : Depths, size : {7}]

=============================================================================
