------------------------------- MODULE MCExt2 -------------------------------
(* A small disk.  With one direct slot and two entries to a table, a file  *)
(* of four blocks needs both kinds of table and the double one's index.    *)
EXTENDS Ext2, TLC

CONSTANTS file, other

(* The image has one file, which is empty.                                 *)
OneFile == [n \in {file} |-> 1]

(* Which handle is used for what makes no difference.                      *)
HandleSymmetry == Permutations(Handles)
=============================================================================
