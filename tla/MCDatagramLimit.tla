-------------------------- MODULE MCDatagramLimit --------------------------
(***************************************************************************)
(* Two sockets in front of two shared buckets, single packets and batches  *)
(* whose packets have different sizes.                                     *)
(***************************************************************************)
EXTENDS DatagramLimit

CONSTANTS s1, s2

MCSocks == {s1, s2}
MCSingles == {2}
MCBatches == {<<2,3>>}

============================================================================
