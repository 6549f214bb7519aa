--------------------------- MODULE MCStreamLimit ---------------------------
(***************************************************************************)
(* Two streams in front of two shared buckets. The second configuration    *)
(* has another burst, so that a replenish task may add with the one it     *)
(* loaded before an update. A buffer is larger than one round replenishes. *)
(* The window of the first stream is reset to other sizes and switched off *)
(* and on; the second stream has none.                                     *)
(***************************************************************************)
EXTENDS StreamLimit

CONSTANTS s1, s2

MCStreams == {s1, s2}
MCConfigs == 1..2
MCReplenish == <<1, 1>>
MCMaxBurst == <<2, 1>>
MCSizes == {2}
MCWindowSizes == [s \in MCStreams |-> IF s = s1 THEN {1, 2} ELSE {}]

============================================================================
