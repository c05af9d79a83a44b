---------------------------- MODULE MCRecordLayer ----------------------------
(* Both directions of one session; the sequence runs out after three         *)
(* records.                                                                  *)
EXTENDS RecordLayer

CONSTANTS c2s, s2c, m1, m2, big

MCKeys == {c2s, s2c}
MCPayloads == {m1, m2, big}
MCOversize == {big}
=============================================================================
