------------------------------ MODULE MCMicro ------------------------------
(* Two slots and two ids, so that slots are reused and, where allowed, ids *)
(* are duplicated; id 0 is also the id of a cleared slot.                  *)
EXTENDS Micro

CONSTANTS small, huge

MCBatches == {<<small>>, <<huge, small, small>>}
=============================================================================
