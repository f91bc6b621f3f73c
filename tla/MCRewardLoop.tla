---------------------------- MODULE MCRewardLoop ----------------------------
(* An instance of RewardLoop: requests no larger than the bucket, as with  *)
(* a max_rpm of 60, or larger, as with the default estimate of 2000 tokens *)
(* and a max_tpm below 120000.                                             *)
EXTENDS RewardLoop

MCLimiterLists ==
  {<<[rate |-> 1, cap |-> 1, need |-> 1]>>, <<[rate |-> 2, cap |-> 2, need |-> 4]>>}
MCAnswerKeys == {{"acc"}, {"score"}}
=============================================================================
