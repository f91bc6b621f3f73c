----------------------------- MODULE MCPermReward -----------------------------
(***************************************************************************)
(* An instance of PermReward: a training sample with every kind of answer, *)
(* for the scores, and a validation sample, which compete for one permit.  *)
(***************************************************************************)
EXTENDS PermReward, TLC

Boxed(n) == [kind |-> "boxed", value |-> n]
Garble   == [kind |-> "garbled", value |-> 0]

\* For the training sample the grades 0, and 9, which is off the judge's scale and
\* counts as 5; a failed call adds the default 3.  The validation sample competes
\* for the permits and fails or gets the full grade.
MCDimAnswers == ("t1" :> {Garble, Boxed(0), Boxed(9)}) @@ ("v1" :> {Boxed(9)})
MCStandbyAnswers == {Boxed(0), Boxed(120)}
===============================================================================
