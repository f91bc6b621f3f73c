--------------------------------- MODULE Lists ---------------------------------
(***************************************************************************)
(* What the data scripts do with lists.                                    *)
(***************************************************************************)
EXTENDS SequencesExt

\* The members of a list at some of its positions, in their order: a comprehension
\* with a condition, or a loop with "continue".
Those(list, positions) ==
  FlattenSeq([n \in DOMAIN list |-> IF n \in positions THEN <<list[n]>> ELSE <<>>])
================================================================================
