--------------------------- MODULE MCDatasetPipeline ---------------------------
(***************************************************************************)
(* Instances of DatasetPipeline: two records of one source file, one of    *)
(* which may get two queries; the corpus may grow or shrink between runs,  *)
(* the file that was added being listed first; languages as the inspection *)
(* prompt lists them, and one that is a list.                              *)
(***************************************************************************)
EXTENDS DatasetPipeline

CONSTANTS r1, r2

MCRawVersions == {<<r1>>, <<r2, r1>>}
MCSourceFile  == [r \in {r1, r2} |-> "dialogues.json"]
MCMaxQueries  == (r1 :> 2) @@ (r2 :> 1)

\* Languages of the prompt's list.
MCSafeName  == [l \in {"English", "Other"} |-> l]
MCLowerCase == ("English" :> "english") @@ ("Other" :> "other")

Verdict(k, l) == [kind |-> k, language |-> l]

\* No answer, JSON that is not an object, a query that fails and one that passes:
\* a record whose first query failed is stored under the failure's language, if that
\* is not the list that the judge made of it.
SomeVerdicts ==
  {Verdict("none", "Other"), Verdict("odd", "Other"), Verdict("fail", "[English]"),
   Verdict("pass", "English"), Verdict("pass", "Other")}
================================================================================
