------------------------------- MODULE Criteria -------------------------------
(***************************************************************************)
(* evaluation/prepare_criteria.py: the sidecar file of fixed criteria for  *)
(* a dataset.  A run loads the dataset and, with --resume, the sidecar;    *)
(* lists the missing criteria; asks for all of them in one batch API call; *)
(* and saves once, at the end.  It may be killed between any two steps,    *)
(* and the dataset file may have been regenerated when it runs again.      *)
(*                                                                         *)
(* The dataset is a list of sessions, a session a list of query ids.  A    *)
(* criterion names the query, dimension and run it was generated for.      *)
(***************************************************************************)
EXTENDS Naturals, FiniteSets, SequencesExt

CONSTANTS
  QueryIds,
  DataVersions,  \* the contents the dataset file may have first,
  Successors,    \* and those it may be regenerated to, from each
  Dimensions,    \* DIMENSION_CRITERIA
  Limits,        \* values of --limit, 0 standing for none
  Options,       \* option sets a run may be started with: of "resume", "overwrite"
  MaxRuns,       \* bound: processes started
  None

\* What stands in the sidecar for a criterion that was generated.
Criterion == [query : QueryIds, dim : Dimensions, run : Nat]

ASSUME CriteriaAssumption ==
  /\ DataVersions \subseteq DOMAIN Successors
  /\ DOMAIN Successors \subseteq Seq(Seq(QueryIds))
  /\ \A v \in DOMAIN Successors : Successors[v] \subseteq DOMAIN Successors
  /\ IsFiniteSet(Dimensions) /\ None \notin Criterion
  /\ Limits \subseteq Nat
  /\ Options \subseteq SUBSET {"resume", "overwrite"}
  /\ MaxRuns \in Nat

VARIABLES
  data,     \* the dataset file
  sidecar,  \* the --output file: state and content
  tmp,      \* its .tmp file
  pc,       \* what the process is doing
  run, options, limit, dims,  \* its number and its command line
  out,      \* output_data
  jobs,     \* jobs
  failed    \* whether a job of this run came back None

vars == <<data, sidecar, tmp, pc, run, options, limit, dims, out, jobs, failed>>

Absent   == [state |-> "absent", content |-> <<>>]
Torn     == [state |-> "torn", content |-> <<>>]
Whole(c) == [state |-> "whole", content |-> c]

Ended == pc \in {"idle", "saved", "crashed"}

Init ==
  /\ data \in DataVersions
  /\ sidecar = Absent /\ tmp = Absent
  /\ pc = "idle"
  /\ run = 0 /\ options = {} /\ limit = 0 /\ dims = {}
  /\ out = <<>> /\ jobs = <<>> /\ failed = FALSE

-------------------------------------------------------------------------------
\* An entry of "criterias" with no criterion yet.
NewEntry(query) == [query |-> query, criteria |-> [d \in Dimensions |-> None]]

\* init_output_data: by position, keeping whatever stands there already.
InitOutput(sessions, existing) ==
  LET Upto(a, b) == 1 .. (IF a > b THEN a ELSE b)
      old(s)     == IF s <= Len(existing) THEN existing[s] ELSE <<>>
      queries(s) == IF s <= Len(sessions) THEN sessions[s] ELSE <<>>
  IN  [s \in Upto(Len(existing), Len(sessions)) |->
        [q \in Upto(Len(old(s)), Len(queries(s))) |->
          IF q <= Len(old(s)) THEN old(s)[q] ELSE NewEntry(queries(s)[q])]]

\* Faulty: --overwrite is always on.
PendingAll(output, s, q, d, overwrite) == TRUE

\* Faulty: a query with a criterion in any dimension counts as done.
PendingUntouched(output, s, q, d, overwrite) ==
  overwrite \/ \A e \in Dimensions : output[s][q].criteria[e] = None

\* "if not overwrite and existing.get(dimension): continue"
Pending(output, s, q, d, overwrite) ==
  overwrite \/ output[s][q].criteria[d] = None

\* build_generation_jobs, dimensions in a fixed order.
Jobs(sessions, output, dimensions, overwrite) ==
  LET order == SetToSeq(dimensions)
      job(s, q, d) == [session |-> s, index |-> q, query |-> sessions[s][q], dim |-> d]
      at(s, q) == FlattenSeq([n \in DOMAIN order |->
                    IF Pending(output, s, q, order[n], overwrite)
                    THEN <<job(s, q, order[n])>> ELSE <<>>])
  IN  FlattenSeq([s \in DOMAIN sessions |->
        FlattenSeq([q \in DOMAIN sessions[s] |-> at(s, q)])])

\* jobs[: args.limit]
Limited(list, n) == IF n = 0 \/ n > Len(list) THEN list ELSE SubSeq(list, 1, n)

-------------------------------------------------------------------------------
\* The dataset is regenerated between runs (query.py renumbers every session).
Regenerate ==
  /\ Ended
  /\ data' \in Successors[data]
  /\ pc' = "idle"
  /\ UNCHANGED <<sidecar, tmp, run, options, limit, dims, out, jobs, failed>>

\* main up to run_generation.  A torn sidecar is a JSONDecodeError under --resume;
\* --resume without a sidecar starts afresh.
Start(opts, n, wanted) ==
  /\ Ended /\ run < MaxRuns
  /\ "resume" \in opts => sidecar.state # "torn"
  /\ run' = run + 1 /\ options' = opts /\ limit' = n /\ dims' = wanted
  /\ LET existing == IF "resume" \in opts THEN sidecar.content ELSE <<>>
     IN  /\ out' = InitOutput(data, existing)
         /\ jobs' = Limited(Jobs(data, InitOutput(data, existing), wanted,
                                 "overwrite" \in opts), n)
  /\ failed' = FALSE
  /\ pc' = "calling"
  /\ UNCHANGED <<data, sidecar, tmp>>

\* An entry after the call: output_data[session_index]["criterias"][query_index]
\* [dimension] = result for each of its jobs, and the rest as it was.
EntryWith(results, s, q) ==
  LET at(d) == {n \in DOMAIN jobs : jobs[n].session = s /\ jobs[n].index = q /\ jobs[n].dim = d}
  IN  [query |-> out[s][q].query,
       criteria |-> [d \in Dimensions |->
         IF at(d) = {} THEN out[s][q].criteria[d]
         ELSE results[CHOOSE n \in at(d) : TRUE]]]

\* Faulty: the results of the batch are applied to the first jobs of the list
\* that were answered.
ApplyCompacted(results) ==
  LET good == SelectSeq(results, LAMBDA r : r # None)
      at(s, q, d) == {n \in DOMAIN good : jobs[n].session = s /\ jobs[n].index = q /\ jobs[n].dim = d}
  IN  [s \in DOMAIN out |-> [q \in DOMAIN out[s] |->
        [query |-> out[s][q].query,
         criteria |-> [d \in Dimensions |->
           IF at(s, q, d) = {} THEN out[s][q].criteria[d]
           ELSE good[CHOOSE n \in at(s, q, d) : TRUE]]]]]

Apply(results) ==
  [s \in DOMAIN out |-> [q \in DOMAIN out[s] |-> EntryWith(results, s, q)]]

\* The batch API call (BatchCall): an answer to the job or None, at its position.
\* With no job there is no call and the file is just saved again.
CallApi ==
  /\ pc = "calling"
  /\ \E answered \in [DOMAIN jobs -> BOOLEAN] :
       /\ out' = Apply([n \in DOMAIN jobs |->
                   IF answered[n]
                   THEN [query |-> jobs[n].query, dim |-> jobs[n].dim, run |-> run]
                   ELSE None])
       /\ failed' = \E n \in DOMAIN jobs : ~answered[n]
  /\ pc' = "saving"
  /\ UNCHANGED <<data, sidecar, tmp, run, options, limit, dims, jobs>>

\* Faulty: the output file itself is opened for writing.
OpenInPlace ==
  /\ pc = "saving"
  /\ sidecar' = Torn
  /\ pc' = "writing"
  /\ UNCHANGED <<data, tmp, run, options, limit, dims, out, jobs, failed>>

\* save_json_atomic: the .tmp file is opened, ...
OpenTmp ==
  /\ pc = "saving"
  /\ tmp' = Torn
  /\ pc' = "writing"
  /\ UNCHANGED <<data, sidecar, run, options, limit, dims, out, jobs, failed>>

\* ... written, ...
WriteTmp ==
  /\ pc = "writing"
  /\ tmp' = Whole(out)
  /\ pc' = "replacing"
  /\ UNCHANGED <<data, sidecar, run, options, limit, dims, out, jobs, failed>>

\* ... and renamed over the output.
ReplaceOutput ==
  /\ pc = "replacing"
  /\ sidecar' = tmp /\ tmp' = Absent
  /\ pc' = "saved"
  /\ UNCHANGED <<data, run, options, limit, dims, out, jobs, failed>>

Crash ==
  /\ ~Ended
  /\ pc' = "crashed"
  /\ out' = <<>> /\ jobs' = <<>> /\ failed' = FALSE
  /\ UNCHANGED <<data, sidecar, tmp, run, options, limit, dims>>

Next ==
  \/ Regenerate
  \/ \E opts \in Options, n \in Limits, wanted \in SUBSET Dimensions \ {{}} :
       Start(opts, n, wanted)
  \/ CallApi \/ OpenTmp \/ WriteTmp \/ ReplaceOutput
  \/ Crash

Spec == Init /\ [][Next]_vars

-------------------------------------------------------------------------------
\* Whenever a run is killed, the output file is whole: absent, or as the last run
\* that ended left it ("to avoid partial outputs", save_json_atomic).
SidecarNeverTorn == sidecar.state # "torn"

\* Resuming without --overwrite loses no criterion and pays for none twice: every
\* one in the file before the save is in it after, generated by the same run.
ResumeKeeps ==
  [][sidecar' # sidecar /\ "resume" \in options /\ "overwrite" \notin options =>
       \A s \in DOMAIN sidecar.content : \A q \in DOMAIN sidecar.content[s] :
         \A d \in Dimensions :
           LET c == sidecar.content[s][q].criteria[d]
           IN  c # None => sidecar'.content[s][q].criteria[d] = c]_vars

\* Each criterion stands at the query and dimension it was generated for ("prepared
\* in advance for this exact user, scenario, query, and dimension", eval.py:10).
CriteriaBelong ==
  pc = "saved" => \A s \in DOMAIN data : \A q \in DOMAIN data[s] : \A d \in Dimensions :
    LET c == sidecar.content[s][q].criteria[d]
    IN  c # None => c.query = data[s][q] /\ c.dim = d

\* A run without --limit of which no call failed leaves nothing to do in its
\* dimensions, whatever earlier runs were limited to, failed at, or lost.
CompleteRunFills ==
  pc = "saved" /\ limit = 0 /\ ~failed =>
    \A s \in DOMAIN data : \A q \in DOMAIN data[s] : \A d \in dims :
      sidecar.content[s][q].criteria[d] # None
===============================================================================
