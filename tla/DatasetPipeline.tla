---------------------------- MODULE DatasetPipeline ----------------------------
(***************************************************************************)
(* prepare_dataset: query.py (generation, inspection), final_filter.py and *)
(* the files they hand one another.  One process runs at a time; it may be *)
(* killed between any two steps, and every json.dump truncates its file    *)
(* first, so a killed run can leave a torn one.  The dataset of an earlier *)
(* run is still on disk when the next run starts.                          *)
(*                                                                         *)
(* A query is <<run, record, position>>: which run generated it, for which *)
(* record, as which of its queries (positions count from 1).  An           *)
(* inspection is the judge's verdict and remembers the query it judged.    *)
(***************************************************************************)
EXTENDS Naturals, FiniteSets, Lists

CONSTANTS
  RawVersions,      \* what filter.py may write to raw_filtered.json
  SourceFile,       \* the source_file of each record
  MaxQueries,       \* the most queries the model generates for each record
  Verdicts,         \* the judge's replies: [kind, language]
  SafeName,         \* the file name store_in_language makes of a language
  Unhashable,       \* languages no dict can be keyed by: a judge's list or object
  LowerCase,        \* and the id prefix it makes of a file name
  Modes,            \* the ways the pipeline is started
  GenerationLimit,  \* end_index of DATA_RUN_MODE=generation
  GenerationBatch,  \* batch_size of query_generation
  InspectionBatch,  \* batch_size of query_inspection
  MaxRuns           \* bound: processes started

ASSUME PipelineAssumption ==
  /\ RawVersions \subseteq Seq(DOMAIN SourceFile)
  /\ MaxQueries \in [DOMAIN SourceFile -> Nat]
  /\ \A v \in Verdicts : v.kind \in {"none", "fail", "pass", "odd"}
                         /\ v.language \in DOMAIN SafeName \cup Unhashable
  /\ Unhashable \cap DOMAIN SafeName = {}
  /\ \A l \in DOMAIN SafeName : SafeName[l] \in DOMAIN LowerCase
  /\ Modes \subseteq {"generation", "full_pipeline", "filter_only"}
  /\ {GenerationLimit, GenerationBatch, InspectionBatch} \subseteq Nat \ {0}
  /\ MaxRuns \in Nat

VARIABLES
  raw,         \* raw_filtered.json
  generated,   \* generated_queries.json
  inspection,  \* inspection_results.json
  outputs,     \* final_data/: file name -> file
  pc, mode,    \* what the process is doing, and how it was started
  run,         \* processes started so far
  taken,       \* records handed to generate_batch
  gen,         \* generated_queries, the list
  verdicts,    \* flat_results
  kept,        \* filtered
  todo         \* languages left to write

files  == <<raw, generated, inspection, outputs>>
memory == <<taken, gen, verdicts, kept, todo>>
vars   == <<files, memory, pc, mode, run>>

\* What json.load finds in a file.
Absent     == [state |-> "absent", data |-> <<>>]
Torn       == [state |-> "torn", data |-> <<>>]
Whole(d)   == [state |-> "whole", data |-> d]

Ended == pc \in {"idle", "finished", "stored", "failed", "crashed"}

Init ==
  /\ raw \in RawVersions
  /\ generated = Absent /\ inspection = Absent
  /\ outputs = [f \in {} |-> Absent]
  /\ pc = "idle" /\ mode \in Modes
  /\ run = 0
  /\ taken = 0 /\ gen = <<>> /\ verdicts = <<>> /\ kept = <<>> /\ todo = <<>>

--------------------------------------------------------------------------------
\* records_data[start_index:end_index]
Slice == SubSeq(raw, 1, IF mode = "generation" /\ GenerationLimit < Len(raw)
                        THEN GenerationLimit ELSE Len(raw))

\* The queries generate_batch returns for a record, n of them.
Queries(record, n) == [q \in 1 .. n |-> <<run, record, q>>]

\* The records of a batch for which any query came back.
Generated(batch, n) ==
  LET entry(i) == [record |-> batch[i], source |-> SourceFile[batch[i]],
                   queries |-> Queries(batch[i], n[i])]
  IN  Those([i \in DOMAIN batch |-> entry(i)], {i \in DOMAIN batch : n[i] # 0})

\* flat_meta: every query with its record's position in generated_queries.
Flat(gens) ==
  FlattenSeq([k \in DOMAIN gens |->
    [q \in DOMAIN gens[k].queries |->
      [at |-> k, index |-> q, query |-> gens[k].queries[q]]]])

\* per_record: the truthy results of each record, with the query_index of each.
PerRecord(gens, results) ==
  LET flat    == Flat(gens)
      entries == [n \in DOMAIN flat |-> [index |-> flat[n].index, result |-> results[n]]]
  IN  [k \in DOMAIN gens |->
        [source |-> gens[k].source,
         inspected |-> Those(entries, {n \in DOMAIN flat :
                                        flat[n].at = k /\ results[n].kind # "none"})]]

\* zip(query_data, inspection_data) up to the first source_file mismatch.
Joined(gens, insps) ==
  LET both == 1 .. (IF Len(gens) < Len(insps) THEN Len(gens) ELSE Len(insps))
      bad  == {k \in both : gens[k].source # insps[k].source}
  IN  {k \in both : \A b \in bad : k < b}

\* The inspections of a record that passed the three gates.
Passing(entries) == {n \in DOMAIN entries : entries[n].result.kind = "pass"}

\* Faulty: the passing queries are taken by their rank, not by their query_index.
BuildRecordByRank(g, i) ==
  LET hits == Those(i.inspected, Passing(i.inspected))
  IN  [language |-> i.inspected[1].result.language,
       record |-> g.record,
       items |-> [n \in DOMAIN hits |->
         [query |-> g.queries[n], judged |-> hits[n].result]]]

\* build_record, for the indices that exist in the generated record; the record's
\* language is that of its first inspection, passed or not.
BuildRecord(g, i) ==
  LET hits == Those(i.inspected, {n \in Passing(i.inspected) :
                                   i.inspected[n].index \in DOMAIN g.queries})
  IN  [language |-> i.inspected[1].result.language,
       record |-> g.record,
       items |-> [n \in DOMAIN hits |->
         [query |-> g.queries[hits[n].index], judged |-> hits[n].result]]]

Kept(gens, insps) ==
  LET passed == Those([k \in DOMAIN gens |-> k],
                      {k \in Joined(gens, insps) : Passing(insps[k].inspected) # {}})
  IN  [n \in DOMAIN passed |-> BuildRecord(gens[passed[n]], insps[passed[n]])]

\* The languages of the kept records, in the order they first appear.
Languages(records) ==
  Those([n \in DOMAIN records |-> records[n].language],
        {n \in DOMAIN records :
          \A m \in 1 .. n - 1 : records[m].language # records[n].language})

Own(language, records) ==
  Those(records, {n \in DOMAIN records : records[n].language = language})

\* Faulty: the record that opens its language's group is not appended to it.
NumberedWithoutFirst(language, records) ==
  LET own == Tail(Own(language, records))
  IN  [n \in DOMAIN own |->
        [session_id |-> <<LowerCase[SafeName[language]], n>>,
         record |-> own[n].record, items |-> own[n].items]]

\* The records of one language, numbered within it.
Numbered(language, records) ==
  LET own == Own(language, records)
  IN  [n \in DOMAIN own |->
        [session_id |-> <<LowerCase[SafeName[language]], n>>,
         record |-> own[n].record, items |-> own[n].items]]

--------------------------------------------------------------------------------
\* filter.py, between runs; os.listdir gives it the records in any order.
Refilter ==
  /\ Ended
  /\ raw' \in RawVersions \ {raw}
  /\ UNCHANGED <<generated, inspection, outputs, memory, pc, mode, run>>

\* query.py in one of its modes, or final_filter.py by itself ("filter_only").
Start(m) ==
  /\ Ended /\ run < MaxRuns
  /\ run' = run + 1 /\ mode' = m
  /\ pc' = IF m = "filter_only" THEN "filter"
           ELSE IF raw = <<>> THEN "finished" ELSE "generating"
  /\ taken' = 0 /\ gen' = <<>> /\ verdicts' = <<>> /\ kept' = <<>> /\ todo' = <<>>
  /\ UNCHANGED files

\* One round of the batch loop: generate_batch, and what of it is kept.
GenerateBatch ==
  /\ pc = "generating" /\ taken < Len(Slice)
  /\ LET upto  == IF taken + GenerationBatch < Len(Slice)
                  THEN taken + GenerationBatch ELSE Len(Slice)
         batch == SubSeq(Slice, taken + 1, upto)
     IN  /\ \E n \in [DOMAIN batch -> UNION {0 .. MaxQueries[r] : r \in DOMAIN MaxQueries}] :
              /\ \A i \in DOMAIN batch : n[i] <= MaxQueries[batch[i]]
              /\ gen' = gen \o Generated(batch, n)
         /\ taken' = upto
  /\ UNCHANGED <<files, pc, mode, run, verdicts, kept, todo>>

\* save_json opens the file for writing, which empties it, ...
OpenGenerated ==
  /\ pc = "generating" /\ taken = Len(Slice)
  /\ generated' = Torn
  /\ pc' = "writing generated"
  /\ UNCHANGED <<raw, inspection, outputs, memory, mode, run>>

\* ... and writes it (and generation_stage_debug.json, which nothing reads).
WriteGenerated ==
  /\ pc = "writing generated"
  /\ generated' = Whole(gen)
  /\ pc' = IF mode = "full_pipeline" /\ gen # <<>> THEN "inspecting" ELSE "finished"
  /\ UNCHANGED <<raw, inspection, outputs, memory, mode, run>>

\* inspect_batch on the next queries: one verdict for each, in their order.
InspectBatch ==
  /\ pc = "inspecting" /\ Len(verdicts) < Len(Flat(gen))
  /\ LET from == Len(verdicts)
         size == IF from + InspectionBatch < Len(Flat(gen))
                 THEN InspectionBatch ELSE Len(Flat(gen)) - from
     IN  \E vs \in [1 .. size -> Verdicts] :
           verdicts' = verdicts \o
             [n \in 1 .. size |-> [kind     |-> vs[n].kind,
                                   language |-> vs[n].language,
                                   query    |-> Flat(gen)[from + n].query]]
  /\ UNCHANGED <<files, pc, mode, run, taken, gen, kept, todo>>

OpenInspection ==
  /\ pc = "inspecting" /\ Len(verdicts) = Len(Flat(gen))
  /\ inspection' = Torn
  /\ pc' = "writing inspection"
  /\ UNCHANGED <<raw, generated, outputs, memory, mode, run>>

\* The per-record results (and query_usage_summary.json, which nothing reads).
WriteInspection ==
  /\ pc = "writing inspection"
  /\ inspection' = Whole(PerRecord(gen, verdicts))
  /\ pc' = "filter"
  /\ UNCHANGED <<raw, generated, outputs, memory, mode, run>>

\* Faulty: whatever cannot be read or parsed counts as empty.
FilterableAnyway == TRUE

\* final_filter calls .get on every joined inspection: one that is JSON but not an
\* object, like a missing or torn file, is an exception that ends the process.
Filterable ==
  /\ generated.state = "whole" /\ inspection.state = "whole"
  /\ \A k \in Joined(generated.data, inspection.data) :
       \A n \in DOMAIN inspection.data[k].inspected :
         inspection.data[k].inspected[n].result.kind # "odd"

Filter ==
  /\ pc = "filter" /\ Filterable
  /\ kept' = Kept(generated.data, inspection.data)
  /\ pc' = "cleaning"
  /\ UNCHANGED <<files, mode, run, taken, gen, verdicts, todo>>

FilterFails ==
  /\ pc = "filter" /\ ~Filterable
  /\ pc' = "failed"
  /\ UNCHANGED <<files, memory, mode, run>>

\* Every kept record's language can be a key of language_groups.
Groupable == \A n \in DOMAIN kept : kept[n].language \notin Unhashable

\* store_in_language first removes every *.json of the directory, one by one.
RemoveOutput ==
  /\ pc = "cleaning"
  /\ \E f \in DOMAIN outputs : outputs' = [g \in DOMAIN outputs \ {f} |-> outputs[g]]
  /\ UNCHANGED <<raw, generated, inspection, memory, pc, mode, run>>

\* Faulty: the old files are left to be overwritten.
CleanedNot ==
  /\ pc = "cleaning" /\ Groupable
  /\ todo' = Languages(kept)
  /\ pc' = "storing"
  /\ UNCHANGED <<files, mode, run, taken, gen, verdicts, kept>>

\* Only then the records are grouped by language, in a dict, ...
Cleaned ==
  /\ pc = "cleaning" /\ DOMAIN outputs = {} /\ Groupable
  /\ todo' = Languages(kept)
  /\ pc' = "storing"
  /\ UNCHANGED <<files, mode, run, taken, gen, verdicts, kept>>

\* ... which raises for a language that cannot be a key: the old files are gone.
GroupingFails ==
  /\ pc = "cleaning" /\ DOMAIN outputs = {} /\ ~Groupable
  /\ pc' = "failed"
  /\ UNCHANGED <<files, memory, mode, run>>

\* Then a file per language: opened, ...
OpenLanguage ==
  /\ pc = "storing" /\ todo # <<>>
  /\ LET f == SafeName[Head(todo)]
     IN outputs' = [g \in DOMAIN outputs \cup {f} |->
                      IF g = f THEN [state |-> "torn", run |-> run, mode |-> mode, data |-> <<>>]
                      ELSE outputs[g]]
  /\ pc' = "writing language"
  /\ UNCHANGED <<raw, generated, inspection, memory, mode, run>>

\* ... which can fail: the language may make a name that no file can have, ...
OpenFails ==
  /\ pc = "storing" /\ todo # <<>>
  /\ pc' = "failed"
  /\ UNCHANGED <<files, memory, mode, run>>

\* ... and written.
WriteLanguage ==
  /\ pc = "writing language"
  /\ outputs' = [outputs EXCEPT ![SafeName[Head(todo)]] =
                   [state |-> "whole", run |-> run, mode |-> mode, data |-> Numbered(Head(todo), kept)]]
  /\ todo' = Tail(todo)
  /\ pc' = "storing"
  /\ UNCHANGED <<raw, generated, inspection, mode, run, taken, gen, verdicts, kept>>

Stored ==
  /\ pc = "storing" /\ todo = <<>>
  /\ pc' = "stored"
  /\ UNCHANGED <<files, memory, mode, run>>

\* The process is killed: its memory is gone, the files stay as they are.
Crash ==
  /\ ~Ended
  /\ pc' = "crashed"
  /\ taken' = 0 /\ gen' = <<>> /\ verdicts' = <<>> /\ kept' = <<>> /\ todo' = <<>>
  /\ UNCHANGED <<files, mode, run>>

Next ==
  \/ Refilter
  \/ \E m \in Modes : Start(m)
  \/ GenerateBatch \/ OpenGenerated \/ WriteGenerated
  \/ InspectBatch \/ OpenInspection \/ WriteInspection
  \/ Filter \/ FilterFails
  \/ RemoveOutput \/ Cleaned \/ GroupingFails
  \/ OpenLanguage \/ OpenFails \/ WriteLanguage \/ Stored
  \/ Crash

Spec == Init /\ [][Next]_vars

--------------------------------------------------------------------------------

\* Every query in a file that a full pipeline stored was passed by the judge's
\* verdict on that very query, over any history of runs, crashes and refilterings
\* before it ("Keeps only queries that pass all inspection gates",
\* prepare_dataset/README.md).  final_filter by itself joins whatever two files it
\* finds, by position and source_file, and promises less.
OutputsPassedInspection ==
  \A f \in {g \in DOMAIN outputs : outputs[g].mode = "full_pipeline"} :
   \A n \in DOMAIN outputs[f].data :
    \A q \in DOMAIN outputs[f].data[n].items :
      LET item == outputs[f].data[n].items[q]
      IN  item.judged.kind = "pass" /\ item.judged.query = item.query

\* The language files on disk all come from one run, also after a crash in the
\* middle of replacing them ("so each run is isolated", final_filter.py:126).
OutputsOfOneRun ==
  \A f, g \in DOMAIN outputs : outputs[f].run = outputs[g].run

\* Records on disk, as <<file, position>>.
OutputSlots == UNION {{<<f, n>> : n \in DOMAIN outputs[f].data} : f \in DOMAIN outputs}

StoredAt(slot) == outputs[slot[1]].data[slot[2]]

\* When a run has stored its dataset every kept record is in a language file, once,
\* under a session id of its own ("Write final records into language-specific JSON
\* files with stable IDs", final_filter.py:123).
StoredCompletely ==
  pc = "stored" =>
    /\ Cardinality(OutputSlots) = Len(kept)
    /\ \A n \in DOMAIN kept : \E slot \in OutputSlots :
         /\ StoredAt(slot).record = kept[n].record
         /\ StoredAt(slot).items = kept[n].items
    /\ \A s, t \in OutputSlots :
         StoredAt(s).session_id = StoredAt(t).session_id => s = t

\* A run that finds the torn file of a killed one, or an inspection that it cannot
\* evaluate, fails before it touches the public dataset.  What final_filter does not
\* look at is not covered: a language that cannot be grouped by, or named a file by,
\* is found when store_in_language has removed the dataset there was.
UnreadableInputsKeepDataset ==
  [][outputs' # outputs =>
       /\ generated.state = "whole" /\ inspection.state = "whole"
       /\ \A k \in Joined(generated.data, inspection.data) :
            \A n \in DOMAIN inspection.data[k].inspected :
              inspection.data[k].inspected[n].result.kind # "odd"]_vars
================================================================================
