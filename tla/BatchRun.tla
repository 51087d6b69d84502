------------------------------ MODULE BatchRun ------------------------------
(***************************************************************************)
(* One invocation of examples/run_live_llm_curated_batch.py, as the        *)
(* drivers start it: to prepare a master pack (--prepare-elicitation-only) *)
(* or to run the mechanisms over a frozen pack and leave its tables in a   *)
(* directory.  It may fail, and it may be killed between any two writes    *)
(* and within one.                                                         *)
(***************************************************************************)
EXTENDS FrozenPacks, PopulationGeneration

\* The run directories: one for every case.
Directories == Range(Cases)

\* The switches a run is given: the name of their choice, and whether they ask persons.
Switches == [name : STRING, asks : BOOLEAN]

\* The packs that can be made, and what a table of a run may say of its origin.
Entries == [person : Nat, goods : Sizes, asking : Nat]
Packs ==
    [spec     : [1..Batches -> Answers],
     scenario : [goods : Sizes, persons : UNION {[Sample(n) -> Nat] : n \in Sizes}],
     entries  : UNION {[Sample(n) -> Entries] : n \in Sizes}]
Results == [pack : Packs, flags : Switches]

\* Samples are drawn from the population, and no file, or exit code, is taken for what it
\* lacks.
ASSUME ContentsAssumption ==
    /\ Range(CoverageOrder) \subseteq 1..Batches
    /\ NoFile # 0
    /\ \A file \in {NoFile, Torn} : file \notin Answers /\ file \notin Packs /\ file \notin Results

VARIABLES
    masters,    \* the master pack for every number of goods
    packs,      \* the pack of every case
    answers,    \* how often each person was asked live about each catalogue
    dirs,       \* the files of every run directory
    job,        \* the running invocation
    disturbed   \* the directories a failure or a kill has touched

packFiles == <<masters, packs, answers>>
runFiles == <<dirs, disturbed>>
batch == <<packFiles, runFiles, job>>

NoJob == [stage |-> "none", mode |-> "none", place |-> NoFile, pack |-> NoFile,
          flags |-> NoFile, entries |-> <<>>, code |-> 0]

\* A run directory before its first run; "exit" is the code of the last run there, once
\* it has returned.
EmptyDirectory == [config |-> NoFile, summary |-> NoFile, sealed |-> NoFile,
                   refinements |-> NoFile, exit |-> NoFile]

\* The tables of one run, all of them.
IsWhole(directory) ==
    /\ Readable(directory.config)
    /\ directory.summary = directory.config
    /\ directory.sealed = directory.config
    /\ directory.config.flags.asks => directory.refinements = directory.config

\* The command line of a preparation and of a run.
PrepareJob(goods, refresh) ==
    [NoJob EXCEPT !.stage = "elicit", !.mode = "prepare", !.place = goods, !.flags = refresh]

RunJob(dir, pack, flags) ==
    [NoJob EXCEPT !.stage = "load", !.mode = "run", !.place = dir, !.pack = pack, !.flags = flags]

Exited == job.stage = "exited"

Exit(code) ==
    IF job.mode = "run" /\ job.stage # "load"
    THEN /\ job' = [job EXCEPT !.stage = "exited", !.code = code]
         /\ dirs' = [dirs EXCEPT ![job.place].exit = code]
         /\ disturbed' = IF code = 0 THEN disturbed ELSE disturbed \cup {job.place}
    ELSE /\ job' = [job EXCEPT !.stage = "exited", !.code = code]
         /\ UNCHANGED runFiles

-----------------------------------------------------------------------------
\* Preparation: compute_elicitation_cache, then the pack.
Target == Scenario(population, job.place, MasterBidders(job.place))

Asked(person, goods) ==
    IF <<person, goods>> \in DOMAIN answers THEN answers[<<person, goods>>] ELSE 0

\* The question, the interest map and the provisional values of the next bidder;
\* the response cache answers what was asked before, unless it is refreshed.
Elicit ==
    /\ job.mode = "prepare" /\ job.stage = "elicit"
    /\ DOMAIN job.entries # DOMAIN Target.persons
    /\ LET i == Min(DOMAIN Target.persons \ DOMAIN job.entries)
           key == <<Target.persons[i], job.place>>
           asked == Asked(key[1], key[2])
           asking == IF asked = 0 \/ job.flags THEN asked + 1 ELSE asked
       IN  /\ answers' = Stored(answers, key, asking)
           /\ job' = [job EXCEPT !.entries = Stored(@, i, Entry(Target, i, asking))]
    /\ UNCHANGED <<population, masters, packs, runFiles>>

\* PvGenerationFailedError, or a person or a map that does not parse: nothing is written.
ElicitFails ==
    /\ job.mode = "prepare" /\ job.stage = "elicit"
    /\ DOMAIN job.entries # DOMAIN Target.persons
    /\ Exit(1)
    /\ UNCHANGED <<population, packFiles>>

\* write_frozen_elicitation_pack, once every bidder was elicited.
WritePack ==
    /\ job.mode = "prepare" /\ job.stage = "elicit"
    /\ DOMAIN job.entries = DOMAIN Target.persons
    /\ masters' = [masters EXCEPT ![job.place] = Pack(population, Target, job.entries)]
    /\ Exit(0)
    /\ UNCHANGED <<population, packs, answers>>

-----------------------------------------------------------------------------
\* A run: what its tables say they come from.
Result == [pack |-> job.pack, flags |-> job.flags]

\* The pack is validated before anything is written.
Load ==
    /\ job.mode = "run" /\ job.stage = "load"
    /\ IF /\ Readable(population)
          /\ IsPackFor(job.pack, population,
                       Scenario(population, job.place.goods, job.place.bidders))
       THEN job' = [job EXCEPT !.stage = "config"] /\ UNCHANGED runFiles
       ELSE Exit(2)
    /\ UNCHANGED <<population, packFiles>>

\* run_config.json, before any mechanism, over whatever an earlier run left.
WriteConfig ==
    /\ job.mode = "run" /\ job.stage = "config"
    /\ dirs' = [dirs EXCEPT ![job.place].config = Result, ![job.place].exit = NoFile]
    /\ job' = [job EXCEPT !.stage = "arms"]
    /\ UNCHANGED <<population, packFiles, disturbed>>

\* The sealed and the clock arm, over proxies that replay the pack.
RunArms ==
    /\ job.mode = "run" /\ job.stage = "arms"
    /\ job' = [job EXCEPT !.stage = "summary"]
    /\ UNCHANGED <<population, packFiles, runFiles>>

\* An exception in an arm ends the run, and no table is written.
ArmFails ==
    /\ job.mode = "run" /\ job.stage = "arms"
    /\ Exit(1)
    /\ UNCHANGED <<population, packFiles>>

\* The summary, which marks the directory as complete; a run has an arm at least, the
\* elicited ones or the baselines.
WriteSummary ==
    /\ job.mode = "run" /\ job.stage = "summary"
    /\ dirs' = [dirs EXCEPT ![job.place].summary = Result]
    /\ job' = [job EXCEPT !.stage = "details"]
    /\ UNCHANGED <<population, packFiles, disturbed>>

\* The table of the sealed arm, always.
WriteDetails ==
    /\ job.mode = "run" /\ job.stage = "details"
    /\ dirs' = [dirs EXCEPT ![job.place].sealed = Result]
    /\ job' = [job EXCEPT !.stage = "refinements"]
    /\ UNCHANGED <<population, packFiles, disturbed>>

\* The refinement records, if there are any.
WriteRefinements ==
    /\ job.mode = "run" /\ job.stage = "refinements"
    /\ job' = [job EXCEPT !.stage = "exited", !.code = 0]
    /\ dirs' = [dirs EXCEPT ![job.place].exit = 0,
                            ![job.place].refinements = IF job.flags.asks THEN Result ELSE @]
    /\ UNCHANGED <<population, packFiles, disturbed>>

-----------------------------------------------------------------------------
\* The file the job is writing, if any, as a kill may leave it.
MayTear ==
    \/ /\ job.mode = "prepare" /\ job.stage = "elicit"
       /\ DOMAIN job.entries = DOMAIN Target.persons
       /\ \E left \in {Pack(population, Target, job.entries), Torn} :
              masters' = [masters EXCEPT ![job.place] = left]
       /\ UNCHANGED <<packs, answers, dirs>>
    \/ /\ job.mode = "run"
       /\ \/ /\ job.stage = "config"
             /\ dirs' = [dirs EXCEPT ![job.place].config = Torn, ![job.place].exit = NoFile]
          \/ /\ job.stage = "summary"
             /\ dirs' = [dirs EXCEPT ![job.place].summary = Torn]
          \/ /\ job.stage = "details"
             /\ dirs' = [dirs EXCEPT ![job.place].sealed = Torn]
          \/ /\ job.stage = "refinements" /\ job.flags.asks
             /\ \E left \in {Result, Torn} : dirs' = [dirs EXCEPT ![job.place].refinements = left]
       /\ UNCHANGED packFiles
    \/ UNCHANGED <<packFiles, dirs>>

\* The job dies with the driver that waits for it, or alone.
JobDies ==
    /\ MayTear
    /\ disturbed' = IF job.mode = "run" /\ job.stage \notin {"load", "exited"}
                    THEN disturbed \cup {job.place} ELSE disturbed

KillJob ==
    /\ job.stage \notin {"none", "exited"}
    /\ JobDies
    /\ job' = [job EXCEPT !.stage = "exited", !.code = 1]
    /\ UNCHANGED population

\* What a job may do by itself.
JobStep ==
    \/ Elicit \/ WritePack
    \/ Load \/ WriteConfig \/ RunArms \/ WriteSummary \/ WriteDetails \/ WriteRefinements

JobFailure == ElicitFails \/ ArmFails
=============================================================================
