-------------------------------- MODULE Sweeps --------------------------------
(***************************************************************************)
(* The drivers that run the live script once per cell and skip the cells   *)
(* that look complete: the scalability sweep                               *)
(* (scripts/run_scalability_experiment.py), alone or behind a frozen final *)
(* specification (experiments/final_pipeline.py,                           *)
(* scripts/run_frozen_final_experiment.py).  The ablation of event         *)
(* policies (scripts/run_event_ablation_8x8.py) is started, and no more.   *)
(***************************************************************************)
EXTENDS BatchRun

VARIABLES
    sweep,      \* the running sweep, and the code of the last one
    frozen      \* the final experiment specification

sweeps == <<sweep, frozen>>

SweepOff(kind, code) ==
    [stage |-> "off", kind |-> kind, args |-> NoFile, k |-> 1, failures |-> {}, code |-> code]

SweepInit ==
    /\ sweep = SweepOff("none", NoFile)
    /\ frozen = NoFile

\* The case in hand.
Cell == Cases[sweep.k]

EndsSweep(code) ==
    /\ sweep' = SweepOff(sweep.kind, code)
    /\ UNCHANGED frozen

\* A sweep that begins with its first cell, or does not begin.
Begins(kind, a) == sweep' = [SweepOff(kind, NoFile) EXCEPT !.stage = "cells", !.args = a]
BeginsNot(kind, code) == sweep' = SweepOff(kind, code)

-----------------------------------------------------------------------------
\* The scalability sweep, whose preflight may find the population wanting.
Sweep(a) ==
    /\ sweep.stage = "off"
    /\ IF Readable(population)
       THEN Begins("scalability", a) \/ BeginsNot("scalability", 2)
       ELSE BeginsNot("scalability", 1)
    /\ UNCHANGED <<population, batch, frozen>>

\* build_final_experiment_spec: the specification and every pack, by their hashes.
FreezeFinal ==
    /\ sweep.stage = "off"
    /\ IF population = NoFile \/ \E case \in DOMAIN packs : packs[case] = NoFile
       THEN BeginsNot("freeze", 1) /\ UNCHANGED frozen
       ELSE /\ BeginsNot("freeze", 0)
            /\ frozen' = [spec |-> population, packs |-> packs]
    /\ UNCHANGED <<population, batch>>

\* Mutated: the specification is verified, the packs are not.
VerifiedSpecOnly == frozen # NoFile /\ frozen.spec = population

\* load_final_experiment_spec, with verify_files.
Verified == frozen # NoFile /\ frozen.spec = population /\ frozen.packs = packs

\* The scalability sweep of the frozen specification.
RunFinal(a) ==
    /\ sweep.stage = "off"
    /\ IF Verified THEN Begins("final", a) \/ BeginsNot("final", 2)
       ELSE BeginsNot("final", 1)
    /\ UNCHANGED <<population, batch, frozen>>

\* Its table of treatments unpacks _COUNTERFACTUAL_FLAGS, which nothing binds: the
\* script ends with a NameError before it looks at a pack.
Ablate ==
    /\ sweep.stage = "off"
    /\ BeginsNot("ablation", 1)
    /\ UNCHANGED <<population, batch, frozen>>

-----------------------------------------------------------------------------
\* A cell is run when it has no summary, or when all are rerun.
Complete(cell) == dirs[cell].summary # NoFile
Skips == Complete(Cell) /\ ~sweep.args.rerun

StartCell ==
    /\ sweep.stage = "cells" /\ sweep.k <= Len(Cases) /\ ~Skips
    /\ sweep' = [sweep EXCEPT !.stage = "wait"]
    /\ job' = RunJob(Cell, packs[Cell], sweep.args.flags)
    /\ UNCHANGED <<population, packFiles, runFiles, frozen>>

\* A cell with a summary is passed over, whatever else it has.
SkipCell ==
    /\ sweep.stage = "cells" /\ sweep.k <= Len(Cases) /\ Skips
    /\ sweep' = [sweep EXCEPT !.k = @ + 1]
    /\ UNCHANGED <<population, batch, frozen>>

\* Mutated: a failed cell is not counted.
CellExitsUncounted ==
    /\ sweep.stage = "wait" /\ Exited
    /\ job' = NoJob
    /\ IF job.code # 0 /\ sweep.args.failFast
       THEN EndsSweep(1)
       ELSE /\ sweep' = [sweep EXCEPT !.stage = "cells", !.k = @ + 1]
            /\ UNCHANGED frozen
    /\ UNCHANGED <<population, packFiles, runFiles>>

\* The run of the cell has returned.  A failure is counted, and with --fail-fast it is
\* the last cell.
CellExits ==
    /\ sweep.stage = "wait" /\ Exited
    /\ job' = NoJob
    /\ IF job.code # 0 /\ sweep.args.failFast
       THEN EndsSweep(1)
       ELSE /\ sweep' = [sweep EXCEPT
                   !.stage = "cells",
                   !.k = @ + 1,
                   !.failures = IF job.code = 0 THEN @ ELSE @ \cup {Cell}]
            /\ UNCHANGED frozen
    /\ UNCHANGED <<population, packFiles, runFiles>>

\* The sweep is over; its code says whether any cell failed.
SweepEnds ==
    /\ sweep.stage = "cells" /\ sweep.k > Len(Cases)
    /\ EndsSweep(IF sweep.failures = {} THEN 0 ELSE 1)
    /\ UNCHANGED <<population, batch>>

SweepStep == StartCell \/ SkipCell \/ CellExits \/ SweepEnds

\* The sweep is killed with its subprocess.
KillSweep ==
    /\ sweep.stage # "off"
    /\ sweep' = SweepOff(sweep.kind, 1)
    /\ job' = NoJob
    /\ JobDies
    /\ UNCHANGED <<population, frozen>>

-----------------------------------------------------------------------------
\* run_scalability_experiment.py:367: a sweep that returned zero has a summary for every
\* case; a directory that no failure and no kill has touched holds one of a run that
\* returned zero, and a directory whose last run returned zero holds the tables of that
\* run alone, however often it was run before.
ZeroSweepLeavesNoGap ==
    sweep.stage = "off" /\ sweep.kind \in {"scalability", "final"} /\ sweep.code = 0 =>
        \A d \in Directories :
            /\ dirs[d].summary # NoFile
            /\ d \notin disturbed => dirs[d].exit = 0
            /\ dirs[d].exit = 0 => IsWhole(dirs[d])

\* final_pipeline.py:210: whatever was regenerated, projected again or killed in between,
\* what a frozen final run writes comes from the frozen packs.
FrozenRunsUseFrozenInputs ==
    [][\A d \in Directories :
           sweep.kind = "final" /\ dirs'[d] # dirs[d] /\ dirs'[d].config # dirs[d].config
           /\ Readable(dirs'[d].config)
           => /\ dirs'[d].config.pack = frozen.packs[d]
              /\ frozen.spec = population]_<<sweeps, batch>>

\* README.md:171: "Completed cases are skipped unless `--rerun-complete` is supplied."
\* A sweep that returned zero leaves a completed case for every case, whether it ran the
\* case or skipped it: the tables that a run writes after its summary are there, too.
SkippedCasesAreComplete ==
    sweep.stage = "off" /\ sweep.kind \in {"scalability", "final"} /\ sweep.code = 0 =>
        \A d \in Directories :
            Readable(dirs[d].summary) =>
                /\ dirs[d].sealed # NoFile
                /\ dirs[d].summary.flags.asks => dirs[d].refinements # NoFile
=============================================================================
