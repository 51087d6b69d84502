------------------------- MODULE ExperimentWorkspace -------------------------
(***************************************************************************)
(* The scripts over the files they share: a population is generated, packs *)
(* are prepared for it, sweeps replay the packs.  Somebody runs one script *)
(* after the other, in any order and with some arguments; a call may fail, *)
(* and a script or its subprocess may be killed.                           *)
(***************************************************************************)
EXTENDS PackPreparation, Sweeps

CONSTANTS
    Scripts,        \* the command lines of a session: a tool and its arguments
    ScriptBound,    \* how many scripts a session runs
    MishapBound     \* how many kills and failed calls a session sees

\* The command lines of the tools.
PrepareArguments == [regenerate : BOOLEAN, projectOnly : BOOLEAN, refresh : BOOLEAN]
SweepArguments == [rerun : BOOLEAN, failFast : BOOLEAN, flags : Switches]

ASSUME ScriptsAssumption ==
    \A script \in Scripts :
        /\ script.tool = "generate" => script.args \in Invocations
        /\ script.tool = "prepare" => script.args \in PrepareArguments
        /\ script.tool \in {"sweep", "final"} => script.args \in SweepArguments

VARIABLES
    scripts,    \* how many scripts were run so far
    mishaps     \* the kills and failed calls so far

session == <<scripts, mishaps>>
workspace == <<generation, batch, preparation, sweeps, session>>

\* A population that came from one invocation without a failure, and its packs.
FirstPopulation ==
    [b \in 1..Batches |->
        [id |-> b, valid |-> TRUE, quotes |-> [k \in 1..b - 1 |-> k]]]

FirstMasters ==
    [goods \in Sizes |->
        LET scenario == Scenario(FirstPopulation, goods, MasterBidders(goods))
        IN  Pack(FirstPopulation, scenario,
                 [i \in DOMAIN scenario.persons |-> Entry(scenario, i, 1)])]

FirstPacks ==
    [case \in Range(Cases) |->
        Projected(FirstMasters[case.goods], FirstPopulation,
                  Scenario(FirstPopulation, case.goods, case.bidders))]

\* Nothing was generated yet.
EmptyDisk ==
    /\ GenInit
    /\ masters = [goods \in Sizes |-> NoFile]
    /\ packs = [case \in Range(Cases) |-> NoFile]
    /\ answers = <<>>
    /\ PrepInit

\* A population was generated and its packs were prepared.
PreparedDisk ==
    /\ responses = FirstPopulation
    /\ manifest = "complete"
    /\ population = FirstPopulation
    /\ gen = GenOff
    /\ calls = Batches
    /\ redone = FALSE
    /\ cut = FALSE
    /\ masters = FirstMasters
    /\ packs = FirstPacks
    /\ answers = [key \in (1..Batches) \X Sizes |-> 1]
    /\ prep = PrepOff(0)
    /\ prepared = [spec |-> FirstPopulation, masters |-> FirstMasters, packs |-> FirstPacks]

Init ==
    /\ EmptyDisk \/ PreparedDisk
    /\ dirs = [d \in Directories |-> EmptyDirectory]
    /\ job = NoJob
    /\ disturbed = {}
    /\ SweepInit
    /\ scripts = 0
    /\ mishaps = 0

-----------------------------------------------------------------------------
\* No script is running.
Idle == gen.stage = "off" /\ prep.stage = "off" /\ sweep.stage = "off"

\* A script is started.
StartScript(script) ==
    /\ Idle /\ scripts < ScriptBound
    /\ scripts' = scripts + 1
    /\ UNCHANGED mishaps
    /\ \/ /\ script.tool = "generate" /\ Generate(script.args)
          /\ UNCHANGED <<batch, preparation, sweeps>>
       \/ /\ script.tool = "prepare" /\ Prepare(script.args)
          /\ UNCHANGED <<generation, sweeps>>
       \/ /\ \/ script.tool = "sweep" /\ Sweep(script.args)
             \/ script.tool = "freeze" /\ FreezeFinal
             \/ script.tool = "final" /\ RunFinal(script.args)
             \/ script.tool = "ablate" /\ Ablate
          /\ UNCHANGED <<generation, preparation>>

\* The running script goes on.
Generating == GenStep /\ UNCHANGED <<batch, preparation, sweeps, session>>
Preparing == PrepStep /\ UNCHANGED <<generation, sweeps, session>>
Sweeping == SweepStep /\ UNCHANGED <<generation, preparation, session>>
JobRunning == JobStep /\ UNCHANGED <<generation, preparation, sweeps, session>>

\* A call fails, or a process is killed: the script with its subprocess, or the
\* subprocess alone.
Mishap ==
    /\ mishaps < MishapBound
    /\ mishaps' = mishaps + 1
    /\ UNCHANGED scripts
    /\ \/ (ApiError \/ KillGeneration) /\ UNCHANGED <<batch, preparation, sweeps>>
       \/ KillPreparation /\ UNCHANGED <<generation, sweeps>>
       \/ KillSweep /\ UNCHANGED <<generation, preparation>>
       \/ (JobFailure \/ KillJob) /\ UNCHANGED <<generation, preparation, sweeps>>

\* The session is over.
SessionOver == Idle /\ scripts = ScriptBound /\ UNCHANGED workspace

Next ==
    \/ \E script \in Scripts : StartScript(script)
    \/ Generating \/ Preparing \/ Sweeping \/ JobRunning
    \/ Mishap
    \/ SessionOver

Spec == Init /\ [][Next]_workspace
=============================================================================
