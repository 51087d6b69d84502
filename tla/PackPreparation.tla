--------------------------- MODULE PackPreparation ---------------------------
(***************************************************************************)
(* scripts/prepare_scalability_elicitation_packs.py: one master pack for   *)
(* every number of goods, generated by a subprocess or reused, and the     *)
(* pack of every case projected from the master of its goods.              *)
(***************************************************************************)
EXTENDS BatchRun

VARIABLES
    prep,       \* the running preparation, and the code of the last one
    prepared    \* the manifest of the last preparation that got to its end

preparation == <<prep, prepared>>

PrepOff(code) == [stage |-> "off", args |-> NoFile, k |-> 1, code |-> code]

PrepInit ==
    /\ prep = PrepOff(NoFile)
    /\ prepared = NoFile

Goods == Masters[prep.k]
MasterScenario == Scenario(population, Goods, MasterBidders(Goods))
PreparedCase == Cases[prep.k]

\* The master is there and valid: the next one, or the cases.
NextMaster ==
    prep' = IF prep.k = Len(Masters) THEN [prep EXCEPT !.stage = "cases", !.k = 1]
            ELSE [prep EXCEPT !.stage = "masters", !.k = @ + 1]

-----------------------------------------------------------------------------
\* The arguments, and the preflight over the population, which may find it wanting.
Prepare(a) ==
    /\ prep.stage = "off"
    /\ IF Readable(population)
       THEN prep' \in {[PrepOff(NoFile) EXCEPT !.stage = "masters", !.args = a], PrepOff(2)}
       ELSE prep' = PrepOff(1)
    /\ UNCHANGED <<population, batch, prepared>>

\* An existing master is not generated again, unless that is asked for.
KeepsMaster == masters[Goods] # NoFile /\ (~prep.args.regenerate \/ prep.args.projectOnly)

\* reused_valid.
ReuseMaster ==
    /\ prep.stage = "masters" /\ KeepsMaster
    /\ IsPackFor(masters[Goods], population, MasterScenario)
    /\ NextMaster
    /\ UNCHANGED <<population, batch, prepared>>

\* An invalid master, or a missing one that may not be generated, ends the preparation.
RejectMaster ==
    /\ prep.stage = "masters"
    /\ IF KeepsMaster
       THEN ~IsPackFor(masters[Goods], population, MasterScenario)
       ELSE prep.args.projectOnly
    /\ prep' = PrepOff(2)
    /\ UNCHANGED <<population, batch, prepared>>

\* The subprocess that elicits the master.
GenerateMaster ==
    /\ prep.stage = "masters" /\ ~KeepsMaster /\ ~prep.args.projectOnly
    /\ prep' = [prep EXCEPT !.stage = "wait"]
    /\ job' = PrepareJob(Goods, prep.args.refresh)
    /\ UNCHANGED <<population, packFiles, runFiles, prepared>>

\* It has returned: its code is the preparation's, or its pack is validated.
MasterExits ==
    /\ prep.stage = "wait" /\ Exited
    /\ job' = NoJob
    /\ IF job.code # 0 THEN prep' = PrepOff(job.code)
       ELSE IF IsPackFor(masters[Goods], population, MasterScenario) THEN NextMaster
       ELSE prep' = PrepOff(1)
    /\ UNCHANGED <<population, packFiles, runFiles, prepared>>

-----------------------------------------------------------------------------
\* The manifest of a preparation that is complete: the specification, the masters and
\* the cases, by their hashes.
Inventory == [spec |-> population, masters |-> masters, packs |-> packs']

NextCase ==
    IF prep.k < Len(Cases)
    THEN prep' = [prep EXCEPT !.k = @ + 1] /\ UNCHANGED prepared
    ELSE prep' = PrepOff(0) /\ prepared' = Inventory

\* The scenario of a case.
CaseScenario(case) == Scenario(population, case.goods, case.bidders)

\* Mutated: the pack of a case that is there is left alone.
ProjectMissingCase ==
    LET case == PreparedCase
    IN  /\ prep.stage = "cases"
        /\ packs' = IF packs[case] # NoFile THEN packs
                    ELSE [packs EXCEPT ![case] =
                              Projected(masters[case.goods], population, CaseScenario(case))]
        /\ NextCase
        /\ UNCHANGED <<population, masters, answers, runFiles, job>>

\* The pack of a case, over whatever was there.
ProjectCase ==
    LET case == PreparedCase
    IN  /\ prep.stage = "cases"
        /\ IF CanProject(masters[case.goods], CaseScenario(case))
           THEN /\ packs' = [packs EXCEPT ![case] =
                        Projected(masters[case.goods], population, CaseScenario(case))]
                /\ NextCase
           ELSE prep' = PrepOff(1) /\ UNCHANGED <<packs, prepared>>
        /\ UNCHANGED <<population, masters, answers, runFiles, job>>

PrepStep ==
    \/ ReuseMaster \/ RejectMaster \/ GenerateMaster \/ MasterExits \/ ProjectCase

\* The preparation is killed with its subprocess, perhaps while it writes a pack.
KillPreparation ==
    /\ prep.stage # "off"
    /\ prep' = PrepOff(1)
    /\ job' = NoJob
    /\ \/ JobDies
       \/ /\ prep.stage = "cases"
          /\ packs' = [packs EXCEPT ![PreparedCase] = Torn]
          /\ UNCHANGED <<masters, answers, runFiles>>
    /\ UNCHANGED <<population, prepared>>

-----------------------------------------------------------------------------
\* frozen_elicitation.py:452, :557: whatever sequence of preparations, failures and
\* kills made it, a readable pack holds the answers of exactly the persons its scenario
\* names, about exactly its goods; no answer is passed off as another person's.
PacksAreGenuine ==
    /\ \A goods \in DOMAIN masters : Readable(masters[goods]) => IsGenuine(masters[goods])
    /\ \A case \in DOMAIN packs : Readable(packs[case]) => IsGenuine(packs[case])

\* prepare_scalability_elicitation_packs.py:511-549: the cases of a complete manifest are
\* projections of the masters of that manifest, and all of its packs were made for its
\* specification: two cases that share a master share every answer.
PreparedCasesMatchMasters ==
    Readable(prepared) =>
        /\ \A goods \in DOMAIN prepared.masters : prepared.masters[goods].spec = prepared.spec
        /\ \A case \in DOMAIN prepared.packs :
               LET pack == prepared.packs[case]
                   master == prepared.masters[case.goods]
               IN  /\ Readable(pack)
                   /\ pack.spec = prepared.spec
                   /\ DOMAIN pack.entries = Sample(case.bidders)
                   /\ \A i \in DOMAIN pack.entries : pack.entries[i] = master.entries[i]
=============================================================================
