------------------------ MODULE MCExperimentWorkspace ------------------------
(* Two profiles, one and two goods, and sessions of three scripts. *)
EXTENDS ExperimentWorkspace

MCSizes == {1, 2}
MCCoverageOrder == <<2, 1>>

\* Two replies that keep to max_tokens: one is metered, the other counts for more by its
\* bytes.
MCReplies ==
    {[bytes |-> 4, metered |-> TRUE, input |-> 1, output |-> 1],
     [bytes |-> 8, metered |-> FALSE, input |-> 1, output |-> 2]}

Fresh == [resume |-> FALSE, regenerate |-> {}, retries |-> 1, ceiling |-> 0]
Resumed == [resume |-> TRUE, regenerate |-> {}, retries |-> 1, ceiling |-> 6]
FirstAgain == [resume |-> TRUE, regenerate |-> {1}, retries |-> 0, ceiling |-> 5]
MCInvocations == {Fresh, Resumed, FirstAgain}

Script(tool, args) == [tool |-> tool, args |-> args]
Preparation(regenerate, projectOnly, refresh) ==
    [regenerate |-> regenerate, projectOnly |-> projectOnly, refresh |-> refresh]
Cellwise(rerun, failFast, asks) ==
    [rerun |-> rerun, failFast |-> failFast, flags |-> [name |-> "sweep", asks |-> asks]]

MCScripts ==
    {Script("generate", a) : a \in MCInvocations}
    \cup {Script("prepare", Preparation(FALSE, FALSE, FALSE)),
          Script("prepare", Preparation(FALSE, TRUE, FALSE)),
          Script("prepare", Preparation(TRUE, FALSE, TRUE))}
    \cup {Script("freeze", NoFile), Script("final", Cellwise(FALSE, FALSE, TRUE))}
    \cup {Script("sweep", Cellwise(FALSE, FALSE, TRUE)), Script("sweep", Cellwise(TRUE, TRUE, FALSE))}
    \cup {Script("ablate", NoFile)}

\* Sweeps only, over what is there.
MCSweepsOnly == {Script("sweep", Cellwise(FALSE, FALSE, TRUE))}
=============================================================================
