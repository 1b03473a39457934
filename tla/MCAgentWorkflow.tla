---------------------------- MODULE MCAgentWorkflow ----------------------------
(* Instances of AgentWorkflow for TLC.                                     *)
EXTENDS AgentWorkflow

TaskSpecs == <<"listing", "public_records", "comparable", "neighborhood">>

\* Two permits for three agents: one of them waits for its wave.
ThreeOfTaskSpecs == SubSeq(TaskSpecs, 1, 3)

ThreeAgents == {ThreeOfTaskSpecs[i] : i \in DOMAIN ThreeOfTaskSpecs}

AllAgents == {TaskSpecs[i] : i \in DOMAIN TaskSpecs}

\* The request that run_analysis builds has no listing_extraction.
WithoutListing == AllAgents \ {"listing"}

===============================================================================
