----------------------------- MODULE MCCampaign -----------------------------
(* The programs TLC runs campaigns of. *)
EXTENDS Campaign

\* puppenfusion, with and without an evaluation and an arbiter
FusionPrograms ==
    {[parallelism |-> 1, researcher |-> FALSE, steps |-> FusionSteps(evaluated, arbiter, "codex")] :
       evaluated \in BOOLEAN, arbiter \in BOOLEAN}

\* Experiments side by side, the first of which may be tried twice
Ablation ==
    [parallelism |-> 2, researcher |-> FALSE,
     steps |-> [AblationCampaign(2) EXCEPT ![2].retries = 1]]

\* A custom program: two gates, the second on a member of a phase group
Custom ==
    LET Grouped(step) == [step EXCEPT !.group = "build"]
        Gate(step) == [step EXCEPT !.gate = TRUE]
    IN [parallelism |-> 1, researcher |-> FALSE,
        steps |-> <<Gate(Grouped(Step("plan", "command"))),
                    Grouped(Step("code", "acp")),
                    Grouped(Step("experiment", "command")),
                    Gate(Grouped(Step("eval", "command")))>>]

Loop == [parallelism |-> 1, researcher |-> FALSE, steps |-> SelfImprovementLoop(2, FALSE)]

Review(researcher) ==
    [parallelism |-> 1, researcher |-> researcher, steps |-> LiteratureReview]

MixedPrograms == {Ablation, Custom, Loop, Review(FALSE), Review(TRUE)}
=============================================================================
