------------------------------- MODULE MCRules -------------------------------
(* The three rules of the correlator in one run.  The rules share no table   *)
(* except that C3 is asked before C1, so a behaviour fills the tables of one *)
(* rule: focus is that rule.  C1 is explored with one staged path beside it. *)
EXTENDS MCCorrelator

VARIABLE focus

MCExecs == ChainExecs \cup StagedExecs

MCInit == CorrInit /\ focus \in {"C1", "C2", "C3"}

MCNext ==
    /\ CorrNext
    /\ UNCHANGED focus
    /\ focus # "C2" => seenConns' = <<>>
    /\ focus # "C1" => seenDownloads' = <<>>
    /\ focus = "C2" => seenStaged' = <<>>
    /\ focus = "C1" => DOMAIN seenStaged' \subseteq {TmpA}

MCSpec == MCInit /\ [][MCNext]_<<corrVars, focus>>
=============================================================================
