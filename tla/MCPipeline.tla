----------------------------- MODULE MCPipeline ------------------------------
(* The pipeline inside the daemon and inside analyzer_eval, on events that    *)
(* exercise every rule and every correlation: focus is the program.  The      *)
(* evaluation reads fewer kinds of events: with the mock models two attack    *)
(* files, with real ones a benign file and an attack file.  No property looks *)
(* at the latest outcome, so View leaves it out.                              *)
EXTENDS Eval

VARIABLE focus

Path(d, b, k) == [dir |-> d, bin |-> b, n |-> k]

TmpA == Path("tmp", "plain", 1)
VarTmpB == Path("vartmp", "plain", 2)
VarTmpLs == Path("vartmp", "benign", 3)

MCExecs == {[path |-> Path("usr", "downloader", 1), lineage |-> {1, 20}],
            [path |-> Path("usr", "malicious", 1), lineage |-> {20}],
            [path |-> Path("usr", "benign", 1), lineage |-> {20}],
            [path |-> TmpA, lineage |-> {20, 50}],
            [path |-> VarTmpB, lineage |-> {1}],
            [path |-> VarTmpLs, lineage |-> {20}]}
MCFileOpens == {[path |-> VarTmpB, access |-> {"WRITE"}],
                [path |-> Path("none", "plain", 0), access |-> {"SENSITIVE"}]}
MCConnects == {[comm |-> "x", daddr |-> <<45, 9>>, dport |-> 443],
               [comm |-> "x", daddr |-> <<45, 9>>, dport |-> 4444],
               [comm |-> "x", daddr |-> <<192, 168>>, dport |-> 4444]}

MCCorpus == {e \in MCExecs : e.path.bin = "downloader" \/ e.path.dir = "vartmp"}
            \cup MCFileOpens
            \cup {e \in MCConnects : e.dport = 443}

MCInit ==
    /\ EvalInit
    /\ focus \in {"daemon", "eval"}
    /\ focus = "daemon" => llm_mode = "mock"

MCNext ==
    /\ UNCHANGED focus
    /\ \/ focus = "daemon" /\ PipeNext /\ UNCHANGED evalVars
       \/ /\ focus = "eval" /\ EvalNext
          /\ phase = "between" /\ phase' = "file" =>
                IF llm_mode = "mock" THEN sc'.attack
                ELSE scen = <<>> /\ (sc'.attack \/ sc.entries = 0)

MCSpec == MCInit /\ [][MCNext]_<<pipeVars, evalVars, focus>>

View == <<corrVars, evalVars, focus>>
=============================================================================
