-------------------------------- MODULE Eval ---------------------------------
(***************************************************************************)
(* analyzer_eval (analyzer/src/eval.cpp): a labelled corpus through         *)
(* classify_event, with a virtual clock, a fresh correlator per file, and   *)
(* the models behind a memo with a limit on calls (MemoLlm).  The gate      *)
(* fails when an attack file that is not a known miss raises no High alert. *)
(* Statistics, prices and the printed report are left out; the correlator's *)
(* clock is the virtual clock.                                              *)
(***************************************************************************)
EXTENDS Pipeline

CONSTANTS
    LlmModes,     \* a subset of {"mock", "real"}
    Corpus,       \* the events that files hold
    Caps,         \* --max-llm-calls
    Delays,       \* the lengths of delay lines
    Tenth,        \* clock units in the tenth of a second reasons are rounded to
    MaxFiles,     \* bound: attack files in the corpus
    MaxEntries    \* bound: events and delay lines of one file

ASSUME EvalAssumption ==
    /\ LlmModes \subseteq {"mock", "real"}
    /\ Caps \cup Delays \subseteq Nat
    /\ Tenth \in Nat \ {0}
    /\ {MaxFiles, MaxEntries} \subseteq Nat

VARIABLES
    llm_mode, cap,   \* the command line
    llm,     \* MemoLlm: haiku_ and sonnet_ map contexts to answers; calls
    phase,   \* "between" files, in a "file", "aborted" or "reported"
    sc,      \* the file in hand: Scenario, and what its own events show
    scen,    \* the attack files read so far
    gate_fail

evalVars == <<llm_mode, cap, llm, phase, sc, scen, gate_fail>>

NewScenario(isAttack) ==
    [attack |-> isAttack, max_sev |-> Info, known_miss |-> FALSE,
     evident |-> FALSE, entries |-> 0]

EvalInit ==
    /\ PipeInit
    /\ llm_mode \in LlmModes
    /\ cap \in Caps
    /\ llm = [haiku |-> <<>>, sonnet |-> <<>>, calls |-> 0]
    /\ phase = "between"
    /\ sc = NewScenario(FALSE)
    /\ scen = <<>>
    /\ gate_fail = FALSE

-----------------------------------------------------------------------------
(* The models.  A context is the event, whose comm, path or address, and    *)
(* tree make up event_summary, with the reason of a correlation.            *)

Context(e, reason) == [event |-> e, reason |-> reason]

(* MockLlmClient: keywords of downloaders, interpreters and temporary paths *)
MockSuspicious(e) ==
    IF "path" \in DOMAIN e
      THEN e.path.bin \in {"downloader", "interpreter"} \/ e.path.dir \in {"tmp", "vartmp"}
      ELSE e.comm \in {"downloader", "interpreter"} \/ e.dport = 4444

MockAnswer(deep, ctx) ==
    IF deep THEN [verdict |-> "suspicious", severity |-> Medium]
    ELSE [verdict |-> IF MockSuspicious(ctx.event) THEN "suspicious" ELSE "normal",
          severity |-> Info]

Answers(deep, ctx) ==
    IF llm_mode = "mock" THEN {MockAnswer(deep, ctx)}
    ELSE IF deep THEN SonnetAnswers ELSE HaikuAnswers

Capped == [verdict |-> "unknown", severity |-> Info]

(* MemoLlm::get: what may be answered, with the state it leaves.  Whatever  *)
(* the client answers is remembered, its fail-safe too; a capped answer is  *)
(* not.                                                                     *)
MemoGet(m, deep, ctx) ==
    LET memo == IF deep THEN m.sonnet ELSE m.haiku
        After(c) == [haiku |-> IF deep THEN m.haiku ELSE Set(memo, ctx, c),
                     sonnet |-> IF deep THEN Set(memo, ctx, c) ELSE m.sonnet,
                     calls |-> m.calls + 1]
    IN  IF ctx \in DOMAIN memo THEN {[c |-> memo[ctx], llm |-> m]}
        ELSE IF m.calls >= cap THEN {[c |-> Capped, llm |-> m]}
        ELSE {[c |-> c, llm |-> After(c)] : c \in Answers(deep, ctx)}

(* classify_event with the memo: it asks only the models it needs, the deep *)
(* one with the correlation's reason where there is one.                    *)
Classified(pr, ch, e, reason) ==
    LET Without(o) == [outcome |-> o, llm |-> llm]
        Deep(m, ctx, h) ==
            {[outcome |-> classify_event(pr, ch, h, s.c), llm |-> s.llm] :
                s \in MemoGet(m, TRUE, ctx)}
    IN  IF pr.decision = "Alert" \/ (pr.decision = "Drop" /\ ch = "none")
          THEN {Without(classify_event(pr, ch, Capped, Capped))}
        ELSE IF ch # "none"
          THEN Deep(llm, Context(e, reason), Capped)
        ELSE UNION {IF h.c.verdict = "normal"
                      THEN {[outcome |-> classify_event(pr, ch, h.c, Capped), llm |-> h.llm]}
                      ELSE Deep(h.llm, Context(e, <<>>), h.c) :
                      h \in MemoGet(llm, FALSE, Context(e, <<>>))}

-----------------------------------------------------------------------------
(* The reasons that observe_execve and observe_connect write, the elapsed   *)
(* time rounded to tenths of a second.                                      *)

Rounded(t) == (t + Tenth \div 2) \div Tenth

ExecReason(e, now) ==
    CASE ExecHit(e, now) = "write-exec-chain" -> <<"C3", Rounded(now - staged[e.path])>>
      [] ExecHit(e, now) = "download-exec-chain" ->
           LET kept == KeptDownloads(now)
               i == CHOOSE j \in 1..Len(kept) :
                      /\ common_ancestor(kept[j].anc, ancestor_set(e))
                      /\ \A k \in 1..(j - 1) : ~common_ancestor(kept[k].anc, ancestor_set(e))
               shared == kept[i].anc \cap ancestor_set(e)
           IN  <<"C1", CHOOSE p \in shared : \A q \in shared : p <= q,
                 Rounded(now - kept[i].ts)>>
      [] OTHER -> <<>>

ConnectReason(e, now) ==
    IF ConnectHit(e, now) = "beacon" THEN <<"C2", Len(NewHist(e, now))>> ELSE <<>>

(* Variant: the correlator outlives the file.                               *)
FreshCorrelator_Kept == UNCHANGED tables

FreshCorrelator == downloads' = <<>> /\ staged' = <<>> /\ conns' = <<>>

(* run_file begins: attack files come after all benign ones.  The virtual   *)
(* clock and the record of what happened start again.                       *)
StartFile(isAttack) ==
    /\ phase = "between"
    /\ sc.attack => isAttack
    /\ isAttack => Len(scen) < MaxFiles
    /\ FreshCorrelator
    /\ clock' = 0
    /\ seenDownloads' = <<>> /\ seenStaged' = <<>> /\ seenConns' = <<>>
    /\ phase' = "file"
    /\ sc' = NewScenario(isAttack)
    /\ UNCHANGED <<boots, outcome, llm_mode, cap, llm, scen, gate_fail>>

(* A file directive: "known-miss" with a reason takes an attack file out of *)
(* the gate, one without a reason puts it back.                             *)
Directive(hasReason) ==
    /\ phase = "file" /\ sc.attack
    /\ sc' = [sc EXCEPT !.known_miss = hasReason]
    /\ UNCHANGED <<pipeVars, llm_mode, cap, llm, phase, scen, gate_fail>>

Delay(ms) ==
    /\ phase = "file" /\ sc.entries < MaxEntries
    /\ clock' = clock + ms
    /\ sc' = [sc EXCEPT !.entries = @ + 1]
    /\ UNCHANGED <<tables, boots, seen, outcome, llm_mode, cap, llm, phase, scen, gate_fail>>

(* What an attack file remembers of an outcome; for the others it is unused *)
Tally(s, o) ==
    [s EXCEPT !.max_sev = IF o.alerted THEN Higher(@, o.severity) ELSE @]

(* One event, a millisecond after the latest entry: classify_event, and the *)
(* tally.  shown: the event is evidence by a rule or with the file's        *)
(* earlier events.                                                          *)
RunEvent(pr, ch, e, reason, shown) ==
    /\ phase = "file" /\ sc.entries < MaxEntries
    /\ Tick(clock + 1)
    /\ \E r \in Classified(pr, ch, e, reason) :
          /\ outcome' = r.outcome
          /\ llm' = r.llm
          /\ sc' = [Tally(sc, r.outcome) EXCEPT !.evident = @ \/ shown,
                                               !.entries = @ + 1]
    /\ UNCHANGED <<llm_mode, cap, phase, scen, gate_fail>>

RunExecve(e) ==
    LET now == clock + 1
    IN  /\ RunEvent(prefilter_execve(e), ExecHit(e, now), e, ExecReason(e, now),
                    \/ prefilter_execve(e).severity >= High
                    \/ is_temp_path(e.path) /\ ~IsDownloader(e.path)
                         /\ (WroteIn(e, now, 0) \/ DownloadIn(e, now, 0)))
        /\ observe_execve(e, now)

RunConnect(e) ==
    LET now == clock + 1
    IN  /\ RunEvent(prefilter_tcp(e), ConnectHit(e, now), e, ConnectReason(e, now),
                    ~is_private_ipv4(e.daddr) /\ ConnectsIn(e, now, 0) >= Threshold)
        /\ observe_connect(e, now)

RunFileOpen(e) ==
    /\ RunEvent(prefilter_file(e), "none", e, <<>>, "SENSITIVE" \in e.access)
    /\ observe_file(e, clock + 1)

EndFile ==
    /\ phase = "file"
    /\ phase' = "between"
    /\ scen' = IF sc.attack THEN Append(scen, sc) ELSE scen
    /\ UNCHANGED <<pipeVars, llm_mode, cap, llm, sc, gate_fail>>

(* parse throws, and main() catches nothing.                                *)
ParseError ==
    /\ phase = "file"
    /\ phase' = "aborted"
    /\ UNCHANGED <<pipeVars, llm_mode, cap, llm, sc, scen, gate_fail>>

Detected(s) == s.max_sev >= High

(* The table of scenarios and the exit code.                                *)
Report ==
    /\ phase = "between"
    /\ phase' = "reported"
    /\ gate_fail' = \E i \in 1..Len(scen) : ~scen[i].known_miss /\ ~Detected(scen[i])
    /\ UNCHANGED <<pipeVars, llm_mode, cap, llm, sc, scen>>

Ended == phase \in {"aborted", "reported"} /\ UNCHANGED <<pipeVars, evalVars>>

EvalNext ==
    \/ \E isAttack \in BOOLEAN : StartFile(isAttack)
    \/ \E hasReason \in BOOLEAN : Directive(hasReason)
    \/ \E ms \in Delays : Delay(ms)
    \/ \E e \in Execs \cap Corpus : RunExecve(e)
    \/ \E e \in Connects \cap Corpus : RunConnect(e)
    \/ \E e \in FileOpens \cap Corpus : RunFileOpen(e)
    \/ EndFile
    \/ ParseError
    \/ Report
    \/ Ended

EvalSpec == EvalInit /\ [][EvalNext]_<<pipeVars, evalVars>>

-----------------------------------------------------------------------------
(* Property.                                                                *)

(* The gate (eval.cpp:9) measures each file by its own events: an attack    *)
(* file with evidence by a rule or a sequence counts as detected whatever   *)
(* the models answer, however few calls are allowed and whatever was read   *)
(* and remembered before; a file without evidence counts only through a     *)
(* severe answer that a real deep model gave.  So with the mock models the  *)
(* gate fails exactly when a file that is no known miss has no evidence,    *)
(* and with real ones never for a file that has.                            *)
GateIsExact ==
    LET severe == \E ctx \in DOMAIN llm.sonnet : llm.sonnet[ctx].severity >= High
        missed == \E i \in 1..Len(scen) : ~scen[i].known_miss /\ ~scen[i].evident
    IN  /\ \A s \in {scen[i] : i \in 1..Len(scen)} \cup {sc} :
              s.attack =>
                  /\ s.evident => Detected(s)
                  /\ Detected(s) => s.evident \/ (llm_mode = "real" /\ severe)
        /\ phase = "reported" =>
              /\ gate_fail => missed
              /\ missed => gate_fail \/ (llm_mode = "real" /\ severe)
=============================================================================
