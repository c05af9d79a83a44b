----------------------------- MODULE EvalProofs ------------------------------
(***************************************************************************)
(* Proofs about the analyzer's decision, for any events, limits, disorder   *)
(* and answers of the models, and about its evaluation, for any corpus,     *)
(* limit on calls and delays.  Every step of the pipeline is a step of the  *)
(* correlator or leaves it alone, so the correlator's invariant holds here  *)
(* too; the rest is a case analysis of classify_event.  In the evaluation   *)
(* the events of a file come from one clock that only advances, so that     *)
(* invariant holds with no disorder, and the correlator's answers are       *)
(* exactly what the file's own events show.                                 *)
(***************************************************************************)
EXTENDS Eval, CorrelatorProofs

(* The pipeline implements the correlator: process_event feeds it each      *)
(* event once and touches its tables in no other way.                       *)
THEOREM PipeImplementsCorr == PipeSpec => CorrSpec
<1>1. PipeInit => CorrInit
  BY DEF PipeInit
<1>2. [PipeNext]_pipeVars => [CorrNext]_corrVars
  <2>. SUFFICES ASSUME [PipeNext]_pipeVars
                PROVE  CorrNext \/ UNCHANGED corrVars
    OBVIOUS
  <2>1. CASE UNCHANGED pipeVars
    BY <2>1 DEF pipeVars
  <2>2. CASE ProcessAgentDrop
    BY <2>2 DEF ProcessAgentDrop
  <2>3. CASE Reboot /\ UNCHANGED outcome
    BY <2>3 DEF CorrNext
  <2>4. ASSUME NEW now \in Times, Tick(now), NEW e \in FileOpens, ProcessFileOpen(e, now)
        PROVE  Observe
    BY <2>4 DEF ProcessFileOpen, Observe
  <2>5. ASSUME NEW now \in Times, Tick(now), NEW e \in Execs, ProcessExecve(e, now)
        PROVE  Observe
    BY <2>5 DEF ProcessExecve, Observe
  <2>6. ASSUME NEW now \in Times, Tick(now), NEW e \in Connects, ProcessConnect(e, now)
        PROVE  Observe
    BY <2>6 DEF ProcessConnect, Observe
  <2>. QED  BY <2>1, <2>2, <2>3, <2>4, <2>5, <2>6 DEF PipeNext, CorrNext
<1>. QED  BY <1>1, <1>2, PTL DEF PipeSpec, CorrSpec

-----------------------------------------------------------------------------
LEMMA AnswerTypes ==
    /\ \A h \in HaikuAnswers : h.verdict \in Verdicts
    /\ \A s \in SonnetAnswers : s.verdict \in Verdicts /\ s.severity \in 0..4
    /\ FailSafe.verdict = "unknown"
<1>1. FailSafe.verdict = "unknown" /\ FailSafe.severity = 2
  BY DEF FailSafe, Medium
<1>2. \A s \in LlmSeverities : s \in 0..4
  BY PipelineAssumption DEF Info, Critical
<1>. QED  BY <1>1, <1>2 DEF HaikuAnswers, SonnetAnswers, Verdicts

(* A chain with any answer of the deep model is a critical alert.           *)
LEMMA ChainAlerts ==
    ASSUME NEW e, NEW h, NEW s \in SonnetAnswers,
           NEW ch \in {"write-exec-chain", "download-exec-chain"}
    PROVE  /\ classify_event(prefilter_execve(e), ch, h, s).alerted
           /\ classify_event(prefilter_execve(e), ch, h, s).severity = Critical
           /\ classify_event(prefilter_execve(e), ch, h, s).verdict
                 \in {"suspicious", "malicious"}
<1>. DEFINE pr == prefilter_execve(e)
            o == WithHit(pr, ch, s)
<1>1. pr.severity \in {0, 3} /\ HitSeverity(ch) = 4
  BY DEF prefilter_execve, Rule, Info, High, HitSeverity, Critical
<1>2. s.verdict \in Verdicts /\ s.severity \in 0..4
  BY AnswerTypes
<1>3. classify_event(pr, ch, h, s) = o
  BY DEF classify_event
<1>. HIDE DEF pr
<1>4. o.alerted /\ o.severity = 4 /\ o.verdict \in {"suspicious", "malicious"}
  <2>1. Higher(pr.severity, HitSeverity(ch)) = 4 /\ Higher(s.severity, HitSeverity(ch)) = 4
    BY <1>1, <1>2 DEF Higher
  <2>. QED  BY <1>2, <2>1 DEF WithHit, Alert, Verdicts
<1>. QED  BY <1>3, <1>4 DEF pr, Critical

(* A freshly staged file, or a temporary file next to a recent downloader,  *)
(* is a critical alert whatever the models answer (pipeline.cpp:66, 77).    *)
THEOREM ChainsAreCritical == PipeSpec => []ChainIsCritical
<1>1. CorrInv(Skew) => ChainIsCritical
  <2>. SUFFICES ASSUME CorrInv(Skew), NEW e \in Candidates, NEW now \in Times,
                       WroteIn(e, now, Skew) \/ DownloadIn(e, now, Skew),
                       NEW h \in HaikuAnswers, NEW s \in SonnetAnswers
                PROVE  /\ classify_event(prefilter_execve(e), ExecHit(e, now), h, s).alerted
                       /\ classify_event(prefilter_execve(e), ExecHit(e, now), h, s).severity
                             = Critical
                       /\ classify_event(prefilter_execve(e), ExecHit(e, now), h, s).verdict
                             \in {"suspicious", "malicious"}
    BY DEF ChainIsCritical
  <2>1. Skew \in Nat /\ now \in Nat /\ now + Skew >= clock
    BY Limits DEF Times
  <2>2. WriteExec(e, now) \/ DownloadExec(e, now)
    BY <2>1, WriteExact, DownloadExact
  <2>3. ExecHit(e, now) \in {"write-exec-chain", "download-exec-chain"}
    BY <2>2 DEF ExecHit, Candidates
  <2>. QED  BY <2>3, ChainAlerts
<1>. QED  BY <1>1, PipeImplementsCorr, CorrInvariance, PTL

(* Without a hit only a cleared event, or one the first model calls normal, *)
(* raises no alert.                                                         *)
LEMMA SilenceWithoutHit ==
    ASSUME NEW pr, NEW h \in HaikuAnswers, NEW s, NEW ch,
           pr.decision \in {"Alert", "Drop", "Escalate"},
           ~classify_event(pr, ch, h, s).alerted
    PROVE  /\ ch = "none"
           /\ \/ pr.decision = "Drop"
              \/ pr.decision = "Escalate" /\ h.verdict = "normal" /\ h # FailSafe
<1>1. CASE ch # "none"
  BY <1>1 DEF classify_event, WithHit, Alert
<1>2. CASE pr.decision = "Alert" /\ ch = "none"
  BY <1>2 DEF classify_event, WithoutHit, Alert
<1>3. CASE pr.decision = "Drop" /\ ch = "none"
  BY <1>3
<1>4. CASE pr.decision = "Escalate" /\ ch = "none"
  <2>1. CASE h.verdict = "normal"
    <3>1. h # FailSafe
      BY <2>1, AnswerTypes
    <3>. QED  BY <1>4, <2>1, <3>1
  <2>2. CASE h.verdict # "normal"
    BY <1>4, <2>2 DEF classify_event, WithoutHit, Alert
  <2>. QED  BY <2>1, <2>2
<1>. QED  BY <1>1, <1>2, <1>3, <1>4

(* An event of a program or a destination passes in silence only with a     *)
(* reason: a rule, or the first model's own word, and never against a       *)
(* beacon; an outage of the models silences nothing.                        *)
THEOREM SilenceIsReasoned == PipeSpec => []SilenceHasAReason
<1>1. CorrInv(Skew) => SilenceHasAReason
  <2>. SUFFICES ASSUME CorrInv(Skew)
                PROVE  SilenceHasAReason
    OBVIOUS
  <2>0. Skew \in Nat
    BY Limits
  <2>1. ASSUME NEW t \in Times, NEW e \in Execs, NEW h \in HaikuAnswers,
               NEW s \in SonnetAnswers,
               ~classify_event(prefilter_execve(e), ExecHit(e, t), h, s).alerted
        PROVE  /\ e.path.dir \notin {"tmp", "shm"}
               /\ e.path.bin = "benign" \/ (h.verdict = "normal" /\ h # FailSafe)
    <3>. DEFINE pr == prefilter_execve(e)
    <3>1. pr.decision \in {"Alert", "Drop", "Escalate"}
      BY DEF prefilter_execve, Rule
    <3>2. \/ pr.decision = "Drop"
          \/ pr.decision = "Escalate" /\ h.verdict = "normal" /\ h # FailSafe
      BY <2>1, <3>1, SilenceWithoutHit
    <3>3. /\ pr.decision # "Alert" => e.path.dir \notin {"tmp", "shm"}
          /\ pr.decision = "Drop" => e.path.bin = "benign"
      BY DEF prefilter_execve, Rule
    <3>. QED  BY <3>2, <3>3
  <2>2. ASSUME NEW t \in Times, NEW e \in Connects, NEW h \in HaikuAnswers,
               NEW s \in SonnetAnswers,
               ~classify_event(prefilter_tcp(e), ConnectHit(e, t), h, s).alerted,
               ~is_private_ipv4(e.daddr)
        PROVE  /\ h.verdict = "normal" /\ h # FailSafe
               /\ e.dport \in {443, 80, 53}
               /\ ConnectsIn(e, t, 2 * Skew) < Threshold
    <3>. DEFINE pr == prefilter_tcp(e)
    <3>1. pr.decision \in {"Alert", "Escalate"}
      BY <2>2 DEF prefilter_tcp, Rule
    <3>2. ConnectHit(e, t) = "none" /\ h.verdict = "normal" /\ h # FailSafe
      BY <2>2, <3>1, SilenceWithoutHit
    <3>3. pr.decision = "Escalate"
      BY <2>2, <3>1, SilenceWithoutHit
    <3>4. e.dport \in {443, 80, 53}
      BY <2>2, <3>3 DEF prefilter_tcp, Rule
    <3>5. t \in Nat /\ t + Skew >= clock
      BY DEF Times
    <3>6. ~(Len(NewHist(e, t)) >= Threshold)
      BY <2>2, <3>2 DEF ConnectHit
    <3>7. ~(ConnectsIn(e, t, 2 * Skew) >= Threshold)
      BY <2>0, <3>5, <3>6, ConnectExact
    <3>8. ConnectsIn(e, t, 2 * Skew) \in Nat
      BY <2>0, ConnectsNumber
    <3>9. ConnectsIn(e, t, 2 * Skew) < Threshold
      BY <3>7, <3>8, Limits
    <3>. QED  BY <3>2, <3>4, <3>9
  <2>. QED  BY <2>1, <2>2 DEF SilenceHasAReason
<1>. QED  BY <1>1, PipeImplementsCorr, CorrInvariance, PTL

-----------------------------------------------------------------------------
(* The evaluation: its invariant.                                           *)

Severities == 0..4

Scenarios == [attack : BOOLEAN, max_sev : Severities, known_miss : BOOLEAN,
              evident : BOOLEAN, entries : Nat]

(* A severe answer of a real deep model.                                    *)
Blamed(mode, memo) ==
    mode = "real" /\ \E ctx \in DOMAIN memo : memo[ctx].severity >= High

(* The mock models give no severe answer, and none is ever forgotten.       *)
MemoInv(mode, memo) ==
    \A ctx \in DOMAIN memo :
        /\ memo[ctx].severity \in Severities
        /\ mode = "mock" => memo[ctx].severity < High

(* What a file showed is what it was judged by, but for a severe answer.    *)
Judged(s, blamed) ==
    /\ s.evident => Detected(s)
    /\ Detected(s) => s.evident \/ blamed

TallyInv ==
    /\ sc \in Scenarios /\ Judged(sc, Blamed(llm_mode, llm.sonnet))
    /\ scen \in Seq(Scenarios)
    /\ \A i \in 1..Len(scen) : Judged(scen[i], Blamed(llm_mode, llm.sonnet))

GateInv ==
    phase = "reported" =>
        (gate_fail <=> \E i \in 1..Len(scen) : ~scen[i].known_miss /\ ~Detected(scen[i]))

EvalInv ==
    /\ CorrInv(0) /\ boots = 0
    /\ llm_mode \in {"mock", "real"}
    /\ MemoInv(llm_mode, llm.sonnet)
    /\ TallyInv
    /\ GateInv

-----------------------------------------------------------------------------
(* The models and their memo.                                               *)

LEMMA Levels == Info = 0 /\ Low = 1 /\ Medium = 2 /\ High = 3 /\ Critical = 4
BY DEF Info, Low, Medium, High, Critical

LEMMA HigherOf ==
    ASSUME NEW a \in Severities, NEW b \in Severities
    PROVE  /\ Higher(a, b) \in Severities
           /\ Higher(a, b) >= High <=> a >= High \/ b >= High
BY Levels DEF Higher, Severities

(* An answer of the deep model, and of the mock one.                        *)
LEMMA DeepAnswers ==
    ASSUME llm_mode \in {"mock", "real"}, NEW ctx, NEW c \in Answers(TRUE, ctx)
    PROVE  /\ c.severity \in Severities
           /\ llm_mode = "mock" => c.severity < High
<1>1. CASE llm_mode = "mock"
  <2>1. c.severity = 2
    BY <1>1, Levels DEF Answers, MockAnswer
  <2>. QED  BY <2>1, Levels DEF Severities
<1>2. CASE llm_mode = "real"
  <2>1. c \in SonnetAnswers
    BY <1>2 DEF Answers
  <2>. QED  BY <1>2, <2>1, AnswerTypes DEF Severities
<1>. QED  BY <1>1, <1>2

(* Asking keeps the invariant of the memo and forgets no severe answer; a   *)
(* severe answer of the deep model is in the memo afterwards.               *)
LEMMA MemoFacts ==
    ASSUME llm_mode \in {"mock", "real"}, NEW m, MemoInv(llm_mode, m.sonnet),
           NEW deep \in BOOLEAN, NEW ctx, NEW g \in MemoGet(m, deep, ctx)
    PROVE  /\ MemoInv(llm_mode, g.llm.sonnet)
           /\ Blamed(llm_mode, m.sonnet) => Blamed(llm_mode, g.llm.sonnet)
           /\ deep => /\ g.c.severity \in Severities
                      /\ g.c.severity >= High => Blamed(llm_mode, g.llm.sonnet)
<1>. DEFINE memo == IF deep THEN m.sonnet ELSE m.haiku
<1>1. CASE ctx \in DOMAIN memo
  <2>1. g.c = memo[ctx] /\ g.llm = m
    BY <1>1 DEF MemoGet
  <2>2. ASSUME deep, g.c.severity >= High
        PROVE  llm_mode = "real"
    BY <1>1, <2>1, <2>2, Levels DEF MemoInv, Severities
  <2>. QED  BY <1>1, <2>1, <2>2 DEF MemoInv, Blamed
<1>2. CASE ctx \notin DOMAIN memo /\ m.calls >= cap
  <2>1. g.c = Capped /\ g.llm = m
    BY <1>2 DEF MemoGet
  <2>2. g.c.severity = 0
    BY <2>1, Levels DEF Capped
  <2>. QED  BY <2>1, <2>2, Levels DEF Severities
<1>3. CASE ctx \notin DOMAIN memo /\ ~(m.calls >= cap)
  <2>1. PICK c \in Answers(deep, ctx) :
           /\ g.c = c
           /\ g.llm.sonnet = IF deep THEN Set(m.sonnet, ctx, c) ELSE m.sonnet
    BY <1>3 DEF MemoGet
  <2>2. CASE ~deep
    BY <2>1, <2>2
  <2>3. CASE deep
    <3>. DEFINE n == g.llm.sonnet
    <3>1. c.severity \in Severities /\ (llm_mode = "mock" => c.severity < High)
      BY <2>3, DeepAnswers
    <3>2. /\ DOMAIN n = DOMAIN m.sonnet \cup {ctx}
          /\ n[ctx] = c
          /\ \A x \in DOMAIN m.sonnet : n[x] = m.sonnet[x]
      BY <1>3, <2>1, <2>3 DEF Set
    <3>. HIDE DEF n
    <3>3. MemoInv(llm_mode, n)
      BY <3>1, <3>2 DEF MemoInv
    <3>4. Blamed(llm_mode, m.sonnet) => Blamed(llm_mode, n)
      BY <3>2 DEF Blamed
    <3>5. c.severity >= High => Blamed(llm_mode, n)
      <4>1. c.severity >= High => llm_mode = "real"
        BY <3>1, Levels DEF Severities
      <4>. QED  BY <3>2, <4>1 DEF Blamed
    <3>. QED  BY <2>1, <3>1, <3>3, <3>4, <3>5 DEF n
  <2>. QED  BY <2>2, <2>3
<1>. QED  BY <1>1, <1>2, <1>3

-----------------------------------------------------------------------------
(* One event.                                                               *)

Decisions == {"Alert", "Drop", "Escalate"}
Hits == {"write-exec-chain", "download-exec-chain", "beacon"}

(* Evidence: a severe rule or a correlation.                                *)
Strong(pr, ch) == ch # "none" \/ (pr.decision = "Alert" /\ pr.severity >= High)

Severe(o) == o.alerted /\ o.severity >= High

(* With a correlation the alert is severe whatever the deep model answers.  *)
LEMMA HitIsSevere ==
    ASSUME NEW pr, pr.severity \in Severities, NEW ch \in Hits,
           NEW h, NEW s, s.severity \in Severities
    PROVE  LET o == classify_event(pr, ch, h, s)
           IN  Severe(o) /\ o.alerted \in BOOLEAN /\ o.severity \in Severities
<1>. DEFINE o == WithHit(pr, ch, s)
            a == Higher(pr.severity, HitSeverity(ch))
            b == Higher(s.severity, HitSeverity(ch))
<1>1. classify_event(pr, ch, h, s) = o
  BY DEF classify_event, Hits
<1>2. HitSeverity(ch) \in Severities /\ HitSeverity(ch) >= High
  BY Levels DEF HitSeverity, Severities
<1>3. a \in Severities /\ a >= High /\ b \in Severities /\ b >= High
  BY <1>2, HigherOf
<1>. HIDE DEF a, b
<1>4. o.alerted = TRUE /\ o.severity \in {a, b}
  BY DEF WithHit, Alert, a, b
<1>. QED  BY <1>1, <1>3, <1>4 DEF Severe

(* Without one, what the rule or else the deep model says.                  *)
LEMMA OutcomeWithoutHit ==
    ASSUME NEW pr, pr.decision \in Decisions, NEW h, NEW s
    PROVE  LET o == classify_event(pr, "none", h, s)
           IN  /\ o.alerted \in BOOLEAN
               /\ pr.decision = "Alert" => o.alerted /\ o.severity = pr.severity
               /\ pr.decision # "Alert" /\ o.alerted => o.severity = s.severity
<1>1. CASE pr.decision = "Drop"
  BY <1>1 DEF classify_event, WithoutHit, NoAlert
<1>2. CASE pr.decision = "Alert"
  BY <1>2 DEF classify_event, WithoutHit, Alert
<1>3. CASE pr.decision = "Escalate" /\ h.verdict = "normal"
  BY <1>3 DEF classify_event, WithoutHit, NoAlert
<1>4. CASE pr.decision = "Escalate" /\ h.verdict # "normal"
  BY <1>4 DEF classify_event, WithoutHit, Alert
<1>. QED  BY <1>1, <1>2, <1>3, <1>4 DEF Decisions

(* The outcomes when the deep model is asked, with the memo m.              *)
DeepOutcomes(pr, ch, m, ctx, h) ==
    {[outcome |-> classify_event(pr, ch, h, s.c), llm |-> s.llm] :
        s \in MemoGet(m, TRUE, ctx)}

LEMMA ClassifiedCases ==
    ASSUME NEW pr, NEW ch, NEW e, NEW reason, NEW r \in Classified(pr, ch, e, reason),
           pr.decision \in Decisions
    PROVE  \/ /\ pr.decision = "Alert" \/ (pr.decision = "Drop" /\ ch = "none")
              /\ r.outcome = classify_event(pr, ch, Capped, Capped) /\ r.llm = llm
           \/ /\ pr.decision # "Alert" /\ ch # "none"
              /\ r \in DeepOutcomes(pr, ch, llm, Context(e, reason), Capped)
           \/ /\ pr.decision = "Escalate" /\ ch = "none"
              /\ \E h \in MemoGet(llm, FALSE, Context(e, <<>>)) :
                    \/ /\ h.c.verdict = "normal"
                       /\ r.outcome = classify_event(pr, ch, h.c, Capped) /\ r.llm = h.llm
                    \/ /\ h.c.verdict # "normal"
                       /\ r \in DeepOutcomes(pr, ch, h.llm, Context(e, <<>>), h.c)
<1>. DEFINE asked == pr.decision = "Alert" \/ (pr.decision = "Drop" /\ ch = "none")
            one(o, l) == {[outcome |-> o, llm |-> l]}
            two(h) == IF h.c.verdict = "normal"
                        THEN one(classify_event(pr, ch, h.c, Capped), h.llm)
                        ELSE DeepOutcomes(pr, ch, h.llm, Context(e, <<>>), h.c)
<1>1. Classified(pr, ch, e, reason) =
        IF asked THEN one(classify_event(pr, ch, Capped, Capped), llm)
        ELSE IF ch # "none" THEN DeepOutcomes(pr, ch, llm, Context(e, reason), Capped)
        ELSE UNION {two(h) : h \in MemoGet(llm, FALSE, Context(e, <<>>))}
  BY Zenon DEF Classified, DeepOutcomes
<1>2. \A o, l : r \in one(o, l) => r.outcome = o /\ r.llm = l
  OBVIOUS
<1>. HIDE DEF one
<1>3. CASE asked
  BY <1>1, <1>2, <1>3
<1>4. CASE ~asked /\ ch # "none"
  BY <1>1, <1>4 DEF Decisions
<1>5. CASE ~asked /\ ch = "none"
  <2>1. PICK h \in MemoGet(llm, FALSE, Context(e, <<>>)) : r \in two(h)
    <3>. HIDE DEF two
    <3>1. r \in UNION {two(h) : h \in MemoGet(llm, FALSE, Context(e, <<>>))}
      BY <1>1, <1>5
    <3>. QED  BY <3>1, Zenon
  <2>2. pr.decision = "Escalate"
    BY <1>5 DEF Decisions
  <2>. QED  BY <1>2, <1>5, <2>1, <2>2
<1>. QED  BY <1>3, <1>4, <1>5

(* An event is severe when there is evidence, and otherwise only through a  *)
(* severe answer of a real deep model.                                      *)
LEMMA OutcomeFacts ==
    ASSUME llm_mode \in {"mock", "real"}, MemoInv(llm_mode, llm.sonnet),
           NEW pr, pr.severity \in Severities, pr.decision \in Decisions,
           NEW ch \in Hits \cup {"none"}, NEW e, NEW reason,
           NEW r \in Classified(pr, ch, e, reason)
    PROVE  /\ MemoInv(llm_mode, r.llm.sonnet)
           /\ Blamed(llm_mode, llm.sonnet) => Blamed(llm_mode, r.llm.sonnet)
           /\ r.outcome.alerted \in BOOLEAN
           /\ r.outcome.alerted => r.outcome.severity \in Severities
           /\ Strong(pr, ch) => Severe(r.outcome)
           /\ Severe(r.outcome) => Strong(pr, ch) \/ Blamed(llm_mode, r.llm.sonnet)
<1>0. Capped.severity = 0 /\ Capped.severity \in Severities
  BY Levels DEF Capped, Severities
<1>1. CASE /\ pr.decision = "Alert" \/ (pr.decision = "Drop" /\ ch = "none")
           /\ r.outcome = classify_event(pr, ch, Capped, Capped) /\ r.llm = llm
  <2>1. r.outcome = classify_event(pr, ch, Capped, Capped) /\ r.llm = llm
    BY <1>1
  <2>2. CASE ch \in Hits
    <3>1. /\ Severe(r.outcome) /\ r.outcome.alerted \in BOOLEAN
          /\ r.outcome.severity \in Severities
      BY <1>0, <2>1, <2>2, HitIsSevere
    <3>. QED  BY <2>1, <2>2, <3>1 DEF Strong, Hits
  <2>3. CASE ch = "none"
    <3>1. /\ r.outcome.alerted \in BOOLEAN
          /\ pr.decision = "Alert" => r.outcome.alerted /\ r.outcome.severity = pr.severity
          /\ pr.decision # "Alert" /\ r.outcome.alerted => r.outcome.severity = Capped.severity
      BY <2>1, <2>3, OutcomeWithoutHit
    <3>. QED  BY <1>0, <2>1, <2>3, <3>1, Levels DEF Strong, Severe
  <2>. QED  BY <2>2, <2>3
<1>2. ASSUME NEW m, MemoInv(llm_mode, m.sonnet), NEW ctx, NEW h,
             Blamed(llm_mode, llm.sonnet) => Blamed(llm_mode, m.sonnet),
             r \in DeepOutcomes(pr, ch, m, ctx, h), ch # "none" \/ pr.decision # "Alert"
      PROVE  /\ MemoInv(llm_mode, r.llm.sonnet)
             /\ Blamed(llm_mode, llm.sonnet) => Blamed(llm_mode, r.llm.sonnet)
             /\ r.outcome.alerted \in BOOLEAN
             /\ r.outcome.alerted => r.outcome.severity \in Severities
             /\ Strong(pr, ch) => Severe(r.outcome)
             /\ Severe(r.outcome) => Strong(pr, ch) \/ Blamed(llm_mode, r.llm.sonnet)
  <2>1. PICK s \in MemoGet(m, TRUE, ctx) :
           r.outcome = classify_event(pr, ch, h, s.c) /\ r.llm = s.llm
    <3>1. PICK s \in MemoGet(m, TRUE, ctx) :
             r = [outcome |-> classify_event(pr, ch, h, s.c), llm |-> s.llm]
      BY <1>2, Zenon DEF DeepOutcomes
    <3>. QED  BY <3>1
  <2>2. /\ MemoInv(llm_mode, s.llm.sonnet)
        /\ Blamed(llm_mode, m.sonnet) => Blamed(llm_mode, s.llm.sonnet)
        /\ s.c.severity \in Severities
        /\ s.c.severity >= High => Blamed(llm_mode, s.llm.sonnet)
    BY <1>2, MemoFacts
  <2>3. CASE ch \in Hits
    <3>1. /\ Severe(r.outcome) /\ r.outcome.alerted \in BOOLEAN
          /\ r.outcome.severity \in Severities
      BY <2>1, <2>2, <2>3, HitIsSevere
    <3>. QED  BY <1>2, <2>1, <2>2, <2>3, <3>1 DEF Strong, Hits
  <2>4. CASE ch = "none"
    <3>1. /\ r.outcome.alerted \in BOOLEAN
          /\ pr.decision # "Alert"
          /\ r.outcome.alerted => r.outcome.severity = s.c.severity
      BY <1>2, <2>1, <2>4, OutcomeWithoutHit
    <3>. QED  BY <1>2, <2>1, <2>2, <2>4, <3>1 DEF Strong, Severe
  <2>. QED  BY <2>3, <2>4
<1>3. CASE /\ pr.decision # "Alert" /\ ch # "none"
           /\ r \in DeepOutcomes(pr, ch, llm, Context(e, reason), Capped)
  BY <1>2, <1>3
<1>4. CASE /\ pr.decision = "Escalate" /\ ch = "none"
           /\ \E h \in MemoGet(llm, FALSE, Context(e, <<>>)) :
                 \/ /\ h.c.verdict = "normal"
                    /\ r.outcome = classify_event(pr, ch, h.c, Capped) /\ r.llm = h.llm
                 \/ /\ h.c.verdict # "normal"
                    /\ r \in DeepOutcomes(pr, ch, h.llm, Context(e, <<>>), h.c)
  <2>1. PICK h \in MemoGet(llm, FALSE, Context(e, <<>>)) :
           \/ r.outcome = classify_event(pr, ch, h.c, Capped) /\ r.llm = h.llm
           \/ r \in DeepOutcomes(pr, ch, h.llm, Context(e, <<>>), h.c)
    BY <1>4
  <2>2. /\ MemoInv(llm_mode, h.llm.sonnet)
        /\ Blamed(llm_mode, llm.sonnet) => Blamed(llm_mode, h.llm.sonnet)
    BY MemoFacts
  <2>3. CASE r.outcome = classify_event(pr, ch, h.c, Capped) /\ r.llm = h.llm
    <3>1. /\ r.outcome.alerted \in BOOLEAN
          /\ r.outcome.alerted => r.outcome.severity = Capped.severity
      BY <1>4, <2>3, OutcomeWithoutHit DEF Decisions
    <3>. QED  BY <1>0, <1>4, <2>2, <2>3, <3>1, Levels DEF Strong, Severe
  <2>4. CASE r \in DeepOutcomes(pr, ch, h.llm, Context(e, <<>>), h.c)
    <3>1. pr.decision # "Alert"
      BY <1>4
    <3>. QED  BY <1>2, <2>2, <2>4, <3>1
  <2>. QED  BY <2>1, <2>3, <2>4
<1>. QED  BY <1>1, <1>3, <1>4, ClassifiedCases

-----------------------------------------------------------------------------
(* The tally of a file.                                                     *)

(* A verdict on a file stays right when further answers are remembered.     *)
LEMMA JudgedStays ==
    ASSUME NEW s, NEW b1, NEW b2, Judged(s, b1), b1 => b2
    PROVE  Judged(s, b2)
BY DEF Judged

LEMMA RunTally ==
    ASSUME llm_mode \in {"mock", "real"}, MemoInv(llm_mode, llm.sonnet), TallyInv, GateInv,
           NEW pr, pr.severity \in Severities, pr.decision \in Decisions,
           NEW ch \in Hits \cup {"none"}, NEW e, NEW reason,
           NEW shown \in BOOLEAN, shown <=> Strong(pr, ch),
           RunEvent(pr, ch, e, reason, shown)
    PROVE  /\ llm_mode' = llm_mode
           /\ MemoInv(llm_mode, llm.sonnet)' /\ TallyInv' /\ GateInv'
<1>1. PICK r \in Classified(pr, ch, e, reason) :
         /\ llm' = r.llm
         /\ sc' = [Tally(sc, r.outcome) EXCEPT !.evident = @ \/ shown, !.entries = @ + 1]
  BY DEF RunEvent
<1>2. llm_mode' = llm_mode /\ scen' = scen /\ phase' = phase /\ phase = "file"
  BY DEF RunEvent
<1>3. /\ MemoInv(llm_mode, r.llm.sonnet)
      /\ Blamed(llm_mode, llm.sonnet) => Blamed(llm_mode, r.llm.sonnet)
      /\ r.outcome.alerted \in BOOLEAN
      /\ r.outcome.alerted => r.outcome.severity \in Severities
      /\ Strong(pr, ch) => Severe(r.outcome)
      /\ Severe(r.outcome) => Strong(pr, ch) \/ Blamed(llm_mode, r.llm.sonnet)
  BY OutcomeFacts
<1>. DEFINE m == IF r.outcome.alerted THEN Higher(sc.max_sev, r.outcome.severity)
                                      ELSE sc.max_sev
            blamed == Blamed(llm_mode, llm.sonnet)
            blamed2 == Blamed(llm_mode, r.llm.sonnet)
<1>4. sc \in Scenarios /\ Judged(sc, blamed)
  BY DEF TallyInv
<1>5. /\ m \in Severities
      /\ m >= High <=> sc.max_sev >= High \/ Severe(r.outcome)
  <2>1. sc.max_sev \in Severities
    BY <1>4 DEF Scenarios
  <2>. QED  BY <1>3, <2>1, HigherOf DEF Severe
<1>6. sc' = [attack |-> sc.attack, max_sev |-> m, known_miss |-> sc.known_miss,
             evident |-> sc.evident \/ shown, entries |-> sc.entries + 1]
  BY <1>1, <1>4 DEF Tally, Scenarios
<1>. HIDE DEF m
<1>7. sc' \in Scenarios
  <2>1. sc.entries + 1 \in Nat /\ (sc.evident \/ shown) \in BOOLEAN
        /\ sc.attack \in BOOLEAN /\ sc.known_miss \in BOOLEAN
    BY <1>4 DEF Scenarios
  <2>. QED  BY <1>5, <1>6, <2>1 DEF Scenarios
<1>8. Judged(sc', blamed2)
  <2>1. sc'.max_sev = m /\ (sc'.evident <=> sc.evident \/ shown)
    BY <1>6
  <2>2. /\ sc.evident => sc.max_sev >= High
        /\ sc.max_sev >= High => sc.evident \/ blamed
    BY <1>4 DEF Judged, Detected
  <2>. HIDE DEF blamed, blamed2
  <2>3. blamed => blamed2
    BY <1>3 DEF blamed, blamed2
  <2>4. Severe(r.outcome) => Strong(pr, ch) \/ blamed2
    BY <1>3 DEF blamed2
  <2>. QED  BY <1>3, <1>5, <2>1, <2>2, <2>3, <2>4 DEF Judged, Detected
<1>9. \A i \in 1..Len(scen) : Judged(scen[i], blamed2)
  BY <1>3, JudgedStays DEF TallyInv
<1>10. TallyInv'
  BY <1>1, <1>2, <1>7, <1>8, <1>9 DEF TallyInv
<1>. QED  BY <1>1, <1>2, <1>3, <1>10 DEF GateInv, MemoInv

-----------------------------------------------------------------------------
(* Within a file the correlator says exactly what the file's events show.   *)

LEMMA NoMargin == \A n \in Nat : n + (-0) = n + 0
OBVIOUS

LEMMA ExecEvidence ==
    ASSUME CorrInv(0), boots = 0, NEW e, NEW now \in Nat, now >= clock
    PROVE  ExecHit(e, now) # "none" <=>
              /\ is_temp_path(e.path) /\ ~IsDownloader(e.path)
              /\ WroteIn(e, now, 0) \/ DownloadIn(e, now, 0)
<1>t. clock \in Nat
  BY DEF CorrInv
<1>0. now + 0 >= clock /\ 0 \in Nat
  BY <1>t
<1>1. WriteExec(e, now) <=> WroteIn(e, now, 0)
  BY <1>0, WriteExact
<1>2. DownloadExec(e, now) <=> DownloadIn(e, now, 0)
  <2>1. /\ DownloadExec(e, now) => DownloadIn(e, now, -0)
        /\ DownloadIn(e, now, 0) => DownloadExec(e, now)
    BY <1>0, DownloadExact
  <2>2. DownloadIn(e, now, -0) = DownloadIn(e, now, 0)
    BY NoMargin DEF DownloadIn
  <2>. QED  BY <2>1, <2>2
<1>. QED  BY <1>1, <1>2 DEF ExecHit

LEMMA ConnectEvidence ==
    ASSUME CorrInv(0), boots = 0, NEW e, NEW now \in Nat, now >= clock
    PROVE  ConnectHit(e, now) # "none" <=>
              ~is_private_ipv4(e.daddr) /\ ConnectsIn(e, now, 0) >= Threshold
<1>t. clock \in Nat
  BY DEF CorrInv
<1>0. now + 0 >= clock /\ 0 \in Nat /\ 2 * 0 = 0
  BY <1>t
<1>1. Len(NewHist(e, now)) >= Threshold <=> ConnectsIn(e, now, 0) >= Threshold
  <2>1. /\ Len(NewHist(e, now)) >= Threshold => ConnectsIn(e, now, -0) >= Threshold
        /\ ConnectsIn(e, now, 2 * 0) >= Threshold => Len(NewHist(e, now)) >= Threshold
    BY <1>0, ConnectExact
  <2>2. ConnectsIn(e, now, -0) = ConnectsIn(e, now, 0)
    BY NoMargin DEF ConnectsIn
  <2>. QED  BY <1>0, <2>1, <2>2
<1>. QED  BY <1>1 DEF ConnectHit

(* What a run of a program, a connection or a file event does.              *)
EventStepInv ==
    /\ CorrInv(0)' /\ boots' = boots /\ llm_mode' = llm_mode
    /\ MemoInv(llm_mode, llm.sonnet)' /\ TallyInv' /\ GateInv'

LEMMA ExecveStep ==
    ASSUME EvalInv, NEW e \in Execs, RunExecve(e)
    PROVE  EventStepInv
<1>. DEFINE now == clock + 1
            pr == prefilter_execve(e)
            ch == ExecHit(e, now)
            shown == \/ pr.severity >= High
                     \/ is_temp_path(e.path) /\ ~IsDownloader(e.path)
                          /\ (WroteIn(e, now, 0) \/ DownloadIn(e, now, 0))
<1>0. CorrInv(0) /\ clock \in Nat /\ now \in Nat /\ now >= clock /\ now + 0 >= clock
      /\ boots = 0
  BY DEF EvalInv, CorrInv
<1>1. /\ RunEvent(pr, ch, e, ExecReason(e, now), shown)
      /\ observe_execve(e, now) /\ Tick(now)
  BY DEF RunExecve, RunEvent
<1>2. CorrInv(0)' /\ boots' = boots
  BY <1>0, <1>1, ExecStep DEF Tick
<1>3. /\ pr.severity \in Severities /\ pr.decision \in Decisions
      /\ pr.severity >= High <=> pr.decision = "Alert" /\ pr.severity >= High
  BY Levels DEF prefilter_execve, Rule, Severities, Decisions
<1>4. ch \in Hits \cup {"none"}
  BY DEF ExecHit, Hits
<1>5. shown <=> Strong(pr, ch)
  <2>1. ch # "none" <=> /\ is_temp_path(e.path) /\ ~IsDownloader(e.path)
                        /\ WroteIn(e, now, 0) \/ DownloadIn(e, now, 0)
    BY <1>0, ExecEvidence
  <2>. HIDE DEF pr, ch
  <2>. QED  BY <1>3, <2>1 DEF Strong
<1>6. shown \in BOOLEAN
  OBVIOUS
<1>. HIDE DEF pr, ch, shown
<1>. QED  BY <1>1, <1>2, <1>3, <1>4, <1>5, <1>6, RunTally DEF EvalInv, EventStepInv

LEMMA TcpStep ==
    ASSUME EvalInv, NEW e \in Connects, RunConnect(e)
    PROVE  EventStepInv
<1>. DEFINE now == clock + 1
            pr == prefilter_tcp(e)
            ch == ConnectHit(e, now)
            shown == ~is_private_ipv4(e.daddr) /\ ConnectsIn(e, now, 0) >= Threshold
<1>0. CorrInv(0) /\ clock \in Nat /\ now \in Nat /\ now >= clock /\ now + 0 >= clock
      /\ boots = 0
  BY DEF EvalInv, CorrInv
<1>1. /\ RunEvent(pr, ch, e, ConnectReason(e, now), shown)
      /\ observe_connect(e, now) /\ Tick(now)
  BY DEF RunConnect, RunEvent
<1>2. CorrInv(0)' /\ boots' = boots
  BY <1>0, <1>1, ConnectStep DEF Tick
<1>3. /\ pr.severity \in Severities /\ pr.decision \in Decisions
      /\ ~(pr.severity >= High)
  BY Levels DEF prefilter_tcp, Rule, Severities, Decisions
<1>4. ch \in Hits \cup {"none"}
  BY DEF ConnectHit, Hits
<1>5. shown <=> Strong(pr, ch)
  <2>1. ch # "none" <=> shown
    BY <1>0, ConnectEvidence
  <2>. HIDE DEF pr, ch
  <2>. QED  BY <1>3, <2>1 DEF Strong
<1>6. shown \in BOOLEAN
  OBVIOUS
<1>. HIDE DEF pr, ch, shown
<1>. QED  BY <1>1, <1>2, <1>3, <1>4, <1>5, <1>6, RunTally DEF EvalInv, EventStepInv

LEMMA FileOpenStep ==
    ASSUME EvalInv, NEW e \in FileOpens, RunFileOpen(e)
    PROVE  EventStepInv
<1>. DEFINE now == clock + 1
            pr == prefilter_file(e)
            shown == "SENSITIVE" \in e.access
<1>0. CorrInv(0) /\ clock \in Nat /\ now \in Nat /\ now + 0 >= clock
  BY DEF EvalInv, CorrInv
<1>1. /\ RunEvent(pr, "none", e, <<>>, shown)
      /\ observe_file(e, now) /\ Tick(now)
  BY DEF RunFileOpen, RunEvent
<1>2. CorrInv(0)' /\ boots' = boots
  BY <1>0, <1>1, FileStep DEF Tick
<1>3. pr.severity \in Severities /\ pr.decision \in Decisions
  BY Levels DEF prefilter_file, Rule, Severities, Decisions
<1>5. shown <=> Strong(pr, "none")
  BY Levels DEF prefilter_file, Rule, Strong
<1>6. shown \in BOOLEAN
  OBVIOUS
<1>. HIDE DEF pr, shown
<1>. QED  BY <1>1, <1>2, <1>3, <1>5, <1>6, RunTally DEF EvalInv, EventStepInv

-----------------------------------------------------------------------------
(* The steps between and around events.                                     *)

LEMMA NewScenarioJudged ==
    ASSUME NEW isAttack \in BOOLEAN, NEW blamed
    PROVE  NewScenario(isAttack) \in Scenarios /\ Judged(NewScenario(isAttack), blamed)
BY Levels DEF NewScenario, Scenarios, Severities, Judged, Detected

LEMMA InitEvalInv ==
    ASSUME EvalInit
    PROVE  EvalInv
<1>1. CorrInv(0) /\ boots = 0
  BY InitCorrInv DEF EvalInit, PipeInit, CorrInit
<1>2. llm_mode \in {"mock", "real"}
  BY EvalAssumption DEF EvalInit
<1>3. MemoInv(llm_mode, llm.sonnet)
  BY EmptyTables DEF EvalInit, MemoInv
<1>4. TallyInv
  <2>1. scen = <<>> /\ <<>> \in Seq(Scenarios) /\ Len(<<>>) = 0
    BY EmptySeq DEF EvalInit
  <2>2. sc \in Scenarios /\ Judged(sc, Blamed(llm_mode, llm.sonnet))
    BY NewScenarioJudged DEF EvalInit
  <2>. QED  BY <2>1, <2>2 DEF TallyInv
<1>5. GateInv
  BY DEF EvalInit, GateInv
<1>. QED  BY <1>1, <1>2, <1>3, <1>4, <1>5 DEF EvalInv

LEMMA StartFileStep ==
    ASSUME EvalInv, NEW isAttack \in BOOLEAN, StartFile(isAttack)
    PROVE  EvalInv'
<1>1. /\ downloads' = <<>> /\ staged' = <<>> /\ conns' = <<>>
      /\ clock' = 0 /\ boots' = boots
      /\ seenDownloads' = <<>> /\ seenStaged' = <<>> /\ seenConns' = <<>>
  BY DEF StartFile, FreshCorrelator
<1>2. boots = 0 /\ 0 \in 0..MaxBoots
  BY Limits DEF EvalInv
<1>3. CorrInv(0)' /\ boots' = 0
  BY <1>1, <1>2, EmptyTables DEF CorrInv
<1>4. /\ phase' = "file" /\ sc' = NewScenario(isAttack)
      /\ llm_mode' = llm_mode /\ llm' = llm /\ scen' = scen
  BY DEF StartFile
<1>5. TallyInv'
  BY <1>4, NewScenarioJudged DEF EvalInv, TallyInv
<1>. QED  BY <1>3, <1>4, <1>5 DEF EvalInv, GateInv, MemoInv

(* A directive changes what the gate asks of the file, not what it showed.  *)
LEMMA DirectiveStep ==
    ASSUME EvalInv, NEW hasReason \in BOOLEAN, Directive(hasReason)
    PROVE  EvalInv'
<1>1. /\ sc' = [sc EXCEPT !.known_miss = hasReason]
      /\ phase' = phase /\ phase = "file"
      /\ llm_mode' = llm_mode /\ llm' = llm /\ scen' = scen
      /\ UNCHANGED pipeVars
  BY DEF Directive
<1>2. sc \in Scenarios /\ Judged(sc, Blamed(llm_mode, llm.sonnet))
  BY DEF EvalInv, TallyInv
<1>3. sc' \in Scenarios /\ sc'.evident = sc.evident /\ sc'.max_sev = sc.max_sev
  BY <1>1, <1>2 DEF Scenarios
<1>4. Judged(sc', Blamed(llm_mode, llm.sonnet))
  BY <1>2, <1>3 DEF Judged, Detected
<1>5. TallyInv'
  BY <1>1, <1>3, <1>4 DEF EvalInv, TallyInv
<1>6. CorrInv(0)' /\ boots' = 0
  BY <1>1 DEF EvalInv, CorrInv, pipeVars, corrVars, tables, history, seen
<1>. QED  BY <1>1, <1>5, <1>6 DEF EvalInv, GateInv, MemoInv

(* Time passes: nothing of the correlator's comes back to life.             *)
LEMMA DelayStep ==
    ASSUME EvalInv, NEW ms \in Delays, Delay(ms)
    PROVE  EvalInv'
<1>1. /\ clock' = clock + ms
      /\ sc' = [sc EXCEPT !.entries = @ + 1]
      /\ phase' = phase /\ phase = "file"
      /\ llm_mode' = llm_mode /\ llm' = llm /\ scen' = scen
      /\ boots' = boots /\ UNCHANGED <<tables, seen>>
  BY DEF Delay
<1>2. /\ clock \in Nat /\ clock' \in Nat /\ clock <= clock'
      /\ boots = 0 /\ boots \in 0..MaxBoots
  <2>1. clock \in Nat /\ boots = 0 /\ boots \in 0..MaxBoots
    BY DEF EvalInv, CorrInv
  <2>2. ms \in Nat
    BY EvalAssumption
  <2>. QED  BY <1>1, <2>1, <2>2
<1>3. /\ DownInv(downloads, seenDownloads, clock', 0, boots)
      /\ ConnsInv(conns, seenConns, clock', 0, boots)
      /\ StagedInv(staged, seenStaged, clock', boots)
  <2>1. /\ DownInv(downloads, seenDownloads, clock, 0, boots)
        /\ ConnsInv(conns, seenConns, clock, 0, boots)
        /\ StagedInv(staged, seenStaged, clock, boots)
        /\ 0 \in Nat
    BY DEF EvalInv, CorrInv
  <2>. QED  BY <1>2, <2>1, DownTick, ConnsTick, StagedTick
<1>4. CorrInv(0)'
  BY <1>1, <1>2, <1>3 DEF CorrInv, tables, seen
<1>5. sc \in Scenarios /\ Judged(sc, Blamed(llm_mode, llm.sonnet))
  BY DEF EvalInv, TallyInv
<1>6. sc' \in Scenarios /\ sc'.evident = sc.evident /\ sc'.max_sev = sc.max_sev
  BY <1>1, <1>5 DEF Scenarios
<1>7. Judged(sc', Blamed(llm_mode, llm.sonnet))
  BY <1>5, <1>6 DEF Judged, Detected
<1>8. TallyInv'
  BY <1>1, <1>6, <1>7 DEF EvalInv, TallyInv
<1>. QED  BY <1>1, <1>2, <1>4, <1>8 DEF EvalInv, GateInv, MemoInv

LEMMA EndFileStep ==
    ASSUME EvalInv, EndFile
    PROVE  EvalInv'
<1>1. /\ phase' = "between" /\ sc' = sc
      /\ scen' = IF sc.attack THEN Append(scen, sc) ELSE scen
      /\ llm_mode' = llm_mode /\ llm' = llm
      /\ UNCHANGED pipeVars
  BY DEF EndFile
<1>. DEFINE blamed == Blamed(llm_mode, llm.sonnet)
<1>2. /\ sc \in Scenarios /\ Judged(sc, blamed)
      /\ scen \in Seq(Scenarios)
      /\ \A i \in 1..Len(scen) : Judged(scen[i], blamed)
  BY DEF EvalInv, TallyInv
<1>. HIDE DEF blamed
<1>3. scen' \in Seq(Scenarios) /\ \A i \in 1..Len(scen') : Judged(scen'[i], blamed)
  <2>. DEFINE a == Append(scen, sc)
  <2>1. /\ a \in Seq(Scenarios) /\ Len(a) = Len(scen) + 1 /\ Len(scen) \in Nat
        /\ \A i \in 1..Len(scen) : a[i] = scen[i]
        /\ a[Len(scen) + 1] = sc
    BY <1>2, AppendProperties, LenProperties
  <2>. HIDE DEF a
  <2>2. \A i \in 1..Len(a) : Judged(a[i], blamed)
    BY <1>2, <2>1
  <2>. QED  BY <1>1, <1>2, <2>1, <2>2 DEF a
<1>4. TallyInv'
  BY <1>1, <1>2, <1>3 DEF TallyInv, blamed
<1>5. CorrInv(0)' /\ boots' = 0
  BY <1>1 DEF EvalInv, CorrInv, pipeVars, corrVars, tables, history, seen
<1>. QED  BY <1>1, <1>4, <1>5 DEF EvalInv, GateInv, MemoInv

(* The steps that leave events and tallies alone.                           *)
LEMMA RestStep ==
    ASSUME EvalInv, UNCHANGED <<pipeVars, llm_mode, llm, sc, scen>>,
           GateInv'
    PROVE  EvalInv'
<1>1. CorrInv(0)' /\ boots' = 0
  BY DEF EvalInv, CorrInv, pipeVars, corrVars, tables, history, seen
<1>. QED  BY <1>1 DEF EvalInv, MemoInv, TallyInv

-----------------------------------------------------------------------------
(* The invariant of the evaluation holds in every state.                    *)
THEOREM EvalInvariance == EvalSpec => []EvalInv
<1>1. EvalInit => EvalInv
  BY InitEvalInv
<1>2. EvalInv /\ [EvalNext]_<<pipeVars, evalVars>> => EvalInv'
  <2>. SUFFICES ASSUME EvalInv, [EvalNext]_<<pipeVars, evalVars>>
                PROVE  EvalInv'
    OBVIOUS
  <2>1. ASSUME NEW isAttack \in BOOLEAN, StartFile(isAttack)
        PROVE  EvalInv'
    BY <2>1, StartFileStep
  <2>2. ASSUME NEW hasReason \in BOOLEAN, Directive(hasReason)
        PROVE  EvalInv'
    BY <2>2, DirectiveStep
  <2>3. ASSUME NEW ms \in Delays, Delay(ms)
        PROVE  EvalInv'
    BY <2>3, DelayStep
  <2>4. EventStepInv => EvalInv'
    BY DEF EventStepInv, EvalInv
  <2>5. ASSUME NEW e \in Execs, RunExecve(e)
        PROVE  EvalInv'
    BY <2>4, <2>5, ExecveStep
  <2>6. ASSUME NEW e \in Connects, RunConnect(e)
        PROVE  EvalInv'
    BY <2>4, <2>6, TcpStep
  <2>7. ASSUME NEW e \in FileOpens, RunFileOpen(e)
        PROVE  EvalInv'
    BY <2>4, <2>7, FileOpenStep
  <2>8. CASE EndFile
    BY <2>8, EndFileStep
  <2>9. CASE ParseError
    <3>1. GateInv'
      BY <2>9 DEF ParseError, GateInv
    <3>. QED  BY <2>9, <3>1, RestStep DEF ParseError
  <2>10. CASE Report
    <3>1. GateInv'
      BY <2>10 DEF Report, GateInv
    <3>. QED  BY <2>10, <3>1, RestStep DEF Report
  <2>11. CASE Ended \/ UNCHANGED <<pipeVars, evalVars>>
    <3>1. GateInv'
      BY <2>11 DEF Ended, evalVars, EvalInv, GateInv
    <3>. QED  BY <2>11, <3>1, RestStep DEF Ended, evalVars
  <2>. QED  BY <2>1, <2>2, <2>3, <2>5, <2>6, <2>7, <2>8, <2>9, <2>10, <2>11 DEF EvalNext
<1>. QED  BY <1>1, <1>2, PTL DEF EvalSpec

(* The gate judges every attack file by its own events, whatever was read   *)
(* before it, whatever the models answer and whenever the limit on calls    *)
(* cuts them off; only a severe answer of a real model can make up for      *)
(* evidence that is not there (eval.cpp:9).                                 *)
THEOREM GateExact == EvalSpec => []GateIsExact
<1>1. EvalInv => GateIsExact
  <2>. SUFFICES ASSUME EvalInv
                PROVE  GateIsExact
    OBVIOUS
  <2>. DEFINE severe == \E ctx \in DOMAIN llm.sonnet : llm.sonnet[ctx].severity >= High
              missed == \E i \in 1..Len(scen) : ~scen[i].known_miss /\ ~scen[i].evident
              blamed == Blamed(llm_mode, llm.sonnet)
  <2>1. blamed <=> llm_mode = "real" /\ severe
    BY DEF Blamed
  <2>2. Judged(sc, blamed) /\ \A i \in 1..Len(scen) : Judged(scen[i], blamed)
    BY DEF EvalInv, TallyInv
  <2>3. \A s \in {scen[i] : i \in 1..Len(scen)} \cup {sc} : Judged(s, blamed)
    BY <2>2
  <2>4. ASSUME phase = "reported"
        PROVE  /\ gate_fail => missed
               /\ missed => gate_fail \/ blamed
    <3>1. gate_fail <=> \E i \in 1..Len(scen) : ~scen[i].known_miss /\ ~Detected(scen[i])
      BY <2>4 DEF EvalInv, GateInv
    <3>2. \A i \in 1..Len(scen) : /\ scen[i].evident => Detected(scen[i])
                                  /\ Detected(scen[i]) => scen[i].evident \/ blamed
      BY <2>2 DEF Judged
    <3>. QED  BY <3>1, <3>2
  <2>. HIDE DEF blamed, severe
  <2>5. \A s \in {scen[i] : i \in 1..Len(scen)} \cup {sc} :
           s.attack => /\ s.evident => Detected(s)
                       /\ Detected(s) => s.evident \/ (llm_mode = "real" /\ severe)
    BY <2>1, <2>3 DEF Judged
  <2>. QED  BY <2>1, <2>4, <2>5 DEF GateIsExact, severe
<1>. QED  BY <1>1, EvalInvariance, PTL
=============================================================================
