------------------------------ MODULE Pipeline -------------------------------
(***************************************************************************)
(* The analyzer's decision about one event: prefilter (prefilter.cpp), the  *)
(* correlator, the two LLM stages (llm_client_claude.cpp) and               *)
(* classify_event (pipeline.cpp).  The model's answers are arbitrary; a     *)
(* call that fails in any way answers FailSafe.                             *)
(***************************************************************************)
EXTENDS Correlator

CONSTANT LlmSeverities   \* the severities the deep model answers with

VARIABLE outcome   \* what the last process_event did

pipeVars == <<corrVars, outcome>>

(* enum Severity, in its order                                              *)
Info == 0
Low == 1
Medium == 2
High == 3
Critical == 4
Higher(a, b) == IF a >= b THEN a ELSE b

Verdicts == {"normal", "suspicious", "malicious", "unknown"}

(* Variant: a failed call counts as normal.                                 *)
FailSafe_Normal == [verdict |-> "normal", severity |-> Info]

(* fail_safe                                                                *)
FailSafe == [verdict |-> "unknown", severity |-> Medium]

(* ClaudeLlmClient::call: parse_verdict and parse_severity map whatever the *)
(* model wrote into the enums; the first stage carries no severity.         *)
HaikuAnswers == [verdict : Verdicts, severity : {Info}] \cup {FailSafe}
SonnetAnswers == [verdict : Verdicts, severity : LlmSeverities] \cup {FailSafe}

ASSUME PipelineAssumption == LlmSeverities \subseteq Info..Critical

-----------------------------------------------------------------------------
(* prefilter                                                                *)

Rule(d, s) == [decision |-> d, severity |-> s]

prefilter_execve(e) ==
    IF e.path.dir \in {"tmp", "shm"} \/ e.path.bin = "malicious" THEN Rule("Alert", High)
    ELSE IF e.path.bin = "benign" THEN Rule("Drop", Info)
    ELSE Rule("Escalate", Info)

prefilter_tcp(e) ==
    IF is_private_ipv4(e.daddr) THEN Rule("Drop", Info)
    ELSE IF e.dport \in {443, 80, 53} THEN Rule("Escalate", Info)
    ELSE Rule("Alert", Medium)

prefilter_file(e) ==
    IF "SENSITIVE" \in e.access THEN Rule("Alert", High) ELSE Rule("Drop", Info)

-----------------------------------------------------------------------------
(* classify_event after the rule and the correlator have spoken: pr is the  *)
(* rule, ch the correlation, h and s what the two models would answer.      *)

HitSeverity(ch) == IF ch = "beacon" THEN High ELSE Critical

NoAlert(l) == [layer |-> l, alerted |-> FALSE]
Alert(l, v, s) == [layer |-> l, alerted |-> TRUE, verdict |-> v, severity |-> s]

(* Variant: the deep model has the last word.                               *)
WithHit_LlmDecides(pr, ch, s) ==
    IF pr.decision = "Alert"
      THEN Alert("rule+correlation", "malicious", Higher(pr.severity, HitSeverity(ch)))
      ELSE Alert("correlation+sonnet", s.verdict, Higher(s.severity, HitSeverity(ch)))

WithHit(pr, ch, s) ==
    IF pr.decision = "Alert"
      THEN Alert("rule+correlation", "malicious", Higher(pr.severity, HitSeverity(ch)))
      ELSE Alert("correlation+sonnet",
                 IF s.verdict \in {"normal", "unknown"} THEN "suspicious" ELSE s.verdict,
                 Higher(s.severity, HitSeverity(ch)))

WithoutHit(pr, h, s) ==
    CASE pr.decision = "Drop" -> NoAlert("drop")
      [] pr.decision = "Alert" -> Alert("rule", "malicious", pr.severity)
      [] pr.decision = "Escalate" /\ h.verdict = "normal" -> NoAlert("haiku-normal")
      [] OTHER -> Alert("sonnet", s.verdict, s.severity)

classify_event(pr, ch, h, s) ==
    IF ch # "none" THEN WithHit(pr, ch, s) ELSE WithoutHit(pr, h, s)

(* A drop notice becomes an alert about the gap, ahead of rule, correlator  *)
(* and models.                                                              *)
AgentDropOutcome == Alert("agent-drop", "unknown", Medium)

-----------------------------------------------------------------------------
(* process_event for one record of serve_connection's loop.                 *)

Decide(pr, ch) ==
    outcome' \in {classify_event(pr, ch, h, s) : h \in HaikuAnswers, s \in SonnetAnswers}

ProcessFileOpen(e, now) ==
    /\ Decide(prefilter_file(e), "none")
    /\ observe_file(e, now)

ProcessExecve(e, now) ==
    /\ IsDownloader(e.path) => Len(seenDownloads) < MaxSeen
    /\ Decide(prefilter_execve(e), ExecHit(e, now))
    /\ observe_execve(e, now)

ProcessConnect(e, now) ==
    /\ Len(Get(seenConns, Key(e))) < MaxSeen
    /\ Decide(prefilter_tcp(e), ConnectHit(e, now))
    /\ observe_connect(e, now)

ProcessAgentDrop ==
    /\ outcome' = AgentDropOutcome
    /\ UNCHANGED corrVars

PipeInit == CorrInit /\ outcome = NoAlert("drop")

PipeNext ==
    \/ \E now \in Times :
          /\ Tick(now)
          /\ \/ \E e \in FileOpens : ProcessFileOpen(e, now)
             \/ \E e \in Execs : ProcessExecve(e, now)
             \/ \E e \in Connects : ProcessConnect(e, now)
    \/ ProcessAgentDrop
    \/ Reboot /\ UNCHANGED outcome

PipeSpec == PipeInit /\ [][PipeNext]_pipeVars

-----------------------------------------------------------------------------
(* Properties: in every reachable state, whatever event comes next and      *)
(* whatever the models answer.                                              *)

(* Running a freshly staged file, or a temporary file next to a recent      *)
(* downloader, always raises a critical alert that names it suspicious or   *)
(* malicious, whatever happened in between and whatever the models say      *)
(* (pipeline.cpp:66, 77: the LLM cannot turn sequence evidence into         *)
(* "normal").                                                               *)
ChainIsCritical ==
    \A e \in Candidates, now \in Times :
        WroteIn(e, now, Skew) \/ DownloadIn(e, now, Skew) =>
            LET hit == ExecHit(e, now)
            IN  \A h \in HaikuAnswers, s \in SonnetAnswers :
                    LET o == classify_event(prefilter_execve(e), hit, h, s)
                    IN  /\ o.alerted
                        /\ o.severity = Critical
                        /\ o.verdict \in {"suspicious", "malicious"}

(* Silence needs a reason: an event of a program or a destination passes    *)
(* without alert only when a rule cleared it or the first model, actually   *)
(* answering, called it normal, and never against sequence evidence.  An    *)
(* outage of the models (FailSafe from both) silences nothing that the      *)
(* rules did not clear (llm_client_claude.cpp:81).                          *)
SilenceHasAReason ==
    \A now \in Times :
        /\ \A e \in Execs :
              LET hit == ExecHit(e, now)
              IN  \A h \in HaikuAnswers, s \in SonnetAnswers :
                    classify_event(prefilter_execve(e), hit, h, s).alerted
                    \/ /\ e.path.dir \notin {"tmp", "shm"}
                       /\ e.path.bin = "benign" \/ (h.verdict = "normal" /\ h # FailSafe)
        /\ \A e \in Connects :
              LET hit == ConnectHit(e, now)
              IN  \A h \in HaikuAnswers, s \in SonnetAnswers :
                    \/ classify_event(prefilter_tcp(e), hit, h, s).alerted
                    \/ is_private_ipv4(e.daddr)
                    \/ /\ h.verdict = "normal" /\ h # FailSafe
                       /\ e.dport \in {443, 80, 53}
                       /\ ConnectsIn(e, now, 2 * Skew) < Threshold
=============================================================================
