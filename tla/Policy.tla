------------------------------- MODULE Policy -------------------------------
(***************************************************************************)
(* What Spawn decides before it asks for a place: what the Laya engines    *)
(* answer, whether the main model must review the task first, and the      *)
(* mode, the attempts and the time a worker gets (internal/jobs/jobs.go    *)
(* and risk_guard.go, internal/laya).                                      *)
(*                                                                         *)
(* A task stands for its words: whether all letters are Latin, whether one *)
(* is a verb of change, and whether they name what such a verb endangers.  *)
(* An answer has a value, a confidence in hundredths and a probability p   *)
(* in thousandths for each option.  A request has a task, a mode, a        *)
(* timeout (0 if none is given), where that came from, and a review.       *)
(***************************************************************************)
EXTENDS Integers, Sequences, FiniteSetsExt

CONSTANT NoDecision

Options == [backend |-> <<"agy", "qwen", "claude">>,
            task_mode |-> <<"inspect", "implement">>,
            risk |-> <<"low", "medium", "high">>,
            timeout_policy |-> <<"short", "standard", "long">>,
            retry_policy |-> <<"no_retry", "retry_once">>]

Seconds == [short |-> 300, standard |-> 900, long |-> 3600]

-----------------------------------------------------------------------------
(* The engines.                                                            *)

\* The value is the first of the most probable options, in this order.
First(opts, a) ==
    \E i \in DOMAIN opts : /\ opts[i] = a.value
                           /\ \A k \in DOMAIN opts : a.p[opts[k]] <= a.p[a.value]
                           /\ \A k \in 1 .. i - 1 : a.p[opts[k]] < a.p[a.value]

\* validateAnswerProbabilities: one probability for each option, together 1.
Valid(head, a) == /\ DOMAIN a.p = {Options[head][i] : i \in DOMAIN Options[head]}
                  /\ MapThenSumSet(LAMBDA o : a.p[o], DOMAIN a.p) \in 999 .. 1001
                  /\ First(Options[head], a)

\* The lead over the second most probable.
Margin(a) == Min({a.p[a.value] - a.p[o] : o \in DOMAIN a.p \ {a.value}})
Stats(answers) == [h \in DOMAIN answers |-> [confidence |-> answers[h].confidence,
                                             margin |-> Margin(answers[h])]]

\* A retry is hinted at for a task that the engine itself takes to inspect.
Attempts(answers, once) ==
    IF /\ "retry_policy" \in DOMAIN answers /\ answers["retry_policy"].value = once
       /\ answers["task_mode"].value = "inspect" THEN 2 ELSE 1

\* decisionFromAnswers: the decision, or none if an answer is not in order;
\* the backends are sorted by name as well.
InOrder(answers) == /\ DOMAIN answers = DOMAIN Options
                    /\ \A h \in DOMAIN answers : Valid(h, answers[h])
                    /\ First(<<"agy", "claude", "qwen">>, answers["backend"])

DecisionFromAnswers(answers) ==
    {[mode |-> a["task_mode"].value, risk |-> a["risk"].value,
      timeout |-> Seconds[a["timeout_policy"].value],
      attempts |-> Attempts(a, "retry_once"), stats |-> Stats(a)] :
        a \in {x \in {answers} : InOrder(x)}}

LongWork(mode, risk) == mode = "implement" \/ risk = "high"

\* Model.Evaluate of the Go classifier, whose last two heads are optional.
Classify(answers) ==
    IF {"backend", "task_mode", "risk"} \subseteq DOMAIN answers
    THEN LET mode == answers["task_mode"].value
             risk == answers["risk"].value
         IN  [mode |-> mode, risk |-> risk,
              timeout |-> IF "timeout_policy" \in DOMAIN answers
                          THEN Seconds[answers["timeout_policy"].value]
                          ELSE IF LongWork(mode, risk) THEN 3600 ELSE 900,
              attempts |-> Attempts(answers, "inspect_once"), stats |-> Stats(answers)]
    ELSE NoDecision

\* FallbackEngine: the fallbacks of the questions, sure of nothing.
FallbackDecision(mode) == [mode |-> IF mode = "auto" THEN "inspect" ELSE mode, risk |-> "medium",
                           timeout |-> 900, attempts |-> 1, stats |-> [h \in {} |-> 0]]

\* ManagedEngine: the active model, if there is one that verifies.
Managed(model, mode) == IF model = NoDecision THEN FallbackDecision(mode) ELSE Classify(model)

\* Mutant: the classifier's answer is as good as the upstream engine's.
EvaluateEqually(mode, local, model) ==
    IF local # {} THEN [decision |-> CHOOSE d \in local : TRUE, fallback |-> FALSE]
    ELSE [decision |-> Managed(model, mode), fallback |-> model = NoDecision]

\* EvaluateLaya: "local" holds the upstream engine's decision, if there is an
\* engine and it has answered in order; a mode that is given overrides it.
EvaluateLaya(mode, local, model) ==
    IF local # {} THEN LET d == CHOOSE d \in local : TRUE
                       IN  [decision |-> IF mode = "auto" THEN d ELSE [d EXCEPT !.mode = mode],
                            fallback |-> FALSE]
    ELSE [decision |-> Managed(model, mode), fallback |-> TRUE]

-----------------------------------------------------------------------------
(* The decisions of Spawn on request q under configuration c with the      *)
(* result r of EvaluateLaya.                                               *)

\* headStats, and the bounds every use of a head puts on them.
Known(d, head) == head \in DOMAIN d.stats
Sure(d, head) == Known(d, head) /\ d.stats[head].confidence >= 80 /\ d.stats[head].margin >= 150

Usable(r) == ~r.fallback /\ r.decision # NoDecision
Active(c, r) == c.laya = "active" /\ Usable(r)

\* activeTaskReviewReason, from the words alone.
TaskNeedsReview(task, mode) == /\ mode \in {"implement", "auto"}
                               /\ ~task.latin \/ (task.mutates /\ task.dangerous)

\* ReviewReason, from the decision.
DecisionNeedsReview(r, mode) == \/ ~Usable(r)
                                \/ ~Sure(r.decision, "risk")
                                \/ r.decision.risk = "high"
                                \/ mode = "auto" /\ ~Sure(r.decision, "task_mode")

NeedsReview(q, c, r) == /\ c.laya = "active" /\ ~q.reviewed
                        /\ TaskNeedsReview(q.task, q.mode) \/ DecisionNeedsReview(r, q.mode)

ModeFor(q, c, r) == IF q.mode # "auto" THEN q.mode
                    ELSE IF Active(c, r) /\ Sure(r.decision, "task_mode") THEN r.decision.mode
                    ELSE "inspect"

\* Mutant: the hint is for the mode the engine had in mind.
AttemptsHinted(q, c, r) ==
    IF Active(c, r) /\ r.decision.attempts > 1 /\ Sure(r.decision, "retry_policy") THEN 2 ELSE 1

AttemptsFor(q, c, r) ==
    IF /\ Active(c, r) /\ ModeFor(q, c, r) = "inspect"
       /\ r.decision.attempts > 1 /\ Sure(r.decision, "retry_policy") THEN 2 ELSE 1

\* The decision sets the time only if every head it rests on is sure.
Times(q, c, r) == /\ Active(c, r)
                  /\ Sure(r.decision, "risk")
                  /\ q.mode = "auto" => Sure(r.decision, "task_mode")
                  /\ Known(r.decision, "timeout_policy") => Sure(r.decision, "timeout_policy")

\* policyTimeout.
PolicyTimeout(d, mode) == IF Known(d, "timeout_policy") THEN d.timeout
                          ELSE IF LongWork(mode, d.risk) THEN 3600 ELSE 900

\* The time before its bounds are checked, and where it comes from.
TimeFor(q, c, r) ==
    IF q.timeout > 0 THEN [seconds |-> q.timeout, source |-> q.source]
    ELSE IF Times(q, c, r)
         THEN [seconds |-> IF q.mode = "auto" THEN r.decision.timeout
                           ELSE PolicyTimeout(r.decision, q.mode),
               source |-> "laya"]
         ELSE [seconds |-> c.default[ModeFor(q, c, r)], source |-> q.source]

\* Mutant: whatever is too long is cut.
BoundedAll(t, max) == {[t EXCEPT !.seconds = Min({@, max})]}

\* A time that is out of bounds is refused, or cut if it comes from a decision.
Bounded(t, max) == IF t.seconds \in 1 .. max THEN {t}
                   ELSE IF t.source = "laya" /\ t.seconds > max THEN {[t EXCEPT !.seconds = max]}
                   ELSE {}

Label(t) == IF t.source = "" THEN "default" ELSE t.source

\* What a worker is started with; nothing if the request is refused.
Plans(q, c, r) ==
    {[mode |-> ModeFor(q, c, r), attempts |-> AttemptsFor(q, c, r), timeout |-> t.seconds,
      source |-> Label(t)] :
        t \in {u \in Bounded(TimeFor(q, c, r), c.max) : ~NeedsReview(q, c, r)}}

\* config.loadFiles: what a configuration must fulfil to be used at all.
Loads(c) == /\ c.laya \in {"shadow", "advisory", "active"}
            /\ \A mode \in {"inspect", "implement"} : c.default[mode] <= c.max
=============================================================================
