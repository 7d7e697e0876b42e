--------------------------- MODULE ServiceProofs ---------------------------
(***************************************************************************)
(* What the policy of Spawn gives a worker, whatever the callers ask, the  *)
(* engines answer and the configuration becomes (IInv); and what the       *)
(* handlers, the workers and the ends of servers leave of a job, its       *)
(* report, its observation and the feedback about it (LifeInv).            *)
(***************************************************************************)
EXTENDS Service, TLAPS, FiniteSetTheorems

-----------------------------------------------------------------------------
(* The policy alone.                                                       *)

\* What a plan is made of.
LEMMA PlanMembers ==
    ASSUME NEW q, NEW c, NEW r, NEW plan \in Plans(q, c, r)
    PROVE  /\ ~NeedsReview(q, c, r)
           /\ plan.mode = ModeFor(q, c, r) /\ plan.attempts = AttemptsFor(q, c, r)
           /\ \E t \in Bounded(TimeFor(q, c, r), c.max) :
                 /\ plan.timeout = t.seconds
                 /\ plan.source = Label(t)
<1>1. PICK t \in {u \in Bounded(TimeFor(q, c, r), c.max) : ~NeedsReview(q, c, r)} :
          plan = [mode |-> ModeFor(q, c, r), attempts |-> AttemptsFor(q, c, r), timeout |-> t.seconds,
                  source |-> Label(t)]
  BY Zenon DEF Plans
<1>2. t \in Bounded(TimeFor(q, c, r), c.max) /\ ~NeedsReview(q, c, r)
  BY <1>1
<1>3. /\ plan.mode = ModeFor(q, c, r) /\ plan.attempts = AttemptsFor(q, c, r)
      /\ plan.timeout = t.seconds /\ plan.source = Label(t)
  BY <1>1
<1>. QED
  BY <1>2, <1>3

\* A second attempt needs the mode, active Laya and a decision that is none
\* of a fallback's.
LEMMA RetryPlanned ==
    ASSUME NEW q, NEW c, NEW r, NEW plan \in Plans(q, c, r), plan.attempts > 1
    PROVE  plan.mode = "inspect" /\ c.laya = "active" /\ ~r.fallback
<1>1. plan.attempts = AttemptsFor(q, c, r) /\ plan.mode = ModeFor(q, c, r)
  BY PlanMembers
<1>2. Active(c, r) /\ ModeFor(q, c, r) = "inspect"
  BY <1>1 DEF AttemptsFor
<1>. QED
  BY <1>1, <1>2 DEF Active, Usable

\* Unless it was reviewed, a request that is let through in active mode rests
\* on a decision that is no fallback's and sure of a risk that is not high.
LEMMA PlannedIsSafe ==
    ASSUME NEW q, NEW c, NEW r, NEW plan \in Plans(q, c, r), c.laya = "active", ~q.reviewed
    PROVE  /\ Usable(r) /\ Sure(r.decision, "risk") /\ r.decision.risk # "high"
           /\ q.mode = "auto" => Sure(r.decision, "task_mode")
           /\ ~TaskNeedsReview(q.task, q.mode)
<1>1. ~NeedsReview(q, c, r)
  BY PlanMembers
<1>. QED
  BY <1>1 DEF NeedsReview, DecisionNeedsReview

\* A time is within the bounds; one that is given is kept, or cut if it came
\* from a decision.
LEMMA PlannedTime ==
    ASSUME NEW q, NEW c, NEW r, NEW plan \in Plans(q, c, r), c.max \in Nat \ {0}
    PROVE  /\ plan.timeout \in 1 .. c.max
           /\ q.timeout > 0 => \/ plan.timeout = q.timeout
                               \/ plan.source = "laya" /\ plan.timeout = c.max
<1>. DEFINE u == TimeFor(q, c, r)
<1>1. PICK t \in Bounded(u, c.max) :
          /\ plan.timeout = t.seconds
          /\ plan.source = Label(t)
  BY PlanMembers
<1>2. u = [seconds |-> u.seconds, source |-> u.source]
  BY DEF TimeFor
<1>3. q.timeout > 0 => u.seconds = q.timeout
  BY DEF TimeFor
<1>. HIDE DEF u
<1>4. CASE u.seconds \in 1 .. c.max
  <2>1. t = u
    BY <1>1, <1>4 DEF Bounded
  <2>. QED
    BY <1>1, <1>3, <1>4, <2>1
<1>5. CASE u.seconds \notin 1 .. c.max
  <2>1. u.source = "laya" /\ t = [u EXCEPT !.seconds = c.max]
    BY <1>1, <1>5 DEF Bounded
  <2>2. t.seconds = c.max /\ t.source = "laya"
    BY <1>2, <2>1
  <2>. QED
    BY <1>1, <2>2 DEF Label
<1>. QED
  BY <1>4, <1>5

Modes == {"inspect", "implement"}

\* Engines choose a mode, and are as sure as their answers are.
LEMMA EngineDecides ==
    ASSUME NEW a, NEW d \in DecisionFromAnswers(a)
    PROVE  /\ d.mode \in Modes /\ d.stats = Stats(a)
           /\ d = [mode |-> d.mode, risk |-> d.risk, timeout |-> d.timeout, attempts |-> d.attempts,
                   stats |-> d.stats]
<1>1. PICK x \in {y \in {a} : InOrder(y)} :
          d = [mode |-> x["task_mode"].value, risk |-> x["risk"].value,
               timeout |-> Seconds[x["timeout_policy"].value],
               attempts |-> Attempts(x, "retry_once"), stats |-> Stats(x)]
  BY Zenon DEF DecisionFromAnswers
<1>2. x = a /\ InOrder(a) /\ d.mode = a["task_mode"].value
  BY <1>1
<1>7. /\ d.stats = Stats(a)
      /\ d = [mode |-> d.mode, risk |-> d.risk, timeout |-> d.timeout, attempts |-> d.attempts,
              stats |-> d.stats]
  BY <1>1, <1>2
<1>4. "task_mode" \in DOMAIN Options
  BY DEF Options
<1>5. Valid("task_mode", a["task_mode"])
  BY <1>2, <1>4 DEF InOrder
<1>6. First(Options["task_mode"], a["task_mode"])
  BY <1>5 DEF Valid
<1>3. Options["task_mode"] = <<"inspect", "implement">>
  BY DEF Options
<1>. QED
  BY <1>2, <1>3, <1>6, <1>7 DEF First, Modes

-----------------------------------------------------------------------------
(* What the steps do to the jobs that were started.                        *)

Domains == /\ DOMAIN job = Job /\ DOMAIN work = Job /\ DOMAIN descr = Job
           /\ DOMAIN pc = Client /\ DOMAIN target = Client
           /\ DOMAIN queue = Server /\ \A s \in Server : queue[s] \subseteq Job

SpawnStep == \E c \in Client, j \in Job : Spawn(c, j)
ResumeStep == \E c \in Client : Resume(c)

\* The lemmas below take the handlers apart in the same way: those of one
\* client, of a client at a job, of a server and of a worker.
LEMMA Steps ==
    ASSUME [Next]_vars, ~SpawnStep, ~ResumeStep
    PROVE  \/ UNCHANGED vars
           \/ \E c \in Client : Grace(c) \/ Mark(c) \/ Finish(c) \/ Record(c) \/ Crash(c)
           \/ \E c \in Client, j \in Job : \/ Interrupt(c, j) \/ Feedback(c, j)
                                           \/ \E o \in {"wait", "resume"} : Open(c, o, j)
           \/ \E s \in Server : Start(s) \/ Shutdown(s) \/ Sweep(s) \/ Exit(s)
           \/ \E j \in Job : Conclude(j) \/ Reports(j) \/ NoteLate(j) \/ Ends(j)
           \/ Configure
BY DEF Next, Handle, Asked, SpawnStep, ResumeStep

\* Only Spawn and Resume start jobs.
LEMMA JobsStay ==
    ASSUME Domains, [Next]_vars, ~SpawnStep, ~ResumeStep
    PROVE  job' = job /\ Started' = Started
<1>1. CASE UNCHANGED vars
  BY <1>1 DEF vars, world, Started
<1>2. ASSUME NEW c \in Client, Mark(c) \/ Finish(c) \/ Record(c) \/ Crash(c)
      PROVE  job' = job /\ Started' = Started
  BY <1>2 DEF Mark, Finish, Record, Crash, world, Started
<1>3. ASSUME NEW c \in Client, Grace(c)
      PROVE  job' = job /\ Started' = Started
  BY <1>3 DEF Grace, WorkerMatches, Started, Domains
<1>4. ASSUME NEW c \in Client, NEW j \in Job,
             Interrupt(c, j) \/ Feedback(c, j) \/ \E o \in {"wait", "resume"} : Open(c, o, j)
      PROVE  job' = job /\ Started' = Started
  BY <1>4 DEF Interrupt, Feedback, Open, world, Started
<1>5. ASSUME NEW s \in Server, Start(s) \/ Shutdown(s) \/ Sweep(s) \/ Exit(s)
      PROVE  job' = job /\ Started' = Started
  BY <1>5 DEF Start, Shutdown, Sweep, Exit, world, Started
<1>6. ASSUME NEW j \in Job, Conclude(j) \/ Reports(j) \/ NoteLate(j) \/ Ends(j)
      PROVE  job' = job /\ Started' = Started
  BY <1>6 DEF Conclude, Reports, NoteLate, Ends, WorkerMatches, Started, Domains
<1>7. CASE Configure
  BY <1>7 DEF Configure, Started
<1>. QED
  BY <1>1, <1>2, <1>3, <1>4, <1>5, <1>6, <1>7, Steps

\* How Admit describes a job: r is what the engines made of it.
Described(c, q, given, parent, r, plan) ==
    [asked |-> [q EXCEPT !.timeout = given], plan |-> plan, result |-> r,
     laya |-> config.laya, max |-> config.max, parent |-> parent,
     owner |-> IF parent = NoJob /\ c \in Server THEN c ELSE NoClient]

\* Admit writes such a description, of one of the plans for the request (Spawn).
LEMMA AdmitDescribes ==
    ASSUME NEW c, NEW k, NEW q, NEW given, NEW parent, Admit(c, k, q, given, parent)
    PROVE  \E known \in Engine(c), m \in scene.model :
             \E plan \in Plans(q, config, EvaluateLaya(q.mode, known, m)) :
               job' = [job EXCEPT ![k] =
                         Described(c, q, given, parent, EvaluateLaya(q.mode, known, m), plan)]
BY Zenon DEF Admit, Described

\* A job is new when it is admitted, and the others stay.
LEMMA AdmitStarts ==
    ASSUME Domains, NEW c, NEW k \in Job, NEW q, NEW given, NEW parent, Admit(c, k, q, given, parent)
    PROVE  k \notin Started /\ Started' = Started \cup {k} /\ DOMAIN job' = Job /\ DOMAIN work' = Job
<1>1. k \notin Started /\ work' = [work EXCEPT ![k] = "running"]
  BY Zenon DEF Admit
<1>2. DOMAIN job' = DOMAIN job
  BY AdmitDescribes
<1>. QED
  BY <1>1, <1>2 DEF Started, Domains

\* The requests that are admitted.
LEMMA SpawnAdmits ==
    ASSUME NEW c, NEW j, Spawn(c, j)
    PROVE  \E q \in scene.ask[j] :
               Admit(c, j, [q EXCEPT !.source = IF c \in Server /\ q.timeout > 0 THEN "request" ELSE ""],
                     q.timeout, NoJob)
BY Zenon DEF Spawn

\* Resume admits the continuation of its target, or refuses and starts nothing.
LEMMA ResumeStays ==
    ASSUME NEW c, Resume(c)
    PROVE  \/ job' = job /\ work' = work /\ descr' = descr
           \/ \E k \in Job, task \in Continued(job[target[c]].asked.task), t \in scene.limit :
                 /\ Admit(c, k, Resumption(target[c], task, t), t, target[c])
                 /\ descr' = [descr EXCEPT ![k] = Fresh, ![target[c]] = [done |-> TRUE, by |-> k]]
BY Zenon DEF Resume

-----------------------------------------------------------------------------
(* The invariant.                                                          *)

Busy == {"grace", "mark", "observe", "record", "answer"}

\* A handler is about a job that was started, and so is a descriptor.
Traced == /\ \A j \in Job : descr[j] # NoFile => j \in Started
          /\ \A c \in Client : pc[c] \in Busy => target[c] \in Started

\* The configuration in force bounds times.
Configured == scene \in Scene /\ config \in scene.configs

\* What a resumption takes from the job it continues.
Planned == \A j \in Started : /\ job[j].plan.mode \in Modes
                              /\ job[j].max \in Nat \ {0}
                              /\ job[j].parent # NoJob => job[j].parent \in Started

IInv == /\ Domains /\ Configured /\ Traced
        /\ Planned /\ CallerDecides /\ RetryOnlyInspect /\ UnreviewedIsSafe

\* It holds when nothing has been started.
LEMMA InitIInv == Init => IInv
<1>. SUFFICES ASSUME Init PROVE IInv
  OBVIOUS
<1>1. Started = {}
  BY DEF Init, Started
<1>2. Domains /\ Configured
  BY DEF Init, Domains, Configured
<1>3. Traced
  BY DEF Init, Traced, Busy
<1>. QED
  BY <1>1, <1>2, <1>3 DEF IInv, Planned, CallerDecides, RetryOnlyInspect, UnreviewedIsSafe

\* The scene stays, and the configuration is one of its at any time.
LEMMA ConfiguredStays ==
    ASSUME Configured, [Next]_vars
    PROVE  Configured' /\ scene' = scene
<1>1. UNCHANGED <<scene, config>> \/ (scene' = scene /\ config' \in scene.configs)
  <2>1. CASE SpawnStep
    BY <2>1 DEF SpawnStep, Spawn
  <2>2. CASE ResumeStep
    BY <2>2 DEF ResumeStep, Resume
  <2>3. CASE ~SpawnStep /\ ~ResumeStep
    <3>1. CASE UNCHANGED vars
      BY <3>1 DEF vars, world
    <3>2. ASSUME NEW c \in Client, Grace(c) \/ Mark(c) \/ Finish(c) \/ Record(c) \/ Crash(c)
          PROVE  UNCHANGED <<scene, config>>
      BY <3>2 DEF Grace, Mark, Finish, Record, Crash, world
    <3>3. ASSUME NEW c \in Client, NEW j \in Job,
                 Interrupt(c, j) \/ Feedback(c, j) \/ \E o \in {"wait", "resume"} : Open(c, o, j)
          PROVE  UNCHANGED <<scene, config>>
      BY <3>3 DEF Interrupt, Feedback, Open, world
    <3>4. ASSUME NEW s \in Server, Start(s) \/ Shutdown(s) \/ Sweep(s) \/ Exit(s)
          PROVE  UNCHANGED <<scene, config>>
      BY <3>4 DEF Start, Shutdown, Sweep, Exit, world
    <3>5. ASSUME NEW j \in Job, Conclude(j) \/ Reports(j) \/ NoteLate(j) \/ Ends(j)
          PROVE  UNCHANGED <<scene, config>>
      BY <3>5 DEF Conclude, Reports, NoteLate, Ends
    <3>6. CASE Configure
      BY <3>6 DEF Configure
    <3>. QED
      BY <2>3, <3>1, <3>2, <3>3, <3>4, <3>5, <3>6, Steps
  <2>. QED
    BY <2>1, <2>2, <2>3
<1>. QED
  BY <1>1 DEF Configured

-----------------------------------------------------------------------------
(* Admission.                                                              *)

\* A request that reaches the policy.
Wanted(q) == /\ q = [task |-> q.task, mode |-> q.mode, reviewed |-> q.reviewed,
                     timeout |-> q.timeout, source |-> q.source]
             /\ q.mode \in Modes \cup {"auto"}

\* A decision that is none of a fallback's is an engine's.
LEMMA EvaluatedByEngine ==
    ASSUME NEW mode, NEW c, NEW known \in Engine(c), NEW m, ~EvaluateLaya(mode, known, m).fallback
    PROVE  /\ mode = "auto" => EvaluateLaya(mode, known, m).decision.mode \in Modes
           /\ EvaluateLaya(mode, known, m).decision.stats \in {Stats(a) : a \in scene.upstream}
<1>. DEFINE r == EvaluateLaya(mode, known, m)
            e == CHOOSE d \in known : TRUE
<1>1. known # {}
  BY DEF EvaluateLaya
<1>2. r.decision = IF mode = "auto" THEN e ELSE [e EXCEPT !.mode = mode]
  BY <1>1 DEF EvaluateLaya
<1>3. PICK a \in scene.upstream : known = DecisionFromAnswers(a)
  BY <1>1, Zenon DEF Engine
<1>4. e \in DecisionFromAnswers(a)
  BY <1>1, <1>3
<1>5. /\ e.mode \in Modes /\ e.stats = Stats(a)
      /\ e = [mode |-> e.mode, risk |-> e.risk, timeout |-> e.timeout, attempts |-> e.attempts,
              stats |-> e.stats]
  BY <1>4, EngineDecides
<1>. HIDE DEF e
<1>6. r.decision.stats = Stats(a)
  <2>1. [e EXCEPT !.mode = mode].stats = e.stats
    BY <1>5
  <2>. QED
    BY <1>2, <1>5, <2>1
<1>7. mode = "auto" => r.decision.mode \in Modes
  BY <1>2, <1>5
<1>. QED
  BY <1>6, <1>7

\* A worker gets one of the two modes, and the one that was asked for.
LEMMA PlannedMode ==
    ASSUME NEW q, Wanted(q), NEW c, NEW r,
           q.mode = "auto" /\ ~r.fallback => r.decision.mode \in Modes,
           NEW plan \in Plans(q, c, r)
    PROVE  plan.mode \in Modes /\ (q.mode # "auto" => plan.mode = q.mode)
<1>1. plan.mode = ModeFor(q, c, r)
  BY PlanMembers
<1>2. CASE q.mode # "auto"
  BY <1>1, <1>2 DEF ModeFor, Wanted
<1>3. CASE q.mode = "auto" /\ Active(c, r)
  <2>1. r.decision.mode \in Modes
    BY <1>3 DEF Active, Usable
  <2>. QED
    BY <1>1, <1>3, <2>1 DEF ModeFor, Modes
<1>4. CASE q.mode = "auto" /\ ~Active(c, r)
  BY <1>1, <1>4 DEF ModeFor, Modes
<1>. QED
  BY <1>2, <1>3, <1>4

EngineStats == {Stats(a) : a \in scene.upstream}

\* What holds of each job that was started.
Decided(s) ==
    /\ s.asked.mode # "auto" => s.plan.mode = s.asked.mode
    /\ s.plan.timeout \in 1 .. s.max
    /\ s.asked.timeout > 0 => \/ s.plan.timeout = s.asked.timeout
                              \/ s.plan.source = "laya" /\ s.plan.timeout = s.max

Inherited(s, p) ==
    /\ s.plan.mode = p.plan.mode
    /\ s.asked.timeout = 0 => \/ s.plan.timeout = p.plan.timeout
                              \/ s.plan.source = "laya" /\ s.plan.timeout = s.max

SafeFor(s, engine) ==
    s.laya = "active" /\ ~s.asked.reviewed =>
      /\ s.result.decision.stats \in engine
      /\ Sure(s.result.decision, "risk") /\ s.result.decision.risk # "high"
      /\ s.asked.mode = "auto" => Sure(s.result.decision, "task_mode")
      /\ s.plan.mode = "implement" => s.asked.task.latin /\ ~(s.asked.task.mutates /\ s.asked.task.dangerous)

RetryFor(s) == s.plan.attempts > 1 => s.plan.mode = "inspect" /\ s.laya = "active" /\ ~s.result.fallback

\* The job that is admitted, in one place.
LEMMA AdmitDecides ==
    ASSUME IInv, NEW c, NEW k \in Job, NEW q, Wanted(q), NEW given, NEW parent,
           given > 0 => q.timeout = given,
           Admit(c, k, q, given, parent)
    PROVE  \E s : /\ job' = [job EXCEPT ![k] = s]
                  /\ s.plan.mode \in Modes /\ s.max \in Nat \ {0} /\ s.parent = parent
                  /\ Decided(s) /\ RetryFor(s) /\ SafeFor(s, EngineStats)
                  /\ s.asked.timeout = given
                  /\ q.mode # "auto" => s.plan.mode = q.mode
                  /\ q.timeout > 0 => \/ s.plan.timeout = q.timeout
                                      \/ s.plan.source = "laya" /\ s.plan.timeout = s.max
<1>1. PICK known \in Engine(c), m \in scene.model :
        \E plan \in Plans(q, config, EvaluateLaya(q.mode, known, m)) :
          job' = [job EXCEPT ![k] =
                    Described(c, q, given, parent, EvaluateLaya(q.mode, known, m), plan)]
  BY AdmitDescribes
<1>. DEFINE r == EvaluateLaya(q.mode, known, m)
<1>2. PICK plan \in Plans(q, config, r) : job' = [job EXCEPT ![k] = Described(c, q, given, parent, r, plan)]
  BY <1>1
<1>. DEFINE s == Described(c, q, given, parent, r, plan)
<1>3. config.max \in Nat \ {0}
  BY ServiceAssumption DEF IInv, Configured
<1>4. plan.mode \in Modes /\ (q.mode # "auto" => plan.mode = q.mode)
  <2>1. q.mode = "auto" /\ ~r.fallback => r.decision.mode \in Modes
    BY EvaluatedByEngine
  <2>. HIDE DEF r
  <2>. QED
    BY <2>1, PlannedMode
<1>5. /\ plan.timeout \in 1 .. config.max
      /\ q.timeout > 0 => plan.timeout = q.timeout \/ (plan.source = "laya" /\ plan.timeout = config.max)
  BY <1>3, PlannedTime
<1>6. plan.attempts > 1 => plan.mode = "inspect" /\ config.laya = "active" /\ ~r.fallback
  BY RetryPlanned
<1>. HIDE DEF r
<1>7. /\ s.plan = plan /\ s.max = config.max /\ s.laya = config.laya /\ s.result = r /\ s.parent = parent
      /\ s.asked = [q EXCEPT !.timeout = given]
  BY DEF Described
<1>8. /\ s.asked.timeout = given /\ s.asked.mode = q.mode
      /\ s.asked.reviewed = q.reviewed /\ s.asked.task = q.task
  BY <1>7 DEF Wanted
<1>. HIDE DEF s
<1>9. Decided(s)
  BY <1>4, <1>5, <1>7, <1>8 DEF Decided
<1>10. RetryFor(s)
  BY <1>6, <1>7 DEF RetryFor
<1>11. config.laya = "active" /\ ~q.reviewed =>
          /\ r.decision.stats \in EngineStats
          /\ Sure(r.decision, "risk") /\ r.decision.risk # "high"
          /\ q.mode = "auto" => Sure(r.decision, "task_mode")
          /\ plan.mode = "implement" => q.task.latin /\ ~(q.task.mutates /\ q.task.dangerous)
  <2>. SUFFICES ASSUME config.laya = "active", ~q.reviewed
                PROVE  /\ r.decision.stats \in EngineStats
                       /\ Sure(r.decision, "risk") /\ r.decision.risk # "high"
                       /\ q.mode = "auto" => Sure(r.decision, "task_mode")
                       /\ plan.mode = "implement" => q.task.latin /\ ~(q.task.mutates /\ q.task.dangerous)
    OBVIOUS
  <2>1. /\ Usable(r) /\ Sure(r.decision, "risk") /\ r.decision.risk # "high"
        /\ q.mode = "auto" => Sure(r.decision, "task_mode")
        /\ ~TaskNeedsReview(q.task, q.mode)
    BY PlannedIsSafe
  <2>2. r.decision.stats \in EngineStats
    BY <2>1, EvaluatedByEngine DEF r, Usable, EngineStats
  <2>3. plan.mode = "implement" => q.mode \in {"implement", "auto"}
    BY <1>4
  <2>. QED
    BY <2>1, <2>2, <2>3 DEF TaskNeedsReview
<1>12. SafeFor(s, EngineStats)
  BY <1>7, <1>8, <1>11 DEF SafeFor
<1>13. job' = [job EXCEPT ![k] = s]
  BY <1>2 DEF s
<1>. QED
  <2>1. /\ s.plan.mode \in Modes /\ s.max \in Nat \ {0} /\ s.parent = parent
        /\ q.mode # "auto" => s.plan.mode = q.mode
        /\ q.timeout > 0 => \/ s.plan.timeout = q.timeout
                            \/ s.plan.source = "laya" /\ s.plan.timeout = s.max
    BY <1>3, <1>4, <1>5, <1>7
  <2>. WITNESS s
  <2>. QED
    BY <1>8, <1>9, <1>10, <1>12, <1>13, <2>1

\* CallerDecides and RetryOnlyInspect, job by job.
LEMMA ByJob ==
    /\ CallerDecides <=> \A j \in Started : /\ Decided(job[j])
                                            /\ job[j].parent # NoJob => Inherited(job[j], job[job[j].parent])
    /\ RetryOnlyInspect <=> \A j \in Started : RetryFor(job[j])
    /\ UnreviewedIsSafe <=> \A j \in Started : SafeFor(job[j], EngineStats)
BY DEF CallerDecides, RetryOnlyInspect, UnreviewedIsSafe, Decided, Inherited, RetryFor, SafeFor, EngineStats

\* A job that is admitted keeps the invariant: for itself, as it was decided,
\* and for the others, as it is none of them nor the one they continue.
LEMMA AdmitKeeps ==
    ASSUME IInv, NEW c, NEW k \in Job, NEW q, Wanted(q), NEW given, NEW parent,
           given > 0 => q.timeout = given,
           parent # NoJob => /\ parent \in Started
                             /\ q.mode = job[parent].plan.mode
                             /\ given = 0 => q.timeout = job[parent].plan.timeout,
           Admit(c, k, q, given, parent), scene' = scene
    PROVE  (Planned /\ CallerDecides /\ RetryOnlyInspect /\ UnreviewedIsSafe)'
<1>1. PICK s : /\ job' = [job EXCEPT ![k] = s]
               /\ s.plan.mode \in Modes /\ s.max \in Nat \ {0} /\ s.parent = parent
               /\ Decided(s) /\ RetryFor(s) /\ SafeFor(s, EngineStats)
               /\ s.asked.timeout = given
               /\ q.mode # "auto" => s.plan.mode = q.mode
               /\ q.timeout > 0 => \/ s.plan.timeout = q.timeout
                                   \/ s.plan.source = "laya" /\ s.plan.timeout = s.max
  BY AdmitDecides
<1>2. k \notin Started /\ Started' = Started \cup {k}
  BY AdmitStarts DEF IInv
<1>3. DOMAIN job = Job /\ Started \subseteq Job
  BY DEF IInv, Domains, Started
<1>4. job'[k] = s
  BY <1>1, <1>3
<1>5. \A j \in Started : job'[j] = job[j]
  BY <1>1, <1>2, <1>3
<1>6. parent # NoJob => Inherited(s, job[parent])
  <2>. SUFFICES ASSUME parent # NoJob PROVE Inherited(s, job[parent])
    OBVIOUS
  <2>1. job[parent].plan.mode \in Modes /\ job[parent].max \in Nat \ {0}
    BY DEF IInv, Planned
  <2>2. s.plan.mode = job[parent].plan.mode
    BY <1>1, <2>1 DEF Modes
  <2>3. job[parent].plan.timeout \in 1 .. job[parent].max
    BY ByJob DEF IInv, Decided
  <2>4. job[parent].plan.timeout > 0
    BY <2>1, <2>3
  <2>. QED
    BY <1>1, <2>2, <2>4 DEF Inherited
<1>7. Planned'
  BY <1>1, <1>2, <1>4, <1>5 DEF IInv, Planned
<1>8. CallerDecides'
  <2>1. ASSUME NEW j \in Started'
        PROVE  /\ Decided(job'[j])
               /\ job'[j].parent # NoJob => Inherited(job'[j], job'[job'[j].parent])
    <3>1. CASE j = k
      BY <1>1, <1>4, <1>5, <1>6, <3>1
    <3>2. CASE j \in Started
      BY <1>5, <3>2, ByJob DEF IInv, Planned
    <3>. QED
      BY <1>2, <2>1, <3>1, <3>2
  <2>. QED
    BY <2>1 DEF CallerDecides, Decided, Inherited
<1>9. RetryOnlyInspect'
  <2>1. \A j \in Started' : RetryFor(job'[j])
    BY <1>1, <1>2, <1>4, <1>5, ByJob DEF IInv
  <2>. QED
    BY <2>1 DEF RetryOnlyInspect, RetryFor
<1>10. UnreviewedIsSafe'
  <2>1. \A j \in Started' : SafeFor(job'[j], EngineStats)
    BY <1>1, <1>2, <1>4, <1>5, ByJob DEF IInv
  <2>. QED
    BY <2>1 DEF UnreviewedIsSafe, SafeFor, EngineStats
<1>. QED
  BY <1>7, <1>8, <1>9, <1>10

-----------------------------------------------------------------------------
(* The steps.                                                              *)

\* What spawn_agent and "violin run" ask for, and what Resume does.
LEMMA SpawnAsks ==
    ASSUME IInv, NEW c \in Client, NEW k \in Job, Spawn(c, k)
    PROVE  \E p : Wanted(p) /\ Admit(c, k, p, p.timeout, NoJob)
<1>1. PICK q \in scene.ask[k] :
        Admit(c, k, [q EXCEPT !.source = IF c \in Server /\ q.timeout > 0 THEN "request" ELSE ""],
              q.timeout, NoJob)
  BY SpawnAdmits
<1>. DEFINE source == IF c \in Server /\ q.timeout > 0 THEN "request" ELSE ""
            p == [q EXCEPT !.source = source]
<1>2. q \in Request
  BY ServiceAssumption DEF IInv, Configured
<1>3. Wanted(p) /\ p.timeout = q.timeout
  <2>1. /\ q = [task |-> q.task, source |-> q.source, mode |-> q.mode, timeout |-> q.timeout,
                reviewed |-> q.reviewed]
        /\ q.mode \in Modes \cup {"auto"}
    BY <1>2 DEF Request, Modes
  <2>. HIDE DEF source
  <2>2. /\ p = [task |-> q.task, mode |-> q.mode, reviewed |-> q.reviewed, timeout |-> q.timeout,
                source |-> source]
        /\ p.mode = q.mode /\ p.timeout = q.timeout
    BY <2>1
  <2>. HIDE DEF p
  <2>. QED
    BY <2>1, <2>2 DEF Wanted
<1>4. Admit(c, k, p, p.timeout, NoJob)
  BY <1>1, <1>3
<1>. HIDE DEF p
<1>. QED
  BY <1>3, <1>4

LEMMA ResumeAsks ==
    ASSUME IInv, NEW c, NEW k, NEW j \in Started, NEW task, NEW t \in scene.limit,
           Admit(c, k, Resumption(j, task, t), t, j)
    PROVE  \E q : /\ Wanted(q) /\ Admit(c, k, q, t, j)
                  /\ q.mode = job[j].plan.mode /\ q.reviewed = job[j].asked.reviewed
                  /\ t > 0 => q.timeout = t
                  /\ t = 0 => q.timeout = job[j].plan.timeout
<1>. DEFINE q == Resumption(j, task, t)
<1>1. t \in Nat
  BY ServiceAssumption DEF IInv, Configured
<1>2. job[j].plan.mode \in Modes
  BY DEF IInv, Planned
<1>3. /\ Wanted(q) /\ q.mode = job[j].plan.mode /\ q.reviewed = job[j].asked.reviewed
      /\ t > 0 => q.timeout = t
      /\ t = 0 => q.timeout = job[j].plan.timeout
  BY <1>1, <1>2 DEF Wanted, Resumption
<1>4. Admit(c, k, q, t, j)
  OBVIOUS
<1>. HIDE DEF q
<1>. QED
  BY <1>3, <1>4

\* spawn_agent and "violin run" keep the invariant.
LEMMA SpawnKeeps ==
    ASSUME IInv, NEW c \in Client, NEW k \in Job, Spawn(c, k)
    PROVE  (Planned /\ CallerDecides /\ RetryOnlyInspect /\ UnreviewedIsSafe)' /\ Domains' /\ Traced'
<1>1. PICK p : Wanted(p) /\ Admit(c, k, p, p.timeout, NoJob)
  BY SpawnAsks
<1>2. Started' = Started \cup {k} /\ DOMAIN job' = Job /\ DOMAIN work' = Job
  BY <1>1, AdmitStarts DEF IInv
<1>3. descr' = [descr EXCEPT ![k] = Fresh] /\ pc' = pc /\ target' = target /\ queue' = queue
      /\ scene' = scene
  BY DEF Spawn, local
<1>4. (Planned /\ CallerDecides /\ RetryOnlyInspect /\ UnreviewedIsSafe)'
  BY <1>1, <1>3, AdmitKeeps
<1>. QED
  BY <1>2, <1>3, <1>4 DEF IInv, Domains, Traced

\* So does Resume, whose target was started and has a mode and a time.
LEMMA ResumeKeeps ==
    ASSUME IInv, NEW c \in Client, Resume(c)
    PROVE  (Planned /\ CallerDecides /\ RetryOnlyInspect /\ UnreviewedIsSafe)' /\ Domains' /\ Traced'
<1>. DEFINE j == target[c]
<1>1. j \in Started /\ j \in Job /\ j # NoJob
  BY ServiceAssumption DEF Resume, At, IInv, Traced, Busy, Started
<1>2. /\ pc' = [pc EXCEPT ![c] = Idle(c)] /\ target' = [target EXCEPT ![c] = NoJob]
      /\ Idle(c) \notin Busy /\ queue' = queue /\ scene' = scene
  BY DEF Resume, Leave, Over, Goto, Idle, Busy
<1>3. CASE job' = job /\ work' = work /\ descr' = descr
  <2>1. Started' = Started
    BY <1>3 DEF Started
  <2>. QED
    BY <1>2, <1>3, <2>1 DEF IInv, Domains, Traced, Planned, CallerDecides, RetryOnlyInspect, UnreviewedIsSafe
<1>4. ASSUME NEW k \in Job, NEW task \in Continued(job[j].asked.task), NEW t \in scene.limit,
             Admit(c, k, Resumption(j, task, t), t, j),
             descr' = [descr EXCEPT ![k] = Fresh, ![j] = [done |-> TRUE, by |-> k]]
      PROVE  (Planned /\ CallerDecides /\ RetryOnlyInspect /\ UnreviewedIsSafe)' /\ Domains' /\ Traced'
  <2>1. t \in Nat
    BY ServiceAssumption DEF IInv, Configured
  <2>2. PICK q : /\ Wanted(q) /\ Admit(c, k, q, t, j) /\ q.mode = job[j].plan.mode
                 /\ t > 0 => q.timeout = t
                 /\ t = 0 => q.timeout = job[j].plan.timeout
    BY <1>1, <1>4, ResumeAsks
  <2>3. (Planned /\ CallerDecides /\ RetryOnlyInspect /\ UnreviewedIsSafe)'
    BY <1>1, <1>2, <2>1, <2>2, AdmitKeeps
  <2>4. Started' = Started \cup {k} /\ DOMAIN job' = Job /\ DOMAIN work' = Job
    BY <2>2, AdmitStarts DEF IInv
  <2>. QED
    BY <1>1, <1>2, <1>4, <2>3, <2>4 DEF IInv, Domains, Traced
<1>. QED
  BY <1>3, <1>4, ResumeStays

\* The steps that start no job lose no trace of one.
LEMMA OthersKeep ==
    ASSUME IInv, [Next]_vars, ~SpawnStep, ~ResumeStep
    PROVE  Domains' /\ Traced'
<1>. job' = job /\ Started' = Started
  BY JobsStay DEF IInv
<1>. USE DEF IInv, Domains, Traced
<1>1. CASE UNCHANGED vars
  BY <1>1 DEF vars, world, local, jobFiles
<1>2. ASSUME NEW c \in Client, Grace(c) \/ Mark(c) \/ Finish(c) \/ Record(c) \/ Crash(c)
      PROVE  Domains' /\ Traced'
  <2>1. CASE Grace(c)
    BY <2>1 DEF Grace, At, Goto, Leave, Over, Idle, Busy, local, jobFiles
  <2>2. CASE Mark(c)
    BY <2>2 DEF Mark, At, Goto, Leave, Over, Idle, Busy
  <2>3. CASE Finish(c)
    BY <2>3 DEF Finish, At, Goto, Busy
  <2>4. CASE Record(c)
    BY <2>4 DEF Record, Answer, At, Goto, Leave, Over, Idle, Busy, local
  <2>5. CASE Crash(c)
    BY <2>5 DEF Crash, Over, Goto, Busy, world, jobFiles
  <2>. QED
    BY <1>2, <2>1, <2>2, <2>3, <2>4, <2>5
<1>3. ASSUME NEW c \in Client, NEW j \in Job,
             Interrupt(c, j) \/ Feedback(c, j) \/ \E o \in {"wait", "resume"} : Open(c, o, j)
      PROVE  Domains' /\ Traced'
  <2>1. CASE Interrupt(c, j)
    BY <2>1 DEF Interrupt, Signal, Take, Goto, Busy, world, jobFiles
  <2>2. CASE Feedback(c, j)
    BY <2>2 DEF Feedback, local
  <2>3. ASSUME NEW o \in {"wait", "resume"}, Open(c, o, j)
        PROVE  Domains' /\ Traced'
    BY <2>3 DEF Open, Take, Goto, Busy, world, jobFiles
  <2>. QED
    BY <1>3, <2>1, <2>2, <2>3
<1>4. ASSUME NEW s \in Server, Start(s) \/ Shutdown(s) \/ Sweep(s) \/ Exit(s)
      PROVE  Domains' /\ Traced'
  <2>. s \in Client
    BY ServiceAssumption
  <2>1. CASE Start(s)
    BY <2>1 DEF Start, Goto, Busy, world, local, jobFiles
  <2>2. CASE Shutdown(s)
    BY <2>2 DEF Shutdown, Goto, Busy, world, jobFiles
  <2>3. CASE Sweep(s)
    <3>1. UNCHANGED world
      BY <2>3 DEF Sweep
    <3>2. CASE pc' = pc /\ target' = target
      BY <2>3, <3>1, <3>2 DEF world, jobFiles, Sweep
    <3>3. ASSUME NEW j, Own(s, j), Signal(s, "shutdown", j), j \in queue[s]
          PROVE  Domains' /\ Traced'
      <4>1. j \in Started
        BY <3>3 DEF Own
      <4>. QED
        BY <3>1, <3>3, <4>1, <2>3 DEF Signal, Take, Goto, Busy, world, jobFiles, Sweep
    <3>. QED
      BY <2>3, <3>2, <3>3, Zenon DEF Sweep
  <2>4. CASE Exit(s)
    BY <2>4 DEF Exit, Over, Goto, Busy, world, jobFiles
  <2>. QED
    BY <1>4, <2>1, <2>2, <2>3, <2>4
<1>5. ASSUME NEW j \in Job, Conclude(j) \/ Reports(j) \/ NoteLate(j) \/ Ends(j)
      PROVE  Domains' /\ Traced'
  BY <1>5 DEF Conclude, Reports, NoteLate, Ends, local, jobFiles
<1>6. CASE Configure
  BY <1>6 DEF Configure, local, jobFiles
<1>. QED
  BY <1>1, <1>2, <1>3, <1>4, <1>5, <1>6, Steps

\* Every step of a handler, a worker, a server or the user keeps it.
LEMMA NextIInv == IInv /\ [Next]_vars => IInv'
<1>. SUFFICES ASSUME IInv, [Next]_vars PROVE IInv'
  OBVIOUS
<1>1. Configured' /\ scene' = scene
  BY ConfiguredStays DEF IInv
<1>2. CASE SpawnStep
  BY <1>1, <1>2, SpawnKeeps DEF SpawnStep, IInv
<1>3. CASE ResumeStep
  BY <1>1, <1>3, ResumeKeeps DEF ResumeStep, IInv
<1>4. CASE ~SpawnStep /\ ~ResumeStep
  <2>1. Domains' /\ Traced'
    BY <1>4, OthersKeep
  <2>2. job' = job /\ Started' = Started
    BY <1>4, JobsStay DEF IInv
  <2>3. (Planned /\ CallerDecides /\ RetryOnlyInspect /\ UnreviewedIsSafe)'
    BY <1>1, <2>2 DEF IInv, Planned, CallerDecides, RetryOnlyInspect, UnreviewedIsSafe
  <2>. QED
    BY <1>1, <2>1, <2>3 DEF IInv
<1>. QED
  BY <1>2, <1>3, <1>4

\* Whatever callers ask for, engines answer and users configure, and however
\* often a job is resumed, the worker has the mode and the time its caller
\* gave, or those of the attempt before (Spawn, Resume).
THEOREM CallersDecide == Spec => []CallerDecides
<1>1. IInv => CallerDecides
  BY DEF IInv
<1>. QED
  BY InitIInv, NextIInv, <1>1, PTL DEF Spec

\* A second try is only for a job that inspects, in active mode, on the word
\* of the upstream engine (Spawn).
THEOREM RetriesOnlyInspect == Spec => []RetryOnlyInspect
<1>1. IInv => RetryOnlyInspect
  BY DEF IInv
<1>. QED
  BY InitIInv, NextIInv, <1>1, PTL DEF Spec

\* In active mode a worker whose task nobody reviewed rests on the upstream
\* engine, sure of a risk that is not high and of the mode it chose, and does
\* not change files for a task in other letters or of dangerous words
\* (ReviewReason, activeTaskReviewReason).
THEOREM UnreviewedSafe == Spec => []UnreviewedIsSafe
<1>1. IInv => UnreviewedIsSafe
  BY DEF IInv
<1>. QED
  BY InitIInv, NextIInv, <1>1, PTL DEF Spec

-----------------------------------------------------------------------------
(* The life of a job, and of the handlers that are about it.               *)

Descriptors == [done : BOOLEAN, by : Job \cup {NoJob}]

\* Nobody will finish the job: it was finished before.
Settled(j) == descr[j] = NoFile \/ descr[j].done

\* Files tell what the worker did: no report before it has ended, its last
\* status is what it reports, unless it noted something late, and no job is
\* finished that is at work.
JobLife(j) ==
    /\ j \notin Started => job[j] = NoJob /\ descr[j] = NoFile /\ log[j] = {}
    /\ descr[j] \in Descriptors \cup {NoFile}
    /\ output[j] \in Statuses \cup {"none"} /\ log[j] \subseteq {"outcome", "corrected"}
    /\ work[j] \in {"none", "running", "ending"} => output[j] = "none"
    /\ work[j] = "ending" => status[j] \in {WorkerStatus(o) : o \in scene.outcome}
    /\ output[j] \notin {"none", "failed", "interrupted"} =>
          \/ status[j] = WorkerStatus(output[j])
          \/ output[j] \in Unawaited /\ status[j] = WorkerStatus("running")
    /\ (j \in Started /\ descr[j] = NoFile) \/ log[j] # {} => ~Alive(j)

\* A handler that is past its check of the worker has a report in hand, which
\* is still the job's unless it is none of the worker's own.
ClientLife(c) ==
    /\ op[c] = "shutdown" => c \in Server /\ pc[c] \in {"sweep", "grace", "mark", "observe", "record"}
    /\ pc[c] = "sweep" => op[c] = "shutdown"
    /\ pc[c] \in Busy => target[c] \in Started /\ mem[c] \in Descriptors
    /\ pc[c] \notin Busy => target[c] = NoJob
    /\ pc[c] = "mark" => ~WorkerMatches(target[c])
    /\ pc[c] \in {"observe", "record", "answer"} => ~Alive(target[c]) /\ report[c].status \in Statuses
    /\ pc[c] = "observe" /\ report[c].status \notin {"failed", "interrupted"} =>
          output[target[c]] = report[c].status
    /\ pc[c] = "record" => /\ report[c].state \in Terminal
                           /\ \/ report[c].status \in {"failed", "interrupted"}
                              \/ report[c].state = StateForPhase(report[c].status)
    /\ pc[c] \in {"record", "answer"} => Settled(target[c])

\* A server that shuts down, or has, has stopped every job of its own but
\* those it has still to look at.
Closing(s) == op[s] = "shutdown" \/ pc[s] = "gone"

Stopped(j) == ~Alive(j) \/ work[j] = "killed"

ServerLife(s) ==
    /\ Closing(s) => \A j \in Started : job[j].owner = s =>
          j \in queue[s] \/ Stopped(j) \/ (pc[s] = "grace" /\ target[s] = j)
    /\ pc[s] = "gone" => queue[s] = {}
    /\ op[s] = "shutdown" /\ target[s] # NoJob => job[target[s]].owner = s

Fields == /\ DOMAIN status = Job /\ DOMAIN output = Job /\ DOMAIN log = Job
          /\ DOMAIN op = Client /\ DOMAIN mem = Client /\ DOMAIN report = Client
          /\ \A c \in Client : report[c] = [status |-> report[c].status, state |-> report[c].state]
          /\ edits \in Nat /\ edits <= scene.edits /\ faults \in Nat

LifeInv == /\ IInv /\ Fields
           /\ \A j \in Job : JobLife(j)
           /\ \A c \in Client : ClientLife(c)
           /\ \A s \in Server : ServerLife(s)

\* What becomes of a job that was started: what is over stays over.
Onward(j) == j \in Started =>
    /\ j \in Started' /\ job'[j] = job[j]
    /\ ~Alive(j) => ~Alive(j)'
    /\ ~WorkerMatches(j) => ~WorkerMatches(j)'
    /\ Stopped(j) => Stopped(j)'
    /\ Settled(j) => Settled(j)'
    /\ output[j] \notin {"none", "failed", "interrupted"} => output'[j] = output[j]

SameJob(j) == UNCHANGED <<job[j], descr[j], work[j], status[j], output[j], log[j]>>

LEMMA UntouchedJob ==
    ASSUME NEW j \in Job, JobLife(j), SameJob(j), scene' = scene
    PROVE  JobLife(j)' /\ Onward(j)
BY DEF JobLife, SameJob, Onward, Started, Alive, WorkerMatches, Stopped, Settled, Statuses

\* What Admit writes, in short.
LEMMA AdmitWrites ==
    ASSUME Domains, NEW c, NEW k \in Job, NEW q, Wanted(q), NEW given, NEW parent, Admit(c, k, q, given, parent)
    PROVE  /\ work[k] = "none" /\ work' = [work EXCEPT ![k] = "running"]
           /\ \A i \in Job : i # k => job'[i] = job[i]
           /\ parent = NoJob /\ c \in Server => job'[k].owner = c
           /\ parent # NoJob \/ c \notin Server => job'[k].owner = NoClient
           /\ job'[k].parent = parent /\ job'[k].asked.reviewed = q.reviewed
<1>1. work' = [work EXCEPT ![k] = "running"] /\ k \notin Started
  BY Zenon DEF Admit
<1>2. PICK r, plan : job' = [job EXCEPT ![k] = Described(c, q, given, parent, r, plan)]
  BY AdmitDescribes
<1>3. job'[k] = Described(c, q, given, parent, r, plan)
  BY <1>2 DEF Domains
<1>4. /\ job'[k].owner = (IF parent = NoJob /\ c \in Server THEN c ELSE NoClient)
      /\ job'[k].parent = parent /\ job'[k].asked = [q EXCEPT !.timeout = given]
  BY <1>3 DEF Described
<1>5. [q EXCEPT !.timeout = given].reviewed = q.reviewed
  BY DEF Wanted
<1>. QED
  BY <1>1, <1>2, <1>4, <1>5 DEF Domains, Started

\* What Spawn and Resume leave of the jobs: one more that is at work.
LEMMA SpawnWrites ==
    ASSUME IInv, NEW c \in Client, NEW k \in Job, Spawn(c, k)
    PROVE  /\ work[k] = "none" /\ work' = [work EXCEPT ![k] = "running"]
           /\ \A i \in Job : i # k => job'[i] = job[i]
           /\ job'[k].owner = c \/ job'[k].owner = NoClient
           /\ job'[k].parent = NoJob
<1>1. PICK p : Wanted(p) /\ Admit(c, k, p, p.timeout, NoJob)
  BY SpawnAsks
<1>2. Domains
  BY DEF IInv
<1>3. PICK t : Admit(c, k, p, t, NoJob)
  BY <1>1
<1>. QED
  BY <1>1, <1>2, <1>3, AdmitWrites

LEMMA ResumeWrites ==
    ASSUME IInv, NEW c, NEW k \in Job, NEW j \in Started, NEW task, NEW t \in scene.limit,
           Admit(c, k, Resumption(j, task, t), t, j)
    PROVE  /\ work[k] = "none" /\ work' = [work EXCEPT ![k] = "running"]
           /\ \A i \in Job : i # k => job'[i] = job[i]
           /\ job'[k].owner = NoClient /\ job'[k].parent = j
           /\ job'[k].asked.reviewed = job[j].asked.reviewed
<1>1. PICK q : Wanted(q) /\ Admit(c, k, q, t, j) /\ q.reviewed = job[j].asked.reviewed
  BY ResumeAsks
<1>2. j # NoJob /\ Domains
  BY ServiceAssumption DEF Started, IInv
<1>. QED
  BY <1>1, <1>2, AdmitWrites

\* A new job has a descriptor and a worker at work, and no more.
LEMMA NewJob ==
    ASSUME NEW k \in Job, JobLife(k), work[k] = "none", scene' = scene,
           work'[k] = "running", descr'[k] = Fresh, UNCHANGED <<output[k], log[k]>>
    PROVE  JobLife(k)' /\ Onward(k)
<1>1. Fresh \in Descriptors /\ NoFile \notin Descriptors
  BY ServiceAssumption DEF Fresh, Descriptors
<1>2. k \in Started' /\ k \notin Started
  BY DEF Started
<1>. QED
  BY <1>1, <1>2 DEF JobLife, Onward, Started, Statuses

\* What each step leaves of a job.
LEMMA JobsGoOn ==
    ASSUME LifeInv, [Next]_vars, NEW i \in Job
    PROVE  JobLife(i)' /\ Onward(i)
<1>. USE DEF Fields, Domains
<1>0. /\ scene' = scene /\ JobLife(i) /\ IInv /\ Fields /\ Domains
      /\ \A c \in Client : ClientLife(c)
  BY ConfiguredStays DEF LifeInv, IInv
<1>s. ASSUME SameJob(i) PROVE JobLife(i)' /\ Onward(i)
  BY <1>0, <1>s, UntouchedJob
<1>1. ASSUME NEW c \in Client, NEW k \in Job, Spawn(c, k) PROVE JobLife(i)' /\ Onward(i)
  <2>2. /\ work[k] = "none" /\ work' = [work EXCEPT ![k] = "running"]
        /\ \A j \in Job : j # k => job'[j] = job[j]
    BY <1>0, <1>1, SpawnWrites
  <2>3. UNCHANGED <<status, output, log>> /\ descr' = [descr EXCEPT ![k] = Fresh]
    BY <1>1 DEF Spawn
  <2>4. CASE i = k
    BY <1>0, <2>2, <2>3, <2>4, NewJob
  <2>5. CASE i # k
    BY <1>0, <1>s, <2>2, <2>3, <2>5 DEF SameJob
  <2>. QED
    BY <2>4, <2>5
<1>2. ASSUME NEW c \in Client, Resume(c) PROVE JobLife(i)' /\ Onward(i)
  <2>. DEFINE j == target[c]
  <2>1. j \in Started /\ j \in Job /\ Settled(j) /\ UNCHANGED <<status, output, log>>
    BY <1>0, <1>2 DEF Resume, At, ClientLife, Busy, Started
  <2>2. CASE job' = job /\ work' = work /\ descr' = descr
    BY <1>s, <2>1, <2>2 DEF SameJob
  <2>3. ASSUME NEW k \in Job, NEW task \in Continued(job[j].asked.task), NEW t \in scene.limit,
               Admit(c, k, Resumption(j, task, t), t, j),
               descr' = [descr EXCEPT ![k] = Fresh, ![j] = [done |-> TRUE, by |-> k]]
        PROVE  JobLife(i)' /\ Onward(i)
    <3>2. /\ work[k] = "none" /\ work' = [work EXCEPT ![k] = "running"]
          /\ \A x \in Job : x # k => job'[x] = job[x]
      <4>1. IInv /\ j \in Started /\ Admit(c, k, Resumption(j, task, t), t, j)
        BY <1>0, <2>1, <2>3
      <4>. HIDE DEF j, Domains, Fields
      <4>. QED
        BY <4>1, ResumeWrites
    <3>3. j # k
      BY <2>1, <3>2 DEF Started
    <3>4. CASE i = k
      BY <1>0, <2>1, <2>3, <3>2, <3>3, <3>4, NewJob
    <3>5. CASE i = j
      <4>1. /\ UNCHANGED <<job[i], work[i], status[i], output[i], log[i]>>
            /\ descr'[i] = [done |-> TRUE, by |-> k]
        BY <1>0, <2>1, <2>3, <3>2, <3>3, <3>5
      <4>2. [done |-> TRUE, by |-> k] \in Descriptors /\ [done |-> TRUE, by |-> k].done
        BY DEF Descriptors
      <4>3. descr'[i] \in Descriptors /\ descr'[i].done /\ descr'[i] # NoFile
        BY <4>1, <4>2, ServiceAssumption DEF Descriptors
      <4>. QED
        BY <1>0, <2>1, <3>5, <4>1, <4>3
           DEF JobLife, Onward, Started, Alive, WorkerMatches, Stopped, Settled, Statuses
    <3>6. CASE i \notin {j, k}
      BY <1>0, <1>s, <2>1, <2>3, <3>2, <3>6 DEF SameJob
    <3>. QED
      BY <3>4, <3>5, <3>6
  <2>. QED
    BY <1>2, <2>2, <2>3, ResumeStays
<1>3. ASSUME NEW c \in Client, Grace(c) PROVE JobLife(i)' /\ Onward(i)
  <2>1. CASE i # target[c]
    BY <1>0, <1>3, <1>s, <2>1 DEF Grace, SameJob, jobFiles
  <2>2. CASE i = target[c]
    <3>1. /\ UNCHANGED <<job, descr, status, output, log>>
          /\ WorkerMatches(i) \/ work'[i] = work[i]
          /\ work'[i] \in {work[i], "gone", "killed"}
      BY <1>0, <1>3, <2>2 DEF Grace, jobFiles
    <3>. QED
      BY <1>0, <3>1 DEF JobLife, Onward, Started, Alive, WorkerMatches, Stopped, Settled, Statuses
  <2>. QED
    BY <2>1, <2>2
<1>4. ASSUME NEW c \in Client, Mark(c) PROVE JobLife(i)' /\ Onward(i)
  <2>1. CASE i # target[c] \/ output[i] # "none"
    BY <1>0, <1>4, <1>s, <2>1 DEF Mark, SameJob
  <2>2. CASE i = target[c] /\ output[i] = "none"
    <3>1. /\ UNCHANGED <<job, descr, work, log>> /\ ~WorkerMatches(i)
          /\ output'[i] = "interrupted" /\ i \in Started
      BY <1>0, <1>4, <2>2 DEF Mark, At, ClientLife, Busy
    <3>2. /\ work[i] \notin {"none", "running", "ending"} /\ ~Alive(i) /\ ~Alive(i)'
          /\ Stopped(i)' /\ (Settled(i)' <=> Settled(i)) /\ i \in Started' /\ ~WorkerMatches(i)'
      BY <1>0, <3>1 DEF Started, Alive, WorkerMatches, Stopped, Settled
    <3>. QED
      BY <1>0, <2>2, <3>1, <3>2 DEF JobLife, Onward, Statuses
  <2>. QED
    BY <2>1, <2>2
<1>5. ASSUME NEW c \in Client, Finish(c) PROVE JobLife(i)' /\ Onward(i)
  <2>1. CASE i # target[c]
    BY <1>0, <1>5, <1>s, <2>1 DEF Finish, SameJob
  <2>2. CASE i = target[c]
    <3>1. /\ i \in Started /\ mem[c] \in Descriptors /\ report[c].status \in Statuses /\ ~Alive(i)
          /\ report[c].status \notin {"failed", "interrupted"} => output[i] = report[c].status
      BY <1>0, <1>5, <2>2 DEF Finish, At, ClientLife, Busy
    <3>2. /\ UNCHANGED <<job, work, status, log>>
          /\ output'[i] = output[i]
          /\ descr'[i] \in {NoFile, [mem[c] EXCEPT !.done = TRUE]}
      BY <1>0, <1>5, <2>2, <3>1 DEF Finish, Resumable
    <3>3. [mem[c] EXCEPT !.done = TRUE] \in Descriptors /\ [mem[c] EXCEPT !.done = TRUE].done
      BY <3>1 DEF Descriptors
    <3>. QED
      BY <1>0, <3>1, <3>2, <3>3 DEF JobLife, Onward, Started, Alive, WorkerMatches, Stopped, Settled, Statuses
  <2>. QED
    BY <2>1, <2>2
<1>6. ASSUME NEW c \in Client, Record(c) PROVE JobLife(i)' /\ Onward(i)
  <2>1. CASE i # target[c]
    BY <1>0, <1>6, <1>s, <2>1 DEF Record, SameJob
  <2>2. CASE i = target[c]
    <3>1. UNCHANGED <<job, descr, work, status, output>> /\ log'[i] \in {log[i], log[i] \cup {"outcome"}}
      BY <1>0, <1>6, <2>2 DEF Record
    <3>2. i \in Started /\ ~Alive(i)
      BY <1>0, <1>6, <2>2 DEF Record, At, ClientLife, Busy
    <3>. QED
      BY <1>0, <3>1, <3>2 DEF JobLife, Onward, Started, Alive, WorkerMatches, Stopped, Settled, Statuses
  <2>. QED
    BY <2>1, <2>2
<1>7. ASSUME NEW c \in Client, NEW j \in Job, Feedback(c, j) PROVE JobLife(i)' /\ Onward(i)
  <2>1. CASE i # j
    BY <1>0, <1>7, <1>s, <2>1 DEF Feedback, SameJob
  <2>2. CASE i = j
    <3>1. UNCHANGED <<job, descr, work, status, output>> /\ log'[i] = log[i] \cup {"corrected"} /\ log[i] # {}
      BY <1>0, <1>7, <2>2 DEF Feedback
    <3>. QED
      BY <1>0, <3>1 DEF JobLife, Onward, Started, Alive, WorkerMatches, Stopped, Settled, Statuses
  <2>. QED
    BY <2>1, <2>2
<1>8. ASSUME NEW c \in Client, NEW j \in Job,
             Interrupt(c, j) \/ Crash(c) \/ \E o \in {"wait", "resume"} : Open(c, o, j)
      PROVE  JobLife(i)' /\ Onward(i)
  BY <1>s, <1>8 DEF Interrupt, Crash, Open, world, jobFiles, SameJob
<1>9. ASSUME NEW s \in Server, Start(s) \/ Shutdown(s) \/ Sweep(s) \/ Exit(s)
      PROVE  JobLife(i)' /\ Onward(i)
  BY <1>s, <1>9 DEF Start, Shutdown, Sweep, Exit, world, jobFiles, SameJob
<1>10. ASSUME NEW j \in Job, Conclude(j) PROVE JobLife(i)' /\ Onward(i)
  <2>1. CASE i # j
    BY <1>0, <1>10, <1>s, <2>1 DEF Conclude, SameJob, jobFiles
  <2>2. CASE i = j
    <3>1. /\ UNCHANGED <<job, descr, output, log>> /\ work[i] = "running" /\ work'[i] = "ending"
          /\ status'[i] \in {WorkerStatus(o) : o \in scene.outcome}
      BY <1>0, <1>10, <2>2 DEF Conclude, jobFiles
    <3>. QED
      BY <1>0, <3>1 DEF JobLife, Onward, Started, Alive, WorkerMatches, Stopped, Settled, Statuses
  <2>. QED
    BY <2>1, <2>2
<1>11. ASSUME NEW j \in Job, Reports(j) PROVE JobLife(i)' /\ Onward(i)
  <2>1. CASE i # j
    BY <1>0, <1>11, <1>s, <2>1 DEF Reports, SameJob
  <2>2. CASE i = j
    <3>1. /\ UNCHANGED <<job, descr, status, log>> /\ work[i] = "ending" /\ work'[i] = "exiting"
          /\ output'[i] = status[i].phase
      BY <1>0, <1>11, <2>2 DEF Reports
    <3>2. PICK o \in scene.outcome : status[i] = WorkerStatus(o)
      BY <1>0, <3>1 DEF JobLife
    <3>3. o = status[i].phase
      BY <3>2 DEF WorkerStatus
    <3>. QED
      BY <1>0, <3>1, <3>2, <3>3 DEF JobLife, Onward, Started, Alive, WorkerMatches, Stopped, Settled, Statuses
  <2>. QED
    BY <2>1, <2>2
<1>14. ASSUME NEW j \in Job, NoteLate(j) PROVE JobLife(i)' /\ Onward(i)
  <2>1. CASE i # j
    BY <1>0, <1>14, <1>s, <2>1 DEF NoteLate, SameJob, jobFiles
  <2>2. CASE i = j
    <3>1. /\ UNCHANGED <<job, descr, work, output, log>> /\ work[i] = "exiting" /\ output[i] \in Unawaited
          /\ status'[i] = WorkerStatus("running")
      BY <1>0, <1>14, <2>2 DEF NoteLate, jobFiles
    <3>. QED
      BY <1>0, <3>1 DEF JobLife, Onward, Started, Alive, WorkerMatches, Stopped, Settled, Statuses
  <2>. QED
    BY <2>1, <2>2
<1>12. ASSUME NEW j \in Job, Ends(j) PROVE JobLife(i)' /\ Onward(i)
  <2>1. CASE i # j
    BY <1>0, <1>12, <1>s, <2>1 DEF Ends, SameJob, jobFiles
  <2>2. CASE i = j
    <3>1. /\ UNCHANGED <<job, descr, status, output, log>> /\ WorkerMatches(i) /\ work'[i] = "gone"
      BY <1>0, <1>12, <2>2 DEF Ends, jobFiles
    <3>. QED
      BY <1>0, <3>1 DEF JobLife, Onward, Started, Alive, WorkerMatches, Stopped, Settled, Statuses
  <2>. QED
    BY <2>1, <2>2
<1>13. ASSUME UNCHANGED vars \/ Configure PROVE JobLife(i)' /\ Onward(i)
  BY <1>s, <1>13 DEF vars, world, jobFiles, SameJob, Configure
<1>. QED
  BY <1>1, <1>2, <1>3, <1>4, <1>5, <1>6, <1>7, <1>8, <1>9, <1>10, <1>11, <1>12, <1>13,
     <1>14 DEF Next, Handle, Asked

\* A client whose handler does not move stands by the job as it was.
Quiet(d) == UNCHANGED <<pc[d], op[d], target[d], mem[d], report[d]>>

LEMMA UntouchedClient ==
    ASSUME NEW d \in Client, ClientLife(d), Quiet(d), Configured, scene' = scene,
           \A j \in Job : Onward(j)
    PROVE  ClientLife(d)'
<1>1. Statuses' = Statuses /\ "none" \notin Statuses
  BY ServiceAssumption DEF Configured, Statuses, Unawaited
<1>2. UNCHANGED <<pc[d], op[d], target[d], mem[d], report[d]>>
  BY DEF Quiet
<1>3. PICK j : j = target[d]
  OBVIOUS
<1>4. ASSUME pc[d] \in Busy
      PROVE  /\ j \in Started' /\ (~Alive(j) => ~Alive(j)')
             /\ ~WorkerMatches(j) => ~WorkerMatches(j)'
             /\ Settled(j) => Settled(j)'
             /\ output[j] \notin {"none", "failed", "interrupted"} => output'[j] = output[j]
  <2>1. j \in Started /\ j \in Job
    BY <1>3, <1>4 DEF ClientLife, Started
  <2>2. Onward(j)
    BY <2>1
  <2>. QED
    BY <2>1, <2>2 DEF Onward
<1>5. target'[d] = j
  BY <1>2, <1>3
<1>6. pc[d] \in Busy => /\ ~Alive(target[d]) => ~Alive(target[d])'
                        /\ ~WorkerMatches(target[d]) => ~WorkerMatches(target[d])'
                        /\ Settled(target[d]) => Settled(target[d])'
  BY <1>3, <1>4, <1>5 DEF Alive, WorkerMatches, Settled
<1>. QED
  BY <1>1, <1>2, <1>3, <1>4, <1>5, <1>6 DEF ClientLife, Busy

\* A handler that is over leaves nothing behind.
LEMMA LeavesClean ==
    ASSUME Domains, Fields, NEW c \in Client, ClientLife(c), Leave(c)
    PROVE  ClientLife(c)'
<1>1. /\ pc'[c] = Idle(c) /\ target'[c] = NoJob
      /\ op[c] = "shutdown" => op'[c] = "shutdown" /\ pc'[c] = "sweep"
      /\ op[c] # "shutdown" => op'[c] = "none" /\ pc'[c] = "idle"
  BY DEF Leave, Over, Idle, Goto, Domains, Fields
<1>. QED
  BY <1>1 DEF ClientLife, Busy

\* The supervisor repeats what a worker said last.
LEMMA OwnLastWord ==
    ASSUME NEW o \in {"completed", "timeout", "idle_timeout", "provider_error"}
    PROVE  Observe(WorkerStatus(o)) = StateForPhase(o)
BY DEF Observe, Named, WorkerStatus, StateForPhase, Terminal

\* It takes a late note for a failure, as the outcomes after which there may
\* be one are.
LEMMA LateWord ==
    ASSUME NEW o \in {"timeout", "idle_timeout", "provider_error"}
    PROVE  Observe(WorkerStatus("running")) = StateForPhase(o)
BY DEF Observe, Named, WorkerStatus, StateForPhase, Terminal

\* What each step leaves of a handler.
LEMMA ClientsGoOn ==
    ASSUME LifeInv, [Next]_vars, NEW d \in Client
    PROVE  ClientLife(d)'
<1>. USE DEF Fields, Domains
<1>0. /\ scene' = scene /\ Configured /\ ClientLife(d) /\ \A i \in Job : JobLife(i) /\ JobLife(i)' /\ Onward(i)
      /\ Fields /\ Domains
  BY ConfiguredStays, JobsGoOn DEF LifeInv, IInv
<1>q. ASSUME Quiet(d) PROVE ClientLife(d)'
  BY <1>0, <1>q, UntouchedClient
<1>l. ASSUME Leave(d) PROVE ClientLife(d)'
  BY <1>0, <1>l, LeavesClean
<1>1. ASSUME NEW c \in Client, NEW k \in Job, Spawn(c, k) PROVE ClientLife(d)'
  BY <1>q, <1>1 DEF Spawn, local, Quiet
<1>2. ASSUME NEW c \in Client, Resume(c) PROVE ClientLife(d)'
  <2>1. CASE c = d
    BY <1>l, <1>2, <2>1 DEF Resume
  <2>2. CASE c # d
    BY <1>0, <1>q, <1>2, <2>2 DEF Resume, Leave, Over, Goto, Quiet
  <2>. QED
    BY <2>1, <2>2
<1>3. ASSUME NEW c \in Client, Grace(c) PROVE ClientLife(d)'
  <2>1. CASE c = d
    <3>1. CASE Leave(c)
      BY <1>l, <2>1, <3>1
    <3>2. CASE Goto(c, "mark") /\ UNCHANGED local /\ ~WorkerMatches(target[d])'
      BY <1>0, <1>3, <2>1, <3>2 DEF Grace, At, Goto, local, ClientLife, Busy, Started, Onward
    <3>3. target[d] \in Job
      BY <1>0, <1>3, <2>1 DEF Grace, At, ClientLife, Busy, Started
    <3>4. CASE Goto(c, "mark") /\ UNCHANGED local /\ ~WorkerMatches(target[d]) /\ work' = work
      BY <3>2, <3>4 DEF WorkerMatches, local
    <3>5. CASE Goto(c, "mark") /\ UNCHANGED local /\ work' = [work EXCEPT ![target[d]] = "gone"]
      BY <1>0, <3>2, <3>3, <3>5 DEF WorkerMatches, local
    <3>. QED
      BY <1>3, <2>1, <3>1, <3>4, <3>5 DEF Grace
  <2>2. CASE c # d
    BY <1>0, <1>q, <1>3, <2>2 DEF Grace, Leave, Over, Goto, Quiet, local
  <2>. QED
    BY <2>1, <2>2
<1>4. ASSUME NEW c \in Client, Mark(c) PROVE ClientLife(d)'
  <2>1. CASE c = d
    <3>0. PICK j : j = target[d]
      OBVIOUS
    <3>1. /\ pc[d] = "mark" /\ j \in Started /\ j \in Job /\ mem[d] \in Descriptors /\ ~WorkerMatches(j)
          /\ op[d] = "shutdown" => d \in Server
      BY <1>0, <1>4, <2>1, <3>0 DEF Mark, At, ClientLife, Busy, Started
    <3>2. /\ ~WorkerMatches(j)' /\ j \in Started' /\ JobLife(j)'
      BY <1>0, <3>1 DEF Onward
    <3>3. CASE Leave(c)
      BY <1>l, <2>1, <3>3
    <3>4. CASE mem[d].done = FALSE
      <4>1. /\ pc' = [pc EXCEPT ![d] = "observe"] /\ UNCHANGED <<op, target, mem>>
            /\ report' = [report EXCEPT ![d].status = output'[j]]
            /\ output'[j] # "none" /\ target'[d] = j
        BY <1>0, <1>4, <2>1, <3>0, <3>1, <3>4 DEF Mark, Goto
      <4>2. report'[d].status = output'[j] /\ pc'[d] = "observe"
        BY <1>0, <4>1
      <4>3. report'[d].status \in Statuses'
        BY <3>2, <4>1, <4>2 DEF JobLife
      <4>4. ~Alive(target[d])'
        BY <3>2, <4>1 DEF Alive, WorkerMatches
      <4>. QED
        BY <3>1, <3>2, <4>1, <4>2, <4>3, <4>4 DEF ClientLife, Busy, Descriptors
    <3>. QED
      BY <1>4, <2>1, <3>0, <3>1, <3>3, <3>4 DEF Mark, Descriptors
  <2>2. CASE c # d
    BY <1>0, <1>q, <1>4, <2>2 DEF Mark, Leave, Over, Goto, Quiet
  <2>. QED
    BY <2>1, <2>2
<1>5. ASSUME NEW c \in Client, Finish(c) PROVE ClientLife(d)'
  <2>1. CASE c = d
    <3>. DEFINE j == target[d]
    <3>1. /\ pc[d] = "observe" /\ j \in Started /\ j \in Job /\ mem[d] \in Descriptors /\ ~Alive(j)
          /\ op[d] = "shutdown" => d \in Server
          /\ report[d].status \in Statuses
          /\ report[d].status \notin {"failed", "interrupted"} => output[j] = report[d].status
      BY <1>0, <1>5, <2>1 DEF Finish, At, ClientLife, Busy, Started
    <3>2. /\ pc' = [pc EXCEPT ![d] = "record"] /\ UNCHANGED <<op, target, mem, status>>
          /\ report' = [report EXCEPT ![d].state = Observe(status[j])]
          /\ descr'[j] = NoFile \/ descr'[j] = [mem[d] EXCEPT !.done = TRUE]
      BY <1>0, <1>5, <2>1, <3>1 DEF Finish, Goto
    <3>3. Settled(j)'
      <4>1. [mem[d] EXCEPT !.done = TRUE].done
        BY <3>1 DEF Descriptors
      <4>2. descr'[j] = NoFile \/ descr'[j].done
        BY <3>2, <4>1
      <4>3. target'[d] = j
        BY <3>2
      <4>. QED
        BY <4>2, <4>3 DEF Settled
    <3>4. ~Alive(j)' /\ j \in Started'
      BY <1>0, <3>1, <3>2 DEF Onward, Alive, WorkerMatches
    <3>5. /\ report'[d].state = Observe(status[j]) /\ report'[d].status = report[d].status
          /\ pc'[d] = "record" /\ target'[d] = j
      BY <1>0, <3>2
    <3>6. report'[d].state \in Terminal
      BY <3>5 DEF Observe, Terminal
    <3>7. \/ report[d].status \in {"failed", "interrupted"}
          \/ report'[d].state = StateForPhase(report[d].status)
      <4>1. CASE report[d].status \notin {"failed", "interrupted"}
        <5>1. report[d].status \in scene.outcome /\ scene \in Scene
          BY <1>0, <3>1, <4>1 DEF Statuses, Configured
        <5>2. report[d].status \in {"completed", "timeout", "idle_timeout", "provider_error"}
          BY <4>1, <5>1, ServiceAssumption DEF Unawaited
        <5>3. \/ status[j] = WorkerStatus(report[d].status)
              \/ report[d].status \in Unawaited /\ status[j] = WorkerStatus("running")
          BY <1>0, <3>1, <4>1, <5>2 DEF JobLife
        <5>4. CASE status[j] = WorkerStatus(report[d].status)
          BY <3>5, <5>2, <5>4, OwnLastWord
        <5>5. CASE report[d].status \in Unawaited /\ status[j] = WorkerStatus("running")
          BY <3>5, <4>1, <5>5, LateWord DEF Unawaited
        <5>. QED
          BY <5>3, <5>4, <5>5
      <4>. QED
        BY <4>1
    <3>8. Statuses' = Statuses
      BY <1>0 DEF Statuses
    <3>9. (~Alive(target[d]))' /\ Settled(target[d])'
      BY <3>3, <3>4, <3>5 DEF Alive, WorkerMatches, Settled
    <3>. QED
      BY <3>1, <3>2, <3>4, <3>5, <3>6, <3>7, <3>8, <3>9 DEF ClientLife, Busy, Descriptors
  <2>2. CASE c # d
    BY <1>0, <1>q, <1>5, <2>2 DEF Finish, Goto, Quiet
  <2>. QED
    BY <2>1, <2>2
<1>6. ASSUME NEW c \in Client, Record(c) PROVE ClientLife(d)'
  <2>1. CASE c = d
    <3>1. CASE Leave(c)
      BY <1>l, <2>1, <3>1
    <3>2. CASE op[c] = "resume" /\ Goto(c, "answer") /\ UNCHANGED local
      <4>. DEFINE j == target[d]
      <4>1. /\ j \in Started /\ j \in Job /\ mem[d] \in Descriptors /\ ~Alive(j) /\ Settled(j)
            /\ report[d].status \in Statuses
        BY <1>0, <1>6, <2>1 DEF Record, At, ClientLife, Busy, Started
      <4>2. /\ UNCHANGED <<op, target, mem, report>> /\ pc'[d] = "answer"
        BY <1>0, <2>1, <3>2 DEF Goto, local
      <4>3. j \in Started' /\ UNCHANGED <<output, work, descr, job>> /\ scene' = scene
        BY <1>0, <1>6, <4>1 DEF Record, Onward
      <4>. QED
        BY <2>1, <3>2, <4>1, <4>2, <4>3 DEF ClientLife, Busy, Descriptors, Statuses, Settled, Alive, WorkerMatches
    <3>. QED
      BY <1>6, <3>1, <3>2 DEF Record, Answer
  <2>2. CASE c # d
    BY <1>0, <1>q, <1>6, <2>2 DEF Record, Answer, Leave, Over, Goto, Quiet, local
  <2>. QED
    BY <2>1, <2>2
<1>7. ASSUME NEW c \in Client, NEW j \in Job, Feedback(c, j) PROVE ClientLife(d)'
  BY <1>q, <1>7 DEF Feedback, local, Quiet
<1>8. ASSUME NEW c \in Client, NEW j \in Job, NEW o \in {"wait", "resume"}, Open(c, o, j) PROVE ClientLife(d)'
  <2>1. CASE c = d
    <3>1. /\ j \in Started /\ ~Alive(j) /\ descr[j] \in Descriptors /\ descr[j] # NoFile
          /\ output[j] \in Statuses \cup {"none"}
      BY <1>0, <1>8 DEF Open, JobLife
    <3>2. Read(j) \in Statuses /\ (Read(j) # "failed" => output[j] = Read(j))
      BY <3>1 DEF Read, Statuses
    <3>3. /\ op'[d] = o /\ target'[d] = j /\ mem'[d] = descr[j] /\ report'[d].status = Read(j)
          /\ pc'[d] = (IF descr[j].done THEN "answer" ELSE "observe")
          /\ UNCHANGED <<job, work, output, descr>>
      BY <1>0, <1>8, <2>1 DEF Open, Take, Goto, world, jobFiles
    <3>4. Started' = Started /\ Statuses' = Statuses
      BY <1>0, <3>3 DEF Started, Statuses
    <3>5. (~Alive(target[d]))' /\ (descr[j].done => Settled(target[d])')
      BY <3>1, <3>3 DEF Alive, WorkerMatches, Settled
    <3>. QED
      BY <1>8, <3>1, <3>2, <3>3, <3>4, <3>5 DEF ClientLife, Busy, Descriptors
  <2>2. CASE c # d
    BY <1>0, <1>q, <1>8, <2>2 DEF Open, Take, Goto, Quiet
  <2>. QED
    BY <2>1, <2>2
<1>9. ASSUME NEW c \in Client, NEW j \in Job, NEW o, Signal(c, o, j), report' = report,
             o = "shutdown" => c \in Server, descr[j] # NoFile
      PROVE  ClientLife(d)'
  <2>1. CASE c = d
    <3>1. j \in Started /\ descr[j] \in Descriptors /\ j \in Started'
      BY <1>0, <1>9 DEF JobLife, Onward
    <3>2. op'[d] = o /\ target'[d] = j /\ mem'[d] = descr[j] /\ pc'[d] = "grace"
      BY <1>0, <1>9, <2>1 DEF Signal, Take, Goto
    <3>. QED
      BY <1>9, <2>1, <3>1, <3>2 DEF ClientLife, Busy, Descriptors
  <2>2. CASE c # d
    BY <1>0, <1>q, <1>9, <2>2 DEF Signal, Take, Goto, Quiet
  <2>. QED
    BY <2>1, <2>2
<1>10. ASSUME NEW c \in Client, NEW j \in Job, Interrupt(c, j) PROVE ClientLife(d)'
  BY <1>9, <1>10 DEF Interrupt
<1>11. ASSUME NEW c \in Client, Crash(c) PROVE ClientLife(d)'
  <2>1. CASE c = d
    <3>1. op'[d] = "none" /\ target'[d] = NoJob /\ pc'[d] \in {"dead", "idle"}
      BY <1>0, <1>11, <2>1 DEF Crash, Over, Goto
    <3>. QED
      BY <3>1 DEF ClientLife, Busy
  <2>2. CASE c # d
    BY <1>0, <1>q, <1>11, <2>2 DEF Crash, Over, Goto, Quiet
  <2>. QED
    BY <2>1, <2>2
<1>12. ASSUME NEW s \in Server, Start(s) PROVE ClientLife(d)'
  <2>1. CASE s = d
    <3>1. pc[d] = "off" /\ pc'[d] = "idle" /\ op' = op /\ target' = target
      BY <1>0, <1>12, <2>1 DEF Start, At, Goto, local
    <3>. QED
      BY <1>0, <3>1 DEF ClientLife, Busy
  <2>2. CASE s # d
    BY <1>0, <1>q, <1>12, <2>2 DEF Start, Goto, Quiet, local
  <2>. QED
    BY <2>1, <2>2
<1>13. ASSUME NEW s \in Server, Shutdown(s) PROVE ClientLife(d)'
  <2>1. CASE s = d
    <3>1. pc[d] = "idle" /\ pc'[d] = "sweep" /\ op'[d] = "shutdown" /\ target' = target
      BY <1>0, <1>13, <2>1 DEF Shutdown, At, Goto
    <3>. QED
      BY <1>0, <1>13, <2>1, <3>1 DEF ClientLife, Busy
  <2>2. CASE s # d
    BY <1>0, <1>q, <1>13, <2>2 DEF Shutdown, Goto, Quiet
  <2>. QED
    BY <2>1, <2>2
<1>14. ASSUME NEW s \in Server, Sweep(s) PROVE ClientLife(d)'
  <2>1. report' = report /\ s \in Client
    BY <1>14, ServiceAssumption DEF Sweep, world
  <2>2. CASE UNCHANGED <<pc, op, target, mem>>
    BY <1>q, <2>1, <2>2 DEF Quiet
  <2>3. ASSUME NEW j \in queue[s], Own(s, j), Signal(s, "shutdown", j) PROVE ClientLife(d)'
    <3>1. j \in Job /\ descr[j] # NoFile
      BY <1>0, <2>3 DEF Own
    <3>. QED
      BY <1>9, <1>14, <2>1, <2>3, <3>1
  <2>. QED
    BY <1>14, <2>2, <2>3, Zenon DEF Sweep
<1>15. ASSUME NEW s \in Server, Exit(s) PROVE ClientLife(d)'
  <2>1. CASE s = d
    <3>1. op'[d] = "none" /\ target'[d] = NoJob /\ pc'[d] = "gone"
      BY <1>0, <1>15, <2>1 DEF Exit, Over, Goto
    <3>. QED
      BY <3>1 DEF ClientLife, Busy
  <2>2. CASE s # d
    BY <1>0, <1>q, <1>15, <2>2 DEF Exit, Over, Goto, Quiet
  <2>. QED
    BY <2>1, <2>2
<1>16. ASSUME NEW j \in Job, Conclude(j) \/ Reports(j) \/ NoteLate(j) \/ Ends(j) PROVE ClientLife(d)'
  BY <1>q, <1>16 DEF Conclude, Reports, NoteLate, Ends, local, Quiet
<1>17. ASSUME UNCHANGED vars \/ Configure PROVE ClientLife(d)'
  BY <1>q, <1>17 DEF vars, Configure, local, Quiet
<1>. QED
  BY <1>1, <1>2, <1>3, <1>4, <1>5, <1>6, <1>7, <1>8, <1>10, <1>11, <1>12, <1>13, <1>14, <1>15,
     <1>16, <1>17 DEF Next, Handle, Asked

\* What the steps of others leave of a server: no job is added for one that
\* shuts down, and what was stopped stays so.
LEMMA UntouchedServer ==
    ASSUME NEW s \in Server, ServerLife(s), ClientLife(s), Quiet(s), queue'[s] = queue[s],
           \A j \in Job : Onward(j),
           \A j \in Started' : j \notin Started /\ Closing(s) => job'[j].owner # s
    PROVE  ServerLife(s)'
<1>1. UNCHANGED <<pc[s], op[s], target[s]>>
  BY DEF Quiet
<1>2. \A j \in Started : j \in Started' /\ job'[j] = job[j] /\ (Stopped(j) => Stopped(j)')
  BY DEF Onward, Started
<1>3. (Closing(s) <=> Closing(s)')
  BY <1>1 DEF Closing
<1>4. op[s] = "shutdown" /\ target[s] # NoJob => target[s] \in Started
  BY DEF ClientLife
<1>5. ASSUME NEW j \in Started', Closing(s), job'[j].owner = s
      PROVE  j \in queue'[s] \/ Stopped(j)' \/ (pc'[s] = "grace" /\ target'[s] = j)
  <2>1. j \in Started
    BY <1>5
  <2>. QED
    BY <1>1, <1>2, <1>5, <2>1 DEF ServerLife
<1>6. op'[s] = "shutdown" /\ target'[s] # NoJob => job'[target'[s]].owner = s
  BY <1>1, <1>2, <1>4 DEF ServerLife
<1>7. pc'[s] = "gone" => queue'[s] = {}
  BY <1>1 DEF ServerLife
<1>. QED
  BY <1>3, <1>5, <1>6, <1>7 DEF ServerLife

\* A server that interrupts a job in its end: the job that leaves the grace
\* period is stopped.
LEMMA ClosingGoesOn ==
    ASSUME NEW s \in Server, ServerLife(s), ClientLife(s), \A j \in Job : Onward(j), Started' = Started,
           op'[s] = op[s], pc'[s] # "gone", pc[s] # "gone", queue'[s] = queue[s],
           target'[s] \in {target[s], NoJob},
           \A j \in Started : pc[s] = "grace" /\ target[s] = j => Stopped(j)'
    PROVE  ServerLife(s)'
<1>2. \A j \in Started : job'[j] = job[j] /\ (Stopped(j) => Stopped(j)')
  BY DEF Onward, Started
<1>3. (Closing(s)' => op[s] = "shutdown" /\ Closing(s))
  BY DEF Closing
<1>4. op[s] = "shutdown" /\ target[s] # NoJob => target[s] \in Started
  BY DEF ClientLife
<1>5. ASSUME NEW j \in Started', Closing(s)', job'[j].owner = s
      PROVE  j \in queue'[s] \/ Stopped(j)'
  BY <1>2, <1>3, <1>5 DEF ServerLife
<1>6. op'[s] = "shutdown" /\ target'[s] # NoJob => job'[target'[s]].owner = s
  BY <1>2, <1>4 DEF ServerLife
<1>. QED
  BY <1>5, <1>6 DEF ServerLife

\* What each step leaves of a server.
LEMMA ServersGoOn ==
    ASSUME LifeInv, [Next]_vars, NEW s \in Server
    PROVE  ServerLife(s)'
<1>. USE DEF Fields, Domains
<1>0. /\ IInv /\ Fields /\ Domains /\ s \in Client /\ NoClient \notin Client
      /\ \A i \in Job : JobLife(i) /\ Onward(i)
      /\ ClientLife(s) /\ ServerLife(s)
  BY JobsGoOn, ServiceAssumption DEF LifeInv, IInv
<1>o. ASSUME op'[s] # "shutdown", pc'[s] # "gone" PROVE ServerLife(s)'
  BY <1>o DEF ServerLife, Closing
<1>1. ASSUME NEW c \in Client, NEW k \in Job, Spawn(c, k) PROVE ServerLife(s)'
  <2>1. Quiet(s) /\ queue' = queue /\ pc[c] = "idle"
    BY <1>1 DEF Spawn, local, Quiet, At
  <2>2. /\ work' = [work EXCEPT ![k] = "running"]
        /\ job'[k].owner = c \/ job'[k].owner = NoClient
    BY <1>0, <1>1, SpawnWrites
  <2>3. \A j \in Started' : j \notin Started => j = k
    BY <1>0, <2>2 DEF Started
  <2>4. c = s => ~Closing(s)
    BY <1>0, <2>1 DEF Closing, ClientLife
  <2>. QED
    BY <1>0, <2>1, <2>2, <2>3, <2>4, UntouchedServer
<1>2. ASSUME NEW c \in Client, Resume(c) PROVE ServerLife(s)'
  <2>1. CASE c = s
    <3>1. op'[s] = "none" /\ pc'[s] = "idle"
      BY <1>0, <1>2, <2>1 DEF Resume, Leave, Over, Idle, Goto
    <3>. QED
      BY <1>o, <3>1
  <2>2. CASE c # s
    <3>1. Quiet(s) /\ queue' = queue
      BY <1>0, <1>2, <2>2 DEF Resume, Leave, Over, Goto, Quiet
    <3>2. \A j \in Started' : j \notin Started => job'[j].owner # s
      <4>1. CASE work' = work
        BY <4>1 DEF Started
      <4>2. ASSUME NEW k \in Job, NEW task \in Continued(job[target[c]].asked.task), NEW t \in scene.limit,
                   Admit(c, k, Resumption(target[c], task, t), t, target[c])
            PROVE  \A j \in Started' : j \notin Started => job'[j].owner # s
        <5>1. target[c] \in Started
          BY <1>2 DEF Resume, At, LifeInv, ClientLife, Busy
        <5>2. work' = [work EXCEPT ![k] = "running"] /\ job'[k].owner = NoClient
          BY <1>0, <4>2, <5>1, ResumeWrites
        <5>. QED
          BY <1>0, <5>2 DEF Started
      <4>. QED
        BY <1>2, <4>1, <4>2, ResumeStays
    <3>. QED
      BY <1>0, <3>1, <3>2, UntouchedServer
  <2>. QED
    BY <2>1, <2>2
<1>q. ASSUME Quiet(s), queue'[s] = queue[s], Started' = Started PROVE ServerLife(s)'
  BY <1>0, <1>q, UntouchedServer
<1>3. ASSUME ~SpawnStep, ~ResumeStep PROVE Started' = Started
  BY <1>0, <1>3, JobsStay
<1>4. ASSUME NEW c \in Client, Grace(c), Started' = Started PROVE ServerLife(s)'
  <2>1. CASE c = s
    <3>1. /\ pc[s] = "grace" /\ queue' = queue /\ op'[s] \in {op[s], "none"}
          /\ op[s] = "shutdown" => op'[s] = op[s]
          /\ pc'[s] \in {"mark", "idle", "sweep"} /\ target'[s] \in {target[s], NoJob}
      BY <1>0, <1>4, <2>1 DEF Grace, At, Goto, Leave, Over, Idle, local
    <3>2. ASSUME NEW j \in Started, target[s] = j PROVE Stopped(j)'
      <4>1. (~WorkerMatches(j) /\ work' = work) \/ work'[j] \in {"gone", "killed"}
        BY <1>0, <1>4, <2>1, <3>2 DEF Grace, Started
      <4>. QED
        BY <4>1 DEF Stopped, Alive, WorkerMatches
    <3>3. CASE op[s] = "shutdown"
      BY <1>0, <1>4, <3>1, <3>2, <3>3, ClosingGoesOn
    <3>. QED
      BY <1>o, <3>1, <3>3
  <2>2. CASE c # s
    BY <1>0, <1>q, <1>4, <2>2 DEF Grace, Leave, Over, Goto, Quiet, local
  <2>. QED
    BY <2>1, <2>2
<1>5. ASSUME NEW c \in Client, Mark(c) \/ Finish(c) \/ Record(c), Started' = Started PROVE ServerLife(s)'
  <2>1. CASE c = s
    <3>1. /\ pc[s] \in {"mark", "observe", "record"} /\ queue' = queue /\ op'[s] \in {op[s], "none"}
          /\ op[s] = "shutdown" => op'[s] = op[s]
          /\ pc'[s] # "gone" /\ target'[s] \in {target[s], NoJob}
      BY <1>0, <1>5, <2>1 DEF Mark, Finish, Record, Answer, At, Goto, Leave, Over, Idle, local
    <3>2. CASE op[s] = "shutdown"
      BY <1>0, <1>5, <3>1, <3>2, ClosingGoesOn
    <3>. QED
      BY <1>o, <3>1, <3>2
  <2>2. CASE c # s
    BY <1>0, <1>q, <1>5, <2>2 DEF Mark, Finish, Record, Answer, Leave, Over, Goto, Quiet, local
  <2>. QED
    BY <2>1, <2>2
<1>6. ASSUME NEW c \in Client, NEW j \in Job, NEW o \in {"wait", "resume"},
             Open(c, o, j) \/ Interrupt(c, j) \/ Feedback(c, j), Started' = Started
      PROVE  ServerLife(s)'
  <2>1. CASE c = s /\ ~Feedback(c, j)
    <3>1. op'[s] \in {"wait", "resume", "interrupt"} /\ pc'[s] \in {"answer", "observe", "grace"}
      BY <1>0, <1>6, <2>1 DEF Open, Interrupt, Signal, Take, Goto
    <3>. QED
      BY <1>o, <3>1
  <2>2. CASE c # s \/ Feedback(c, j)
    BY <1>0, <1>q, <1>6, <2>2 DEF Open, Interrupt, Signal, Feedback, Take, Goto, Quiet, local
  <2>. QED
    BY <2>1, <2>2
<1>7. ASSUME NEW c \in Client, Crash(c), Started' = Started PROVE ServerLife(s)'
  <2>1. CASE c = s
    <3>1. op'[s] = "none" /\ pc'[s] = "dead"
      BY <1>0, <1>7, <2>1 DEF Crash, Over, Goto
    <3>. QED
      BY <1>o, <3>1
  <2>2. CASE c # s
    BY <1>0, <1>q, <1>7, <2>2 DEF Crash, Over, Goto, Quiet
  <2>. QED
    BY <2>1, <2>2
<1>8. ASSUME NEW x \in Server, Start(x) \/ Shutdown(x) \/ Sweep(x) \/ Exit(x), x # s, Started' = Started
      PROVE  ServerLife(s)'
  <2>1. Quiet(s)
    BY <1>0, <1>8, ServiceAssumption
       DEF Start, Shutdown, Sweep, Exit, Signal, Take, Over, Goto, Quiet, local
  <2>2. queue'[s] = queue[s]
    BY <1>0, <1>8 DEF Start, Shutdown, Sweep, Exit
  <2>. QED
    BY <1>q, <1>8, <2>1, <2>2
<1>9. CASE Start(s)
  <2>1. op'[s] # "shutdown" /\ pc'[s] = "idle"
    BY <1>0, <1>9 DEF Start, At, Goto, local, ClientLife
  <2>. QED
    BY <1>o, <2>1
<1>10. CASE Shutdown(s)
  <2>1. /\ queue'[s] = {j \in Job : descr[j] # NoFile} /\ op'[s] = "shutdown" /\ pc'[s] = "sweep"
        /\ target'[s] = NoJob /\ UNCHANGED <<job, work, output, descr>>
    BY <1>0, <1>10 DEF Shutdown, At, Goto, ClientLife, Busy, world, jobFiles
  <2>2. \A j \in Started : j \in queue'[s] \/ Stopped(j)
    BY <1>0, <2>1 DEF JobLife, Started, Stopped
  <2>. QED
    BY <2>1, <2>2 DEF ServerLife, Started, Stopped, Alive, WorkerMatches
<1>11. CASE Sweep(s)
  <2>0. UNCHANGED <<job, work, output, descr>> /\ pc[s] = "sweep" /\ op[s] = "shutdown" /\ target[s] = NoJob
    BY <1>0, <1>11 DEF Sweep, At, world, jobFiles, ClientLife, Busy
  <2>1. PICK j \in queue[s] : /\ queue' = [queue EXCEPT ![s] = @ \ {j}]
                              /\ \/ Own(s, j) /\ Signal(s, "shutdown", j)
                                 \/ ~Own(s, j) /\ UNCHANGED <<pc, op, target, mem>>
    BY <1>11, Zenon DEF Sweep
  <2>2. j \in Job /\ JobLife(j) /\ queue'[s] = queue[s] \ {j}
    BY <1>0, <2>1
  <2>3. \A i \in Started : job[i].owner = s => i \in queue[s] \/ Stopped(i)
    BY <1>0, <2>0 DEF ServerLife, Closing
  <2>4. CASE Own(s, j) /\ Signal(s, "shutdown", j)
    <3>1. pc'[s] = "grace" /\ target'[s] = j /\ job[j].owner = s
      BY <1>0, <2>4 DEF Own, Signal, Take, Goto
    <3>. QED
      BY <2>0, <2>2, <2>3, <3>1 DEF ServerLife, Started, Stopped, Alive, WorkerMatches
  <2>5. CASE ~Own(s, j) /\ UNCHANGED <<pc, op, target, mem>>
    <3>1. j \in Started /\ job[j].owner = s => Stopped(j)
      BY <2>2, <2>5 DEF Own, JobLife, Stopped
    <3>. QED
      BY <2>0, <2>2, <2>3, <2>5, <3>1 DEF ServerLife, Started, Stopped, Alive, WorkerMatches
  <2>. QED
    BY <2>1, <2>4, <2>5
<1>12. CASE Exit(s)
  <2>1. /\ pc[s] = "sweep" /\ queue[s] = {} /\ queue' = queue /\ op[s] = "shutdown" /\ target'[s] = NoJob
        /\ UNCHANGED <<job, work, output>>
    BY <1>0, <1>12 DEF Exit, At, Over, world, jobFiles, ClientLife
  <2>2. \A i \in Started : job[i].owner = s => Stopped(i)
    BY <1>0, <2>1 DEF ServerLife, Closing
  <2>. QED
    BY <2>1, <2>2 DEF ServerLife, Started, Stopped, Alive, WorkerMatches
<1>13. ASSUME NEW j \in Job, Conclude(j) \/ Reports(j) \/ NoteLate(j) \/ Ends(j), Started' = Started PROVE ServerLife(s)'
  BY <1>q, <1>13 DEF Conclude, Reports, NoteLate, Ends, local, Quiet
<1>14. ASSUME UNCHANGED vars \/ Configure, Started' = Started PROVE ServerLife(s)'
  BY <1>q, <1>14 DEF vars, Configure, local, Quiet
<1>15. CASE SpawnStep
  BY <1>1, <1>15 DEF SpawnStep
<1>16. CASE ResumeStep
  BY <1>2, <1>16 DEF ResumeStep
<1>17. CASE ~SpawnStep /\ ~ResumeStep
  BY <1>3, <1>4, <1>5, <1>6, <1>7, <1>8, <1>9, <1>10, <1>11, <1>12, <1>13, <1>14, <1>17, Steps
<1>. QED
  BY <1>15, <1>16, <1>17

\* The fields stay what they are.
LEMMA FieldsStay ==
    ASSUME LifeInv, [Next]_vars
    PROVE  Fields'
<1>. USE DEF Fields
<1>0. Fields /\ scene' = scene /\ scene.edits \in Nat /\ scene.faults \in Nat
  BY ConfiguredStays, ServiceAssumption DEF LifeInv, IInv, Configured
<1>r. ASSUME NEW c \in Client, NEW x, NEW y,
             \/ report' = [report EXCEPT ![c].status = x]
             \/ report' = [report EXCEPT ![c].state = y]
             \/ report' = [report EXCEPT ![c] = NoReport]
             \/ report' = report
      PROVE  /\ DOMAIN report' = Client
             /\ \A d \in Client : report'[d] = [status |-> report'[d].status, state |-> report'[d].state]
  BY <1>0, <1>r DEF NoReport
<1>1. ASSUME NEW c \in Client, Grace(c) \/ Mark(c) \/ Finish(c) \/ Record(c) \/ Crash(c) PROVE Fields'
  <2>1. CASE Grace(c)
    BY <1>0, <1>r, <2>1 DEF Grace, Leave, Over, Goto, local, jobFiles
  <2>2. CASE Mark(c)
    BY <1>0, <1>r, <2>2 DEF Mark, Leave, Over, Goto
  <2>3. CASE Finish(c)
    BY <1>0, <1>r, <2>3 DEF Finish, Goto
  <2>4. CASE Record(c)
    <3>1. /\ faults' \in {faults, faults + 1} /\ UNCHANGED <<status, output, edits, scene>>
          /\ DOMAIN log' = Job /\ DOMAIN op' = Client /\ DOMAIN mem' = Client
          /\ report' = report \/ report' = [report EXCEPT ![c] = NoReport]
      BY <1>0, <2>4 DEF Record, Answer, Leave, Over, Goto, local
    <3>2. /\ DOMAIN report' = Client
          /\ \A d \in Client : report'[d] = [status |-> report'[d].status, state |-> report'[d].state]
      BY <1>r, <3>1
    <3>. QED
      BY <1>0, <3>1, <3>2
  <2>5. CASE Crash(c)
    <3>1. /\ faults' = faults + 1 /\ UNCHANGED <<status, output, log, edits, scene>>
          /\ DOMAIN op' = Client /\ DOMAIN mem' = Client
          /\ report' = [report EXCEPT ![c] = NoReport]
      BY <1>0, <2>5 DEF Crash, Over, world, jobFiles
    <3>2. /\ DOMAIN report' = Client
          /\ \A d \in Client : report'[d] = [status |-> report'[d].status, state |-> report'[d].state]
      BY <1>r, <3>1
    <3>. QED
      BY <1>0, <3>1, <3>2
  <2>. QED
    BY <1>1, <2>1, <2>2, <2>3, <2>4, <2>5
<1>2. ASSUME NEW c \in Client, NEW j \in Job, NEW o \in {"wait", "resume"},
             Interrupt(c, j) \/ Feedback(c, j) \/ Open(c, o, j)
      PROVE  Fields'
  BY <1>0, <1>r, <1>2 DEF Interrupt, Feedback, Open, Signal, Take, Goto, local, world, jobFiles
<1>3. ASSUME NEW s \in Server, Start(s) \/ Shutdown(s) \/ Sweep(s) \/ Exit(s) PROVE Fields'
  <2>. s \in Client
    BY ServiceAssumption
  <2>1. CASE Start(s)
    BY <1>0, <2>1 DEF Start, Goto, local, world, jobFiles
  <2>2. CASE Shutdown(s)
    BY <1>0, <2>2 DEF Shutdown, Goto, world, jobFiles
  <2>3. CASE Sweep(s)
    BY <1>0, <2>3 DEF Sweep, Signal, Take, Goto, world, jobFiles
  <2>4. CASE Exit(s)
    BY <1>0, <1>r, <2>4 DEF Exit, Over, Goto, world, jobFiles
  <2>. QED
    BY <1>3, <2>1, <2>2, <2>3, <2>4
<1>4. ASSUME NEW j \in Job, Conclude(j) \/ Reports(j) \/ NoteLate(j) \/ Ends(j) PROVE Fields'
  BY <1>0, <1>4 DEF Conclude, Reports, NoteLate, Ends, local, jobFiles
<1>5. CASE Configure
  BY <1>0, <1>5 DEF Configure, local, jobFiles
<1>6. CASE UNCHANGED vars
  BY <1>0, <1>6 DEF vars, local, world, jobFiles
<1>7. ASSUME NEW c \in Client, NEW k \in Job, Spawn(c, k) PROVE Fields'
  BY <1>0, <1>7 DEF Spawn, local
<1>8. ASSUME NEW c \in Client, Resume(c) PROVE Fields'
  BY <1>0, <1>r, <1>8 DEF Resume, Leave, Over, Goto
<1>. QED
  BY <1>1, <1>2, <1>3, <1>4, <1>5, <1>6, <1>7, <1>8, Steps DEF SpawnStep, ResumeStep

\* The invariant holds, to begin with and after every step.
LEMMA InitLifeInv == Init => LifeInv
<1>. SUFFICES ASSUME Init PROVE LifeInv
  OBVIOUS
<1>1. IInv /\ Started = {}
  BY InitIInv DEF Init, Started
<1>2. Fields
  BY ServiceAssumption DEF Init, Fields, NoReport
<1>3. ASSUME NEW j \in Job PROVE JobLife(j)
  BY <1>1, <1>3 DEF Init, JobLife, Alive, WorkerMatches
<1>4. ASSUME NEW c \in Client PROVE ClientLife(c)
  BY <1>4 DEF Init, ClientLife, Busy
<1>5. ASSUME NEW s \in Server PROVE ServerLife(s)
  <2>1. op[s] = "none" /\ pc[s] = "off"
    BY <1>5, ServiceAssumption DEF Init
  <2>. QED
    BY <2>1 DEF ServerLife, Closing
<1>. QED
  BY <1>1, <1>2, <1>3, <1>4, <1>5 DEF LifeInv

LEMMA NextLifeInv == LifeInv /\ [Next]_vars => LifeInv'
<1>. SUFFICES ASSUME LifeInv, [Next]_vars PROVE LifeInv'
  OBVIOUS
<1>1. IInv'
  BY NextIInv DEF LifeInv
<1>2. (\A j \in Job : JobLife(j))' /\ (\A c \in Client : ClientLife(c))' /\ (\A s \in Server : ServerLife(s))'
  BY JobsGoOn, ClientsGoOn, ServersGoOn
<1>. QED
  BY <1>1, <1>2, FieldsStay DEF LifeInv

\* Only what was started has files, and a handler that has read a report has a
\* status and, before it records them, a last word (finish).
THEOREM TypeCorrect == Spec => []TypeOK
<1>1. LifeInv => TypeOK
  <2>. SUFFICES ASSUME LifeInv PROVE TypeOK
    OBVIOUS
  <2>1. config \in scene.configs /\ edits <= scene.edits
    BY DEF LifeInv, IInv, Configured, Fields
  <2>2. ASSUME NEW j \in Job
        PROVE  /\ j \notin Started => job[j] = NoJob /\ descr[j] = NoFile /\ log[j] = {}
               /\ descr[j] \in [done : BOOLEAN, by : Job \cup {NoJob}] \cup {NoFile}
               /\ output[j] \in Statuses \cup {"none"} /\ log[j] \subseteq {"outcome", "corrected"}
    BY <2>2 DEF LifeInv, JobLife, Descriptors
  <2>3. ASSUME NEW c \in Client
        PROVE  /\ pc[c] \in {"observe", "record", "answer"} => target[c] \in Started /\ report[c].status \in Statuses
               /\ pc[c] = "record" => report[c].state \in Terminal
    BY <2>3 DEF LifeInv, ClientLife, Busy
  <2>. QED
    BY <2>1, <2>2, <2>3 DEF TypeOK, At
<1>. QED
  BY InitLifeInv, NextLifeInv, <1>1, PTL DEF Spec

\* A server that has ended in order has left none of its own workers at work,
\* whatever other clients and the workers themselves did meanwhile, and it
\* signals none but its own (InterruptOwned).
THEOREM ShutdownStopsOwnJobs == Spec => []ShutdownStopsOwn
<1>1. LifeInv => ShutdownStopsOwn
  <2>. SUFFICES ASSUME LifeInv, NEW s \in Server
                PROVE  /\ \A j \in Started : At(s, "gone") /\ job[j].owner = s => ~Alive(j) \/ work[j] = "killed"
                       /\ op[s] = "shutdown" /\ target[s] # NoJob => job[target[s]].owner = s
    BY DEF ShutdownStopsOwn
  <2>. QED
    BY DEF LifeInv, ServerLife, Closing, Stopped, At
<1>. QED
  BY InitLifeInv, NextLifeInv, <1>1, PTL DEF Spec

\* A report with a worker's own outcome is never recorded with the observation
\* of another end, however many clients finish the job and whoever ends the
\* worker between its two writes (Job.finish).
THEOREM ObservationsAgree == Spec => []ObservationAgrees
<1>1. LifeInv => ObservationAgrees
  BY DEF LifeInv, ClientLife, ObservationAgrees, At
<1>. QED
  BY InitLifeInv, NextLifeInv, <1>1, PTL DEF Spec

-----------------------------------------------------------------------------
(* Outcomes that are never recorded: one for each fault, at most.          *)

\* A job that was settled and that no handler leaves unrecorded was lost before.
LEMMA WasLost ==
    ASSUME NEW j \in Lost', j \in Started, Settled(j), log[j] \subseteq log'[j],
           \A c \in Client : pc[c] = "record" /\ target[c] = j => pc'[c] = "record" /\ target'[c] = j
    PROVE  j \in Lost
BY DEF Lost, Settled, At

\* A crash loses one outcome at most: the one its handler was to record.
LEMMA CrashLoses ==
    ASSUME LifeInv, NEW c \in Client, Crash(c), NEW j \in Lost'
    PROVE  j \in Lost \cup {target[c]}
<1>1. /\ UNCHANGED <<work, descr, log>>
      /\ \A d \in Client : d # c => pc'[d] = pc[d] /\ target'[d] = target[d]
  BY DEF Crash, Over, Goto, world, jobFiles, LifeInv, IInv, Domains
<1>2. j \in Started /\ Settled(j)
  BY <1>1 DEF Lost, Started, Settled
<1>. QED
  BY <1>1, <1>2, WasLost

\* An append that fails.
RecordFails(c) == Record(c) /\ log' = log /\ faults' = faults + 1

\* It loses one at most, too: the outcome that was to be recorded.
LEMMA FailureLoses ==
    ASSUME LifeInv, NEW c \in Client, RecordFails(c), NEW j \in Lost'
    PROVE  j \in Lost \cup {target[c]}
<1>1. /\ UNCHANGED <<work, descr, log>>
      /\ \A d \in Client : d # c => pc'[d] = pc[d] /\ target'[d] = target[d]
  BY DEF RecordFails, Record, Answer, Leave, Over, Goto, local, LifeInv, IInv, Domains
<1>2. j \in Started /\ Settled(j)
  BY <1>1 DEF Lost, Started, Settled
<1>. QED
  BY <1>1, <1>2, WasLost

Fault(c) == Crash(c) \/ RecordFails(c)

\* A new descriptor is a file of a job that is to be finished.
LEMMA FreshIsOpen == ASSUME NEW k, descr'[k] = Fresh PROVE ~Settled(k)'
<1>1. Fresh \in [done : BOOLEAN, by : Job \cup {NoJob}] /\ ~Fresh.done
  BY DEF Fresh
<1>. QED
  BY <1>1, ServiceAssumption DEF Settled

\* The other steps lose none.
LEMMA OnlyFaultsLose ==
    ASSUME LifeInv, [Next]_vars, NEW j \in Lost', \A c \in Client : ~Fault(c)
    PROVE  j \in Lost
<1>. USE DEF Fields, Domains
<1>0. /\ IInv /\ Fields /\ Domains /\ j \in Job /\ JobLife(j) /\ Started' \subseteq Job
      /\ \A c \in Client : ClientLife(c)
      /\ j \in Started' /\ Settled(j)' /\ "outcome" \notin log'[j]
      /\ \A c \in Client : pc'[c] = "record" => target'[c] # j
  BY DEF LifeInv, IInv, Lost, Started, Settled, At
<1>k. ASSUME j \in Started, Settled(j), log[j] \subseteq log'[j],
             \A c \in Client : pc[c] = "record" /\ target[c] = j => pc'[c] = "record" /\ target'[c] = j
      PROVE  j \in Lost
  BY <1>k, WasLost
<1>1. ASSUME NEW c \in Client, NEW k \in Job, Spawn(c, k) PROVE j \in Lost
  <2>1. UNCHANGED <<pc, target, log>> /\ descr' = [descr EXCEPT ![k] = Fresh]
    BY <1>1 DEF Spawn, local
  <2>2. j # k
    BY <1>0, <2>1, FreshIsOpen
  <2>3. work' = [work EXCEPT ![k] = "running"]
    BY <1>0, <1>1, SpawnWrites
  <2>. QED
    BY <1>0, <1>k, <2>1, <2>2, <2>3 DEF Settled, Started
<1>2. ASSUME NEW c \in Client, Resume(c) PROVE j \in Lost
  <2>1. /\ log' = log /\ \A d \in Client : pc[d] = "record" => pc'[d] = "record" /\ target'[d] = target[d]
    BY <1>0, <1>2 DEF Resume, Leave, Over, Goto, At
  <2>2. target[c] \in Started /\ target[c] \in Job /\ Settled(target[c])
    BY <1>0, <1>2 DEF Resume, At, ClientLife, Busy, Started
  <2>3. CASE job' = job /\ work' = work /\ descr' = descr
    BY <1>0, <1>k, <2>1, <2>3 DEF Settled, Started
  <2>4. ASSUME NEW k \in Job, NEW task \in Continued(job[target[c]].asked.task), NEW t \in scene.limit,
               Admit(c, k, Resumption(target[c], task, t), t, target[c]),
               descr' = [descr EXCEPT ![k] = Fresh, ![target[c]] = [done |-> TRUE, by |-> k]]
        PROVE  j \in Lost
    <3>1. work[k] = "none" /\ work' = [work EXCEPT ![k] = "running"]
      BY <1>0, <2>2, <2>4, ResumeWrites
    <3>2. k # target[c]
      BY <2>2, <3>1 DEF Started
    <3>3. j # k
      BY <1>0, <2>4, <3>2, FreshIsOpen
    <3>4. j \in Started
      BY <1>0, <3>1, <3>3 DEF Started
    <3>5. Settled(j)
      BY <1>0, <2>2, <2>4, <3>3 DEF Settled
    <3>. QED
      BY <1>k, <2>1, <3>4, <3>5
  <2>. QED
    BY <1>2, <2>3, <2>4, ResumeStays
<1>3. ASSUME NEW c \in Client, Grace(c), Started' = Started PROVE j \in Lost
  <2>1. /\ UNCHANGED <<descr, log>>
        /\ \A d \in Client : pc[d] = "record" => pc'[d] = "record" /\ target'[d] = target[d]
    BY <1>0, <1>3 DEF Grace, Leave, Over, Goto, At, local, jobFiles
  <2>. QED
    BY <1>0, <1>3, <1>k, <2>1 DEF Settled
<1>4. ASSUME NEW c \in Client, Mark(c), Started' = Started PROVE j \in Lost
  <2>1. /\ UNCHANGED <<descr, log>>
        /\ \A d \in Client : pc[d] = "record" => pc'[d] = "record" /\ target'[d] = target[d]
    BY <1>0, <1>4 DEF Mark, Leave, Over, Goto, At
  <2>. QED
    BY <1>0, <1>4, <1>k, <2>1 DEF Settled
<1>5. ASSUME NEW c \in Client, Finish(c), Started' = Started PROVE j \in Lost
  <2>1. /\ log' = log /\ target' = target /\ pc' = [pc EXCEPT ![c] = "record"]
        /\ \A i \in Job : i # target[c] => descr'[i] = descr[i]
    BY <1>0, <1>5 DEF Finish, Goto
  <2>2. j # target[c]
    BY <1>0, <2>1
  <2>. QED
    BY <1>0, <1>5, <1>k, <2>1, <2>2 DEF Settled
<1>6. ASSUME NEW c \in Client, Record(c), Started' = Started PROVE j \in Lost
  <2>1. /\ descr' = descr /\ log' = [log EXCEPT ![target[c]] = @ \cup {"outcome"}]
        /\ \A d \in Client : d # c /\ pc[d] = "record" => pc'[d] = "record" /\ target'[d] = target[d]
    BY <1>0, <1>6 DEF Record, Fault, RecordFails, Answer, Leave, Over, Goto, local
  <2>2. j # target[c]
    BY <1>0, <2>1
  <2>. QED
    BY <1>0, <1>6, <1>k, <2>1, <2>2 DEF Settled
<1>7. ASSUME NEW c \in Client, NEW i \in Job, NEW o \in {"wait", "resume"},
             Open(c, o, i) \/ Interrupt(c, i) \/ Feedback(c, i), Started' = Started
      PROVE  j \in Lost
  <2>1. /\ descr' = descr /\ log[j] \subseteq log'[j]
        /\ \A d \in Client : pc[d] = "record" => pc'[d] = "record" /\ target'[d] = target[d]
    BY <1>0, <1>7 DEF Open, Interrupt, Feedback, Signal, Take, Goto, At, local, world, jobFiles
  <2>. QED
    BY <1>0, <1>7, <1>k, <2>1 DEF Settled
<1>9. ASSUME NEW s \in Server, Start(s) \/ Shutdown(s) \/ Sweep(s) \/ Exit(s), Started' = Started
      PROVE  j \in Lost
  <2>1. UNCHANGED <<descr, log>>
    BY <1>9 DEF Start, Shutdown, Sweep, Exit, world, jobFiles
  <2>2. \A d \in Client : pc[d] = "record" => pc'[d] = "record" /\ target'[d] = target[d]
    BY <1>0, <1>9 DEF Start, Shutdown, Sweep, Exit, Signal, Take, Over, Goto, At, local
  <2>. QED
    BY <1>0, <1>9, <1>k, <2>1, <2>2 DEF Settled
<1>10. ASSUME NEW i \in Job, Conclude(i) \/ Reports(i) \/ NoteLate(i) \/ Ends(i), Started' = Started PROVE j \in Lost
  BY <1>0, <1>k, <1>10 DEF Conclude, Reports, NoteLate, Ends, local, jobFiles, Settled
<1>11. ASSUME UNCHANGED vars \/ Configure, Started' = Started PROVE j \in Lost
  BY <1>0, <1>k, <1>11 DEF vars, Configure, local, world, jobFiles, Settled
<1>12. CASE SpawnStep
  BY <1>1, <1>12 DEF SpawnStep
<1>13. CASE ResumeStep
  BY <1>2, <1>13 DEF ResumeStep
<1>14. CASE ~SpawnStep /\ ~ResumeStep
  <2>1. Started' = Started
    BY <1>0, <1>14, JobsStay
  <2>. QED
    BY <1>3, <1>4, <1>5, <1>6, <1>7, <1>9, <1>10, <1>11, <1>14, <2>1, Steps DEF Fault
<1>. QED
  BY <1>12, <1>13, <1>14

\* Faults are counted.
LEMMA FaultsCounted ==
    ASSUME [Next]_vars
    PROVE  faults' = faults \/ \E c \in Client : Fault(c)
<1>1. ASSUME NEW c \in Client, NEW j \in Job, Spawn(c, j) \/ Interrupt(c, j) \/ Feedback(c, j)
      PROVE  faults' = faults
  BY <1>1 DEF Spawn, Interrupt, Feedback
<1>2. ASSUME NEW c \in Client, Grace(c) \/ Mark(c) \/ Finish(c) \/ Record(c) \/ Resume(c)
      PROVE  faults' = faults \/ RecordFails(c)
  BY <1>2 DEF Grace, Mark, Finish, Record, Resume, RecordFails
<1>3. ASSUME NEW c \in Client, NEW j \in Job, NEW o \in {"wait", "resume"}, Open(c, o, j)
      PROVE  faults' = faults
  BY <1>3 DEF Open
<1>4. ASSUME NEW s \in Server, Start(s) \/ Shutdown(s) \/ Sweep(s) \/ Exit(s)
      PROVE  faults' = faults
  BY <1>4 DEF Start, Shutdown, Sweep, Exit
<1>5. ASSUME NEW j \in Job, Conclude(j) \/ Reports(j) \/ NoteLate(j) \/ Ends(j)
      PROVE  faults' = faults
  BY <1>5 DEF Conclude, Reports, NoteLate, Ends
<1>6. CASE UNCHANGED vars \/ Configure
  BY <1>6 DEF vars, Configure
<1>. QED
  BY <1>1, <1>2, <1>3, <1>4, <1>5, <1>6, Steps DEF SpawnStep, ResumeStep, Fault

\* No more outcomes are missing than clients were killed or appends failed.
LostInv == IsFiniteSet(Lost) /\ Cardinality(Lost) <= faults

LEMMA LostStep == LifeInv /\ LostInv /\ [Next]_vars => LostInv'
<1>. SUFFICES ASSUME LifeInv, LostInv, [Next]_vars PROVE LostInv'
  OBVIOUS
<1>0. faults \in Nat /\ IsFiniteSet(Lost) /\ Cardinality(Lost) \in Nat /\ Cardinality(Lost) <= faults
  BY FS_CardinalityType DEF LifeInv, Fields, LostInv
<1>1. ASSUME NEW c \in Client, Fault(c) PROVE LostInv'
  <2>1. Lost' \subseteq Lost \cup {target[c]}
    BY <1>1, CrashLoses, FailureLoses DEF Fault
  <2>2. /\ IsFiniteSet(Lost \cup {target[c]})
        /\ Cardinality(Lost \cup {target[c]}) <= Cardinality(Lost) + 1
        /\ Cardinality(Lost \cup {target[c]}) \in Nat
    BY <1>0, FS_AddElement, FS_CardinalityType
  <2>3. /\ IsFiniteSet(Lost') /\ Cardinality(Lost') <= Cardinality(Lost \cup {target[c]})
        /\ Cardinality(Lost') \in Nat
    BY <2>1, <2>2, FS_Subset, FS_CardinalityType
  <2>4. faults' = faults + 1
    BY <1>1 DEF Fault, Crash, RecordFails
  <2>. QED
    BY <1>0, <2>2, <2>3, <2>4 DEF LostInv
<1>2. ASSUME \A c \in Client : ~Fault(c) PROVE LostInv'
  <2>1. Lost' \subseteq Lost /\ faults' = faults
    BY <1>2, OnlyFaultsLose, FaultsCounted
  <2>2. IsFiniteSet(Lost') /\ Cardinality(Lost') <= Cardinality(Lost) /\ Cardinality(Lost') \in Nat
    BY <1>0, <2>1, FS_Subset, FS_CardinalityType
  <2>. QED
    BY <1>0, <2>1, <2>2 DEF LostInv
<1>. QED
  BY <1>1, <1>2

\* Events are about jobs that are over, and all outcomes of finished jobs are
\* in the log but for one of each fault (finish, AppendFeedback, RecordLaya).
THEOREM OutcomesRecorded == Spec => []OutcomeRecorded
<1>1. Init => LostInv
  <2>. SUFFICES ASSUME Init PROVE LostInv
    OBVIOUS
  <2>1. Lost = {} /\ faults = 0
    BY DEF Init, Lost, Started
  <2>. QED
    BY <2>1, FS_EmptySet DEF LostInv
<1>2. LifeInv /\ LostInv => OutcomeRecorded
  <2>. SUFFICES ASSUME LifeInv, LostInv PROVE OutcomeRecorded
    OBVIOUS
  <2>1. ASSUME NEW j \in Started, log[j] # {} PROVE ~Alive(j)
    BY <2>1 DEF LifeInv, JobLife, Started
  <2>. QED
    BY <2>1 DEF OutcomeRecorded, LostInv
<1>. QED
  BY InitLifeInv, NextLifeInv, <1>1, LostStep, <1>2, PTL DEF Spec

-----------------------------------------------------------------------------
(* The review of a first attempt is that of every later one.  FirstAttempt *)
(* is a recursive function, about which nothing can be proved by           *)
(* induction; a function that satisfies its equation is carried along the  *)
(* steps instead, and what all such functions have in common.              *)

\* The equation of FirstAttempt.
Firsts(f) == f = [j \in Started |-> IF job[j].parent = NoJob THEN j ELSE f[job[j].parent]]

\* f leads to an attempt of the same review.
SameReview(f) == \A j \in Started : f[j] \in Started /\ job[f[j]].asked.reviewed = job[j].asked.reviewed

ReviewInv == (\E f : Firsts(f)) /\ \A f : Firsts(f) => SameReview(f)

\* A new attempt k of p, or a first one, extends such a function.
LEMMA ReviewExtends ==
    ASSUME IInv, ReviewInv, NEW k \in Job \ Started, NEW p, Started' = Started \cup {k},
           \A i \in Started : job'[i] = job[i],
           job'[k].parent = p,
           p # NoJob => p \in Started /\ job'[k].asked.reviewed = job[p].asked.reviewed
    PROVE  ReviewInv'
<1>1. \A i \in Started : job[i].parent # NoJob => job[i].parent \in Started
  BY DEF IInv, Planned
<1>2. ASSUME NEW f, Firsts(f) PROVE \E g : Firsts(g)'
  <2>. DEFINE g == [j \in Started \cup {k} |-> IF j = k THEN IF p = NoJob THEN k ELSE f[p] ELSE f[j]]
  <2>1. DOMAIN f = Started /\ \A j \in Started : f[j] = IF job[j].parent = NoJob THEN j ELSE f[job[j].parent]
    BY <1>2 DEF Firsts
  <2>2. ASSUME NEW j \in Started \cup {k} PROVE g[j] = IF job'[j].parent = NoJob THEN j ELSE g[job'[j].parent]
    <3>1. CASE j = k
      BY <3>1
    <3>2. CASE j # k
      BY <1>1, <2>1, <2>2, <3>2
    <3>. QED
      BY <3>1, <3>2
  <2>3. g = [j \in Started \cup {k} |-> g[j]]
    OBVIOUS
  <2>. HIDE DEF g
  <2>4. g = [j \in Started \cup {k} |-> IF job'[j].parent = NoJob THEN j ELSE g[job'[j].parent]]
    BY <2>2, <2>3
  <2>. QED
    BY <2>4 DEF Firsts
<1>3. ASSUME NEW g, Firsts(g)' PROVE SameReview(g)'
  <2>. DEFINE f == [j \in Started |-> g[j]]
  <2>1. \A j \in Started \cup {k} : g[j] = IF job'[j].parent = NoJob THEN j ELSE g[job'[j].parent]
    BY <1>3 DEF Firsts
  <2>2. ASSUME NEW j \in Started PROVE f[j] = IF job[j].parent = NoJob THEN j ELSE f[job[j].parent]
    BY <1>1, <2>1, <2>2
  <2>3. f = [j \in Started |-> f[j]] /\ \A j \in Started : f[j] = g[j]
    OBVIOUS
  <2>. HIDE DEF f
  <2>4. f = [j \in Started |-> IF job[j].parent = NoJob THEN j ELSE f[job[j].parent]]
    BY <2>2, <2>3
  <2>5. SameReview(f)
    BY <2>4 DEF Firsts, ReviewInv
  <2>6. ASSUME NEW j \in Started
        PROVE  g[j] \in Started' /\ job'[g[j]].asked.reviewed = job'[j].asked.reviewed
    BY <2>3, <2>5, <2>6 DEF SameReview
  <2>7. g[k] \in Started' /\ job'[g[k]].asked.reviewed = job'[k].asked.reviewed
    <3>1. CASE p = NoJob
      BY <2>1, <3>1
    <3>2. CASE p # NoJob
      BY <2>1, <2>6, <3>2
    <3>. QED
      BY <3>1, <3>2
  <2>. QED
    BY <2>6, <2>7 DEF SameReview
<1>. QED
  BY <1>2, <1>3 DEF ReviewInv

LEMMA ReviewStep == LifeInv /\ ReviewInv /\ [Next]_vars => ReviewInv'
<1>. SUFFICES ASSUME LifeInv, ReviewInv, [Next]_vars PROVE ReviewInv'
  OBVIOUS
<1>0. IInv /\ Domains
  BY DEF LifeInv, IInv
<1>s. ASSUME job' = job, Started' = Started PROVE ReviewInv'
  BY <1>s DEF ReviewInv, Firsts, SameReview
<1>1. ASSUME NEW c \in Client, NEW k \in Job, Spawn(c, k) PROVE ReviewInv'
  <2>1. /\ work[k] = "none" /\ work' = [work EXCEPT ![k] = "running"]
        /\ \A i \in Job : i # k => job'[i] = job[i]
        /\ job'[k].parent = NoJob
    BY <1>0, <1>1, SpawnWrites
  <2>2. k \in Job \ Started /\ Started' = Started \cup {k} /\ \A i \in Started : job'[i] = job[i]
    BY <1>0, <2>1 DEF Started, Domains
  <2>. QED
    BY <1>0, <2>1, <2>2, ReviewExtends
<1>2. ASSUME NEW c \in Client, Resume(c) PROVE ReviewInv'
  <2>1. PICK j : j = target[c]
    OBVIOUS
  <2>2. j \in Started /\ j # NoJob
    BY <1>0, <1>2, <2>1, ServiceAssumption DEF Resume, At, IInv, Traced, Busy, Started
  <2>3. ASSUME NEW k \in Job, NEW task \in Continued(job[j].asked.task), NEW t \in scene.limit,
               Admit(c, k, Resumption(j, task, t), t, j)
        PROVE  ReviewInv'
    <3>1. /\ work[k] = "none" /\ work' = [work EXCEPT ![k] = "running"]
          /\ \A i \in Job : i # k => job'[i] = job[i]
          /\ job'[k].parent = j /\ job'[k].asked.reviewed = job[j].asked.reviewed
      <4>1. IInv /\ j \in Started /\ k \in Job /\ t \in scene.limit /\ Admit(c, k, Resumption(j, task, t), t, j)
        BY <1>0, <2>2, <2>3
      <4>. QED
        BY <4>1, ResumeWrites
    <3>2. k \in Job \ Started /\ Started' = Started \cup {k} /\ \A i \in Started : job'[i] = job[i]
      BY <1>0, <3>1 DEF Started, Domains
    <3>. QED
      BY <1>0, <2>2, <3>1, <3>2, ReviewExtends
  <2>4. CASE job' = job /\ work' = work /\ descr' = descr
    BY <1>s, <2>4 DEF Started
  <2>. QED
    BY <1>2, <2>1, <2>3, <2>4, ResumeStays
<1>3. CASE ~SpawnStep /\ ~ResumeStep
  BY <1>0, <1>3, <1>s, JobsStay
<1>. QED
  BY <1>1, <1>2, <1>3 DEF SpawnStep, ResumeStep

\* In active mode no worker runs unless the caller of its first attempt has
\* reviewed the task, or the upstream engine was sure of what it decided; and
\* a review is never gained or lost in a resumption (Spawn, Resume).
THEOREM WorkersReviewedOrSafe == Spec => []ReviewedOrSafe
<1>1. Init => ReviewInv
  <2>. SUFFICES ASSUME Init PROVE ReviewInv
    OBVIOUS
  <2>1. Started = {}
    BY DEF Init, Started
  <2>2. Firsts([j \in {} |-> j])
    BY <2>1 DEF Firsts
  <2>. QED
    BY <2>1, <2>2 DEF ReviewInv, SameReview
<1>2. LifeInv /\ ReviewInv => ReviewedOrSafe
  <2>. SUFFICES ASSUME LifeInv, ReviewInv PROVE ReviewedOrSafe
    OBVIOUS
  <2>. DEFINE E(f) == [j \in Started |-> IF job[j].parent = NoJob THEN j ELSE f[job[j].parent]]
  <2>1. \E f : f = E(f)
    BY DEF ReviewInv, Firsts
  <2>2. FirstAttempt = CHOOSE f : f = E(f)
    BY DEF FirstAttempt
  <2>. HIDE DEF E
  <2>3. FirstAttempt = E(FirstAttempt)
    BY <2>1, <2>2
  <2>4. Firsts(FirstAttempt)
    BY <2>3 DEF E, Firsts
  <2>5. ReviewKept
    BY <2>4 DEF ReviewInv, SameReview, ReviewKept
  <2>. QED
    BY <2>5 DEF ReviewedOrSafe, LifeInv, IInv
<1>. QED
  BY InitLifeInv, NextLifeInv, <1>1, ReviewStep, <1>2, PTL DEF Spec

=============================================================================
