---------------------------- MODULE MCScheduler ----------------------------
(* Small instances of Scheduler for TLC. *)
EXTENDS Scheduler, TLC

CONSTANTS p1, p2, j1, j2, j3, s1, s2, s3

TwoBackends == {"agy", "qwen"}
TwoOrder == <<"agy", "qwen">>
FourBackends == {"agy", "qwen", "claude", "codex"}
FourOrder == <<"agy", "qwen", "claude", "codex">>
OneSession == {s1}
TwoSessions == {s1, s2}
ThreeSessions == {s1, s2, s3}

\* agy alone could fill the machine; qwen keeps the default of one.
TwoConcurrency == [b \in TwoBackends |-> IF b = "agy" THEN 2 ELSE 0]
OneEach == [b \in Backend |-> 1]

AutoIn(s) == [backend |-> "auto", requested |-> "auto", session |-> s, preferred |-> <<>>]
Pinned(b, s) == [backend |-> b, requested |-> b, session |-> s, preferred |-> <<>>]

\* Resume passes the backend of the previous attempt and what was requested
\* for it: for an automatically routed job these differ.
ResumeOfAuto(b, s) == [backend |-> b, requested |-> "auto", session |-> s, preferred |-> <<>>]

LimitRequests == {AutoIn(s1), Pinned("qwen", s3),
                  [AutoIn(s2) EXCEPT !.preferred = <<"qwen">>]}
RotationRequests == {AutoIn(s1), Pinned("claude", s1),
                     [AutoIn(s1) EXCEPT !.preferred = <<"claude">>]}
AutoRequests == {AutoIn(s1)}
ResumeRequests == {AutoIn(s1), Pinned("agy", s2), ResumeOfAuto("agy", s1)}

TwoReady == {TwoBackends}
FourReady == {FourBackends}
SomeReady == {FourBackends, FourBackends \ {"agy"}, {"agy", "qwen"}, {}}
Healthy == {TRUE}
AnyHealth == BOOLEAN

Symmetry == Permutations(Proc) \cup Permutations(Job)
=============================================================================
