----------------------------- MODULE MCService -----------------------------
(***************************************************************************)
(* A small instance of Service: a server, the server that is started after *)
(* it or beside it, and the command line, on two jobs.                     *)
(***************************************************************************)
EXTENDS Service, TLC

CONSTANTS s1, s2, cli

Task(latin, dangerous) == [latin |-> latin, mutates |-> TRUE, dangerous |-> dangerous]
Plain == Task(TRUE, FALSE)
Req(task, mode, timeout, reviewed) ==
    [task |-> task, mode |-> mode, timeout |-> timeout, reviewed |-> reviewed, source |-> ""]

Requests == 1 :> {Req(Plain, "auto", 0, FALSE), Req(Plain, "implement", 0, FALSE),
                Req(Plain, "inspect", 0, FALSE), Req(Plain, "inspect", 2000, FALSE),
                Req(Task(TRUE, TRUE), "implement", 0, FALSE), Req(Task(FALSE, FALSE), "auto", 0, FALSE),
                Req(Task(TRUE, TRUE), "implement", 500, TRUE)}
            @@ 2 :> {}

Conf(laya, max, long) == [laya |-> laya, max |-> max, default |-> [inspect |-> 900, implement |-> long]]
Configs == {Conf("shadow", 7200, 3600), Conf("active", 7200, 3600), Conf("active", 1000, 1000),
            Conf("active", 1000, 3600)}

Says(value, p, confidence) == [value |-> value, p |-> p, confidence |-> confidence]
Two(head, first) == Options[head][1] :> first @@ Options[head][2] :> 1000 - first
Three(head, a, b) == Options[head][1] :> a @@ Options[head][2] :> b @@ Options[head][3] :> 1000 - a - b

\* Sure of a calm inspection that may be tried twice.  The confidence of the
\* upstream engine is one minus the normalised entropy (probabilityConfidence).
Calm == [backend |-> Says("qwen", Three("backend", 0, 999), 99),
         task_mode |-> Says("inspect", Two("task_mode", 970), 80),
         risk |-> Says("low", Three("risk", 945, 55), 80),
         timeout_policy |-> Says("short", Three("timeout_policy", 1000, 0), 100),
         retry_policy |-> Says("retry_once", Two("retry_policy", 0), 100)]

Answers == {
    Calm,
    [Calm EXCEPT !.task_mode = Says("implement", Two("task_mode", 10), 91),
                 !.timeout_policy = Says("long", Three("timeout_policy", 0, 0), 100)],
    [Calm EXCEPT !.risk = Says("low", Three("risk", 940, 60), 79)],
    [Calm EXCEPT !.task_mode = Says("inspect", Two("task_mode", 967), 79)],
    [Calm EXCEPT !.risk = Says("high", Three("risk", 0, 0), 100)],
    [Calm EXCEPT !.backend = Says("qwen", Three("backend", 0, 500), 36)]}   \* a tie with claude

\* The classifier, whose confidence is the probability, is sure too.
Classified == [backend |-> Says("qwen", Three("backend", 0, 999), 99),
               task_mode |-> Says("inspect", Two("task_mode", 970), 97),
               risk |-> Says("low", Three("risk", 945, 55), 94)]

\* Jobs of one kind, all that may happen to them, and a fault: with two servers
\* that end, and with resumptions.
Life(may, outcome) ==
    [may |-> may, ask |-> [j \in Job |-> {Req(Plain, "inspect", 500, FALSE)}],
     limit |-> {0}, upstream |-> {}, model |-> {NoDecision},
     configs |-> {Conf("shadow", 7200, 3600)}, outcome |-> outcome, late |-> TRUE, edits |-> 0, faults |-> 1]
Ending == Life(s1 :> {"spawn", "wait", "feedback", "end"} @@ s2 :> {"interrupt", "end"} @@ cli :> {},
               {"completed", "timeout"})
Resuming == Life(s1 :> {"spawn", "wait", "end"} @@ s2 :> {"resume", "interrupt"} @@ cli :> {}, {"timeout"})

\* Requests of all kinds, under changing configurations, and what an engine
\* and a classifier make of them.
Policies(upstream, model) ==
    [may |-> s1 :> {"spawn", "resume"} @@ s2 :> {} @@ cli :> {"spawn"},
     ask |-> Requests, limit |-> {0, 5000}, upstream |-> upstream, model |-> {model},
     configs |-> Configs, outcome |-> {"timeout"}, late |-> FALSE, edits |-> 1, faults |-> 0]

MCScene == {Ending, Resuming} \cup {Policies({a}, NoDecision) : a \in Answers} \cup {Policies({}, Classified)}
=============================================================================
