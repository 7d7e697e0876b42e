---------------------------- MODULE MCInstaller ----------------------------
(***************************************************************************)
(* A small instance of Installer: one process that sets Violin up, and one *)
(* that changes models meanwhile.                                          *)
(***************************************************************************)
EXTENDS Installer, TLC

CONSTANTS p1, p2, v1, builtin

MCMay == p1 :> {"install", "init", "uninstall", "rollback", "config", "skills", "train"}
         @@ p2 :> {"activate", "update"}

Example(split, task, reviewed) ==
    [split |-> split, task |-> task, reviewed |-> reviewed, english |-> TRUE]
Answer(head, gold, got, sure, n) ==
    [head |-> head, gold |-> gold, got |-> got, sure |-> sure, n |-> n]

\* Every label with two examples; of the sure answers "inspect" one in twenty
\* is wrong; no answer "low" is sure.
Good == [examples |-> {Example("train", "a", TRUE), Example("holdout", "b", TRUE)},
         everyLabelTrained |-> TRUE,
         ece |-> [risk |-> 10, task_mode |-> 0],
         answers |-> {Answer("risk", "low", "low", FALSE, 2), Answer("risk", "high", "high", TRUE, 2),
                      Answer("task_mode", "inspect", "inspect", TRUE, 19),
                      Answer("task_mode", "implement", "inspect", TRUE, 1),
                      Answer("task_mode", "implement", "implement", TRUE, 1)}]

With(a) == [Good EXCEPT !.answers = @ \cup {a}]
MCDataSet == {
    Good,
    With(Answer("task_mode", "implement", "inspect", TRUE, 2)),  \* two wrong in twenty-one
    With(Answer("risk", "high", "low", FALSE, 1)),               \* a high risk missed
    With(Answer("risk", "low", "high", TRUE, 1)),                \* "high" wrong one time in three
    [Good EXCEPT !.answers = {a \in @ : a.got # "implement"}],   \* one example of "implement"
    [Good EXCEPT !.answers = {IF a.head = "risk" THEN [a EXCEPT !.sure = FALSE] ELSE a : a \in @}],
    [Good EXCEPT !.ece = [@ EXCEPT !.risk = 11]],
    [Good EXCEPT !.examples = @ \cup {Example("holdout", "a", TRUE)}],
    [Good EXCEPT !.examples = @ \cup {Example("train", "c", FALSE)}]}

Files(list) == [pinned |-> TRUE,
                artifacts |-> [i \in DOMAIN list |-> [path |-> list[i], asset |-> list[i], allowed |-> TRUE]]]
Release == Files(<<"runtime", "typed-decisions", "multilingual">>)
MCManifest == {Release, [Release EXCEPT !.pinned = FALSE],
               [Release EXCEPT !.artifacts[1].allowed = FALSE],
               [Release EXCEPT !.artifacts[2].asset = "runtime"],
               Files(<<"runtime", "typed-decisions", "typed-decisions">>),
               Files(<<"runtime", "typed-decisions", "notes">>)}

Disk(active, has, bundle, config, policy, tree, marked) ==
    [active |-> active,
     versions |-> [v \in Version |-> IF v \in DOMAIN has THEN has[v] ELSE "absent"],
     onnx |-> bundle, config |-> config, policy |-> policy, skill |-> [tree |-> tree, marked |-> marked]]
User(block) == [user |-> 1, block |-> block]

MCWorld == {
    Disk(NoFile, << >>, "none", User("none"), "relaid", "old", FALSE),
    Disk(builtin, builtin :> "complete" @@ v1 :> "unverified", "good", User("old"), "active", "old", TRUE),
    Disk(v1, builtin :> "complete" @@ v1 :> "unverified", "bad", NoFile, "own", "none", FALSE),
    Disk(builtin, builtin :> "complete" @@ v1 :> "complete", "good", User("none"), NoFile, "none", FALSE),
    Disk(NoFile, builtin :> "unverified", "none", User("open"), "template", "old", FALSE)}
=============================================================================
