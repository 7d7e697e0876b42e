----------------------------- MODULE Installer -----------------------------
(***************************************************************************)
(* The commands that set Violin up (cmd/violin/main.go), each a process of *)
(* its own, on the files of one user: installRuntime, installMCP and       *)
(* uninstallMCP, skillsCommand, configCommand and modelCommand.  A process *)
(* runs the commands May[p] names, so that what is assumed of commands     *)
(* that run together is stated where May is chosen.                        *)
(***************************************************************************)
EXTENDS ModelStore, Bundle, Setup

CONSTANTS
    World,      \* what may be on the disk at first
    May,        \* May[p]: names of the commands p runs
    MaxStarts,  \* bound: commands that are started
    MaxEdits    \* bound: the user's edits

VARIABLES
    started,
    together    \* two processes were replacing the active model at once

Config == [user : 0 .. MaxEdits, block : {"none", "managed", "old", "unmanaged", "open"}]
Policy == {"template", "active", "relaid", "advisory", "own"}

\* What is on the disk at first is what earlier commands that ran to their end,
\* and the user, may have left: no version and no file is half written.
ASSUME InstallerAssumption ==
    /\ MaxEdits \in Nat
    /\ (Config \cup Policy) \cap {NoFile, Empty, Torn} = {}
    /\ \A w \in World :
          /\ w.versions \in [Version -> {"absent", "unverified", "complete"}]
          /\ w.active = NoFile \/ (w.active \in Version /\ w.versions[w.active] # "absent")
          /\ w.config \in Config \cup {NoFile} /\ w.policy \in Policy \cup {NoFile}
          /\ w.onnx \in {"none", "good", "bad"}
          /\ w.skill \in [tree : {"none", "old", "new"}, marked : BOOLEAN]
          /\ w.skill.tree = "none" => ~w.skill.marked

vars == <<fileVars, storeVars, bundleVars, setupVars, started, together>>

\* Each command and the step it begins with.
First == [install |-> "advisory", init |-> "plan", uninstall |-> "plan", rollback |-> "plan",
          config |-> "policy", skills |-> "skill", activate |-> "check", update |-> "download",
          train |-> "train"]

ASSUME MayAssumption == \A p \in Proc : May[p] \subseteq DOMAIN First

Command(name) ==
    [name : {name}, data : {NoFile},
     version : CASE name = "install" -> {Builtin}
                 [] name \in {"activate", "update", "train"} -> Version
                 [] OTHER -> {NoFile}]

Start(p) == /\ At(p, "idle")
            /\ started < MaxStarts
            /\ started' = started + 1
            /\ \E name \in May[p] : \E c \in Command(name) :
                  cmd' = [cmd EXCEPT ![p] = c] /\ Goto(p, First[name])
            /\ UNCHANGED <<writeVars, diskVars, faults, storeVars, bundleVars, setupVars>>

Init == /\ FilesInit
        /\ started = 0
        /\ together = FALSE
        /\ late = FALSE
        /\ saved = {}
        /\ trained = [v \in Version |-> NoData]
        /\ \E w \in World :
              /\ live = [active |-> w.active, config |-> w.config, policy |-> w.policy]
              /\ versions = w.versions
              /\ onnx = w.onnx /\ old = "none" /\ owned = (w.onnx = "good")
              /\ skill = w.skill
              /\ newest = Text(w.config).user

Step(p) == \/ Start(p)
           \/ (FileStep(p) \/ GiveUp(p)) /\ UNCHANGED <<storeVars, bundleVars, setupVars, started>>
           \/ StoreStep(p) /\ UNCHANGED <<bundleVars, setupVars, started>>
           \/ BundleStep(p) /\ UNCHANGED <<storeVars, setupVars, started>>
           \/ SetupStep(p) /\ UNCHANGED <<storeVars, bundleVars, started>>
           \/ (Return(p) \/ Crash(p)) /\ UNCHANGED <<storeVars, bundleVars, setupVars, started>>

\* An edit while no command is at the configuration is as good as one made
\* just before the next command looks at it.
Edit == /\ newest < MaxEdits
        /\ \E p \in Proc : At(p, "plan") \/ aim[p] = "config"
        /\ UserEdit
        /\ UNCHANGED <<storeVars, bundleVars, started>>

\* Processes that have the temporary file of the active model.
Writers == {p \in Proc : pc[p] \in {"write", "rename"} /\ aim[p] = "active"}

Next == /\ (\E p \in Proc : Step(p)) \/ Edit
        /\ together' = (together \/ Cardinality(Writers') > 1)

Spec == Init /\ [][Next]_vars

-----------------------------------------------------------------------------
Content == [active |-> Version \cup {NoFile, Empty, Torn},
            config |-> Config \cup {NoFile, Empty},
            policy |-> Policy \cup {NoFile, Empty}]

\* Every file holds a text of its own kind; only the active model, which two
\* processes may replace at once, is ever mixed from two texts.  A version is
\* not there or is a whole directory (models.Install's rename).
TypeOK == /\ \A f \in File : live[f] \in Content[f] /\ next[f] \in Content[f]
          /\ \A f \in File : backups[f] \subseteq Content[f]
          /\ versions \in [Version -> {"absent", "unverified", "complete"}]
          /\ onnx \in {"none", "good", "bad"} /\ old \in {"none", "good", "bad"}
          /\ fd \in [Proc -> {"none", "next", "live", "lost"}]
          /\ live["config"] # Empty

\* v is not active, and no command is about to make it so.
Inactive(v) == /\ v \notin {live["active"], next["active"]}
               /\ \A p \in Proc : aim[p] = "active" => text[p] # v

\* A version that does not verify, because it is not there or does not match
\* its manifest, is made active by the update that installs it or by nobody:
\* once it is not active, activate and rollback refuse it for good, whatever
\* commands run together, share the temporary file and are killed
\* (manager.go:159-170).  The update itself asks for less: manager.go:103-107.
UnverifiedStaysOut ==
    [][\A v \in Version : Inactive(v) /\ ~Verified(v) =>
          Inactive(v)' \/ (~Installed(v) /\ Installed(v)')]_vars

\* So the active version is one that is installed.
ActiveIsInstalled == live["active"] \in Version => Installed(live["active"])

\* activate renames a file that is written: as long as no two processes
\* replace the active model at once, whoever is killed wherever, it is never
\* empty or mixed (src/README.md:82, manager.go:219).  The policy, which is
\* written in place, is empty only while it is written, or after a fault.
ReplacedAtOnce ==
    /\ ~together => live["active"] \notin {Empty, Torn}
    /\ live["policy"] = Empty => faults > 0 \/ \E p \in Proc : At(p, "fill")

\* A good bundle survives one fault: a command killed anywhere in
\* EnsureUpstream, or one move or check that fails, leaves it in place or
\* aside, or the verified new one is about to be moved in (upstream.go:537).
Staged == \E p \in Proc : pc[p] \in {"clear", "aside", "movein"}
OneFaultKeepsBundle == owned /\ faults <= 1 => onnx = "good" \/ old = "good" \/ Staged

\* What the user last wrote into the Codex configuration is in it or in a
\* backup, through any sequence of install, uninstall, rollback and crash,
\* unless it was written between a backup and the rename (setup.go:372).
UserTextKept == newest > 0 /\ ~late =>
    \/ live["config"] # NoFile /\ live["config"].user = newest
    \/ \E t \in backups["config"] : t.user = newest

\* A managed skill directory that is half replaced still has its marker, so
\* that the next run repairs it, and a whole copy among the backups; only a
\* first installation can be left without (setup.go:265).
SkillsRecoverable == skill.tree = "mixed" => \/ skill.marked /\ saved \cap {"old", "new"} # {}
                                             \/ ~skill.marked /\ saved = {}

\* When "violin install" says it is done the bundle is in place, the built-in
\* classifier verifies, some model was made active, the user's configuration
\* has the block, and the policy exists and does not have the two lines of an
\* active one (installRuntime).  That is less than setup.go:152 says of
\* LayaAdvisoryPlan: a policy that is active in another layout stays so.
InstalledIsWhole == \A p \in Proc : At(p, "done") /\ cmd[p].name = "install" =>
    /\ onnx = "good" /\ Verified(Builtin) /\ live["active"] # NoFile
    /\ live["policy"] \notin {NoFile, "active"}
    /\ live["config"].block = "managed"

\* A version that was trained here was trained on reviewed English data whose
\* holdout is independent, has the support for every label, was right in 95
\* of 100 sure answers of every head, of which there are some, and of every
\* label, and missed no high risk (src/README.md:97-104).
Enough(A) == Count(A) >= MinSupport
TrainedMeetsGate == \A v \in Version : trained[v] # NoData =>
    LET d == trained[v] IN
    /\ \A e \in d.examples : e.reviewed /\ e.english
    /\ \A e, f \in d.examples : e.split # f.split => e.task # f.task
    /\ \A head \in DOMAIN Labels : \A l \in Labels[head] :
          /\ Enough({a \in Answers(d, head) : a.gold = l})
          /\ Precise({a \in Sure(Answers(d, head)) : a.got = l})
    /\ \A head \in DOMAIN Labels : d.ece[head] <= 10 /\ Count(Sure(Answers(d, head))) > 0
    /\ \A a \in d.answers : a.gold = "high" /\ a.n > 0 => a.got = "high"
=============================================================================
