------------------------------- MODULE Setup -------------------------------
(***************************************************************************)
(* internal/setup/setup.go: the MCP block in the Codex configuration,      *)
(* Violin's own policy file and the skill directory.  A configuration is   *)
(* the user's text (a number, 0 for none) and Violin's block, which is     *)
(* "none", "managed", "old" (managed, of another binary), "unmanaged" (the *)
(* user's own) or "open" (a start marker without an end marker).           *)
(***************************************************************************)
EXTENDS Files

VARIABLES
    skill,   \* the skill directory: its tree, and whether it is marked
    saved,   \* trees copied to skill-backups
    newest,  \* the last text the user wrote into the configuration
    late     \* it was written after a command had made its backup

setupVars == <<skill, saved, newest, late>>
skillVars == <<skill, saved>>
userVars == <<newest, late>>

Fail(p) == Goto(p, "failed") /\ UNCHANGED <<cmd, writeVars, diskVars, faults>>

\* LayaAdvisoryPlan: an active policy is lowered before anything else, if the
\* text is that of the template; in another layout ("relaid": a comment, other
\* blanks or another key between the two lines) it is not found.
Advisory(p) == /\ At(p, "advisory")
               /\ \/ live["policy"] = "active" /\ Replace(p, "policy", "advisory", "backup")
                  \/ /\ live["policy"] # "active"
                     /\ Goto(p, "default")
                     /\ UNCHANGED <<cmd, writeVars, diskVars, faults>>
               /\ UNCHANGED setupVars

\* ConfigPlan refuses an existing file, which "violin install" accepts; a new
\* one is written in place.
ConfigPlanEnds(p) == /\ At(p, "policy")
                     /\ \/ /\ live["policy"] = NoFile
                           /\ live' = [live EXCEPT !["policy"] = Empty]
                           /\ Goto(p, "fill")
                        \/ /\ live["policy"] # NoFile
                           /\ Goto(p, Then(p, "done"))
                           /\ UNCHANGED live
                     /\ UNCHANGED <<cmd, writeVars, next, backups, faults, setupVars>>

ConfigPlan(p) == /\ At(p, "policy")
                 /\ \/ /\ live["policy"] = NoFile
                       /\ live' = [live EXCEPT !["policy"] = Empty]
                       /\ Goto(p, "fill")
                    \/ /\ live["policy"] # NoFile
                       /\ Goto(p, IF cmd[p].name = "install" THEN "plan" ELSE "failed")
                       /\ UNCHANGED live
                 /\ UNCHANGED <<cmd, writeVars, next, backups, faults, setupVars>>

Fill(p) == /\ At(p, "fill")
           /\ \/ /\ live' = [live EXCEPT !["policy"] = "template"]
                 /\ Goto(p, Then(p, "plan"))
                 /\ UNCHANGED faults
              \/ Fault /\ Goto(p, "failed") /\ UNCHANGED live
           /\ UNCHANGED <<cmd, writeVars, next, backups, setupVars>>

\* The new configuration, or none: what Violin did not write is refused.
Text(c) == IF c = NoFile THEN [user |-> 0, block |-> "none"] ELSE c
ReplaceManagedBlock(c) == IF Text(c).block \in {"unmanaged", "open"} THEN {}
                          ELSE {[Text(c) EXCEPT !.block = "managed"]}
RemoveManagedBlock(c) == IF Text(c).block \in {"managed", "old"} THEN {[c EXCEPT !.block = "none"]}
                         ELSE {}

ReplaceOrFail(p, new) == \/ \E c \in new : Replace(p, "config", c, "backup")
                         \/ new = {} /\ Fail(p)

MCPPlan(p) == /\ At(p, "plan") /\ cmd[p].name \in {"install", "init"}
              /\ ReplaceOrFail(p, ReplaceManagedBlock(live["config"]))
              /\ UNCHANGED setupVars

MCPUninstallPlan(p) == /\ At(p, "plan") /\ cmd[p].name = "uninstall"
                       /\ ReplaceOrFail(p, RemoveManagedBlock(live["config"]))
                       /\ UNCHANGED setupVars

\* The user names the backup; one that does not exist is an error.
MCPRollbackPlan(p) == /\ At(p, "plan") /\ cmd[p].name = "rollback"
                      /\ Fail(p) \/ \E t \in backups["config"] : Replace(p, "config", t, "backup")
                      /\ UNCHANGED setupVars

-----------------------------------------------------------------------------
(* SkillsPlan: a directory with the marker is copied, cleared of the       *)
(* directories of earlier releases, overwritten, and marked again.         *)

FindSkill(p) == /\ At(p, "skill")
                /\ Goto(p, CASE skill.tree = "none" -> "copy"
                             [] skill.tree # "none" /\ skill.marked -> "save"
                             [] OTHER -> "failed")
                /\ UNCHANGED <<cmd, writeVars, diskVars, faults, setupVars>>

SaveSkillSkipped(p) == /\ At(p, "save")
                       /\ Goto(p, "legacy")
                       /\ UNCHANGED <<cmd, writeVars, diskVars, faults, setupVars>>

SaveSkill(p) == /\ At(p, "save")
                /\ saved' = saved \cup {skill.tree}
                /\ Goto(p, "legacy")
                /\ UNCHANGED <<cmd, writeVars, diskVars, faults, skill, userVars>>

RemoveLegacy(p) == /\ At(p, "legacy")
                   /\ skill' = [skill EXCEPT !.tree = IF @ = "old" THEN "mixed" ELSE @]
                   /\ Goto(p, "copy")
                   /\ UNCHANGED <<cmd, writeVars, diskVars, faults, saved, userVars>>

\* Files are overwritten one by one: some of them, or the rest.
CopySkill(p) == /\ At(p, "copy")
                /\ \/ skill' = [skill EXCEPT !.tree = "mixed"] /\ skill.tree # "mixed" /\ UNCHANGED pc
                   \/ skill' = [skill EXCEPT !.tree = "new"] /\ Goto(p, "mark")
                /\ UNCHANGED <<cmd, writeVars, diskVars, faults, saved, userVars>>

Mark(p) == /\ At(p, "mark")
           /\ skill' = [skill EXCEPT !.marked = TRUE]
           /\ Goto(p, "done")
           /\ UNCHANGED <<cmd, writeVars, diskVars, faults, saved, userVars>>

-----------------------------------------------------------------------------
\* The user edits the configuration, whatever a command is doing.
UserEdit == /\ live' = [live EXCEPT !["config"] = [Text(@) EXCEPT !.user = newest + 1]]
            /\ newest' = newest + 1
            /\ late' = \E p \in Proc : aim[p] = "config" /\ pc[p] \in {"open", "write", "rename"}
            /\ UNCHANGED <<pc, cmd, writeVars, next, backups, faults, skillVars>>

SetupStep(p) == \/ Advisory(p) \/ ConfigPlan(p) \/ Fill(p)
                \/ MCPPlan(p) \/ MCPUninstallPlan(p) \/ MCPRollbackPlan(p)
                \/ FindSkill(p) \/ SaveSkill(p) \/ RemoveLegacy(p) \/ CopySkill(p) \/ Mark(p)
=============================================================================
