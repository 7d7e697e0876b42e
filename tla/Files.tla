------------------------------- MODULE Files -------------------------------
(***************************************************************************)
(* What the commands that set Violin up have in common: each is a process  *)
(* that runs to its end, gives up on an error or is killed, and three      *)
(* files that are replaced through a temporary file of a fixed name: the   *)
(* active model (models.activate), the Codex configuration and the Violin  *)
(* policy (setup.writeBackupAndAtomic).  os.WriteFile truncates and then   *)
(* writes; a process writes to the file it opened, wherever that is now.   *)
(***************************************************************************)
EXTENDS Naturals, FiniteSets

CONSTANTS
    Proc,       \* processes that run violin commands
    NoFile,     \* a file that does not exist
    Empty,      \* a file that was truncated and not yet written
    Torn,       \* a file with the beginning of one text and the end of another
    MaxFaults   \* bound: commands killed, and writes or renames that fail

ASSUME FilesAssumption == /\ Cardinality({NoFile, Empty, Torn}) = 3
                          /\ IsFiniteSet(Proc) /\ MaxFaults \in Nat

VARIABLES
    pc,      \* pc[p]: the next step of p's command
    cmd,     \* cmd[p]: what p runs, and on what
    aim,     \* aim[p]: the file p replaces
    text,    \* text[p]: what p writes to it
    fd,      \* fd[p]: where the temporary file p opened is now
    live,    \* live[f]: contents of the file
    next,    \* next[f]: contents of its temporary file
    backups, \* backups[f]: the copies made before f was replaced
    faults

writeVars == <<aim, text, fd>>
diskVars == <<live, next, backups>>
fileVars == <<pc, cmd, writeVars, diskVars, faults>>

File == {"active", "config", "policy"}
Idle == [name |-> "none", version |-> NoFile, data |-> NoFile]

\* Where "violin install" goes on after it replaced a file; all else ends.
Phase == [policy |-> "default", active |-> "fetch", config |-> "done"]

At(p, l) == pc[p] = l
Goto(p, l) == pc' = [pc EXCEPT ![p] = l]
Then(p, l) == IF cmd[p].name = "install" THEN l ELSE "done"
Fault == faults < MaxFaults /\ faults' = faults + 1

\* Go on at label l with replacing f by t.
Replace(p, f, t, l) == /\ aim' = [aim EXCEPT ![p] = f]
                       /\ text' = [text EXCEPT ![p] = t]
                       /\ Goto(p, l)
                       /\ UNCHANGED <<cmd, fd, diskVars, faults>>

\* writeBackupAndAtomic reads the file again, and copies what it is now.
BackupOnce(p) == /\ At(p, "backup")
                 /\ backups' = [backups EXCEPT ![aim[p]] = IF @ = {} THEN {live[aim[p]]} \ {NoFile} ELSE @]
                 /\ Goto(p, "open")
                 /\ UNCHANGED <<cmd, writeVars, live, next, faults>>

Backup(p) == /\ At(p, "backup")
             /\ backups' = [backups EXCEPT ![aim[p]] = @ \cup ({live[aim[p]]} \ {NoFile})]
             /\ Goto(p, "open")
             /\ UNCHANGED <<cmd, writeVars, live, next, faults>>

\* The temporary file is created, or truncated if another process has it.
OpenInPlace(p) == /\ At(p, "open")
                  /\ live' = [live EXCEPT ![aim[p]] = Empty]
                  /\ fd' = [fd EXCEPT ![p] = "next"]
                  /\ Goto(p, "write")
                  /\ UNCHANGED <<cmd, aim, text, next, backups, faults>>

Open(p) == /\ At(p, "open")
           /\ next' = [next EXCEPT ![aim[p]] = Empty]
           /\ fd' = [fd EXCEPT ![p] = "next"]
           /\ Goto(p, "write")
           /\ UNCHANGED <<cmd, aim, text, live, backups, faults>>

\* What is in a file after p has written over content c, which may be longer.
Over(p, c) == IF c \in {NoFile, Empty, text[p]} THEN {text[p]} ELSE {text[p], Torn}

\* The write reaches the file that was opened; a full disk ends the command.
Write(p) ==
    LET f == aim[p] IN
    /\ At(p, "write")
    /\ fd' = [fd EXCEPT ![p] = "none"]
    /\ \/ /\ \/ fd[p] = "next" /\ UNCHANGED live
                /\ \E t \in Over(p, next[f]) : next' = [next EXCEPT ![f] = t]
             \/ fd[p] = "live" /\ UNCHANGED next
                /\ \E t \in Over(p, live[f]) : live' = [live EXCEPT ![f] = t]
             \/ fd[p] = "lost" /\ UNCHANGED <<live, next>>
          /\ Goto(p, "rename")
          /\ UNCHANGED faults
       \/ Fault /\ Goto(p, "failed") /\ UNCHANGED <<live, next>>
    /\ UNCHANGED <<cmd, aim, text, backups>>

\* The rename moves whatever the temporary file holds, and fails without one.
Rename(p) ==
    LET f == aim[p]
        Moved(q) == CASE aim[q] = f /\ fd[q] = "next" -> "live"
                      [] aim[q] = f /\ fd[q] = "live" -> "lost"
                      [] OTHER -> fd[q]
    IN  /\ At(p, "rename")
        /\ \/ /\ next[f] = NoFile
              /\ Goto(p, "failed")
              /\ UNCHANGED <<live, next, fd>>
           \/ /\ next[f] # NoFile
              /\ live' = [live EXCEPT ![f] = next[f]]
              /\ next' = [next EXCEPT ![f] = NoFile]
              /\ fd' = [q \in Proc |-> Moved(q)]
              /\ Goto(p, Then(p, Phase[f]))
        /\ UNCHANGED <<cmd, aim, text, backups, faults>>

FileStep(p) == Backup(p) \/ Open(p) \/ Write(p) \/ Rename(p)

\* Steps that return the error of a call that changed nothing.
Fallible == {"backup", "open", "rename", "advisory", "download", "stage", "publish", "fetch",
             "policy", "plan", "skill", "save", "legacy", "copy", "mark"}
GiveUp(p) == /\ pc[p] \in Fallible
             /\ Goto(p, "failed")
             /\ UNCHANGED <<cmd, writeVars, diskVars, faults>>

Stop(p) ==    /\ pc' = [pc EXCEPT ![p] = "idle"]
              /\ cmd' = [cmd EXCEPT ![p] = Idle]
              /\ aim' = [aim EXCEPT ![p] = "active"]
              /\ text' = [text EXCEPT ![p] = Empty]
              /\ fd' = [fd EXCEPT ![p] = "none"]
              /\ UNCHANGED diskVars
Return(p) == pc[p] \in {"done", "failed"} /\ Stop(p) /\ UNCHANGED faults
Crash(p) == pc[p] \notin {"idle", "done", "failed"} /\ Stop(p) /\ Fault

FilesInit == /\ pc = [p \in Proc |-> "idle"]
             /\ cmd = [p \in Proc |-> Idle]
             /\ aim = [p \in Proc |-> "active"]
             /\ text = [p \in Proc |-> Empty]
             /\ fd = [p \in Proc |-> "none"]
             /\ next = [f \in File |-> NoFile]
             /\ backups = [f \in File |-> {}]
             /\ faults = 0
=============================================================================
