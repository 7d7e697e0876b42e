-------------------------- MODULE InstallerProofs --------------------------
(***************************************************************************)
(* What the commands that set Violin up leave on the disk, wherever they   *)
(* fail or are killed.                                                     *)
(***************************************************************************)
EXTENDS Installer, TLAPS, FiniteSetTheorems, WellFoundedInduction

-----------------------------------------------------------------------------
(* Commands and versions, whoever runs what at the same time.              *)

Domains == /\ DOMAIN pc = Proc /\ DOMAIN cmd = Proc /\ DOMAIN aim = Proc
           /\ DOMAIN text = Proc /\ DOMAIN fd = Proc
           /\ DOMAIN live = File /\ DOMAIN next = File /\ DOMAIN backups = File
           /\ DOMAIN versions = Version /\ DOMAIN trained = Version

Writing == {"backup", "open", "write", "rename"}
Installing == {"advisory", "default", "fetch", "clear", "aside", "movein", "verify", "discard",
               "putback", "drop"}
Configuring == {"install", "init", "uninstall", "rollback"}
Skilling == {"skill", "save", "legacy", "copy", "mark"}
AllLabels == Writing \cup Installing \cup Skilling
             \cup {"idle", "done", "failed", "policy", "fill", "plan", "train", "download", "check",
                   "stage", "publish"}

\* A command c is at a step of its own.
RightStep(c, l) ==
    /\ l \in AllLabels
    /\ l \in Installing => c.name = "install"
    /\ l \in {"policy", "fill"} => c.name \in {"install", "config"}
    /\ l = "plan" => c.name \in Configuring
    /\ l \in Skilling => c.name = "skills"
    /\ l = "train" => c.name = "train"
    /\ l \in {"stage", "publish"} => c.name \in {"install", "update", "train"}
    /\ l = "download" => c.name = "update"
    /\ l = "check" => c.name = "activate"
    /\ c.name = "train" /\ l \in {"stage", "publish"} =>
          c.data \in DataSet /\ Accepted(c.data) /\ MeetsGate(c.data)
    /\ l \in {"clear", "aside", "movein", "verify"} => c.data = "good"

CommandOK(p) ==
    /\ cmd[p] = [name |-> cmd[p].name, version |-> cmd[p].version, data |-> cmd[p].data]
    /\ pc[p] # "idle" => cmd[p].name \in May[p]
    /\ cmd[p].name = "install" => cmd[p].version = Builtin
    /\ cmd[p].name \in {"activate", "update", "train"} => cmd[p].version \in Version
    /\ RightStep(cmd[p], pc[p])

\* What it writes is right for the file.
WritingOK(p) ==
    /\ fd[p] \in {"none", "next", "live", "lost"} /\ aim[p] \in File
    /\ pc[p] \in Writing =>
         /\ aim[p] = "active" => /\ Installed(text[p]) /\ pc[p] # "backup"
                                 /\ cmd[p].name \in {"install", "activate", "update"}
         /\ aim[p] = "config" => cmd[p].name \in Configuring
         /\ aim[p] = "policy" => cmd[p].name = "install" /\ text[p] = "advisory"

\* Every version that is active or about to be is installed.
ActiveText(t) == t \in {NoFile, Empty, Torn} \/ Installed(t)

StoreOK == /\ \A v \in Version : versions[v] \in {"absent", "unverified", "complete"}
           /\ ActiveText(live["active"]) /\ ActiveText(next["active"])
           /\ \A v \in Version : trained[v] # NoData =>
                 trained[v] \in DataSet /\ Accepted(trained[v]) /\ MeetsGate(trained[v])
           /\ faults \in Nat

IInv == Domains /\ StoreOK /\ \A p \in Proc : CommandOK(p) /\ WritingOK(p)

\* While no two processes replace the active model, one does, and has its
\* temporary file for itself.
AloneInv == ~together =>
    /\ \A p, q \in Writers : p = q
    /\ live["active"] \notin {Empty, Torn}
    /\ \A p \in Writers : /\ pc[p] = "write" => fd[p] = "next" /\ next["active"] = Empty
                          /\ pc[p] = "rename" => next["active"] = text[p]

\* A version that is installed stays what it is.
Kept == \A v : (Installed(v) => Installed(v)') /\ (Verified(v) => Verified(v)')

\* The other processes are where they were.
Others(p) == \A q \in Proc \ {p} : /\ pc'[q] = pc[q] /\ cmd'[q] = cmd[q] /\ aim'[q] = aim[q]
                                   /\ text'[q] = text[q]
                                   /\ fd'[q] \in {fd[q], "live", "lost"}

\* What a step of p leaves of the invariant.
Good(p) == /\ Others(p) /\ Domains' /\ StoreOK' /\ CommandOK(p)' /\ WritingOK(p)'
           /\ Kept

\* A step that only goes on to another label.
LEMMA Walks ==
    ASSUME IInv, NEW p \in Proc, NEW l, Goto(p, l), RightStep(cmd[p], l), l \notin Writing, pc[p] # "idle",
           UNCHANGED <<cmd, aim, text, fd, live, next, backups, versions, trained>>,
           faults' \in {faults, faults + 1}
    PROVE  Good(p)
<1>. USE DEF IInv, Domains
<1>1. Others(p) /\ Domains'
  BY DEF Others, Goto
<1>2. StoreOK' /\ Kept
  BY DEF StoreOK, ActiveText, Installed, Verified, Kept
<1>3. pc'[p] = l /\ CommandOK(p) /\ WritingOK(p)
  BY DEF Goto
<1>4. CommandOK(p)'
  BY <1>3 DEF CommandOK
<1>5. WritingOK(p)'
  BY <1>3 DEF WritingOK
<1>. QED
  BY <1>1, <1>2, <1>4, <1>5 DEF Good

\* What a command may write to a file.
RightText(p, f, t) ==
    /\ f = "active" => Installed(t) /\ cmd[p].name \in {"install", "activate", "update"}
    /\ f = "config" => cmd[p].name \in Configuring
    /\ f = "policy" => cmd[p].name = "install" /\ t = "advisory"

\* A step that goes on to write a file.
LEMMA Replaces ==
    ASSUME IInv, NEW p \in Proc, NEW f \in File, NEW t, NEW l \in {"backup", "open"},
           Replace(p, f, t, l), l = "backup" => f # "active", pc[p] # "idle",
           RightText(p, f, t), UNCHANGED <<versions, trained>>
    PROVE  Good(p)
<1>. USE DEF IInv, Domains
<1>0. /\ pc'[p] = l /\ aim'[p] = f /\ text'[p] = t
      /\ UNCHANGED <<cmd, fd, live, next, backups, faults>>
  BY DEF Replace, Goto, diskVars
<1>1. Others(p) /\ Domains'
  BY <1>0 DEF Others, Replace, Goto
<1>2. StoreOK' /\ Kept
  BY <1>0 DEF StoreOK, ActiveText, Installed, Verified, Kept
<1>3. RightStep(cmd[p], l)
  BY DEF RightStep, AllLabels, Writing, Installing, Skilling
<1>4. CommandOK(p)'
  BY <1>0, <1>3 DEF CommandOK
<1>5. WritingOK(p)'
  BY <1>0 DEF WritingOK, Writing, RightText, Installed, Verified, Kept
<1>. QED
  BY <1>1, <1>2, <1>4, <1>5 DEF Good

\* The temporary file is written, or renamed, or neither.
LEMMA FileStepsGood ==
    ASSUME IInv, NEW p \in Proc, FileStep(p) \/ GiveUp(p), UNCHANGED storeVars
    PROVE  Good(p)
<1>. USE DEF IInv, Domains, storeVars
<1>0. CommandOK(p) /\ WritingOK(p) /\ File = {"active", "config", "policy"}
  BY DEF File
<1>f. /\ RightStep(cmd[p], "failed") /\ RightStep(cmd[p], "done")
      /\ \A l \in Writing : RightStep(cmd[p], l)
  BY DEF RightStep, AllLabels, Writing, Installing, Skilling
<1>v. Kept
  BY DEF Installed, Verified, Kept
<1>1. CASE Backup(p)
  <2>1. /\ pc[p] = "backup" /\ pc'[p] = "open" /\ UNCHANGED <<cmd, aim, text, fd, live, next, faults>>
        /\ DOMAIN backups' = File
    BY <1>1 DEF Backup, At, Goto, writeVars
  <2>2. Others(p) /\ Domains' /\ StoreOK'
    BY <1>1, <2>1 DEF Others, Backup, Goto, StoreOK, ActiveText, Installed, Verified, Kept
  <2>3. CommandOK(p)' /\ WritingOK(p)'
    BY <1>0, <1>f, <2>1 DEF CommandOK, WritingOK, Writing, Installed, Verified, Kept
  <2>. QED
    BY <1>v, <2>2, <2>3 DEF Good
<1>2. CASE Open(p)
  <2>1. /\ pc[p] = "open" /\ pc'[p] = "write" /\ UNCHANGED <<cmd, aim, text, live, backups, faults>>
        /\ next' = [next EXCEPT ![aim[p]] = Empty] /\ fd' = [fd EXCEPT ![p] = "next"]
    BY <1>2 DEF Open, At, Goto
  <2>2. Others(p) /\ Domains'
    BY <1>2, <2>1 DEF Others, Open, Goto
  <2>3. StoreOK'
    <3>1. next'["active"] \in {next["active"], Empty}
      BY <1>0, <2>1
    <3>. QED
      BY <2>1, <3>1 DEF StoreOK, ActiveText, Installed, Verified, Kept
  <2>4. CommandOK(p)' /\ WritingOK(p)'
    BY <1>0, <1>f, <2>1 DEF CommandOK, WritingOK, Writing, Installed, Verified, Kept
  <2>. QED
    BY <1>v, <2>2, <2>3, <2>4 DEF Good
<1>3. CASE Write(p)
  <2>1. /\ pc[p] = "write" /\ pc'[p] \in {"rename", "failed"} /\ UNCHANGED <<cmd, aim, text, backups>>
        /\ fd' = [fd EXCEPT ![p] = "none"] /\ faults' \in {faults, faults + 1}
        /\ DOMAIN live' = File /\ DOMAIN next' = File
    BY <1>3 DEF Write, At, Goto, Fault
  <2>2. Others(p) /\ Domains'
    BY <1>3, <2>1 DEF Others, Write, Goto
  <2>3. /\ live'["active"] \in {live["active"], Torn} \/ (aim[p] = "active" /\ live'["active"] = text[p])
        /\ next'["active"] \in {next["active"], Torn} \/ (aim[p] = "active" /\ next'["active"] = text[p])
    BY <1>0, <1>3 DEF Write, Over
  <2>4. aim[p] = "active" => Installed(text[p])
    BY <1>0, <2>1 DEF WritingOK, Writing
  <2>5. StoreOK'
    BY <2>1, <2>3, <2>4 DEF StoreOK, ActiveText, Installed, Verified, Kept
  <2>6. CommandOK(p)' /\ WritingOK(p)'
    BY <1>0, <1>f, <2>1 DEF CommandOK, WritingOK, Writing, Installed, Verified, Kept
  <2>. QED
    BY <1>v, <2>2, <2>5, <2>6 DEF Good
<1>4. CASE Rename(p)
  <2>1. /\ pc[p] = "rename" /\ UNCHANGED <<cmd, aim, text, backups, faults>>
        /\ pc' = [pc EXCEPT ![p] = "failed"] \/ pc' = [pc EXCEPT ![p] = Then(p, Phase[aim[p]])]
    BY <1>4 DEF Rename, At, Goto
  <2>2. /\ DOMAIN live' = File /\ DOMAIN next' = File /\ DOMAIN fd' = Proc
        /\ \A q \in Proc : fd'[q] \in {fd[q], "live", "lost"}
    BY <1>4 DEF Rename
  <2>3. Others(p) /\ Domains'
    BY <2>1, <2>2 DEF Others
  <2>4. live'["active"] \in {live["active"], next["active"]} /\ next'["active"] \in {next["active"], NoFile}
    BY <1>0, <1>4 DEF Rename
  <2>5. StoreOK'
    BY <2>1, <2>4 DEF StoreOK, ActiveText, Installed, Verified, Kept
  <2>6. Then(p, Phase[aim[p]]) \in {"done", "default", "fetch"}
        /\ (Then(p, Phase[aim[p]]) # "done" => cmd[p].name = "install")
    BY <1>0 DEF Then, Phase, WritingOK
  <2>7. RightStep(cmd[p], pc'[p]) /\ pc'[p] \notin Writing
    BY <1>f, <2>1, <2>6 DEF RightStep, AllLabels, Writing, Installing, Skilling
  <2>8. CommandOK(p)' /\ WritingOK(p)'
    BY <1>0, <2>1, <2>2, <2>7 DEF CommandOK, WritingOK, Writing
  <2>. QED
    BY <1>v, <2>3, <2>5, <2>8 DEF Good
<1>5. CASE GiveUp(p)
  BY <1>5, <1>f, Walks DEF GiveUp, Fallible, Writing, writeVars, diskVars
<1>. QED
  BY <1>1, <1>2, <1>3, <1>4, <1>5 DEF FileStep

\* A command ends, or is killed, or begins.
LEMMA EndsGood ==
    ASSUME IInv, NEW p \in Proc, Return(p) \/ Crash(p), UNCHANGED storeVars
    PROVE  Good(p)
<1>. USE DEF IInv, Domains, storeVars
<1>1. /\ pc' = [pc EXCEPT ![p] = "idle"] /\ cmd' = [cmd EXCEPT ![p] = Idle]
      /\ aim' = [aim EXCEPT ![p] = "active"] /\ text' = [text EXCEPT ![p] = Empty]
      /\ fd' = [fd EXCEPT ![p] = "none"] /\ UNCHANGED <<live, next, backups>>
      /\ faults' \in {faults, faults + 1}
  BY DEF Return, Crash, Stop, Fault, diskVars
<1>2. Others(p) /\ Domains'
  BY <1>1 DEF Others
<1>3. StoreOK' /\ Kept
  BY <1>1 DEF StoreOK, ActiveText, Installed, Verified, Kept
<1>4. pc'[p] = "idle" /\ cmd'[p] = [name |-> "none", version |-> NoFile, data |-> NoFile]
  BY <1>1 DEF Idle
<1>5. CommandOK(p)'
  BY <1>4 DEF CommandOK, RightStep, AllLabels, Writing, Installing, Skilling
<1>6. WritingOK(p)'
  BY <1>1 DEF WritingOK, Writing, File
<1>. QED
  BY <1>2, <1>3, <1>5, <1>6 DEF Good

\* Commands begin at their first step, with a version if they are about one.
LEMMA StartGood ==
    ASSUME IInv, NEW p \in Proc, Start(p)
    PROVE  Good(p)
<1>. USE DEF IInv, Domains
<1>1. PICK name \in May[p] : \E c \in Command(name) : cmd' = [cmd EXCEPT ![p] = c] /\ Goto(p, First[name])
  BY DEF Start
<1>2. PICK c \in Command(name) : cmd' = [cmd EXCEPT ![p] = c] /\ Goto(p, First[name])
  BY <1>1
<1>3. /\ UNCHANGED <<aim, text, fd, live, next, backups, faults, versions, trained>>
  BY DEF Start, writeVars, diskVars, storeVars
<1>4. name \in {"install", "init", "uninstall", "rollback", "config", "skills", "activate", "update", "train"}
  BY MayAssumption DEF First
<1>5. /\ c = [name |-> name, version |-> c.version, data |-> c.data]
      /\ name = "install" => c.version = Builtin
      /\ name \in {"activate", "update", "train"} => c.version \in Version
  BY <1>2, <1>4 DEF Command
<1>6. RightStep(c, First[name]) /\ First[name] \notin Writing
  BY <1>4, <1>5 DEF RightStep, AllLabels, Writing, Installing, Skilling, Configuring, First
<1>7. Others(p) /\ Domains'
  BY <1>2, <1>3 DEF Others, Goto
<1>8. StoreOK' /\ Kept
  BY <1>3 DEF StoreOK, ActiveText, Installed, Verified, Kept
<1>9. pc'[p] = First[name] /\ cmd'[p] = c
  BY <1>2 DEF Goto
<1>10. CommandOK(p)'
  BY <1>5, <1>6, <1>9 DEF CommandOK
<1>11. WritingOK(p)'
  BY <1>3, <1>6, <1>9 DEF WritingOK
<1>. QED
  BY <1>7, <1>8, <1>10, <1>11 DEF Good

\* Versions come and become active.
LEMMA StoreStepsGood ==
    ASSUME IInv, NEW p \in Proc, StoreStep(p)
    PROVE  Good(p)
<1>. USE DEF IInv, Domains
<1>0. /\ CommandOK(p) /\ WritingOK(p) /\ RightStep(cmd[p], pc[p])
      /\ StoreOK /\ "active" \in File
  BY DEF CommandOK, File
<1>f. /\ RightStep(cmd[p], "failed") /\ RightStep(cmd[p], "done")
  BY DEF RightStep, AllLabels, Writing, Installing, Skilling
<1>1. CASE Default(p)
  <2>1. pc[p] = "default" /\ cmd[p].name = "install"
    BY <1>0, <1>1 DEF Default, At, RightStep, Installing
  <2>2. RightStep(cmd[p], "fetch") /\ RightStep(cmd[p], "stage")
    BY <2>1 DEF RightStep, AllLabels, Writing, Installing, Skilling
  <2>3. \/ Goto(p, "fetch")
        \/ Goto(p, "stage")
    BY <1>1 DEF Default, Goto
  <2>4. UNCHANGED <<cmd, aim, text, fd, live, next, backups, versions, trained, faults>>
    BY <1>1 DEF Default, writeVars, diskVars, storeVars
  <2>. QED
    BY <2>1, <2>2, <2>3, <2>4, Walks DEF Writing
<1>2. CASE Train(p)
  <2>1. pc[p] = "train" /\ cmd[p].name = "train"
    BY <1>0, <1>2 DEF Train, At, RightStep
  <2>2. UNCHANGED <<aim, text, fd, live, next, backups, versions, trained, faults>>
    BY <1>2 DEF Train, writeVars, diskVars, storeVars
  <2>3. ASSUME NEW d \in DataSet, Accepted(d), MeetsGate(d), cmd' = [cmd EXCEPT ![p].data = d],
               Goto(p, "stage")
        PROVE  Good(p)
    <3>1. /\ pc'[p] = "stage" /\ cmd'[p] = [cmd[p] EXCEPT !.data = d]
      BY <2>3 DEF Goto
    <3>2. cmd'[p] = [name |-> cmd[p].name, version |-> cmd[p].version, data |-> d]
      BY <1>0, <3>1 DEF CommandOK
    <3>3. Others(p) /\ Domains'
      BY <2>2, <2>3 DEF Others, Goto
    <3>4. StoreOK' /\ Kept
      BY <2>2 DEF StoreOK, ActiveText, Installed, Verified, Kept
    <3>5. cmd'[p].name = "train" /\ cmd'[p].version = cmd[p].version /\ cmd'[p].data = d
      BY <2>1, <3>2
    <3>6. RightStep(cmd'[p], "stage")
      BY <2>3, <3>5 DEF RightStep, AllLabels, Writing, Installing, Skilling
    <3>7. CommandOK(p)'
      BY <1>0, <2>1, <3>1, <3>2, <3>5, <3>6 DEF CommandOK
    <3>8. WritingOK(p)'
      BY <1>0, <2>2, <3>1 DEF WritingOK, Writing
    <3>. QED
      BY <3>3, <3>4, <3>7, <3>8 DEF Good
  <2>4. ASSUME NEW l \in {"done", "failed"}, Goto(p, l), cmd' = cmd PROVE Good(p)
    BY <1>f, <2>1, <2>2, <2>4, Walks DEF Writing
  <2>. QED
    BY <1>2, <2>3, <2>4 DEF Train
<1>3. CASE Download(p)
  <2>1. pc[p] = "download" /\ cmd[p].name = "update"
    BY <1>0, <1>3 DEF Download, At, RightStep
  <2>2. RightStep(cmd[p], "stage")
    BY <2>1 DEF RightStep, AllLabels, Writing, Installing, Skilling
  <2>. QED
    BY <1>3, <2>1, <2>2, Walks DEF Download, Writing, writeVars, diskVars, storeVars
<1>4. CASE Stage(p)
  <2>1. pc[p] = "stage" /\ cmd[p].name \in {"install", "update", "train"}
    BY <1>0, <1>4 DEF Stage, At, RightStep
  <2>2. RightStep(cmd[p], "publish")
    BY <1>0, <2>1 DEF RightStep, AllLabels, Writing, Installing, Skilling
  <2>3. Goto(p, "publish") \/ Goto(p, "failed")
    BY <1>4 DEF Stage, Goto
  <2>4. UNCHANGED <<cmd, aim, text, fd, live, next, backups, versions, trained, faults>>
    BY <1>4 DEF Stage, writeVars, diskVars, storeVars
  <2>. QED
    BY <1>f, <2>1, <2>2, <2>3, <2>4, Walks DEF Writing
<1>5. CASE Publish(p)
  <2>0. PICK v : v = cmd[p].version
    OBVIOUS
  <2>1. /\ pc[p] = "publish" /\ cmd[p].name \in {"install", "update", "train"} /\ v \in Version
        /\ cmd[p].name = "train" => cmd[p].data \in DataSet /\ Accepted(cmd[p].data) /\ MeetsGate(cmd[p].data)
    BY <1>0, <1>5, <2>0, StoreAssumption DEF Publish, At, RightStep, CommandOK
  <2>2. CASE versions[v] # "absent"
    BY <1>5, <1>f, <2>0, <2>1, <2>2, Walks DEF Publish, Writing, writeVars, diskVars, storeVars
  <2>3. CASE versions[v] = "absent"
    <3>0. PICK w \in Brought(cmd[p].name) : versions' = [versions EXCEPT ![v] = w]
      BY <1>5, <2>0, <2>3, Zenon DEF Publish
    <3>1. w \in {"complete", "unverified"} /\ versions' = [versions EXCEPT ![v] = w]
      <4>1. Brought(cmd[p].name) \subseteq {"complete", "unverified"}
        BY DEF Brought
      <4>2. w \in {"complete", "unverified"}
        BY <4>1
      <4>. QED
        BY <3>0, <4>2, Zenon
    <3>2. Kept
      BY <1>0, <2>1, <2>3, <3>1 DEF Installed, Verified, Kept
    <3>3. /\ \A u \in Version : versions'[u] \in {"absent", "unverified", "complete"}
          /\ \A t : ActiveText(t) => ActiveText(t)'
          /\ DOMAIN versions' = Version /\ Installed(v)'
      BY <1>0, <2>1, <3>1, <3>2 DEF StoreOK, ActiveText, Installed, Verified, Kept
    <3>4. CASE cmd[p].name = "train"
      <4>1. /\ trained' = [trained EXCEPT ![v] = cmd[p].data] /\ Goto(p, "done")
            /\ UNCHANGED <<cmd, aim, text, fd, live, next, backups, faults>>
        BY <1>5, <2>0, <2>3, <3>4 DEF Publish, writeVars, diskVars
      <4>2. Others(p) /\ Domains'
        BY <3>3, <4>1 DEF Others, Goto
      <4>3. \A u \in Version : trained'[u] # NoData =>
               trained'[u] \in DataSet /\ Accepted(trained'[u]) /\ MeetsGate(trained'[u])
        BY <1>0, <2>1, <3>4, <4>1 DEF StoreOK
      <4>4. StoreOK'
        BY <1>0, <3>3, <4>1, <4>3 DEF StoreOK
      <4>5. CommandOK(p)' /\ WritingOK(p)'
        <5>1. pc'[p] = "done" /\ UNCHANGED <<cmd[p], aim[p], fd[p]>>
          BY <4>1 DEF Goto
        <5>2. CommandOK(p)'
          BY <1>0, <1>f, <2>1, <5>1 DEF CommandOK
        <5>3. WritingOK(p)'
          BY <1>0, <5>1 DEF WritingOK, Writing
        <5>. QED
          BY <5>2, <5>3
      <4>. QED
        BY <3>2, <4>2, <4>4, <4>5 DEF Good
    <3>5. CASE cmd[p].name # "train"
      <4>1. /\ trained' = trained /\ Goto(p, "open")
            /\ aim' = [aim EXCEPT ![p] = "active"] /\ text' = [text EXCEPT ![p] = v]
            /\ UNCHANGED <<cmd, fd, live, next, backups, faults>>
        BY <1>5, <2>0, <2>3, <3>5 DEF Publish, Replace, diskVars
      <4>2. Others(p) /\ Domains'
        BY <3>3, <4>1 DEF Others, Goto
      <4>3. StoreOK'
        BY <1>0, <3>3, <4>1 DEF StoreOK
      <4>4. pc'[p] = "open" /\ aim'[p] = "active" /\ text'[p] = v /\ cmd'[p] = cmd[p] /\ fd'[p] = fd[p]
        BY <4>1 DEF Goto
      <4>5. RightStep(cmd[p], "open")
        BY DEF RightStep, AllLabels, Writing, Installing, Skilling
      <4>6. CommandOK(p)'
        BY <1>0, <2>1, <4>4, <4>5 DEF CommandOK
      <4>7. Installed(text[p])'
        BY <3>3, <4>4 DEF Installed, Verified, Kept
      <4>8. WritingOK(p)'
        BY <1>0, <2>1, <3>5, <4>4, <4>7 DEF WritingOK, Writing
      <4>. QED
        BY <3>2, <4>2, <4>3, <4>6, <4>8 DEF Good
    <3>. QED
      BY <3>4, <3>5
  <2>. QED
    BY <2>2, <2>3
<1>6. CASE Activate(p)
  <2>1. pc[p] = "check" /\ cmd[p].name = "activate" /\ cmd[p].version \in Version
    BY <1>0, <1>6 DEF Activate, At, RightStep, CommandOK
  <2>2. CASE Verified(cmd[p].version) /\ Replace(p, "active", cmd[p].version, "open")
    <3>1. Installed(cmd[p].version)
      BY <2>1, <2>2 DEF Verified, Installed
    <3>. QED
      BY <1>0, <1>6, <2>1, <2>2, <3>1, Replaces DEF Activate, RightText, storeVars
  <2>3. CASE Goto(p, "failed") /\ UNCHANGED <<cmd, writeVars, diskVars, faults>>
    BY <1>6, <1>f, <2>1, <2>3, Walks DEF Activate, Writing, writeVars, diskVars, storeVars
  <2>. QED
    BY <1>6, <2>2, <2>3 DEF Activate
<1>. QED
  BY <1>1, <1>2, <1>3, <1>4, <1>5, <1>6 DEF StoreStep

\* EnsureUpstream writes no file of these, and only goes on.
LEMMA BundleStepsGood ==
    ASSUME IInv, NEW p \in Proc, BundleStep(p), UNCHANGED storeVars
    PROVE  Good(p)
<1>. USE DEF IInv, Domains, storeVars
<1>0. CommandOK(p) /\ WritingOK(p) /\ RightStep(cmd[p], pc[p])
  BY DEF CommandOK
<1>1. CASE Fetch(p)
  <2>1. pc[p] = "fetch" /\ cmd[p].name = "install"
    BY <1>0, <1>1 DEF Fetch, At, RightStep, Installing
  <2>2. UNCHANGED <<aim, text, fd, live, next, backups, faults>>
    BY <1>1 DEF Fetch, writeVars, diskVars
  <2>3. ASSUME NEW m \in Manifest, Valid(m), cmd' = [cmd EXCEPT ![p].data = Whole(m)], Goto(p, "clear")
        PROVE  Good(p)
    <3>1. Whole(m) = "good"
      BY <2>3 DEF Valid, Whole
    <3>2. pc'[p] = "clear" /\ cmd'[p] = [cmd[p] EXCEPT !.data = "good"]
      BY <2>3, <3>1 DEF Goto
    <3>3. cmd'[p] = [name |-> cmd[p].name, version |-> cmd[p].version, data |-> "good"]
      BY <1>0, <3>2 DEF CommandOK
    <3>4. Others(p) /\ Domains'
      BY <2>2, <2>3 DEF Others, Goto
    <3>5. StoreOK' /\ Kept
      BY <2>2 DEF StoreOK, ActiveText, Installed, Verified, Kept
    <3>6. cmd'[p].name = "install" /\ cmd'[p].version = cmd[p].version /\ cmd'[p].data = "good"
      BY <2>1, <3>3
    <3>7. RightStep(cmd'[p], "clear")
      BY <3>6 DEF RightStep, AllLabels, Writing, Installing, Skilling
    <3>8. CommandOK(p)'
      BY <1>0, <2>1, <3>2, <3>3, <3>6, <3>7 DEF CommandOK
    <3>9. WritingOK(p)'
      BY <1>0, <2>2, <3>2 DEF WritingOK, Writing
    <3>. QED
      BY <3>4, <3>5, <3>8, <3>9 DEF Good
  <2>4. CASE Goto(p, "failed") /\ UNCHANGED cmd
    <3>1. RightStep(cmd[p], "failed")
      BY <2>1 DEF RightStep, AllLabels, Writing, Installing, Skilling
    <3>. QED
      BY <2>1, <2>2, <2>4, <3>1, Walks DEF Writing
  <2>. QED
    BY <1>1, <2>3, <2>4, Zenon DEF Fetch
<1>2. CASE Tear(p)
  <2>1. UNCHANGED <<pc, cmd, aim, text, fd, live, next, backups, faults>>
    BY <1>2 DEF Tear, fileVars, writeVars, diskVars
  <2>. QED
    BY <1>0, <2>1 DEF Good, Others, StoreOK, ActiveText, Installed, Verified, Kept, CommandOK, WritingOK
<1>3. ASSUME Clear(p) \/ Aside(p) \/ MoveIn(p) \/ Verify(p) \/ Discard(p) \/ PutBack(p) \/ Drop(p)
      PROVE  Good(p)
  <2>1. /\ pc[p] \in {"clear", "aside", "movein", "verify", "discard", "putback", "drop"}
        /\ UNCHANGED <<cmd, aim, text, fd, live, next, backups>>
        /\ faults' \in {faults, faults + 1}
    BY <1>3 DEF Clear, Aside, MoveIn, Verify, Discard, PutBack, Drop, Removed, Fault, At, keepFiles,
                writeVars, diskVars
  <2>2. cmd[p].name = "install" /\ (pc[p] \in {"clear", "aside", "movein", "verify"} => cmd[p].data = "good")
    BY <1>0, <2>1 DEF RightStep, Installing
  <2>3. \E l : Goto(p, l) /\ l \in {"movein", "aside", "failed", "verify", "putback", "drop", "discard", "policy"}
               /\ (l \in {"movein", "aside", "verify"} => pc[p] \in {"clear", "aside", "movein"})
    <3>1. CASE Clear(p)
      BY <3>1 DEF Clear, Goto, At
    <3>2. CASE Aside(p)
      BY <3>2 DEF Aside, Goto, At
    <3>3. CASE MoveIn(p) \/ Verify(p) \/ Discard(p) \/ PutBack(p) \/ Drop(p)
      BY <3>3 DEF MoveIn, Verify, Discard, PutBack, Drop, Goto, At
    <3>. QED
      BY <1>3, <3>1, <3>2, <3>3
  <2>4. PICK l : Goto(p, l) /\ l \in {"movein", "aside", "failed", "verify", "putback", "drop", "discard", "policy"}
                 /\ (l \in {"movein", "aside", "verify"} => pc[p] \in {"clear", "aside", "movein"})
    BY <2>3
  <2>5. RightStep(cmd[p], l)
    BY <2>2, <2>4 DEF RightStep, AllLabels, Writing, Installing, Skilling
  <2>. QED
    BY <2>1, <2>4, <2>5, Walks DEF Writing
<1>. QED
  BY <1>1, <1>2, <1>3 DEF BundleStep

\* Plans look at what is there, refuse it or go on to replace it; skills are
\* copied in a directory that nothing else reads.
LEMMA SetupStepsGood ==
    ASSUME IInv, NEW p \in Proc, SetupStep(p), UNCHANGED storeVars
    PROVE  Good(p)
<1>. USE DEF IInv, Domains, storeVars
<1>0. CommandOK(p) /\ WritingOK(p) /\ RightStep(cmd[p], pc[p]) /\ "config" \in File /\ "policy" \in File
  BY DEF CommandOK, File
<1>f. /\ RightStep(cmd[p], "failed") /\ RightStep(cmd[p], "done")
  BY DEF RightStep, AllLabels, Writing, Installing, Skilling
<1>x. ASSUME Fail(p), pc[p] # "idle" PROVE Good(p)
  BY <1>f, <1>x, Walks DEF Fail, Writing, writeVars, diskVars
<1>1. CASE Advisory(p)
  <2>1. pc[p] = "advisory" /\ cmd[p].name = "install"
    BY <1>0, <1>1 DEF Advisory, At, RightStep, Installing
  <2>2. CASE Replace(p, "policy", "advisory", "backup")
    BY <1>0, <2>1, <2>2, Replaces DEF RightText
  <2>3. CASE Goto(p, "default") /\ UNCHANGED <<cmd, writeVars, diskVars, faults>>
    <3>1. RightStep(cmd[p], "default")
      BY <2>1 DEF RightStep, AllLabels, Writing, Installing, Skilling
    <3>. QED
      BY <2>1, <2>3, <3>1, Walks DEF Writing, writeVars, diskVars
  <2>. QED
    BY <1>1, <2>2, <2>3 DEF Advisory
<1>2. ASSUME ConfigPlan(p) \/ Fill(p) PROVE Good(p)
  <2>1. pc[p] \in {"policy", "fill"} /\ cmd[p].name \in {"install", "config"}
    BY <1>0, <1>2 DEF ConfigPlan, Fill, At, RightStep
  <2>2. /\ UNCHANGED <<cmd, aim, text, fd, next, backups>> /\ faults' \in {faults, faults + 1}
        /\ live'["active"] = live["active"] /\ DOMAIN live' = File
    <3>1. /\ UNCHANGED <<cmd, aim, text, fd, next, backups>> /\ faults' \in {faults, faults + 1}
      BY <1>2 DEF ConfigPlan, Fill, Fault, writeVars
    <3>2. \/ live' = live
          \/ \E t \in {Empty, "template"} : live' = [live EXCEPT !["policy"] = t]
      BY <1>2 DEF ConfigPlan, Fill
    <3>3. ASSUME NEW t, live' = [live EXCEPT !["policy"] = t]
          PROVE  live'["active"] = live["active"] /\ DOMAIN live' = File
      BY <3>3
    <3>. QED
      BY <3>1, <3>2, <3>3
  <2>3. \E l \in {"fill", "plan", "failed", "done"} : Goto(p, l) /\ (l = "plan" => cmd[p].name = "install")
    <3>1. CASE ConfigPlan(p)
      BY <3>1 DEF ConfigPlan, Goto
    <3>2. CASE Fill(p)
      BY <3>2 DEF Fill, Goto, Then
    <3>. QED
      BY <1>2, <3>1, <3>2
  <2>4. PICK l \in {"fill", "plan", "failed", "done"} : Goto(p, l) /\ (l = "plan" => cmd[p].name = "install")
    BY <2>3
  <2>5. RightStep(cmd[p], l) /\ pc'[p] = l /\ l \notin Writing
    BY <2>1, <2>4 DEF RightStep, AllLabels, Writing, Installing, Skilling, Configuring, Goto
  <2>6. Others(p) /\ Domains'
    BY <2>2, <2>4 DEF Others, Goto
  <2>7. StoreOK' /\ Kept
    BY <2>2 DEF StoreOK, ActiveText, Installed, Verified, Kept
  <2>8. CommandOK(p)'
    BY <1>0, <2>1, <2>2, <2>5 DEF CommandOK
  <2>9. WritingOK(p)'
    BY <1>0, <2>2, <2>5 DEF WritingOK
  <2>. QED
    BY <2>6, <2>7, <2>8, <2>9 DEF Good
<1>3. ASSUME MCPPlan(p) \/ MCPUninstallPlan(p) \/ MCPRollbackPlan(p) PROVE Good(p)
  <2>1. pc[p] = "plan" /\ cmd[p].name \in Configuring
    BY <1>0, <1>3 DEF MCPPlan, MCPUninstallPlan, MCPRollbackPlan, At, RightStep
  <2>2. Fail(p) \/ \E t : Replace(p, "config", t, "backup")
    <3>1. CASE MCPPlan(p)
      BY <3>1, Zenon DEF MCPPlan, ReplaceOrFail
    <3>2. CASE MCPUninstallPlan(p)
      BY <3>2, Zenon DEF MCPUninstallPlan, ReplaceOrFail
    <3>3. CASE MCPRollbackPlan(p)
      BY <3>3, Zenon DEF MCPRollbackPlan
    <3>. QED
      BY <1>3, <3>1, <3>2, <3>3
  <2>3. ASSUME NEW t, Replace(p, "config", t, "backup") PROVE Good(p)
    BY <1>0, <2>1, <2>3, Replaces DEF RightText
  <2>. QED
    BY <1>x, <2>1, <2>2, <2>3
<1>4. ASSUME FindSkill(p) \/ SaveSkill(p) \/ RemoveLegacy(p) \/ CopySkill(p) \/ Mark(p) PROVE Good(p)
  <2>1. pc[p] \in Skilling /\ cmd[p].name = "skills"
    BY <1>0, <1>4 DEF FindSkill, SaveSkill, RemoveLegacy, CopySkill, Mark, At, RightStep, Skilling
  <2>2. UNCHANGED <<cmd, aim, text, fd, live, next, backups, faults>>
    BY <1>4 DEF FindSkill, SaveSkill, RemoveLegacy, CopySkill, Mark, writeVars, diskVars
  <2>3. \A l \in Skilling : RightStep(cmd[p], l)
    BY <2>1 DEF RightStep, AllLabels, Writing, Installing, Skilling
  <2>4. (\E l \in Skilling \cup {"failed", "done"} : Goto(p, l)) \/ UNCHANGED pc
    BY <1>4 DEF FindSkill, SaveSkill, RemoveLegacy, CopySkill, Mark, Goto, Skilling
  <2>5. CASE UNCHANGED pc
    BY <1>0, <2>2, <2>5 DEF Good, Others, StoreOK, ActiveText, Installed, Verified, Kept, CommandOK, WritingOK
  <2>6. ASSUME NEW l \in Skilling \cup {"failed", "done"}, Goto(p, l) PROVE Good(p)
    BY <1>f, <2>1, <2>2, <2>3, <2>6, Walks DEF Writing, Skilling
  <2>. QED
    BY <2>4, <2>5, <2>6
<1>. QED
  BY <1>1, <1>2, <1>3, <1>4 DEF SetupStep

LEMMA StepGood == ASSUME IInv, NEW p \in Proc, Step(p) PROVE Good(p)
BY FileStepsGood, EndsGood, StartGood, StoreStepsGood, BundleStepsGood, SetupStepsGood DEF Step

\* The steps of the commands, and of the user.
LEMMA NextIInv == IInv /\ [Next]_vars => IInv'
<1>. SUFFICES ASSUME IInv, [Next]_vars PROVE IInv'
  OBVIOUS
<1>1. ASSUME NEW p \in Proc, Step(p) PROVE IInv'
  <2>1. Good(p)
    BY <1>1, StepGood
  <2>2. ASSUME NEW q \in Proc, q # p PROVE CommandOK(q)' /\ WritingOK(q)'
    <3>1. CommandOK(q) /\ WritingOK(q)
      BY DEF IInv
    <3>2. /\ UNCHANGED <<pc[q], cmd[q], aim[q], text[q]>> /\ fd'[q] \in {fd[q], "live", "lost"}
          /\ Kept
      BY <2>1, <2>2 DEF Good, Others
    <3>3. CommandOK(q)'
      BY <3>1, <3>2 DEF CommandOK
    <3>4. PICK t : t = text[q]
      OBVIOUS
    <3>5. Installed(text[q]) => Installed(text[q])'
      BY <3>2, <3>4 DEF Installed, Verified, Kept
    <3>6. WritingOK(q)'
      BY <3>1, <3>2, <3>5 DEF WritingOK
    <3>. QED
      BY <3>3, <3>6
  <2>. QED
    BY <2>1, <2>2 DEF Good, IInv
<1>2. CASE Edit
  <2>1. /\ UNCHANGED <<pc, cmd, aim, text, fd, next, backups, faults, versions, trained>>
        /\ live'["active"] = live["active"] /\ DOMAIN live' = File
    BY <1>2 DEF Edit, UserEdit, writeVars, storeVars, IInv, Domains
  <2>. QED
    BY <2>1 DEF IInv, Domains, StoreOK, ActiveText, Installed, Verified, Kept, CommandOK, WritingOK
<1>3. CASE UNCHANGED vars
  BY <1>3 DEF vars, fileVars, writeVars, diskVars, storeVars, IInv, Domains, StoreOK, ActiveText,
              Installed, Verified, Kept, CommandOK, WritingOK
<1>. QED
  BY <1>1, <1>2, <1>3 DEF Next

LEMMA InitIInv == Init => IInv
<1>. SUFFICES ASSUME Init PROVE IInv
  OBVIOUS
<1>. USE DEF Init, FilesInit
<1>1. PICK w \in World : /\ live = [active |-> w.active, config |-> w.config, policy |-> w.policy]
                         /\ versions = w.versions
  OBVIOUS
<1>2. Domains
  BY <1>1, InstallerAssumption DEF Domains, File
<1>3. StoreOK
  BY <1>1, InstallerAssumption, FilesAssumption DEF StoreOK, ActiveText, Installed, Verified, Kept, File
<1>4. ASSUME NEW p \in Proc PROVE CommandOK(p) /\ WritingOK(p)
  BY <1>4 DEF CommandOK, WritingOK, RightStep, Idle, AllLabels, Writing, Installing, Skilling, File
<1>. QED
  BY <1>2, <1>3, <1>4 DEF IInv

\* The active version is installed, whatever commands run together, fail and
\* are killed (Install, Activate, activate).
THEOREM ActiveVersionInstalled == Spec => []ActiveIsInstalled
<1>1. IInv => ActiveIsInstalled
  BY StoreAssumption DEF IInv, StoreOK, ActiveText, ActiveIsInstalled
<1>. QED
  BY InitIInv, NextIInv, <1>1, PTL DEF Spec

-----------------------------------------------------------------------------
(* Sums over the answers of a data set.  Induction is over finite sets of  *)
(* answers, with the set of those for which the claim holds in the place of *)
(* a predicate.                                                            *)

LEMMA LeastNumber ==
    ASSUME NEW M \in SUBSET Nat, M # {}
    PROVE  \E x \in M : \A y \in M : x <= y
<1>1. IsWellFoundedOn(OpToRel(<, Nat), Nat)
  BY NatLessThanWellFounded
<1>2. PICK x \in M : \A y \in M : ~ (<<y, x>> \in OpToRel(<, Nat))
  BY <1>1, WFMin
<1>3. \A y \in M : x <= y
  <2> SUFFICES ASSUME NEW y \in M, y < x PROVE FALSE
    OBVIOUS
  <2>1. <<y, x>> \in Nat \X Nat /\ <<y, x>>[1] < <<y, x>>[2]
    OBVIOUS
  <2>. QED
    BY <2>1, <1>2 DEF OpToRel
<1>. QED
  BY <1>3

LEMMA InductionOnSets ==
    ASSUME NEW A, IsFiniteSet(A), NEW Holds,
           \A s \in SUBSET A : (\A t \in SUBSET s : t # s => t \in Holds) => s \in Holds
    PROVE  \A s \in SUBSET A : s \in Holds
<1> DEFINE Sizes == {Cardinality(s) : s \in (SUBSET A) \ Holds}
<1>1. \A s \in SUBSET A : /\ IsFiniteSet(s) /\ Cardinality(s) \in Nat
                          /\ \A t \in SUBSET s : t # s => Cardinality(t) \in Nat /\ Cardinality(t) < Cardinality(s)
  <2>1. \A s \in SUBSET A : IsFiniteSet(s) /\ Cardinality(s) \in Nat
    BY FS_Subset, FS_CardinalityType
  <2>2. ASSUME NEW s \in SUBSET A, NEW t \in SUBSET s, t # s
        PROVE  Cardinality(t) \in Nat /\ Cardinality(t) < Cardinality(s)
    <3>1. IsFiniteSet(s) /\ Cardinality(s) \in Nat /\ t \in SUBSET A
      BY <2>1, <2>2
    <3>2. Cardinality(t) \in Nat /\ Cardinality(t) <= Cardinality(s)
      BY <2>1, <3>1, FS_Subset
    <3>3. Cardinality(t) # Cardinality(s)
      BY <2>2, <3>1, FS_Subset
    <3>. QED
      BY <3>1, <3>2, <3>3
  <2>. QED
    BY <2>1, <2>2
<1>2. ASSUME Sizes # {} PROVE FALSE
  <2>1. Sizes \in SUBSET Nat
    BY <1>1
  <2>2. PICK m \in Sizes : \A k \in Sizes : m <= k
    <3>. HIDE DEF Sizes
    <3>. QED
      BY <1>2, <2>1, LeastNumber
  <2>3. PICK s \in (SUBSET A) \ Holds : Cardinality(s) = m
    OBVIOUS
  <2>4. PICK t \in SUBSET s : t # s /\ t \notin Holds
    BY <2>3
  <2>5. Cardinality(t) \in Sizes /\ Cardinality(t) \in Nat /\ m \in Nat /\ Cardinality(t) < m
    BY <1>1, <2>1, <2>3, <2>4
  <2>6. m <= Cardinality(t)
    BY <2>2, <2>5
  <2>. QED
    BY <2>5, <2>6
<1>. QED
  BY <1>2

Chosen(s) == CHOOSE x \in s : TRUE
Left(s) == s \ {Chosen(s)}

\* The equation of the function that Count applies.
Adds(g, S) == g = [s \in SUBSET S |-> IF s = {} THEN 0 ELSE Chosen(s).n + g[Left(s)]]

LEMMA CountIs == ASSUME NEW S PROVE Count(S) = (CHOOSE g : Adds(g, S))[S]
BY DEF Count, MapThenSumSet, MapThenFoldSet, Adds, Chosen, Left

LEMMA LeftIsLess ==
    ASSUME NEW s, s # {}
    PROVE  Chosen(s) \in s /\ Left(s) \in SUBSET s /\ Left(s) # s
<1>1. Chosen(s) \in s
  BY DEF Chosen
<1>. QED
  BY <1>1 DEF Left

\* There is such a function for every finite set, by adding one size of subsets
\* after the other.
LEMMA AddsExists ==
    ASSUME NEW S, IsFiniteSet(S)
    PROVE  \E g : Adds(g, S)
<1> DEFINE Upto(k) == {s \in SUBSET S : Cardinality(s) <= k}
           Part(g, k) == g = [s \in Upto(k) |-> IF s = {} THEN 0 ELSE Chosen(s).n + g[Left(s)]]
           Bad == {k \in Nat : ~ \E g : Part(g, k)}
<1>1. \A s \in SUBSET S : IsFiniteSet(s) /\ Cardinality(s) \in Nat /\ Cardinality(s) <= Cardinality(S)
  BY FS_Subset, FS_CardinalityType
<1>2. ASSUME NEW k \in Nat, NEW s \in Upto(k), s # {}
      PROVE  Left(s) \in Upto(k) /\ (k # 0 => Left(s) \in Upto(k - 1)) /\ k # 0
  <2>1. s \in SUBSET S /\ Chosen(s) \in s /\ IsFiniteSet(s) /\ Cardinality(s) \in Nat /\ Cardinality(s) <= k
    BY <1>1, <1>2, LeftIsLess
  <2>2. Cardinality(Left(s)) = Cardinality(s) - 1 /\ Left(s) \in SUBSET S
    BY <2>1, FS_RemoveElement DEF Left
  <2>3. Cardinality(s) # 0
    BY <1>2, <2>1, FS_EmptySet
  <2>. QED
    BY <2>1, <2>2, <2>3
<1>3. ASSUME Bad # {} PROVE FALSE
  <2>1. PICK m \in Bad : \A k \in Bad : m <= k
    <3>1. Bad \in SUBSET Nat
      OBVIOUS
    <3>. HIDE DEF Bad
    <3>. QED
      BY <1>3, <3>1, LeastNumber
  <2>2. CASE m = 0
    <3> DEFINE g == [s \in Upto(0) |-> 0]
    <3>1. \A s \in Upto(0) : s = {}
      BY <1>2
    <3>2. Part(g, 0)
      BY <3>1
    <3>. QED
      BY <2>2, <3>2
  <2>3. CASE m # 0
    <3>1. m \in Nat /\ m - 1 \in Nat /\ m - 1 \notin Bad
      <4>1. m \in Nat
        BY <2>1
      <4>. HIDE DEF Bad
      <4>. QED
        BY <2>1, <2>3, <4>1
    <3>2. PICK g : Part(g, m - 1)
      BY <3>1
    <3> DEFINE h == [s \in Upto(m) |-> IF s = {} THEN 0 ELSE Chosen(s).n + g[Left(s)]]
    <3>3. ASSUME NEW s \in Upto(m), s # {} PROVE g[Left(s)] = h[Left(s)]
      <4>1. Left(s) \in Upto(m) /\ Left(s) \in Upto(m - 1)
        BY <1>2, <2>3, <3>1, <3>3
      <4> DEFINE t == Left(s)
      <4>. HIDE DEF t, Upto
      <4>2. t \in Upto(m) /\ t \in Upto(m - 1)
        BY <4>1 DEF t
      <4>3. g[t] = IF t = {} THEN 0 ELSE Chosen(t).n + g[Left(t)]
        BY <3>2, <4>2
      <4>4. h[t] = IF t = {} THEN 0 ELSE Chosen(t).n + g[Left(t)]
        BY <4>2
      <4>. QED
        BY <4>3, <4>4 DEF t
    <3>4. h = [s \in Upto(m) |-> IF s = {} THEN 0 ELSE Chosen(s).n + h[Left(s)]]
      <4> DEFINE r == h
      <4>1. r = [s \in Upto(m) |-> IF s = {} THEN 0 ELSE Chosen(s).n + g[Left(s)]]
        OBVIOUS
      <4>2. \A s \in Upto(m) : s # {} => g[Left(s)] = r[Left(s)]
        BY <3>3
      <4>. HIDE DEF r, Upto
      <4>3. r = [s \in Upto(m) |-> IF s = {} THEN 0 ELSE Chosen(s).n + r[Left(s)]]
        BY <4>1, <4>2
      <4>. QED
        BY <4>3 DEF r
    <3>5. Part(h, m)
      <4>. HIDE DEF h, Upto
      <4>. QED
        BY <3>4
    <3>. HIDE DEF h, Part
    <3>6. \E f : Part(f, m)
      BY <3>5
    <3>. QED
      BY <2>1, <3>6
  <2>. QED
    BY <2>2, <2>3
<1>4. Cardinality(S) \in Nat /\ Upto(Cardinality(S)) = SUBSET S
  BY <1>1, FS_CardinalityType
<1>5. \E g : Part(g, Cardinality(S))
  <2>. HIDE DEF Part
  <2>. QED
    BY <1>3, <1>4
<1>. QED
  BY <1>4, <1>5 DEF Adds

\* Two such functions agree where both are defined.
LEMMA AddsAgree ==
    ASSUME NEW S, IsFiniteSet(S), NEW T, NEW g, Adds(g, S), NEW h, Adds(h, T)
    PROVE  \A s \in SUBSET S : s \in SUBSET T => g[s] = h[s]
<1> DEFINE Holds == {s \in SUBSET S : s \in SUBSET T => g[s] = h[s]}
<1>1. ASSUME NEW s \in SUBSET S, \A t \in SUBSET s : t # s => t \in Holds
      PROVE  s \in Holds
  <2>. SUFFICES ASSUME s \in SUBSET T PROVE g[s] = h[s]
    OBVIOUS
  <2>1. g[s] = IF s = {} THEN 0 ELSE Chosen(s).n + g[Left(s)]
    BY DEF Adds
  <2>2. h[s] = IF s = {} THEN 0 ELSE Chosen(s).n + h[Left(s)]
    BY DEF Adds
  <2>3. ASSUME s # {} PROVE g[Left(s)] = h[Left(s)]
    BY <1>1, <2>3, LeftIsLess
  <2>. HIDE DEF Holds
  <2>. QED
    BY <2>1, <2>2, <2>3
<1>. HIDE DEF Holds
<1>2. \A s \in SUBSET S : s \in Holds
  BY <1>1, InductionOnSets
<1>. QED
  BY <1>2 DEF Holds

\* Count adds one answer to the rest.
LEMMA CountStep ==
    ASSUME NEW S, IsFiniteSet(S)
    PROVE  Count(S) = IF S = {} THEN 0 ELSE Chosen(S).n + Count(Left(S))
<1> DEFINE g == CHOOSE f : Adds(f, S)
<1>1. Adds(g, S)
  BY AddsExists
<1>. HIDE DEF g
<1>2. g[S] = IF S = {} THEN 0 ELSE Chosen(S).n + g[Left(S)]
  BY <1>1 DEF Adds
<1>3. ASSUME S # {} PROVE g[Left(S)] = Count(Left(S))
  <2> DEFINE T == Left(S)
             h == CHOOSE f : Adds(f, T)
  <2>1. T \in SUBSET S /\ IsFiniteSet(T)
    BY <1>3, LeftIsLess, FS_Subset
  <2>2. Adds(h, T)
    <3>. HIDE DEF T
    <3>. QED
      BY <2>1, AddsExists
  <2>3. Count(T) = h[T]
    BY CountIs
  <2>. HIDE DEF h, T
  <2>4. g[T] = h[T]
    BY <1>1, <2>1, <2>2, AddsAgree
  <2>. QED
    BY <2>3, <2>4 DEF T
<1>. QED
  BY <1>2, <1>3, CountIs DEF g

\* Sets of answers with numbers.
Counts(A) == IsFiniteSet(A) /\ \A a \in A : a.n \in Nat

LEMMA CountType ==
    ASSUME NEW A, Counts(A)
    PROVE  \A s \in SUBSET A : Count(s) \in Nat
<1> DEFINE Holds == {s \in SUBSET A : Count(s) \in Nat}
<1>1. ASSUME NEW s \in SUBSET A, \A t \in SUBSET s : t # s => t \in Holds
      PROVE  s \in Holds
  <2>1. IsFiniteSet(s)
    BY FS_Subset DEF Counts
  <2>2. CASE s = {}
    BY <2>1, <2>2, CountStep
  <2>3. CASE s # {}
    <3>1. Chosen(s) \in s /\ Count(Left(s)) \in Nat
      BY <1>1, <2>3, LeftIsLess
    <3>2. Chosen(s).n \in Nat
      BY <3>1 DEF Counts
    <3>. QED
      BY <2>1, <2>3, <3>1, <3>2, CountStep
  <2>. QED
    BY <2>2, <2>3
<1>. HIDE DEF Holds
<1>2. \A s \in SUBSET A : s \in Holds
  BY <1>1, InductionOnSets DEF Counts
<1>. QED
  BY <1>2 DEF Holds

\* ... whichever answer that is.
LEMMA CountOne ==
    ASSUME NEW A, Counts(A)
    PROVE  \A s \in SUBSET A : \A a \in s : Count(s) = a.n + Count(s \ {a})
<1> DEFINE Holds == {s \in SUBSET A : \A a \in s : Count(s) = a.n + Count(s \ {a})}
<1>1. ASSUME NEW s \in SUBSET A, \A t \in SUBSET s : t # s => t \in Holds
      PROVE  s \in Holds
  <2>. SUFFICES ASSUME NEW a \in s PROVE Count(s) = a.n + Count(s \ {a})
    OBVIOUS
  <2> DEFINE x == Chosen(s)
  <2>1. x \in s /\ IsFiniteSet(s) /\ IsFiniteSet(s \ {a}) /\ Left(s) = s \ {x}
    BY FS_Subset, LeftIsLess DEF Counts, Left
  <2>2. Count(s) = x.n + Count(s \ {x})
    BY <2>1, CountStep
  <2>. HIDE DEF x
  <2>3. CASE x = a
    BY <2>2, <2>3
  <2>4. CASE x # a
    <3>1. s \ {x} \in Holds /\ s \ {a} \in Holds
      BY <1>1, <2>1
    <3>2. Count(s \ {x}) = a.n + Count((s \ {x}) \ {a})
      BY <2>1, <2>4, <3>1
    <3>3. Count(s \ {a}) = x.n + Count((s \ {a}) \ {x})
      BY <2>1, <2>4, <3>1
    <3>4. (s \ {x}) \ {a} = (s \ {a}) \ {x}
      OBVIOUS
    <3>5. /\ x.n \in Nat /\ a.n \in Nat
          /\ Count((s \ {a}) \ {x}) \in Nat
      BY <2>1, CountType DEF Counts
    <3>. HIDE DEF Holds
    <3>6. Count(s) = x.n + (a.n + Count((s \ {a}) \ {x}))
      BY <2>2, <3>2, <3>4
    <3>. QED
      BY <3>3, <3>5, <3>6
  <2>. QED
    BY <2>3, <2>4
<1>. HIDE DEF Holds
<1>2. \A s \in SUBSET A : s \in Holds
  BY <1>1, InductionOnSets DEF Counts
<1>. QED
  BY <1>2 DEF Holds

\* A part counts at most as much as the whole.
LEMMA CountPart ==
    ASSUME NEW A, Counts(A)
    PROVE  \A s \in SUBSET A : \A t \in SUBSET s : Count(t) <= Count(s)
<1> DEFINE Holds == {s \in SUBSET A : \A t \in SUBSET s : Count(t) <= Count(s)}
<1>1. ASSUME NEW s \in SUBSET A, \A t \in SUBSET s : t # s => t \in Holds
      PROVE  s \in Holds
  <2>. SUFFICES ASSUME NEW t \in SUBSET s PROVE Count(t) <= Count(s)
    OBVIOUS
  <2>0. Count(t) \in Nat /\ Count(s) \in Nat
    BY CountType
  <2>1. CASE t = s
    BY <2>0, <2>1
  <2>2. CASE t # s
    <3>1. PICK a \in s : a \notin t
      BY <2>2
    <3>2. s \ {a} \in Holds /\ t \in SUBSET (s \ {a})
      BY <1>1, <3>1
    <3>3. Count(t) <= Count(s \ {a})
      BY <3>2
    <3>4. Count(s) = a.n + Count(s \ {a}) /\ a.n \in Nat /\ Count(s \ {a}) \in Nat
      BY CountOne, CountType DEF Counts
    <3>. HIDE DEF Holds
    <3>. QED
      BY <2>0, <3>3, <3>4
  <2>. QED
    BY <2>1, <2>2
<1>. HIDE DEF Holds
<1>2. \A s \in SUBSET A : s \in Holds
  BY <1>1, InductionOnSets DEF Counts
<1>. QED
  BY <1>2 DEF Holds

\* A part that counts as much as the whole leaves out nothing that counts.
LEMMA CountAll ==
    ASSUME NEW A, Counts(A), NEW t \in SUBSET A, Count(t) = Count(A)
    PROVE  \A a \in A : a.n > 0 => a \in t
<1>. SUFFICES ASSUME NEW a \in A, a.n > 0, a \notin t PROVE FALSE
  OBVIOUS
<1>1. t \in SUBSET (A \ {a}) /\ A \ {a} \in SUBSET A /\ A \in SUBSET A
  OBVIOUS
<1>2. Count(t) <= Count(A \ {a})
  BY <1>1, CountPart
<1>3. Count(A) = a.n + Count(A \ {a})
  BY <1>1, CountOne
<1>4. Count(A \ {a}) \in Nat /\ a.n \in Nat
  BY <1>1, CountType DEF Counts
<1>. QED
  BY <1>2, <1>3, <1>4
\* Precise says the same of no answers as the gate, which does not ask.
LEMMA NoneIsPrecise ==
    ASSUME NEW A, Counts(A), Count(A) = 0
    PROVE  Precise(A)
<1>1. Right(A) \in SUBSET A
  BY DEF Right
<1>2. Count(Right(A)) \in Nat
  BY <1>1, CountType
<1>. QED
  BY <1>2 DEF Precise

\* What the gate lets pass, example by example.
LEMMA GateMeans ==
    ASSUME NEW d \in DataSet, Accepted(d), MeetsGate(d)
    PROVE  /\ \A e \in d.examples : e.reviewed /\ e.english
           /\ \A e, f \in d.examples : e.split # f.split => e.task # f.task
           /\ \A head \in DOMAIN Labels : \A l \in Labels[head] :
                 /\ Enough({a \in Answers(d, head) : a.gold = l})
                 /\ Precise({a \in Sure(Answers(d, head)) : a.got = l})
           /\ \A head \in DOMAIN Labels : d.ece[head] <= 10 /\ Count(Sure(Answers(d, head))) > 0
           /\ \A a \in d.answers : a.gold = "high" /\ a.n > 0 => a.got = "high"
<1>1. Counts(d.answers)
  BY DataAssumption DEF Counts
<1>2. \A A \in SUBSET d.answers : Counts(A) /\ Count(A) \in Nat
  <2>1. \A A \in SUBSET d.answers : Counts(A)
    BY <1>1, FS_Subset DEF Counts
  <2>. QED
    BY <1>1, <2>1, CountType
<1>3. /\ \A e \in d.examples : e.reviewed /\ e.english
      /\ \A e, f \in d.examples : e.split # f.split => e.task # f.task
  BY DEF Accepted
<1>4. ASSUME NEW head \in DOMAIN Labels
      PROVE  /\ d.ece[head] <= 10 /\ Count(Sure(Answers(d, head))) > 0
             /\ \A l \in Labels[head] :
                   /\ Enough({a \in Answers(d, head) : a.gold = l})
                   /\ Precise({a \in Sure(Answers(d, head)) : a.got = l})
  <2>1. HeadPasses(d, head)
    BY DEF MeetsGate
  <2>2. ASSUME NEW l \in Labels[head] PROVE Precise({a \in Sure(Answers(d, head)) : a.got = l})
    <3> DEFINE guesses == {a \in Sure(Answers(d, head)) : a.got = l}
    <3>1. guesses \in SUBSET d.answers
      BY DEF Sure, Answers
    <3>2. Count(guesses) > 0 => Precise(guesses)
      BY <2>1 DEF HeadPasses
    <3>. HIDE DEF guesses
    <3>3. Counts(guesses) /\ Count(guesses) \in Nat
      BY <1>2, <3>1
    <3>4. Count(guesses) > 0 \/ Count(guesses) = 0
      BY <3>3
    <3>5. Precise(guesses)
      BY <3>2, <3>3, <3>4, NoneIsPrecise
    <3>. QED
      BY <3>5 DEF guesses
  <2>3. /\ d.ece[head] <= 10 /\ Count(Sure(Answers(d, head))) > 0
        /\ \A l \in Labels[head] : Enough({a \in Answers(d, head) : a.gold = l})
    BY <2>1 DEF HeadPasses, Enough
  <2>. QED
    BY <2>2, <2>3
<1>5. ASSUME NEW a \in d.answers, a.gold = "high", a.n > 0 PROVE a.got = "high"
  <2>1. a.head = "risk"
    BY <1>5, DataAssumption DEF Labels
  <2>2. a \in HighRisk(d) /\ HighRisk(d) \in SUBSET d.answers
    BY <1>5, <2>1 DEF HighRisk, Answers
  <2>3. Right(HighRisk(d)) \in SUBSET HighRisk(d) /\ Count(Right(HighRisk(d))) = Count(HighRisk(d))
    BY DEF MeetsGate, HighRiskRecalled, Right
  <2>4. a \in Right(HighRisk(d))
    BY <1>2, <1>5, <2>2, <2>3, CountAll
  <2>. QED
    BY <1>5, <2>4 DEF Right
<1>. QED
  BY <1>3, <1>4, <1>5

\* Every version that was trained here was trained on accepted data and met the
\* gate, whatever its sums add up to: enough examples of every label, 95 of 100
\* sure answers right for each, no high risk missed (train, evaluateDataset).
THEOREM CandidatesMeetGate == Spec => []TrainedMeetsGate
<1>1. IInv => TrainedMeetsGate
  BY GateMeans DEF IInv, StoreOK, TrainedMeetsGate
<1>. QED
  BY InitIInv, NextIInv, <1>1, PTL DEF Spec

-----------------------------------------------------------------------------
(* Replacing the active model.                                             *)

\* A step that leaves temporary files and the active model alone.
Calm(p) == /\ pc'[p] \notin {"write", "rename"} /\ next' = next /\ live'["active"] = live["active"]
           /\ \A q \in Proc \ {p} : fd'[q] = fd[q]

\* Only writeBackupAndAtomic and activate touch them.
LEMMA OthersAreCalm ==
    ASSUME IInv, NEW p \in Proc, Step(p), ~FileStep(p)
    PROVE  Calm(p)
<1>. USE DEF IInv, Domains, Calm
<1>1. CASE Start(p)
  <2>1. PICK name \in May[p] : Goto(p, First[name])
    BY <1>1 DEF Start
  <2>2. First[name] \notin {"write", "rename"}
    BY MayAssumption DEF First
  <2>. QED
    BY <1>1, <2>1, <2>2 DEF Start, Goto, writeVars, diskVars
<1>2. CASE GiveUp(p) \/ Return(p) \/ Crash(p)
  BY <1>2 DEF GiveUp, Return, Crash, Stop, Goto, writeVars, diskVars
<1>3. CASE StoreStep(p)
  <2>1. CASE Default(p) \/ Train(p) \/ Download(p) \/ Stage(p)
    BY <2>1 DEF Default, Train, Download, Stage, Goto, writeVars, diskVars
  <2>2. CASE Publish(p) \/ Activate(p)
    BY <2>2 DEF Publish, Activate, Replace, Goto, writeVars, diskVars
  <2>. QED
    BY <1>3, <2>1, <2>2 DEF StoreStep
<1>4. CASE BundleStep(p)
  <2>1. CASE Fetch(p) \/ Clear(p) \/ Aside(p)
    BY <2>1 DEF Fetch, Clear, Aside, keepFiles, Goto, writeVars, diskVars
  <2>2. CASE MoveIn(p) \/ Verify(p) \/ Discard(p) \/ PutBack(p) \/ Drop(p)
    BY <2>2 DEF MoveIn, Verify, Discard, PutBack, Drop, keepFiles, Goto, writeVars, diskVars
  <2>3. CASE Tear(p)
    BY <2>3 DEF Tear, At, fileVars, writeVars, diskVars
  <2>. QED
    BY <1>4, <2>1, <2>2, <2>3 DEF BundleStep
<1>5. CASE SetupStep(p)
  <2>1. CASE Advisory(p)
    BY <2>1 DEF Advisory, Replace, Goto, writeVars, diskVars
  <2>2. CASE ConfigPlan(p)
    <3>1. CASE live' = [live EXCEPT !["policy"] = Empty] /\ Goto(p, "fill")
      BY <2>2, <3>1 DEF ConfigPlan, Goto, writeVars
    <3>2. CASE live' = live
      BY <2>2, <3>2 DEF ConfigPlan, Goto, writeVars
    <3>. QED
      BY <2>2, <3>1, <3>2 DEF ConfigPlan
  <2>3. CASE Fill(p)
    <3>1. CASE live' = [live EXCEPT !["policy"] = "template"]
      BY <2>3, <3>1 DEF Fill, Goto, Then, writeVars
    <3>2. CASE live' = live
      BY <2>3, <3>2 DEF Fill, Goto, Then, writeVars
    <3>. QED
      BY <2>3, <3>1, <3>2 DEF Fill
  <2>4. ASSUME NEW t, Replace(p, "config", t, "backup") PROVE Calm(p)
    BY <2>4 DEF Replace, Goto, diskVars
  <2>5. ASSUME Fail(p) PROVE Calm(p)
    BY <2>5 DEF Fail, Goto, writeVars, diskVars
  <2>6. CASE MCPPlan(p) \/ MCPUninstallPlan(p) \/ MCPRollbackPlan(p)
    <3>1. Fail(p) \/ \E t : Replace(p, "config", t, "backup")
      BY <2>6, Zenon DEF MCPPlan, MCPUninstallPlan, MCPRollbackPlan, ReplaceOrFail
    <3>. QED
      BY <2>4, <2>5, <3>1
  <2>7. CASE FindSkill(p) \/ SaveSkill(p) \/ RemoveLegacy(p) \/ CopySkill(p) \/ Mark(p)
    BY <2>7 DEF FindSkill, SaveSkill, RemoveLegacy, CopySkill, Mark, At, Goto, writeVars, diskVars
  <2>. QED
    BY <1>5, <2>1, <2>2, <2>3, <2>6, <2>7 DEF SetupStep
<1>. QED
  BY <1>1, <1>2, <1>3, <1>4, <1>5 DEF Step

\* The contents a file may have besides a text are three.
LEMMA Distinct == NoFile # Empty /\ NoFile # Torn /\ Empty # Torn
<1>1. ASSUME NEW a, NEW b PROVE Cardinality({a, b}) <= 2
  <2>1. IsFiniteSet({a}) /\ Cardinality({a}) = 1
    BY FS_Singleton
  <2>2. Cardinality({a} \cup {b}) <= 2 /\ {a} \cup {b} = {a, b}
    BY <2>1, FS_AddElement
  <2>. QED
    BY <2>2
<1>2. ASSUME NEW a, NEW b, {NoFile, Empty, Torn} = {a, b} PROVE FALSE
  <2>1. Cardinality({a, b}) <= 2 /\ Cardinality({a, b}) = 3
    BY <1>1, <1>2, FilesAssumption
  <2>. QED
    BY <2>1
<1>3. CASE NoFile = Empty
  <2>1. {NoFile, Empty, Torn} = {Empty, Torn}
    BY <1>3
  <2>. QED
    BY <1>2, <2>1
<1>4. CASE NoFile = Torn
  <2>1. {NoFile, Empty, Torn} = {Empty, Torn}
    BY <1>4
  <2>. QED
    BY <1>2, <2>1
<1>5. CASE Empty = Torn
  <2>1. {NoFile, Empty, Torn} = {NoFile, Torn}
    BY <1>5
  <2>. QED
    BY <1>2, <2>1
<1>. QED
  BY <1>3, <1>4, <1>5

\* A set of which no two are members at once.
LEMMA AtMostOne ==
    ASSUME NEW W \in SUBSET Proc, ~(Cardinality(W) > 1)
    PROVE  \A p, q \in W : p = q
<1>. SUFFICES ASSUME NEW p \in W, NEW q \in W, p # q PROVE FALSE
  OBVIOUS
<1>1. IsFiniteSet(W) /\ Cardinality(W) \in Nat
  BY FilesAssumption, FS_Subset, FS_CardinalityType
<1>2. Cardinality({p, q}) = 2
  <2>1. IsFiniteSet({p}) /\ Cardinality({p}) = 1
    BY FS_Singleton
  <2>2. Cardinality({p} \cup {q}) = Cardinality({p}) + 1
    BY <2>1, FS_AddElement
  <2>3. {p} \cup {q} = {p, q}
    OBVIOUS
  <2>. QED
    BY <2>1, <2>2, <2>3
<1>3. Cardinality({p, q}) <= Cardinality(W)
  BY <1>1, FS_Subset
<1>. QED
  BY <1>1, <1>2, <1>3

\* Write and Rename change the one file, and the temporary file of it.
LEMMA OneFileAtATime ==
    ASSUME Domains, NEW p \in Proc, Write(p) \/ Rename(p), NEW f \in File, f # aim[p]
    PROVE  live'[f] = live[f] /\ next'[f] = next[f]
<1>. USE DEF Domains
<1>1. CASE Write(p)
  <2>1. \/ live' = live /\ next' = next
        \/ live' = live /\ \E t : next' = [next EXCEPT ![aim[p]] = t]
        \/ next' = next /\ \E t : live' = [live EXCEPT ![aim[p]] = t]
    BY <1>1, Zenon DEF Write
  <2>2. ASSUME NEW t, live' = live, next' = [next EXCEPT ![aim[p]] = t]
        PROVE  live'[f] = live[f] /\ next'[f] = next[f]
    BY <2>2
  <2>3. ASSUME NEW t, next' = next, live' = [live EXCEPT ![aim[p]] = t]
        PROVE  live'[f] = live[f] /\ next'[f] = next[f]
    BY <2>3
  <2>. QED
    BY <2>1, <2>2, <2>3
<1>2. CASE Rename(p)
  <2>1. CASE UNCHANGED <<live, next>>
    BY <2>1
  <2>2. CASE live' = [live EXCEPT ![aim[p]] = next[aim[p]]] /\ next' = [next EXCEPT ![aim[p]] = NoFile]
    BY <2>2
  <2>. QED
    BY <1>2, <2>1, <2>2 DEF Rename
<1>. QED
  BY <1>1, <1>2

\* The rename takes what is in the temporary file, or nothing.
LEMMA RenameTakesNext ==
    ASSUME Domains, NEW p \in Proc, Rename(p), aim[p] \in File
    PROVE  \/ UNCHANGED <<live, next, fd>> /\ Goto(p, "failed") /\ next[aim[p]] = NoFile
           \/ /\ live'[aim[p]] = next[aim[p]] /\ next'[aim[p]] = NoFile
              /\ next[aim[p]] # NoFile /\ Goto(p, Then(p, Phase[aim[p]]))
<1>. USE DEF Domains
<1>1. CASE next[aim[p]] = NoFile
  BY <1>1 DEF Rename
<1>2. CASE next[aim[p]] # NoFile
  <2>1. live' = [live EXCEPT ![aim[p]] = next[aim[p]]] /\ next' = [next EXCEPT ![aim[p]] = NoFile]
    BY <1>2 DEF Rename
  <2>. QED
    BY <1>2, <2>1 DEF Rename
<1>. QED
  BY <1>1, <1>2

\* The temporary file belongs to the one that writes it.
Owned(p) == /\ pc[p] = "write" => fd[p] = "next" /\ next["active"] = Empty
            /\ pc[p] = "rename" => next["active"] = text[p]

LEMMA AloneStep == IInv /\ AloneInv /\ [Next]_vars => AloneInv'
<1>. SUFFICES ASSUME IInv, AloneInv, [Next]_vars, ~together'
              PROVE  /\ \A p, q \in Writers' : p = q
                     /\ live'["active"] \notin {Empty, Torn}
                     /\ \A p \in Writers' : Owned(p)'
  BY DEF AloneInv, Owned
<1>. USE DEF IInv, Domains
<1>s. CASE UNCHANGED vars
  BY <1>s DEF vars, fileVars, writeVars, diskVars, AloneInv, Writers, Owned
<1>n. CASE Next
  <2>1. /\ ~together /\ ~(Cardinality(Writers') > 1) /\ Writers' \subseteq Proc
    BY <1>n DEF Next, Writers
  <2>2. \A p, q \in Writers' : p = q
    BY <2>1, AtMostOne
  <2>3. /\ \A p, q \in Writers : p = q
        /\ live["active"] \notin {Empty, Torn}
        /\ \A p \in Writers : Owned(p)
    BY <2>1 DEF AloneInv, Owned
  <2>c. ASSUME NEW p \in Proc, Others(p), pc'[p] \notin {"write", "rename"}, \A q \in Proc \ {p} : fd'[q] = fd[q],
               next'["active"] = next["active"]
        PROVE  \A q \in Writers' : Owned(q)'
    BY <2>3, <2>c DEF Others, Writers, Owned
  <2>4. ASSUME NEW p \in Proc, Step(p), ~FileStep(p)
        PROVE  live'["active"] \notin {Empty, Torn} /\ \A q \in Writers' : Owned(q)'
    <3>1. Calm(p) /\ Others(p)
      BY <2>4, OthersAreCalm, StepGood DEF Good
    <3>. QED
      BY <2>3, <2>c, <3>1 DEF Calm
  <2>5. ASSUME NEW p \in Proc, Step(p), FileStep(p)
        PROVE  live'["active"] \notin {Empty, Torn} /\ \A q \in Writers' : Owned(q)'
    <3>1. /\ Others(p) /\ WritingOK(p) /\ aim[p] \in File
          /\ pc[p] \in {"write", "rename"} /\ aim[p] = "active" => p \in Writers
      BY <2>5, StepGood DEF Good, WritingOK, Writers
    <3>2. CASE Backup(p)
      <4>1. /\ pc'[p] = "open" /\ UNCHANGED <<live, next, fd>>
        BY <3>2 DEF Backup, Goto, writeVars
      <4>. QED
        BY <2>3, <2>c, <3>1, <4>1
    <3>3. CASE Open(p)
      <4>1. /\ pc'[p] = "write" /\ UNCHANGED <<live, aim>> /\ fd' = [fd EXCEPT ![p] = "next"]
            /\ next' = [next EXCEPT ![aim[p]] = Empty]
        BY <3>3 DEF Open, Goto
      <4>2. CASE aim[p] = "active"
        <5>1. p \in Writers' /\ Owned(p)' /\ live'["active"] = live["active"]
          BY <4>1, <4>2 DEF Writers, Owned, File
        <5>. QED
          BY <2>2, <2>3, <5>1
      <4>3. CASE aim[p] # "active"
        <5>1. next'["active"] = next["active"] /\ p \notin Writers'
          BY <4>1, <4>3 DEF Writers
        <5>. QED
          BY <2>3, <3>1, <4>1, <5>1 DEF Others, Writers, Owned
      <4>. QED
        BY <4>2, <4>3
    <3>4. CASE Write(p)
      <4>1. /\ pc[p] = "write" /\ pc'[p] \in {"rename", "failed"} /\ UNCHANGED <<aim, text>>
            /\ fd' = [fd EXCEPT ![p] = "none"]
        BY <3>4 DEF Write, At, Goto
      <4>2. CASE aim[p] = "active"
        <5>1. p \in Writers /\ fd[p] = "next" /\ next["active"] = Empty
          BY <2>3, <3>1, <4>1, <4>2 DEF Owned
        <5>2. live' = live /\ (pc'[p] = "rename" => next'["active"] = text[p])
          BY <3>4, <4>1, <4>2, <5>1 DEF Write, Goto, Over, File
        <5>3. \A q \in Writers' : q = p
          BY <2>3, <3>1, <5>1 DEF Writers, Others
        <5>. QED
          BY <2>3, <4>1, <5>2, <5>3 DEF Owned
      <4>3. CASE aim[p] # "active"
        <5>1. next'["active"] = next["active"] /\ live'["active"] = live["active"] /\ p \notin Writers'
          BY <3>4, <4>1, <4>3, OneFileAtATime DEF Writers, File
        <5>. QED
          BY <2>3, <3>1, <4>1, <5>1 DEF Others, Writers, Owned
      <4>. QED
        BY <4>2, <4>3
    <3>5. CASE Rename(p)
      <4>1. /\ pc[p] = "rename" /\ UNCHANGED <<aim, text>> /\ pc'[p] \notin {"write", "rename"}
        BY <3>1, <3>5 DEF Rename, At, Goto, Then, Phase, File
      <4>2. CASE aim[p] = "active"
        <5>1. p \in Writers /\ next["active"] = text[p] /\ Installed(text[p])
          BY <2>3, <3>1, <4>1, <4>2 DEF Owned, WritingOK, Writing
        <5>2. live'["active"] \in {live["active"], text[p]}
          BY <3>1, <3>5, <4>2, <5>1, RenameTakesNext
        <5>3. Writers' = {}
          BY <2>3, <3>1, <4>1, <5>1 DEF Writers, Others
        <5>. QED
          BY <2>3, <5>1, <5>2, <5>3, StoreAssumption DEF Installed
      <4>3. CASE aim[p] # "active"
        <5>1. next'["active"] = next["active"] /\ live'["active"] = live["active"]
          BY <3>5, <4>3, OneFileAtATime DEF File
        <5>2. \A q \in Writers : fd'[q] = fd[q]
          BY <3>5, <4>3 DEF Rename, Writers
        <5>3. Writers' \subseteq Writers \ {p} /\ \A q \in Writers' : pc'[q] = pc[q] /\ text'[q] = text[q]
          BY <3>1, <4>1 DEF Others, Writers
        <5>. QED
          BY <2>3, <5>1, <5>2, <5>3 DEF Owned
      <4>. QED
        BY <4>2, <4>3
    <3>. QED
      BY <2>5, <3>2, <3>3, <3>4, <3>5 DEF FileStep
  <2>6. CASE Edit
    <3>1. UNCHANGED <<pc, aim, text, fd, next>> /\ live'["active"] = live["active"]
      BY <2>6 DEF Edit, UserEdit, writeVars
    <3>. QED
      BY <2>3, <3>1 DEF Writers, Owned
  <2>. QED
    BY <1>n, <2>2, <2>4, <2>5, <2>6 DEF Next
<1>. QED
  BY <1>s, <1>n

LEMMA InitAlone == Init => AloneInv
<1>. SUFFICES ASSUME Init PROVE AloneInv
  OBVIOUS
<1>1. Writers = {}
  BY DEF Init, FilesInit, Writers
<1>2. live["active"] \in Version \cup {NoFile}
  BY InstallerAssumption DEF Init
<1>3. NoFile \notin {Empty, Torn}
  BY FilesAssumption, Distinct
<1>. QED
  BY <1>1, <1>2, <1>3, StoreAssumption DEF AloneInv

\* As long as no two processes replace the active model at once it names a
\* version or none, wherever the commands fail or are killed (activate).
ActiveNeverTorn == ~together => live["active"] \notin {Empty, Torn}

\* activate replaces the active model at once while it is alone with it.
THEOREM ActiveReplacedAtOnce == Spec => []ActiveNeverTorn
<1>1. AloneInv => ActiveNeverTorn
  BY DEF AloneInv, ActiveNeverTorn
<1>. QED
  BY InitIInv, NextIInv, InitAlone, AloneStep, <1>1, PTL DEF Spec
\* The texts of the active model and of its temporary file come from there or
\* from a process that writes it.
LEMMA TextsComeFrom ==
    ASSUME IInv, NEW p \in Proc, FileStep(p), NEW v, v # Empty, v # Torn, v # NoFile, Inactive(v)
    PROVE  /\ v \notin {live'["active"], next'["active"]}
           /\ UNCHANGED <<aim, text>>
<1>. USE DEF IInv, Domains
<1>0. /\ aim[p] \in File /\ "active" \in File /\ v \notin {live["active"], next["active"]}
      /\ (aim[p] = "active" => text[p] # v)
  <2>1. WritingOK(p)
    OBVIOUS
  <2>2. aim[p] \in File /\ "active" \in File
    BY <2>1 DEF WritingOK, File
  <2>. QED
    BY <2>2 DEF Inactive
<1>1. CASE Backup(p) \/ Open(p)
  BY <1>0, <1>1 DEF Backup, Open, writeVars
<1>2. CASE Write(p)
  <2>1. UNCHANGED <<aim, text>>
    BY <1>2 DEF Write
  <2>2. CASE live' = live /\ next' = next
    BY <1>0, <2>1, <2>2
  <2>3. ASSUME NEW t \in {text[p], Torn},
               \/ live' = live /\ next' = [next EXCEPT ![aim[p]] = t]
               \/ next' = next /\ live' = [live EXCEPT ![aim[p]] = t]
        PROVE  v \notin {live'["active"], next'["active"]}
    BY <1>0, <2>3
  <2>4. \/ live' = live /\ next' = next
        \/ \E t \in {text[p], Torn} :
              \/ live' = live /\ next' = [next EXCEPT ![aim[p]] = t]
              \/ next' = next /\ live' = [live EXCEPT ![aim[p]] = t]
    <3>1. \A c : \A t \in Over(p, c) : t \in {text[p], Torn}
      BY DEF Over
    <3>2. \/ live' = live /\ next' = next
          \/ live' = live /\ \E t \in Over(p, next[aim[p]]) : next' = [next EXCEPT ![aim[p]] = t]
          \/ next' = next /\ \E t \in Over(p, live[aim[p]]) : live' = [live EXCEPT ![aim[p]] = t]
      BY <1>2, Zenon DEF Write
    <3>. QED
      BY <3>1, <3>2, Zenon
  <2>. QED
    BY <1>0, <2>1, <2>2, <2>3, <2>4
<1>3. CASE Rename(p)
  <2>1. UNCHANGED <<aim, text>>
    BY <1>3 DEF Rename
  <2>2. \/ live' = live /\ next' = next
        \/ /\ live' = [live EXCEPT ![aim[p]] = next[aim[p]]]
           /\ next' = [next EXCEPT ![aim[p]] = NoFile]
    BY <1>3 DEF Rename
  <2>. QED
    BY <1>0, <2>1, <2>2
<1>. QED
  BY <1>1, <1>2, <1>3 DEF FileStep

\* A version that is not active stays so in every step but one that goes on to
\* write it to the file.
LEMMA StaysInactive ==
    ASSUME IInv, NEW v \in Version, Inactive(v), live'["active"] = live["active"], next' = next,
           \/ UNCHANGED <<aim, text>>
           \/ \E p \in Proc : \E f, t :
                 /\ aim' = [aim EXCEPT ![p] = f] /\ text' = [text EXCEPT ![p] = t]
                 /\ f = "active" => t # v
    PROVE  Inactive(v)'
<1>. USE DEF IInv, Domains
<1>1. CASE UNCHANGED <<aim, text>>
  BY <1>1 DEF Inactive
<1>2. ASSUME NEW p \in Proc, NEW f, NEW t, f = "active" => t # v,
             aim' = [aim EXCEPT ![p] = f], text' = [text EXCEPT ![p] = t]
      PROVE  Inactive(v)'
  BY <1>2 DEF Inactive
<1>. QED
  BY <1>1, <1>2, Zenon

\* A step of one process.
LEMMA StepStaysOut ==
    ASSUME IInv, NEW p \in Proc, Step(p), NEW v \in Version, Inactive(v), ~Verified(v)
    PROVE  Inactive(v)' \/ (~Installed(v) /\ Installed(v)')
<1>. USE DEF IInv, Domains
<1>0. v # Empty /\ v # Torn /\ v # NoFile
  BY StoreAssumption
<1>1. CASE FileStep(p)
  BY <1>0, <1>1, TextsComeFrom DEF Inactive
<1>2. CASE ~FileStep(p)
  <2>1. next' = next /\ live'["active"] = live["active"]
    BY <1>2, OthersAreCalm DEF Calm
  <2>2. CASE GiveUp(p) \/ Start(p) \/ BundleStep(p)
    <3>1. UNCHANGED <<aim, text>>
      <4>1. CASE GiveUp(p) \/ Start(p)
        BY <4>1 DEF GiveUp, Start, writeVars
      <4>2. CASE Fetch(p) \/ Tear(p) \/ Clear(p) \/ Aside(p) \/ MoveIn(p)
        BY <4>2 DEF Fetch, Tear, Clear, Aside, MoveIn, keepFiles, fileVars, writeVars
      <4>3. CASE Verify(p) \/ Discard(p) \/ PutBack(p) \/ Drop(p)
        BY <4>3 DEF Verify, Discard, PutBack, Drop, keepFiles, writeVars
      <4>. QED
        BY <2>2, <4>1, <4>2, <4>3 DEF BundleStep
    <3>. QED
      BY <2>1, <3>1, StaysInactive
  <2>3. CASE Return(p) \/ Crash(p)
    <3>1. aim' = [aim EXCEPT ![p] = "active"] /\ text' = [text EXCEPT ![p] = Empty]
      BY <2>3 DEF Return, Crash, Stop
    <3>. QED
      BY <1>0, <2>1, <3>1, StaysInactive
  <2>4. CASE StoreStep(p)
    <3>1. CASE Default(p) \/ Train(p) \/ Download(p) \/ Stage(p)
      <4>1. UNCHANGED <<aim, text>>
        BY <3>1 DEF Default, Train, Download, Stage, writeVars
      <4>. QED
        BY <2>1, <4>1, StaysInactive
    <3>2. CASE Publish(p)
      <4>1. CASE UNCHANGED <<aim, text>>
        BY <2>1, <4>1, StaysInactive
      <4>2. CASE ~UNCHANGED <<aim, text>>
        <5>1. PICK u : u = cmd[p].version
          OBVIOUS
        <5>2. versions[u] = "absent" /\ aim' = [aim EXCEPT ![p] = "active"] /\ text' = [text EXCEPT ![p] = u]
          BY <3>2, <4>2, <5>1 DEF Publish, Replace, writeVars
        <5>3. CASE u # v
          BY <2>1, <5>2, <5>3, StaysInactive
        <5>4. CASE u = v
          <6>1. PICK w \in Brought(cmd[p].name) : versions' = [versions EXCEPT ![v] = w]
            BY <3>2, <5>1, <5>2, <5>4, Zenon DEF Publish
          <6>2. w # "absent"
            BY DEF Brought
          <6>3. versions'[v] # "absent"
            BY <6>1, <6>2
          <6>. QED
            BY <5>2, <5>4, <6>3 DEF Installed
        <5>. QED
          BY <5>3, <5>4
      <4>. QED
        BY <4>1, <4>2
    <3>3. CASE Activate(p)
      <4>1. CASE Verified(cmd[p].version) /\ Replace(p, "active", cmd[p].version, "open")
        <5>1. PICK u : u = cmd[p].version
          OBVIOUS
        <5>2. Verified(u)
          BY <4>1, <5>1 DEF Verified
        <5>3. u # v
          BY <5>2 DEF Verified
        <5>4. aim' = [aim EXCEPT ![p] = "active"] /\ text' = [text EXCEPT ![p] = u]
          BY <4>1, <5>1 DEF Replace
        <5>. QED
          BY <2>1, <5>3, <5>4, StaysInactive
      <4>2. CASE UNCHANGED <<aim, text>>
        BY <2>1, <4>2, StaysInactive
      <4>. QED
        BY <3>3, <4>1, <4>2 DEF Activate, writeVars
    <3>. QED
      BY <2>4, <3>1, <3>2, <3>3 DEF StoreStep
  <2>5. CASE SetupStep(p)
    <3>1. CASE FindSkill(p) \/ SaveSkill(p) \/ RemoveLegacy(p) \/ CopySkill(p) \/ Mark(p)
      <4>1. UNCHANGED <<aim, text>>
        BY <3>1 DEF FindSkill, SaveSkill, RemoveLegacy, CopySkill, Mark, writeVars
      <4>. QED
        BY <2>1, <4>1, StaysInactive
    <3>2. CASE MCPPlan(p) \/ MCPUninstallPlan(p) \/ MCPRollbackPlan(p)
      <4>1. Fail(p) \/ \E t : Replace(p, "config", t, "backup")
        BY <3>2, Zenon DEF MCPPlan, MCPUninstallPlan, MCPRollbackPlan, ReplaceOrFail
      <4>2. ASSUME NEW t, Replace(p, "config", t, "backup") PROVE Inactive(v)'
        <5>1. aim' = [aim EXCEPT ![p] = "config"] /\ text' = [text EXCEPT ![p] = t]
          BY <4>2 DEF Replace
        <5>. QED
          BY <2>1, <5>1, StaysInactive
      <4>3. CASE Fail(p)
        BY <2>1, <4>3, StaysInactive DEF Fail, writeVars
      <4>. QED
        BY <4>1, <4>2, <4>3
    <3>3. CASE Advisory(p) \/ ConfigPlan(p) \/ Fill(p)
      <4>1. \/ UNCHANGED <<aim, text>>
            \/ aim' = [aim EXCEPT ![p] = "policy"] /\ text' = [text EXCEPT ![p] = "advisory"]
        BY <3>3 DEF Advisory, ConfigPlan, Fill, Replace, writeVars
      <4>. QED
        BY <2>1, <4>1, StaysInactive
    <3>. QED
      BY <2>5, <3>1, <3>2, <3>3 DEF SetupStep
  <2>. QED
    BY <1>2, <2>2, <2>3, <2>4, <2>5 DEF Step
<1>. QED
  BY <1>1, <1>2

\* What does not verify is made active by the update that installs it or by
\* nobody: activate and rollback refuse a version that is not active, whoever shares
\* the temporary file and is killed where (manager.go:159-170).
THEOREM UnverifiedNeverActivated == Spec => UnverifiedStaysOut
<1>1. IInv /\ [Next]_vars => [\A v \in Version : Inactive(v) /\ ~Verified(v) =>
                                 Inactive(v)' \/ (~Installed(v) /\ Installed(v)')]_vars
  <2>1. SUFFICES ASSUME IInv, Next, NEW v \in Version, Inactive(v), ~Verified(v)
                 PROVE  Inactive(v)' \/ (~Installed(v) /\ Installed(v)')
    OBVIOUS
  <2>2. CASE Edit
    <3>1. UNCHANGED <<aim, text, next>> /\ live'["active"] = live["active"]
      BY <2>1, <2>2 DEF Edit, UserEdit, writeVars, IInv, Domains
    <3>. QED
      BY <2>1, <3>1, StaysInactive
  <2>3. ASSUME NEW p \in Proc, Step(p) PROVE Inactive(v)' \/ (~Installed(v) /\ Installed(v)')
    BY <2>1, <2>3, StepStaysOut
  <2>. QED
    BY <2>1, <2>2, <2>3 DEF Next
<1>. QED
  BY InitIInv, NextIInv, <1>1, PTL DEF Spec, UnverifiedStaysOut

-----------------------------------------------------------------------------
(* One process sets Violin up; others may change models meanwhile.         *)

Setter(s) == s \in Proc /\ \A p \in Proc \ {s} : May[p] \subseteq {"activate", "update", "train"}
OneSetter == \E s \in Proc : Setter(s)

\* The Codex configuration and the policy.
FilesOK(s) ==
    /\ live["config"] \in Config \cup {NoFile} /\ next["config"] \in Config \cup {NoFile, Empty}
    /\ backups["config"] \subseteq Config
    /\ live["policy"] \in Policy \cup {NoFile, Empty} /\ next["policy"] \in {NoFile, Empty, "advisory"}
    /\ backups["policy"] \subseteq Policy \cup {Empty} /\ backups["active"] = {}
    /\ newest \in 0 .. MaxEdits
    /\ live["policy"] = Empty => faults > 0 \/ pc[s] = "fill"
    /\ pc[s] \in Writing /\ aim[s] = "config" => text[s] \in Config
    /\ aim[s] \in {"config", "policy"} =>
          /\ pc[s] = "write" => fd[s] = "next" /\ next[aim[s]] = Empty
          /\ pc[s] = "rename" => next[aim[s]] = text[s]

\* What the user wrote last is in a backup before it is overwritten.
UserInv(s) ==
    newest > 0 /\ ~late =>
      \/ \E t \in backups["config"] : t.user = newest
      \/ /\ live["config"] # NoFile /\ live["config"].user = newest
         /\ ~(aim[s] = "config" /\ pc[s] \in {"open", "write", "rename"})

\* A skill directory that is being replaced was saved before.
SkillsInv(s) ==
    /\ skill = [tree |-> skill.tree, marked |-> skill.marked] /\ skill.marked \in BOOLEAN
    /\ skill.tree \in {"none", "old", "new", "mixed"}
    /\ skill.tree = "none" => ~skill.marked
    /\ ~skill.marked => saved = {}
    /\ skill.tree = "mixed" /\ skill.marked => saved \cap {"old", "new"} # {}
    /\ pc[s] \in {"save", "legacy"} => skill.marked
    /\ pc[s] \in {"legacy", "copy", "mark"} => (skill.marked => saved \cap {"old", "new"} # {})
    /\ pc[s] = "mark" => skill.tree = "new"

\* One fault, at any step of EnsureUpstream, leaves a good bundle.
BundleInv(s) ==
    /\ onnx \in {"none", "good", "bad"} /\ old \in {"none", "good", "bad"}
    /\ pc[s] = "drop" => onnx = "good"
    /\ owned /\ faults <= 1 =>
         /\ faults = 0 /\ pc[s] \notin {"movein", "verify"} => onnx = "good"
         /\ pc[s] = "verify" => onnx = "good"
         /\ pc[s] \in {"movein", "verify"} /\ faults = 0 => old = "good"
         /\ pc[s] \in {"discard", "putback"} => faults = 1 /\ old = "good"
         /\ pc[s] = "aside" /\ old # "none" => onnx = "good"
         /\ pc[s] \notin {"clear", "aside", "movein"} => onnx = "good" \/ old = "good"

\* What "violin install" has achieved when it is at a step: the policy was
\* looked at, a model was made active, the bundle is in place.
Replacing(s, f) == pc[s] \in Writing /\ aim[s] = f
Fetching == {"fetch", "clear", "aside", "movein", "verify", "discard", "putback", "drop"}
Fetched(s) == pc[s] \in {"policy", "fill", "plan", "done"} \/ Replacing(s, "config")
Activated(s) == pc[s] \in Fetching \/ Fetched(s)
Advised(s) == pc[s] \in {"default", "stage", "publish"} \/ Replacing(s, "active") \/ Activated(s)

WholeInv(s) == cmd[s].name = "install" =>
    /\ Advised(s) => live["policy"] # "active"
    /\ Activated(s) \/ Replacing(s, "active") => Verified(Builtin)
    /\ Activated(s) => live["active"] # NoFile
    /\ Fetched(s) => onnx = "good"
    /\ Fetched(s) /\ pc[s] # "policy" => live["policy"] # NoFile
    /\ Replacing(s, "config") => text[s].block = "managed"
    /\ pc[s] = "done" => live["config"] # NoFile /\ live["config"].block = "managed"

SetterInv(s) == FilesOK(s) /\ UserInv(s) /\ SkillsInv(s) /\ BundleInv(s) /\ WholeInv(s)

\* What nobody but s changes.
Still(s) ==
    /\ UNCHANGED <<pc[s], cmd[s], aim[s], text[s], bundleVars, setupVars>>
    /\ \A f \in {"config", "policy"} : live'[f] = live[f] /\ next'[f] = next[f]
    /\ UNCHANGED backups
    /\ aim[s] # "active" => fd'[s] = fd[s]
    /\ faults' \in {faults, faults + 1}

\* The active version is never nothing again.
LEMMA ActiveStays ==
    ASSUME IInv, NEW p \in Proc, Step(p), live["active"] # NoFile
    PROVE  live'["active"] # NoFile
<1>. USE DEF IInv, Domains
<1>1. CASE ~FileStep(p)
  BY <1>1, OthersAreCalm DEF Calm
<1>2. CASE FileStep(p) /\ aim[p] = "active"
  <2>0. WritingOK(p) /\ "active" \in File
    BY DEF File
  <2>1. CASE Backup(p) \/ Open(p)
    BY <2>1 DEF Backup, Open
  <2>2. CASE Write(p)
    <3>1. Installed(text[p])
      BY <1>2, <2>0, <2>2 DEF WritingOK, Writing, Write, At
    <3>2. text[p] # NoFile /\ Torn # NoFile
      BY <3>1, StoreAssumption, Distinct DEF Installed
    <3>3. \/ live' = live
          \/ \E t \in {text[p], Torn} : live' = [live EXCEPT !["active"] = t]
      BY <1>2, <2>2 DEF Write, Over
    <3>4. ASSUME NEW t \in {text[p], Torn}, live' = [live EXCEPT !["active"] = t]
          PROVE  live'["active"] # NoFile
      BY <2>0, <3>2, <3>4
    <3>. QED
      BY <3>3, <3>4
  <2>3. CASE Rename(p)
    BY <1>2, <2>0, <2>3, RenameTakesNext
  <2>. QED
    BY <1>2, <2>1, <2>2, <2>3 DEF FileStep
<1>3. CASE FileStep(p) /\ aim[p] # "active"
  <2>1. CASE Backup(p) \/ Open(p)
    BY <2>1 DEF Backup, Open
  <2>2. CASE Write(p) \/ Rename(p)
    BY <1>3, <2>2, OneFileAtATime DEF File
  <2>. QED
    BY <1>3, <2>1, <2>2 DEF FileStep
<1>. QED
  BY <1>1, <1>2, <1>3

\* Who activates, updates or trains leaves everything else alone.
LEMMA Bystander ==
    ASSUME IInv, NEW s, Setter(s), NEW p \in Proc \ {s}, Step(p)
    PROVE  Still(s)
<1>. USE DEF IInv, Domains
<1>0. /\ CommandOK(p) /\ WritingOK(p) /\ s \in Proc
      /\ pc[p] # "idle" => cmd[p].name \in {"activate", "update", "train"}
      /\ RightStep(cmd[p], pc[p])
  BY DEF Setter, CommandOK
<1>1. UNCHANGED <<pc[s], cmd[s], aim[s], text[s]>>
  BY <1>0, StepGood DEF Good, Others
<1>l. pc[p] \in {"idle", "done", "failed", "train", "download", "check", "stage", "publish"} \cup Writing
  BY <1>0 DEF RightStep, AllLabels, Installing, Skilling, Configuring
<1>b. ~BundleStep(p)
  BY <1>l DEF BundleStep, Fetch, Tear, Clear, Aside, MoveIn, Verify, Discard, PutBack, Drop, At, Writing
<1>c. ~SetupStep(p)
  BY <1>l DEF SetupStep, Advisory, ConfigPlan, Fill, MCPPlan, MCPUninstallPlan, MCPRollbackPlan,
              FindSkill, SaveSkill, RemoveLegacy, CopySkill, Mark, At, Writing
<1>d. UNCHANGED <<bundleVars, setupVars>>
  BY <1>b, <1>c DEF Step, Start
<1>2. CASE FileStep(p)
  <2>1. aim[p] = "active" /\ ~Backup(p)
    <3>1. pc[p] \in Writing
      BY <1>2 DEF FileStep, Backup, Open, Write, Rename, At, Writing
    <3>. QED
      BY <1>0, <3>1 DEF WritingOK, Writing, Configuring, File, Backup, At
  <2>2. CASE Open(p)
    BY <1>1, <1>d, <2>1, <2>2 DEF Open, Still
  <2>3. CASE Write(p)
    <3>1. \A f \in {"config", "policy"} : live'[f] = live[f] /\ next'[f] = next[f]
      BY <2>1, <2>3, OneFileAtATime DEF File
    <3>. QED
      BY <1>1, <1>d, <2>1, <2>3, <3>1 DEF Write, Still, Fault
  <2>4. CASE Rename(p)
    <3>1. \A f \in {"config", "policy"} : live'[f] = live[f] /\ next'[f] = next[f]
      BY <2>1, <2>4, OneFileAtATime DEF File
    <3>2. aim[s] # "active" => fd'[s] = fd[s]
      BY <1>0, <2>1, <2>4 DEF Rename
    <3>3. UNCHANGED <<backups, faults>>
      BY <2>4 DEF Rename
    <3>. QED
      BY <1>1, <1>d, <3>1, <3>2, <3>3 DEF Still
  <2>. QED
    BY <1>2, <2>1, <2>2, <2>3, <2>4 DEF FileStep
<1>3. CASE GiveUp(p) \/ Return(p) \/ Crash(p) \/ Start(p)
  <2>1. /\ live' = live /\ next' = next /\ backups' = backups /\ faults' \in {faults, faults + 1}
        /\ fd'[s] = fd[s]
    BY <1>0, <1>3 DEF GiveUp, Return, Crash, Stop, Start, Fault, writeVars, diskVars
  <2>. QED
    BY <1>1, <1>d, <2>1 DEF Still
<1>4. CASE StoreStep(p)
  <2>1. /\ live' = live /\ next' = next /\ backups' = backups /\ fd' = fd /\ faults' = faults
    <3>1. CASE Default(p) \/ Train(p) \/ Download(p) \/ Stage(p)
      BY <3>1 DEF Default, Train, Download, Stage, writeVars, diskVars
    <3>2. CASE Publish(p) \/ Activate(p)
      BY <3>2 DEF Publish, Activate, Replace, writeVars, diskVars
    <3>. QED
      BY <1>4, <3>1, <3>2 DEF StoreStep
  <2>. QED
    BY <1>1, <1>d, <2>1 DEF Still
<1>. QED
  BY <1>b, <1>c, <1>2, <1>3, <1>4 DEF Step

\* A step of s that is none of a replacement: what it may do to the files.
Quiet(s) ==
    /\ Calm(s) /\ UNCHANGED <<backups, userVars>> /\ live'["config"] = live["config"]
    /\ faults' \in {faults, faults + 1}
    /\ \/ live' = live /\ (pc[s] = "fill" => faults' = faults + 1)
       \/ live["policy"] = NoFile /\ pc'[s] = "fill" /\ live'["policy"] = Empty
       \/ pc[s] = "fill" /\ live'["policy"] = "template"
    /\ pc'[s] \in Writing => \/ pc'[s] = "backup" /\ aim'[s] = "config" /\ text'[s] \in Config
                             \/ pc'[s] = "backup" /\ aim'[s] = "policy"
                             \/ pc'[s] = "open" /\ aim'[s] = "active"

\* Plans write the user's text and a block of their own, or an old backup.
LEMMA PlansWriteTexts ==
    ASSUME NEW s, FilesOK(s), NEW p \in Proc, MCPPlan(p) \/ MCPUninstallPlan(p) \/ MCPRollbackPlan(p)
    PROVE  \/ Fail(p)
           \/ \E t \in Config : Replace(p, "config", t, "backup") /\ (MCPPlan(p) => t.block = "managed")
<1>0. live["config"] \in Config \cup {NoFile} /\ backups["config"] \subseteq Config /\ MaxEdits \in Nat
  BY InstallerAssumption DEF FilesOK
<1>1. CASE MCPPlan(p)
  <2>1. \A t \in ReplaceManagedBlock(live["config"]) : t \in Config /\ t.block = "managed"
    BY <1>0 DEF ReplaceManagedBlock, Text, Config
  <2>2. Fail(p) \/ \E t \in ReplaceManagedBlock(live["config"]) : Replace(p, "config", t, "backup")
    BY <1>1, Zenon DEF MCPPlan, ReplaceOrFail
  <2>. QED
    BY <2>1, <2>2
<1>2. CASE MCPUninstallPlan(p)
  <2>1. \A t \in RemoveManagedBlock(live["config"]) : t \in Config
    BY <1>0 DEF RemoveManagedBlock, Text, Config
  <2>2. Fail(p) \/ \E t \in RemoveManagedBlock(live["config"]) : Replace(p, "config", t, "backup")
    BY <1>2, Zenon DEF MCPUninstallPlan, ReplaceOrFail
  <2>3. ~MCPPlan(p)
    BY <1>2 DEF MCPPlan, MCPUninstallPlan
  <2>. QED
    BY <2>1, <2>2, <2>3
<1>3. CASE MCPRollbackPlan(p)
  <2>1. Fail(p) \/ \E t \in backups["config"] : Replace(p, "config", t, "backup")
    BY <1>3, Zenon DEF MCPRollbackPlan
  <2>2. ~MCPPlan(p)
    BY <1>3 DEF MCPPlan, MCPRollbackPlan
  <2>. QED
    BY <1>0, <2>1, <2>2
<1>. QED
  BY <1>1, <1>2, <1>3

LEMMA SetterIsQuiet ==
    ASSUME IInv, NEW s \in Proc, FilesOK(s), Step(s), ~FileStep(s)
    PROVE  Quiet(s)
<1>. USE DEF IInv, Domains
<1>1. Calm(s)
  BY OthersAreCalm
<1>2. CASE (GiveUp(s) \/ Return(s) \/ Crash(s)) /\ UNCHANGED setupVars
  <2>1. /\ UNCHANGED <<live, backups>> /\ pc'[s] \in {"failed", "idle"}
        /\ pc[s] = "fill" => faults' = faults + 1
        /\ faults' \in {faults, faults + 1}
    BY <1>2 DEF GiveUp, Fallible, Return, Crash, Stop, Fault, Goto, diskVars
  <2>. QED
    BY <1>1, <1>2, <2>1 DEF Quiet, setupVars, userVars, Writing
<1>3. CASE Start(s)
  <2>1. PICK name \in May[s] : Goto(s, First[name])
    BY <1>3 DEF Start
  <2>2. pc[s] = "idle" /\ pc'[s] \notin Writing
    BY <1>3, <2>1, MayAssumption DEF First, Goto, Writing, Start, At
  <2>. QED
    BY <1>1, <1>3, <2>2 DEF Start, Quiet, setupVars, userVars, diskVars
<1>4. CASE StoreStep(s) /\ UNCHANGED setupVars
  <2>1. CASE Default(s) \/ Train(s) \/ Download(s) \/ Stage(s)
    <3>1. /\ UNCHANGED <<live, backups, faults>> /\ pc'[s] \notin Writing /\ pc[s] # "fill"
      BY <2>1 DEF Default, Train, Download, Stage, Goto, At, diskVars, Writing
    <3>. QED
      BY <1>1, <1>4, <3>1 DEF Quiet, setupVars, userVars
  <2>2. CASE Publish(s) \/ Activate(s)
    <3>1. /\ UNCHANGED <<live, backups, faults>> /\ pc[s] # "fill"
          /\ pc'[s] \in Writing => pc'[s] = "open" /\ aim'[s] = "active"
      BY <2>2 DEF Publish, Activate, Replace, Goto, At, diskVars, Writing
    <3>. QED
      BY <1>1, <1>4, <3>1 DEF Quiet, setupVars, userVars
  <2>. QED
    BY <1>4, <2>1, <2>2 DEF StoreStep
<1>5. CASE BundleStep(s) /\ UNCHANGED setupVars
  <2>1. CASE Fetch(s) \/ Clear(s) \/ Aside(s)
    <3>1. /\ UNCHANGED <<live, backups>> /\ faults' \in {faults, faults + 1} /\ pc'[s] \notin Writing /\ pc[s] # "fill"
      BY <2>1 DEF Fetch, Clear, Aside, Removed, Fault, keepFiles, Goto, At, diskVars, Writing
    <3>. QED
      BY <1>1, <1>5, <3>1 DEF Quiet, setupVars, userVars
  <2>2. CASE MoveIn(s) \/ Verify(s) \/ Discard(s) \/ PutBack(s) \/ Drop(s)
    <3>1. /\ UNCHANGED <<live, backups>> /\ faults' \in {faults, faults + 1} /\ pc'[s] \notin Writing /\ pc[s] # "fill"
      BY <2>2 DEF MoveIn, Verify, Discard, PutBack, Drop, Removed, Fault, keepFiles, Goto, At, diskVars, Writing
    <3>. QED
      BY <1>1, <1>5, <3>1 DEF Quiet, setupVars, userVars
  <2>3. CASE Tear(s)
    <3>1. /\ UNCHANGED <<live, backups, faults>> /\ pc'[s] \notin Writing /\ pc[s] # "fill"
      BY <2>3 DEF Tear, At, fileVars, diskVars, Writing
    <3>. QED
      BY <1>1, <1>5, <3>1 DEF Quiet, setupVars, userVars
  <2>. QED
    BY <1>5, <2>1, <2>2, <2>3 DEF BundleStep
<1>6. CASE SetupStep(s)
  <2>1. CASE Advisory(s)
    <3>1. /\ UNCHANGED <<live, backups, faults>> /\ pc[s] # "fill"
          /\ pc'[s] \in Writing => pc'[s] = "backup" /\ aim'[s] = "policy"
      BY <2>1 DEF Advisory, Replace, Goto, At, diskVars, Writing
    <3>. QED
      BY <1>1, <2>1, <3>1 DEF Advisory, Quiet, setupVars, userVars
  <2>2. CASE ConfigPlan(s)
    <3>1. /\ UNCHANGED <<backups, faults, setupVars>> /\ pc[s] = "policy" /\ pc'[s] \notin Writing
      BY <2>2 DEF ConfigPlan, Goto, At, Writing
    <3>2. CASE live["policy"] = NoFile
      <4>1. live' = [live EXCEPT !["policy"] = Empty] /\ pc'[s] = "fill"
        BY <2>2, <3>2 DEF ConfigPlan, Goto
      <4>. QED
        BY <1>1, <3>1, <3>2, <4>1 DEF Quiet, setupVars, userVars, File
    <3>3. CASE live["policy"] # NoFile
      BY <1>1, <2>2, <3>1, <3>3 DEF ConfigPlan, Quiet, setupVars, userVars
    <3>. QED
      BY <3>2, <3>3
  <2>3. CASE Fill(s)
    <3>1. /\ UNCHANGED <<backups, setupVars>> /\ pc[s] = "fill" /\ pc'[s] \notin Writing
          /\ faults' \in {faults, faults + 1}
      BY <2>3 DEF Fill, Goto, At, Then, Fault, Writing
    <3>2. CASE live' = [live EXCEPT !["policy"] = "template"]
      BY <1>1, <3>1, <3>2 DEF Quiet, setupVars, userVars, File
    <3>3. CASE live' = live /\ Fault
      BY <1>1, <3>1, <3>3 DEF Quiet, setupVars, userVars, Fault
    <3>. QED
      BY <2>3, <3>2, <3>3 DEF Fill
  <2>4. CASE MCPPlan(s) \/ MCPUninstallPlan(s) \/ MCPRollbackPlan(s)
    <3>1. UNCHANGED setupVars /\ pc[s] = "plan"
      BY <2>4 DEF MCPPlan, MCPUninstallPlan, MCPRollbackPlan, At
    <3>2. ASSUME Fail(s) PROVE Quiet(s)
      BY <1>1, <3>1, <3>2 DEF Fail, Goto, Quiet, setupVars, userVars, diskVars, Writing
    <3>3. ASSUME NEW t \in Config, Replace(s, "config", t, "backup") PROVE Quiet(s)
      <4>1. /\ UNCHANGED <<live, backups, faults>> /\ pc'[s] = "backup" /\ aim'[s] = "config" /\ text'[s] = t
        BY <3>3 DEF Replace, Goto, diskVars
      <4>. QED
        BY <1>1, <3>1, <3>3, <4>1 DEF Quiet, setupVars, userVars
    <3>. QED
      BY <2>4, <3>2, <3>3, PlansWriteTexts
  <2>5. CASE FindSkill(s) \/ SaveSkill(s) \/ RemoveLegacy(s) \/ CopySkill(s) \/ Mark(s)
    <3>1. /\ UNCHANGED <<live, backups, faults, newest, late>> /\ pc'[s] \notin Writing /\ pc[s] # "fill"
      BY <2>5 DEF FindSkill, SaveSkill, RemoveLegacy, CopySkill, Mark, At, Goto, diskVars, userVars, setupVars, Writing
    <3>. QED
      BY <1>1, <3>1 DEF Quiet, userVars
  <2>. QED
    BY <1>6, <2>1, <2>2, <2>3, <2>4, <2>5 DEF SetupStep
<1>. QED
  BY <1>2, <1>3, <1>4, <1>5, <1>6 DEF Step

\* A step of a replacement is no other step.
LEMMA WritingOnly ==
    ASSUME NEW p \in Proc, Step(p), pc[p] \in Writing
    PROVE  /\ UNCHANGED <<storeVars, bundleVars, setupVars>>
           /\ FileStep(p) \/ GiveUp(p) \/ Crash(p)
<1>1. ~Start(p) /\ ~StoreStep(p) /\ ~Return(p)
  BY DEF Start, StoreStep, Default, Train, Download, Stage, Publish, Activate, Return, At, Writing
<1>2. ~BundleStep(p)
  BY DEF BundleStep, Fetch, Tear, Clear, Aside, MoveIn, Verify, Discard, PutBack, Drop, At, Writing
<1>3. ~SetupStep(p)
  BY DEF SetupStep, Advisory, ConfigPlan, Fill, MCPPlan, MCPUninstallPlan, MCPRollbackPlan,
         FindSkill, SaveSkill, RemoveLegacy, CopySkill, Mark, At, Writing
<1>. QED
  BY <1>1, <1>2, <1>3 DEF Step

\* Backups, temporary files and what replaces a file are of the file's kind.
LEMMA FilesOKStep ==
    ASSUME IInv, NEW s \in Proc, FilesOK(s), Step(s)
    PROVE  FilesOK(s)'
<1>. USE DEF IInv, Domains
<1>0. /\ WritingOK(s) /\ aim[s] \in File /\ faults \in Nat
      /\ Empty \notin Config \cup Policy /\ NoFile \notin Config \cup Policy
  BY InstallerAssumption DEF WritingOK, StoreOK
<1>p. "advisory" \in Policy /\ "template" \in Policy
  BY DEF Policy
<1>1. CASE ~FileStep(s)
  <2>1. Quiet(s)
    BY <1>1, SetterIsQuiet
  <2>2. /\ next' = next /\ UNCHANGED <<backups, newest>> /\ live'["config"] = live["config"]
        /\ pc'[s] \notin {"write", "rename"} /\ faults' \in {faults, faults + 1}
        /\ pc'[s] \in Writing /\ aim'[s] = "config" => text'[s] \in Config
    BY <2>1 DEF Quiet, Calm, userVars
  <2>3. /\ live'["policy"] \in Policy \cup {NoFile, Empty}
        /\ live'["policy"] = Empty => faults' > 0 \/ pc'[s] = "fill"
    BY <1>0, <1>p, <2>1 DEF Quiet, FilesOK
  <2>. QED
    BY <2>2, <2>3 DEF FilesOK
<1>2. CASE FileStep(s)
  <2>1. pc[s] \in Writing
    BY <1>2 DEF FileStep, Backup, Open, Write, Rename, At, Writing
  <2>2. newest' = newest
    BY <2>1, WritingOnly DEF setupVars
  <2>3. /\ aim[s] = "config" => text[s] \in Config
        /\ aim[s] = "policy" => text[s] = "advisory"
        /\ pc[s] = "backup" => aim[s] \in {"config", "policy"}
    BY <1>0, <2>1 DEF WritingOK, FilesOK, File
  <2>4. live["policy"] = Empty => faults > 0
    BY <2>1 DEF FilesOK, Writing
  <2>5. CASE Backup(s)
    <3>1. /\ UNCHANGED <<live, next, faults, aim, text>> /\ pc'[s] = "open"
          /\ backups' = [backups EXCEPT ![aim[s]] = @ \cup ({live[aim[s]]} \ {NoFile})]
          /\ pc[s] = "backup"
      BY <2>5 DEF Backup, Goto, At, writeVars
    <3>2. CASE aim[s] = "config"
      <4>1. backups'["config"] = backups["config"] \cup ({live["config"]} \ {NoFile})
            /\ backups'["policy"] = backups["policy"] /\ backups'["active"] = backups["active"]
        BY <3>1, <3>2 DEF File
      <4>. QED
        BY <2>2, <2>3, <2>4, <3>1, <4>1 DEF FilesOK
    <3>3. CASE aim[s] = "policy"
      <4>1. backups'["policy"] = backups["policy"] \cup ({live["policy"]} \ {NoFile})
            /\ backups'["config"] = backups["config"] /\ backups'["active"] = backups["active"]
        BY <3>1, <3>3 DEF File
      <4>. QED
        BY <2>2, <2>3, <2>4, <3>1, <3>3, <4>1 DEF FilesOK
    <3>. QED
      BY <2>3, <3>1, <3>2, <3>3
  <2>6. CASE Open(s)
    <3>1. /\ UNCHANGED <<live, backups, faults, aim, text>> /\ pc'[s] = "write" /\ fd'[s] = "next"
          /\ next' = [next EXCEPT ![aim[s]] = Empty]
      BY <2>6 DEF Open, Goto, At
    <3>2. /\ next'["config"] \in {next["config"], Empty} /\ next'["policy"] \in {next["policy"], Empty}
          /\ next'[aim[s]] = Empty
      BY <1>0, <3>1 DEF File
    <3>. QED
      BY <2>2, <2>3, <2>4, <3>1, <3>2 DEF FilesOK
  <2>7. CASE Write(s)
    <3>1. /\ UNCHANGED <<backups, aim, text>> /\ pc[s] = "write" /\ pc'[s] \in {"rename", "failed"}
          /\ faults' \in {faults, faults + 1}
      BY <2>7 DEF Write, Goto, At, Fault
    <3>2. \A f \in {"config", "policy"} : f # aim[s] => live'[f] = live[f] /\ next'[f] = next[f]
      BY <2>7, OneFileAtATime DEF File
    <3>3. CASE aim[s] = "active"
      BY <2>2, <2>4, <3>1, <3>2, <3>3, <1>0 DEF FilesOK
    <3>4. CASE aim[s] \in {"config", "policy"}
      <4>1. fd[s] = "next" /\ next[aim[s]] = Empty
        BY <3>1, <3>4 DEF FilesOK
      <4>2. live' = live /\ (next' = next \/ next' = [next EXCEPT ![aim[s]] = text[s]])
            /\ (pc'[s] = "rename" => next' = [next EXCEPT ![aim[s]] = text[s]])
        BY <2>7, <4>1 DEF Write, Over, Goto
      <4>3. /\ next'[aim[s]] \in {next[aim[s]], text[s]} /\ (pc'[s] = "rename" => next'[aim[s]] = text[s])
        BY <1>0, <4>2
      <4>4. /\ next'["config"] \in Config \cup {NoFile, Empty}
            /\ next'["policy"] \in {NoFile, Empty, "advisory"}
        BY <2>3, <3>2, <3>4, <4>3 DEF FilesOK
      <4>5. live'["policy"] = Empty => faults' > 0
        BY <1>0, <2>4, <3>1, <4>2
      <4>. QED
        BY <2>2, <2>3, <3>1, <4>2, <4>3, <4>4, <4>5 DEF FilesOK
    <3>. QED
      BY <1>0, <3>3, <3>4 DEF File
  <2>8. CASE Rename(s)
    <3>1. /\ UNCHANGED <<backups, faults, aim, text>> /\ pc[s] = "rename" /\ pc'[s] \notin Writing
      <4>1. Goto(s, "failed") \/ Goto(s, Then(s, Phase[aim[s]]))
        BY <1>0, <2>8, RenameTakesNext
      <4>2. Then(s, Phase[aim[s]]) \notin Writing
        BY <1>0 DEF Then, Phase, File, Writing
      <4>. QED
        BY <2>8, <4>1, <4>2 DEF Rename, Goto, At, Writing
    <3>2. \A f \in {"config", "policy"} : f # aim[s] => live'[f] = live[f] /\ next'[f] = next[f]
      BY <2>8, OneFileAtATime DEF File
    <3>3. aim[s] \in {"config", "policy"} =>
              /\ live'[aim[s]] \in {live[aim[s]], text[s]} /\ next'[aim[s]] \in {next[aim[s]], NoFile}
      BY <1>0, <2>8, <3>1, RenameTakesNext DEF FilesOK
    <3>4. /\ live'["config"] \in Config \cup {NoFile} /\ next'["config"] \in Config \cup {NoFile, Empty}
      BY <2>3, <3>2, <3>3 DEF FilesOK
    <3>5. /\ live'["policy"] \in Policy \cup {NoFile, Empty} /\ next'["policy"] \in {NoFile, Empty, "advisory"}
          /\ live'["policy"] = Empty => live["policy"] = Empty
      BY <1>0, <1>p, <2>3, <3>2, <3>3 DEF FilesOK
    <3>. QED
      BY <2>2, <2>4, <3>1, <3>4, <3>5 DEF FilesOK, Writing
  <2>. QED
    BY <1>2, <2>5, <2>6, <2>7, <2>8 DEF FileStep
<1>. QED
  BY <1>1, <1>2

\* The user's text is in a backup when the file is replaced.
LEMMA UserInvStep ==
    ASSUME IInv, NEW s \in Proc, FilesOK(s), UserInv(s), Step(s)
    PROVE  UserInv(s)'
<1>. USE DEF IInv, Domains
<1>0. WritingOK(s) /\ aim[s] \in File /\ "config" \in File
  BY DEF WritingOK, File
<1>1. CASE ~FileStep(s)
  <2>1. Quiet(s)
    BY <1>1, SetterIsQuiet
  <2>2. /\ UNCHANGED <<backups, newest, late>> /\ live'["config"] = live["config"]
        /\ ~(aim'[s] = "config" /\ pc'[s] \in {"open", "write", "rename"})
    BY <2>1 DEF Quiet, userVars, Writing
  <2>. QED
    BY <2>2 DEF UserInv
<1>2. CASE FileStep(s)
  <2>1. UNCHANGED <<newest, late, aim>>
    <3>0. pc[s] \in Writing
      BY <1>2 DEF FileStep, Backup, Open, Write, Rename, At, Writing
    <3>. QED
      BY <1>2, <3>0, WritingOnly DEF setupVars, FileStep, Backup, Open, Write, Rename, writeVars
  <2>2. CASE aim[s] # "config"
    <3>1. live'["config"] = live["config"] /\ backups'["config"] = backups["config"]
      <4>1. CASE Backup(s) \/ Open(s)
        <5>1. live'["config"] = live["config"]
          BY <4>1 DEF Backup, Open
        <5>2. backups' = backups \/ \E B : backups' = [backups EXCEPT ![aim[s]] = B]
          BY <4>1, Zenon DEF Backup, Open
        <5>3. ASSUME NEW B, backups' = [backups EXCEPT ![aim[s]] = B]
              PROVE  backups'["config"] = backups["config"]
          BY <1>0, <2>2, <5>3
        <5>. QED
          BY <5>1, <5>2, <5>3
      <4>2. CASE Write(s) \/ Rename(s)
        BY <1>0, <2>2, <4>2, OneFileAtATime DEF Write, Rename
      <4>. QED
        BY <1>2, <4>1, <4>2 DEF FileStep
    <3>. QED
      BY <2>1, <2>2, <3>1 DEF UserInv
  <2>3. CASE aim[s] = "config" /\ Backup(s)
    <3>1. live' = live /\ backups'["config"] = backups["config"] \cup ({live["config"]} \ {NoFile})
      BY <1>0, <2>3 DEF Backup
    <3>. QED
      BY <2>1, <3>1 DEF UserInv
  <2>4. CASE aim[s] = "config" /\ (Open(s) \/ Write(s) \/ Rename(s))
    <3>1. pc[s] \in {"open", "write", "rename"} /\ UNCHANGED backups
      BY <2>4 DEF Open, Write, Rename, At
    <3>. QED
      BY <2>1, <2>4, <3>1 DEF UserInv
  <2>. QED
    BY <1>2, <2>2, <2>3, <2>4 DEF FileStep
<1>. QED
  BY <1>1, <1>2

\* Where a step goes that is not one of EnsureUpstream or of SkillsPlan.
BundleLabels == {"clear", "aside", "movein", "verify", "discard", "putback", "drop"}
SkillLabels == {"save", "legacy", "copy", "mark"}

LEMMA GoesElsewhere ==
    ASSUME NEW s \in Proc, Step(s), Domains, aim[s] \in File
    PROVE  /\ ~BundleStep(s) => UNCHANGED bundleVars /\ pc'[s] \notin BundleLabels
           /\ ~SetupStep(s) => UNCHANGED skillVars /\ pc'[s] \notin SkillLabels
<1>. USE DEF Domains
<1>1. CASE Start(s)
  <2>1. PICK name \in May[s] : Goto(s, First[name])
    BY <1>1 DEF Start
  <2>2. pc'[s] \notin BundleLabels \cup SkillLabels
    BY <2>1, MayAssumption DEF Goto, First, BundleLabels, SkillLabels
  <2>. QED
    BY <1>1, <2>2 DEF Start, setupVars, skillVars
<1>2. CASE FileStep(s) /\ UNCHANGED <<bundleVars, setupVars>>
  <2>1. CASE Backup(s) \/ Open(s) \/ Write(s)
    BY <1>2, <2>1 DEF Backup, Open, Write, Goto, BundleLabels, SkillLabels, setupVars, skillVars
  <2>2. CASE Rename(s)
    <3>1. Goto(s, "failed") \/ Goto(s, Then(s, Phase[aim[s]]))
      BY <2>2, RenameTakesNext
    <3>2. Then(s, Phase[aim[s]]) \in {"default", "fetch", "done"}
      BY DEF Then, Phase, File
    <3>. QED
      BY <1>2, <3>1, <3>2 DEF Goto, BundleLabels, SkillLabels, setupVars, skillVars
  <2>. QED
    BY <1>2, <2>1, <2>2 DEF FileStep
<1>3. CASE (GiveUp(s) \/ Return(s) \/ Crash(s)) /\ UNCHANGED <<bundleVars, setupVars>>
  BY <1>3 DEF GiveUp, Return, Crash, Stop, Goto, BundleLabels, SkillLabels, setupVars, skillVars
<1>4. CASE StoreStep(s) /\ UNCHANGED <<bundleVars, setupVars>>
  <2>1. pc'[s] \notin BundleLabels \cup SkillLabels
    <3>1. CASE Default(s) \/ Train(s) \/ Download(s) \/ Stage(s)
      BY <3>1 DEF Default, Train, Download, Stage, Goto, BundleLabels, SkillLabels
    <3>2. CASE Publish(s) \/ Activate(s)
      BY <3>2 DEF Publish, Activate, Replace, Goto, BundleLabels, SkillLabels
    <3>. QED
      BY <1>4, <3>1, <3>2 DEF StoreStep
  <2>. QED
    BY <1>4, <2>1 DEF setupVars, skillVars
<1>5. CASE BundleStep(s) /\ UNCHANGED setupVars
  <2>1. pc'[s] \notin SkillLabels
    <3>1. CASE Fetch(s) \/ Clear(s) \/ Aside(s)
      BY <3>1 DEF Fetch, Clear, Aside, Goto, SkillLabels
    <3>2. CASE MoveIn(s) \/ Verify(s) \/ Discard(s) \/ PutBack(s) \/ Drop(s)
      BY <3>2 DEF MoveIn, Verify, Discard, PutBack, Drop, Goto, SkillLabels
    <3>3. CASE Tear(s)
      BY <3>3 DEF Tear, At, fileVars, SkillLabels
    <3>. QED
      BY <1>5, <3>1, <3>2, <3>3 DEF BundleStep
  <2>. QED
    BY <1>5, <2>1 DEF setupVars, skillVars
<1>6. CASE SetupStep(s) /\ UNCHANGED bundleVars
  <2>1. CASE Advisory(s) \/ ConfigPlan(s) \/ Fill(s)
    BY <1>6, <2>1 DEF Advisory, ConfigPlan, Fill, Replace, Goto, Then, BundleLabels
  <2>2. CASE MCPPlan(s) \/ MCPUninstallPlan(s) \/ MCPRollbackPlan(s)
    <3>1. Fail(s) \/ \E t : Replace(s, "config", t, "backup")
      BY <2>2, Zenon DEF MCPPlan, MCPUninstallPlan, MCPRollbackPlan, ReplaceOrFail
    <3>. QED
      BY <1>6, <3>1 DEF Fail, Replace, Goto, BundleLabels
  <2>3. CASE FindSkill(s) \/ SaveSkill(s) \/ RemoveLegacy(s) \/ CopySkill(s) \/ Mark(s)
    BY <1>6, <2>3 DEF FindSkill, SaveSkill, RemoveLegacy, CopySkill, Mark, At, Goto, BundleLabels
  <2>. QED
    BY <1>6, <2>1, <2>2, <2>3 DEF SetupStep
<1>. QED
  BY <1>1, <1>2, <1>3, <1>4, <1>5, <1>6 DEF Step

\* A marked directory is saved before anything in it changes.
LEMMA SkillsInvStep ==
    ASSUME IInv, NEW s \in Proc, SkillsInv(s), Step(s)
    PROVE  SkillsInv(s)'
<1>. USE DEF IInv, Domains
<1>1. CASE ~SetupStep(s)
  <2>1. UNCHANGED skillVars /\ pc'[s] \notin SkillLabels
    BY <1>1, GoesElsewhere DEF WritingOK
  <2>. QED
    BY <2>1 DEF SkillsInv, skillVars, SkillLabels
<1>2. CASE Advisory(s) \/ ConfigPlan(s) \/ Fill(s)
  <2>1. UNCHANGED <<skill, saved>> /\ pc'[s] \notin SkillLabels
    BY <1>2 DEF Advisory, ConfigPlan, Fill, Replace, Goto, Then, SkillLabels, setupVars
  <2>. QED
    BY <2>1 DEF SkillsInv, SkillLabels
<1>3. CASE MCPPlan(s) \/ MCPUninstallPlan(s) \/ MCPRollbackPlan(s)
  <2>1. Fail(s) \/ \E t : Replace(s, "config", t, "backup")
    BY <1>3, Zenon DEF MCPPlan, MCPUninstallPlan, MCPRollbackPlan, ReplaceOrFail
  <2>2. pc'[s] \notin SkillLabels
    BY <2>1 DEF Fail, Replace, Goto, SkillLabels
  <2>3. UNCHANGED <<skill, saved>>
    BY <1>3 DEF MCPPlan, MCPUninstallPlan, MCPRollbackPlan, setupVars
  <2>. QED
    BY <2>2, <2>3 DEF SkillsInv, SkillLabels
<1>4. CASE FindSkill(s)
  <2>1. UNCHANGED <<skill, saved>> /\ pc'[s] \notin {"legacy", "mark"}
        /\ (pc'[s] = "save" => skill.marked) /\ (pc'[s] = "copy" => ~skill.marked)
    BY <1>4 DEF FindSkill, Goto, setupVars, SkillsInv
  <2>. QED
    BY <2>1 DEF SkillsInv
<1>5. CASE SaveSkill(s)
  <2>1. pc[s] = "save" /\ pc'[s] = "legacy" /\ skill' = skill /\ saved' = saved \cup {skill.tree}
    BY <1>5 DEF SaveSkill, At, Goto
  <2>2. skill.marked /\ skill.tree # "none" /\ (skill.tree = "mixed" => saved \cap {"old", "new"} # {})
    BY <2>1 DEF SkillsInv
  <2>3. saved' \cap {"old", "new"} # {}
    BY <2>1, <2>2 DEF SkillsInv
  <2>. QED
    BY <2>1, <2>2, <2>3 DEF SkillsInv
<1>6. CASE RemoveLegacy(s)
  <2>1. /\ pc[s] = "legacy" /\ pc'[s] = "copy" /\ saved' = saved
        /\ skill' = [skill EXCEPT !.tree = IF @ = "old" THEN "mixed" ELSE @]
    BY <1>6 DEF RemoveLegacy, At, Goto
  <2>2. skill.marked /\ saved \cap {"old", "new"} # {}
    BY <2>1 DEF SkillsInv
  <2>3. /\ skill'.marked = skill.marked /\ skill'.tree \in {skill.tree, "mixed"}
        /\ skill' = [tree |-> skill'.tree, marked |-> skill'.marked]
    BY <2>1 DEF SkillsInv
  <2>. QED
    BY <2>1, <2>2, <2>3 DEF SkillsInv
<1>7. CASE CopySkill(s)
  <2>1. pc[s] = "copy" /\ pc'[s] \in {"copy", "mark"} /\ saved' = saved
    BY <1>7 DEF CopySkill, At, Goto
  <2>2. \/ skill' = [skill EXCEPT !.tree = "mixed"] /\ pc'[s] = "copy"
        \/ skill' = [skill EXCEPT !.tree = "new"]
    BY <1>7, <2>1 DEF CopySkill
  <2>3. /\ skill'.marked = skill.marked /\ skill'.tree \in {"new", "mixed"} /\ (pc'[s] = "mark" => skill'.tree = "new")
        /\ skill' = [tree |-> skill'.tree, marked |-> skill'.marked]
    BY <2>2 DEF SkillsInv
  <2>. QED
    BY <2>1, <2>3 DEF SkillsInv
<1>8. CASE Mark(s)
  <2>1. pc[s] = "mark" /\ pc'[s] = "done" /\ saved' = saved /\ skill' = [skill EXCEPT !.marked = TRUE]
    BY <1>8 DEF Mark, At, Goto
  <2>2. /\ skill'.marked = TRUE /\ skill'.tree = "new"
        /\ skill' = [tree |-> skill'.tree, marked |-> skill'.marked]
    BY <2>1 DEF SkillsInv
  <2>. QED
    BY <2>1, <2>2 DEF SkillsInv
<1>. QED
  BY <1>1, <1>2, <1>3, <1>4, <1>5, <1>6, <1>7, <1>8 DEF SetupStep

\* One fault more or less, the bundle is good in its place or aside.
LEMMA BundleInvStep ==
    ASSUME IInv, NEW s \in Proc, BundleInv(s), Step(s), faults' \in {faults, faults + 1}
    PROVE  BundleInv(s)'
<1>. USE DEF IInv, Domains
<1>0. /\ faults \in Nat /\ CommandOK(s) /\ RightStep(cmd[s], pc[s])
      /\ pc[s] \in {"clear", "aside", "movein", "verify"} => cmd[s].data = "good"
  BY DEF StoreOK, CommandOK, RightStep
<1>1. CASE ~BundleStep(s)
  <2>1. UNCHANGED <<onnx, old, owned>> /\ pc'[s] \notin BundleLabels
    BY <1>1, GoesElsewhere DEF WritingOK, bundleVars
  <2>2. pc[s] \in BundleLabels => faults' = faults + 1
    <3>1. SUFFICES ASSUME pc[s] \in BundleLabels PROVE faults' = faults + 1
      OBVIOUS
    <3>2. ~Start(s) /\ ~StoreStep(s) /\ ~Return(s) /\ ~GiveUp(s)
      BY <3>1 DEF Start, StoreStep, Default, Train, Download, Stage, Publish, Activate, Return, GiveUp,
                  Fallible, At, BundleLabels
    <3>3. ~SetupStep(s)
      BY <3>1 DEF SetupStep, Advisory, ConfigPlan, Fill, MCPPlan, MCPUninstallPlan, MCPRollbackPlan,
                  FindSkill, SaveSkill, RemoveLegacy, CopySkill, Mark, At, BundleLabels
    <3>4. ~FileStep(s)
      BY <3>1 DEF FileStep, Backup, Open, Write, Rename, At, BundleLabels
    <3>5. Crash(s)
      BY <1>1, <3>2, <3>3, <3>4 DEF Step
    <3>. QED
      BY <3>5 DEF Crash, Fault
  <2>. QED
    BY <1>0, <2>1, <2>2 DEF BundleInv, BundleLabels
<1>2. CASE Fetch(s)
  <2>1. UNCHANGED <<onnx, old, owned, faults>> /\ pc[s] = "fetch" /\ pc'[s] \in {"clear", "failed"}
    BY <1>2 DEF Fetch, bundleVars, At, Goto
  <2>. QED
    BY <1>0, <2>1 DEF BundleInv
<1>3. CASE Tear(s)
  <2>1. /\ UNCHANGED <<owned, faults, pc>>
        /\ \/ pc[s] \in {"clear", "drop"} /\ old = "good" /\ old' = "bad" /\ onnx' = onnx
           \/ pc[s] = "discard" /\ onnx = "good" /\ onnx' = "bad" /\ old' = old
    BY <1>3 DEF Tear, At, fileVars
  <2>. QED
    BY <1>0, <2>1 DEF BundleInv
<1>4. CASE Clear(s)
  <2>1. /\ pc[s] = "clear" /\ UNCHANGED <<onnx, owned>>
        /\ pc'[s] = IF onnx = "none" THEN "movein" ELSE "aside"
        /\ (old' = "none" /\ faults' = faults) \/ (old' = old /\ faults' = faults + 1)
    BY <1>4 DEF Clear, Removed, Fault, At, Goto
  <2>. QED
    BY <1>0, <2>1 DEF BundleInv
<1>5. CASE Aside(s)
  <2>1. /\ pc[s] = "aside" /\ owned' = owned
        /\ \/ old = "none" /\ old' = onnx /\ onnx' = "none" /\ pc'[s] = "movein" /\ faults' = faults
           \/ (old # "none" \/ faults' = faults + 1) /\ pc'[s] = "failed" /\ UNCHANGED <<onnx, old>>
    BY <1>5 DEF Aside, Fault, At, Goto
  <2>. QED
    BY <1>0, <2>1 DEF BundleInv
<1>6. CASE MoveIn(s)
  <2>1. /\ pc[s] = "movein" /\ UNCHANGED <<owned, old>>
        /\ \/ onnx' = "good" /\ pc'[s] = "verify" /\ faults' = faults
           \/ faults' = faults + 1 /\ pc'[s] = "putback" /\ onnx' = onnx
    BY <1>0, <1>6 DEF MoveIn, Fault, At, Goto
  <2>. QED
    BY <1>0, <2>1 DEF BundleInv
<1>7. CASE Verify(s)
  <2>1. /\ pc[s] = "verify" /\ UNCHANGED <<onnx, old>>
        /\ \/ onnx = "good" /\ pc'[s] = "drop" /\ faults' = faults
           \/ faults' = faults + 1 /\ pc'[s] = "discard" /\ owned' = owned
    BY <1>0, <1>7 DEF Verify, Fault, At, Goto
  <2>. QED
    BY <1>0, <2>1 DEF BundleInv
<1>8. CASE Discard(s)
  <2>1. /\ pc[s] = "discard" /\ UNCHANGED <<owned, old>> /\ pc'[s] = "putback"
        /\ (onnx' = "none" /\ faults' = faults) \/ (onnx' = onnx /\ faults' = faults + 1)
    BY <1>8 DEF Discard, Removed, Fault, At, Goto
  <2>. QED
    BY <1>0, <2>1 DEF BundleInv
<1>9. CASE PutBack(s)
  <2>1. /\ pc[s] = "putback" /\ UNCHANGED <<owned, faults>> /\ pc'[s] = "failed"
        /\ (onnx' = old /\ old' = "none") \/ UNCHANGED <<onnx, old>>
    BY <1>9 DEF PutBack, At, Goto
  <2>. QED
    BY <1>0, <2>1 DEF BundleInv
<1>10. CASE Drop(s)
  <2>1. /\ pc[s] = "drop" /\ UNCHANGED <<onnx, owned>> /\ pc'[s] = "policy"
        /\ (old' = "none" /\ faults' = faults) \/ (old' = old /\ faults' = faults + 1)
    BY <1>10 DEF Drop, Removed, Fault, At, Goto
  <2>. QED
    BY <1>0, <2>1 DEF BundleInv
<1>. QED
  BY <1>1, <1>2, <1>3, <1>4, <1>5, <1>6, <1>7, <1>8, <1>9, <1>10 DEF BundleStep

\* "violin install" gets to a step only when what comes before it is there.
LEMMA WholeInvStep ==
    ASSUME IInv, NEW s \in Proc, FilesOK(s), BundleInv(s), WholeInv(s), Step(s)
    PROVE  WholeInv(s)'
<1>. USE DEF IInv, Domains
<1>0. /\ CommandOK(s) /\ WritingOK(s) /\ aim[s] \in File /\ RightStep(cmd[s], pc[s])
      /\ "active" # NoFile /\ "template" # NoFile /\ Empty # "active" /\ Empty # NoFile
      /\ NoFile \notin Config
  BY InstallerAssumption, Distinct DEF WritingOK, CommandOK, Policy
<1>v. (Verified(Builtin) => Verified(Builtin)') /\ (live["active"] # NoFile => live'["active"] # NoFile)
  <2>1. Kept
    BY StepGood DEF Good
  <2>2. PICK b : b = Builtin
    OBVIOUS
  <2>3. (Verified(b) => Verified(b)')
    BY <2>1 DEF Kept
  <2>4. Verified(Builtin) => Verified(Builtin)'
    BY <2>2, <2>3 DEF Verified
  <2>. QED
    BY <2>4, ActiveStays
<1>e. ASSUME pc'[s] \in {"failed", "idle", "advisory"} PROVE WholeInv(s)'
  BY <1>e DEF WholeInv, Advised, Activated, Fetched, Replacing, Fetching, Writing
<1>1. CASE GiveUp(s) \/ Return(s) \/ Crash(s)
  BY <1>e, <1>1 DEF GiveUp, Return, Crash, Stop, Goto
<1>2. CASE Start(s)
  <2>1. PICK name \in May[s] : \E c \in Command(name) : cmd' = [cmd EXCEPT ![s] = c] /\ Goto(s, First[name])
    BY <1>2 DEF Start
  <2>2. cmd'[s].name = name /\ pc'[s] = First[name]
    BY <2>1 DEF Command, Goto
  <2>3. CASE name = "install"
    BY <1>e, <2>2, <2>3 DEF First
  <2>4. CASE name # "install"
    BY <2>2, <2>4 DEF WholeInv
  <2>. QED
    BY <2>3, <2>4
<1>3. CASE FileStep(s)
  <2>1. pc[s] \in Writing /\ UNCHANGED <<cmd, aim, text, onnx>>
    <3>1. pc[s] \in Writing
      BY <1>3 DEF FileStep, Backup, Open, Write, Rename, At, Writing
    <3>. QED
      BY <1>3, <3>1, WritingOnly DEF bundleVars, FileStep, Backup, Open, Write, Rename, writeVars
  <2>2. CASE ~Rename(s)
    <3>1. pc'[s] \in Writing \cup {"failed"}
      BY <1>3, <2>2 DEF FileStep, Backup, Open, Write, Goto, Writing
    <3>2. live'["policy"] = live["policy"]
      <4>1. CASE Backup(s) \/ Open(s)
        BY <4>1 DEF Backup, Open
      <4>2. CASE Write(s) /\ aim[s] = "policy"
        <5>1. fd[s] = "next"
          BY <4>2 DEF FilesOK, Write, At
        <5>. QED
          BY <4>2, <5>1 DEF Write
      <4>3. CASE Write(s) /\ aim[s] # "policy"
        BY <4>3, OneFileAtATime DEF File
      <4>. QED
        BY <1>3, <2>2, <4>1, <4>2, <4>3 DEF FileStep
    <3>3. CASE pc'[s] \in Writing
      <4>1. /\ \A f : Replacing(s, f)' = Replacing(s, f)
            /\ pc[s] \notin Fetching /\ pc'[s] \notin Fetching
        BY <2>1, <3>3 DEF Replacing, Writing, Fetching
      <4>. QED
        BY <1>v, <2>1, <3>2, <3>3, <4>1 DEF WholeInv, Advised, Activated, Fetched, Writing
    <3>. QED
      BY <1>e, <3>1, <3>3
  <2>3. CASE Rename(s)
    <3>1. CASE Goto(s, "failed")
      BY <1>e, <3>1 DEF Goto
    <3>2. CASE /\ live'[aim[s]] = next[aim[s]] /\ next'[aim[s]] = NoFile
               /\ next[aim[s]] # NoFile /\ Goto(s, Then(s, Phase[aim[s]]))
      <4>0. SUFFICES ASSUME cmd[s].name = "install" PROVE WholeInv(s)'
        BY <2>1 DEF WholeInv
      <4>1. pc[s] = "rename" /\ pc'[s] = Phase[aim[s]]
        BY <2>3, <3>2, <4>0 DEF Rename, At, Goto, Then
      <4>2. \A f \in File : f # aim[s] => live'[f] = live[f]
        BY <2>3, OneFileAtATime
      <4>3. CASE aim[s] = "policy"
        <5>1. live'["policy"] = "advisory" /\ pc'[s] = "default"
          BY <1>0, <2>1, <3>2, <4>1, <4>3 DEF FilesOK, WritingOK, Phase
        <5>. QED
          BY <5>1 DEF WholeInv, Advised, Activated, Fetched, Replacing, Fetching, Writing
      <4>4. CASE aim[s] = "active"
        <5>1. /\ live'["policy"] = live["policy"] /\ live'["active"] # NoFile /\ pc'[s] = "fetch"
              /\ Replacing(s, "active")
          BY <2>1, <3>2, <4>1, <4>2, <4>4 DEF Phase, File, Replacing
        <5>2. live["policy"] # "active" /\ Verified(Builtin)
          BY <4>0, <5>1 DEF WholeInv, Advised
        <5>. QED
          BY <1>v, <5>1, <5>2 DEF WholeInv, Advised, Activated, Fetched, Replacing, Fetching, Writing
      <4>5. CASE aim[s] = "config"
        <5>1. /\ live'["policy"] = live["policy"] /\ live'["config"] = text[s] /\ pc'[s] = "done"
              /\ Replacing(s, "config") /\ text[s] \in Config
          BY <2>1, <3>2, <4>1, <4>2, <4>5 DEF Phase, File, Replacing, FilesOK
        <5>2. /\ live["policy"] \notin {"active", NoFile} /\ Verified(Builtin) /\ live["active"] # NoFile
              /\ onnx = "good" /\ text[s].block = "managed"
          BY <4>0, <4>1, <5>1 DEF WholeInv, Advised, Activated, Fetched
        <5>. QED
          BY <1>0, <1>v, <2>1, <5>1, <5>2 DEF WholeInv, Advised, Activated, Fetched, Replacing, Fetching, Writing
      <4>. QED
        BY <1>0, <4>3, <4>4, <4>5 DEF File
    <3>. QED
      BY <1>0, <2>3, <3>1, <3>2, RenameTakesNext
  <2>. QED
    BY <2>2, <2>3
<1>4. CASE StoreStep(s) /\ UNCHANGED bundleVars
  <2>1. UNCHANGED <<live, onnx>>
    <3>1. CASE Default(s) \/ Train(s) \/ Download(s) \/ Stage(s)
      BY <1>4, <3>1 DEF Default, Train, Download, Stage, diskVars, bundleVars
    <3>2. CASE Publish(s) \/ Activate(s)
      BY <1>4, <3>2 DEF Publish, Activate, Replace, diskVars, bundleVars
    <3>. QED
      BY <1>4, <3>1, <3>2 DEF StoreStep
  <2>2. CASE Default(s)
    <3>1. UNCHANGED cmd /\ pc[s] = "default"
      BY <2>2 DEF Default, At
    <3>2. CASE DefaultReady /\ pc'[s] = "fetch"
      <4>1. Verified(Builtin)' /\ live["active"] # NoFile
        BY <1>v, <3>2, StoreAssumption DEF DefaultReady
      <4>. QED
        BY <2>1, <3>1, <3>2, <4>1 DEF WholeInv, Advised, Activated, Fetched, Replacing, Fetching, Writing
    <3>3. CASE pc'[s] = "stage"
      BY <2>1, <3>1, <3>3 DEF WholeInv, Advised, Activated, Fetched, Replacing, Fetching, Writing
    <3>. QED
      BY <2>2, <3>2, <3>3 DEF Default, Goto
  <2>3. CASE Train(s) \/ Download(s) \/ Activate(s)
    <3>1. cmd[s].name # "install" /\ cmd'[s].name = cmd[s].name
      <4>1. CASE Train(s)
        BY <1>0, <4>1 DEF Train, At, RightStep, CommandOK
      <4>2. CASE Download(s) \/ Activate(s)
        BY <1>0, <4>2 DEF Download, Activate, Replace, At, RightStep
      <4>. QED
        BY <2>3, <4>1, <4>2
    <3>. QED
      BY <3>1 DEF WholeInv
  <2>4. CASE Stage(s)
    <3>1. UNCHANGED cmd /\ pc[s] = "stage" /\ pc'[s] \in {"publish", "failed"}
      BY <2>4 DEF Stage, At, Goto
    <3>. QED
      BY <2>1, <3>1 DEF WholeInv, Advised, Activated, Fetched, Replacing, Fetching, Writing
  <2>5. CASE Publish(s)
    <3>1. UNCHANGED cmd /\ pc[s] = "publish"
      BY <2>5 DEF Publish, Replace, At
    <3>2. CASE Goto(s, "failed")
      BY <1>e, <3>2 DEF Goto
    <3>3. CASE cmd[s].name # "install"
      BY <3>1, <3>3 DEF WholeInv
    <3>4. CASE ~Goto(s, "failed") /\ cmd[s].name = "install"
      <4>0. cmd[s].version = Builtin /\ versions[Builtin] = "absent"
        BY <1>0, <2>5, <3>4 DEF Publish, CommandOK
      <4>p. PICK x \in Brought("install") : versions' = [versions EXCEPT ![Builtin] = x]
        BY <2>5, <3>4, <4>0 DEF Publish
      <4>1. /\ versions' = [versions EXCEPT ![Builtin] = "complete"]
            /\ pc'[s] = "open" /\ aim'[s] = "active"
        <5>1. x = "complete"
          BY DEF Brought
        <5>2. pc'[s] = "open" /\ aim'[s] = "active"
          BY <1>0, <2>5, <3>4, <4>0 DEF Publish, Replace, Goto
        <5>. QED
          BY <4>p, <5>1, <5>2
      <4>2. Verified(Builtin)'
        BY <4>1, StoreAssumption DEF Verified
      <4>. QED
        BY <2>1, <3>1, <4>1, <4>2 DEF WholeInv, Advised, Activated, Fetched, Replacing, Fetching, Writing
    <3>. QED
      BY <3>2, <3>3, <3>4
  <2>. QED
    BY <1>4, <2>2, <2>3, <2>4, <2>5 DEF StoreStep
<1>5. CASE BundleStep(s)
  <2>1. /\ pc[s] \in Fetching /\ cmd'[s].name = cmd[s].name /\ live' = live
        /\ pc'[s] \in Fetching \cup {"failed", "policy"} /\ (pc'[s] = "policy" => onnx' = onnx /\ pc[s] = "drop")
    <3>1. CASE Fetch(s)
      <4>1. cmd'[s].name = cmd[s].name
        BY <1>0, <3>1 DEF Fetch, CommandOK
      <4>. QED
        BY <3>1, <4>1 DEF Fetch, At, Goto, Fetching, diskVars
    <3>2. CASE Tear(s)
      BY <3>2 DEF Tear, At, fileVars, diskVars, Fetching
    <3>3. CASE Clear(s) \/ Aside(s) \/ MoveIn(s) \/ Verify(s)
      BY <3>3 DEF Clear, Aside, MoveIn, Verify, At, Goto, keepFiles, diskVars, Fetching
    <3>4. CASE Discard(s) \/ PutBack(s) \/ Drop(s)
      BY <3>4 DEF Discard, PutBack, Drop, At, Goto, keepFiles, diskVars, Fetching
    <3>. QED
      BY <1>5, <3>1, <3>2, <3>3, <3>4 DEF BundleStep
  <2>2. pc'[s] = "policy" => onnx' = "good"
    BY <2>1 DEF BundleInv
  <2>. QED
    BY <1>v, <2>1, <2>2 DEF WholeInv, Advised, Activated, Fetched, Replacing, Fetching, Writing
<1>6. CASE SetupStep(s) /\ UNCHANGED bundleVars
  <2>0. UNCHANGED <<cmd, onnx>>
    <3>1. CASE MCPPlan(s) \/ MCPUninstallPlan(s) \/ MCPRollbackPlan(s)
      <4>1. Fail(s) \/ \E t : Replace(s, "config", t, "backup")
        BY <3>1, Zenon DEF MCPPlan, MCPUninstallPlan, MCPRollbackPlan, ReplaceOrFail
      <4>. QED
        BY <1>6, <4>1 DEF Fail, Replace, bundleVars
    <3>2. CASE Advisory(s) \/ ConfigPlan(s) \/ Fill(s)
      BY <1>6, <3>2 DEF Advisory, ConfigPlan, Fill, Replace, bundleVars
    <3>3. CASE FindSkill(s) \/ SaveSkill(s) \/ RemoveLegacy(s) \/ CopySkill(s) \/ Mark(s)
      BY <1>6, <3>3 DEF FindSkill, SaveSkill, RemoveLegacy, CopySkill, Mark, bundleVars
    <3>. QED
      BY <1>6, <3>1, <3>2, <3>3 DEF SetupStep
  <2>i. SUFFICES ASSUME cmd[s].name = "install" PROVE WholeInv(s)'
    BY <2>0 DEF WholeInv
  <2>1. CASE Advisory(s)
    <3>1. CASE pc'[s] = "backup" /\ aim'[s] = "policy"
      BY <3>1 DEF WholeInv, Advised, Activated, Fetched, Replacing, Fetching, Writing
    <3>2. CASE pc'[s] = "default" /\ live'["policy"] # "active"
      BY <3>2 DEF WholeInv, Advised, Activated, Fetched, Replacing, Fetching, Writing
    <3>. QED
      BY <2>1, <3>1, <3>2 DEF Advisory, Replace, Goto, diskVars
  <2>2. CASE ConfigPlan(s)
    <3>1. Fetched(s) /\ Activated(s) /\ Advised(s)
      BY <2>2 DEF ConfigPlan, At, Fetched, Activated, Advised
    <3>2. live["policy"] # "active" /\ Verified(Builtin)' /\ live'["active"] # NoFile /\ onnx' = "good"
      BY <1>v, <2>0, <2>i, <3>1 DEF WholeInv
    <3>3. pc'[s] \in {"fill", "plan"} /\ live'["policy"] \notin {"active", NoFile}
      <4>1. CASE live["policy"] = NoFile
        BY <1>0, <2>2, <4>1 DEF ConfigPlan, Goto, File
      <4>2. CASE live["policy"] # NoFile
        BY <2>2, <2>i, <3>2, <4>2 DEF ConfigPlan, Goto
      <4>. QED
        BY <4>1, <4>2
    <3>. QED
      BY <3>2, <3>3 DEF WholeInv, Advised, Activated, Fetched, Replacing, Fetching, Writing
  <2>3. CASE Fill(s)
    <3>1. pc[s] = "fill" /\ Fetched(s) /\ Activated(s) /\ Advised(s)
      BY <2>3 DEF Fill, At, Fetched, Activated, Advised
    <3>2. Verified(Builtin)' /\ live'["active"] # NoFile /\ onnx' = "good"
      BY <1>v, <2>0, <2>i, <3>1 DEF WholeInv
    <3>3. CASE live' = [live EXCEPT !["policy"] = "template"] /\ Goto(s, Then(s, "plan"))
      <4>1. pc'[s] = "plan" /\ live'["policy"] \notin {"active", NoFile}
        BY <1>0, <2>i, <3>3 DEF Goto, Then, File
      <4>. QED
        BY <3>2, <4>1 DEF WholeInv, Advised, Activated, Fetched, Replacing, Fetching, Writing
    <3>4. CASE Goto(s, "failed")
      BY <1>e, <3>4 DEF Goto
    <3>. QED
      BY <2>3, <3>3, <3>4 DEF Fill
  <2>4. CASE MCPPlan(s)
    <3>1. pc[s] = "plan" /\ Fetched(s) /\ Activated(s) /\ Advised(s)
      BY <2>4 DEF MCPPlan, At, Fetched, Activated, Advised
    <3>2. /\ Verified(Builtin)' /\ live["active"] # NoFile /\ onnx = "good"
          /\ live["policy"] \notin {"active", NoFile}
      BY <1>v, <2>i, <3>1 DEF WholeInv
    <3>3. ASSUME NEW t \in Config, Replace(s, "config", t, "backup"), t.block = "managed" PROVE WholeInv(s)'
      <4>1. pc'[s] = "backup" /\ aim'[s] = "config" /\ text'[s].block = "managed" /\ live' = live
        BY <3>3 DEF Replace, Goto, diskVars
      <4>. QED
        BY <2>0, <3>2, <4>1 DEF WholeInv, Advised, Activated, Fetched, Replacing, Fetching, Writing
    <3>4. ASSUME Fail(s) PROVE WholeInv(s)'
      BY <1>e, <3>4 DEF Fail, Goto
    <3>. QED
      BY <2>4, <3>3, <3>4, PlansWriteTexts
  <2>5. CASE MCPUninstallPlan(s) \/ MCPRollbackPlan(s)
    BY <2>5, <2>i DEF MCPUninstallPlan, MCPRollbackPlan
  <2>6. CASE FindSkill(s) \/ SaveSkill(s) \/ RemoveLegacy(s) \/ CopySkill(s) \/ Mark(s)
    BY <1>0, <2>6, <2>i DEF FindSkill, SaveSkill, RemoveLegacy, CopySkill, Mark, At, RightStep, Skilling
  <2>. QED
    BY <1>6, <2>1, <2>2, <2>3, <2>4, <2>5, <2>6 DEF SetupStep
<1>. QED
  BY <1>1, <1>2, <1>3, <1>4, <1>5, <1>6 DEF Step

\* The other processes do not disturb what s has done.
LEMMA StillKeeps ==
    ASSUME IInv, NEW s \in Proc, SetterInv(s), Still(s),
           Verified(Builtin) => Verified(Builtin)', live["active"] # NoFile => live'["active"] # NoFile
    PROVE  SetterInv(s)'
<1>0. faults \in Nat
  BY DEF IInv, StoreOK
<1>. USE DEF SetterInv, Still
<1>1. FilesOK(s)'
  <2>1. /\ UNCHANGED <<pc[s], aim[s], text[s], backups, newest>>
        /\ UNCHANGED <<live["config"], next["config"], live["policy"], next["policy"]>>
        /\ faults > 0 => faults' > 0
    BY <1>0 DEF setupVars
  <2>2. aim[s] \in {"config", "policy"} => fd'[s] = fd[s] /\ next'[aim[s]] = next[aim[s]]
    OBVIOUS
  <2>. QED
    BY <2>1, <2>2 DEF FilesOK
<1>2. UserInv(s)'
  BY DEF UserInv, setupVars
<1>3. SkillsInv(s)'
  BY DEF SkillsInv, setupVars
<1>4. BundleInv(s)'
  BY <1>0 DEF BundleInv, bundleVars
<1>5. WholeInv(s)'
  <2>1. /\ UNCHANGED <<pc[s], cmd[s], aim[s], text[s], onnx>>
        /\ UNCHANGED <<live["config"], live["policy"]>>
    BY DEF bundleVars
  <2>. QED
    BY <2>1 DEF WholeInv, Advised, Activated, Fetched, Replacing
<1>. QED
  BY <1>1, <1>2, <1>3, <1>4, <1>5

\* Nor does the user, who leaves Violin's block alone.
LEMMA EditKeeps ==
    ASSUME IInv, NEW s \in Proc, SetterInv(s), Edit
    PROVE  SetterInv(s)'
<1>. USE DEF SetterInv
<1>1. /\ UNCHANGED <<pc, cmd, aim, text, fd, next, backups, faults, skill, saved, onnx, old, owned, versions>>
      /\ newest' = newest + 1 /\ newest < MaxEdits
      /\ live' = [live EXCEPT !["config"] = [Text(@) EXCEPT !.user = newest + 1]]
      /\ late' = \E p \in Proc : aim[p] = "config" /\ pc[p] \in {"open", "write", "rename"}
  BY DEF Edit, UserEdit, writeVars, skillVars, bundleVars, storeVars
<1>2. live["config"] \in Config \cup {NoFile} /\ newest \in 0 .. MaxEdits /\ MaxEdits \in Nat
      /\ DOMAIN live = File /\ NoFile \notin Config
  BY InstallerAssumption DEF FilesOK, IInv, Domains
<1>3. newest + 1 \in 0 .. MaxEdits
  BY <1>1, <1>2
<1>4. /\ live'["config"] = [Text(live["config"]) EXCEPT !.user = newest + 1]
      /\ live'["policy"] = live["policy"] /\ live'["active"] = live["active"]
  BY <1>1, <1>2 DEF File
<1>5. /\ live'["config"] \in Config /\ live'["config"] # NoFile /\ live'["config"].user = newest + 1
      /\ live["config"] # NoFile => live'["config"].block = live["config"].block
  <2>1. Text(live["config"]) \in Config /\ (live["config"] # NoFile => Text(live["config"]) = live["config"])
    BY <1>2 DEF Text, Config
  <2>2. \A c \in Config : [c EXCEPT !.user = newest + 1] \in Config
                          /\ [c EXCEPT !.user = newest + 1].user = newest + 1
                          /\ [c EXCEPT !.user = newest + 1].block = c.block
    BY <1>3 DEF Config
  <2>. QED
    BY <1>2, <1>4, <2>1, <2>2
<1>6. FilesOK(s)'
  BY <1>1, <1>3, <1>4, <1>5 DEF FilesOK
<1>7. UserInv(s)'
  BY <1>1, <1>5 DEF UserInv
<1>8. SkillsInv(s)' /\ BundleInv(s)'
  BY <1>1 DEF SkillsInv, BundleInv
<1>9. WholeInv(s)'
  BY <1>1, <1>4, <1>5 DEF WholeInv, Advised, Activated, Fetched, Replacing, Verified
<1>. QED
  BY <1>6, <1>7, <1>8, <1>9

LEMMA SetterStep ==
    ASSUME NEW s, Setter(s)
    PROVE  IInv /\ SetterInv(s) /\ [Next]_vars => SetterInv(s)'
<1>. SUFFICES ASSUME IInv, SetterInv(s), [Next]_vars PROVE SetterInv(s)'
  OBVIOUS
<1>0. s \in Proc
  BY DEF Setter
<1>1. ASSUME NEW p \in Proc, Step(p), p # s PROVE SetterInv(s)'
  <2>1. Kept
    BY <1>1, StepGood DEF Good
  <2>2. PICK b : b = Builtin
    OBVIOUS
  <2>3. (Verified(b) => Verified(b)')
    BY <2>1 DEF Kept
  <2>4. Verified(Builtin) => Verified(Builtin)'
    BY <2>2, <2>3 DEF Verified
  <2>. QED
    BY <1>0, <1>1, <2>4, Bystander, StillKeeps, ActiveStays
<1>2. ASSUME Step(s) PROVE SetterInv(s)'
  <2>1. faults' \in {faults, faults + 1}
    <3>1. CASE FileStep(s)
      BY <3>1 DEF FileStep, Backup, Open, Write, Rename, Fault
    <3>2. CASE ~FileStep(s)
      BY <1>0, <1>2, <3>2, SetterIsQuiet DEF SetterInv, Quiet
    <3>. QED
      BY <3>1, <3>2
  <2>2. FilesOK(s)' /\ UserInv(s)'
    BY <1>0, <1>2, FilesOKStep, UserInvStep DEF SetterInv
  <2>3. SkillsInv(s)' /\ BundleInv(s)'
    BY <1>0, <1>2, <2>1, SkillsInvStep, BundleInvStep DEF SetterInv
  <2>4. WholeInv(s)'
    BY <1>0, <1>2, WholeInvStep DEF SetterInv
  <2>. QED
    BY <2>2, <2>3, <2>4 DEF SetterInv
<1>3. CASE Edit
  BY <1>0, <1>3, EditKeeps
<1>4. CASE UNCHANGED vars
  <2>1. Still(s) /\ UNCHANGED <<live, versions>>
    BY <1>4 DEF Still, vars, fileVars, writeVars, diskVars, storeVars
  <2>. QED
    BY <1>0, <2>1, StillKeeps DEF Verified
<1>. QED
  BY <1>1, <1>2, <1>3, <1>4 DEF Next

LEMMA InitSetter == ASSUME NEW s, Setter(s) PROVE Init => SetterInv(s)
<1>. SUFFICES ASSUME Init PROVE SetterInv(s)
  OBVIOUS
<1>0. s \in Proc
  BY DEF Setter
<1>1. PICK w \in World : /\ live = [active |-> w.active, config |-> w.config, policy |-> w.policy]
                         /\ onnx = w.onnx /\ old = "none" /\ owned = (w.onnx = "good")
                         /\ skill = w.skill /\ newest = Text(w.config).user
  BY DEF Init
<1>2. /\ pc[s] = "idle" /\ cmd[s] = Idle /\ aim[s] = "active" /\ faults = 0 /\ saved = {}
      /\ \A f \in File : next[f] = NoFile /\ backups[f] = {}
      /\ MaxEdits \in Nat
  BY <1>0, InstallerAssumption DEF Init, FilesInit
<1>3. /\ w.config \in Config \cup {NoFile} /\ w.policy \in Policy \cup {NoFile}
      /\ w.onnx \in {"none", "good", "bad"} /\ w.skill \in [tree : {"none", "old", "new"}, marked : BOOLEAN]
      /\ w.skill.tree = "none" => ~w.skill.marked
      /\ Empty \notin Policy
  BY InstallerAssumption
<1>4. newest \in 0 .. MaxEdits /\ (newest > 0 => live["config"] # NoFile /\ live["config"].user = newest)
  BY <1>1, <1>2, <1>3 DEF Text, Config
<1>5. FilesOK(s)
  BY <1>1, <1>2, <1>3, <1>4, Distinct DEF FilesOK, File, Writing
<1>6. UserInv(s) /\ SkillsInv(s)
  BY <1>1, <1>2, <1>3, <1>4 DEF UserInv, SkillsInv
<1>7. BundleInv(s)
  <2>1. owned => onnx = "good"
    BY <1>1
  <2>. QED
    BY <1>1, <1>2, <1>3, <2>1 DEF BundleInv
<1>8. WholeInv(s)
  BY <1>2 DEF WholeInv, Idle
<1>. QED
  BY <1>5, <1>6, <1>7, <1>8 DEF SetterInv

\* What holds of the one that sets Violin up holds always.
LEMMA SetterAlways ==
    ASSUME NEW s, Setter(s)
    PROVE  Spec => [](IInv /\ AloneInv /\ SetterInv(s))
<1>1. Init => SetterInv(s)
  BY InitSetter
<1>2. IInv /\ SetterInv(s) /\ [Next]_vars => SetterInv(s)'
  BY SetterStep
<1>. QED
  BY <1>1, <1>2, InitIInv, NextIInv, InitAlone, AloneStep, PTL DEF Spec

\* Files that are open, and versions.
Functions == /\ fd \in [Proc -> {"none", "next", "live", "lost"}]
             /\ versions \in [Version -> {"absent", "unverified", "complete"}]

LEMMA FunctionsAlways == Spec => []Functions
<1>1. Init => Functions
  <2>1. SUFFICES ASSUME Init PROVE Functions
    OBVIOUS
  <2>2. PICK w \in World : versions = w.versions
    BY <2>1 DEF Init
  <2>. QED
    BY <2>1, <2>2, InstallerAssumption DEF Init, FilesInit, Functions
<1>2. IInv /\ Functions /\ [Next]_vars => Functions'
  <2>1. SUFFICES ASSUME IInv, Functions, [Next]_vars PROVE Functions'
    OBVIOUS
  <2>2. CASE UNCHANGED vars
    BY <2>1, <2>2 DEF Functions, vars, fileVars, writeVars, storeVars
  <2>3. CASE Edit
    BY <2>1, <2>3 DEF Functions, Edit, UserEdit, writeVars, storeVars
  <2>4. ASSUME NEW p \in Proc, Step(p) PROVE Functions'
    <3>1. \/ versions' = versions
          \/ \E v : \E w \in {"unverified", "complete"} : versions' = [versions EXCEPT ![v] = w]
      <4>1. CASE UNCHANGED storeVars
        BY <4>1 DEF storeVars
      <4>2. CASE StoreStep(p) /\ ~Publish(p)
        BY <4>2 DEF StoreStep, Default, Train, Download, Stage, Activate, storeVars
      <4>3. CASE Publish(p)
        <5>1. CASE versions[cmd[p].version] # "absent"
          BY <4>3, <5>1 DEF Publish, storeVars
        <5>2. CASE versions[cmd[p].version] = "absent"
          <6>1. PICK w \in Brought(cmd[p].name) : versions' = [versions EXCEPT ![cmd[p].version] = w]
            BY <4>3, <5>2, Zenon DEF Publish
          <6>2. w \in {"unverified", "complete"}
            BY DEF Brought
          <6>. QED
            BY <6>1, <6>2, Zenon
        <5>. QED
          BY <5>1, <5>2
      <4>. QED
        BY <2>4, <4>1, <4>2, <4>3 DEF Step, Start
    <3>2. ASSUME NEW v, NEW w \in {"unverified", "complete"}, versions' = [versions EXCEPT ![v] = w]
          PROVE  versions' \in [Version -> {"absent", "unverified", "complete"}]
      BY <2>1, <3>2 DEF Functions
    <3>3. fd' \in [Proc -> {"none", "next", "live", "lost"}]
      <4>1. CASE Backup(p) \/ Open(p) \/ Write(p)
        BY <2>1, <4>1 DEF Functions, Backup, Open, Write, writeVars
      <4>2. CASE Rename(p)
        <5>1. ASSUME next[aim[p]] # NoFile PROVE fd' \in [Proc -> {"none", "next", "live", "lost"}]
          BY <2>1, <4>2, <5>1 DEF Functions, Rename
        <5>2. ASSUME next[aim[p]] = NoFile PROVE fd' = fd
          BY <4>2, <5>2 DEF Rename
        <5>. QED
          BY <2>1, <5>1, <5>2 DEF Functions
      <4>3. CASE GiveUp(p) \/ Return(p) \/ Crash(p) \/ Start(p)
        BY <2>1, <4>3 DEF Functions, GiveUp, Return, Crash, Stop, Start, writeVars
      <4>4. CASE StoreStep(p)
        <5>1. fd' = fd
          BY <4>4 DEF StoreStep, Default, Train, Download, Stage, Publish, Activate, Replace, writeVars
        <5>. QED
          BY <2>1, <5>1 DEF Functions
      <4>5. CASE BundleStep(p)
        <5>1. fd' = fd
          <6>1. CASE Fetch(p) \/ Tear(p) \/ Clear(p) \/ Aside(p) \/ MoveIn(p)
            BY <6>1 DEF Fetch, Tear, Clear, Aside, MoveIn, keepFiles, fileVars, writeVars
          <6>2. CASE Verify(p) \/ Discard(p) \/ PutBack(p) \/ Drop(p)
            BY <6>2 DEF Verify, Discard, PutBack, Drop, keepFiles, writeVars
          <6>. QED
            BY <4>5, <6>1, <6>2 DEF BundleStep
        <5>. QED
          BY <2>1, <5>1 DEF Functions
      <4>6. CASE SetupStep(p)
        <5>1. fd' = fd
          <6>1. CASE MCPPlan(p) \/ MCPUninstallPlan(p) \/ MCPRollbackPlan(p)
            <7>1. Fail(p) \/ \E t : Replace(p, "config", t, "backup")
              BY <6>1, Zenon DEF MCPPlan, MCPUninstallPlan, MCPRollbackPlan, ReplaceOrFail
            <7>. QED
              BY <7>1 DEF Fail, Replace, writeVars
          <6>2. CASE Advisory(p) \/ ConfigPlan(p) \/ Fill(p)
            BY <6>2 DEF Advisory, ConfigPlan, Fill, Replace, writeVars
          <6>3. CASE FindSkill(p) \/ SaveSkill(p) \/ RemoveLegacy(p) \/ CopySkill(p) \/ Mark(p)
            BY <6>3 DEF FindSkill, SaveSkill, RemoveLegacy, CopySkill, Mark, writeVars
          <6>. QED
            BY <4>6, <6>1, <6>2, <6>3 DEF SetupStep
        <5>. QED
          BY <2>1, <5>1 DEF Functions
      <4>. QED
        BY <2>4, <4>1, <4>2, <4>3, <4>4, <4>5, <4>6 DEF Step, FileStep
    <3>. QED
      BY <2>1, <3>1, <3>2, <3>3 DEF Functions
  <2>. QED
    BY <2>1, <2>2, <2>3, <2>4 DEF Next
<1>. QED
  BY <1>1, <1>2, InitIInv, NextIInv, PTL DEF Spec

\* Every file holds a text of its own kind, and a version is not there or is a
\* whole directory (models.Install's rename).
THEOREM TypeCorrect == ASSUME OneSetter PROVE Spec => []TypeOK
<1>. PICK s : Setter(s)
  BY DEF OneSetter
<1>1. IInv /\ AloneInv /\ SetterInv(s) /\ Functions => TypeOK
  <2>1. SUFFICES ASSUME IInv, SetterInv(s), Functions PROVE TypeOK
    OBVIOUS
  <2>2. FilesOK(s) /\ BundleInv(s) /\ StoreOK
    BY <2>1 DEF IInv, SetterInv
  <2>3. live["active"] \in Content["active"] /\ next["active"] \in Content["active"]
    BY <2>2 DEF StoreOK, ActiveText, Installed, Content
  <2>4. /\ live["config"] \in Content["config"] /\ next["config"] \in Content["config"]
        /\ live["config"] # Empty
    BY <2>2, InstallerAssumption, Distinct DEF FilesOK, Content
  <2>5. live["policy"] \in Content["policy"] /\ next["policy"] \in Content["policy"]
    BY <2>2 DEF FilesOK, Content, Policy
  <2>6. \A f \in File : backups[f] \subseteq Content[f]
    BY <2>2 DEF FilesOK, Content, File
  <2>. QED
    BY <2>1, <2>2, <2>3, <2>4, <2>5, <2>6 DEF TypeOK, Functions, BundleInv, File
<1>. QED
  BY <1>1, SetterAlways, FunctionsAlways, PTL

\* The active model, while no two processes replace it at once, and the policy
\* outside of its creation are replaced at once (activate, ConfigPlan).
THEOREM FilesReplacedAtOnce == ASSUME OneSetter PROVE Spec => []ReplacedAtOnce
<1>. PICK s : Setter(s)
  BY DEF OneSetter
<1>1. IInv /\ AloneInv /\ SetterInv(s) => ReplacedAtOnce
  BY DEF AloneInv, SetterInv, FilesOK, ReplacedAtOnce, Setter, At
<1>. QED
  BY <1>1, SetterAlways, PTL

\* A good bundle survives a command that is killed, or a move that fails, at
\* any step of EnsureUpstream.
THEOREM OneFaultSurvived == ASSUME OneSetter PROVE Spec => []OneFaultKeepsBundle
<1>. PICK s : Setter(s)
  BY DEF OneSetter
<1>1. IInv /\ AloneInv /\ SetterInv(s) => OneFaultKeepsBundle
  BY DEF SetterInv, BundleInv, OneFaultKeepsBundle, Staged, Setter
<1>. QED
  BY <1>1, SetterAlways, PTL

\* What the user wrote last is in the configuration or in a backup, through
\* any commands, failures and crashes (writeBackupAndAtomic).
THEOREM UserTextSafe == ASSUME OneSetter PROVE Spec => []UserTextKept
<1>. PICK s : Setter(s)
  BY DEF OneSetter
<1>1. IInv /\ AloneInv /\ SetterInv(s) => UserTextKept
  BY DEF SetterInv, UserInv, UserTextKept
<1>. QED
  BY <1>1, SetterAlways, PTL

\* A half replaced skill directory is marked and was saved, so that the next
\* run repairs it (SkillsPlan).
THEOREM SkillsSafe == ASSUME OneSetter PROVE Spec => []SkillsRecoverable
<1>. PICK s : Setter(s)
  BY DEF OneSetter
<1>1. IInv /\ AloneInv /\ SetterInv(s) => SkillsRecoverable
  BY DEF SetterInv, SkillsInv, SkillsRecoverable
<1>. QED
  BY <1>1, SetterAlways, PTL

\* "violin install" that says it is done has the bundle, the classifier and the
\* block in place, and no policy of the two lines it knows of (installRuntime).
THEOREM InstallationWhole == ASSUME OneSetter PROVE Spec => []InstalledIsWhole
<1>. PICK s : Setter(s)
  BY DEF OneSetter
<1>1. IInv /\ AloneInv /\ SetterInv(s) => InstalledIsWhole
  <2>1. SUFFICES ASSUME IInv, SetterInv(s), NEW p \in Proc, At(p, "done"), cmd[p].name = "install"
                 PROVE  /\ onnx = "good" /\ Verified(Builtin) /\ live["active"] # NoFile
                        /\ live["policy"] \notin {NoFile, "active"}
                        /\ live["config"].block = "managed"
    BY DEF InstalledIsWhole
  <2>2. p = s
    <3>1. CommandOK(p) /\ pc[p] = "done"
      BY <2>1 DEF IInv, At
    <3>. QED
      BY <2>1, <3>1 DEF CommandOK, Setter
  <2>. QED
    BY <2>1, <2>2 DEF SetterInv, WholeInv, Advised, Activated, Fetched, At
<1>. QED
  BY <1>1, SetterAlways, PTL
=============================================================================
