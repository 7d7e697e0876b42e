----------------------------- MODULE ModelStore -----------------------------
(***************************************************************************)
(* The versions of the classifier (internal/models/manager.go), the        *)
(* built-in one that "violin install" provides (default_model.go), and the *)
(* candidates that "violin model train" adds.  A version is copied to a    *)
(* directory of its own and moved into place.                              *)
(***************************************************************************)
EXTENDS Files, Gate

CONSTANTS
    Version,     \* names of model versions
    Builtin,     \* DefaultModelVersion
    DataSet,     \* data sets for training
    NoData       \* a version that was not trained here

ASSUME StoreAssumption == /\ Builtin \in Version /\ Version \cap {NoFile, Empty, Torn} = {}
                          /\ NoData \notin DataSet

\* A data set is a file, and its examples have the labels of their heads.
ASSUME DataAssumption == \A d \in DataSet :
    /\ IsFiniteSet(d.answers)
    /\ \A a \in d.answers : a.n \in Nat /\ a.head \in DOMAIN Labels /\ a.gold \in Labels[a.head]

VARIABLES
    versions,    \* versions[v]: "absent", "part", or there: "complete", which
                 \* VerifyVersion accepts, or "unverified", which it does not
    trained      \* trained[v]: the data the version was trained with

storeVars == <<versions, trained>>

\* VerifyVersion: the manifest is readable and is that of the version, and
\* every artifact has its digest and its size.
Verified(v) == v \in Version /\ versions[v] = "complete"
Installed(v) == v \in Version /\ versions[v] # "absent"

\* EnsureDefaultModel asks Status(): active, and verified.
DefaultReady == live["active"] = Builtin /\ Verified(Builtin)
Default(p) == /\ At(p, "default")
              /\ Goto(p, IF DefaultReady THEN "fetch" ELSE "stage")
              /\ UNCHANGED <<cmd, writeVars, diskVars, faults, storeVars>>

\* train: a candidate that does not meet the gate is reported and dropped.
Train(p) == /\ At(p, "train")
            /\ \/ \E d \in DataSet : /\ Accepted(d) /\ MeetsGate(d)
                                     /\ cmd' = [cmd EXCEPT ![p].data = d]
                                     /\ Goto(p, "stage")
               \/ /\ \E d \in DataSet : Accepted(d) /\ ~MeetsGate(d)
                  /\ Goto(p, "done") /\ UNCHANGED cmd
               \/ /\ \E d \in DataSet : ~Accepted(d)
                  /\ Goto(p, "failed") /\ UNCHANGED cmd
            /\ UNCHANGED <<writeVars, diskVars, faults, storeVars>>

\* InstallFromURL fetches the artifacts of an update first.
Download(p) == /\ At(p, "download")
               /\ Goto(p, "stage")
               /\ UNCHANGED <<cmd, writeVars, diskVars, faults, storeVars>>

\* Install, up to its last look: the artifacts that have a digest in the
\* manifest are compared with it, and all are copied to a directory of this
\* process; the version must not exist.
Stage(p) == /\ At(p, "stage")
            /\ Goto(p, IF versions[cmd[p].version] = "absent" THEN "publish" ELSE "failed")
            /\ UNCHANGED <<cmd, writeVars, diskVars, faults, storeVars>>

\* What Install leaves.  It does not look at sizes, nor at a manifest that is
\* an artifact itself: what an update brings may not verify, while the
\* manifests of the built-in version and of candidates are made for them.
Brought(name) == IF name = "update" THEN {"complete", "unverified"} ELSE {"complete"}

\* The directory is moved into place, which fails if the version exists by
\* now.  It is activated as it is; only a trained candidate is not.
PublishInPlace(p) ==
    LET v == cmd[p].version IN
    /\ At(p, "publish")
    /\ versions' = [versions EXCEPT ![v] = IF @ = "absent" THEN "part" ELSE "complete"]
    /\ UNCHANGED trained
    /\ IF versions[v] = "absent" THEN UNCHANGED fileVars ELSE Replace(p, "active", v, "open")

Publish(p) ==
    LET v == cmd[p].version IN
    /\ At(p, "publish")
    /\ IF versions[v] # "absent"
       THEN /\ Goto(p, "failed")
            /\ UNCHANGED <<cmd, writeVars, diskVars, faults, storeVars>>
       ELSE /\ \E w \in Brought(cmd[p].name) : versions' = [versions EXCEPT ![v] = w]
            /\ IF cmd[p].name = "train"
               THEN /\ trained' = [trained EXCEPT ![v] = cmd[p].data]
                    /\ Goto(p, "done")
                    /\ UNCHANGED <<cmd, writeVars, diskVars, faults>>
               ELSE UNCHANGED trained /\ Replace(p, "active", v, "open")

\* Activate and Rollback of a version, which has to verify.
ActivateUnverified(p) == /\ At(p, "check")
                         /\ UNCHANGED storeVars
                         /\ Replace(p, "active", cmd[p].version, "open")

Activate(p) == /\ At(p, "check")
               /\ UNCHANGED storeVars
               /\ \/ Verified(cmd[p].version) /\ Replace(p, "active", cmd[p].version, "open")
                  \/ /\ ~Verified(cmd[p].version)
                     /\ Goto(p, "failed")
                     /\ UNCHANGED <<cmd, writeVars, diskVars, faults>>

StoreStep(p) == Default(p) \/ Train(p) \/ Download(p) \/ Stage(p) \/ Publish(p) \/ Activate(p)
=============================================================================
