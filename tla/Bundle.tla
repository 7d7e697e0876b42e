------------------------------- MODULE Bundle -------------------------------
(***************************************************************************)
(* EnsureUpstream (internal/laya/upstream.go): the ONNX bundle is          *)
(* downloaded and verified in a directory of its own, the bundle in place  *)
(* is moved aside to onnx.old, the new one moved in and verified again.    *)
(* A directory is "none", "good", or "bad": partly removed.                *)
(***************************************************************************)
EXTENDS Files, Sequences

CONSTANT Manifest   \* manifests that may be found at the release URL

VARIABLES
    onnx,    \* the bundle in place
    old,     \* the bundle moved aside
    owned    \* a good bundle was in place at some time

bundleVars == <<onnx, old, owned>>
keepFiles == <<cmd, writeVars, diskVars>>

\* What a bundle needs: the runtime, and both checkpoints with their files.
Required == {"runtime", "typed-decisions", "multilingual"}
Paths(m) == {m.artifacts[i].path : i \in DOMAIN m.artifacts}
Whole(m) == IF Required \subseteq Paths(m) THEN "good" ELSE "bad"

\* validateBundleManifest: the pinned versions and the platform, artifacts of
\* allowed names and sizes, none twice, nothing missing.
WellFormed(m) == /\ m.pinned
                 /\ \A i \in DOMAIN m.artifacts : m.artifacts[i].allowed
                 /\ \A i, k \in DOMAIN m.artifacts : i # k =>
                       /\ m.artifacts[i].path # m.artifacts[k].path
                       /\ m.artifacts[i].asset # m.artifacts[k].asset
Valid(m) == WellFormed(m) /\ Required \subseteq Paths(m)

\* The manifest is valid, and every artifact has the digest it names.
Fetch(p) == /\ At(p, "fetch")
            /\ \/ \E m \in Manifest : /\ Valid(m)
                                      /\ cmd' = [cmd EXCEPT ![p].data = Whole(m)]
                                      /\ Goto(p, "clear")
               \/ /\ \E m \in Manifest : ~Valid(m)
                  /\ Goto(p, "failed")
                  /\ UNCHANGED cmd
            /\ UNCHANGED <<writeVars, diskVars, faults, bundleVars>>

\* Removing a directory is not atomic: a first part of it goes.
Tear(p) == /\ \/ pc[p] \in {"clear", "drop"} /\ old = "good" /\ old' = "bad" /\ UNCHANGED onnx
              \/ At(p, "discard") /\ onnx = "good" /\ onnx' = "bad" /\ UNCHANGED old
           /\ UNCHANGED <<fileVars, owned>>

\* RemoveAll, whose error is ignored.
Removed(d) == \/ d' = "none" /\ UNCHANGED faults
              \/ d # "none" /\ UNCHANGED d /\ Fault

Clear(p) == /\ At(p, "clear")
            /\ Removed(old)
            /\ Goto(p, IF onnx = "none" THEN "movein" ELSE "aside")
            /\ UNCHANGED <<keepFiles, onnx, owned>>

AsideRemoves(p) == /\ At(p, "aside")
                   /\ onnx' = "none"
                   /\ Goto(p, "movein")
                   /\ UNCHANGED <<keepFiles, faults, old, owned>>

Aside(p) == /\ At(p, "aside")
            /\ \/ /\ old = "none"
                  /\ old' = onnx
                  /\ onnx' = "none"
                  /\ Goto(p, "movein")
                  /\ UNCHANGED faults
               \/ /\ \/ old # "none" /\ UNCHANGED faults
                     \/ Fault
                  /\ Goto(p, "failed")
                  /\ UNCHANGED <<onnx, old>>
            /\ UNCHANGED <<keepFiles, owned>>

MoveIn(p) == /\ At(p, "movein")
             /\ \/ onnx' = cmd[p].data /\ Goto(p, "verify") /\ UNCHANGED faults
                \/ Fault /\ Goto(p, "putback") /\ UNCHANGED onnx
             /\ UNCHANGED <<keepFiles, old, owned>>

\* UpstreamRuntimeStatus of the bundle in place: its manifest is the one that
\* was valid, and its files are all there and can be read.
Verify(p) == /\ At(p, "verify")
             /\ \/ /\ onnx = cmd[p].data
                   /\ owned' = (onnx = "good")
                   /\ Goto(p, "drop")
                   /\ UNCHANGED faults
                \/ Fault /\ Goto(p, "discard") /\ UNCHANGED owned
             /\ UNCHANGED <<keepFiles, onnx, old>>

\* The old bundle goes back only if the new one is out of its place.
Discard(p) == /\ At(p, "discard")
              /\ Removed(onnx)
              /\ Goto(p, "putback")
              /\ UNCHANGED <<keepFiles, old, owned>>
PutBack(p) == /\ At(p, "putback")
              /\ \/ onnx = "none" /\ onnx' = old /\ old' = "none"
                 \/ UNCHANGED <<onnx, old>>
              /\ Goto(p, "failed")
              /\ UNCHANGED <<keepFiles, faults, owned>>

Drop(p) == /\ At(p, "drop")
           /\ Removed(old)
           /\ Goto(p, "policy")
           /\ UNCHANGED <<keepFiles, onnx, owned>>

BundleStep(p) == \/ Fetch(p) \/ Tear(p) \/ Clear(p) \/ Aside(p) \/ MoveIn(p)
                 \/ Verify(p) \/ Discard(p) \/ PutBack(p) \/ Drop(p)
=============================================================================
