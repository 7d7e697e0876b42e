------------------------------- MODULE Lineage -------------------------------
(***************************************************************************)
(* What Resume promises about the attempts of a task: an attempt works,    *)
(* ends for good or at a checkpoint, and a checkpoint is continued by at   *)
(* most one later attempt.                                                 *)
(***************************************************************************)
CONSTANTS Job, NoJob

VARIABLES
    phase,  \* [Job -> unused | working | ended | checkpoint]
    after   \* [Job -> the attempt it continues]

lvars == <<phase, after>>

LInit == /\ phase = [j \in Job |-> "unused"]
         /\ after = [j \in Job |-> NoJob]

Start(j) == /\ phase[j] = "unused"
            /\ phase' = [phase EXCEPT ![j] = "working"]

Begin(j) == Start(j) /\ UNCHANGED after

Stop(j) == /\ phase[j] = "working"
           /\ \E p \in {"ended", "checkpoint"} : phase' = [phase EXCEPT ![j] = p]
           /\ UNCHANGED after

Continue(j, k) == /\ phase[j] = "checkpoint"
                  /\ \A i \in Job : after[i] # j
                  /\ Start(k)
                  /\ after' = [after EXCEPT ![k] = j]

LNext == \E j \in Job : Begin(j) \/ Stop(j) \/ \E k \in Job : Continue(j, k)

LSpec == LInit /\ [][LNext]_lvars
=============================================================================
