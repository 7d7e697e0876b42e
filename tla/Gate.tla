-------------------------------- MODULE Gate --------------------------------
(***************************************************************************)
(* The gate of "violin model train" (internal/laya/training.go): which     *)
(* data sets are accepted, and when a trained candidate may be installed.  *)
(* A data set d stands for what the trainer made of it: its examples, and  *)
(* for the holdout how many (n) examples of a head with label gold were    *)
(* answered with label got, surely (confidence .80, margin .15) or not.    *)
(***************************************************************************)
EXTENDS Naturals, FiniteSets, FiniteSetsExt

CONSTANT MinSupport   \* examples of each label the gate asks for (100)

ASSUME GateAssumption == MinSupport \in Nat \ {0}

Labels == [risk |-> {"low", "high"}, task_mode |-> {"inspect", "implement"}]

\* LabeledExample.Validate and TrainDataset: what is trained on at all.
Accepted(d) == /\ \A e \in d.examples : e.reviewed /\ e.english
               /\ \A s \in {"train", "holdout"} : \E e \in d.examples : e.split = s
               /\ \A e, f \in d.examples : e.split # f.split => e.task # f.task
               /\ d.everyLabelTrained

Count(A) == MapThenSumSet(LAMBDA a : a.n, A)
Answers(d, head) == {a \in d.answers : a.head = head}
Right(A) == {a \in A : a.got = a.gold}
Sure(A) == {a \in A : a.sure}
Precise(A) == 100 * Count(Right(A)) >= 95 * Count(A)

\* Mutant: the precision of no sure answers passes.
HeadUncovered(d, head) == LET A == Answers(d, head) IN
    /\ \A l \in Labels[head] :
          /\ Count({a \in A : a.gold = l}) >= MinSupport
          /\ Precise({a \in Sure(A) : a.got = l})
    /\ Precise(Sure(A))
    /\ d.ece[head] <= 10

\* evaluateDataset: the failures of one head, class by class and in all.
HeadPasses(d, head) == LET A == Answers(d, head) IN
    /\ \A l \in Labels[head] :
          /\ Count({a \in A : a.gold = l}) >= MinSupport
          /\ LET guesses == {a \in Sure(A) : a.got = l}
             IN  Count(guesses) > 0 => Precise(guesses)
    /\ Count(Sure(A)) > 0 /\ Precise(Sure(A))
    /\ d.ece[head] <= 10

HighRisk(d) == {a \in Answers(d, "risk") : a.gold = "high"}
HighRiskRecalled(d) == /\ Count(HighRisk(d)) >= MinSupport
                       /\ Count(Right(HighRisk(d))) = Count(HighRisk(d))

MeetsGate(d) == (\A head \in DOMAIN Labels : HeadPasses(d, head)) /\ HighRiskRecalled(d)
=============================================================================
