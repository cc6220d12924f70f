--------------------------- MODULE ReadersProofs ----------------------------
(***************************************************************************)
(* Those who read a log are right about it: the clients of the proof       *)
(* endpoints in what they put together, the mirror in the history it keeps, *)
(* and the tripwire in its alarms.                                         *)
(***************************************************************************)
EXTENDS ReadersPart, TLAPS

-----------------------------------------------------------------------------
(* The answers of the read API hold together                               *)

Pair(c) == c \in [size: Nat, epoch: Nat]

\* The fields of a client.
Shaped(l) ==
    l = [kind |-> l.kind, began |-> l.began, epoch |-> l.epoch, ckpt |-> l.ckpt,
         next |-> l.next, treeSize |-> l.treeSize, root |-> l.root,
         oldRoot |-> l.oldRoot, verdict |-> l.verdict]

\* What is stored and what was read are not ahead of the log, and a client
\* holds the chain of the epoch at which it began.
ReadType ==
    /\ rSize \in Nat \ {0} /\ rEpoch \in Nat /\ Pair(rLatest)
    /\ rLatest.size <= rSize /\ rLatest.epoch <= rEpoch
    /\ Shaped(rLoc) /\ Pair(rLoc.began) /\ Pair(rLoc.ckpt)
    /\ rLoc.began.size <= rSize /\ rLoc.began.epoch <= rEpoch
    /\ rLoc.epoch = rLoc.began.epoch
    /\ rLoc.ckpt.size <= rSize

Including == {"incSize", "incProof", "incRoot", "incCheck", "incVerify"}
Comparing == {"consSize", "consCheck", "consProof", "consRoot", "consOld", "consVerify"}

\* The tree size of an inclusion proof: the checkpoint's for an audit, and the
\* index is below it; otherwise a size of the log since the client began.
ProofInv ==
    /\ rPc \in Including => rLoc.kind \in {"audit", "include"}
    /\ rPc \in Including /\ rLoc.kind = "audit" =>
          rLoc.treeSize = rLoc.ckpt.size /\ rLoc.next < rLoc.ckpt.size
    /\ rPc \in Including \ {"incSize"} =>
          /\ rLoc.treeSize \in Nat /\ rLoc.treeSize <= rSize
          /\ rLoc.kind = "include" => rLoc.began.size <= rLoc.treeSize
    /\ rPc = "incCheck" =>
          rLoc.root \in Nat /\ rLoc.treeSize <= rLoc.root /\ rLoc.root <= rSize
    /\ rPc \in {"size", "sample"} => rLoc.kind = "audit"
    /\ rPc = "checkpoint" => rLoc.kind \in {"audit", "include"}
    /\ rPc \in Comparing => rLoc.kind = "consist"

ReadsInv == ReadType /\ ProofInv /\ Reads!AnswersHoldTogether

\* The first state satisfies the invariant.
LEMMA ReadsInit == Reads!Init => ReadsInv
  BY DEF Reads!Init, ReadsInv, ReadType, ProofInv, Reads!AnswersHoldTogether,
         Reads!InclusionSound,
         Reads!OldRootSigned, Reads!NoSizeRegression, Reads!QuietLogPasses, Pair,
         Shaped, Reads!Fresh, Reads!Client,
         Reads!NoCheckpoint, Including, Comparing

\* A step of a client leaves the log as it is; of what the client holds it may
\* change the checkpoint, the proof, the next index and the verdict.
LEMMA StepKeeps ==
  ASSUME ReadsInv, NEW from, NEW to, NEW l, Reads!Step(from, to, l),
         Shaped(l), l.kind = rLoc.kind, l.began = rLoc.began, l.epoch = rLoc.epoch,
         Pair(l.ckpt), l.ckpt.size <= rSize, l.verdict # "regressed"
  PROVE  ReadType' /\ Reads!NoSizeRegression'
  BY DEF Reads!Step, ReadsInv, ReadType, Reads!NoSizeRegression

\* What is left to show of a step of a client.
LEMMA StepHolds ==
  ASSUME ReadType', Reads!NoSizeRegression', ProofInv', Reads!InclusionSound',
              Reads!OldRootSigned',
         Reads!QuietLogPasses'
  PROVE  ReadsInv'
  BY DEF ReadsInv, Reads!AnswersHoldTogether

\* A verdict changes no other field.
LEMMA VerdictFacts ==
  ASSUME NEW l, Shaped(l), NEW v
  PROVE  LET m == Reads!Verdict(l, v) IN
         /\ Shaped(m) /\ m.kind = l.kind /\ m.began = l.began /\ m.epoch = l.epoch
         /\ m.ckpt = l.ckpt /\ m.next = l.next /\ m.treeSize = l.treeSize
         /\ m.root = l.root /\ m.oldRoot = l.oldRoot /\ m.verdict = v
  BY DEF Reads!Verdict, Shaped

\* The end of a pass: the verdict is not a regression, and if the log stood
\* still it is "pass".
LEMMA DoneKeeps ==
  ASSUME ReadsInv, NEW from, NEW l, NEW v, Reads!Step(from, "done", Reads!Verdict(l, v)),
         Shaped(l), l.kind = rLoc.kind, l.began = rLoc.began, l.epoch = rLoc.epoch,
         Pair(l.ckpt), l.ckpt.size <= rSize, v # "regressed",
         v = "pass" \/ ~(/\ l.kind \in {"audit", "include"}
                         /\ l.began = [size |-> rSize, epoch |-> rEpoch]
                         /\ l.ckpt.size = rSize
                         /\ l.next < rSize \/ l.kind = "audit")
  PROVE  ReadsInv'
<1> DEFINE m == Reads!Verdict(l, v)
<1>1. /\ Shaped(m) /\ m.kind = l.kind /\ m.began = l.began /\ m.epoch = l.epoch
      /\ m.ckpt = l.ckpt /\ m.next = l.next /\ m.verdict = v
  BY VerdictFacts
<1>2. rLoc' = m /\ rPc' = "done" /\ UNCHANGED <<rSize, rEpoch, rLatest>>
  BY DEF Reads!Step
<1> HIDE DEF m
<1>3. ReadType' /\ Reads!NoSizeRegression'
  BY <1>1, <1>2 DEF ReadsInv, ReadType, Reads!NoSizeRegression
<1>4. ProofInv' /\ Reads!InclusionSound' /\ Reads!OldRootSigned'
  BY <1>2 DEF ProofInv, Reads!InclusionSound, Reads!OldRootSigned, Including, Comparing
<1>5. Reads!QuietLogPasses'
  BY <1>1, <1>2 DEF Reads!QuietLogPasses
<1> QED
  BY <1>3, <1>4, <1>5, StepHolds

\* The client asks for the checkpoint; without one, or with one of a later
\* epoch than its chain, the log did not stand still.
LEMMA CheckpointKeeps == ReadsInv /\ Reads!FetchCheckpoint => ReadsInv'
<1> SUFFICES ASSUME ReadsInv, Reads!FetchCheckpoint PROVE ReadsInv'
  OBVIOUS
<1> DEFINE l == [rLoc EXCEPT !.ckpt = rLatest]
<1>0. Shaped(rLoc) /\ Pair(rLatest) /\ rLatest.size <= rSize /\ ReadType
  BY DEF ReadsInv, ReadType
<1>1. /\ Shaped(l) /\ l.kind = rLoc.kind /\ l.began = rLoc.began /\ l.epoch = rLoc.epoch
      /\ l.ckpt = rLatest /\ l.verdict = rLoc.verdict
  BY <1>0 DEF Shaped
<1>2. l.verdict # "regressed"
  BY <1>1 DEF ReadsInv, Reads!AnswersHoldTogether, Reads!NoSizeRegression
<1>3. /\ rLatest = Reads!NoCheckpoint =>
           \E v \in {"warn", "error"} :
                 Reads!Step("checkpoint", "done", Reads!Verdict(l, v))
      /\ rLatest # Reads!NoCheckpoint /\ rLatest.epoch > l.epoch =>
           Reads!Step("checkpoint", "done", Reads!Verdict(l, "unsigned"))
      /\ rLatest # Reads!NoCheckpoint /\ ~(rLatest.epoch > l.epoch) /\ l.kind = "audit" =>
           Reads!Step("checkpoint", "size", l)
      /\ rLatest # Reads!NoCheckpoint /\ ~(rLatest.epoch > l.epoch) /\ l.kind # "audit" =>
           Reads!Step("checkpoint", "incSize", l)
  BY DEF Reads!FetchCheckpoint
<1> HIDE DEF l
<1>4. CASE rLatest = Reads!NoCheckpoint
  <2>1. PICK v \in {"warn", "error"} :
              Reads!Step("checkpoint", "done", Reads!Verdict(l, v))
    BY <1>3, <1>4
  <2>2. l.ckpt.size # rSize
    BY <1>1, <1>4 DEF Reads!NoCheckpoint, ReadsInv, ReadType
  <2> QED
    BY <1>0, <1>1, <2>1, <2>2, DoneKeeps
<1>5. CASE rLatest # Reads!NoCheckpoint /\ rLatest.epoch > l.epoch
  <2>1. l.began # [size |-> rSize, epoch |-> rEpoch]
    BY <1>0, <1>1, <1>5 DEF ReadType, Pair
  <2> QED
    BY <1>0, <1>1, <1>3, <1>5, <2>1, DoneKeeps
<1>6. CASE rLatest # Reads!NoCheckpoint /\ ~(rLatest.epoch > l.epoch)
  <2>1. PICK to \in {"size", "incSize"} :
           /\ Reads!Step("checkpoint", to, l) /\ (to = "size" <=> l.kind = "audit")
    BY <1>3, <1>6
  <2>2. ReadType' /\ Reads!NoSizeRegression'
    BY <1>0, <1>1, <1>2, <2>1, StepKeeps
  <2>3. rLoc.kind \in {"audit", "include"} /\ rPc' = to /\ rLoc' = l
    BY <2>1 DEF Reads!Step, ReadsInv, ProofInv
  <2>4. ProofInv' /\ Reads!InclusionSound' /\ Reads!OldRootSigned'
        /\ Reads!QuietLogPasses'
    BY <1>1, <2>1, <2>3, Zenon DEF ProofInv, Reads!InclusionSound, Reads!OldRootSigned,
                            Reads!QuietLogPasses, Including, Comparing
  <2> QED
    BY <2>2, <2>4, StepHolds
<1> QED
  BY <1>4, <1>5, <1>6

\* A step of a client that sets one field, or none, and gives no verdict.
LEMMA MoveKeeps ==
  ASSUME ReadsInv, NEW from, NEW to, NEW l, Reads!Step(from, to, l), Shaped(l),
         l.kind = rLoc.kind, l.began = rLoc.began, l.epoch = rLoc.epoch,
         l.ckpt = rLoc.ckpt, l.verdict = rLoc.verdict, to # "done",
         ProofInv', Reads!InclusionSound', Reads!OldRootSigned'
  PROVE  ReadsInv'
<1>1. Pair(l.ckpt) /\ l.ckpt.size <= rSize /\ l.verdict # "regressed"
  BY DEF ReadsInv, ReadType, Reads!AnswersHoldTogether, Reads!NoSizeRegression
<1>2. ReadType' /\ Reads!NoSizeRegression'
  BY <1>1, StepKeeps
<1>3. Reads!QuietLogPasses'
  BY DEF Reads!QuietLogPasses, Reads!Step
<1> QED
  BY <1>2, <1>3, StepHolds

\* The audit asks for the size, which is not below the checkpoint's, and then
\* for its samples.
LEMMA AuditKeeps == ReadsInv /\ (Reads!FetchSize \/ Reads!Sample) => ReadsInv'
<1> SUFFICES ASSUME ReadsInv, Reads!FetchSize \/ Reads!Sample PROVE ReadsInv'
  OBVIOUS
<1>0. /\ Shaped(rLoc) /\ Pair(rLoc.ckpt) /\ rLoc.ckpt.size <= rSize /\ rSize \in Nat
      /\ rLoc.kind = "audit"
  BY DEF ReadsInv, ReadType, ProofInv, Reads!FetchSize, Reads!Sample, Reads!Step
<1>1. CASE Reads!FetchSize
  <2> DEFINE l == [rLoc EXCEPT !.treeSize = rSize]
  <2>1. /\ Shaped(l) /\ l.kind = rLoc.kind /\ l.began = rLoc.began /\ l.epoch = rLoc.epoch
        /\ l.ckpt = rLoc.ckpt /\ l.verdict = rLoc.verdict /\ l.treeSize = rSize
    BY <1>0 DEF Shaped
  <2>2. ~(l.treeSize < l.ckpt.size)
    BY <1>0, <2>1 DEF Pair
  <2>3. Reads!Step("size", "sample", l)
    BY <1>1, <2>2 DEF Reads!FetchSize
  <2> HIDE DEF l
  <2>4. ProofInv' /\ Reads!InclusionSound' /\ Reads!OldRootSigned'
    BY <1>0, <2>1, <2>3 DEF Reads!Step, ProofInv, Reads!InclusionSound,
                            Reads!OldRootSigned, Including, Comparing
  <2> QED
    BY <2>1, <2>3, <2>4, MoveKeeps
<1>2. CASE Reads!Sample /\ Reads!Sampled(rLoc.ckpt.size, rLoc.next)
  <2> DEFINE l == [rLoc EXCEPT !.treeSize = rLoc.ckpt.size]
  <2>1. /\ Shaped(l) /\ l.kind = rLoc.kind /\ l.began = rLoc.began /\ l.epoch = rLoc.epoch
        /\ l.ckpt = rLoc.ckpt /\ l.verdict = rLoc.verdict /\ l.treeSize = rLoc.ckpt.size
        /\ l.next = rLoc.next
    BY <1>0 DEF Shaped
  <2>2. Reads!Step("sample", "incSize", l)
    BY <1>2 DEF Reads!Sample
  <2>3. rLoc.next < rLoc.ckpt.size
    BY <1>2 DEF Reads!Sampled
  <2> HIDE DEF l
  <2>4. ProofInv' /\ Reads!InclusionSound' /\ Reads!OldRootSigned'
    BY <1>0, <2>1, <2>2, <2>3 DEF Reads!Step, ProofInv, Reads!InclusionSound,
                                  Reads!OldRootSigned, Including, Comparing
  <2> QED
    BY <2>1, <2>2, <2>4, MoveKeeps
<1>3. CASE Reads!Sample /\ ~Reads!Sampled(rLoc.ckpt.size, rLoc.next)
  <2>1. Reads!Step("sample", "done", Reads!Verdict(rLoc, "pass"))
    BY <1>3 DEF Reads!Sample
  <2> QED
    BY <1>0, <2>1, DoneKeeps
<1> QED
  BY <1>1, <1>2, <1>3

\* handleInclusionProof and the client that asked: the size is looked at again
\* after the root, so the two are of one tree.
LEMMA InclusionKeeps ==
  ASSUME ReadsInv,
         \/ Reads!InclusionSize \/ Reads!InclusionProof \/ Reads!InclusionRoot
         \/ Reads!InclusionCheck
         \/ Reads!VerifyInclusion
  PROVE  ReadsInv'
<1>0. /\ Shaped(rLoc) /\ Pair(rLoc.ckpt) /\ rLoc.ckpt.size <= rSize /\ rSize \in Nat
      /\ Pair(rLoc.began) /\ rLoc.began.size <= rSize /\ ReadType /\ ProofInv
  BY Zenon DEF ReadsInv, ReadType
<1>1. rLoc.kind \in {"audit", "include"} /\ rPc \in Including
  BY <1>0 DEF ProofInv, Reads!InclusionSize, Reads!InclusionProof, Reads!InclusionRoot,
              Reads!InclusionCheck,
              Reads!VerifyInclusion, Reads!Step, Including, Comparing
<1>2. CASE Reads!InclusionSize
  <2> DEFINE n == IF rLoc.kind = "audit" THEN rLoc.treeSize ELSE rSize
             l == [rLoc EXCEPT !.treeSize = n]
  <2>1. /\ Shaped(l) /\ l.kind = rLoc.kind /\ l.began = rLoc.began /\ l.epoch = rLoc.epoch
        /\ l.ckpt = rLoc.ckpt /\ l.verdict = rLoc.verdict /\ l.treeSize = n
        /\ l.next = rLoc.next
    BY <1>0 DEF Shaped
  <2>2. Reads!Step("incSize", "incProof", l)
    BY <1>0, <1>2 DEF Reads!InclusionSize, Shaped
  <2>3. /\ n \in Nat /\ n <= rSize
        /\ rLoc.kind = "include" => rLoc.began.size <= n
        /\ rLoc.kind = "audit" => n = rLoc.ckpt.size /\ rLoc.next < rLoc.ckpt.size
    BY <1>0, <1>1 DEF ProofInv, Pair
  <2> HIDE DEF l, n
  <2>4. ProofInv' /\ Reads!InclusionSound' /\ Reads!OldRootSigned'
    BY <1>1, <2>1, <2>2, <2>3 DEF Reads!Step, ProofInv, Reads!InclusionSound,
                                  Reads!OldRootSigned, Including, Comparing
  <2> QED
    BY <2>1, <2>2, <2>4, MoveKeeps
<1>3. CASE Reads!InclusionProof /\ rLoc.next < rLoc.treeSize /\ rLoc.treeSize <= rSize
  <2>1. Reads!Step("incProof", "incRoot", rLoc)
    BY <1>3 DEF Reads!InclusionProof
  <2>2. ProofInv' /\ Reads!InclusionSound' /\ Reads!OldRootSigned'
    BY <1>0, <1>1, <2>1 DEF Reads!Step, ProofInv, Reads!InclusionSound,
                            Reads!OldRootSigned, Including, Comparing
  <2> QED
    BY <1>0, <2>1, <2>2, MoveKeeps, Zenon
<1>4. CASE Reads!InclusionProof /\ ~(rLoc.next < rLoc.treeSize /\ rLoc.treeSize <= rSize)
  <2>1. Reads!Step("incProof", "done", Reads!Verdict(rLoc, "fail"))
    BY <1>4 DEF Reads!InclusionProof
  <2>2. rPc = "incProof"
    BY <2>1 DEF Reads!Step
  <2>3. ~(rLoc.next < rLoc.treeSize) /\ rLoc.kind = "include"
    BY <1>0, <1>1, <1>4, <2>2 DEF ProofInv, Including, Comparing
  <2>4. rLoc.began.size = rSize => rLoc.treeSize = rSize
    BY <1>0, <2>2, <2>3 DEF ProofInv, Including, Comparing, Pair
  <2>5. rLoc.began = [size |-> rSize, epoch |-> rEpoch] => ~(rLoc.next < rSize)
    BY <2>3, <2>4
  <2> QED
    BY <1>0, <2>1, <2>3, <2>5, DoneKeeps, Zenon
<1>5. CASE Reads!InclusionRoot
  <2> DEFINE l == [rLoc EXCEPT !.root = rSize]
  <2>1. /\ Shaped(l) /\ l.kind = rLoc.kind /\ l.began = rLoc.began /\ l.epoch = rLoc.epoch
        /\ l.ckpt = rLoc.ckpt /\ l.verdict = rLoc.verdict /\ l.treeSize = rLoc.treeSize
        /\ l.next = rLoc.next /\ l.root = rSize
    BY <1>0 DEF Shaped
  <2>2. Reads!Step("incRoot", "incCheck", l)
    BY <1>5 DEF Reads!InclusionRoot
  <2> HIDE DEF l
  <2>3. ProofInv' /\ Reads!InclusionSound' /\ Reads!OldRootSigned'
    BY <1>0, <1>1, <2>1, <2>2 DEF Reads!Step, ProofInv, Reads!InclusionSound,
                                  Reads!OldRootSigned, Including, Comparing
  <2> QED
    BY <2>1, <2>2, <2>3, MoveKeeps
<1>6. CASE Reads!InclusionCheck /\ rLoc.treeSize = rSize
  <2>1. Reads!Step("incCheck", "incVerify", rLoc)
    BY <1>6 DEF Reads!InclusionCheck
  <2>2. ProofInv' /\ Reads!InclusionSound' /\ Reads!OldRootSigned'
    BY <1>0, <1>1, <1>6, <2>1
       DEF Reads!Step, ProofInv, Reads!InclusionSound, Reads!OldRootSigned, Including,
           Comparing
  <2> QED
    BY <1>0, <2>1, <2>2, MoveKeeps, Zenon
<1>7. CASE Reads!InclusionCheck /\ rLoc.treeSize # rSize
  <2>1. Reads!Step("incCheck", "done", Reads!Verdict(rLoc, "fail"))
    BY <1>7 DEF Reads!InclusionCheck
  <2>2. rLoc.kind = "audit" => rLoc.ckpt.size # rSize
    BY <1>0, <1>7, <2>1, Zenon DEF ProofInv, Reads!Step, Including, Comparing
  <2>3. rLoc.kind = "include" => rLoc.began.size # rSize
    BY <1>0, <1>7, <2>1 DEF ProofInv, Reads!Step, Including, Comparing, Pair
  <2>4. rLoc.kind = "include" => rLoc.began # [size |-> rSize, epoch |-> rEpoch]
    BY <2>3
  <2> QED
    BY <1>0, <1>1, <2>1, <2>2, <2>4, DoneKeeps, Zenon
<1>8. CASE Reads!VerifyInclusion
           /\ (rLoc.treeSize # rLoc.root \/ rLoc.root # rLoc.ckpt.size)
  <2>1. Reads!Step("incVerify", "done", Reads!Verdict(rLoc, "fail"))
    BY <1>8 DEF Reads!VerifyInclusion
  <2>2. rLoc.root = rLoc.treeSize /\ rPc = "incVerify"
    BY <2>1 DEF Reads!Step, ReadsInv, Reads!AnswersHoldTogether, Reads!InclusionSound
  <2>3. rLoc.kind = "include" /\ rLoc.ckpt.size # rLoc.treeSize
    BY <1>0, <1>1, <1>8, <2>2, Zenon DEF ProofInv, Including, Comparing
  <2>4. rLoc.began.size = rSize => rLoc.treeSize = rSize
    BY <1>0, <2>2, <2>3 DEF ProofInv, Including, Comparing, Pair
  <2>5. ~(rLoc.began = [size |-> rSize, epoch |-> rEpoch] /\ rLoc.ckpt.size = rSize)
    BY <2>3, <2>4
  <2> QED
    BY <1>0, <2>1, <2>5, DoneKeeps, Zenon
<1>9. CASE /\ Reads!VerifyInclusion
           /\ ~(rLoc.treeSize # rLoc.root \/ rLoc.root # rLoc.ckpt.size)
           /\ rLoc.kind = "audit"
  <2> DEFINE x == rLoc.next + Reads!SampleStep(rLoc.ckpt.size)
             l == [rLoc EXCEPT !.next = x]
  <2>1. /\ Shaped(l) /\ l.kind = rLoc.kind /\ l.began = rLoc.began /\ l.epoch = rLoc.epoch
        /\ l.ckpt = rLoc.ckpt /\ l.verdict = rLoc.verdict
    BY <1>0 DEF Shaped
  <2>2. Reads!Step("incVerify", "sample", l)
    BY <1>0, <1>9 DEF Reads!VerifyInclusion, Shaped
  <2> HIDE DEF l
  <2>3. ProofInv' /\ Reads!InclusionSound' /\ Reads!OldRootSigned'
    BY <1>9, <2>1, <2>2, Zenon DEF Reads!Step, ProofInv, Reads!InclusionSound,
                            Reads!OldRootSigned, Including, Comparing
  <2> QED
    BY <2>1, <2>2, <2>3, MoveKeeps, Zenon
<1>10. CASE /\ Reads!VerifyInclusion
            /\ ~(rLoc.treeSize # rLoc.root \/ rLoc.root # rLoc.ckpt.size)
            /\ rLoc.kind # "audit"
  <2>1. Reads!Step("incVerify", "done", Reads!Verdict(rLoc, "pass"))
    BY <1>10 DEF Reads!VerifyInclusion
  <2> QED
    BY <1>0, <2>1, DoneKeeps, Zenon
<1> QED
  BY <1>2, <1>3, <1>4, <1>5, <1>6, <1>7, <1>8, <1>9, <1>10

\* handleConsistencyProof: the old root it returns is the one of the latest
\* checkpoint, which has the old size.
LEMMA ConsistencyKeeps ==
  ASSUME ReadsInv,
         \/ Reads!ConsistencySize \/ Reads!ConsistencyCheck \/ Reads!ConsistencyProof
         \/ Reads!ConsistencyRoot
         \/ Reads!OldRoot \/ Reads!VerifyConsistency
  PROVE  ReadsInv'
<1>0. Shaped(rLoc) /\ Pair(rLoc.ckpt) /\ rLoc.ckpt.size <= rSize
  BY Zenon DEF ReadsInv, ReadType
<1>1. rLoc.kind = "consist"
  BY DEF ReadsInv, ProofInv, Comparing, Reads!ConsistencySize, Reads!ConsistencyCheck,
         Reads!ConsistencyProof,
         Reads!ConsistencyRoot, Reads!OldRoot, Reads!VerifyConsistency, Reads!Step
<1>2. ASSUME NEW from, NEW v \in {"pass", "fail", "error"},
             Reads!Step(from, "done", Reads!Verdict(rLoc, v))
      PROVE  ReadsInv'
  BY <1>0, <1>1, <1>2, DoneKeeps, Zenon
<1>3. ASSUME NEW from, NEW to \in {"consCheck", "consProof", "consRoot", "consOld"},
             NEW l,
             Reads!Step(from, to, l), Shaped(l), l.kind = rLoc.kind, l.began = rLoc.began,
             l.epoch = rLoc.epoch, l.ckpt = rLoc.ckpt, l.verdict = rLoc.verdict
      PROVE  ReadsInv'
  <2>1. ProofInv' /\ Reads!InclusionSound' /\ Reads!OldRootSigned'
    BY <1>1, <1>3, Zenon DEF Reads!Step, ProofInv, Reads!InclusionSound, Reads!OldRootSigned,
                      Including, Comparing
  <2> QED
    BY <1>3, <2>1, MoveKeeps, Zenon
<1>4. CASE Reads!ConsistencySize
  <2> DEFINE n == IF rLoc.treeSize = 0 THEN rSize ELSE rLoc.treeSize
             l == [rLoc EXCEPT !.treeSize = n]
  <2>1. /\ Shaped(l) /\ l.kind = rLoc.kind /\ l.began = rLoc.began /\ l.epoch = rLoc.epoch
        /\ l.ckpt = rLoc.ckpt /\ l.verdict = rLoc.verdict
    BY <1>0 DEF Shaped
  <2>2. Reads!Step("consSize", "consCheck", l)
    BY <1>0, <1>4 DEF Reads!ConsistencySize, Shaped
  <2> HIDE DEF l
  <2> QED
    BY <1>3, <2>1, <2>2, Zenon
<1>5. CASE Reads!ConsistencyCheck \/ Reads!ConsistencyProof
  <2>1. \/ \E from : Reads!Step(from, "done", Reads!Verdict(rLoc, "error"))
        \/ \E from : \E to \in {"consProof", "consRoot"} : Reads!Step(from, to, rLoc)
    BY <1>5 DEF Reads!ConsistencyCheck, Reads!ConsistencyProof
  <2> QED
    BY <1>0, <1>2, <1>3, <2>1, Zenon
<1>6. CASE Reads!ConsistencyRoot
  <2> DEFINE l == [rLoc EXCEPT !.root = rSize]
  <2>1. /\ Shaped(l) /\ l.kind = rLoc.kind /\ l.began = rLoc.began /\ l.epoch = rLoc.epoch
        /\ l.ckpt = rLoc.ckpt /\ l.verdict = rLoc.verdict
    BY <1>0 DEF Shaped
  <2>2. Reads!Step("consRoot", "consOld", l)
    BY <1>6 DEF Reads!ConsistencyRoot
  <2> HIDE DEF l
  <2> QED
    BY <1>3, <2>1, <2>2
<1>7. CASE Reads!OldRoot /\ rLatest # Reads!NoCheckpoint /\ rLatest.size = rLoc.next
  <2> DEFINE l == [rLoc EXCEPT !.oldRoot = rLatest.size]
  <2>1. /\ Shaped(l) /\ l.kind = rLoc.kind /\ l.began = rLoc.began /\ l.epoch = rLoc.epoch
        /\ l.ckpt = rLoc.ckpt /\ l.verdict = rLoc.verdict /\ l.next = rLoc.next
        /\ l.oldRoot = rLatest.size
    BY <1>0 DEF Shaped
  <2>2. Reads!Step("consOld", "consVerify", l)
    BY <1>7 DEF Reads!OldRoot
  <2> HIDE DEF l
  <2>3. ProofInv' /\ Reads!InclusionSound' /\ Reads!OldRootSigned'
    BY <1>1, <1>7, <2>1, <2>2 DEF Reads!Step, ProofInv, Reads!InclusionSound,
                                  Reads!OldRootSigned, Including, Comparing
  <2> QED
    BY <2>1, <2>2, <2>3, MoveKeeps
<1>8. CASE Reads!OldRoot /\ ~(rLatest # Reads!NoCheckpoint /\ rLatest.size = rLoc.next)
  <2>1. Reads!Step("consOld", "done", Reads!Verdict(rLoc, "error"))
    BY <1>8 DEF Reads!OldRoot
  <2> QED
    BY <1>2, <2>1
<1>9. CASE Reads!VerifyConsistency
  <2>1. \E v \in {"pass", "fail"} :
              Reads!Step("consVerify", "done", Reads!Verdict(rLoc, v))
    BY <1>9 DEF Reads!VerifyConsistency
  <2> QED
    BY <1>2, <2>1
<1> QED
  BY <1>4, <1>5, <1>6, <1>7, <1>8, <1>9

\* Every step preserves the invariant.
LEMMA ReadsNext == ReadsInv /\ [Reads!Next]_(Reads!vars) => ReadsInv'
<1> SUFFICES ASSUME ReadsInv, [Reads!Next]_(Reads!vars) PROVE ReadsInv'
  OBVIOUS
<1>1. CASE Reads!AppendCtx \/ Reads!Rotate
  <2>1. /\ UNCHANGED <<rLatest, rPc, rLoc>> /\ rSize \in Nat /\ rEpoch \in Nat
        /\ \/ rSize' = rSize + 1 /\ rEpoch' = rEpoch
           \/ rSize' = rSize /\ rEpoch' = rEpoch + 1
    BY <1>1, Zenon DEF Reads!AppendCtx, Reads!Rotate, ReadsInv, ReadType
  <2>2. ReadType'
    BY <2>1 DEF ReadsInv, ReadType, Pair
  <2>3. ProofInv'
    BY <2>1 DEF ReadsInv, ProofInv, Including, Comparing
  <2>4. rLoc'.began # [size |-> rSize', epoch |-> rEpoch']
    BY <2>1 DEF ReadsInv, ReadType, Pair
  <2>5. Reads!QuietLogPasses'
    BY <2>4 DEF Reads!QuietLogPasses
  <2>6. Reads!NoSizeRegression' /\ Reads!InclusionSound' /\ Reads!OldRootSigned'
    BY <2>1 DEF ReadsInv, Reads!AnswersHoldTogether, Reads!NoSizeRegression,
                Reads!InclusionSound, Reads!OldRootSigned
  <2> QED
    BY <2>2, <2>3, <2>5, <2>6, StepHolds
<1>2. CASE Reads!Checkpoint
  <2>1. Pair(rLatest') /\ rLatest'.size <= rSize /\ rLatest'.epoch <= rEpoch
    BY <1>2 DEF Reads!Checkpoint, ReadsInv, ReadType, Pair
  <2>2. ReadType'
    BY <1>2, <2>1, Zenon DEF Reads!Checkpoint, ReadsInv, ReadType
  <2>3. ProofInv' /\ Reads!AnswersHoldTogether'
    BY <1>2 DEF Reads!Checkpoint, ReadsInv, ProofInv, Reads!AnswersHoldTogether,
                Reads!NoSizeRegression,
                Reads!InclusionSound, Reads!OldRootSigned, Reads!QuietLogPasses
  <2> QED
    BY <2>2, <2>3 DEF ReadsInv
<1>3. ASSUME NEW kind \in ClientKinds, NEW first \in 0 .. ReadMaxSize,
             NEW new \in 0 .. ReadMaxSize,
             Reads!Begin(kind, first, new)
      PROVE  ReadsInv'
  <2> DEFINE b == [size |-> rSize, epoch |-> rEpoch]
             l == Reads!Client(kind, b, first, new)
  <2>1. /\ Shaped(l) /\ l.kind = kind /\ l.began = b /\ l.epoch = rEpoch
        /\ l.ckpt = Reads!NoCheckpoint /\ l.verdict = "none"
    BY Zenon DEF Reads!Client, Shaped
  <2>2. /\ rLoc' = l /\ UNCHANGED <<rSize, rEpoch, rLatest>>
        /\ rPc' \in {"consSize", "checkpoint"} /\ (rPc' = "consSize" <=> kind = "consist")
    BY <1>3 DEF Reads!Begin
  <2>3. Pair(b) /\ b.size = rSize /\ b.epoch = rEpoch /\ Pair(Reads!NoCheckpoint)
        /\ Reads!NoCheckpoint.size = 0
    BY Zenon DEF ReadsInv, ReadType, Pair, Reads!NoCheckpoint
  <2> HIDE DEF l, b
  <2>4. ReadType' /\ Reads!NoSizeRegression'
    BY <2>1, <2>2, <2>3 DEF ReadsInv, ReadType, Reads!NoSizeRegression
  <2>5. Reads!InclusionSound' /\ Reads!OldRootSigned' /\ Reads!QuietLogPasses'
    BY <2>2, Zenon DEF Reads!InclusionSound, Reads!OldRootSigned, Reads!QuietLogPasses
  <2>6. kind \in {"audit", "include", "consist"}
    BY ReadsAssumption
  <2>7. ProofInv'
    BY <2>1, <2>2, <2>6, Zenon DEF ProofInv, Including, Comparing
  <2> QED
    BY <2>4, <2>5, <2>7, StepHolds
<1>4. CASE Reads!FetchCheckpoint
  BY <1>4, CheckpointKeeps
<1>5. CASE Reads!FetchSize \/ Reads!Sample
  BY <1>5, AuditKeeps
<1>6. CASE \/ Reads!InclusionSize \/ Reads!InclusionProof \/ Reads!InclusionRoot
           \/ Reads!InclusionCheck
           \/ Reads!VerifyInclusion
  BY <1>6, InclusionKeeps
<1>7. CASE \/ Reads!ConsistencySize \/ Reads!ConsistencyCheck \/ Reads!ConsistencyProof
           \/ Reads!ConsistencyRoot
           \/ Reads!OldRoot \/ Reads!VerifyConsistency
  BY <1>7, ConsistencyKeeps
<1>8. CASE Reads!Finish
  <2>1. /\ Shaped(Reads!Fresh) /\ Reads!Fresh.began = Reads!NoCheckpoint
        /\ Reads!Fresh.ckpt = Reads!NoCheckpoint
        /\ Reads!Fresh.epoch = Reads!NoCheckpoint.epoch /\ Reads!Fresh.verdict = "none"
        /\ Reads!NoCheckpoint.size = 0 /\ Reads!NoCheckpoint.epoch = 0
        /\ Pair(Reads!NoCheckpoint)
    BY Zenon DEF Reads!Fresh, Reads!Client, Reads!NoCheckpoint, Pair, Shaped
  <2>2. rLoc' = Reads!Fresh /\ rPc' = "idle" /\ UNCHANGED <<rSize, rEpoch, rLatest>>
    BY <1>8 DEF Reads!Finish, Reads!Step
  <2>3. ReadType' /\ Reads!NoSizeRegression'
    BY <2>1, <2>2 DEF ReadsInv, ReadType, Reads!NoSizeRegression
  <2>4. ProofInv' /\ Reads!InclusionSound' /\ Reads!OldRootSigned'
        /\ Reads!QuietLogPasses'
    BY <2>2, Zenon DEF ProofInv, Reads!InclusionSound, Reads!OldRootSigned,
                Reads!QuietLogPasses, Including, Comparing
  <2> QED
    BY <2>3, <2>4, StepHolds
<1>9. CASE UNCHANGED Reads!vars
  BY <1>9 DEF Reads!vars, ReadsInv, ReadType, ProofInv, Reads!AnswersHoldTogether,
              Reads!NoSizeRegression,
              Reads!InclusionSound, Reads!OldRootSigned, Reads!QuietLogPasses
<1> QED
  BY <1>1, <1>2, <1>3, <1>4, <1>5, <1>6, <1>7, <1>8, <1>9 DEF Reads!Next

\* What a client of the proof endpoints puts together holds together, for every
\* size and epoch the log may reach and every number of samples (pkg/api,
\* pkg/audit, cmd/stele).
THEOREM ReadsCorrect == Reads!Spec => []AnswersHoldTogether
<1>1. ReadsInv => Reads!AnswersHoldTogether
  BY DEF ReadsInv
<1> QED
  BY <1>1, ReadsInit, ReadsNext, PTL DEF Reads!Spec, AnswersHoldTogether

-----------------------------------------------------------------------------
(* Sequences                                                               *)

\* What appending one element to a sequence gives.
LEMMA AppendFacts ==
  ASSUME NEW S, NEW s \in Seq(S), NEW x \in S
  PROVE  /\ Append(s, x) \in Seq(S) /\ Append(s, x) # <<>>
         /\ Len(Append(s, x)) = Len(s) + 1 /\ Append(s, x)[Len(s) + 1] = x
         /\ \A i \in 1 .. Len(s) : Append(s, x)[i] = s[i]
  OBVIOUS

\* The first n elements of a sequence.
LEMMA PrefixFacts ==
  ASSUME NEW S, NEW s \in Seq(S), NEW n \in 0 .. Len(s)
  PROVE  /\ SubSeq(s, 1, n) \in Seq(S) /\ Len(SubSeq(s, 1, n)) = n
         /\ \A j \in 1 .. n : SubSeq(s, 1, n)[j] = s[j]
<1> DEFINE t == SubSeq(s, 1, n)
<1>1. Len(s) \in Nat /\ n \in Int /\ 1 \in Int /\ \A j \in 1 .. n : s[j] \in S
  OBVIOUS
<1>2. /\ t \in Seq(S) /\ Len(t) = (IF 1 <= n THEN n - 1 + 1 ELSE 0)
      /\ \A j \in 1 .. (n - 1 + 1) : t[j] = s[1 + j - 1]
  BY <1>1
<1> HIDE DEF t
<1>3. Len(t) = n
  BY <1>1, <1>2
<1>4. \A j \in 1 .. n : 1 + j - 1 = j /\ j \in 1 .. (n - 1 + 1)
  BY <1>1
<1> QED
  BY <1>2, <1>3, <1>4, Zenon DEF t

-----------------------------------------------------------------------------
(* The mirror holds one history                                            *)

LastOf(f) == IF f = <<>> THEN <<>> ELSE f[Len(f)]

\* Of a store of entries, each is one payload longer than the one before it
\* and begins with it.
Prefixes(f) ==
    \A i \in 1 .. Len(f) : Len(f[i]) = i /\ \A j \in 1 .. i : f[i][j] = f[Len(f)][j]

\* prev is the last entry of the store, or the store has one more, which is the
\* next one of the chunk.
CopyInv ==
    /\ mUpstream \in Seq(Payloads) /\ mStore \in Seq(Seq(Payloads))
    /\ mChunk \in Seq(Seq(Payloads)) /\ mPrev \in Seq(Payloads)
    /\ mFrom \in Nat /\ mTarget \in Nat /\ mLastSize \in Nat
    /\ mPc = "fetch" => mFrom < mTarget
    /\ mUp \in BOOLEAN /\ (mUp <=> mPc # "down")
    /\ Prefixes(mStore)
    /\ mPc \notin {"advance", "down"} => mPrev = LastOf(mStore)
    /\ mPc = "advance" => mStore # <<>> /\ mChunk # <<>> /\ Head(mChunk) = LastOf(mStore)

\* The first state satisfies the invariant.
LEMMA CopyInit == Copy!Init => CopyInv
  BY DEF Copy!Init, CopyInv, Prefixes, LastOf

\* A chunk is made of the operator's entries.
LEMMA ChunkType ==
  ASSUME CopyInv, Copy!FetchEntries
  PROVE  mChunk' \in Seq(Seq(Payloads))
<1> DEFINE u == Len(mUpstream)
           to == Copy!Minimum(mFrom + ChunkSize, mTarget)
           n == Copy!Minimum(to, u) - mFrom
<1>0. u \in Nat /\ mFrom \in Nat /\ mTarget \in Nat /\ mFrom < mTarget
      /\ ChunkSize \in Nat
  BY CopyAssumption DEF CopyInv, Copy!FetchEntries
<1>1. CASE mFrom >= u
  BY <1>1 DEF Copy!FetchEntries
<1>2. CASE ~(mFrom >= u)
  <2>1. n \in Nat /\ n + mFrom <= u
    BY <1>0, <1>2 DEF Copy!Minimum
  <2>2. mChunk' = [k \in 1 .. n |-> Copy!Entry(mFrom + k - 1)]
    BY <1>2, Zenon DEF Copy!FetchEntries
  <2> HIDE DEF n
  <2>3. ASSUME NEW k \in 1 .. n PROVE Copy!Entry(mFrom + k - 1) \in Seq(Payloads)
    <3>1. mFrom + k - 1 + 1 = mFrom + k /\ mFrom + k \in 0 .. u
      BY <1>0, <2>1
    <3>2. SubSeq(mUpstream, 1, mFrom + k) \in Seq(Payloads)
      BY <3>1, PrefixFacts, Zenon DEF CopyInv
    <3> QED
      BY <3>1, <3>2 DEF Copy!Entry
  <2> QED
    BY <2>1, <2>2, <2>3
<1> QED
  BY <1>1, <1>2

\* An entry that continues prev extends the history of the store.
LEMMA AcceptKeeps ==
  ASSUME CopyInv, Copy!AcceptEntry
  PROVE  /\ mStore' \in Seq(Seq(Payloads)) /\ Prefixes(mStore')
         /\ mStore' # <<>> /\ LastOf(mStore') = Head(mChunk)
<1> DEFINE e == Head(mChunk)
           n == Len(mStore)
<1>0. /\ mStore \in Seq(Seq(Payloads)) /\ n \in Nat /\ e \in Seq(Payloads)
      /\ mPrev = LastOf(mStore) /\ mPrev \in Seq(Payloads) /\ Prefixes(mStore)
      /\ Copy!Continues(e) /\ mStore' = Append(mStore, e)
  BY DEF CopyInv, Copy!AcceptEntry
<1> HIDE DEF e
<1>1. /\ mStore' \in Seq(Seq(Payloads)) /\ Len(mStore') = n + 1 /\ mStore' # <<>>
      /\ mStore'[n + 1] = e /\ \A i \in 1 .. n : mStore'[i] = mStore[i]
  <2> DEFINE S == Seq(Payloads)
  <2>1. mStore \in Seq(S) /\ e \in S
    BY <1>0
  <2> HIDE DEF S
  <2>2. /\ Append(mStore, e) \in Seq(S) /\ Append(mStore, e) # <<>>
        /\ Len(Append(mStore, e)) = n + 1 /\ Append(mStore, e)[n + 1] = e
        /\ \A i \in 1 .. n : Append(mStore, e)[i] = mStore[i]
    BY <2>1, AppendFacts
  <2> QED
    BY <1>0, <2>2, Zenon DEF S
<1>n. \A i \in 1 .. (n + 1) : i = n + 1 \/ i \in 1 .. n
  BY <1>0
<1>2. Len(mPrev) = n
  <2>1. CASE mStore = <<>>
    BY <1>0, <2>1 DEF LastOf
  <2>2. CASE mStore # <<>>
    <3>1. n \in 1 .. Len(mStore) /\ mPrev = mStore[n]
      BY <1>0, <2>2 DEF LastOf
    <3> QED
      BY <1>0, <3>1, Zenon DEF Prefixes
  <2> QED
    BY <2>1, <2>2
<1>3. Len(e) = n + 1 /\ \A j \in 1 .. n : e[j] = mPrev[j]
  <2>1. Len(e) = n + 1 /\ SubSeq(e, 1, n) = mPrev
    BY <1>0, <1>2 DEF Copy!Continues
  <2>2. n \in 0 .. Len(e)
    BY <1>0, <2>1
  <2> QED
    BY <1>0, <2>1, <2>2, PrefixFacts, Zenon
<1>4. ASSUME NEW i \in 1 .. (n + 1)
      PROVE  Len(mStore'[i]) = i /\ \A j \in 1 .. i : mStore'[i][j] = mStore'[n + 1][j]
  <2>1. CASE i = n + 1
    BY <1>1, <1>3, <2>1
  <2>2. CASE i \in 1 .. n
    <3>1. mStore # <<>> /\ mPrev = mStore[n] /\ mStore'[i] = mStore[i]
      BY <1>0, <1>1, <2>2 DEF LastOf
    <3>2. Len(mStore[i]) = i /\ \A j \in 1 .. i : mStore[i][j] = mStore[n][j]
      BY <1>0, <2>2, Zenon DEF Prefixes
    <3>3. \A j \in 1 .. i : j \in 1 .. n
      BY <1>0, <2>2
    <3> QED
      BY <1>1, <1>3, <3>1, <3>2, <3>3, Zenon
  <2>3. i = n + 1 \/ i \in 1 .. n
    BY <1>n
  <2> QED
    BY <2>1, <2>2, <2>3
<1>5. Prefixes(mStore')
  BY <1>1, <1>4 DEF Prefixes
<1> QED
  BY <1>1, <1>5 DEF LastOf, e

\* Every step preserves the invariant.
LEMMA CopyNext == CopyInv /\ [Copy!Next]_(Copy!vars) => CopyInv'
<1> SUFFICES ASSUME CopyInv, [Copy!Next]_(Copy!vars) PROVE CopyInv'
  BY Zenon
<1>1. ASSUME NEW d \in Payloads, Copy!AppendCtx(d) PROVE CopyInv'
  BY <1>1 DEF Copy!AppendCtx, CopyInv, Prefixes, LastOf
<1>2. ASSUME NEW n \in 0 .. CopyMaxSize, Copy!Restore(n) PROVE CopyInv'
  <2>1. n \in 0 .. Len(mUpstream) /\ mUpstream \in Seq(Payloads)
    BY <1>2, CopyAssumption DEF Copy!Restore, CopyInv
  <2>2. mUpstream' \in Seq(Payloads)
    BY <1>2, <2>1, PrefixFacts, Zenon DEF Copy!Restore
  <2> QED
    BY <1>2, <2>2, Zenon DEF Copy!Restore, CopyInv, Prefixes, LastOf
<1>3. CASE Copy!FetchUpstreamSize
  BY <1>3 DEF Copy!FetchUpstreamSize, CopyInv, Prefixes, LastOf
<1>4. CASE Copy!FetchEntries
  <2>1. mChunk' \in Seq(Seq(Payloads))
    BY <1>4, ChunkType
  <2> QED
    BY <1>4, <2>1, Zenon DEF Copy!FetchEntries, CopyInv, Prefixes, LastOf
<1>5. CASE Copy!AcceptEntry
  <2>1. /\ mStore' \in Seq(Seq(Payloads)) /\ Prefixes(mStore')
        /\ mStore' # <<>> /\ LastOf(mStore') = Head(mChunk)
    BY <1>5, AcceptKeeps
  <2> QED
    BY <1>5, <2>1, Zenon DEF Copy!AcceptEntry, CopyInv, Prefixes, LastOf
<1>6. CASE Copy!Advance
  <2>1. /\ mChunk \in Seq(Seq(Payloads)) /\ mChunk # <<>> /\ Head(mChunk) = LastOf(mStore)
        /\ mLastSize \in Nat
    BY <1>6, Zenon DEF Copy!Advance, CopyInv
  <2>2. mChunk' \in Seq(Seq(Payloads)) /\ mPrev' \in Seq(Payloads) /\ mLastSize' \in Nat
    BY <1>6, <2>1 DEF Copy!Advance
  <2> QED
    BY <1>6, <2>1, <2>2, Zenon DEF Copy!Advance, CopyInv, Prefixes, LastOf
<1>7. CASE Copy!RejectEntry \/ Copy!SyncFault
  <2>1. Copy!SyncFails /\ mPc \in {"idle", "fetch", "accept"}
    BY <1>7 DEF Copy!RejectEntry, Copy!SyncFault
  <2>2. mChunk' \in Seq(Seq(Payloads))
    BY <2>1 DEF Copy!SyncFails
  <2> QED
    BY <2>1, <2>2, Zenon DEF Copy!SyncFails, CopyInv, Prefixes, LastOf
<1>8. CASE Copy!NextChunk
  BY <1>8, CopyAssumption DEF Copy!NextChunk, CopyInv, Prefixes, LastOf
<1>9. CASE Copy!Crash
  <2>1. mUp' = FALSE /\ mPc' = "down" /\ UNCHANGED mStore
    BY <1>9, Zenon DEF Copy!Crash
  <2>2. mUp' \in BOOLEAN /\ (mUp' <=> mPc' # "down")
    BY <2>1, Zenon
  <2> QED
    BY <1>9, <2>1, <2>2 DEF Copy!Crash, CopyInv, Prefixes, LastOf
<1>10. CASE Copy!New
  <2>1. mPrev' \in Seq(Payloads) /\ mLastSize' \in Nat /\ mPrev' = LastOf(mStore)
    BY <1>10 DEF Copy!New, CopyInv, LastOf
  <2> QED
    BY <1>10, <2>1, Zenon DEF Copy!New, CopyInv, Prefixes, LastOf
<1>11. CASE UNCHANGED Copy!vars
  BY <1>11, Zenon DEF Copy!vars, CopyInv, Prefixes, LastOf
<1> QED
  BY <1>1, <1>2, <1>3, <1>4, <1>5, <1>6, <1>7, <1>8, <1>9, <1>10, <1>11, Zenon
     DEF Copy!Next, Copy!SyncStep

\* The mirror holds one history, whatever became of the operator, for every
\* size, chunk size and number of faults, crashes and restores (pkg/mirror).
THEOREM CopyCorrect == Copy!Spec => []OneHistory
<1>1. ASSUME CopyInv PROVE Copy!OneHistory
  <2> SUFFICES ASSUME NEW i \in DOMAIN mStore
               PROVE  Len(mStore[i]) = i /\ mStore[i] = SubSeq(mStore[Len(mStore)], 1, i)
    BY DEF Copy!OneHistory
  <2> DEFINE n == Len(mStore)
             t == SubSeq(mStore[n], 1, i)
  <2>1. /\ n \in Nat /\ i \in 1 .. n /\ n \in 1 .. n /\ mStore[i] \in Seq(Payloads)
        /\ mStore[n] \in Seq(Payloads) /\ Prefixes(mStore)
    BY <1>1 DEF CopyInv
  <2>2. Len(mStore[i]) = i /\ Len(mStore[n]) = n
        /\ \A j \in 1 .. i : mStore[i][j] = mStore[n][j]
    BY <2>1, Zenon DEF Prefixes
  <2>3. i \in 0 .. Len(mStore[n])
    BY <2>1, <2>2
  <2>4. t \in Seq(Payloads) /\ Len(t) = i /\ \A j \in 1 .. i : t[j] = mStore[n][j]
    BY <2>1, <2>3, PrefixFacts, Zenon
  <2> HIDE DEF t
  <2>5. mStore[i] = t
    BY <2>1, <2>2, <2>4
  <2> QED
    BY <2>2, <2>5, Zenon DEF t
<1> QED
  BY <1>1, CopyInit, CopyNext, PTL DEF Copy!Spec, OneHistory

-----------------------------------------------------------------------------
(* The tripwire alarms when it should and only then                        *)

Stamps == Nat \ {0}
StoredEntries == [data: Nat, hash: Seq(Stamps)]

\* The contents of a log that was never cut: the entry at j was the j-th.
Original(s) == \A j \in 1 .. Len(s) : s[j] = j

AlarmType ==
    /\ aStore \in Seq(StoredEntries)
    /\ aTree \in Seq(Stamps) /\ aLatest \in Seq(Stamps) /\ aCkpt \in Seq(Stamps)
    /\ aTime \in Nat /\ aChanged \in Nat /\ aSeen \in Nat
    /\ aUp \in BOOLEAN /\ aRebuilt \in BOOLEAN /\ aResigned \in BOOLEAN

\* The stored hashes continue each other, whatever was modified, and the tree
\* in memory continues them.
HashInv ==
    /\ \A i \in 1 .. Len(aStore) : Len(aStore[i].hash) = i
    /\ \A i \in 1 .. Len(aStore) : \A k \in i .. Len(aStore) : \A j \in 1 .. i :
          aStore[i].hash[j] = aStore[k].hash[j]
    /\ aUp => Len(aTree) = Len(aStore)
    /\ aUp /\ aStore # <<>> => aTree = aStore[Len(aStore)].hash

\* Nothing has more entries than were ever appended.
TimeInv ==
    /\ Len(aStore) <= aTime /\ Len(aLatest) <= aTime /\ Len(aCkpt) <= aTime
    /\ aChanged <= aTime

\* A store that was never modified is the original one; so are the tree, unless
\* it was rebuilt from a modified store, and the checkpoints, unless one was
\* made of such a tree.
OriginalInv ==
    /\ aRebuilt \/ aResigned => aChanged # 0
    /\ aChanged = 0 =>
          /\ Len(aStore) = aTime
          /\ \A i \in 1 .. Len(aStore) : aStore[i].data = i /\ Original(aStore[i].hash)
    /\ aUp /\ ~aRebuilt => Original(aTree) /\ Len(aTree) = aTime
    /\ ~aResigned => Original(aLatest) /\ Original(aCkpt)

\* The first entry modified is gone, or overwritten, or appended anew: with a
\* later content.
ChangeInv ==
    aChanged \in 1 .. Len(aStore) =>
        aStore[aChanged].data = Alarm!Edited \/ aStore[aChanged].hash[aChanged] # aChanged

PassInv ==
    /\ aSeen # 0 => aChanged # 0 /\ aChanged <= aSeen
    /\ aPc = "run" => aCkpt # <<>>

AlarmInv ==
    AlarmType /\ HashInv /\ TimeInv /\ OriginalInv /\ ChangeInv /\ PassInv
    /\ Alarm!AlarmIsRight

\* The first state satisfies the invariant.
LEMMA AlarmInit == Alarm!Init => AlarmInv
<1> SUFFICES ASSUME Alarm!Init PROVE AlarmInv
  OBVIOUS
<1>1. AlarmType
  <2>1. aUp = TRUE /\ aRebuilt = FALSE /\ aResigned = FALSE
    BY DEF Alarm!Init
  <2>2. aUp \in BOOLEAN /\ aRebuilt \in BOOLEAN /\ aResigned \in BOOLEAN
    BY <2>1, Zenon
  <2> QED
    BY <2>2 DEF Alarm!Init, AlarmType
<1>2. HashInv /\ TimeInv
  BY DEF Alarm!Init, HashInv, TimeInv
<1>3. OriginalInv
  BY DEF Alarm!Init, OriginalInv, Original
<1>4. ChangeInv /\ PassInv /\ Alarm!AlarmIsRight
  BY DEF Alarm!Init, ChangeInv, PassInv, Alarm!AlarmIsRight, Alarm!NoFalseAlarm,
         Alarm!ModificationDetected
<1> QED
  BY <1>1, <1>2, <1>3, <1>4 DEF AlarmInv

\* An entry is appended: its hash is the tree.
LEMMA AppendKeeps == AlarmInv /\ Alarm!AppendCtx => AlarmInv'
<1> SUFFICES ASSUME AlarmInv, Alarm!AppendCtx PROVE AlarmInv'
  OBVIOUS
<1> DEFINE n == Len(aStore)
           t == aTime + 1
           e == [data |-> t, hash |-> aTree']
<1>0. /\ aStore \in Seq(StoredEntries) /\ n \in Nat /\ aTree \in Seq(Stamps)
      /\ aTime \in Nat
      /\ Len(aTree) = n /\ n <= aTime /\ aChanged <= aTime /\ aChanged \in Nat /\ aUp
  BY DEF AlarmInv, AlarmType, HashInv, TimeInv, Alarm!AppendCtx
<1>1. /\ aTime' = t /\ t \in Stamps /\ aTree' = Append(aTree, t)
      /\ aStore' = Append(aStore, e)
      /\ UNCHANGED <<aLatest, aUp, aPc, aCkpt, aResult, aSeen, aChanged, aRebuilt,
                     aResigned>>
  BY <1>0 DEF Alarm!AppendCtx, Stamps, Alarm!passVars, Alarm!history
<1>2. /\ aTree' \in Seq(Stamps) /\ Len(aTree') = n + 1 /\ aTree'[n + 1] = t
      /\ \A j \in 1 .. n : aTree'[j] = aTree[j]
  BY <1>0, <1>1
<1>3. e \in StoredEntries /\ e.data = t /\ e.hash = aTree'
  BY <1>0, <1>1, <1>2, Zenon DEF StoredEntries, Stamps
<1> HIDE DEF e
<1>4. /\ aStore' \in Seq(StoredEntries) /\ Len(aStore') = n + 1 /\ aStore'[n + 1] = e
      /\ \A i \in 1 .. n : aStore'[i] = aStore[i]
  BY <1>0, <1>1, <1>3
<1> HIDE DEF t
<1>5. AlarmType'
  BY <1>1, <1>2, <1>4, Zenon DEF AlarmInv, AlarmType, Stamps
<1>6. ASSUME NEW i \in 1 .. n, NEW j \in 1 .. i PROVE aStore[i].hash[j] = aTree[j]
  <2>1. aStore # <<>> /\ n \in i .. n
    BY <1>0
  <2>2. aTree = aStore[n].hash /\ aStore[i].hash[j] = aStore[n].hash[j]
    BY <1>0, <2>1, Zenon DEF AlarmInv, HashInv
  <2> QED
    BY <2>2, Zenon
<1>7. HashInv'
  <2>1. ASSUME NEW i \in 1 .. (n + 1) PROVE Len(aStore'[i].hash) = i
    <3>1. CASE i = n + 1
      BY <1>2, <1>3, <1>4, <3>1, Zenon
    <3>2. CASE i \in 1 .. n
      BY <1>4, <3>2, Zenon DEF AlarmInv, HashInv
    <3> QED
      BY <1>0, <3>1, <3>2
  <2>2. ASSUME NEW i \in 1 .. (n + 1), NEW k \in i .. (n + 1), NEW j \in 1 .. i
        PROVE  aStore'[i].hash[j] = aStore'[k].hash[j]
    <3>1. CASE k \in i .. n
      <4>1. i \in 1 .. n /\ k \in 1 .. n
        BY <1>0, <3>1
      <4> QED
        BY <1>4, <3>1, <4>1 DEF AlarmInv, HashInv
    <3>2. CASE k = n + 1 /\ i \in 1 .. n
      <4>1. j \in 1 .. n
        BY <1>0, <3>2
      <4> QED
        BY <1>2, <1>3, <1>4, <1>6, <3>2, <4>1
    <3>3. CASE k = n + 1 /\ i = n + 1
      BY <3>3, Zenon
    <3> QED
      BY <1>0, <3>1, <3>2, <3>3
  <2> QED
    BY <1>1, <1>2, <1>3, <1>4, <2>1, <2>2 DEF HashInv
<1>8. TimeInv'
  <2>1. Len(aLatest) <= aTime /\ Len(aCkpt) <= aTime /\ Len(aLatest) \in Nat
        /\ Len(aCkpt) \in Nat
    BY DEF AlarmInv, TimeInv, AlarmType
  <2> QED
    BY <1>0, <1>1, <1>4, <2>1 DEF TimeInv, t
<1>9. Original(aTree) /\ Len(aTree) = aTime => Original(aTree') /\ Len(aTree') = t
  BY <1>0, <1>2 DEF Original, t
<1>10. OriginalInv'
  <2>1. /\ aRebuilt' \/ aResigned' => aChanged' # 0
        /\ aUp' /\ ~aRebuilt' => Original(aTree') /\ Len(aTree') = aTime'
        /\ ~aResigned' => Original(aLatest') /\ Original(aCkpt')
    BY <1>1, <1>9, Zenon DEF AlarmInv, OriginalInv
  <2>2. ASSUME aChanged = 0
        PROVE  /\ Len(aStore') = aTime'
               /\ \A i \in 1 .. (n + 1) : aStore'[i].data = i /\ Original(aStore'[i].hash)
    <3>1. Original(aTree) /\ Len(aTree) = aTime
      BY <1>0, <2>2, Zenon DEF AlarmInv, OriginalInv
    <3>2. n = aTime /\ t = n + 1
      BY <1>0, <3>1, Zenon DEF t
    <3>3. ASSUME NEW i \in 1 .. (n + 1)
          PROVE  aStore'[i].data = i /\ Original(aStore'[i].hash)
      <4>1. CASE i = n + 1
        BY <1>3, <1>4, <1>9, <3>1, <3>2, <4>1, Zenon
      <4>2. CASE i \in 1 .. n
        BY <1>4, <2>2, <4>2, Zenon DEF AlarmInv, OriginalInv
      <4> QED
        BY <1>0, <4>1, <4>2
    <3> QED
      BY <1>1, <1>4, <3>2, <3>3, Zenon
  <2> QED
    BY <1>1, <1>4, <2>1, <2>2, Zenon DEF OriginalInv
<1>11. ChangeInv'
  <2> SUFFICES ASSUME aChanged \in 1 .. (n + 1)
               PROVE  aStore'[aChanged].data = Alarm!Edited
                      \/ aStore'[aChanged].hash[aChanged] # aChanged
    BY <1>1, <1>4, Zenon DEF ChangeInv
  <2>1. CASE aChanged = n + 1
    <3>1. t # aChanged
      BY <1>0 DEF t
    <3> QED
      BY <1>2, <1>3, <1>4, <2>1, <3>1, Zenon
  <2>2. CASE aChanged \in 1 .. n
    BY <1>4, <2>2, Zenon DEF AlarmInv, ChangeInv
  <2> QED
    BY <1>0, <2>1, <2>2
<1>12. PassInv' /\ Alarm!AlarmIsRight'
  BY <1>1, Zenon DEF AlarmInv, PassInv, Alarm!AlarmIsRight, Alarm!NoFalseAlarm,
              Alarm!ModificationDetected
<1> QED
  BY <1>5, <1>7, <1>8, <1>10, <1>11, <1>12 DEF AlarmInv

\* A modification: what is left of the store keeps its hashes, and the first
\* index modified is gone or overwritten.
LEMMA TouchKeeps ==
  ASSUME AlarmInv, NEW i \in 1 .. Len(aStore), Alarm!Touch(i),
         aStore' \in Seq(StoredEntries), Len(aStore') <= Len(aStore),
         \A k \in 1 .. Len(aStore') : aStore'[k].hash = aStore[k].hash,
         \A k \in 1 .. Len(aStore') : k < i => aStore'[k] = aStore[k],
         i \in 1 .. Len(aStore') => aStore'[i].data = Alarm!Edited,
         aUp => Len(aStore') = Len(aStore)
  PROVE  AlarmInv'
<1> DEFINE n == Len(aStore)
           m == Len(aStore')
<1>0. n \in Nat /\ m \in Nat /\ m <= n /\ i \in 1 .. n /\ aChanged \in Nat
      /\ aChanged <= aTime /\ n <= aTime /\ aTime \in Nat /\ aSeen \in Nat
  BY DEF AlarmInv, AlarmType, TimeInv
<1>1. /\ UNCHANGED <<aTree, aLatest, aUp, aTime, aPc, aCkpt, aResult, aSeen, aRebuilt,
                     aResigned>>
      /\ aChanged' = IF aChanged = 0 \/ i < aChanged THEN i ELSE aChanged
  BY Zenon DEF Alarm!Touch, Alarm!passVars
<1>2. aChanged' \in Nat /\ aChanged' # 0 /\ aChanged' <= aTime
  BY <1>0, <1>1
<1>3. AlarmType'
  BY <1>1, <1>2, Zenon DEF AlarmInv, AlarmType
<1>4. HashInv'
  <2>1. ASSUME NEW k \in 1 .. m PROVE k \in 1 .. n /\ Len(aStore'[k].hash) = k
    <3>1. k \in 1 .. n
      BY <1>0
    <3> QED
      BY <3>1, Zenon DEF AlarmInv, HashInv
  <2>2. ASSUME NEW a \in 1 .. m, NEW b \in a .. m, NEW j \in 1 .. a
        PROVE  aStore'[a].hash[j] = aStore'[b].hash[j]
    <3>1. a \in 1 .. n /\ b \in a .. n /\ b \in 1 .. m
      BY <1>0
    <3>2. aStore[a].hash[j] = aStore[b].hash[j]
      BY <3>1, Zenon DEF AlarmInv, HashInv
    <3> QED
      BY <3>1, <3>2, Zenon
  <2>3. aUp => Len(aTree) = m /\ aTree = aStore'[m].hash
    <3>1. n \in 1 .. n /\ aStore # <<>>
      BY <1>0
    <3> QED
      BY <3>1, Zenon DEF AlarmInv, HashInv
  <2> QED
    BY <1>1, <2>1, <2>2, <2>3, Zenon DEF HashInv
<1>5. TimeInv'
  BY <1>0, <1>1, <1>2 DEF AlarmInv, TimeInv
<1>6. OriginalInv'
  BY <1>1, <1>2, Zenon DEF AlarmInv, OriginalInv
<1>7. ChangeInv'
  <2> SUFFICES ASSUME aChanged' \in 1 .. m
               PROVE  \/ aStore'[aChanged'].data = Alarm!Edited
                      \/ aStore'[aChanged'].hash[aChanged'] # aChanged'
    BY Zenon DEF ChangeInv
  <2>1. CASE aChanged' = i
    BY <2>1, Zenon
  <2>2. CASE aChanged' # i
    <3>1. aChanged' = aChanged /\ aChanged < i /\ aChanged \in 1 .. n
      BY <1>0, <1>1, <2>2
    <3>2. aStore'[aChanged] = aStore[aChanged]
      BY <3>1, Zenon
    <3> QED
      BY <3>1, <3>2, Zenon DEF AlarmInv, ChangeInv
  <2> QED
    BY <2>1, <2>2, Zenon
<1>8. PassInv'
  <2>1. aSeen # 0 => aChanged' <= aSeen
    BY <1>0, <1>1 DEF AlarmInv, PassInv
  <2> QED
    BY <1>1, <1>2, <2>1, Zenon DEF AlarmInv, PassInv
<1>9. Alarm!AlarmIsRight'
  BY <1>1, <1>2, Zenon DEF AlarmInv, Alarm!AlarmIsRight, Alarm!NoFalseAlarm,
                    Alarm!ModificationDetected
<1> QED
  BY <1>3, <1>4, <1>5, <1>6, <1>7, <1>8, <1>9, Zenon DEF AlarmInv

\* The hash of a stored entry covers the entries up to it.
LEMMA EntryFacts ==
  ASSUME AlarmInv, NEW i \in 1 .. Len(aStore)
  PROVE  aStore[i].hash \in Seq(Stamps) /\ Len(aStore[i].hash) = i
<1>1. aStore[i] \in StoredEntries
  BY DEF AlarmInv, AlarmType
<1>2. aStore[i].hash \in Seq(Stamps)
  BY <1>1, Zenon DEF StoredEntries
<1> QED
  BY <1>2, Zenon DEF AlarmInv, HashInv

\* An unmodified store verifies and chains.
LEMMA OriginalSound ==
  ASSUME AlarmInv, aChanged = 0, NEW i \in 1 .. Len(aStore)
  PROVE  Alarm!Verify(aStore[i]) /\ Alarm!VerifyChain(i)
<1> DEFINE h == aStore[i].hash
<1>1. Len(aStore) \in Nat /\ h \in Seq(Stamps)
  BY EntryFacts DEF AlarmInv, AlarmType
<1>2. Len(h) = i /\ Original(h) /\ aStore[i].data = i
  BY Zenon DEF AlarmInv, HashInv, OriginalInv
<1>3. Alarm!Verify(aStore[i])
  BY <1>2 DEF Alarm!Verify, Original
<1>4. i - 1 \in 0 .. Len(h)
  BY <1>1, <1>2
<1> DEFINE p == SubSeq(h, 1, i - 1)
<1>5. p \in Seq(Stamps) /\ Len(p) = i - 1 /\ \A j \in 1 .. (i - 1) : p[j] = h[j]
  BY <1>1, <1>4, PrefixFacts, Zenon
<1>6. Alarm!VerifyChain(i)
  <2>1. p = SubSeq(aStore[i].hash, 1, Len(aStore[i].hash) - 1)
    BY <1>2, Zenon
  <2> HIDE DEF p
  <2>2. CASE i = 1
    <3>1. p = <<>>
      BY <1>5, <2>2
    <3> QED
      BY <2>1, <2>2, <3>1, Zenon DEF Alarm!VerifyChain
  <2>3. CASE i # 1
    <3> DEFINE g == aStore[i - 1].hash
    <3>1. i - 1 \in 1 .. Len(aStore) /\ i \in (i - 1) .. Len(aStore)
      BY <1>1, <2>3
    <3>2. g \in Seq(Stamps) /\ Len(g) = i - 1
      BY <3>1, EntryFacts, Zenon
    <3>3. \A j \in 1 .. (i - 1) : g[j] = h[j]
      BY <3>1, Zenon DEF AlarmInv, HashInv
    <3>4. p = g
      BY <1>5, <3>2, <3>3
    <3> QED
      BY <2>1, <2>3, <3>4, Zenon DEF Alarm!VerifyChain
  <2> QED
    BY <2>2, <2>3
<1> QED
  BY <1>3, <1>6

\* A pass over an unmodified store finds nothing.
LEMMA NoAlarm ==
  ASSUME AlarmInv, aPc = "run", aChanged = 0
  PROVE  Alarm!Outcome = "ok"
<1> DEFINE c == Len(aCkpt)
<1>0. /\ aCkpt \in Seq(Stamps) /\ c \in Nat /\ aCkpt # <<>> /\ c <= aTime
      /\ Len(aStore) = aTime /\ Original(aCkpt)
  BY DEF AlarmInv, AlarmType, PassInv, TimeInv, OriginalInv
<1>1. c \in 1 .. Len(aStore) /\ Len(aStore) \in Nat
  BY <1>0 DEF AlarmInv, AlarmType
<1>2. ~\E i \in 1 .. c : i <= Len(aStore)
      /\ (~Alarm!Verify(aStore[i]) \/ ~Alarm!VerifyChain(i))
  BY <1>0, <1>1, OriginalSound
<1>3. aStore[c].hash = aCkpt
  <2> DEFINE h == aStore[c].hash
  <2>1. h \in Seq(Stamps) /\ Len(h) = c /\ Original(h)
    BY <1>1, EntryFacts, Zenon DEF AlarmInv, OriginalInv
  <2>2. \A j \in 1 .. c : h[j] = aCkpt[j]
    BY <1>0, <2>1 DEF Original
  <2> QED
    BY <1>0, <2>1, <2>2
<1>4. ~(Len(aStore) < c)
  BY <1>1
<1> QED
  BY <1>2, <1>3, <1>4, Zenon DEF Alarm!Outcome

\* A pass that reports "ok" had nothing to find when it began, unless the
\* modified store was signed.
LEMMA Detected ==
  ASSUME AlarmInv, aPc = "run", Alarm!Outcome = "ok", aSeen \in 1 .. Len(aCkpt)
  PROVE  aResigned
<1> DEFINE c == Len(aCkpt)
           x == aChanged
<1>0. /\ aCkpt \in Seq(Stamps) /\ c \in Nat /\ Len(aStore) \in Nat /\ x \in Nat
      /\ aSeen \in Nat /\ x # 0 /\ x <= aSeen
  BY DEF AlarmInv, AlarmType, PassInv
<1>1. /\ \A i \in 1 .. c : i <= Len(aStore) => Alarm!Verify(aStore[i])
      /\ ~(Len(aStore) < c) /\ aStore[c].hash = aCkpt
  BY DEF Alarm!Outcome
<1>2. x \in 1 .. c /\ x \in 1 .. Len(aStore) /\ c \in x .. Len(aStore) /\ x <= Len(aStore)
  BY <1>0, <1>1
<1>3. Alarm!Verify(aStore[x])
  BY <1>1, <1>2
<1>4. Len(aStore[x].hash) = x /\ aStore[x].hash \in Seq(Stamps)
  BY <1>2, EntryFacts
<1>5. aStore[x].data # Alarm!Edited
  <2>1. aStore[x].hash[x] \in Stamps
    BY <1>2, <1>4
  <2> QED
    BY <1>3, <1>4, <2>1, Zenon DEF Alarm!Verify, Alarm!Edited, Stamps
<1>6. aStore[x].hash[x] # x
  BY <1>2, <1>5, Zenon DEF AlarmInv, ChangeInv
<1>7. aStore[x].hash[x] = aStore[c].hash[x]
  BY <1>0, <1>2 DEF AlarmInv, HashInv
<1>8. aCkpt[x] # x
  BY <1>1, <1>6, <1>7, Zenon
<1>9. ~Original(aCkpt)
  BY <1>2, <1>8, Zenon DEF Original
<1> QED
  BY <1>9, Zenon DEF AlarmInv, OriginalInv

\* Every step preserves the invariant.
LEMMA AlarmNext == AlarmInv /\ [Alarm!Next]_(Alarm!vars) => AlarmInv'
<1> SUFFICES ASSUME AlarmInv, [Alarm!Next]_(Alarm!vars) PROVE AlarmInv'
  BY Zenon
<1>0. /\ AlarmType /\ HashInv /\ TimeInv /\ OriginalInv /\ ChangeInv /\ PassInv
      /\ Alarm!AlarmIsRight
  BY DEF AlarmInv
<1>1. CASE Alarm!AppendCtx
  BY <1>1, AppendKeeps
<1>2. CASE Alarm!Checkpoint
  <2>1. /\ aLatest' = IF Len(aTree) >= Len(aLatest) THEN aTree ELSE aLatest
        /\ aResigned' = (aResigned \/ (aRebuilt /\ aLatest' = aTree)) /\ aUp
        /\ UNCHANGED <<aStore, aTree, aUp, aTime, aPc, aCkpt, aResult, aSeen, aChanged,
                       aRebuilt>>
    BY <1>2, Zenon DEF Alarm!Checkpoint, Alarm!passVars
  <2>2. aResigned' \in BOOLEAN /\ (aResigned => aResigned')
        /\ (~aResigned' => ~aRebuilt \/ aLatest' # aTree)
              /\ (aResigned' => aResigned \/ aRebuilt)
    BY <2>1, Zenon
  <2>3. aLatest' \in Seq(Stamps) /\ Len(aLatest') <= aTime
    BY <1>0, <2>1, Zenon DEF AlarmType, HashInv, TimeInv
  <2>4. ~aResigned' => Original(aLatest')
    <3>1. CASE aLatest' = aTree
      BY <1>0, <2>1, <2>2, <3>1, Zenon DEF OriginalInv
    <3>2. CASE aLatest' # aTree
      BY <1>0, <2>1, <2>2, <3>2, Zenon DEF OriginalInv
    <3> QED
      BY <3>1, <3>2
  <2>5. AlarmType' /\ HashInv' /\ TimeInv' /\ ChangeInv' /\ PassInv'
    BY <1>0, <2>1, <2>2, <2>3 DEF AlarmType, HashInv, TimeInv, ChangeInv, PassInv
  <2>6. OriginalInv'
    BY <1>0, <2>1, <2>2, <2>4, Zenon DEF OriginalInv
  <2>7. Alarm!AlarmIsRight'
    BY <1>0, <2>1, <2>2, Zenon DEF Alarm!AlarmIsRight, Alarm!NoFalseAlarm,
                            Alarm!ModificationDetected
  <2> QED
    BY <2>5, <2>6, <2>7, Zenon DEF AlarmInv
<1>3. CASE Alarm!Stop
  <2>1. /\ aUp' = FALSE /\ aTree' = <<>> /\ aPc' = "idle" /\ aResult' = "none"
        /\ UNCHANGED <<aStore, aLatest, aTime, aCkpt, aSeen, aChanged, aRebuilt,
                       aResigned>>
    BY <1>3, Zenon DEF Alarm!Stop
  <2>2. aUp' \in BOOLEAN /\ ~aUp' /\ aTree' \in Seq(Stamps)
    <3>1. aUp' \in BOOLEAN /\ ~aUp'
      BY <2>1, Zenon
    <3>2. aTree' \in Seq(Stamps)
      BY <2>1
    <3> QED
      BY <3>1, <3>2
  <2>3. AlarmType' /\ HashInv' /\ TimeInv' /\ ChangeInv' /\ PassInv'
    BY <1>0, <2>1, <2>2 DEF AlarmType, HashInv, TimeInv, ChangeInv, PassInv
  <2>4. OriginalInv' /\ Alarm!AlarmIsRight'
    BY <1>0, <2>1, <2>2, Zenon DEF OriginalInv, Alarm!AlarmIsRight, Alarm!NoFalseAlarm,
                            Alarm!ModificationDetected
  <2> QED
    BY <2>3, <2>4, Zenon DEF AlarmInv
<1>4. CASE Alarm!Start
  <2>1. /\ aUp' = TRUE /\ aRebuilt' = (aChanged # 0)
        /\ aTree' = IF aStore = <<>> THEN <<>> ELSE aStore[Len(aStore)].hash
        /\ UNCHANGED <<aStore, aLatest, aTime, aPc, aCkpt, aResult, aSeen, aChanged,
                       aResigned>>
    BY <1>4, Zenon DEF Alarm!Start, Alarm!passVars
  <2>2. aUp' \in BOOLEAN /\ aUp' /\ aRebuilt' \in BOOLEAN /\ (aRebuilt' <=> aChanged # 0)
    <3>1. aUp' \in BOOLEAN /\ aUp'
      BY <2>1, Zenon
    <3>2. aRebuilt' = (aChanged # 0)
      BY <2>1, Zenon
    <3>3. aRebuilt' \in BOOLEAN /\ (aRebuilt' <=> aChanged # 0)
      BY <3>2, Zenon
    <3> QED
      BY <3>1, <3>3, Zenon
  <2>3. aTree' \in Seq(Stamps) /\ Len(aTree') = Len(aStore)
    <3>1. CASE aStore = <<>>
      BY <2>1, <3>1
    <3>2. CASE aStore # <<>>
      <4>1. Len(aStore) \in 1 .. Len(aStore)
        BY <1>0, <3>2 DEF AlarmType
      <4> QED
        BY <2>1, <3>2, <4>1, EntryFacts, Zenon
    <3> QED
      BY <3>1, <3>2
  <2>4. aChanged = 0 => Original(aTree') /\ Len(aTree') = aTime
    <3>1. CASE aStore = <<>>
      BY <1>0, <2>1, <2>3, <3>1 DEF OriginalInv, Original
    <3>2. CASE aStore # <<>>
      <4>1. Len(aStore) \in 1 .. Len(aStore)
        BY <1>0, <3>2 DEF AlarmType
      <4> QED
        BY <1>0, <2>1, <2>3, <3>2, <4>1, Zenon DEF OriginalInv
    <3> QED
      BY <3>1, <3>2
  <2>5. AlarmType' /\ HashInv' /\ TimeInv' /\ ChangeInv' /\ PassInv'
    BY <1>0, <2>1, <2>2, <2>3 DEF AlarmType, HashInv, TimeInv, ChangeInv, PassInv
  <2>6. OriginalInv' /\ Alarm!AlarmIsRight'
    BY <1>0, <2>1, <2>2, <2>4, Zenon DEF OriginalInv, Alarm!AlarmIsRight, Alarm!NoFalseAlarm,
                                  Alarm!ModificationDetected
  <2> QED
    BY <2>5, <2>6 DEF AlarmInv
<1>5. ASSUME NEW i \in DOMAIN aStore, Alarm!Edit(i) PROVE AlarmInv'
  <2>1. /\ aStore \in Seq(StoredEntries) /\ i \in 1 .. Len(aStore)
        /\ aStore[i] \in StoredEntries
    BY <1>0 DEF AlarmType
  <2> DEFINE e == [aStore[i] EXCEPT !.data = Alarm!Edited]
  <2>2. e \in StoredEntries /\ e.hash = aStore[i].hash /\ e.data = Alarm!Edited
    BY <2>1, Zenon DEF StoredEntries, Alarm!Edited
  <2>3. aStore' = [aStore EXCEPT ![i] = e] /\ Alarm!Touch(i)
    BY <1>5 DEF Alarm!Edit
  <2> HIDE DEF e
  <2>4. /\ aStore' \in Seq(StoredEntries) /\ Len(aStore') = Len(aStore)
        /\ aStore'[i] = e /\ \A k \in 1 .. Len(aStore) : k # i => aStore'[k] = aStore[k]
    BY <2>1, <2>2, <2>3
  <2>5. \A k \in 1 .. Len(aStore') : aStore'[k].hash = aStore[k].hash
    BY <2>2, <2>4, Zenon
  <2>6. /\ \A k \in 1 .. Len(aStore') : k < i => aStore'[k] = aStore[k]
        /\ i \in 1 .. Len(aStore') => aStore'[i].data = Alarm!Edited
        /\ Len(aStore') <= Len(aStore)
    BY <2>1, <2>2, <2>4
  <2> QED
    BY <2>1, <2>3, <2>4, <2>5, <2>6, TouchKeeps, Zenon
<1>6. ASSUME NEW n \in 0 .. MaxAppends, Alarm!Truncate(n) PROVE AlarmInv'
  <2>1. /\ aStore \in Seq(StoredEntries) /\ n \in 0 .. Len(aStore)
        /\ n + 1 \in 1 .. Len(aStore)
        /\ aStore' = SubSeq(aStore, 1, n) /\ Alarm!Touch(n + 1) /\ ~aUp
    BY <1>0, <1>6, AlarmAssumption DEF AlarmType, Alarm!Truncate
  <2>2. /\ aStore' \in Seq(StoredEntries) /\ Len(aStore') = n
        /\ \A k \in 1 .. n : aStore'[k] = aStore[k]
    BY <2>1, PrefixFacts, Zenon
  <2>3. Len(aStore') <= Len(aStore) /\ n + 1 \notin 1 .. Len(aStore')
    BY <2>1, <2>2
  <2> QED
    BY <2>1, <2>2, <2>3, TouchKeeps, Zenon
<1>7. CASE Alarm!Tick
  <2>1. /\ aCkpt' = aLatest /\ aSeen' = aChanged /\ aResult' = "none" /\ aLatest # <<>>
        /\ UNCHANGED <<aStore, aTree, aLatest, aUp, aTime, aChanged, aRebuilt, aResigned>>
    BY <1>7, Zenon DEF Alarm!Tick, Alarm!logVars, Alarm!history
  <2>2. AlarmType' /\ HashInv' /\ TimeInv' /\ ChangeInv'
    BY <1>0, <2>1 DEF AlarmType, HashInv, TimeInv, ChangeInv
  <2>3. OriginalInv' /\ Alarm!AlarmIsRight'
    BY <1>0, <2>1, Zenon DEF OriginalInv, Alarm!AlarmIsRight, Alarm!NoFalseAlarm,
                      Alarm!ModificationDetected
  <2>4. PassInv'
    BY <1>0, <2>1 DEF PassInv, AlarmType
  <2> QED
    BY <2>2, <2>3, <2>4, Zenon DEF AlarmInv
<1>8. CASE Alarm!Run
  <2>1. /\ aPc = "run" /\ aPc' = "idle" /\ aResult' = Alarm!Outcome
        /\ UNCHANGED <<aStore, aTree, aLatest, aUp, aTime, aCkpt, aSeen, aChanged,
                       aRebuilt, aResigned>>
    BY <1>8, Zenon DEF Alarm!Run, Alarm!logVars, Alarm!history
  <2>2. AlarmType' /\ HashInv' /\ TimeInv' /\ ChangeInv' /\ OriginalInv' /\ PassInv'
    BY <1>0, <2>1 DEF AlarmType, HashInv, TimeInv, ChangeInv, OriginalInv, PassInv
  <2>3. Alarm!NoFalseAlarm'
    BY <2>1, NoAlarm, Zenon DEF Alarm!NoFalseAlarm
  <2>4. Alarm!ModificationDetected'
    BY <2>1, Detected, Zenon DEF Alarm!ModificationDetected
  <2> QED
    BY <2>2, <2>3, <2>4, Zenon DEF AlarmInv, Alarm!AlarmIsRight
<1>9. CASE UNCHANGED Alarm!vars
  <2>1. UNCHANGED <<aStore, aTree, aLatest, aUp, aTime, aPc, aCkpt, aResult, aSeen,
  aChanged, aRebuilt,
                    aResigned>>
    BY <1>9, Zenon DEF Alarm!vars, Alarm!logVars, Alarm!passVars, Alarm!history
  <2> QED
    BY <1>0, <2>1 DEF AlarmInv, AlarmType, HashInv, TimeInv, ChangeInv, OriginalInv,
                      PassInv,
                      Alarm!AlarmIsRight, Alarm!NoFalseAlarm, Alarm!ModificationDetected
<1> QED
  BY <1>1, <1>2, <1>3, <1>4, <1>5, <1>6, <1>7, <1>8, <1>9, Zenon
     DEF Alarm!Next, Alarm!StartRefused, Alarm!TickSkipped

\* The tripwire alarms when it should and only then, for every number of
\* entries, modifications and restarts (pkg/tripwire, Run).
THEOREM AlarmCorrect == Alarm!Spec => []AlarmIsRight
<1>1. AlarmInv => Alarm!AlarmIsRight
  BY DEF AlarmInv
<1> QED
  BY <1>1, AlarmInit, AlarmNext, PTL DEF Alarm!Spec, AlarmIsRight

=============================================================================
