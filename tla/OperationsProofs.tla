-------------------------- MODULE OperationsProofs --------------------------
(***************************************************************************)
(* t-of-N signing is safe for every group, every threshold, any number of  *)
(* calls and failures: what verifies was signed by a quorum, and to cancel *)
(* the outstanding requests never costs the threshold.  The ingest gate    *)
(* keeps its bounds for every rate, burst and number of handlers.          *)
(***************************************************************************)
EXTENDS Threshold, GatePart, FiniteSetTheorems, TLAPS

-----------------------------------------------------------------------------
(* Threshold signing: what verifies was signed by a quorum                 *)

\* The places of a channel whose signatures are counted for m.
Good(ch, m) == {i \in DOMAIN ch : ch[i] # NoSig /\ Valid(ch[i], m)}

\* A channel has finitely many places.
LEMMA GoodFinite ==
  ASSUME NEW S, NEW ch \in Seq(S), NEW m
  PROVE  IsFiniteSet(Good(ch, m)) /\ Cardinality(Good(ch, m)) \in Nat
<1>1. Good(ch, m) \in SUBSET (1 .. Len(ch))
  BY DEF Good
<1>2. IsFiniteSet(1 .. Len(ch))
  BY FS_Interval
<1> QED
  BY <1>1, <1>2, FS_Subset, FS_CardinalityType, Zenon

\* An answer that is counted adds one, any other answer nothing.
LEMMA GoodAppend ==
  ASSUME NEW S, NEW ch \in Seq(S), NEW s \in S, NEW m
  PROVE  Cardinality(Good(Append(ch, s), m)) =
            Cardinality(Good(ch, m)) + (IF s # NoSig /\ Valid(s, m) THEN 1 ELSE 0)
<1> DEFINE n == Len(ch) + 1
           yes == s # NoSig /\ Valid(s, m)
<1>0. /\ DOMAIN Append(ch, s) = 1 .. n
      /\ DOMAIN ch = 1 .. Len(ch)
      /\ Append(ch, s)[n] = s
      /\ \A i \in 1 .. Len(ch) : Append(ch, s)[i] = ch[i]
  OBVIOUS
<1>1. IsFiniteSet(Good(ch, m)) /\ Cardinality(Good(ch, m)) \in Nat
  BY GoodFinite
<1>2. n \notin Good(ch, m)
  BY <1>0 DEF Good
<1>3. CASE yes
  <2>1. Good(Append(ch, s), m) = Good(ch, m) \cup {n}
    BY <1>0, <1>3 DEF Good
  <2> QED
    BY <2>1, <1>1, <1>2, <1>3, FS_AddElement, Zenon
<1>4. CASE ~yes
  <2>1. Good(Append(ch, s), m) = Good(ch, m)
    BY <1>0, <1>4 DEF Good
  <2> QED
    BY <2>1, <1>1, <1>4
<1> QED
  BY <1>3, <1>4

\* To take the first answer off the channel takes one away if it is counted.
LEMMA GoodTail ==
  ASSUME NEW S, NEW ch \in Seq(S), ch # <<>>, NEW m
  PROVE  Cardinality(Good(ch, m)) =
            Cardinality(Good(Tail(ch), m))
               + (IF Head(ch) # NoSig /\ Valid(Head(ch), m) THEN 1 ELSE 0)
<1> DEFINE rest == Good(ch, m) \ {1}
           yes == Head(ch) # NoSig /\ Valid(Head(ch), m)
           f == [i \in rest |-> i - 1]
<1>0. /\ DOMAIN ch = 1 .. Len(ch) /\ Len(ch) \in Nat \ {0}
      /\ DOMAIN Tail(ch) = 1 .. (Len(ch) - 1)
      /\ \A i \in 1 .. (Len(ch) - 1) : Tail(ch)[i] = ch[i + 1]
      /\ Head(ch) = ch[1]
      /\ Tail(ch) \in Seq(S)
  OBVIOUS
<1>1. /\ IsFiniteSet(Good(ch, m)) /\ Cardinality(Good(ch, m)) \in Nat
      /\ Cardinality(Good(Tail(ch), m)) \in Nat
  BY <1>0, GoodFinite, Zenon
<1>2. IsFiniteSet(rest)
      /\ Cardinality(rest) = Cardinality(Good(ch, m)) - (IF yes THEN 1 ELSE 0)
  <2>1. 1 \in Good(ch, m) <=> yes
    BY <1>0 DEF Good
  <2> QED
    BY <1>1, <2>1, FS_RemoveElement
<1>3. Cardinality(Good(Tail(ch), m)) = Cardinality(rest)
  <2>1. f \in [rest -> Good(Tail(ch), m)]
    BY <1>0 DEF Good
  <2>2. ASSUME NEW i \in rest, NEW j \in rest, f[i] = f[j] PROVE i = j
    BY <2>2, <1>0 DEF Good
  <2>3. ASSUME NEW j \in Good(Tail(ch), m) PROVE \E i \in rest : f[i] = j
    <3>1. j + 1 \in rest /\ f[j + 1] = j
      BY <1>0 DEF Good
    <3> QED
      BY <3>1
  <2>4. f \in Bijection(rest, Good(Tail(ch), m))
    <3> HIDE DEF f, rest
    <3> QED
      BY <2>1, <2>2, <2>3 DEF Bijection, Injection, IsInjective, Surjection
  <2> QED
    BY <2>4, <1>2, FS_Bijection DEF ExistsBijection
<1> QED
  BY <1>1, <1>2, <1>3

-----------------------------------------------------------------------------
(* Only what was produced is passed on                                     *)

\* What is on its way, in the channel or gathered was produced by a cosigner.
FlowInv ==
    /\ produced \subseteq Sigs
    /\ route \in Routes
    /\ msg \in Messages
    /\ call \in [Members -> {"idle", "sent", "answered", "done"}]
    /\ reply \in [Members -> produced \cup {NoSig}]
    /\ channel \in Seq(produced \cup {NoSig})
    /\ gathered \in Seq(produced)
    /\ cancelled \in BOOLEAN
    /\ lost \subseteq Members
    /\ \A k \in Members : call[k] \in {"sent", "answered"} => k \in DOMAIN route

\* The first state satisfies the invariant.
LEMMA FlowInit == Init => FlowInv
<1> SUFFICES ASSUME Init PROVE FlowInv
  OBVIOUS
<1>1. /\ call \in [Members -> {"idle"}]
      /\ reply \in [Members -> {NoSig}]
  BY DEF Init
<1>2. channel \in Seq({NoSig}) /\ gathered \in Seq({})
  BY DEF Init
<1> QED
  BY <1>1, <1>2, Zenon DEF Init, FlowInv

\* A sequence over a set is one over every larger set.
LEMMA SeqWiden ==
  ASSUME NEW S, NEW T, S \subseteq T, NEW q \in Seq(S)
  PROVE  q \in Seq(T)
OBVIOUS

\* Every step keeps it.
LEMMA FlowNext == FlowInv /\ [Next]_vars => FlowInv'
<1> SUFFICES ASSUME FlowInv, [Next]_vars PROVE FlowInv'
  BY Zenon
<1> USE DEF FlowInv
<1>1. ASSUME NEW m \in Messages, Sign(m) PROVE FlowInv'
  <2>1. /\ call' \in [Members -> {"sent", "done"}]
        /\ \A k \in Members : call'[k] = "sent" => k \in DOMAIN route
    BY <1>1, Zenon DEF Sign
  <2>2. gathered' \in Seq(produced)
    BY <1>1 DEF Sign
  <2> QED
    BY <1>1, <2>1, <2>2, Zenon DEF Sign
<1>2. ASSUME NEW k \in Members, CosignerSigns(k) PROVE FlowInv'
  <2> DEFINE own == [member |-> route[k], msg |-> msg, quantum |-> route[k] \in Hybrid]
  <2>0. k \in DOMAIN route /\ route[k] \in Members
    BY <1>2, ThresholdAssumption, Zenon DEF CosignerSigns
  <2>1. own \in Sigs
    BY <2>0 DEF Sigs
  <2>2. PICK s \in produced \cup {own} :
          produced' = produced \cup {s} /\ reply' = [reply EXCEPT ![k] = s]
    BY <1>2, Zenon DEF CosignerSigns
  <2>3. produced \subseteq produced' /\ produced' \subseteq Sigs /\ s \in produced'
    BY <2>1, <2>2, Zenon
  <2>4. /\ call' = [call EXCEPT ![k] = "answered"]
        /\ UNCHANGED <<route, msg, channel, gathered, cancelled, lost>>
    BY <1>2, Zenon DEF CosignerSigns
  <2>5. channel \in Seq(produced' \cup {NoSig}) /\ gathered \in Seq(produced')
    BY <2>3, SeqWiden
  <2>6. reply' \in [Members -> produced' \cup {NoSig}]
    BY <2>2, <2>3
  <2> QED
    BY <2>0, <2>3, <2>4, <2>5, <2>6, Zenon
<1>3. ASSUME NEW k \in Members, SignOne(k) PROVE FlowInv'
  BY <1>3 DEF SignOne
<1>4. ASSUME NEW k \in Members, SignOneFails(k) PROVE FlowInv'
  BY <1>4 DEF SignOneFails
<1>5. ASSUME NEW k \in Members, SignOneCancelled(k) PROVE FlowInv'
  BY <1>5 DEF SignOneCancelled
<1>6. CASE Collect
  <2>1. /\ Head(channel) \in produced \cup {NoSig}
        /\ Tail(channel) \in Seq(produced \cup {NoSig})
    BY <1>6 DEF Collect
  <2>2. gathered' \in Seq(produced)
    BY <1>6, <2>1 DEF Collect, Counts
  <2>3. cancelled' \in BOOLEAN
    BY <1>6 DEF Collect
  <2> QED
    BY <1>6, <2>1, <2>2, <2>3, Zenon DEF Collect
<1>7. CASE SignReturns
  BY <1>7 DEF SignReturns
<1>8. CASE UNCHANGED vars
  BY <1>8 DEF vars
<1> QED
  BY <1>1, <1>2, <1>3, <1>4, <1>5, <1>6, <1>7, <1>8, Zenon DEF Next

\* A set of gathered signatures that verifies holds one of every member of a
\* quorum, and each was produced.
LEMMA FlowQuorum == FlowInv => QuorumSigned
<1> SUFFICES ASSUME FlowInv, VerifyMulti(gathered, msg)
             PROVE  Cardinality({k \in Members :
                        \E s \in produced : s.member = k /\ s.msg = msg}) >= GroupThreshold
  BY DEF QuorumSigned
<1> DEFINE A == {k \in Members : \E i \in DOMAIN gathered :
                    /\ gathered[i].member = k
                    /\ Valid(gathered[i], msg)
                    /\ k \in Registered => gathered[i].quantum}
           B == {k \in Members : \E s \in produced : s.member = k /\ s.msg = msg}
<1>1. \A i \in DOMAIN gathered : gathered[i] \in produced
  BY DEF FlowInv
<1>2. A \in SUBSET B
  BY <1>1 DEF Valid
<1>3. IsFiniteSet(B) /\ IsFiniteSet(A)
  BY FS_Subset, ThresholdAssumption, Zenon
<1>4. Cardinality(A) <= Cardinality(B)
  BY <1>2, <1>3, FS_Subset, Zenon
<1>5. Cardinality(A) \in Nat /\ Cardinality(B) \in Nat
  BY <1>3, FS_CardinalityType, Zenon
<1>6. Cardinality(A) >= GroupThreshold
  BY DEF VerifyMulti
<1>7. GroupThreshold \in Nat
  BY ThresholdAssumption, FS_CardinalityType
<1> HIDE DEF A, B
<1>8. Cardinality(B) >= GroupThreshold
  BY <1>4, <1>5, <1>6, <1>7
<1> QED
  BY <1>8 DEF B

\* What VerifyMulti accepts, t members signed.
THEOREM QuorumCorrect == Spec => []QuorumSigned
BY FlowInit, FlowNext, FlowQuorum, PTL DEF Spec

-----------------------------------------------------------------------------
(* Nothing is lost by cancelling                                           *)

\* The members heard out whose answer is in.
AnswersIn == {k \in HeardOut : call[k] = "done"}

\* Until the others are cancelled, which is when the threshold is met, every
\* sound cosigner that has answered has a signature in the channel or among
\* those gathered.
CancelInv ==
    /\ cancelled <=> Len(gathered) >= GroupThreshold
    /\ (\A k \in Members : call[k] = "idle") => channel = <<>>
    /\ outcome = "refused" => \A k \in Members : call[k] = "idle"
    /\ \A k \in Members : call[k] = "answered" /\ route[k] \notin Faulty =>
          reply[k] \in Sigs /\ reply[k].msg = msg
    /\ ~cancelled => Cardinality(AnswersIn) <=
                        Len(gathered) + Cardinality(Good(channel, msg))
    /\ CancelIsSafe

\* The sets that are counted are finite.
LEMMA AnswersFinite ==
  ASSUME FlowInv
  PROVE  /\ IsFiniteSet(AnswersIn) /\ Cardinality(AnswersIn) \in Nat
         /\ IsFiniteSet(Good(channel, msg)) /\ Cardinality(Good(channel, msg)) \in Nat
         /\ Len(gathered) \in Nat
         /\ GroupThreshold \in Nat \ {0}
<1>1. AnswersIn \in SUBSET Members
  BY ThresholdAssumption, Zenon DEF AnswersIn, HeardOut, FlowInv
<1>2. IsFiniteSet(AnswersIn) /\ Cardinality(AnswersIn) \in Nat
  BY <1>1, ThresholdAssumption, FS_Subset, FS_CardinalityType, Zenon
<1>3. IsFiniteSet(Good(channel, msg)) /\ Cardinality(Good(channel, msg)) \in Nat
  BY GoodFinite, Zenon DEF FlowInv
<1>4. GroupThreshold \in Nat \ {0}
  BY ThresholdAssumption, FS_CardinalityType
<1> QED
  BY <1>2, <1>3, <1>4 DEF FlowInv

\* The first state satisfies the invariant.
LEMMA CancelInit == Init => CancelInv
<1> SUFFICES ASSUME Init PROVE CancelInv
  BY Zenon
<1>1. FlowInv
  BY FlowInit
<1>2. AnswersIn = {}
  <2>1. DOMAIN route \subseteq Members
    BY <1>1, ThresholdAssumption, Zenon DEF FlowInv
  <2> QED
    BY <2>1 DEF Init, AnswersIn, HeardOut
<1>3. Cardinality(AnswersIn) = 0
  BY <1>2, FS_EmptySet
<1>4. Len(gathered) = 0
  BY DEF Init
<1>5. /\ Len(gathered) < GroupThreshold
      /\ Cardinality(AnswersIn) <= Len(gathered) + Cardinality(Good(channel, msg))
  BY <1>1, <1>3, <1>4, AnswersFinite
<1>6. \A k \in Members : call[k] = "idle"
  BY Zenon DEF Init
<1> QED
  BY <1>1, <1>4, <1>5, <1>6, AnswersFinite DEF Init, CancelInv, CancelIsSafe

\* Every step keeps it.
LEMMA CancelNext == FlowInv /\ FlowInv' /\ CancelInv /\ [Next]_vars => CancelInv'
<1> SUFFICES ASSUME FlowInv, FlowInv', CancelInv, [Next]_vars PROVE CancelInv'
  BY Zenon
<1>f. /\ IsFiniteSet(AnswersIn) /\ Cardinality(AnswersIn) \in Nat
      /\ IsFiniteSet(Good(channel, msg)) /\ Cardinality(Good(channel, msg)) \in Nat
      /\ Len(gathered) \in Nat
      /\ GroupThreshold \in Nat \ {0}
  BY AnswersFinite
<1>r. DOMAIN route \subseteq Members
  BY ThresholdAssumption, Zenon DEF FlowInv
<1>1. ASSUME NEW m \in Messages, Sign(m) PROVE CancelInv'
  <2>1. AnswersIn' = {}
    BY <1>1, <1>r, Zenon DEF Sign, AnswersIn, HeardOut
  <2>2. Cardinality(AnswersIn') = 0
    BY <2>1, FS_EmptySet
  <2>3. Len(gathered') = 0 /\ cancelled' = FALSE /\ outcome' = "none"
    BY <1>1, Zenon DEF Sign
  <2>4. Cardinality(Good(channel, msg)') \in Nat
    BY GoodFinite, Zenon DEF FlowInv
  <2>5. channel' = <<>> /\ \A k \in Members : call'[k] # "answered"
    BY <1>1, Zenon DEF Sign, CancelInv
  <2>6. Cardinality(AnswersIn') <= Len(gathered') + Cardinality(Good(channel, msg)')
    BY <2>2, <2>3, <2>4
  <2> QED
    BY <1>f, <2>3, <2>5, <2>6 DEF CancelInv, CancelIsSafe
<1>2. ASSUME NEW k \in Members, CosignerSigns(k) PROVE CancelInv'
  <2>1. /\ call[k] = "sent" /\ call' = [call EXCEPT ![k] = "answered"]
        /\ UNCHANGED <<route, msg, channel, gathered, cancelled, outcome, lost>>
    BY <1>2, Zenon DEF CosignerSigns
  <2>2. AnswersIn' = AnswersIn
    BY <2>1, <1>r, Zenon DEF AnswersIn, HeardOut, FlowInv
  <2>3. outcome # "refused"
    BY <2>1, Zenon DEF CancelInv
  <2>4. route[k] \notin Faulty =>
           reply' = [reply EXCEPT ![k] =
                       [member |-> route[k], msg |-> msg, quantum |-> route[k] \in Hybrid]]
    BY <1>2, Zenon DEF CosignerSigns
  <2>5. k \in DOMAIN route /\ route[k] \in Members
    BY <2>1, ThresholdAssumption, Zenon DEF FlowInv
  <2>6. \A j \in Members \ {k} : reply'[j] = reply[j] /\ call'[j] = call[j]
    BY <1>2 DEF CosignerSigns, FlowInv
  <2>7. route[k] \notin Faulty => reply'[k] \in Sigs /\ reply'[k].msg = msg
    <3> DEFINE own == [member |-> route[k], msg |-> msg, quantum |-> route[k] \in Hybrid]
    <3>1. own \in Sigs /\ own.msg = msg
      BY <2>5 DEF FlowInv, Sigs
    <3>2. route[k] \notin Faulty => reply'[k] = own
      BY <2>4, Zenon DEF FlowInv
    <3> HIDE DEF own
    <3> QED
      BY <3>1, <3>2
  <2>8. \E j \in Members : call'[j] # "idle"
    BY <2>1, Zenon DEF FlowInv
  <2> QED
    BY <2>1, <2>2, <2>3, <2>6, <2>7, <2>8, Zenon DEF CancelInv, CancelIsSafe
<1>3. ASSUME NEW k \in Members, SignOne(k) PROVE CancelInv'
  <2>1. /\ call[k] = "answered" /\ call' = [call EXCEPT ![k] = "done"]
        /\ channel' = Append(channel, reply[k])
        /\ reply' = [reply EXCEPT ![k] = NoSig]
        /\ UNCHANGED <<route, msg, gathered, cancelled, outcome, lost>>
    BY <1>3, Zenon DEF SignOne
  <2>2. outcome # "refused" /\ call'[k] = "done"
    BY <2>1, Zenon DEF CancelInv, FlowInv
  <2>3. reply[k] \in produced \cup {NoSig}
    BY Zenon DEF FlowInv
  <2>4. Cardinality(Good(channel, msg)') = Cardinality(Good(channel, msg)) +
           (IF reply[k] # NoSig /\ Valid(reply[k], msg) THEN 1 ELSE 0)
    BY <2>1, <2>3, GoodAppend DEF FlowInv
  <2>5. CASE k \in HeardOut
    <3>1. reply[k] # NoSig /\ Valid(reply[k], msg)
      BY <2>1, <2>5, ThresholdAssumption, Zenon DEF CancelInv, HeardOut, Valid, Sigs
    <3>2. AnswersIn' = AnswersIn \cup {k} /\ k \notin AnswersIn
      BY <2>1, <2>5, <1>r DEF AnswersIn, HeardOut, FlowInv
    <3>3. Cardinality(AnswersIn') = Cardinality(AnswersIn) + 1
      BY <3>2, <1>f, FS_AddElement, Zenon
    <3>4. ~cancelled' => Cardinality(AnswersIn') <=
                            Len(gathered') + Cardinality(Good(channel, msg)')
      BY <2>1, <2>4, <3>1, <3>3, <1>f DEF CancelInv
    <3> QED
      BY <2>1, <2>2, <3>4, Zenon DEF CancelInv, CancelIsSafe, FlowInv
  <2>6. CASE k \notin HeardOut
    <3>1. AnswersIn' = AnswersIn
      BY <2>1, <2>6, <1>r DEF AnswersIn, HeardOut, FlowInv
    <3>2. ~cancelled' => Cardinality(AnswersIn') <=
                            Len(gathered') + Cardinality(Good(channel, msg)')
      BY <2>1, <2>4, <3>1, <1>f DEF CancelInv
    <3> QED
      BY <2>1, <2>2, <3>2, Zenon DEF CancelInv, CancelIsSafe, FlowInv
  <2> QED
    BY <2>5, <2>6
<1>4. ASSUME NEW k \in Members, SignOneFails(k) PROVE CancelInv'
  <2>1. /\ call[k] \in {"sent", "answered"} /\ call' = [call EXCEPT ![k] = "done"]
        /\ channel' = Append(channel, NoSig)
        /\ reply' = [reply EXCEPT ![k] = NoSig]
        /\ lost' = lost \cup {k}
        /\ UNCHANGED <<route, msg, gathered, cancelled, outcome>>
    BY <1>4, Zenon DEF SignOneFails
  <2>2. outcome # "refused" /\ call'[k] = "done"
    BY <2>1, Zenon DEF CancelInv, FlowInv
  <2>3. Cardinality(Good(channel, msg)') = Cardinality(Good(channel, msg))
    <3>1. NoSig \in produced \cup {NoSig}
      BY Zenon
    <3> QED
      BY <3>1, <2>1, <1>f, GoodAppend DEF FlowInv
  <2>4. AnswersIn' = AnswersIn
    BY <2>1, <1>r, Zenon DEF AnswersIn, HeardOut, FlowInv
  <2> QED
    BY <2>1, <2>2, <2>3, <2>4, Zenon DEF CancelInv, CancelIsSafe, FlowInv
<1>5. ASSUME NEW k \in Members, SignOneCancelled(k) PROVE CancelInv'
  <2>1. /\ call[k] \in {"sent", "answered"} /\ call' = [call EXCEPT ![k] = "done"]
        /\ cancelled
        /\ reply' = [reply EXCEPT ![k] = NoSig]
        /\ UNCHANGED <<route, msg, gathered, cancelled, outcome, lost>>
    BY <1>5, Zenon DEF SignOneCancelled
  <2>2. outcome # "refused" /\ call'[k] = "done"
    BY <2>1, Zenon DEF CancelInv, FlowInv
  <2> QED
    BY <2>1, <2>2, Zenon DEF CancelInv, CancelIsSafe, FlowInv
<1>6. CASE Collect
  <2>1. /\ channel # <<>> /\ channel' = Tail(channel)
        /\ gathered' = IF Counts(Head(channel)) THEN Append(gathered, Head(channel))
                       ELSE gathered
        /\ cancelled' = (cancelled \/ Len(gathered') >= GroupThreshold)
        /\ UNCHANGED <<route, msg, call, reply, outcome, lost>>
    BY <1>6, Zenon DEF Collect
  <2>2. outcome # "refused" /\ ~(\A k \in Members : call[k] = "idle")
    BY <2>1, Zenon DEF CancelInv
  <2>3. AnswersIn' = AnswersIn
    BY <2>1, Zenon DEF AnswersIn, HeardOut
  <2>4. Cardinality(Good(channel, msg)) = Cardinality(Good(channel, msg)') +
           (IF Counts(Head(channel)) THEN 1 ELSE 0)
    BY <2>1, GoodTail, Zenon DEF FlowInv, Counts
  <2>5. Len(gathered') = Len(gathered) + (IF Counts(Head(channel)) THEN 1 ELSE 0)
    BY <2>1 DEF FlowInv
  <2>6. cancelled' <=> Len(gathered') >= GroupThreshold
    <3>1. cancelled => Len(gathered') >= GroupThreshold
      BY <2>5, <1>f DEF CancelInv
    <3> QED
      BY <3>1, <2>1, Zenon
  <2>7. Cardinality(Good(channel, msg)') \in Nat
    BY GoodFinite, Zenon DEF FlowInv
  <2>8. ~cancelled' => Cardinality(AnswersIn') <=
                          Len(gathered') + Cardinality(Good(channel, msg)')
    <3>1. ~cancelled' => ~cancelled
      BY <2>1, Zenon
    <3> QED
      BY <3>1, <2>3, <2>4, <2>5, <2>7, <1>f DEF CancelInv
  <2> QED
    BY <2>1, <2>2, <2>6, <2>8, Zenon DEF CancelInv, CancelIsSafe
<1>7. CASE SignReturns
  <2>1. /\ \A k \in Members : call[k] = "done"
        /\ channel = <<>>
        /\ outcome' = IF Len(gathered) >= GroupThreshold THEN "signed" ELSE "refused"
        /\ \A k \in Members : call'[k] = "idle"
        /\ UNCHANGED <<route, msg, reply, channel, gathered, cancelled, lost>>
    BY <1>7, Zenon DEF SignReturns
  <2>2. HeardOut' = HeardOut /\ AnswersIn = HeardOut
    BY <2>1, <1>r, Zenon DEF AnswersIn, HeardOut
  <2>3. AnswersIn' = {}
    BY <2>1, <1>r, Zenon DEF AnswersIn, HeardOut
  <2>4. Cardinality(AnswersIn') = 0
    BY <2>3, FS_EmptySet, Zenon
  <2>5. Good(channel, msg) = {}
    BY <2>1 DEF Good
  <2>6. Cardinality(Good(channel, msg)) = 0
    BY <2>5, FS_EmptySet, Zenon
  <2>7. outcome' = "refused" => Cardinality(HeardOut') < GroupThreshold
    BY <2>1, <2>2, <2>6, <1>f DEF CancelInv
  <2>8. Cardinality(AnswersIn') <= Len(gathered') + Cardinality(Good(channel, msg)')
    BY <2>1, <2>4, <2>6, <1>f
  <2> QED
    BY <2>1, <2>7, <2>8, Zenon DEF CancelInv, CancelIsSafe
<1>8. CASE UNCHANGED vars
  BY <1>8, Zenon DEF vars, CancelInv, CancelIsSafe, AnswersIn, HeardOut, Good, Valid
<1> QED
  BY <1>1, <1>2, <1>3, <1>4, <1>5, <1>6, <1>7, <1>8 DEF Next

\* To cancel the outstanding requests never makes Sign refuse.
THEOREM CancelCorrect == Spec => []CancelIsSafe
<1>1. CancelInv => CancelIsSafe
  BY Zenon DEF CancelInv
<1> QED
  BY <1>1, FlowInit, FlowNext, CancelInit, CancelNext, PTL DEF Spec

-----------------------------------------------------------------------------
(* No producer gets more than its rate, and every slot comes back          *)

\* What a bucket gains in x units of time.
Gain(x) == Rate * x

GateType ==
    /\ gNow \in Nat
    /\ DOMAIN gBuckets \subseteq Producers
    /\ \A p \in DOMAIN gBuckets :
          gBuckets[p] \in [tokens: 0 .. Burst, last: Nat, lastUsed: Nat]
    /\ gSem \in Nat
    /\ gPc \in [Handlers -> {"idle", "allowed", "appending"}]
    /\ gPassed \in [Producers -> Seq(Nat)]

\* After request i of producer p come Len(passed[p]) - i more.  With the tokens
\* that are left they stay within the burst and what was gained since request i,
\* up to the last use of the bucket; and where the janitor took the bucket away
\* they stay within the gain alone, so that a full new bucket is no gift.
BucketInv(p) ==
    LET n == Len(gPassed[p])
    IN  /\ p \in DOMAIN gBuckets =>
             /\ gBuckets[p].last = gBuckets[p].lastUsed /\ gBuckets[p].last <= gNow
             /\ \A i \in 1 .. n :
                  /\ gPassed[p][i] <= gBuckets[p].last
                  /\ n - i + 1 + gBuckets[p].tokens
                       <= Burst + Gain(gBuckets[p].last - gPassed[p][i])
        /\ p \notin DOMAIN gBuckets =>
             \A i \in 1 .. n :
                 gPassed[p][i] <= gNow /\ n - i + 1 <= Gain(gNow - gPassed[p][i])

GateInv ==
    /\ GateType
    /\ Gate!SlotsReturned
    /\ \A p \in Producers : BucketInv(p)
    /\ Gate!RateBound

\* What the types say of a producer's bucket and of the requests let through.
LEMMA GateTypeFacts ==
  ASSUME GateType
  PROVE  /\ gNow \in Nat
         /\ \A p \in DOMAIN gBuckets : gBuckets[p].last \in Nat /\ gBuckets[p].tokens \in 0 .. Burst
         /\ \A p \in Producers :
               /\ Len(gPassed[p]) \in Nat /\ DOMAIN gPassed[p] = 1 .. Len(gPassed[p])
               /\ \A i \in 1 .. Len(gPassed[p]) : gPassed[p][i] \in Nat
BY DEF GateType

\* The gate counts its handlers as FiniteSets does.
LEMMA SameCount == \A S : Gate!Cardinality(S) = Cardinality(S)
BY Zenon DEF Gate!Cardinality, Cardinality

\* What a bucket gains adds up, and never falls.
LEMMA GainFacts ==
  /\ \A x \in Int : Gain(x) \in Int
  /\ Gain(0) = 0
  /\ \A x, y \in Int : Gain(x + y) = Gain(x) + Gain(y)
  /\ \A x \in Nat : Gain(x) \in Nat
  /\ \A x \in Nat : x > IdleAfter => Gain(x) >= Burst
<1>1. \A x \in Int : Gain(x) \in Int
  BY GateAssumption DEF Gain
<1>2. Gain(0) = 0
  BY GateAssumption DEF Gain
<1>3. \A x, y \in Int : Gain(x + y) = Gain(x) + Gain(y)
  BY GateAssumption DEF Gain
<1>4. \A x \in Nat : Gain(x) \in Nat
  BY GateAssumption DEF Gain
<1>5. ASSUME NEW x \in Nat, x > IdleAfter PROVE Gain(x) >= Burst
  <2>1. x - IdleAfter \in Nat /\ x - IdleAfter \in Int /\ IdleAfter \in Int
    BY <1>5, GateAssumption
  <2>2. Gain(IdleAfter + (x - IdleAfter)) = Gain(IdleAfter) + Gain(x - IdleAfter)
    BY <1>3, <2>1, Zenon
  <2>3. IdleAfter + (x - IdleAfter) = x
    BY <2>1
  <2>4. Gain(IdleAfter) >= Burst
    BY GateAssumption DEF Gain
  <2> QED
    BY <1>1, <1>4, <2>1, <2>2, <2>3, <2>4, GateAssumption
<1> QED
  BY <1>1, <1>2, <1>3, <1>4, <1>5, Zenon

\* The first state satisfies the invariant.
LEMMA GateInit == Gate!Init => GateInv
<1> SUFFICES ASSUME Gate!Init PROVE GateInv
  BY Zenon
<1>1. gPc \in [Handlers -> {"idle", "allowed", "appending"}]
  BY DEF Gate!Init
<1>2. gPassed \in [Producers -> Seq(Nat)] /\ \A p \in Producers : gPassed[p] = <<>>
  BY DEF Gate!Init
<1>3. DOMAIN gBuckets = {}
  BY DEF Gate!Init, Gate!EmptySpace
<1>4. GateType
  BY <1>1, <1>2, <1>3 DEF Gate!Init, GateType
<1>5. {t \in Handlers : gPc[t] = "appending"} = {}
  BY Zenon DEF Gate!Init
<1>6. Gate!SlotsReturned
  BY <1>5, FS_EmptySet, SameCount, Zenon DEF Gate!Init, Gate!SlotsReturned
<1>7. \A p \in Producers : BucketInv(p)
  BY <1>2, <1>3 DEF BucketInv
<1>8. Gate!RateBound
  BY <1>2 DEF Gate!RateBound
<1> QED
  BY <1>4, <1>6, <1>7, <1>8 DEF GateInv

\* The tokens a producer has by now, and the bound they keep.
LEMMA TokensFacts ==
  ASSUME GateInv, NEW p \in Producers
  PROVE  LET n == Len(gPassed[p])
             k == Gate!Tokens(Gate!Limiter(p))
         IN  /\ k \in 0 .. Burst
             /\ \A i \in 1 .. n :
                  /\ gPassed[p][i] <= gNow
                  /\ n - i + 1 + k <= Burst + Gain(gNow - gPassed[p][i])
<1> DEFINE n == Len(gPassed[p])
           k == Gate!Tokens(Gate!Limiter(p))
<1>0. /\ GateType /\ BucketInv(p) /\ n \in Nat /\ gNow \in Nat
      /\ \A i \in 1 .. n : gPassed[p][i] \in Nat
  BY GateTypeFacts, Zenon DEF GateInv
<1>b. Burst \in Nat
  BY GateAssumption, Zenon
<1>1. CASE p \in DOMAIN gBuckets
  <2> DEFINE b == gBuckets[p]
  <2>1. /\ b.tokens \in 0 .. Burst /\ b.last \in Nat /\ b.last <= gNow
        /\ gNow - b.last \in Nat
    BY <1>0, <1>1 DEF GateType, BucketInv
  <2>2. Gain(gNow - b.last) \in Nat
    BY <2>1, GainFacts, Zenon
  <2>3. k = IF b.tokens + Gain(gNow - b.last) > Burst THEN Burst
            ELSE b.tokens + Gain(gNow - b.last)
    BY <1>1, Zenon DEF Gate!Tokens, Gate!Limiter, Gain
  <2>4. k \in 0 .. Burst /\ k <= b.tokens + Gain(gNow - b.last)
    BY <1>b, <2>1, <2>2, <2>3
  <2>5. ASSUME NEW i \in 1 .. n
        PROVE  gPassed[p][i] <= gNow
               /\ n - i + 1 + k <= Burst + Gain(gNow - gPassed[p][i])
    <3>1. /\ gPassed[p][i] <= b.last
          /\ n - i + 1 + b.tokens <= Burst + Gain(b.last - gPassed[p][i])
      BY <1>0, <1>1, Zenon DEF BucketInv
    <3>2. gNow - b.last \in Int /\ b.last - gPassed[p][i] \in Int /\ gPassed[p][i] \in Nat
      BY <1>0, <2>1
    <3>3. (gNow - b.last) + (b.last - gPassed[p][i]) = gNow - gPassed[p][i]
      BY <1>0, <2>1
    <3>4. /\ Gain(gNow - gPassed[p][i]) = Gain(gNow - b.last) + Gain(b.last - gPassed[p][i])
          /\ Gain(b.last - gPassed[p][i]) \in Int
      BY <3>2, <3>3, GainFacts, Zenon
    <3> HIDE DEF n, k, b
    <3> QED
      BY <1>0, <1>b, <2>1, <2>2, <2>4, <3>1, <3>2, <3>4
  <2> QED
    BY <2>4, <2>5, Zenon
<1>2. CASE p \notin DOMAIN gBuckets
  <2>1. k = Burst
    <3>1. Gate!Limiter(p) = [tokens |-> Burst, last |-> gNow, lastUsed |-> gNow]
      BY <1>2, Zenon DEF Gate!Limiter, Gate!NewLimiter
    <3>2. Gate!Limiter(p).tokens = Burst /\ gNow - Gate!Limiter(p).last = 0
      BY <1>0, <3>1
    <3>3. Rate * (gNow - Gate!Limiter(p).last) = 0
      BY <3>2, GainFacts, Zenon DEF Gain
    <3> QED
      BY <1>b, <3>2, <3>3 DEF Gate!Tokens
  <2>2. ASSUME NEW i \in 1 .. n
        PROVE  gPassed[p][i] <= gNow /\ n - i + 1 <= Gain(gNow - gPassed[p][i])
    BY <1>0, <1>2, Zenon DEF BucketInv
  <2>3. \A i \in 1 .. n : Gain(gNow - gPassed[p][i]) \in Int
    <3>1. \A i \in 1 .. n : gNow - gPassed[p][i] \in Int
      BY <1>0
    <3> QED
      BY <3>1, GainFacts, Zenon
  <2> HIDE DEF k, n
  <2> QED
    BY <1>0, <1>b, <2>1, <2>2, <2>3 DEF k, n
<1> QED
  BY <1>1, <1>2, Zenon

\* A request that takes k tokens, and is then let through or not, keeps the
\* bound of its own producer; the other producers keep theirs.
LEMMA TakeKeeps ==
  ASSUME GateInv, NEW p \in Producers, NEW k \in {0, 1}, gNow' = gNow,
         Gate!Tokens(Gate!Limiter(p)) >= k, Gate!Take(p, k),
         gPassed' = IF k = 1 THEN [gPassed EXCEPT ![p] = Append(@, gNow)] ELSE gPassed
  PROVE  /\ DOMAIN gBuckets' \subseteq Producers
         /\ \A q \in DOMAIN gBuckets' :
              gBuckets'[q] \in [tokens: 0 .. Burst, last: Nat, lastUsed: Nat]
         /\ gPassed' \in [Producers -> Seq(Nat)]
         /\ \A q \in Producers : BucketInv(q)'
         /\ Gate!RateBound'
<1> DEFINE n == Len(gPassed[p])
           m == Gate!Tokens(Gate!Limiter(p))
           b == [tokens |-> m - k, last |-> gNow, lastUsed |-> gNow]
<1>0. /\ GateType /\ n \in Nat /\ gNow \in Nat /\ Burst \in Nat
      /\ \A i \in 1 .. n : gPassed[p][i] \in Nat
      /\ DOMAIN gPassed[p] = 1 .. n
  BY GateAssumption, GateTypeFacts, Zenon DEF GateInv
<1>1. /\ m \in 0 .. Burst
      /\ \A i \in 1 .. n : gPassed[p][i] <= gNow
            /\ n - i + 1 + m <= Burst + Gain(gNow - gPassed[p][i])
  BY TokensFacts, Zenon
<1>2. /\ DOMAIN gBuckets' = DOMAIN gBuckets \cup {p} /\ gBuckets'[p] = b
      /\ \A q \in DOMAIN gBuckets \ {p} : gBuckets'[q] = gBuckets[q]
  BY Zenon DEF Gate!Take, Gate!Put
<1> HIDE DEF m
<1>3. b \in [tokens: 0 .. Burst, last: Nat, lastUsed: Nat]
  BY <1>0, <1>1 DEF m
<1>4. /\ gPassed' \in [Producers -> Seq(Nat)]
      /\ \A q \in Producers \ {p} : gPassed'[q] = gPassed[q]
      /\ gPassed'[p] = IF k = 1 THEN Append(gPassed[p], gNow) ELSE gPassed[p]
  BY <1>0 DEF GateType
<1>5. /\ Len(gPassed'[p]) = n + k
      /\ \A i \in 1 .. n : gPassed'[p][i] = gPassed[p][i]
      /\ k = 1 => gPassed'[p][n + 1] = gNow
      /\ DOMAIN gPassed'[p] = 1 .. (n + k)
  <2>1. gPassed[p] \in Seq(Nat)
    BY <1>0, Zenon DEF GateType
  <2>2. CASE k = 1
    BY <1>0, <1>4, <2>1, <2>2
  <2>3. CASE k = 0
    BY <1>0, <1>4, <2>1, <2>3
  <2> QED
    BY <2>2, <2>3, Zenon
<1> HIDE DEF n
<1>6. ASSUME NEW i \in 1 .. (n + k)
      PROVE  /\ gPassed'[p][i] <= gNow
             /\ (n + k) - i + 1 + (m - k) <= Burst + Gain(gNow - gPassed'[p][i])
  <2>1. CASE i \in 1 .. n
    <3>1. gNow - gPassed[p][i] \in Int
      BY <1>0, <2>1
    <3>2. Gain(gNow - gPassed[p][i]) \in Int
      BY <3>1, GainFacts, Zenon
    <3> QED
      BY <1>0, <1>1, <1>5, <2>1, <3>2
  <2>2. CASE k = 1 /\ i = n + 1
    <3>1. gPassed'[p][i] = gNow /\ gNow - gPassed'[p][i] = 0
      BY <1>0, <1>5, <2>2
    <3> QED
      <4>1. Gain(gNow - gPassed'[p][i]) = 0
        BY <3>1, GainFacts, Zenon
      <4>2. (n + k) - i + 1 + (m - k) = m
        BY <1>0, <1>1, <2>2
      <4> QED
        BY <1>0, <1>1, <3>1, <4>1, <4>2
  <2> QED
    BY <1>0, <2>1, <2>2
<1>7. BucketInv(p)'
  <2>1. /\ p \in DOMAIN gBuckets' /\ gBuckets'[p].last = gNow
        /\ gBuckets'[p].lastUsed = gNow
        /\ gBuckets'[p].tokens = m - k
    BY <1>2 DEF m
  <2>2. ASSUME NEW i \in 1 .. Len(gPassed'[p])
        PROVE  /\ gPassed'[p][i] <= gNow
               /\ Len(gPassed'[p]) - i + 1 + (m - k) <= Burst + Gain(gNow - gPassed'[p][i])
    BY <1>5, <1>6, Zenon
  <2>3. gNow <= gNow
    BY <1>0
  <2> QED
    BY <2>1, <2>2, <2>3, Zenon DEF BucketInv, Gain
<1>8. ASSUME NEW q \in Producers \ {p} PROVE BucketInv(q)'
  <2>1. /\ gNow' = gNow /\ gPassed'[q] = gPassed[q] /\ BucketInv(q)
        /\ q \in DOMAIN gBuckets' <=> q \in DOMAIN gBuckets
        /\ q \in DOMAIN gBuckets => gBuckets'[q] = gBuckets[q]
    BY <1>2, <1>4, Zenon DEF GateInv
  <2> QED
    BY <2>1, Zenon DEF BucketInv, Gain
<1>9. Gate!RateBound'
  <2> SUFFICES ASSUME NEW q \in Producers, NEW i \in DOMAIN gPassed'[q],
      NEW j \in DOMAIN gPassed'[q],
                      i <= j
               PROVE  j - i + 1 <= Burst + Rate * (gPassed'[q][j] - gPassed'[q][i])
    BY Zenon DEF Gate!RateBound
  <2>1. CASE q # p
    BY <1>4, <2>1, Zenon DEF GateInv, Gate!RateBound
  <2>2. CASE q = p /\ j \in 1 .. n
    <3>1. i \in 1 .. n
      BY <1>0, <1>5, <2>2
    <3> QED
      BY <1>0, <1>5, <2>2, <3>1 DEF GateInv, Gate!RateBound, n
  <2>3. CASE q = p /\ j = n + 1 /\ k = 1
    <3> DEFINE x == gPassed'[p][i]
    <3>1. i \in 1 .. (n + k) /\ gPassed'[p][j] = gNow /\ x \in Nat
      BY <1>4, <1>5, <2>3
    <3>2. (n + k) - i + 1 + (m - k) <= Burst + Gain(gNow - x)
      BY <1>6, <3>1, Zenon
    <3>3. \A y \in Nat : gNow - y \in Int
      BY <1>0
    <3>4. gNow - x \in Int
      BY <3>1, <3>3, Zenon
    <3>5. Gain(gNow - x) \in Int
      BY <3>4, GainFacts, Zenon
    <3>6. m - k \in Nat
      BY <1>1, <2>3 DEF m
    <3>7. n + k = j /\ i \in Int /\ j \in Int
      BY <1>0, <1>5, <2>3, <3>1
    <3> HIDE DEF x
    <3>8. j - i + 1 <= Burst + Gain(gNow - x)
      BY <1>0, <3>2, <3>5, <3>6, <3>7
    <3> QED
      BY <2>3, <3>1, <3>8, Zenon DEF Gain, x
  <2>4. ASSUME q = p, k = 1 PROVE j \in 1 .. n \/ j = n + 1
    <3>1. j \in 1 .. (n + 1)
      BY <1>5, <2>4
    <3> QED
      BY <1>0, <3>1
  <2>5. ASSUME q = p, k # 1 PROVE j \in 1 .. n
    <3>1. j \in 1 .. (n + 0)
      BY <1>5, <2>5
    <3> QED
      BY <1>0, <3>1
  <2> QED
    BY <2>1, <2>2, <2>3, <2>4, <2>5, Zenon
<1> QED
  BY <1>0, <1>2, <1>3, <1>4, <1>7, <1>8, <1>9, Zenon DEF GateType

\* Every step preserves the invariant.
LEMMA GateNext == GateInv /\ [Gate!Next]_(Gate!vars) => GateInv'
<1> SUFFICES ASSUME GateInv, [Gate!Next]_(Gate!vars) PROVE GateInv'
  BY Zenon
<1>0. GateType /\ Gate!SlotsReturned /\ Gate!RateBound
      /\ \A p \in Producers : BucketInv(p)
  BY DEF GateInv
<1> DEFINE A == {t \in Handlers : gPc[t] = "appending"}
<1>a. IsFiniteSet(A) /\ gSem = Cardinality(A) /\ gSem \in Nat
  <2>1. IsFiniteSet(A)
    BY GateAssumption, FS_Subset, Zenon
  <2> QED
    BY <1>0, <2>1, FS_CardinalityType, SameCount DEF Gate!SlotsReturned
<1>b. Burst \in Nat /\ IdleAfter \in Nat
  BY GateAssumption, Zenon
<1>1. CASE Gate!Tick
  <2>1. /\ gNow' = gNow + 1 /\ gNow \in Nat /\ gNow' \in Nat
        /\ UNCHANGED <<gBuckets, gSem, gPc, gOf, gPassed>>
    BY <1>0, <1>1 DEF Gate!Tick, GateType
  <2>2. ASSUME NEW p \in Producers PROVE BucketInv(p)'
    <3>1. CASE p \in DOMAIN gBuckets
      <4>1. gBuckets[p].last \in Nat /\ gBuckets[p].last <= gNow
        BY <1>0, <3>1, Zenon DEF BucketInv, GateType
      <4>2. gBuckets[p].last <= gNow'
        BY <2>1, <4>1
      <4> QED
        BY <1>0, <2>1, <3>1, <4>2, Zenon DEF BucketInv, Gain
    <3>2. CASE p \notin DOMAIN gBuckets
      <4>1. ASSUME NEW i \in 1 .. Len(gPassed[p])
            PROVE  /\ gPassed[p][i] <= gNow'
                   /\ Len(gPassed[p]) - i + 1 <= Gain(gNow' - gPassed[p][i])
        <5>1. /\ gPassed[p][i] \in Nat /\ gPassed[p][i] <= gNow
              /\ Len(gPassed[p]) - i + 1 <= Gain(gNow - gPassed[p][i])
              /\ Len(gPassed[p]) \in Nat
          BY <1>0, <3>2, GateTypeFacts, Zenon DEF BucketInv
        <5>2. gNow - gPassed[p][i] \in Int
              /\ gNow' - gPassed[p][i] = (gNow - gPassed[p][i]) + 1
          <6>1. \A x \in Nat : gNow - x \in Int /\ gNow' - x = (gNow - x) + 1
            BY <2>1
          <6> QED
            BY <5>1, <6>1, Zenon
        <5>3. /\ Gain(gNow' - gPassed[p][i]) = Gain(gNow - gPassed[p][i]) + Gain(1)
              /\ Gain(1) \in Nat /\ Gain(gNow - gPassed[p][i]) \in Int
          <6>1. 1 \in Int /\ 1 \in Nat
            OBVIOUS
          <6>2. Gain((gNow - gPassed[p][i]) + 1) = Gain(gNow - gPassed[p][i]) + Gain(1)
            BY <5>2, <6>1, GainFacts, Zenon
          <6> QED
            BY <5>2, <6>1, <6>2, GainFacts, Zenon
        <5> QED
          BY <2>1, <5>1, <5>3
      <4> QED
        BY <2>1, <3>2, <4>1, Zenon DEF BucketInv, Gain
    <3> QED
      BY <3>1, <3>2, Zenon
  <2>3. GateType' /\ Gate!SlotsReturned' /\ Gate!RateBound'
    BY <1>0, <2>1, Zenon DEF GateType, Gate!SlotsReturned, Gate!RateBound
  <2> QED
    BY <2>2, <2>3 DEF GateInv
<1>2. CASE Gate!EvictIdle
  <2> DEFINE D == {q \in DOMAIN gBuckets : ~Gate!Idle(q)}
  <2>1. /\ DOMAIN gBuckets' = D /\ \A q \in D : gBuckets'[q] = gBuckets[q]
        /\ UNCHANGED <<gNow, gSem, gPc, gOf, gPassed>>
    BY <1>2, Zenon DEF Gate!EvictIdle
  <2>2. ASSUME NEW p \in Producers PROVE BucketInv(p)'
    <3>1. CASE p \in D
      BY <1>0, <2>1, <3>1, Zenon DEF BucketInv, Gain
    <3>2. CASE p \notin DOMAIN gBuckets
      BY <1>0, <2>1, <3>2, Zenon DEF BucketInv, Gain
    <3>3. CASE p \in DOMAIN gBuckets /\ Gate!Idle(p)
      <4> DEFINE b == gBuckets[p]
      <4>1. ASSUME NEW i \in 1 .. Len(gPassed[p])
            PROVE  /\ gPassed[p][i] <= gNow
                   /\ Len(gPassed[p]) - i + 1 <= Gain(gNow - gPassed[p][i])
        <5>1. /\ b.last \in Nat /\ b.tokens \in 0 .. Burst /\ gPassed[p][i] \in Nat
              /\ b.last = b.lastUsed /\ b.last <= gNow /\ gPassed[p][i] <= b.last
              /\ Len(gPassed[p]) - i + 1 + b.tokens <= Burst + Gain(b.last - gPassed[p][i])
              /\ Len(gPassed[p]) \in Nat /\ gNow \in Nat
          BY <1>0, <3>3, GateTypeFacts, Zenon DEF BucketInv
        <5>i. b.lastUsed < gNow - IdleAfter
          BY <3>3, Zenon DEF Gate!Idle
        <5> HIDE DEF b
        <5>j. b.last = b.lastUsed /\ b.last \in Nat /\ gNow \in Nat /\ gPassed[p][i] \in Nat
          BY <5>1, Zenon
        <5>2. gNow - b.last \in Nat /\ gNow - b.last > IdleAfter
          BY <1>b, <5>i, <5>j
        <5>3. /\ b.last - gPassed[p][i] \in Int /\ gNow - b.last \in Int
              /\ gNow - gPassed[p][i] = (gNow - b.last) + (b.last - gPassed[p][i])
          BY <5>j
        <5>4. /\ Gain(gNow - gPassed[p][i]) = Gain(gNow - b.last) + Gain(b.last - gPassed[p][i])
              /\ Gain(gNow - b.last) >= Burst
              /\ Gain(gNow - b.last) \in Int /\ Gain(b.last - gPassed[p][i]) \in Int
          BY <5>2, <5>3, GainFacts, Zenon
        <5> QED
          <6>2. gPassed[p][i] <= gNow
            BY <5>1
          <6>3. Len(gPassed[p]) - i + 1 <= Gain(gNow - b.last) + Gain(b.last - gPassed[p][i])
            BY <1>b, <5>1, <5>4
          <6> QED
            BY <5>4, <6>2, <6>3, Zenon
      <4>2. p \notin DOMAIN gBuckets'
        BY <2>1, <3>3, Zenon
      <4> QED
        BY <2>1, <4>1, <4>2, Zenon DEF BucketInv, Gain
    <3> QED
      BY <3>1, <3>2, <3>3
  <2>3. GateType' /\ Gate!SlotsReturned' /\ Gate!RateBound'
    BY <1>0, <2>1, Zenon DEF GateType, Gate!SlotsReturned, Gate!RateBound
  <2> QED
    BY <2>2, <2>3 DEF GateInv
<1>3. ASSUME NEW t \in Handlers, NEW p \in Producers, Gate!AllowProducer(t, p)
      PROVE  GateInv'
  <2>1. /\ gNow' = gNow /\ gSem' = gSem /\ Gate!Tokens(Gate!Limiter(p)) >= 1
        /\ Gate!Take(p, 1)
        /\ gPassed' = [gPassed EXCEPT ![p] = Append(@, gNow)]
        /\ gPc' = [gPc EXCEPT ![t] = "allowed"] /\ gPc[t] = "idle"
    BY <1>3, Zenon DEF Gate!AllowProducer
  <2>2. /\ DOMAIN gBuckets' \subseteq Producers
        /\ \A q \in DOMAIN gBuckets' :
             gBuckets'[q] \in [tokens: 0 .. Burst, last: Nat, lastUsed: Nat]
        /\ gPassed' \in [Producers -> Seq(Nat)]
        /\ \A q \in Producers : BucketInv(q)'
        /\ Gate!RateBound'
    BY <2>1, TakeKeeps, Zenon
  <2>3. /\ gPc' \in [Handlers -> {"idle", "allowed", "appending"}]
        /\ {u \in Handlers : gPc'[u] = "appending"} = A
    BY <1>0, <2>1, Zenon DEF GateType
  <2>4. GateType' /\ Gate!SlotsReturned'
    BY <1>0, <1>a, <2>1, <2>2, <2>3, Zenon DEF GateType, Gate!SlotsReturned
  <2> QED
    BY <2>2, <2>4, Zenon DEF GateInv
<1>4. ASSUME NEW t \in Handlers, NEW p \in Producers, Gate!RateLimited(t, p)
      PROVE  GateInv'
  <2>1. /\ Gate!Tokens(Gate!Limiter(p)) = 0 /\ Gate!Take(p, 0) /\ UNCHANGED <<gNow,
                                                                              gSem, gPc,
                                                                              gOf,
                                                                              gPassed>>
    BY <1>4, Zenon DEF Gate!RateLimited
  <2>2. /\ DOMAIN gBuckets' \subseteq Producers
        /\ \A q \in DOMAIN gBuckets' :
             gBuckets'[q] \in [tokens: 0 .. Burst, last: Nat, lastUsed: Nat]
        /\ gPassed' \in [Producers -> Seq(Nat)]
        /\ \A q \in Producers : BucketInv(q)'
        /\ Gate!RateBound'
    BY <2>1, TakeKeeps
  <2>3. GateType' /\ Gate!SlotsReturned'
    BY <1>0, <2>1, <2>2, Zenon DEF GateType, Gate!SlotsReturned
  <2> QED
    BY <2>2, <2>3, Zenon DEF GateInv
<1>5. ASSUME NEW t \in Handlers, Gate!Acquire(t) \/ Gate!Saturated(t)
             \/ Gate!AppendDone(t)
      PROVE  GateInv'
  <2> DEFINE B == {u \in Handlers : gPc'[u] = "appending"}
  <2>1. UNCHANGED <<gNow, gBuckets, gPassed>>
    BY <1>5, Zenon DEF Gate!Acquire, Gate!Saturated, Gate!AppendDone
  <2>2. (\A q \in Producers : BucketInv(q)') /\ Gate!RateBound'
    BY <1>0, <2>1 DEF BucketInv, Gate!RateBound, Gain
  <2>3. gPc' \in [Handlers -> {"idle", "allowed", "appending"}]
        /\ gSem' = Cardinality(B) /\ gSem' \in Nat
    <3>1. CASE Gate!Acquire(t)
      <4>1. /\ gPc' \in [Handlers -> {"idle", "allowed", "appending"}]
            /\ B = A \cup {t} /\ t \notin A
        BY <1>0, <3>1, Zenon DEF Gate!Acquire, GateType
      <4>2. Cardinality(B) = gSem + 1
        BY <1>a, <4>1, FS_AddElement, Zenon
      <4> QED
        BY <1>a, <3>1, <4>1, <4>2 DEF Gate!Acquire
    <3>2. CASE Gate!Saturated(t)
      <4>1. gPc' \in [Handlers -> {"idle", "allowed", "appending"}] /\ B = A
        BY <1>0, <3>2, Zenon DEF Gate!Saturated, Gate!Return, GateType
      <4> QED
        BY <1>a, <3>2, <4>1, Zenon DEF Gate!Saturated
    <3>3. CASE Gate!AppendDone(t)
      <4>1. /\ gPc' \in [Handlers -> {"idle", "allowed", "appending"}]
            /\ B = A \ {t} /\ t \in A
        BY <1>0, <3>3, Zenon DEF Gate!AppendDone, Gate!Return, GateType
      <4>2. Cardinality(B) = gSem - 1 /\ IsFiniteSet(B)
        BY <1>a, <4>1, FS_RemoveElement
      <4>3. Cardinality(B) \in Nat
        BY <4>2, FS_CardinalityType, Zenon
      <4> QED
        BY <3>3, <4>1, <4>2, <4>3, Zenon DEF Gate!AppendDone
    <3> QED
      BY <1>5, <3>1, <3>2, <3>3, Zenon
  <2>4. GateType' /\ Gate!SlotsReturned'
    BY <1>0, <2>1, <2>3, SameCount, Zenon DEF GateType, Gate!SlotsReturned
  <2> QED
    BY <2>2, <2>4, Zenon DEF GateInv
<1>6. CASE UNCHANGED Gate!vars
  <2>1. GateType' /\ Gate!SlotsReturned' /\ Gate!RateBound'
    BY <1>0, <1>6, Zenon DEF Gate!vars, GateType, Gate!SlotsReturned, Gate!RateBound
  <2>2. \A p \in Producers : BucketInv(p)'
    BY <1>0, <1>6, Zenon DEF Gate!vars, BucketInv, Gain
  <2> QED
    BY <2>1, <2>2, Zenon DEF GateInv
<1> QED
  BY <1>1, <1>2, <1>3, <1>4, <1>5, <1>6, Zenon DEF Gate!Next

\* No producer gets more than its rate, though buckets are evicted, and every
\* slot of the semaphore comes back (pkg/api/ingest.go).
THEOREM GateCorrect == Gate!Spec => []GateHolds
<1>1. GateInv => Gate!RateBound /\ Gate!SlotsReturned
  BY Zenon DEF GateInv
<1> QED
  BY <1>1, GateInit, GateNext, PTL DEF Gate!Spec, GateHolds

=============================================================================
