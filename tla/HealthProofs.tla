----------------------------- MODULE HealthProofs -----------------------------
(***************************************************************************)
(* Proofs about TransactionGate, for any finite set of tasks, any capacity *)
(* and any set of modes, and about Health, which puts a monitor at it, for *)
(* any slots, delays, thresholds and window.                               *)
(***************************************************************************)
EXTENDS Health, SequenceFacts, FiniteSetTheorems, TLAPS
LOCAL INSTANCE SequencesExt

-----------------------------------------------------------------------------
(***************************************************************************)
(* What `_wake_next` leaves behind, when it runs for a task that is not in *)
(* line itself: the deque only loses a prefix, at most one task changes    *)
(* phase, and everybody still pending is still in line.                    *)
(***************************************************************************)
LEMMA WakeNextEffect ==
    ASSUME GateTypeOK, NEW t \in Task,
           lease[t] \in {"holding", "wokenCancelled"},
           WakeNext([lease EXCEPT ![t] = "idle"])
    PROVE  /\ waiters' \in Seq(Task)
           /\ \/ /\ lease' = [lease EXCEPT ![t] = "idle"]
                 /\ waiters' = <<>>
                 /\ InPhase("pending") = {}
              \/ \E i \in 1 .. Len(waiters) :
                   /\ lease[waiters[i]] = "pending"
                   /\ waiters[i] \in Task /\ waiters[i] # t
                   /\ lease' = [lease EXCEPT ![t] = "idle", ![waiters[i]] = "woken"]
                   /\ \A j \in 1 .. Len(waiters) : lease[waiters[j]] = "pending" => i <= j
                   /\ Len(waiters') = Len(waiters) - i
                   /\ \A k \in 1 .. Len(waiters') : waiters'[k] = waiters[k + i]
<1> DEFINE done == [lease EXCEPT ![t] = "idle"]
<1>1. /\ lease \in [Task -> Phase] /\ waiters \in Seq(Task)
      /\ DOMAIN waiters = 1 .. Len(waiters) /\ Len(waiters) \in Nat
      /\ \A i \in 1 .. Len(waiters) : waiters[i] \in Task
  BY LenProperties, ElementOfSeq DEF GateTypeOK
<1>2. \A i \in 1 .. Len(waiters) : waiters[i] # t
  BY <1>1 DEF GateTypeOK
<1>3. Live(done) = {i \in 1 .. Len(waiters) : lease[waiters[i]] = "pending"}
  BY <1>1, <1>2 DEF Live
<1>4. CASE Live(done) = {}
  <2>1. lease' = done /\ waiters' = <<>>
    BY <1>4 DEF WakeNext
  <2>2. \A i \in 1 .. Len(waiters) : lease[waiters[i]] # "pending"
    BY <1>3, <1>4
  <2>3. \A u \in InPhase("pending") : \E i \in 1 .. Len(waiters) : waiters[i] = u
    BY <1>1 DEF GateTypeOK, Queued
  <2>4. InPhase("pending") = {}
    BY <2>2, <2>3 DEF InPhase
  <2> QED
    BY <2>1, <2>4, EmptySeq
<1>5. CASE Live(done) # {}
  <2>1. PICK i \in Live(done) :
           /\ \A j \in Live(done) : i <= j
           /\ waiters' = SubSeq(waiters, i + 1, Len(waiters))
           /\ lease' = [done EXCEPT ![waiters[i]] = "woken"]
    BY <1>5 DEF WakeNext
  <2>2. i \in 1 .. Len(waiters) /\ lease[waiters[i]] = "pending"
    BY <1>3, <2>1
  <2>3. /\ waiters' \in Seq(Task)
        /\ Len(waiters') = Len(waiters) - i
        /\ \A k \in 1 .. Len(waiters') : waiters'[k] = waiters[k + i]
    <3>1. \A j \in (i + 1) .. Len(waiters) : waiters[j] \in Task
      BY <1>1, <2>2
    <3>2. i \in Int /\ i + 1 \in Int /\ Len(waiters) \in Int
      BY <1>1, <2>2
    <3> HIDE DEF done
    <3>3. /\ waiters' \in Seq(Task)
          /\ Len(waiters') = IF i + 1 <= Len(waiters) THEN Len(waiters) - (i + 1) + 1 ELSE 0
          /\ \A k \in 1 .. Len(waiters) - (i + 1) + 1 : waiters'[k] = waiters[(i + 1) + k - 1]
      BY <2>1, <3>1, <3>2, SubSeqProperties
    <3>4. Len(waiters') = Len(waiters) - i
      <4>1. i \in Int /\ Len(waiters) \in Int /\ i <= Len(waiters)
        BY <1>1, <2>2
      <4>2. CASE i + 1 <= Len(waiters)
        BY <3>3, <4>1, <4>2
      <4>3. CASE ~(i + 1 <= Len(waiters))
        <5>1. Len(waiters') = 0
          BY <3>3, <4>3
        <5>2. i = Len(waiters)
          BY <4>1, <4>3
        <5> QED
          BY <4>1, <5>1, <5>2
      <4> QED
        BY <4>2, <4>3
    <3>5. ASSUME NEW k \in 1 .. Len(waiters')
          PROVE  waiters'[k] = waiters[k + i]
      <4>1. k \in 1 .. Len(waiters) - (i + 1) + 1 /\ (i + 1) + k - 1 = k + i
        BY <1>1, <2>2, <3>4
      <4> QED
        BY <3>3, <4>1
    <3> QED
      BY <3>3, <3>4, <3>5
  <2>4. lease' = [lease EXCEPT ![t] = "idle", ![waiters[i]] = "woken"]
    BY <2>1
  <2>5. \A j \in 1 .. Len(waiters) : lease[waiters[j]] = "pending" => i <= j
    BY <1>3, <2>1
  <2> QED
    BY <1>1, <1>2, <2>2, <2>3, <2>4, <2>5
<1> QED
  BY <1>4, <1>5

-----------------------------------------------------------------------------
(***************************************************************************)
(* Type correctness.  GateTypeOK is inductive as it stands: that futures   *)
(* in line are pending or cancelled, and in line once, is what the effect  *)
(* of `_wake_next` needs.                                                  *)
(***************************************************************************)
LEMMA TypeInit == GateInit => GateTypeOK
  BY EmptySeq, LenProperties DEF GateInit, GateTypeOK, Phase, InPhase, Queued

LEMMA TypeWake ==
    ASSUME GateTypeOK, NEW t \in Task,
           lease[t] \in {"holding", "wokenCancelled"},
           WakeNext([lease EXCEPT ![t] = "idle"]), UNCHANGED mode
    PROVE  GateTypeOK'
<1>1. /\ lease \in [Task -> Phase] /\ Len(waiters) \in Nat
      /\ DOMAIN waiters = 1 .. Len(waiters)
      /\ \A i \in 1 .. Len(waiters) : waiters[i] \in Task
      /\ \A i \in 1 .. Len(waiters) : lease[waiters[i]] \in {"pending", "cancelled"}
      /\ \A i, j \in 1 .. Len(waiters) : waiters[i] = waiters[j] => i = j
      /\ \A u \in Task : lease[u] = "pending" =>
           \E i \in 1 .. Len(waiters) : waiters[i] = u
  BY LenProperties, ElementOfSeq DEF GateTypeOK, InPhase, Queued
<1>2. waiters' \in Seq(Task) /\ DOMAIN waiters' = 1 .. Len(waiters') /\ Len(waiters') \in Nat
  BY WakeNextEffect, LenProperties
<1>3. CASE lease' = [lease EXCEPT ![t] = "idle"] /\ waiters' = <<>> /\ InPhase("pending") = {}
  <2>1. lease' \in [Task -> Phase]
    BY <1>1, <1>3 DEF Phase
  <2>2. InPhase("pending")' = {}
    BY <1>1, <1>3 DEF InPhase
  <2>3. DOMAIN waiters' = {}
    BY <1>3, EmptySeq, <1>2
  <2>4. mode = "STRICT" => \A u \in Task : lease'[u] \in {"idle", "refused", "holding"}
    BY <1>1, <1>3 DEF GateTypeOK
  <2> QED
    BY <1>2, <2>1, <2>2, <2>3, <2>4 DEF GateTypeOK
<1>4. ASSUME NEW i \in 1 .. Len(waiters),
             lease[waiters[i]] = "pending", waiters[i] \in Task, waiters[i] # t,
             lease' = [lease EXCEPT ![t] = "idle", ![waiters[i]] = "woken"],
             \A j \in 1 .. Len(waiters) : lease[waiters[j]] = "pending" => i <= j,
             Len(waiters') = Len(waiters) - i,
             \A k \in 1 .. Len(waiters') : waiters'[k] = waiters[k + i]
      PROVE  GateTypeOK'
  <2>1. lease' \in [Task -> Phase]
    BY <1>1, <1>4 DEF Phase
  <2>2. \A k \in 1 .. Len(waiters') : k + i \in 1 .. Len(waiters) /\ k + i # i
    BY <1>1, <1>4
  <2>3. \A k \in 1 .. Len(waiters') : lease'[waiters'[k]] \in {"pending", "cancelled"}
    <3> SUFFICES ASSUME NEW k \in 1 .. Len(waiters')
                 PROVE  lease'[waiters'[k]] \in {"pending", "cancelled"}
      OBVIOUS
    <3>1. waiters'[k] = waiters[k + i] /\ waiters[k + i] \in Task /\ waiters[k + i] # waiters[i]
      BY <1>1, <1>4, <2>2
    <3>2. lease[waiters[k + i]] \in {"pending", "cancelled"} /\ waiters[k + i] # t
      BY <1>1, <2>2
    <3> QED
      BY <1>1, <1>4, <3>1, <3>2
  <2>4. \A j, k \in 1 .. Len(waiters') : waiters'[j] = waiters'[k] => j = k
    <3> SUFFICES ASSUME NEW j \in 1 .. Len(waiters'), NEW k \in 1 .. Len(waiters'),
                        waiters'[j] = waiters'[k]
                 PROVE  j = k
      OBVIOUS
    <3>1. waiters[j + i] = waiters[k + i]
      BY <1>4
    <3>2. j + i = k + i
      BY <1>1, <2>2, <3>1
    <3> QED
      BY <1>1, <1>2, <3>2
  <2>5. ASSUME NEW u \in Task, lease'[u] = "pending"
        PROVE  \E k \in 1 .. Len(waiters') : waiters'[k] = u
    <3>1. lease[u] = "pending" /\ u # waiters[i]
      BY <1>1, <1>4, <2>5
    <3>2. PICK j \in 1 .. Len(waiters) : waiters[j] = u
      BY <1>1, <3>1
    <3>3. i <= j /\ j # i
      BY <1>4, <3>1, <3>2
    <3>4. j - i \in 1 .. Len(waiters') /\ (j - i) + i = j
      BY <1>1, <1>4, <3>3
    <3>5. waiters'[j - i] = waiters[j]
      BY <1>4, <3>4
    <3> QED
      BY <3>2, <3>4, <3>5
  <2>6. mode # "STRICT"
    BY <1>4 DEF GateTypeOK
  <2> QED
    BY <1>2, <2>1, <2>3, <2>4, <2>5, <2>6 DEF GateTypeOK, InPhase, Queued
<1> QED
  BY WakeNextEffect, <1>3, <1>4
LEMMA TypeEnqueue ==
    ASSUME GateTypeOK, NEW t \in Task, Enqueue(t)
    PROVE  GateTypeOK'
<1>1. /\ lease \in [Task -> Phase] /\ waiters \in Seq(Task) /\ Len(waiters) \in Nat
      /\ DOMAIN waiters = 1 .. Len(waiters)
      /\ \A i \in 1 .. Len(waiters) : waiters[i] \in Task
      /\ \A i \in 1 .. Len(waiters) : lease[waiters[i]] \in {"pending", "cancelled"}
      /\ \A i, j \in 1 .. Len(waiters) : waiters[i] = waiters[j] => i = j
      /\ \A u \in Task : lease[u] = "pending" =>
           \E i \in 1 .. Len(waiters) : waiters[i] = u
  BY LenProperties, ElementOfSeq DEF GateTypeOK, InPhase, Queued
<1>2. /\ lease[t] \in {"idle", "refused"} /\ mode = "SERIALIZE" /\ mode' = mode
      /\ lease' = [lease EXCEPT ![t] = "pending"] /\ waiters' = Append(waiters, t)
  BY DEF Enqueue, Outside
<1>3. /\ waiters' \in Seq(Task) /\ Len(waiters') = Len(waiters) + 1
      /\ \A i \in 1 .. Len(waiters) : waiters'[i] = waiters[i]
      /\ waiters'[Len(waiters) + 1] = t
      /\ DOMAIN waiters' = 1 .. Len(waiters')
  BY <1>1, <1>2, AppendProperties, LenProperties
<1>4. \A i \in 1 .. Len(waiters') : i \in 1 .. Len(waiters) \/ i = Len(waiters) + 1
  BY <1>1, <1>3
<1>5. \A i \in 1 .. Len(waiters) : waiters[i] # t
  BY <1>1, <1>2
<1>6. lease' \in [Task -> Phase]
  BY <1>1, <1>2 DEF Phase
<1>7. \A i \in 1 .. Len(waiters') : lease'[waiters'[i]] \in {"pending", "cancelled"}
  BY <1>1, <1>2, <1>3, <1>4, <1>5
<1>8. \A i, j \in 1 .. Len(waiters') : waiters'[i] = waiters'[j] => i = j
  BY <1>1, <1>3, <1>4, <1>5
<1>9. ASSUME NEW u \in Task, lease'[u] = "pending"
      PROVE  \E i \in 1 .. Len(waiters') : waiters'[i] = u
  <2>1. CASE u = t
    <3>1. Len(waiters) + 1 \in 1 .. Len(waiters')
      BY <1>1, <1>3
    <3> QED
      BY <1>3, <2>1, <3>1
  <2>2. CASE u # t
    <3>1. PICK i \in 1 .. Len(waiters) : waiters[i] = u
      BY <1>1, <1>2, <1>9, <2>2
    <3>2. i \in 1 .. Len(waiters')
      BY <1>1, <1>3
    <3> QED
      BY <1>3, <3>1, <3>2
  <2> QED
    BY <2>1, <2>2
<1>10. mode' \in Modes /\ mode' # "STRICT"
  BY <1>2 DEF GateTypeOK
<1> QED
  BY <1>3, <1>6, <1>7, <1>8, <1>9, <1>10 DEF GateTypeOK, InPhase, Queued

LEMMA TypeUnwindInLine ==
    ASSUME GateTypeOK, NEW t \in Task, lease[t] = "cancelled",
           lease' = [lease EXCEPT ![t] = "idle"], UNCHANGED mode,
           NEW n \in DOMAIN waiters, waiters[n] = t, waiters' = RemoveAt(waiters, n)
    PROVE  GateTypeOK'
<1>1. /\ lease \in [Task -> Phase] /\ waiters \in Seq(Task) /\ Len(waiters) \in Nat
      /\ DOMAIN waiters = 1 .. Len(waiters)
      /\ \A i \in 1 .. Len(waiters) : waiters[i] \in Task
      /\ \A i \in 1 .. Len(waiters) : lease[waiters[i]] \in {"pending", "cancelled"}
      /\ \A i, j \in 1 .. Len(waiters) : waiters[i] = waiters[j] => i = j
      /\ \A u \in Task : lease[u] = "pending" =>
           \E i \in 1 .. Len(waiters) : waiters[i] = u
      /\ mode # "STRICT" /\ mode' \in Modes /\ mode' = mode
  BY LenProperties, ElementOfSeq DEF GateTypeOK, InPhase, Queued
<1>2. n \in 1 .. Len(waiters)
  BY <1>1
<1>3. /\ waiters' \in Seq(Task) /\ Len(waiters') = Len(waiters) - 1
      /\ \A j \in 1 .. Len(waiters) - 1 :
           waiters'[j] = IF j < n THEN waiters[j] ELSE waiters[j + 1]
  <2>1. /\ RemoveAt(waiters, n) \in Seq(Task)
        /\ Len(RemoveAt(waiters, n)) = Len(waiters) - 1
        /\ \A j \in 1 .. Len(waiters) - 1 :
             RemoveAt(waiters, n)[j] = IF j < n THEN waiters[j] ELSE waiters[j + 1]
    <3>1. RemoveAt(waiters, n) = AllBut(waiters, n)
      BY DEF RemoveAt, AllBut
    <3>2. waiters \in Seq(Task)
      BY <1>1
    <3> QED
      BY <1>2, <3>1, <3>2, RemoveEffect
  <2>2. waiters' = RemoveAt(waiters, n)
    OBVIOUS
  <2> HIDE DEF RemoveAt
  <2> QED
    BY <2>1, <2>2
<1>4. DOMAIN waiters' = 1 .. Len(waiters')
  BY <1>3, LenProperties
<1> DEFINE Was(j) == IF j < n THEN j ELSE j + 1
<1>5. \A j \in 1 .. Len(waiters') :
        Was(j) \in 1 .. Len(waiters) /\ Was(j) # n /\ waiters'[j] = waiters[Was(j)]
  BY <1>1, <1>2, <1>3
<1>6. \A j, k \in 1 .. Len(waiters') : Was(j) = Was(k) => j = k
  BY <1>1, <1>2, <1>3
<1>7. \A i \in 1 .. Len(waiters) : i # n => \E j \in 1 .. Len(waiters') : Was(j) = i
  <2> SUFFICES ASSUME NEW i \in 1 .. Len(waiters), i # n
               PROVE  \E j \in 1 .. Len(waiters') : Was(j) = i
    OBVIOUS
  <2>1. CASE i < n
    <3>1. i \in 1 .. Len(waiters') /\ Was(i) = i
      BY <1>1, <1>2, <1>3, <2>1
    <3> QED
      BY <3>1
  <2>2. CASE ~(i < n)
    <3>1. i - 1 \in 1 .. Len(waiters') /\ Was(i - 1) = i
      BY <1>1, <1>2, <1>3, <2>2
    <3> QED
      BY <3>1
  <2> QED
    BY <2>1, <2>2
<1> HIDE DEF Was
<1>8. lease' \in [Task -> Phase]
  BY <1>1 DEF Phase
<1>9. \A j \in 1 .. Len(waiters') : lease'[waiters'[j]] \in {"pending", "cancelled"}
  <2> SUFFICES ASSUME NEW j \in 1 .. Len(waiters')
               PROVE  lease'[waiters'[j]] \in {"pending", "cancelled"}
    OBVIOUS
  <2>1. waiters[Was(j)] # t /\ waiters[Was(j)] \in Task
    BY <1>1, <1>2, <1>5
  <2> QED
    BY <1>1, <1>5, <2>1
<1>10. \A j, k \in 1 .. Len(waiters') : waiters'[j] = waiters'[k] => j = k
  BY <1>1, <1>5, <1>6
<1>11. ASSUME NEW u \in Task, lease'[u] = "pending"
       PROVE  \E j \in 1 .. Len(waiters') : waiters'[j] = u
  <2>1. u # t /\ lease[u] = "pending"
    BY <1>1, <1>11
  <2>2. PICK i \in 1 .. Len(waiters) : waiters[i] = u
    BY <1>1, <2>1
  <2>3. i # n
    BY <2>1, <2>2
  <2>4. PICK j \in 1 .. Len(waiters') : Was(j) = i
    BY <1>7, <2>3
  <2> QED
    BY <1>5, <2>2, <2>4
<1>12. InPhase("pending")' \subseteq Queued'
  BY <1>4, <1>11 DEF InPhase, Queued
<1> QED
  BY <1>1, <1>3, <1>4, <1>8, <1>9, <1>10, <1>12 DEF GateTypeOK

LEMMA TypeStep == GateTypeOK /\ [GateNext]_gateVars => GateTypeOK'
<1> SUFFICES ASSUME GateTypeOK, [GateNext]_gateVars PROVE GateTypeOK'
  OBVIOUS
<1>1. CASE UNCHANGED gateVars
  BY <1>1 DEF gateVars, GateTypeOK, InPhase, Queued
<1>2. ASSUME NEW t \in Task, lease[t] \notin {"pending"}, t \notin Queued,
             NEW p \in {"idle", "refused", "holding", "wokenCancelled"},
             lease' = [lease EXCEPT ![t] = p], UNCHANGED <<mode, waiters>>,
             mode = "STRICT" => p # "wokenCancelled"
      PROVE  GateTypeOK'
  BY <1>2, LenProperties, ElementOfSeq DEF GateTypeOK, InPhase, Queued, Phase
<1>3. \A t \in Task : lease[t] \notin {"pending", "cancelled"} => t \notin Queued
  BY DEF GateTypeOK, Queued
<1>4. ASSUME NEW t \in Task, Admit(t) PROVE GateTypeOK'
  BY <1>2, <1>3, <1>4 DEF Admit, Outside
<1>5. ASSUME NEW t \in Task, Refuse(t) PROVE GateTypeOK'
  BY <1>2, <1>3, <1>5 DEF Refuse, Outside
<1>6. ASSUME NEW t \in Task, Resume(t) PROVE GateTypeOK'
  BY <1>2, <1>3, <1>6 DEF Resume
<1>7. ASSUME NEW t \in Task, Release(t) PROVE GateTypeOK'
  BY <1>7, TypeWake DEF Release
<1>8. ASSUME NEW t \in Task, Cancel(t) PROVE GateTypeOK'
  <2>1. CASE lease[t] = "pending"
    <3>1. lease' = [lease EXCEPT ![t] = "cancelled"] /\ UNCHANGED <<mode, waiters>>
      BY <1>8, <2>1 DEF Cancel
    <3>2. mode # "STRICT"
      BY <2>1 DEF GateTypeOK
    <3> QED
      BY <2>1, <3>1, <3>2, LenProperties, ElementOfSeq
      DEF GateTypeOK, InPhase, Queued, Phase
  <2>2. CASE lease[t] = "woken"
    <3>1. lease' = [lease EXCEPT ![t] = "wokenCancelled"] /\ UNCHANGED <<mode, waiters>>
      BY <1>8, <2>2 DEF Cancel
    <3>2. mode # "STRICT"
      BY <2>2 DEF GateTypeOK
    <3> QED
      BY <1>2, <1>3, <2>2, <3>1, <3>2
  <2> QED
    BY <1>8, <2>1, <2>2 DEF Cancel
<1>9. ASSUME NEW t \in Task, Unwind(t) PROVE GateTypeOK'
  <2>1. CASE lease[t] = "wokenCancelled"
    BY <1>9, <2>1, TypeWake DEF Unwind
  <2>2. CASE lease[t] = "cancelled"
    <3>1. CASE t \notin Queued /\ UNCHANGED waiters
      BY <1>2, <1>9, <2>2, <3>1 DEF Unwind
    <3>2. CASE \E i \in DOMAIN waiters : waiters[i] = t /\ waiters' = RemoveAt(waiters, i)
      BY <1>9, <2>2, <3>2, TypeUnwindInLine DEF Unwind
    <3> QED
      BY <1>9, <2>2, <3>1, <3>2 DEF Unwind
  <2> QED
    BY <1>9, <2>1, <2>2 DEF Unwind
<1> QED
  BY <1>1, <1>4, <1>5, <1>6, <1>7, <1>8, <1>9, TypeEnqueue DEF GateNext

\* Type correctness, with the shape of the deque that `_wake_next` relies on.
THEOREM GateTypeCorrect == GateSpec => []GateTypeOK
<1> QED
  BY TypeInit, TypeStep, PTL DEF GateSpec

-----------------------------------------------------------------------------
\* A STRICT gate never holds more than its capacity: only `_acquire` adds a
\* holder, and it does so under `_free`; nobody is ever woken.
LEMMA StrictStep ==
    GateTypeOK /\ StrictKeepsCapacity /\ [GateNext]_gateVars => StrictKeepsCapacity'
<1> SUFFICES ASSUME GateTypeOK, StrictKeepsCapacity, [GateNext]_gateVars, mode' = "STRICT"
             PROVE  Cardinality(Holders') <= Capacity
  BY DEF StrictKeepsCapacity
<1> USE DEF Holders, InPhase
<1>1. mode = "STRICT" /\ mode' = mode
  BY DEF GateNext, gateVars, Admit, Refuse, Enqueue, Resume, Release, Cancel, Unwind
<1>2. /\ Cardinality(Holders) <= Capacity /\ Capacity \in Nat
      /\ lease \in [Task -> Phase]
      /\ \A t \in Task : lease[t] \in {"idle", "refused", "holding"}
  BY <1>1, GateAssumption DEF StrictKeepsCapacity, GateTypeOK
<1>3. /\ IsFiniteSet(Holders) /\ Cardinality(Holders) \in Nat
      /\ \A S \in SUBSET Holders : Cardinality(S) <= Cardinality(Holders)
                                   /\ Cardinality(S) \in Nat
  BY GateAssumption, FS_Subset, FS_CardinalityType
<1>4. ASSUME NEW t \in Task, Admit(t) PROVE Cardinality(Holders') <= Capacity
  <2>1. Holders' = Holders \cup {t} /\ t \notin Holders /\ Cardinality(Holders) < Capacity
    BY <1>2, <1>4 DEF Admit, Outside, Free
  <2>2. Cardinality(Holders') = Cardinality(Holders) + 1
    BY <1>3, <2>1, FS_AddElement
  <2> QED
    BY <1>2, <1>3, <2>1, <2>2
<1>5. CASE Holders' \subseteq Holders
  BY <1>2, <1>3, <1>5
<1>6. ASSUME NEW t \in Task,
             Refuse(t) \/ Enqueue(t) \/ Resume(t) \/ Release(t) \/ Cancel(t) \/ Unwind(t)
      PROVE  Holders' \subseteq Holders
  <2>1. CASE Refuse(t)
    BY <1>2, <2>1 DEF Refuse
  <2>2. CASE Release(t)
    <3>1. Live([lease EXCEPT ![t] = "idle"]) = {}
      <4>1. \A i \in DOMAIN waiters : waiters[i] \in Task
        BY LenProperties, ElementOfSeq DEF GateTypeOK
      <4> QED
        BY <1>2, <4>1 DEF Live
    <3>2. lease' = [lease EXCEPT ![t] = "idle"]
      BY <2>2, <3>1 DEF Release, WakeNext
    <3> QED
      BY <1>2, <3>2
  <2>3. CASE Enqueue(t) \/ Resume(t) \/ Cancel(t) \/ Unwind(t)
    BY <1>1, <1>2, <2>3 DEF Enqueue, Resume, Cancel, Unwind
  <2> QED
    BY <1>6, <2>1, <2>2, <2>3
<1>7. CASE UNCHANGED gateVars
  BY <1>5, <1>7 DEF gateVars
<1> QED
  BY <1>4, <1>5, <1>6, <1>7 DEF GateNext

\* At most `capacity` exchanges in flight on a STRICT gate, whatever the number
\* of tasks and in whatever order they ask, release and are cancelled.
THEOREM StrictCapacity == GateSpec => []StrictKeepsCapacity
<1>1. GateInit => StrictKeepsCapacity
  <2> SUFFICES ASSUME GateInit PROVE Cardinality(Holders) <= Capacity
    BY DEF StrictKeepsCapacity
  <2>1. Holders = {}
    BY DEF GateInit, Holders, InPhase
  <2> QED
    BY <2>1, FS_EmptySet, GateAssumption
<1> QED
  BY <1>1, TypeInit, TypeStep, StrictStep, PTL DEF GateSpec

-----------------------------------------------------------------------------
(***************************************************************************)
(* No task waits for a slot that is idle.  The slots accounted for are the *)
(* held ones and the ones on their way to a woken task; a release and an   *)
(* unwinding task either pass theirs on or leave the line empty.           *)
(***************************************************************************)
Taken == Holders \cup Woken

LEMMA TakenFinite ==
    /\ IsFiniteSet(Taken) /\ Cardinality(Taken) \in Nat
    /\ IsFiniteSet(Holders) /\ Cardinality(Holders) \in Nat
    /\ Cardinality(Holders) <= Cardinality(Taken)
<1>1. Taken \in SUBSET Task /\ Holders \in SUBSET Taken
  BY DEF Taken, Holders, Woken, InPhase
<1>2. IsFiniteSet(Taken)
  BY <1>1, GateAssumption, FS_Subset
<1> QED
  BY <1>1, <1>2, FS_Subset, FS_CardinalityType

LEMMA TakenAfterWake ==
    ASSUME GateTypeOK, NEW t \in Task,
           lease[t] \in {"holding", "wokenCancelled"},
           WakeNext([lease EXCEPT ![t] = "idle"]), waiters' # <<>>
    PROVE  Cardinality(Taken') = Cardinality(Taken)
<1>1. PICK i \in 1 .. Len(waiters) :
         /\ lease[waiters[i]] = "pending"
         /\ waiters[i] \in Task /\ waiters[i] # t
         /\ lease' = [lease EXCEPT ![t] = "idle", ![waiters[i]] = "woken"]
  BY WakeNextEffect
<1> DEFINE w == waiters[i]
<1>2. /\ lease \in [Task -> Phase] /\ t \in Taken /\ w \notin Taken /\ w # t
      /\ Taken' = (Taken \ {t}) \cup {w}
  BY <1>1 DEF GateTypeOK, Taken, Holders, Woken, InPhase
<1> HIDE DEF w
<1>3. /\ Cardinality(Taken \ {t}) = Cardinality(Taken) - 1
      /\ IsFiniteSet(Taken \ {t}) /\ w \notin Taken \ {t}
  BY <1>2, TakenFinite, FS_RemoveElement
<1>4. Cardinality((Taken \ {t}) \cup {w}) = Cardinality(Taken \ {t}) + 1
  BY <1>3, FS_AddElement
<1> QED
  BY <1>2, <1>3, <1>4, TakenFinite

LEMMA NoIdleStep ==
    GateTypeOK /\ NoIdleCapacity /\ [GateNext]_gateVars => NoIdleCapacity'
<1> SUFFICES ASSUME GateTypeOK, NoIdleCapacity, [GateNext]_gateVars, waiters' # <<>>
             PROVE  Cardinality(Taken') >= Capacity
  BY DEF NoIdleCapacity, Taken
<1>1. waiters # <<>> => Cardinality(Taken) >= Capacity
  BY DEF NoIdleCapacity, Taken
<1>2. lease \in [Task -> Phase] /\ Capacity \in Nat
  BY GateAssumption DEF GateTypeOK
<1>3. CASE Taken' = Taken /\ waiters # <<>>
  BY <1>1, <1>3
<1>4. ASSUME NEW t \in Task, Admit(t) \/ Refuse(t) PROVE Cardinality(Taken') >= Capacity
  <2>1. CASE Admit(t)
    BY <2>1 DEF Admit, Free
  <2>2. CASE Refuse(t)
    <3>1. Taken' = Taken /\ waiters # <<>>
      BY <1>2, <2>2 DEF Refuse, Outside, Taken, Holders, Woken, InPhase
    <3> QED
      BY <1>3, <3>1
  <2> QED
    BY <1>4, <2>1, <2>2
<1>5. ASSUME NEW t \in Task, Enqueue(t) PROVE Cardinality(Taken') >= Capacity
  <2>1. Taken' = Taken
    BY <1>2, <1>5 DEF Enqueue, Outside, Taken, Holders, Woken, InPhase
  <2>2. ~(Cardinality(Holders) < Capacity) \/ waiters # <<>>
    BY <1>5 DEF Enqueue, Free
  <2> QED
    BY <1>1, <1>2, <2>1, <2>2, TakenFinite
<1>6. ASSUME NEW t \in Task, Resume(t) PROVE Cardinality(Taken') >= Capacity
  <2>1. Taken' = Taken /\ waiters # <<>>
    BY <1>2, <1>6 DEF Resume, Taken, Holders, Woken, InPhase
  <2> QED
    BY <1>3, <2>1
<1>7. ASSUME NEW t \in Task, Cancel(t) PROVE Cardinality(Taken') >= Capacity
  <2>1. Taken' = Taken /\ waiters # <<>>
    BY <1>2, <1>7 DEF Cancel, Taken, Holders, Woken, InPhase
  <2> QED
    BY <1>3, <2>1
<1>8. ASSUME NEW t \in Task, lease[t] \in {"holding", "wokenCancelled"},
             WakeNext([lease EXCEPT ![t] = "idle"])
      PROVE  Cardinality(Taken') >= Capacity
  <2>1. waiters # <<>>
    <3>1. CASE waiters = <<>>
      <4>1. Live([lease EXCEPT ![t] = "idle"]) = {}
        BY <3>1, EmptySeq, LenProperties DEF Live, GateTypeOK
      <4> QED
        BY <1>8, <4>1 DEF WakeNext
    <3> QED
      BY <3>1
  <2> QED
    BY <1>1, <1>8, <2>1, TakenAfterWake
<1>9. ASSUME NEW t \in Task, Unwind(t) PROVE Cardinality(Taken') >= Capacity
  <2>1. CASE lease[t] = "wokenCancelled"
    BY <1>8, <1>9, <2>1 DEF Unwind
  <2>2. CASE lease[t] = "cancelled"
    <3>1. Taken' = Taken
      BY <1>2, <1>9, <2>2 DEF Unwind, Taken, Holders, Woken, InPhase
    <3>2. waiters # <<>>
      BY <1>9, <2>2, EmptySeq, LenProperties DEF Unwind, GateTypeOK
    <3> QED
      BY <1>3, <3>1, <3>2
  <2> QED
    BY <1>9, <2>1, <2>2 DEF Unwind
<1>10. ASSUME NEW t \in Task, Release(t) PROVE Cardinality(Taken') >= Capacity
  BY <1>8, <1>10 DEF Release
<1>11. CASE UNCHANGED gateVars
  <2>1. Taken' = Taken /\ waiters # <<>>
    BY <1>11 DEF gateVars, Taken, Holders, Woken, InPhase
  <2> QED
    BY <1>3, <2>1
<1> QED
  BY <1>4, <1>5, <1>6, <1>7, <1>9, <1>10, <1>11 DEF GateNext

\* While anybody is in line every slot is held or on its way to a woken task:
\* no cancellation, at any moment, leaks the slot it was about to be given.
THEOREM NoStrandedWaiter == GateSpec => []NoIdleCapacity
<1>1. GateInit => NoIdleCapacity
  BY DEF GateInit, NoIdleCapacity
<1> QED
  BY <1>1, TypeInit, TypeStep, NoIdleStep, PTL DEF GateSpec

-----------------------------------------------------------------------------
\* The line is served in order: the slot goes to the first future in line that
\* is still pending, so nobody pending is passed over.
THEOREM ServedInOrder == GateSpec => WakesInOrder
<1> DEFINE InOrder ==
      \A i, j \in DOMAIN waiters :
          i < j /\ lease[waiters[i]] = "pending" /\ lease[waiters[j]] = "pending"
          => lease'[waiters[j]] # "woken"
<1>1. GateTypeOK /\ [GateNext]_gateVars => [InOrder]_gateVars
  <2> SUFFICES ASSUME GateTypeOK, GateNext,
                      NEW i \in DOMAIN waiters, NEW j \in DOMAIN waiters, i < j,
                      lease[waiters[i]] = "pending", lease[waiters[j]] = "pending"
               PROVE  lease'[waiters[j]] # "woken"
    OBVIOUS
  <2>1. /\ lease \in [Task -> Phase] /\ waiters \in Seq(Task)
        /\ DOMAIN waiters = 1 .. Len(waiters)
        /\ waiters[j] \in Task /\ i \in Nat /\ j \in Nat
        /\ \A k \in DOMAIN waiters : waiters[k] = waiters[j] => k = j
    BY LenProperties, ElementOfSeq DEF GateTypeOK
  <2>2. PICK t \in Task : \/ Admit(t) \/ Refuse(t) \/ Enqueue(t) \/ Resume(t)
                          \/ Release(t) \/ Cancel(t) \/ Unwind(t)
    BY DEF GateNext
  <2>3. ASSUME lease[t] \in {"holding", "wokenCancelled"},
               WakeNext([lease EXCEPT ![t] = "idle"])
        PROVE  lease'[waiters[j]] # "woken"
    <3>1. CASE lease' = [lease EXCEPT ![t] = "idle"]
      BY <2>1, <3>1
    <3>2. ASSUME NEW k \in 1 .. Len(waiters), lease[waiters[k]] = "pending",
                 lease' = [lease EXCEPT ![t] = "idle", ![waiters[k]] = "woken"],
                 \A m \in 1 .. Len(waiters) : lease[waiters[m]] = "pending" => k <= m
          PROVE  lease'[waiters[j]] # "woken"
      <4>1. k # j
        BY <2>1, <3>2
      <4>2. waiters[k] # waiters[j]
        BY <2>1, <4>1
      <4> QED
        BY <2>1, <3>2, <4>2
    <3> QED
      BY <2>3, <3>1, <3>2, WakeNextEffect
  <2>4. CASE Release(t)
    BY <2>3, <2>4 DEF Release
  <2>5. CASE Unwind(t)
    BY <2>1, <2>3, <2>5 DEF Unwind
  <2>6. CASE Admit(t) \/ Refuse(t) \/ Enqueue(t) \/ Resume(t) \/ Cancel(t)
    BY <2>1, <2>6 DEF Admit, Refuse, Enqueue, Resume, Cancel
  <2> QED
    BY <2>2, <2>4, <2>5, <2>6
<1> QED
  BY <1>1, TypeInit, TypeStep, PTL DEF GateSpec, WakesInOrder

-----------------------------------------------------------------------------
(***************************************************************************)
(* What surrounds the gate does to it what the gate allows, so that its    *)
(* theorems hold here.                                                     *)
(***************************************************************************)
HealthTypeOK ==
    /\ GateTypeOK
    /\ present \subseteq Task
    /\ lease[Monitor] \in {"idle", "holding"}

\* The steps that are not those of one task leave the gate alone, or ask it for a probe.
LEMMA ProbeIsAdmitted ==
    ASSUME HealthTypeOK, Probe
    PROVE  Admit(Monitor)
<1>1. Holders = {} /\ waiters = <<>> /\ Ask(Monitor)
  BY DEF Probe, StandsDown
<1>2. Free
  BY <1>1, FS_EmptySet, GateAssumption DEF Free
<1> QED
  BY <1>1, <1>2 DEF Ask, Refuse, Enqueue

LEMMA GateSteps ==
    ASSUME HealthTypeOK, HealthNext
    PROVE  \/ UNCHANGED gateVars
           \/ \E t \in Callers : \/ Admit(t) \/ Refuse(t) \/ Enqueue(t)
                                 \/ Resume(t) \/ Release(t) \/ Cancel(t) \/ Unwind(t)
           \/ Admit(Monitor) \/ Release(Monitor)
<1>1. CASE \E t \in Callers : Call(t) \/ GoOn(t) \/ GiveUp(t) \/ End(t)
  BY <1>1 DEF Call, Ask, GoOn, GiveUp, End
<1>2. CASE Opened \/ Closed \/ Tick \/ Stop
  BY <1>2 DEF Opened, Closed, Tick, Stop
<1>3. CASE Look
  BY <1>3, ProbeIsAdmitted DEF Look, SleepAgain, Skip
<1>4. CASE ProbeEnds
  BY <1>4 DEF ProbeEnds
<1> QED
  BY <1>1, <1>2, <1>3, <1>4 DEF HealthNext

LEMMA MonitorsLease ==
    ASSUME HealthTypeOK, NEW t \in Task,
           \/ t # Monitor /\ (Admit(t) \/ Refuse(t) \/ Enqueue(t) \/ Resume(t) \/ Cancel(t) \/ Unwind(t))
           \/ t = Monitor /\ Admit(t)
           \/ Release(t)
    PROVE  lease'[Monitor] \in {"idle", "holding"}
<1>1. GateTypeOK /\ lease \in [Task -> Phase] /\ Monitor \in Task /\ lease[Monitor] \in {"idle", "holding"}
  BY HealthAssumption DEF HealthTypeOK, GateTypeOK
<1>2. CASE Admit(t)
  BY <1>1, <1>2 DEF Admit
<1>3. CASE t # Monitor /\ (Refuse(t) \/ Enqueue(t) \/ Resume(t) \/ Cancel(t))
  BY <1>1, <1>3 DEF Refuse, Enqueue, Resume, Cancel
<1>4. CASE t # Monitor /\ lease[t] = "cancelled" /\ Unwind(t)
  BY <1>1, <1>4 DEF Unwind
<1>5. CASE /\ lease[t] \in {"holding", "wokenCancelled"}
           /\ WakeNext([lease EXCEPT ![t] = "idle"])
  <2>1. CASE lease' = [lease EXCEPT ![t] = "idle"]
    BY <1>1, <2>1
  <2>2. CASE \E i \in 1 .. Len(waiters) :
               /\ lease[waiters[i]] = "pending" /\ waiters[i] \in Task
               /\ lease' = [lease EXCEPT ![t] = "idle", ![waiters[i]] = "woken"]
    BY <1>1, <2>2
  <2> QED
    BY <1>1, <1>5, <2>1, <2>2, WakeNextEffect
<1> QED
  BY <1>2, <1>3, <1>4, <1>5 DEF Release, Unwind

LEMMA TypedStep == HealthTypeOK /\ [HealthNext]_healthVars => HealthTypeOK' /\ [GateNext]_gateVars
<1> SUFFICES ASSUME HealthTypeOK, [HealthNext]_healthVars
             PROVE  HealthTypeOK' /\ [GateNext]_gateVars
  OBVIOUS
<1>1. present' = present
  BY DEF HealthNext, healthVars, linkVars, Call, GoOn, GiveUp, End, Opened, Closed, Tick, Look,
         SleepAgain, Skip, Probe, ProbeEnds, Stop
<1>2. Monitor \in Task /\ Callers \subseteq Task /\ Monitor \notin Callers
  BY HealthAssumption DEF HealthTypeOK, Callers
<1>3. [GateNext]_gateVars /\ lease'[Monitor] \in {"idle", "holding"}
  <2>1. CASE UNCHANGED gateVars
    BY <2>1 DEF gateVars, HealthTypeOK
  <2>2. CASE \E t \in Callers : \/ Admit(t) \/ Refuse(t) \/ Enqueue(t)
                                \/ Resume(t) \/ Release(t) \/ Cancel(t) \/ Unwind(t)
    BY <1>2, <2>2, MonitorsLease DEF GateNext
  <2>3. CASE Admit(Monitor) \/ Release(Monitor)
    BY <1>2, <2>3, MonitorsLease DEF GateNext
  <2> QED
    BY <2>1, <2>2, <2>3, GateSteps DEF healthVars
<1>4. GateTypeOK'
  BY <1>3, TypeStep DEF HealthTypeOK
<1> QED
  BY <1>1, <1>3, <1>4 DEF HealthTypeOK

LEMMA TypedInit == HealthInit => HealthTypeOK
<1> SUFFICES ASSUME HealthInit PROVE HealthTypeOK
  OBVIOUS
<1>1. GateTypeOK
  BY TypeInit DEF HealthInit
<1>2. lease[Monitor] = "idle" /\ present \subseteq Task
  BY HealthAssumption DEF HealthInit, GateInit
<1> QED
  BY <1>1, <1>2 DEF HealthTypeOK

\* A probe never stands in the line of the gate: looking and asking are one step, and a
\* gate nobody holds and nobody waits at is free.
THEOREM ProbesNeverWait == HealthSpec => []ProbeNeverWaits
<1>1. HealthTypeOK /\ [HealthNext]_healthVars => HealthTypeOK'
  BY TypedStep
<1>2. HealthTypeOK => ProbeNeverWaits
  BY DEF HealthTypeOK, ProbeNeverWaits
<1> QED
  BY TypedInit, <1>1, <1>2, PTL DEF HealthSpec

\* With a monitor and a connection around it the gate is still the gate: no lost wake-up.
THEOREM NoStrandedCaller == HealthSpec => []NoIdleCapacity
<1> DEFINE Kept == HealthTypeOK /\ NoIdleCapacity
<1>1. HealthInit => Kept
  BY TypedInit DEF HealthInit, GateInit, NoIdleCapacity
<1>2. Kept /\ [HealthNext]_healthVars => Kept'
  BY TypedStep, NoIdleStep DEF HealthTypeOK
<1> QED
  BY <1>1, <1>2, PTL DEF HealthSpec

-----------------------------------------------------------------------------
(***************************************************************************)
(* Time.  What is left of a delay and what has passed of it make it up.    *)
(***************************************************************************)
ClocksOK ==
    /\ idleLeft \in Nat /\ attemptLeft \in Nat
    /\ silence \in 0 .. IdleProbeAfter /\ quiet \in 0 .. ProbeInterval
    /\ silence + idleLeft >= IdleProbeAfter
    /\ quiet + attemptLeft >= ProbeInterval

Delays == IdleProbeAfter \in Nat \ {0} /\ ProbeInterval \in Nat \ {0}

LEMMA ClocksStep ==
    ASSUME ClocksOK, OnlyIntoSilence, [HealthNext]_healthVars
    PROVE  ClocksOK' /\ OnlyIntoSilence'
<1>0. Delays
  BY HealthAssumption DEF Delays
<1> USE <1>0 DEF Delays, ClocksOK, OnlyIntoSilence
<1>1. CASE UNCHANGED <<idleLeft, attemptLeft, silence, quiet, tried>>
  BY <1>1
<1>2. CASE Tick
  BY <1>2 DEF Tick, Before, Lesser
<1>3. ASSUME NEW t \in Callers, End(t)
      PROVE  ClocksOK' /\ OnlyIntoSilence'
  <2>1. UNCHANGED <<attemptLeft, quiet, tried>>
    BY <1>3 DEF End
  <2>2. UNCHANGED <<idleLeft, silence>> \/ (idleLeft' = IdleProbeAfter /\ silence' = 0)
    BY <1>3 DEF End, Observe
  <2> QED
    BY <2>1, <2>2
<1>4. CASE Look
  <2>1. CASE ~NotYet /\ (Skip \/ Probe)
    <3>1. idleLeft = 0 /\ attemptLeft = 0
      BY <2>1 DEF NotYet, DueIn, Greater
    <3>2. silence = IdleProbeAfter /\ quiet = ProbeInterval
      BY <3>1
    <3>3. /\ attemptLeft' = ProbeInterval /\ quiet' = 0
          /\ tried' = [silence |-> silence, quiet |-> quiet]
          /\ UNCHANGED <<idleLeft, silence>>
      BY <2>1 DEF Skip, Probe, Tried
    <3>4. OnlyIntoSilence'
      BY <3>2, <3>3
    <3> QED
      BY <3>1, <3>3, <3>4
  <2>2. CASE UNCHANGED <<idleLeft, attemptLeft, silence, quiet, tried>>
    BY <2>2
  <2> QED
    BY <1>4, <2>1, <2>2 DEF Look, SleepAgain, clockVars
<1>5. CASE UNCHANGED healthVars \/ Opened \/ Closed \/ ProbeEnds \/ Stop
  BY <1>1, <1>5 DEF healthVars, clockVars, Opened, Closed, ProbeEnds, Stop
<1>6. ASSUME NEW t \in Callers, Call(t) \/ GoOn(t) \/ GiveUp(t)
      PROVE  UNCHANGED <<idleLeft, attemptLeft, silence, quiet, tried>>
  BY <1>6 DEF Call, GoOn, GiveUp, clockVars
<1> QED
  BY <1>1, <1>2, <1>3, <1>4, <1>5, <1>6 DEF HealthNext

\* Every attempt of run(), one that stands down included, is made with both delays behind
\* it, whatever happens in its sleep: `tried` is set by each of them.
THEOREM ProbesOnlyIntoSilence == HealthSpec => []OnlyIntoSilence
<1>1. HealthInit => ClocksOK /\ OnlyIntoSilence
  BY HealthAssumption DEF HealthInit, ClocksOK, OnlyIntoSilence
<1>2. ClocksOK /\ OnlyIntoSilence /\ [HealthNext]_healthVars => ClocksOK' /\ OnlyIntoSilence'
  BY ClocksStep
<1> QED
  BY <1>1, <1>2, PTL DEF HealthSpec

-----------------------------------------------------------------------------
(***************************************************************************)
(* The verdict.  The streaks are what the window ends in.                  *)
(***************************************************************************)
Thresholds ==
    /\ HealthyAfter \in Nat \ {0} /\ UnhealthyAfter \in Nat \ {0}
    /\ WindowCapacity \in Nat \ {0}

Roomy == WindowCapacity >= HealthyAfter /\ WindowCapacity >= UnhealthyAfter

\* A push drops the oldest when the window is full, and shifts nothing else.
LEMMA PushedShape ==
    ASSUME NEW w \in Seq(BOOLEAN), NEW b \in BOOLEAN, Thresholds, Len(w) <= WindowCapacity
    PROVE  /\ Pushed(w, b) \in Seq(BOOLEAN)
           /\ Len(Pushed(w, b)) = IF Len(w) < WindowCapacity THEN Len(w) + 1 ELSE Len(w)
           /\ Len(Pushed(w, b)) \in 1 .. WindowCapacity
           /\ Pushed(w, b)[Len(Pushed(w, b))] = b
           /\ \A i \in 1 .. Len(Pushed(w, b)) - 1 :
                Pushed(w, b)[i] = w[i + (Len(w) + 1 - Len(Pushed(w, b)))]
<1>1. Len(w) \in Nat
  BY LenProperties
<1>2. CASE Len(w) < WindowCapacity
  <2>1. Pushed(w, b) = Append(w, b)
    BY <1>2 DEF Pushed
  <2>2. /\ Append(w, b) \in Seq(BOOLEAN) /\ Len(Append(w, b)) = Len(w) + 1
        /\ \A i \in 1 .. Len(w) : Append(w, b)[i] = w[i]
        /\ Append(w, b)[Len(w) + 1] = b
    BY AppendProperties
  <2> QED
    BY <1>1, <1>2, <2>1, <2>2 DEF Thresholds
<1>3. CASE ~(Len(w) < WindowCapacity)
  <2>1. Len(w) = WindowCapacity /\ Len(w) >= 1 /\ w # <<>>
    BY <1>1, <1>3, EmptySeq DEF Thresholds
  <2>2. Pushed(w, b) = Append(Tail(w), b)
    BY <1>3 DEF Pushed
  <2>3. /\ Tail(w) \in Seq(BOOLEAN) /\ Len(Tail(w)) = Len(w) - 1
        /\ \A i \in 1 .. Len(Tail(w)) : Tail(w)[i] = w[i + 1]
    BY <2>1, HeadTailProperties
  <2>4. /\ Append(Tail(w), b) \in Seq(BOOLEAN) /\ Len(Append(Tail(w), b)) = Len(Tail(w)) + 1
        /\ \A i \in 1 .. Len(Tail(w)) : Append(Tail(w), b)[i] = Tail(w)[i]
        /\ Append(Tail(w), b)[Len(Tail(w)) + 1] = b
    BY <2>3, AppendProperties
  <2> QED
    BY <1>1, <1>3, <2>1, <2>2, <2>3, <2>4 DEF Thresholds
<1> QED
  BY <1>2, <1>3

LEMMA PushedFits ==
    ASSUME NEW w \in Seq(BOOLEAN), NEW b \in BOOLEAN, Thresholds, Len(w) <= WindowCapacity
    PROVE  Pushed(w, b) \in Seq(BOOLEAN) /\ Len(Pushed(w, b)) <= WindowCapacity
<1>1. Pushed(w, b) \in Seq(BOOLEAN) /\ Len(Pushed(w, b)) \in 1 .. WindowCapacity
  BY PushedShape
<1> QED
  BY <1>1 DEF Thresholds

\* Where the last n places of the old window are in the new one.
LEMMA ShiftFacts ==
    ASSUME NEW cap \in Nat, NEW lw \in 0 .. cap, NEW n \in 1 .. cap, NEW lp \in 1 .. cap,
           lp = IF lw < cap THEN lw + 1 ELSE lw
    PROVE  /\ lp >= n <=> lw >= n - 1
           /\ \A j \in lw - (n - 1) + 1 .. lw : lp >= n =>
                /\ j - (lw + 1 - lp) \in lp - n + 1 .. lp
                /\ j - (lw + 1 - lp) \in 1 .. lp - 1
                /\ (j - (lw + 1 - lp)) + (lw + 1 - lp) = j
           /\ \A i \in lp - n + 1 .. lp : lp >= n /\ i # lp =>
                /\ i \in 1 .. lp - 1
                /\ i + (lw + 1 - lp) \in lw - (n - 1) + 1 .. lw
OBVIOUS

LEMMA PushedStreak ==
    ASSUME NEW w \in Seq(BOOLEAN), NEW b \in BOOLEAN, NEW ok \in BOOLEAN,
           Thresholds, Len(w) <= WindowCapacity, NEW n \in 1 .. WindowCapacity
    PROVE  Streak(Pushed(w, b), ok, n) <=> (b = ok /\ (n = 1 \/ Streak(w, ok, n - 1)))
<1> DEFINE p == Pushed(w, b)
           lw == Len(w)
           lp == Len(p)
           shift == lw + 1 - lp
<1>1. /\ WindowCapacity \in Nat /\ lw \in 0 .. WindowCapacity /\ lp \in 1 .. WindowCapacity
      /\ lp = IF lw < WindowCapacity THEN lw + 1 ELSE lw
  BY PushedShape, LenProperties DEF Thresholds
<1>2. /\ p[lp] = b
      /\ \A i \in 1 .. lp - 1 : p[i] = w[i + shift]
  BY PushedShape
<1>3. /\ lp >= n <=> lw >= n - 1
      /\ \A j \in lw - (n - 1) + 1 .. lw : lp >= n =>
           j - shift \in lp - n + 1 .. lp /\ j - shift \in 1 .. lp - 1 /\ (j - shift) + shift = j
      /\ \A i \in lp - n + 1 .. lp : lp >= n /\ i # lp =>
           i \in 1 .. lp - 1 /\ i + shift \in lw - (n - 1) + 1 .. lw
  <2> HIDE DEF lw, lp
  <2> QED
    BY <1>1, ShiftFacts DEF shift
<1>4. lp \in lp - n + 1 .. lp
  BY <1>1
<1>5. /\ Streak(p, ok, n) <=> lp >= n /\ \A i \in lp - n + 1 .. lp : p[i] = ok
      /\ Streak(w, ok, n - 1) <=> lw >= n - 1 /\ \A j \in lw - (n - 1) + 1 .. lw : w[j] = ok
  BY DEF Streak
<1>6. n = 1 => lw >= n - 1 /\ lw - (n - 1) + 1 .. lw = {}
  BY <1>1
<1> HIDE DEF p, lw, lp, shift
<1>7. ASSUME Streak(p, ok, n)
      PROVE  b = ok /\ (n = 1 \/ Streak(w, ok, n - 1))
  <2>1. lp >= n /\ \A i \in lp - n + 1 .. lp : p[i] = ok
    BY <1>5, <1>7
  <2>2. b = ok
    BY <1>2, <1>4, <2>1
  <2>3. ASSUME NEW j \in lw - (n - 1) + 1 .. lw
        PROVE  w[j] = ok
    <3>1. j - shift \in lp - n + 1 .. lp /\ j - shift \in 1 .. lp - 1 /\ (j - shift) + shift = j
      BY <1>3, <2>1
    <3>2. p[j - shift] = w[(j - shift) + shift] /\ p[j - shift] = ok
      BY <1>2, <2>1, <3>1
    <3> QED
      BY <3>1, <3>2
  <2> QED
    BY <1>3, <1>5, <2>1, <2>2, <2>3
<1>8. ASSUME b = ok, n = 1 \/ Streak(w, ok, n - 1)
      PROVE  Streak(p, ok, n)
  <2>1. lw >= n - 1 /\ \A j \in lw - (n - 1) + 1 .. lw : w[j] = ok
    BY <1>5, <1>6, <1>8
  <2>2. ASSUME NEW i \in lp - n + 1 .. lp
        PROVE  p[i] = ok
    <3>1. CASE i = lp
      BY <1>2, <1>8, <3>1
    <3>2. CASE i # lp
      <4>1. i \in 1 .. lp - 1 /\ i + shift \in lw - (n - 1) + 1 .. lw
        BY <1>3, <2>1, <3>2
      <4> QED
        BY <1>2, <2>1, <4>1
    <3> QED
      BY <3>1, <3>2
  <2> QED
    BY <1>3, <1>5, <2>1, <2>2
<1> QED
  BY <1>7, <1>8 DEF p

\* Which of the two streaks grows by a push, and to what.
LEMMA CountedStreak ==
    ASSUME NEW w \in Seq(BOOLEAN), NEW ok \in BOOLEAN, Thresholds, Len(w) <= WindowCapacity,
           NEW k \in Nat, NEW m \in 0 .. k,
           \A n \in 1 .. WindowCapacity : n <= k => (Streak(w, ok, n) <=> m >= n),
           NEW n \in 1 .. WindowCapacity, n <= k
    PROVE  /\ Streak(Pushed(w, ok), ok, n) <=> m + 1 >= n
           /\ m + 1 >= n <=> Lesser(m + 1, k) >= n
<1>1. Streak(Pushed(w, ok), ok, n) <=> (n = 1 \/ Streak(w, ok, n - 1))
  BY PushedStreak
<1>2. CASE n = 1
  BY <1>1, <1>2 DEF Lesser
<1>3. CASE n # 1
  <2>1. n - 1 \in 1 .. WindowCapacity /\ n - 1 <= k
    BY <1>3 DEF Thresholds
  <2>2. Streak(w, ok, n - 1) <=> m >= n - 1
    BY <2>1
  <2>3. /\ m >= n - 1 <=> m + 1 >= n
        /\ m + 1 >= n <=> Lesser(m + 1, k) >= n
    BY DEF Thresholds, Lesser
  <2> QED
    BY <1>1, <1>3, <2>2, <2>3
<1> QED
  BY <1>2, <1>3

LEMMA OtherStreak ==
    ASSUME NEW w \in Seq(BOOLEAN), NEW ok \in BOOLEAN, NEW b \in BOOLEAN, b # ok,
           Thresholds, Len(w) <= WindowCapacity, NEW n \in 1 .. WindowCapacity
    PROVE  ~Streak(Pushed(w, b), ok, n) /\ ~(0 >= n)
<1>1. ~Streak(Pushed(w, b), ok, n)
  BY PushedStreak
<1>2. ~(0 >= n)
  BY DEF Thresholds
<1> QED
  BY <1>1, <1>2

\* v's streaks are those of its window, as far as they are counted, and one that was long
\* enough has been acted on.
Fits(v) ==
    /\ v \in [window : Seq(BOOLEAN), failures : 0 .. UnhealthyAfter,
              successes : 0 .. HealthyAfter, healthy : BOOLEAN]
    /\ Len(v.window) <= WindowCapacity
    /\ \A n \in 1 .. WindowCapacity : n <= HealthyAfter =>
         (Streak(v.window, TRUE, n) <=> v.successes >= n)
    /\ \A n \in 1 .. WindowCapacity : n <= UnhealthyAfter =>
         (Streak(v.window, FALSE, n) <=> v.failures >= n)
    /\ Roomy /\ Streak(v.window, TRUE, HealthyAfter) => v.healthy
    /\ Roomy /\ Streak(v.window, FALSE, UnhealthyAfter) => ~v.healthy

\* The verdict w after v, told from its window.
Earned(v, w) ==
    w.healthy <=> \/ Streak(w.window, TRUE, HealthyAfter)
                  \/ v.healthy /\ ~Streak(w.window, FALSE, UnhealthyAfter)

LEMMA SuccessFits ==
    ASSUME NEW v, Fits(v), Thresholds
    PROVE  Fits(RecordSuccess(v)) /\ (Roomy => Earned(v, RecordSuccess(v)))
<1> DEFINE r == RecordSuccess(v)
           w == Pushed(v.window, TRUE)
           m == v.successes
<1>1. /\ v.window \in Seq(BOOLEAN) /\ Len(v.window) <= WindowCapacity /\ v.healthy \in BOOLEAN
      /\ m \in 0 .. HealthyAfter
      /\ HealthyAfter \in Nat /\ UnhealthyAfter \in Nat /\ WindowCapacity \in Nat
      /\ TRUE \in BOOLEAN /\ FALSE \in BOOLEAN
  BY DEF Fits, Thresholds
<1>2. /\ r.window = w /\ r.failures = 0
      /\ r.successes = Lesser(m + 1, HealthyAfter)
      /\ r.healthy = (v.healthy \/ m + 1 >= HealthyAfter)
  BY DEF RecordSuccess
<1>3. w \in Seq(BOOLEAN) /\ Len(w) <= WindowCapacity
  BY <1>1, PushedFits
<1>4. r \in [window : Seq(BOOLEAN), failures : 0 .. UnhealthyAfter,
             successes : 0 .. HealthyAfter, healthy : BOOLEAN]
  <2>1. (v.healthy \/ m + 1 >= HealthyAfter) \in BOOLEAN
    BY <1>1
  <2>2. Lesser(m + 1, HealthyAfter) \in 0 .. HealthyAfter /\ 0 \in 0 .. UnhealthyAfter
    BY <1>1 DEF Lesser
  <2> QED
    BY <1>3, <2>1, <2>2 DEF RecordSuccess
<1>5. \A n \in 1 .. WindowCapacity : n <= HealthyAfter =>
        /\ Streak(w, TRUE, n) <=> m + 1 >= n
        /\ m + 1 >= n <=> Lesser(m + 1, HealthyAfter) >= n
  <2>1. \A n \in 1 .. WindowCapacity : n <= HealthyAfter => (Streak(v.window, TRUE, n) <=> m >= n)
    BY DEF Fits
  <2> HIDE DEF m
  <2> QED
    BY <1>1, <2>1, CountedStreak
<1>6. \A n \in 1 .. WindowCapacity : ~Streak(w, FALSE, n) /\ ~(0 >= n)
  BY <1>1, OtherStreak
<1>7. Roomy => HealthyAfter \in 1 .. WindowCapacity /\ UnhealthyAfter \in 1 .. WindowCapacity
               /\ HealthyAfter <= HealthyAfter
  BY DEF Roomy, Thresholds
<1> HIDE DEF r, w, m
<1>8. Roomy => (/\ Streak(w, TRUE, HealthyAfter) <=> m + 1 >= HealthyAfter
                /\ ~Streak(w, FALSE, UnhealthyAfter))
  BY <1>5, <1>6, <1>7
<1>9. Fits(r)
  BY <1>2, <1>3, <1>4, <1>5, <1>6, <1>8 DEF Fits
<1>10. Roomy => Earned(v, r)
  BY <1>1, <1>2, <1>8 DEF Earned
<1> QED
  BY <1>9, <1>10 DEF r

LEMMA FailureFits ==
    ASSUME NEW v, Fits(v), Thresholds
    PROVE  Fits(RecordFailure(v)) /\ (Roomy => Earned(v, RecordFailure(v)))
<1> DEFINE r == RecordFailure(v)
           w == Pushed(v.window, FALSE)
           m == v.failures
<1>1. /\ v.window \in Seq(BOOLEAN) /\ Len(v.window) <= WindowCapacity /\ v.healthy \in BOOLEAN
      /\ m \in 0 .. UnhealthyAfter
      /\ HealthyAfter \in Nat /\ UnhealthyAfter \in Nat /\ WindowCapacity \in Nat
      /\ TRUE \in BOOLEAN /\ FALSE \in BOOLEAN
  BY DEF Fits, Thresholds
<1>2. /\ r.window = w /\ r.successes = 0
      /\ r.failures = Lesser(m + 1, UnhealthyAfter)
      /\ r.healthy = (v.healthy /\ m + 1 < UnhealthyAfter)
      /\ m + 1 < UnhealthyAfter <=> ~(m + 1 >= UnhealthyAfter)
  BY <1>1 DEF RecordFailure
<1>3. w \in Seq(BOOLEAN) /\ Len(w) <= WindowCapacity
  BY <1>1, PushedFits
<1>4. r \in [window : Seq(BOOLEAN), failures : 0 .. UnhealthyAfter,
             successes : 0 .. HealthyAfter, healthy : BOOLEAN]
  <2>1. (v.healthy /\ m + 1 < UnhealthyAfter) \in BOOLEAN
    BY <1>1
  <2>2. Lesser(m + 1, UnhealthyAfter) \in 0 .. UnhealthyAfter /\ 0 \in 0 .. HealthyAfter
    BY <1>1 DEF Lesser
  <2> QED
    BY <1>3, <2>1, <2>2 DEF RecordFailure
<1>5. \A n \in 1 .. WindowCapacity : n <= UnhealthyAfter =>
        /\ Streak(w, FALSE, n) <=> m + 1 >= n
        /\ m + 1 >= n <=> Lesser(m + 1, UnhealthyAfter) >= n
  <2>1. \A n \in 1 .. WindowCapacity : n <= UnhealthyAfter => (Streak(v.window, FALSE, n) <=> m >= n)
    BY DEF Fits
  <2> HIDE DEF m
  <2> QED
    BY <1>1, <2>1, CountedStreak
<1>6. \A n \in 1 .. WindowCapacity : ~Streak(w, TRUE, n) /\ ~(0 >= n)
  BY <1>1, OtherStreak
<1>7. Roomy => HealthyAfter \in 1 .. WindowCapacity /\ UnhealthyAfter \in 1 .. WindowCapacity
               /\ UnhealthyAfter <= UnhealthyAfter
  BY DEF Roomy, Thresholds
<1> HIDE DEF r, w, m
<1>8. Roomy => (/\ Streak(w, FALSE, UnhealthyAfter) <=> m + 1 >= UnhealthyAfter
                /\ ~Streak(w, TRUE, HealthyAfter))
  BY <1>5, <1>6, <1>7
<1>9. Fits(r)
  BY <1>2, <1>3, <1>4, <1>5, <1>6, <1>8 DEF Fits
<1>10. Roomy => Earned(v, r)
  BY <1>1, <1>2, <1>8 DEF Earned
<1> QED
  BY <1>9, <1>10 DEF r

\* An exchange is recorded once, by whoever made it, and nothing else touches the verdict.
LEMMA Recorded ==
    ASSUME HealthNext
    PROVE  verdict' \in {verdict, RecordSuccess(verdict), RecordFailure(verdict)}
<1>1. ASSUME NEW outcome, Observe(outcome) \/ UNCHANGED <<verdict, idleLeft, silence>>
      PROVE  verdict' \in {verdict, RecordSuccess(verdict), RecordFailure(verdict)}
  BY <1>1 DEF Observe
<1>2. ASSUME NEW t \in Callers, End(t)
      PROVE  verdict' \in {verdict, RecordSuccess(verdict), RecordFailure(verdict)}
  BY <1>1, <1>2 DEF End
<1>3. ASSUME NEW t \in Callers, Call(t) \/ GoOn(t) \/ GiveUp(t)
      PROVE  verdict' = verdict
  BY <1>3 DEF Call, GoOn, GiveUp
<1>4. ASSUME Opened \/ Closed \/ Tick \/ Stop
      PROVE  verdict' = verdict
  BY <1>4 DEF Opened, Closed, Tick, Stop
<1>5. ASSUME Look
      PROVE  verdict' = verdict
  BY <1>5 DEF Look, SleepAgain, Skip, Probe
<1>6. ASSUME ProbeEnds
      PROVE  verdict' \in {verdict, RecordSuccess(verdict), RecordFailure(verdict)}
  BY <1>6 DEF ProbeEnds
<1> QED
  BY <1>2, <1>3, <1>4, <1>5, <1>6 DEF HealthNext

\* Who lets go of the gate holds nothing any more.
LEMMA LetGo ==
    ASSUME GateTypeOK, NEW t \in Task,
           lease[t] \in {"holding", "wokenCancelled"},
           WakeNext([lease EXCEPT ![t] = "idle"])
    PROVE  lease'[t] = "idle"
<1>1. lease \in [Task -> Phase]
  BY DEF GateTypeOK
<1>2. CASE lease' = [lease EXCEPT ![t] = "idle"]
  BY <1>1, <1>2
<1>3. ASSUME NEW i \in 1 .. Len(waiters), lease[waiters[i]] = "pending", waiters[i] \in Task,
             lease' = [lease EXCEPT ![t] = "idle", ![waiters[i]] = "woken"]
      PROVE  lease'[t] = "idle"
  BY <1>1, <1>3
<1> QED
  BY <1>2, <1>3, WakeNextEffect

\* Whoever made it had its socket to itself until the end.
LEMMA RecordedAtTheEnd ==
    ASSUME HealthTypeOK, HealthNext, verdict' # verdict
    PROVE  \E t \in Holders \ cut : t \notin Holders'
<1>1. ASSUME NEW t \in Task, Release(t), t \notin cut
      PROVE  \E u \in Holders \ cut : u \notin Holders'
  <2>1. lease[t] = "holding" /\ lease'[t] = "idle"
    BY <1>1, LetGo DEF HealthTypeOK, Release
  <2>2. t \in Holders /\ t \notin Holders'
    BY <1>1, <2>1 DEF Holders, InPhase
  <2> QED
    BY <1>1, <2>2
<1>2. Monitor \in Task /\ Callers \subseteq Task
  BY HealthAssumption DEF HealthTypeOK, Callers
<1>3. ASSUME NEW t \in Callers, End(t)
      PROVE  t \notin cut
  <2>1. PICK outcome \in Outcomes(t) : Observe(outcome) \/ UNCHANGED <<verdict, idleLeft, silence>>
    BY <1>3 DEF End
  <2>2. outcome \in {"answered", "refused", "lost", "silent"}
    BY <2>1 DEF Observe
  <2> QED
    BY <2>1, <2>2 DEF Outcomes
<1>4. ASSUME NEW t \in Callers, Call(t) \/ GoOn(t) \/ GiveUp(t)
      PROVE  verdict' = verdict
  BY <1>4 DEF Call, GoOn, GiveUp
<1>5. ASSUME Opened \/ Closed \/ Tick \/ Stop \/ Look
      PROVE  verdict' = verdict
  BY <1>5 DEF Opened, Closed, Tick, Stop, Look, SleepAgain, Skip, Probe
<1>6. ASSUME ProbeEnds
      PROVE  Monitor \notin cut
  <2>1. PICK outcome \in Outcomes(Monitor) :
          verdict' = CASE outcome = "answered" -> RecordSuccess(verdict)
                       [] outcome \in {"abandoned", "cancelled"} -> verdict
                       [] OTHER -> RecordFailure(verdict)
    BY <1>6 DEF ProbeEnds
  <2>2. outcome \notin {"abandoned", "cancelled"}
    BY <2>1
  <2> QED
    BY <2>1, <2>2 DEF Outcomes
<1>7. CASE \E t \in Callers : End(t)
  BY <1>1, <1>2, <1>3, <1>7 DEF End
<1>8. CASE ProbeEnds
  BY <1>1, <1>2, <1>6, <1>8 DEF ProbeEnds
<1> QED
  BY <1>4, <1>5, <1>7, <1>8 DEF HealthNext

\* What a step may do to the window and to the verdict.
Deserved ==
    /\ verdict'.window \in {verdict.window, Pushed(verdict.window, TRUE), Pushed(verdict.window, FALSE)}
    /\ WindowCapacity >= Greater(HealthyAfter, UnhealthyAfter) => Earned(verdict, verdict')

LEMMA VerdictStep ==
    ASSUME Thresholds, Fits(verdict),
           verdict' \in {verdict, RecordSuccess(verdict), RecordFailure(verdict)}
    PROVE  Fits(verdict') /\ Deserved
<1>1. WindowCapacity >= Greater(HealthyAfter, UnhealthyAfter) => Roomy
  BY DEF Thresholds, Greater, Roomy
<1>2. CASE verdict' = verdict
  <2>1. Roomy => Earned(verdict, verdict)
    BY DEF Fits, Earned
  <2> QED
    BY <1>1, <1>2, <2>1 DEF Deserved
<1>3. CASE verdict' = RecordSuccess(verdict)
  <2>1. verdict'.window = Pushed(verdict.window, TRUE)
    BY <1>3 DEF RecordSuccess
  <2> QED
    BY <1>1, <1>3, <2>1, SuccessFits DEF Deserved
<1>4. CASE verdict' = RecordFailure(verdict)
  <2>1. verdict'.window = Pushed(verdict.window, FALSE)
    BY <1>4 DEF RecordFailure
  <2> QED
    BY <1>1, <1>4, <2>1, FailureFits DEF Deserved
<1> QED
  BY <1>2, <1>3, <1>4

LEMMA VerdictInit ==
    ASSUME Thresholds, verdict = NewVerdict
    PROVE  Fits(verdict)
<1>1. <<>> \in Seq(BOOLEAN) /\ Len(<<>>) = 0
  BY EmptySeq
<1>2. \A n \in 1 .. WindowCapacity : ~Streak(<<>>, TRUE, n) /\ ~Streak(<<>>, FALSE, n) /\ ~(0 >= n)
  BY <1>1 DEF Streak, Thresholds
<1>3. /\ verdict.window = <<>> /\ verdict.failures = 0 /\ verdict.successes = 0
      /\ verdict.healthy = FALSE
      /\ verdict \in [window : Seq(BOOLEAN), failures : 0 .. UnhealthyAfter,
                      successes : 0 .. HealthyAfter, healthy : BOOLEAN]
  BY <1>1 DEF NewVerdict, Thresholds
<1>4. Roomy => HealthyAfter \in 1 .. WindowCapacity
  BY DEF Roomy, Thresholds
<1>5. Len(verdict.window) <= WindowCapacity
  BY <1>1, <1>3 DEF Thresholds
<1>6. /\ \A n \in 1 .. WindowCapacity : Streak(verdict.window, TRUE, n) <=> verdict.successes >= n
      /\ \A n \in 1 .. WindowCapacity : Streak(verdict.window, FALSE, n) <=> verdict.failures >= n
  BY <1>2, <1>3
<1>7. /\ Roomy /\ Streak(verdict.window, TRUE, HealthyAfter) => verdict.healthy
      /\ Roomy /\ Streak(verdict.window, FALSE, UnhealthyAfter) => ~verdict.healthy
  BY <1>2, <1>3, <1>4
<1> QED
  BY <1>3, <1>5, <1>6, <1>7 DEF Fits

\* The verdict is what the last streak in the window that was long enough made it, and an
\* exchange is recorded once, at its end, and not if it was abandoned, for all thresholds
\* and windows and any number of callers.
THEOREM VerdictsAreEarned == HealthSpec => VerdictIsEarned
<1>1. Thresholds
  BY HealthAssumption DEF Thresholds
<1>2. HealthInit => Fits(verdict) /\ HealthTypeOK
  BY <1>1, VerdictInit, TypedInit DEF HealthInit
<1>3. Fits(verdict) /\ HealthTypeOK /\ [HealthNext]_healthVars
        => Fits(verdict)' /\ HealthTypeOK' /\ Deserved
  <2>1. Fits(verdict) /\ HealthNext
          => verdict' \in {verdict, RecordSuccess(verdict), RecordFailure(verdict)}
    BY Recorded
  <2>2. UNCHANGED healthVars
          => verdict' \in {verdict, RecordSuccess(verdict), RecordFailure(verdict)}
    BY DEF healthVars
  <2>3. Fits(verdict)' <=> Fits(verdict')
    BY DEF Fits
  <2> QED
    BY <1>1, <2>1, <2>2, <2>3, VerdictStep, TypedStep
<1>4. HealthTypeOK /\ [HealthNext]_healthVars
        => (verdict' # verdict => \E t \in Holders \ cut : t \notin Holders')
  <2>1. UNCHANGED healthVars => verdict' = verdict
    BY DEF healthVars
  <2> QED
    BY <2>1, RecordedAtTheEnd
<1>5. Deserved /\ (verdict' # verdict => \E t \in Holders \ cut : t \notin Holders') =>
        [/\ verdict'.window \in {verdict.window, Pushed(verdict.window, TRUE), Pushed(verdict.window, FALSE)}
         /\ verdict' # verdict => \E t \in Holders \ cut : t \notin Holders'
         /\ WindowCapacity >= Greater(HealthyAfter, UnhealthyAfter) =>
              (verdict'.healthy <=> \/ Streak(verdict'.window, TRUE, HealthyAfter)
                                    \/ verdict.healthy /\ ~Streak(verdict'.window, FALSE, UnhealthyAfter))]_healthVars
  BY DEF Deserved, Earned
<1> QED
  BY <1>2, <1>3, <1>4, <1>5, PTL DEF HealthSpec, VerdictIsEarned
=============================================================================
