---------------------------- MODULE QueueProofs ----------------------------
(* Proofs about Queue, for every set of threads and every set of pointers. *)
EXTENDS Queue, FiniteSetTheorems, SequenceTheorems, TLAPS

(* First layer: types, the mutex, the pointers offered, the size field, the list
against the history and the shutdown flag. *)
BaseInv ==
    /\ TypeOK
    /\ LockInv
    /\ SizeInv
    /\ OfferInv
    /\ ShutInv
    /\ ListHoldsExactlyTheQueued

LEMMA HeadIsFirst ==
    ASSUME NEW S, NEW s \in Seq(S), s # <<>>
    PROVE  /\ DOMAIN s = 1 .. Len(s)
           /\ Len(s) \in Nat \ {0}
           /\ Head(s) = s[1]
           /\ \E i \in DOMAIN s : s[i] = Head(s)
<1>1. DOMAIN s = 1 .. Len(s) /\ Len(s) \in Nat
  BY LenProperties
<1>2. Len(s) # 0
  BY EmptySeq
<1>3. Head(s) = s[1]
  OBVIOUS
<1> QED
  BY <1>1, <1>2, <1>3

(* Removing the head of a list without repetition removes one element. *)
LEMMA TailOfDistinct ==
    ASSUME NEW S, NEW s \in Seq(S), s # <<>>,
           \A i, j \in DOMAIN s : s[i] = s[j] => i = j
    PROVE  /\ \A x : (\E i \in DOMAIN Tail(s) : Tail(s)[i] = x)
                        <=> (\E i \in DOMAIN s : s[i] = x) /\ x # Head(s)
           /\ \A i, j \in DOMAIN Tail(s) : Tail(s)[i] = Tail(s)[j] => i = j
<1>1. /\ DOMAIN s = 1 .. Len(s)
      /\ Len(s) \in Nat \ {0}
      /\ Head(s) = s[1]
  BY HeadIsFirst
<1>2. /\ Tail(s) \in Seq(S)
      /\ Len(Tail(s)) = Len(s) - 1
      /\ \A i \in 1 .. Len(Tail(s)) : Tail(s)[i] = s[i + 1]
  BY HeadTailProperties
<1>3. DOMAIN Tail(s) = 1 .. Len(s) - 1
  BY <1>2, LenProperties
<1>4. ASSUME NEW i \in DOMAIN Tail(s)
      PROVE  i + 1 \in DOMAIN s /\ s[i + 1] = Tail(s)[i] /\ s[i + 1] # Head(s)
  BY <1>1, <1>2, <1>3
<1>5. ASSUME NEW j \in DOMAIN s, s[j] # Head(s)
      PROVE  j - 1 \in DOMAIN Tail(s) /\ Tail(s)[j - 1] = s[j]
  BY <1>1, <1>2, <1>3, <1>5
<1>6. ASSUME NEW i \in DOMAIN Tail(s), NEW j \in DOMAIN Tail(s),
             Tail(s)[i] = Tail(s)[j]
      PROVE  i = j
  BY <1>1, <1>2, <1>3, <1>6
<1> QED
  BY <1>4, <1>5, <1>6

(* Popping hands the oldest queued pointer to its consumer and no other. *)
LEMMA PopKeepsList ==
    ASSUME TypeOK, ListHoldsExactlyTheQueued, items # <<>>, ThreadsAssumption,
           NEW c \in Consumers, PopUnlink(c)
    PROVE  ListHoldsExactlyTheQueued'
<1>1. items \in Seq(Data) /\ Head(items) \in Data
  BY HeadTailProperties DEF TypeOK
<1>2. /\ \A x : (\E i \in DOMAIN Tail(items) : Tail(items)[i] = x)
                   <=> (\E i \in DOMAIN items : items[i] = x) /\ x # Head(items)
      /\ \A i, j \in DOMAIN Tail(items) : Tail(items)[i] = Tail(items)[j] => i = j
  BY <1>1, TailOfDistinct DEF ListHoldsExactlyTheQueued
<1>3. outcome' = [outcome EXCEPT ![Head(items)] = c] /\ items' = Tail(items)
  BY DEF PopUnlink
<1>4. c # "queued"
  BY DEF ThreadsAssumption
<1>5. \A d \in Data : outcome'[d] = "queued"
                        <=> outcome[d] = "queued" /\ d # Head(items)
  BY <1>1, <1>3, <1>4 DEF TypeOK
<1> QED
  BY <1>2, <1>3, <1>5 DEF ListHoldsExactlyTheQueued

(* Linking the pointer of an undecided push keeps the list free of repetition. *)
LEMMA LinkKeepsList ==
    ASSUME TypeOK, ListHoldsExactlyTheQueued, OfferInv, ThreadsAssumption,
           NEW p \in Producers, PushLink(p)
    PROVE  ListHoldsExactlyTheQueued'
<1> DEFINE d == data[p]
<1>1. d \in Data /\ outcome[d] = "offered"
  BY DEF PushLink, OfferInv
<1>2. items' = Append(items, d) /\ outcome' = [outcome EXCEPT ![d] = "queued"]
  BY DEF PushLink
<1>3. items \in Seq(Data) /\ Len(items) \in Nat /\ DOMAIN items = 1 .. Len(items)
  BY LenProperties DEF TypeOK
<1> HIDE DEF d
<1>4. /\ DOMAIN items' = 1 .. Len(items) + 1
      /\ \A i \in 1 .. Len(items) : items'[i] = items[i]
      /\ items'[Len(items) + 1] = d
  BY <1>1, <1>2, <1>3, AppendProperties, LenProperties
<1>5. \A i \in DOMAIN items : items[i] # d
  BY <1>1 DEF ListHoldsExactlyTheQueued
<1>6. \A e \in Data : outcome'[e] = "queued" <=> outcome[e] = "queued" \/ e = d
  BY <1>1, <1>2 DEF TypeOK
<1>7. \A e \in Data : (\E i \in DOMAIN items' : items'[i] = e)
                         <=> (\E i \in DOMAIN items : items[i] = e) \/ e = d
  BY <1>3, <1>4
<1>8. \A i, j \in DOMAIN items' : items'[i] = items'[j] => i = j
  BY <1>3, <1>4, <1>5 DEF ListHoldsExactlyTheQueued
<1> QED
  BY <1>6, <1>7, <1>8 DEF ListHoldsExactlyTheQueued

(* A pop touches no pointer that a push in progress still holds. *)
LEMMA PopKeepsOffers ==
    ASSUME TypeOK, ListHoldsExactlyTheQueued, OfferInv, items # <<>>,
           ThreadsAssumption, NEW c \in Consumers, PopUnlink(c)
    PROVE  OfferInv'
<1>1. items \in Seq(Data) /\ Head(items) \in Data
  BY HeadTailProperties DEF TypeOK
<1>2. outcome[Head(items)] = "queued"
  BY <1>1, HeadIsFirst DEF ListHoldsExactlyTheQueued
<1>3. \A p \in Producers : pc'[p] = pc[p] /\ data'[p] = data[p]
  BY DEF PopUnlink, TypeOK, ThreadsAssumption, Threads
<1>4. \A d \in Data : outcome[d] = "offered" => outcome'[d] = "offered"
  BY <1>1, <1>2 DEF PopUnlink, TypeOK
<1> QED
  BY <1>3, <1>4 DEF OfferInv

LEMMA BaseInit == Init => BaseInv
<1> SUFFICES ASSUME Init PROVE BaseInv
  OBVIOUS
<1> USE ThreadsAssumption DEF Init, Threads, PushLocked, PopLocked, ShutLocked
<1>1. TypeOK
  <2>1. items \in Seq(Data)
    BY EmptySeq
  <2>4. size \in Int
    OBVIOUS
  <2>5. is_shutdown \in BOOLEAN
    OBVIOUS
  <2>2. pc \in [Threads -> ProducerPC \cup ConsumerPC \cup CloserPC]
    BY DEF ProducerPC, ConsumerPC, CloserPC
  <2>3. outcome \in [Data -> {"unsent", "offered", "queued", "refused"}
                               \cup Consumers]
    OBVIOUS
  <2> QED
    BY <2>1, <2>2, <2>3, <2>4, <2>5 DEF TypeOK, ProducerPC, ConsumerPC, CloserPC
<1>2. LockInv /\ SizeInv /\ OfferInv /\ ShutInv
  BY DEF LockInv, SizeInv, OfferInv, ShutInv
<1>3. ListHoldsExactlyTheQueued
  BY DEF ListHoldsExactlyTheQueued
<1> QED
  BY <1>1, <1>2, <1>3 DEF BaseInv

LEMMA BaseNext == BaseInv /\ [Next]_vars => BaseInv'
<1> SUFFICES ASSUME BaseInv, [Next]_vars PROVE BaseInv'
  OBVIOUS
<1> USE ThreadsAssumption DEF BaseInv, TypeOK, LockInv, SizeInv, OfferInv,
     ShutInv, ListHoldsExactlyTheQueued, Threads, PushLocked, PopLocked, ShutLocked, ProducerPC, ConsumerPC,
     CloserPC, queueVars
<1>1. ASSUME NEW p \in Producers, NEW d \in Data, PushAlloc(p, d)
      PROVE  BaseInv'
  BY <1>1 DEF PushAlloc
<1>2. ASSUME NEW p \in Producers, PushLock(p) PROVE BaseInv'
  BY <1>2 DEF PushLock, Acquire
<1>3. ASSUME NEW p \in Producers, PushRefuse(p) PROVE BaseInv'
  BY <1>3 DEF PushRefuse
<1>4. ASSUME NEW p \in Producers, PushLink(p) PROVE BaseInv'
  <2>1. data[p] \in Data /\ lock = p /\ lock # NoThread
    BY <1>4 DEF PushLink
  <2>2. Append(items, data[p]) \in Seq(Data)
        /\ Len(Append(items, data[p])) = Len(items) + 1
    BY <2>1, AppendProperties
  <2>3. TypeOK'
    BY <1>4, <2>1, <2>2 DEF PushLink
  <2>4. LockInv' /\ ShutInv'
    BY <1>4, <2>1 DEF PushLink
  <2>5. SizeInv'
    BY <1>4, <2>1, <2>2, LenProperties DEF PushLink
  <2>6. OfferInv'
    BY <1>4, <2>1 DEF PushLink
  <2>7. ListHoldsExactlyTheQueued'
    BY <1>4, LinkKeepsList
  <2> QED
    BY <2>3, <2>4, <2>5, <2>6, <2>7
<1>5. ASSUME NEW p \in Producers, PushCount(p) PROVE BaseInv'
  BY <1>5 DEF PushCount
<1>6. ASSUME NEW p \in Producers, PushSignal(p) PROVE BaseInv'
  BY <1>6 DEF PushSignal, Waiters
<1>7. ASSUME NEW p \in Producers, PushUnlock(p) PROVE BaseInv'
  BY <1>7 DEF PushUnlock
<1>8. ASSUME NEW c \in Consumers, PopLock(c) PROVE BaseInv'
  BY <1>8 DEF PopLock, Acquire
<1>9. ASSUME NEW c \in Consumers, PopWait(c) PROVE BaseInv'
  BY <1>9 DEF PopWait
<1>10. ASSUME NEW c \in Consumers, SpuriousWakeup(c) PROVE BaseInv'
  BY <1>10 DEF SpuriousWakeup
<1>11. ASSUME NEW c \in Consumers, PopRelock(c) PROVE BaseInv'
  BY <1>11 DEF PopRelock, Acquire
<1>12. ASSUME NEW c \in Consumers, PopNull(c) PROVE BaseInv'
  BY <1>12 DEF PopNull
<1>13. ASSUME NEW c \in Consumers, PopUnlink(c) PROVE BaseInv'
  <2>1. lock = c /\ lock # NoThread
    BY <1>13 DEF PopUnlink
  <2>2. size = Len(items)
    BY <1>13, <2>1 DEF PopUnlink
  <2>3. items # <<>>
    BY <1>13, <2>2 DEF PopUnlink
  <2>4. /\ Head(items) \in Data
        /\ Tail(items) \in Seq(Data)
        /\ Len(Tail(items)) = Len(items) - 1
    BY <2>3, HeadTailProperties
  <2>5. TypeOK'
    BY <1>13, <2>4 DEF PopUnlink
  <2>6. SizeInv' /\ LockInv' /\ ShutInv'
    BY <1>13, <2>1, <2>2, <2>4 DEF PopUnlink
  <2>7. OfferInv'
    BY <1>13, <2>3, PopKeepsOffers
  <2>8. ListHoldsExactlyTheQueued'
    BY <1>13, <2>3, PopKeepsList
  <2> QED
    BY <2>5, <2>6, <2>7, <2>8
<1>14. ASSUME NEW c \in Consumers, PopReturn(c) PROVE BaseInv'
  BY <1>14 DEF PopReturn
<1>15. ASSUME ShutLock PROVE BaseInv'
  BY <1>15 DEF ShutLock, Acquire
<1>16. ASSUME ShutFlag PROVE BaseInv'
  BY <1>16 DEF ShutFlag
<1>17. ASSUME ShutBroadcast PROVE BaseInv'
  BY <1>17 DEF ShutBroadcast, Waiters
<1>18. ASSUME ShutUnlock PROVE BaseInv'
  BY <1>18 DEF ShutUnlock
<1>19. CASE UNCHANGED vars
  BY <1>19 DEF vars
<1> QED
  BY <1>1, <1>2, <1>3, <1>4, <1>5, <1>6, <1>7, <1>8, <1>9, <1>10, <1>11, <1>12,
     <1>13, <1>14, <1>15, <1>16, <1>17, <1>18, <1>19
     DEF Next, ProducerStep, ConsumerStep, CloserStep, Finished

-----------------------------------------------------------------------------
(* Second layer: nobody sleeps through a push or through the shutdown. *)

LEMMA ClosedNext ==
    ASSUME ThreadsAssumption, BaseInv, ClosedLeavesNoSleeper, [Next]_vars
    PROVE  ClosedLeavesNoSleeper'
<1> USE DEF BaseInv, TypeOK, LockInv, ShutInv, ClosedLeavesNoSleeper, Waiters,
      Threads, PushLocked, PopLocked, ShutLocked, ProducerPC, ConsumerPC,
      CloserPC, queueVars, ThreadsAssumption
<1>1. ASSUME NEW p \in Producers, NEW d \in Data, PushAlloc(p, d)
      PROVE  ClosedLeavesNoSleeper'
  BY <1>1 DEF PushAlloc
<1>2. ASSUME NEW p \in Producers, ProducerStep(p) PROVE ClosedLeavesNoSleeper'
  BY <1>2 DEF ProducerStep, PushLock, PushRefuse, PushLink, PushCount,
       PushSignal, PushUnlock, Acquire
<1>3. ASSUME NEW c \in Consumers, ConsumerStep(c) PROVE ClosedLeavesNoSleeper'
  <2>1. CASE PopWait(c)
    BY <2>1 DEF PopWait
  <2>2. CASE ~PopWait(c)
    <3>1. Waiters' \subseteq Waiters /\ pc'[Closer] = pc[Closer]
      BY <1>3, <2>2 DEF ConsumerStep, PopLock, PopRelock, PopNull, PopUnlink,
           PopReturn, Acquire
    <3>2. is_shutdown' = is_shutdown
      BY <1>3, <2>2 DEF ConsumerStep, PopLock, PopRelock, PopNull, PopUnlink,
           PopReturn
    <3> QED
      BY <3>1, <3>2
  <2> QED
    BY <2>1, <2>2
<1>4. ASSUME NEW c \in Consumers, SpuriousWakeup(c)
      PROVE  ClosedLeavesNoSleeper'
  BY <1>4 DEF SpuriousWakeup
<1>5. ASSUME ShutLock \/ CloserStep PROVE ClosedLeavesNoSleeper'
  <2>1. CASE ShutLock
    BY <2>1 DEF ShutLock, Acquire
  <2>2. CASE ShutFlag
    BY <2>2 DEF ShutFlag
  <2>3. CASE ShutBroadcast
    BY <2>3 DEF ShutBroadcast
  <2>4. CASE ShutUnlock
    BY <2>4 DEF ShutUnlock
  <2> QED
    BY <1>5, <2>1, <2>2, <2>3, <2>4 DEF CloserStep
<1>6. CASE UNCHANGED vars
  BY <1>6 DEF vars
<1> QED
  BY <1>1, <1>2, <1>3, <1>4, <1>5, <1>6 DEF Next, Finished

LEMMA FiniteAwake ==
    ASSUME ThreadsAssumption
    PROVE  /\ IsFiniteSet(Awake) /\ IsFiniteSet(Awake')
           /\ Cardinality(Awake) \in Nat /\ Cardinality(Awake') \in Nat
           /\ Awake \subseteq Awake' => Cardinality(Awake) <= Cardinality(Awake')
<1>1. Awake \in SUBSET Consumers /\ Awake' \in SUBSET Consumers
  BY DEF Awake
<1>2. IsFiniteSet(Awake) /\ IsFiniteSet(Awake')
  BY <1>1, FS_Subset DEF ThreadsAssumption
<1> QED
  BY <1>2, FS_Subset, FS_CardinalityType

(* What a push in progress owes the sleepers: the last summand of WakeInv. *)
Owed == IF lock # NoThread /\ pc[lock] \in {"push_count", "push_signal"}
        THEN 1 ELSE 0

(* Steps that neither lengthen the list nor put anyone to sleep. *)
LEMMA WakeKept ==
    ASSUME ThreadsAssumption, TypeOK, WakeInv, items' = items,
           Waiters' \subseteq Waiters, Awake \subseteq Awake', Owed <= Owed'
    PROVE  WakeInv'
<1>1. Len(items) \in Nat /\ Owed \in Nat /\ Owed' \in Nat
  BY LenProperties DEF TypeOK, Owed
<1>2. Waiters # {} => Len(items) <= Cardinality(Awake) + Owed
  BY DEF WakeInv, Owed
<1>3. Waiters' # {} => Len(items') <= Cardinality(Awake') + Owed'
  BY <1>1, <1>2, FiniteAwake
<1> QED
  BY <1>3 DEF WakeInv, Owed

LEMMA WakeNext ==
    ASSUME ThreadsAssumption, BaseInv, WakeInv, [Next]_vars
    PROVE  WakeInv'
<1> USE DEF BaseInv
<1>a. Len(items) \in Nat
  BY LenProperties DEF TypeOK
<1>1. ASSUME NEW p \in Producers, NEW d \in Data, PushAlloc(p, d)
      PROVE  WakeInv'
  <2>1. items' = items /\ Waiters' \subseteq Waiters /\ Awake \subseteq Awake'
        /\ Owed <= Owed'
    BY <1>1 DEF PushAlloc, queueVars, Waiters, Awake, Owed, TypeOK, Threads,
         ThreadsAssumption, LockInv
  <2> QED
    BY <2>1, WakeKept
<1>2. ASSUME NEW p \in Producers,
             PushLock(p) \/ PushRefuse(p) \/ PushCount(p) \/ PushUnlock(p)
      PROVE  WakeInv'
  <2>1. items' = items /\ Waiters' \subseteq Waiters /\ Awake \subseteq Awake'
        /\ Owed <= Owed'
    BY <1>2 DEF PushLock, PushRefuse, PushCount, PushUnlock, Acquire, queueVars,
         Waiters, Awake, Owed, TypeOK, Threads, ThreadsAssumption, LockInv,
         PushLocked
  <2> QED
    BY <2>1, WakeKept
<1>3. ASSUME NEW p \in Producers, PushLink(p) PROVE WakeInv'
  <2>1. lock = p /\ lock' = p /\ p # NoThread /\ Owed = 0 /\ Owed' = 1
    BY <1>3 DEF PushLink, LockInv, Owed, Threads, ThreadsAssumption, TypeOK,
         PushLocked
  <2>2. Awake' = Awake /\ Waiters' = Waiters
    BY <1>3 DEF PushLink, Awake, Waiters, TypeOK, Threads, ThreadsAssumption
  <2>3. Len(items') = Len(items) + 1
    BY <1>3, AppendProperties DEF PushLink, OfferInv, TypeOK
  <2>4. Waiters' # {} => Len(items') <= Cardinality(Awake') + Owed'
    BY <1>a, <2>1, <2>2, <2>3, FiniteAwake DEF WakeInv, Owed
  <2> QED
    BY <2>4 DEF WakeInv, Owed
<1>4. ASSUME NEW p \in Producers, PushSignal(p) PROVE WakeInv'
  <2>1. CASE Waiters = {}
    <3>1. Waiters' = {}
      BY <1>4, <2>1 DEF PushSignal, Waiters, TypeOK, Threads, ThreadsAssumption
    <3> QED
      BY <3>1 DEF WakeInv
  <2>2. ASSUME NEW c \in Waiters,
               pc' = [pc EXCEPT ![p] = "push_unlock", ![c] = "relock"]
        PROVE  WakeInv'
    <3>1. Owed = 1 /\ Owed' = 0
      BY <1>4, <2>2 DEF PushSignal, LockInv, Owed, Threads, ThreadsAssumption,
           TypeOK, PushLocked, Waiters
    <3>2. Awake' = Awake \cup {c} /\ c \notin Awake
      BY <1>4, <2>2 DEF Awake, Waiters, TypeOK, Threads, ThreadsAssumption
    <3>3. Cardinality(Awake') = Cardinality(Awake) + 1
      BY <3>2, FiniteAwake, FS_AddElement
    <3>4. items' = items
      BY <1>4 DEF PushSignal, queueVars
    <3>5. Len(items) <= Cardinality(Awake) + Owed
      BY DEF WakeInv, Owed
    <3>6. Len(items') <= Cardinality(Awake') + Owed'
      BY <1>a, <3>1, <3>3, <3>4, <3>5, FiniteAwake
    <3> QED
      BY <3>6 DEF WakeInv, Owed
  <2> QED
    BY <1>4, <2>1, <2>2 DEF PushSignal
<1>5. ASSUME NEW c \in Consumers,
             PopLock(c) \/ PopRelock(c) \/ PopReturn(c) \/ SpuriousWakeup(c)
      PROVE  WakeInv'
  <2>1. items' = items /\ Waiters' \subseteq Waiters /\ Awake \subseteq Awake'
        /\ Owed <= Owed'
    BY <1>5 DEF PopLock, PopRelock, PopReturn, SpuriousWakeup, Acquire, queueVars,
         Waiters, Awake, Owed, TypeOK, Threads, ThreadsAssumption, LockInv,
         PopLocked
  <2> QED
    BY <2>1, WakeKept
<1>6. ASSUME NEW c \in Consumers, PopWait(c) \/ PopNull(c) PROVE WakeInv'
  <2>1. size = Len(items) /\ size = 0 /\ items' = items
    BY <1>6 DEF PopWait, PopNull, SizeInv, LockInv, queueVars, Threads, PopLocked,
         ThreadsAssumption
  <2>2. Owed' \in Nat /\ Len(items') = 0
    BY <2>1 DEF Owed
  <2>3. Cardinality(Awake') \in Nat
    BY FiniteAwake
  <2>4. Len(items') <= Cardinality(Awake') + Owed'
    BY <2>2, <2>3
  <2> QED
    BY <2>4 DEF WakeInv, Owed
<1>7. ASSUME NEW c \in Consumers, PopUnlink(c) PROVE WakeInv'
  <2>1. lock = c /\ lock' = c /\ c # NoThread /\ Owed = 0 /\ Owed' = 0
    BY <1>7 DEF PopUnlink, LockInv, Owed, Threads, ThreadsAssumption, TypeOK,
         PopLocked
  <2>2. Awake' = Awake \ {c} /\ c \in Awake /\ Waiters' \subseteq Waiters
    BY <1>7 DEF PopUnlink, Awake, Waiters, TypeOK, Threads, ThreadsAssumption
  <2>3. Cardinality(Awake') = Cardinality(Awake) - 1
    BY <2>2, FiniteAwake, FS_RemoveElement
  <2>4. items # <<>>
    BY <1>7, <2>1, EmptySeq DEF PopUnlink, SizeInv
  <2>5. Len(items') = Len(items) - 1
    BY <1>7, <2>4, HeadTailProperties DEF PopUnlink, TypeOK
  <2>6. Waiters' # {} => Len(items') <= Cardinality(Awake') + Owed'
    BY <1>a, <2>1, <2>2, <2>3, <2>5, FiniteAwake DEF WakeInv, Owed
  <2> QED
    BY <2>6 DEF WakeInv, Owed
<1>8. ASSUME ShutLock \/ ShutFlag \/ ShutUnlock PROVE WakeInv'
  <2>1. items' = items /\ Waiters' \subseteq Waiters /\ Awake \subseteq Awake'
        /\ Owed <= Owed'
    BY <1>8 DEF ShutLock, ShutFlag, ShutUnlock, Acquire, queueVars, Waiters, Awake,
         Owed, TypeOK, Threads, ThreadsAssumption, LockInv, ShutLocked
  <2> QED
    BY <2>1, WakeKept
<1>9. ASSUME ShutBroadcast PROVE WakeInv'
  <2>1. Waiters' = {}
    BY <1>9 DEF ShutBroadcast, Waiters, Threads
  <2> QED
    BY <2>1 DEF WakeInv
<1>10. CASE UNCHANGED vars
  <2>1. items' = items /\ Waiters' \subseteq Waiters /\ Awake \subseteq Awake'
        /\ Owed <= Owed'
    BY <1>10 DEF vars, queueVars, Waiters, Awake, Owed
  <2> QED
    BY <2>1, WakeKept
<1> QED
  BY <1>1, <1>2, <1>3, <1>4, <1>5, <1>6, <1>7, <1>8, <1>9, <1>10
     DEF Next, ProducerStep, ConsumerStep, CloserStep, Finished

-----------------------------------------------------------------------------
(* The theorems *)

LEMMA QueueInvInit == Init => QueueInv
<1> SUFFICES ASSUME Init PROVE QueueInv
  OBVIOUS
<1>1. BaseInv
  BY BaseInit
<1>2. Waiters = {}
  BY DEF Init, Waiters, Threads
<1> QED
  BY <1>1, <1>2 DEF BaseInv, QueueInv, WakeInv, ClosedLeavesNoSleeper

LEMMA QueueInvNext == QueueInv /\ [Next]_vars => QueueInv'
  BY BaseNext, ClosedNext, WakeNext, ThreadsAssumption DEF BaseInv, QueueInv

(* queue.c:29-104: the invariant holds at every step of any number of        *)
(* producers and consumers, with spurious wakeups and failing allocations.   *)
THEOREM QueueInvariant == SafeSpec => []QueueInv
  BY QueueInvInit, QueueInvNext, PTL DEF SafeSpec

(* Every variable of queue.c keeps its type, and every thread its place. *)
THEOREM QueueTypeCorrect == SafeSpec => []TypeOK
<1>1. QueueInv => TypeOK
  BY DEF QueueInv
<1> QED
  BY <1>1, QueueInvariant, PTL

(* queue_pop never dereferences a NULL head (queue.c:73-85): the size it     *)
(* tests under the mutex is the length of the list.                          *)
THEOREM QueueSizeMatchesList == SafeSpec => []SizeMatchesList
<1>1. QueueInv => SizeMatchesList
  <2> SUFFICES ASSUME QueueInv PROVE SizeMatchesList
    OBVIOUS
  <2>1. ASSUME NEW c \in Consumers, pc[c] = "pop_test" PROVE size = Len(items)
    <3>1. lock = c
      BY <2>1 DEF QueueInv, LockInv, Threads, PopLocked
    <3> QED
      BY <2>1, <3>1 DEF QueueInv, SizeInv
  <2>2. CASE lock = NoThread
    BY <2>2 DEF QueueInv, SizeInv, SizeMatchesList
  <2> QED
    BY <2>1, <2>2 DEF SizeMatchesList, QueueInv, SizeInv
<1> QED
  BY <1>1, QueueInvariant, PTL

(* The single pthread_cond_signal of queue_push (queue.c:59) is enough: while *)
(* a consumer sleeps, every queued pointer has an awake consumer of its own.  *)
THEOREM QueueNoLostWakeup == SafeSpec => []NoLostWakeup
<1>1. QueueInv => NoLostWakeup
  <2> SUFFICES ASSUME QueueInv, Waiters # {}
               PROVE  Len(items) <= Cardinality(Awake)
                        + (IF \E p \in Producers :
                                 pc[p] \in {"push_count", "push_signal"}
                           THEN 1 ELSE 0)
    BY DEF NoLostWakeup
  <2>1. CASE lock # NoThread /\ pc[lock] \in {"push_count", "push_signal"}
    <3>1. lock \in Producers
      BY <2>1, ThreadsAssumption DEF QueueInv, TypeOK, Threads, ThreadsAssumption,
           ConsumerPC, CloserPC, PopLocked, ShutLocked
    <3> QED
      BY <2>1, <3>1 DEF QueueInv, WakeInv
  <2>2. CASE ~(lock # NoThread /\ pc[lock] \in {"push_count", "push_signal"})
    <3>1. Len(items) <= Cardinality(Awake)
      <4>1. Len(items) <= Cardinality(Awake) + 0
        BY <2>2 DEF QueueInv, WakeInv
      <4>2. Cardinality(Awake) \in Nat
        BY FiniteAwake, ThreadsAssumption
      <4> QED
        BY <4>1, <4>2
    <3>2. ~ \E p \in Producers : pc[p] \in {"push_count", "push_signal"}
      BY <2>2, ThreadsAssumption
         DEF QueueInv, LockInv, Threads, PushLocked, ThreadsAssumption
    <3>3. Cardinality(Awake) + 0 = Cardinality(Awake)
      BY FiniteAwake, ThreadsAssumption
    <3> QED
      BY <3>1, <3>2, <3>3
  <2> QED
    BY <2>1, <2>2
<1> QED
  BY <1>1, QueueInvariant, PTL

(* queue_shutdown leaves nobody asleep (queue.c:99-104). *)
THEOREM QueueClosedLeavesNoSleeper == SafeSpec => []ClosedLeavesNoSleeper
<1>1. QueueInv => ClosedLeavesNoSleeper
  BY DEF QueueInv
<1> QED
  BY <1>1, QueueInvariant, PTL

(* No pointer is lost or delivered twice (queue.c:47-57, 82-91). *)
THEOREM QueueHoldsExactlyTheQueued == SafeSpec => []ListHoldsExactlyTheQueued
<1>1. QueueInv => ListHoldsExactlyTheQueued
  BY DEF QueueInv
<1> QED
  BY <1>1, QueueInvariant, PTL

(* A thread that ends on NULL leaves nothing behind (queue.c:41-45, 77-80). *)
THEOREM QueueNullMeansDrained == SafeSpec => []NullMeansDrained
<1>1. Init => NullMeansDrained
  BY DEF Init, NullMeansDrained, Threads
<1>2. ASSUME QueueInv, NullMeansDrained, [Next]_vars PROVE NullMeansDrained'
  <2> DEFINE NobodyNew == {c \in Consumers : pc'[c] = "done"}
                            \subseteq {c \in Consumers : pc[c] = "done"}
             Same == items' = items /\ is_shutdown' = is_shutdown /\ NobodyNew
  <2>a. TypeOK /\ LockInv /\ SizeInv
    BY <1>2 DEF QueueInv
  <2>b. Same => NullMeansDrained'
    BY <1>2 DEF NullMeansDrained
  <2>1. ASSUME NEW p \in Producers, NEW d \in Data, PushAlloc(p, d) PROVE Same
    BY <2>1, <2>a, ThreadsAssumption
       DEF PushAlloc, queueVars, TypeOK, Threads, ThreadsAssumption
  <2>2. ASSUME NEW p \in Producers, ProducerStep(p), ~PushLink(p) PROVE Same
    BY <2>2, <2>a, ThreadsAssumption
       DEF ProducerStep, PushLock, PushRefuse, PushCount, PushSignal, PushUnlock,
           Acquire, Waiters, queueVars, TypeOK, Threads, ThreadsAssumption
  <2>3. ASSUME NEW p \in Producers, PushLink(p) PROVE NullMeansDrained'
    <3>1. ~is_shutdown /\ NobodyNew
      BY <2>3, <2>a, ThreadsAssumption
         DEF PushLink, TypeOK, Threads, ThreadsAssumption
    <3> QED
      BY <1>2, <3>1 DEF NullMeansDrained
  <2>4. ASSUME NEW c \in Consumers, PopNull(c) PROVE NullMeansDrained'
    <3>1. lock = c /\ c # NoThread
      BY <2>4, <2>a, ThreadsAssumption
         DEF PopNull, LockInv, PopLocked, Threads, ThreadsAssumption
    <3>2. items = <<>>
      BY <2>4, <2>a, <3>1, EmptySeq DEF PopNull, SizeInv, TypeOK
    <3> QED
      BY <2>4, <3>2 DEF PopNull, queueVars, NullMeansDrained
  <2>5. ASSUME NEW c \in Consumers, PopUnlink(c) PROVE NullMeansDrained'
    <3>1. lock = c /\ c # NoThread
      BY <2>5, <2>a, ThreadsAssumption
         DEF PopUnlink, LockInv, PopLocked, Threads, ThreadsAssumption
    <3>2. items # <<>>
      BY <2>5, <2>a, <3>1, EmptySeq DEF PopUnlink, SizeInv, TypeOK
    <3>3. NobodyNew
      BY <2>5, <2>a DEF PopUnlink, TypeOK, Threads
    <3> QED
      BY <1>2, <3>2, <3>3 DEF NullMeansDrained
  <2>6. ASSUME NEW c \in Consumers, \/ PopLock(c) \/ PopWait(c) \/ PopRelock(c)
                                    \/ PopReturn(c) \/ SpuriousWakeup(c)
        PROVE  Same
    BY <2>6, <2>a DEF PopLock, PopWait, PopRelock, PopReturn, SpuriousWakeup,
         Acquire, queueVars, TypeOK, Threads
  <2>7. ASSUME ShutLock \/ ShutBroadcast \/ ShutUnlock PROVE Same
    BY <2>7, <2>a, ThreadsAssumption
       DEF ShutLock, ShutBroadcast, ShutUnlock, Acquire, Waiters, queueVars,
           TypeOK, Threads, ThreadsAssumption
  <2>8. ASSUME ShutFlag PROVE NullMeansDrained'
    <3>1. items' = items /\ is_shutdown' /\ NobodyNew
      BY <2>8, <2>a, ThreadsAssumption
         DEF ShutFlag, TypeOK, Threads, ThreadsAssumption
    <3> QED
      BY <1>2, <3>1 DEF NullMeansDrained
  <2>9. CASE UNCHANGED vars
    BY <1>2, <2>9 DEF vars, queueVars, NullMeansDrained
  <2> QED
    BY <1>2, <2>b, <2>1, <2>2, <2>3, <2>4, <2>5, <2>6, <2>7, <2>8, <2>9
       DEF Next, ConsumerStep, CloserStep, Finished
<1> QED
  BY <1>1, <1>2, QueueInvariant, PTL DEF SafeSpec

-----------------------------------------------------------------------------
(* Refinement: the abstract step that each step of queue.c is. *)

LEMMA RefinesInit == Init => Abstract!Init
<1> SUFFICES ASSUME Init PROVE Abstract!Init
  OBVIOUS
<1>1. DecidedOutcome = [d \in Data |-> "unsent"]
  BY DEF Init, DecidedOutcome
<1>2. Released = {}
  BY DEF Init, Released, Threads
<1> QED
  BY <1>1, <1>2 DEF Init, Abstract!Init

LEMMA RefinesNext ==
    ASSUME ThreadsAssumption, QueueInv, [Next]_vars
    PROVE  [Abstract!Next]_Abstract!vars
<1> USE DEF QueueInv, TypeOK
<1>1. ASSUME NEW p \in Producers, NEW d \in Data, PushAlloc(p, d)
      PROVE  [Abstract!Next]_Abstract!vars
  <2>1. Released' = Released
    BY <1>1 DEF PushAlloc, Released, Threads, ThreadsAssumption
  <2>2. CASE outcome' = [outcome EXCEPT ![d] = "offered"]
    <3>1. DecidedOutcome' = DecidedOutcome
      BY <1>1, <2>2 DEF PushAlloc, DecidedOutcome
    <3> QED
      BY <1>1, <2>1, <3>1 DEF PushAlloc, queueVars, Abstract!vars
  <2>3. CASE outcome' = [outcome EXCEPT ![d] = "refused"]
    <3>1. DecidedOutcome' = [DecidedOutcome EXCEPT ![d] = "refused"]
          /\ DecidedOutcome[d] = "unsent"
      BY <1>1, <2>3 DEF PushAlloc, DecidedOutcome
    <3> QED
      BY <1>1, <2>1, <3>1 DEF PushAlloc, queueVars, Abstract!Next, Abstract!Refuse
  <2> QED
    BY <1>1, <2>2, <2>3 DEF PushAlloc
<1>2. ASSUME NEW p \in Producers,
             PushLock(p) \/ PushCount(p) \/ PushSignal(p) \/ PushUnlock(p)
      PROVE  [Abstract!Next]_Abstract!vars
  <2>1. items' = items /\ is_shutdown' = is_shutdown /\ outcome' = outcome
    BY <1>2 DEF PushLock, PushCount, PushSignal, PushUnlock, queueVars
  <2>2. Released' = Released
    BY <1>2 DEF PushLock, PushCount, PushSignal, PushUnlock, Acquire, Released,
         Threads, ThreadsAssumption, Waiters
  <2> QED
    BY <2>1, <2>2 DEF Abstract!vars, DecidedOutcome
<1>3. ASSUME NEW p \in Producers, PushRefuse(p)
      PROVE  [Abstract!Next]_Abstract!vars
  <2>1. data[p] \in Data /\ outcome[data[p]] = "offered"
    BY <1>3 DEF PushRefuse, OfferInv
  <2>2. Released' = Released
    BY <1>3 DEF PushRefuse, Released, Threads, ThreadsAssumption
  <2>3. DecidedOutcome' = [DecidedOutcome EXCEPT ![data[p]] = "refused"]
        /\ DecidedOutcome[data[p]] = "unsent"
    BY <1>3, <2>1 DEF PushRefuse, DecidedOutcome
  <2>4. Abstract!Refuse(data[p])
    BY <1>3, <2>2, <2>3 DEF PushRefuse, queueVars, Abstract!Refuse
  <2> QED
    BY <2>1, <2>4 DEF Abstract!Next
<1>4. ASSUME NEW p \in Producers, PushLink(p)
      PROVE  [Abstract!Next]_Abstract!vars
  <2>1. data[p] \in Data /\ outcome[data[p]] = "offered"
    BY <1>4 DEF PushLink, OfferInv
  <2>2. Released' = Released
    BY <1>4 DEF PushLink, Released, Threads, ThreadsAssumption
  <2>3. DecidedOutcome' = [DecidedOutcome EXCEPT ![data[p]] = "queued"]
        /\ DecidedOutcome[data[p]] = "unsent"
    BY <1>4, <2>1 DEF PushLink, DecidedOutcome
  <2>4. Abstract!Push(data[p])
    BY <1>4, <2>2, <2>3 DEF PushLink, Abstract!Push
  <2> QED
    BY <2>1, <2>4 DEF Abstract!Next
<1>5. ASSUME NEW c \in Consumers, \/ PopLock(c) \/ PopWait(c) \/ PopRelock(c)
                                  \/ PopReturn(c) \/ SpuriousWakeup(c)
      PROVE  [Abstract!Next]_Abstract!vars
  <2>1. items' = items /\ is_shutdown' = is_shutdown /\ outcome' = outcome
    BY <1>5 DEF PopLock, PopWait, PopRelock, PopReturn, SpuriousWakeup, queueVars
  <2>2. Released' = Released
    BY <1>5 DEF PopLock, PopWait, PopRelock, PopReturn, SpuriousWakeup, Acquire,
         Released, Threads
  <2> QED
    BY <2>1, <2>2 DEF Abstract!vars, DecidedOutcome
<1>6. ASSUME NEW c \in Consumers, PopNull(c)
      PROVE  [Abstract!Next]_Abstract!vars
  <2>1. lock = c /\ c # NoThread
    BY <1>6 DEF PopNull, LockInv, PopLocked, Threads, ThreadsAssumption
  <2>2. items = <<>>
    BY <1>6, <2>1, EmptySeq DEF PopNull, SizeInv
  <2>3. Released' = Released \cup {c} /\ c \notin Released
    BY <1>6 DEF PopNull, Released, Threads
  <2>4. DecidedOutcome' = DecidedOutcome
    BY <1>6 DEF PopNull, DecidedOutcome
  <2>5. Abstract!Release(c)
    BY <1>6, <2>2, <2>3, <2>4 DEF PopNull, queueVars, Abstract!Release
  <2> QED
    BY <2>5 DEF Abstract!Next
<1>7. ASSUME NEW c \in Consumers, PopUnlink(c)
      PROVE  [Abstract!Next]_Abstract!vars
  <2>1. lock = c /\ c # NoThread
    BY <1>7 DEF PopUnlink, LockInv, PopLocked, Threads, ThreadsAssumption
  <2>2. items # <<>>
    BY <1>7, <2>1, EmptySeq DEF PopUnlink, SizeInv
  <2>3. Released' = Released /\ c \notin Released
    BY <1>7 DEF PopUnlink, Released, Threads
  <2>4. Head(items) \in Data /\ c # "offered"
    BY <2>2, HeadTailProperties DEF ThreadsAssumption
  <2>5. DecidedOutcome' = [DecidedOutcome EXCEPT ![Head(items)] = c]
    BY <1>7, <2>4 DEF PopUnlink, DecidedOutcome
  <2>6. Abstract!Pop(c)
    BY <1>7, <2>2, <2>3, <2>5 DEF PopUnlink, Abstract!Pop
  <2> QED
    BY <2>6 DEF Abstract!Next
<1>8. ASSUME ShutFlag PROVE [Abstract!Next]_Abstract!vars
  <2>1. ~is_shutdown
    BY <1>8 DEF ShutFlag, ShutInv
  <2>2. Released' = Released
    BY <1>8 DEF ShutFlag, Released, Threads, ThreadsAssumption
  <2>3. DecidedOutcome' = DecidedOutcome
    BY <1>8 DEF ShutFlag, DecidedOutcome
  <2>4. Abstract!Close
    BY <1>8, <2>1, <2>2, <2>3 DEF ShutFlag, Abstract!Close
  <2> QED
    BY <2>4 DEF Abstract!Next
<1>9. ASSUME ShutLock \/ ShutBroadcast \/ ShutUnlock
      PROVE  [Abstract!Next]_Abstract!vars
  <2>1. items' = items /\ is_shutdown' = is_shutdown /\ outcome' = outcome
    BY <1>9 DEF ShutLock, ShutBroadcast, ShutUnlock, queueVars
  <2>2. Released' = Released
    BY <1>9 DEF ShutLock, ShutBroadcast, ShutUnlock, Acquire, Released, Threads,
         ThreadsAssumption, Waiters
  <2> QED
    BY <2>1, <2>2 DEF Abstract!vars, DecidedOutcome
<1>10. CASE UNCHANGED vars
  BY <1>10 DEF vars, queueVars, Abstract!vars, DecidedOutcome, Released
<1> QED
  BY <1>1, <1>2, <1>3, <1>4, <1>5, <1>6, <1>7, <1>8, <1>9, <1>10
     DEF Next, ProducerStep, ConsumerStep, CloserStep, Finished

(* The mutex-and-condition-variable queue of queue.c implements the atomic   *)
(* closable FIFO: its safety part, for any threads and pointers.             *)
THEOREM QueueImplementsFifo == SafeSpec => Abstract!SafeSpec
<1>1. QueueInv /\ [Next]_vars => [Abstract!Next]_Abstract!vars
  BY RefinesNext, ThreadsAssumption
<1> QED
  BY <1>1, RefinesInit, QueueInvariant, PTL DEF SafeSpec, Abstract!SafeSpec
=============================================================================
