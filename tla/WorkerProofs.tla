---------------------------- MODULE WorkerProofs ----------------------------
(***************************************************************************)
(* The safety of the worker, for every set of jobs and threads, every      *)
(* parallelism and every sequence of calls.  The invariants come in three  *)
(* layers, each inductive relative to the ones before it: the types with   *)
(* the count of the threads, the place of every job, what is left behind.  *)
(***************************************************************************)
EXTENDS Worker, FiniteSetTheorems, SequenceTheorems, TLAPS

-----------------------------------------------------------------------------
(* Facts about sequences that the steps use.                               *)

\* Appending adds one element to the range of a sequence.
LEMMA RangeAppend ==
  ASSUME NEW S, NEW s \in Seq(S), NEW e \in S
  PROVE  Range(Append(s, e)) = Range(s) \cup {e}
<1>1. Append(s, e) \in Seq(S) /\ Len(Append(s, e)) = Len(s) + 1
  BY AppendProperties
<1>2. Range(Append(s, e)) = {Append(s, e)[i] : i \in 1 .. Len(s) + 1}
  BY <1>1, RangeEquality
<1>3. Range(s) = {s[i] : i \in 1 .. Len(s)}
  BY RangeEquality
<1>4. /\ \A i \in 1 .. Len(s) : Append(s, e)[i] = s[i]
      /\ Append(s, e)[Len(s) + 1] = e
  BY AppendProperties
<1>5. Len(s) \in Nat
  BY LenProperties
<1> QED BY <1>2, <1>3, <1>4, <1>5

\* The range of a non-empty sequence is its head and the range of its tail.
LEMMA RangeHeadTail ==
  ASSUME NEW S, NEW s \in Seq(S), s # <<>>
  PROVE  Range(s) = {Head(s)} \cup Range(Tail(s))
<1>1. /\ Tail(s) \in Seq(S) /\ Len(Tail(s)) = Len(s) - 1
      /\ \A i \in 1 .. Len(Tail(s)) : Tail(s)[i] = s[i + 1]
  BY HeadTailProperties
<1>2. Range(Tail(s)) = {Tail(s)[i] : i \in 1 .. Len(s) - 1}
  BY <1>1, RangeEquality
<1>3. Range(s) = {s[i] : i \in 1 .. Len(s)}
  BY RangeEquality
<1>4. Len(s) \in Nat \ {0} /\ Head(s) = s[1]
  BY EmptySeq
<1>5. ASSUME NEW x \in Range(s) PROVE x \in {Head(s)} \cup Range(Tail(s))
  <2>1. PICK i \in 1 .. Len(s) : x = s[i]
    BY <1>3
  <2>2. CASE i = 1
    BY <2>1, <2>2, <1>4
  <2>3. CASE i # 1
    <3>1. i - 1 \in 1 .. Len(s) - 1 /\ (i - 1) + 1 = i
      BY <2>3, <1>4
    <3> QED BY <3>1, <2>1, <1>1, <1>2
  <2> QED BY <2>2, <2>3
<1>6. ASSUME NEW x \in Range(Tail(s)) PROVE x \in Range(s)
  <2>1. PICK i \in 1 .. Len(s) - 1 : x = Tail(s)[i]
    BY <1>2
  <2>2. i + 1 \in 1 .. Len(s) /\ x = s[i + 1]
    BY <2>1, <1>1, <1>4
  <2> QED BY <2>2, <1>3
<1>7. Head(s) \in Range(s)
  BY <1>3, <1>4
<1> QED BY <1>5, <1>6, <1>7

\* Moving the head of the second sequence to the end of the first.
LEMMA ConcatShift ==
  ASSUME NEW S, NEW s \in Seq(S), NEW q \in Seq(S), q # <<>>
  PROVE  Append(s, Head(q)) \o Tail(q) = s \o q
<1>1. Head(q) \in S /\ Tail(q) \in Seq(S)
  BY HeadTailProperties
<1>2. q = <<Head(q)>> \o Tail(q)
  <2>1. <<Head(q)>> \in Seq(S) /\ Len(<<Head(q)>>) = 1 /\ <<Head(q)>>[1] = Head(q)
    BY <1>1
  <2>2. <<Head(q)>> \o Tail(q) \in Seq(S)
    BY <2>1, <1>1, ConcatProperties
  <2>3. Len(<<Head(q)>> \o Tail(q)) = Len(q)
    <3>1. Len(Tail(q)) = Len(q) - 1 /\ Len(q) \in Nat
      BY HeadTailProperties, LenProperties
    <3> QED BY <3>1, <2>1, <1>1, ConcatProperties
  <2>4. \A i \in 1 .. Len(q) : (<<Head(q)>> \o Tail(q))[i] = q[i]
    <3> SUFFICES ASSUME NEW i \in 1 .. Len(q)
                 PROVE  (<<Head(q)>> \o Tail(q))[i] = q[i]
      OBVIOUS
    <3>1. /\ Len(Tail(q)) = Len(q) - 1 /\ Len(q) \in Nat
          /\ \A k \in 1 .. Len(Tail(q)) : Tail(q)[k] = q[k + 1]
          /\ Head(q) = q[1]
      BY HeadTailProperties, LenProperties
    <3>2. (<<Head(q)>> \o Tail(q))[i] =
             IF i <= 1 THEN <<Head(q)>>[i] ELSE Tail(q)[i - 1]
      BY <3>1, <2>1, <1>1, ConcatProperties
    <3>3. CASE i = 1
      BY <3>1, <3>2, <3>3, <2>1
    <3>4. CASE i # 1
      BY <3>1, <3>2, <3>4
    <3> QED BY <3>3, <3>4
  <2> QED BY <2>2, <2>3, <2>4, SeqEqual
<1>3. Append(s, Head(q)) = s \o <<Head(q)>>
  BY <1>1, AppendIsConcat
<1>4. <<Head(q)>> \in Seq(S)
  BY <1>1
<1> QED BY <1>1, <1>2, <1>3, <1>4, ConcatAssociative

\* Appending to a concatenation appends to its second part.
LEMMA ConcatAppend ==
  ASSUME NEW S, NEW s \in Seq(S), NEW q \in Seq(S), NEW e \in S
  PROVE  s \o Append(q, e) = Append(s \o q, e)
<1>1. <<e>> \in Seq(S) /\ s \o q \in Seq(S)
  BY ConcatProperties
<1>2. Append(q, e) = q \o <<e>> /\ Append(s \o q, e) = (s \o q) \o <<e>>
  BY <1>1, AppendIsConcat
<1> QED BY <1>1, <1>2, ConcatAssociative

-----------------------------------------------------------------------------
(* Every step is one of ten, or changes nothing.                           *)

LEMMA NextCases ==
  ASSUME [Next]_vars
  PROVE  \/ \E j \in Job : CallQueues(j) \/ CallThrows(j)
         \/ \E j \in Job, t \in Thread : CallSpawns(j, t)
         \/ \E t \in Thread : TakeJob(t) \/ ExitThread(t)
         \/ \E t \in Thread : ReturnFromJob(t) \/ ThrowFromJob(t)
         \/ \E p \in Parallelisms : SetParallelism(p)
         \/ WaitEmpty \/ WaitEmptyReturns
         \/ UNCHANGED vars
BY DEF Next, CallInThread, RunThread

-----------------------------------------------------------------------------
(* The initial state.                                                      *)

LEMMA ModRange ==
  ASSUME NEW p \in Int, NEW n \in Nat \ {0}
  PROVE  p % n \in 0 .. n - 1
OBVIOUS

\* The argument of Worker(short) ends up as an unsigned short.
LEMMA InitialParallelism == ToUShort(P0) \in 0 .. MaxUShort
<1>1. MaxUShort + 1 \in Nat \ {0} /\ (MaxUShort + 1) - 1 = MaxUShort
  BY DEF MaxUShort
<1> QED BY <1>1, ModRange, WorkerAssumption DEF ToUShort

LEMMA UShortIsNat == MaxUShort \in Nat /\ 0 .. MaxUShort \subseteq Nat
BY DEF MaxUShort

LEMMA TypeInit == Init => TypeOK
<1> SUFFICES ASSUME Init PROVE TypeOK
  OBVIOUS
<1>1. <<>> \in Seq(Job)
  BY EmptySeq
<1>2. parallelism \in 0 .. MaxUShort /\ peak \in 0 .. MaxUShort
  BY InitialParallelism DEF Init
<1>3. active \in 0 .. MaxUShort
  BY UShortIsNat DEF Init
<1> QED BY <1>1, <1>2, <1>3 DEF Init, TypeOK

-----------------------------------------------------------------------------
(* First layer: the types, and the count of the threads.  The two need     *)
(* each other: `active` does not wrap below zero because there is a thread *)
(* to leave, nor above 65535 because it stays below a parallelism.         *)

Counted == ActiveCountsThreads /\ parallelism <= peak

IInv1 == TypeOK /\ Counted

LEMMA LiveIsFinite == IsFiniteSet(Live)
BY WorkerAssumption, FS_Subset DEF Live

LEMMA CountInit == Init => IInv1
<1> SUFFICES ASSUME Init PROVE IInv1
  OBVIOUS
<1>1. Live = {}
  BY DEF Init, Live
<1>2. Cardinality(Live) = 0
  BY <1>1, FS_EmptySet
<1>3. peak \in Nat
  BY InitialParallelism, UShortIsNat DEF Init
<1> QED BY <1>2, <1>3, TypeInit DEF Init, IInv1, Counted, ActiveCountsThreads

\* A step that leaves the threads, the counter and the limits alone.
LEMMA CountKept ==
  ASSUME Counted, UNCHANGED <<active, parallelism, peak>>, Live' = Live
  PROVE  Counted'
BY DEF Counted, ActiveCountsThreads

LEMMA CountNext == IInv1 /\ [Next]_vars => IInv1'
<1> SUFFICES ASSUME IInv1, [Next]_vars
             PROVE  IInv1'
  OBVIOUS
<1> USE DEF IInv1
<1>0. /\ active \in Nat /\ parallelism \in Nat /\ peak \in Nat
      /\ MaxUShort \in Nat
  BY UShortIsNat DEF TypeOK
<1>1. ASSUME NEW j \in Job, CallQueues(j) \/ CallThrows(j)
      PROVE  IInv1'
  <2>1. Append(queue, j) \in Seq(Job) /\ Append(submissions, j) \in Seq(Job)
    BY AppendProperties DEF TypeOK
  <2>2. TypeOK'
    BY <1>1, <2>1 DEF TypeOK, CallQueues, CallThrows, LeaveQueued, Enqueue,
                      EnqueueAt, waitState
  <2>3. Counted'
    BY <1>1, CountKept DEF CallQueues, CallThrows, LeaveQueued, Enqueue,
                           EnqueueAt, Live
  <2> QED BY <2>2, <2>3
<1>2. ASSUME NEW j \in Job, NEW t \in Thread, CallSpawns(j, t)
      PROVE  IInv1'
  <2>1. Append(queue, j) \in Seq(Job) /\ Append(submissions, j) \in Seq(Job)
    BY AppendProperties DEF TypeOK
  <2>2. Live' = Live \cup {t} /\ t \notin Live
    BY <1>2 DEF CallSpawns, StartThread, Live, TypeOK
  <2>3. Cardinality(Live') = Cardinality(Live) + 1
    BY <2>2, LiveIsFinite, FS_AddElement
  <2>4. active < parallelism /\ active' = active + 1
        /\ UNCHANGED <<parallelism, peak>>
    BY <1>2 DEF CallSpawns, StartThread, Enqueue, EnqueueAt
  <2>5. Counted'
    BY <2>3, <2>4, <1>0 DEF Counted, ActiveCountsThreads
  <2>6. active' \in 0 .. MaxUShort
    BY <2>4, <1>0 DEF TypeOK
  <2>7. TypeOK'
    BY <1>2, <2>1, <2>6 DEF TypeOK, CallSpawns, StartThread, Enqueue, EnqueueAt,
                            waitState
  <2> QED BY <2>5, <2>7
<1>3. ASSUME NEW t \in Thread, TakeJob(t)
      PROVE  IInv1'
  <2>1. queue # <<>>
    BY <1>3 DEF TakeJob, Take
  <2>2. Head(queue) \in Job /\ Tail(queue) \in Seq(Job)
    BY <2>1, HeadTailProperties DEF TypeOK
  <2>3. Append(started, Head(queue)) \in Seq(Job)
    BY <2>2, AppendProperties DEF TypeOK
  <2>4. TypeOK'
    BY <1>3, <2>2, <2>3, WorkerAssumption DEF TypeOK, TakeJob, Take, waitState
  <2>5. Live' = Live
    BY <1>3 DEF TakeJob, Take, Live, TypeOK
  <2>6. Counted'
    BY <1>3, <2>5, CountKept DEF TakeJob, Take
  <2> QED BY <2>4, <2>6
<1>4. ASSUME NEW t \in Thread, ExitThread(t)
      PROVE  IInv1'
  <2>1. Live' = Live \ {t} /\ t \in Live
    BY <1>4 DEF ExitThread, Exit, Live, TypeOK
  <2>2. Cardinality(Live') = Cardinality(Live) - 1
    BY <2>1, LiveIsFinite, FS_RemoveElement
  <2>3. active' = active - 1 /\ UNCHANGED <<parallelism, peak>>
    BY <1>4 DEF ExitThread, Exit, history
  <2>4. Counted'
    BY <2>2, <2>3, <1>0 DEF Counted, ActiveCountsThreads
  <2>5. Cardinality(Live') \in Nat
    <3>1. IsFiniteSet(Live')
      BY <2>1, LiveIsFinite, FS_RemoveElement
    <3> QED BY <3>1, FS_CardinalityType
  <2>6. active' \in 0 .. MaxUShort
    BY <2>2, <2>3, <2>5, <1>0 DEF TypeOK, Counted, ActiveCountsThreads
  <2>7. TypeOK'
    BY <1>4, <2>6 DEF TypeOK, ExitThread, Exit, waitState, history
  <2> QED BY <2>4, <2>7
<1>5. ASSUME NEW t \in Thread, ReturnFromJob(t) \/ ThrowFromJob(t)
      PROVE  IInv1'
  <2>1. TypeOK'
    <3>1. CASE ReturnFromJob(t)
      <4>1. tjob[t] \in Job
        BY <3>1 DEF ReturnFromJob, TypeOK
      <4> QED BY <3>1, <4>1 DEF TypeOK, ReturnFromJob, waitState, state
    <3>2. CASE ThrowFromJob(t)
      BY <3>2 DEF TypeOK, ThrowFromJob, waitState, state, history
    <3> QED BY <1>5, <3>1, <3>2
  <2>2. Live' = Live
    BY <1>5 DEF ReturnFromJob, ThrowFromJob, Live, TypeOK
  <2>3. Counted'
    BY <1>5, <2>2, CountKept DEF ReturnFromJob, ThrowFromJob, state, history
  <2> QED BY <2>1, <2>3
<1>6. ASSUME NEW p \in Parallelisms, SetParallelism(p)
      PROVE  IInv1'
  <2>1. p \in 0 .. MaxUShort /\ p \in Nat
    BY WorkerAssumption, UShortIsNat
  <2>2. peak' >= peak /\ p <= peak' /\ peak' \in 0 .. MaxUShort
    BY <1>6, <2>1, <1>0 DEF SetParallelism, TypeOK
  <2>3. Live' = Live
    BY <1>6 DEF SetParallelism, Live, threads
  <2>4. Counted'
    BY <1>6, <2>1, <2>2, <2>3, <1>0
       DEF SetParallelism, Counted, ActiveCountsThreads
  <2>5. TypeOK'
    BY <1>6, <2>1, <2>2 DEF TypeOK, SetParallelism, threads, waitState
  <2> QED BY <2>4, <2>5
<1>7. ASSUME WaitEmpty \/ WaitEmptyReturns
      PROVE  IInv1'
  <2>1. Range(submissions) \subseteq Job
    BY RangeOfSeq DEF TypeOK
  <2>2. TypeOK'
    BY <1>7, <2>1 DEF TypeOK, WaitEmpty, WaitEmptyReturns, state, threads, history
  <2>3. Counted'
    BY <1>7, CountKept DEF WaitEmpty, WaitEmptyReturns, state, threads, history, Live
  <2> QED BY <2>2, <2>3
<1>8. ASSUME UNCHANGED vars
      PROVE  IInv1'
  BY <1>8 DEF vars, state, threads, waitState, history, TypeOK, Counted,
              ActiveCountsThreads, Live
<1> QED BY <1>1, <1>2, <1>3, <1>4, <1>5, <1>6, <1>7, <1>8, NextCases

\* Type correctness: in particular neither unsigned short ever wraps.
THEOREM WorkerTypes == Spec => []TypeOK
<1>1. Spec => []IInv1
  BY CountInit, CountNext, PTL DEF Spec
<1>2. IInv1 => TypeOK
  BY DEF IInv1
<1> QED BY <1>1, <1>2, PTL

\* The counter is the number of live threads, and there are never more of
\* them than the highest parallelism set so far.
THEOREM WorkerCounts == Spec => []ActiveCountsThreads
<1>1. Spec => []IInv1
  BY CountInit, CountNext, PTL DEF Spec
<1>2. IInv1 => ActiveCountsThreads
  BY DEF IInv1, Counted
<1> QED BY <1>1, <1>2, PTL

-----------------------------------------------------------------------------
(* Second layer: where every job is.                                       *)

NoRepeat(s) == \A i, k \in 1 .. Len(s) : s[i] = s[k] => i = k

\* A job taken is either finished or in the hands of a thread.
Accounted ==
  \A j \in Range(started) :
    j \in finished \/ \E t \in Thread : tpc[t] = "call" /\ tjob[t] = j

InHand ==
  \A t \in Thread : tpc[t] = "call" =>
    /\ tjob[t] \in Range(started) \ finished
    /\ \A u \in Thread : tpc[u] = "call" /\ tjob[u] = tjob[t] => u = t

Placed ==
  /\ FifoStart
  /\ NoRepeat(queue)
  /\ Range(queue) \cap Range(started) = {}
  /\ finished \subseteq Range(started)
  /\ InHand
  /\ Accounted

LEMMA NoRepeatAppend ==
  ASSUME NEW S, NEW s \in Seq(S), NEW e \in S, NoRepeat(s), e \notin Range(s)
  PROVE  NoRepeat(Append(s, e))
<1>1. /\ Len(Append(s, e)) = Len(s) + 1 /\ Len(s) \in Nat
      /\ \A i \in 1 .. Len(s) : Append(s, e)[i] = s[i]
      /\ Append(s, e)[Len(s) + 1] = e
  BY AppendProperties, LenProperties
<1>2. \A i \in 1 .. Len(s) : s[i] # e
  BY RangeEquality
<1> QED BY <1>1, <1>2 DEF NoRepeat

LEMMA NoRepeatTail ==
  ASSUME NEW S, NEW s \in Seq(S), s # <<>>, NoRepeat(s)
  PROVE  NoRepeat(Tail(s)) /\ Head(s) \notin Range(Tail(s))
<1>1. /\ Tail(s) \in Seq(S) /\ Len(Tail(s)) = Len(s) - 1
      /\ \A i \in 1 .. Len(Tail(s)) : Tail(s)[i] = s[i + 1]
  BY HeadTailProperties
<1>2. Len(s) \in Nat \ {0} /\ Head(s) = s[1]
  BY EmptySeq
<1>3. NoRepeat(Tail(s))
  BY <1>1, <1>2 DEF NoRepeat
<1>4. \A i \in 1 .. Len(Tail(s)) : Tail(s)[i] # Head(s)
  BY <1>1, <1>2 DEF NoRepeat
<1>5. Range(Tail(s)) = {Tail(s)[i] : i \in 1 .. Len(Tail(s))}
  BY <1>1, RangeEquality
<1> QED BY <1>3, <1>4, <1>5

LEMMA RangeEmpty == Range(<<>>) = {}
<1>1. <<>> \in Seq({}) /\ Len(<<>>) = 0
  BY EmptySeq
<1>2. Range(<<>>) = {<<>>[i] : i \in 1 .. 0}
  BY <1>1, RangeEquality
<1> QED BY <1>2

LEMMA SubmissionsRange ==
  ASSUME TypeOK, FifoStart
  PROVE  Range(submissions) = Range(started) \cup Range(queue)
BY RangeConcatenation DEF TypeOK, FifoStart

LEMMA PlacedInit == Init => Placed
<1> SUFFICES ASSUME Init PROVE Placed
  OBVIOUS
<1>1. <<>> \in Seq(Job) /\ Len(<<>>) = 0
  BY EmptySeq
<1>2. <<>> \o <<>> = <<>>
  BY <1>1, ConcatEmptySeq
<1> QED BY <1>1, <1>2, RangeEmpty
        DEF Init, Placed, FifoStart, NoRepeat, InHand, Accounted

\* What every way to queue a job does to the places of the jobs.
LEMMA PlacedEnqueue ==
  ASSUME TypeOK, Placed, NEW j \in Job, Enqueue(j),
         \A t \in Thread : tpc'[t] = "call" <=> tpc[t] = "call"
  PROVE  Placed'
<1>1. /\ queue' = Append(queue, j) /\ submissions' = Append(submissions, j)
      /\ j \notin Range(submissions)
      /\ UNCHANGED <<tjob, started, finished>>
  BY DEF Enqueue, EnqueueAt
<1>2. j \notin Range(started) \cup Range(queue)
  BY <1>1, SubmissionsRange DEF Placed
<1>3. FifoStart'
  <2>1. started \o Append(queue, j) = Append(started \o queue, j)
    BY ConcatAppend DEF TypeOK
  <2> QED BY <2>1, <1>1 DEF Placed, FifoStart
<1>4. NoRepeat(queue')
  BY <1>1, <1>2, NoRepeatAppend DEF Placed, TypeOK
<1>5. Range(queue') = Range(queue) \cup {j}
  BY <1>1, RangeAppend DEF TypeOK
<1>6. InHand' /\ Accounted'
  BY <1>1 DEF Placed, InHand, Accounted
<1> QED BY <1>1, <1>2, <1>3, <1>4, <1>5, <1>6 DEF Placed

\* A step that leaves the jobs where they are.
LEMMA PlacedKept ==
  ASSUME Placed, UNCHANGED <<queue, tjob, submissions, started, finished>>,
         \A t \in Thread : tpc'[t] = "call" <=> tpc[t] = "call"
  PROVE  Placed'
BY DEF Placed, FifoStart, InHand, Accounted

LEMMA PlacedNext == TypeOK /\ Placed /\ [Next]_vars => Placed'
<1> SUFFICES ASSUME TypeOK, Placed, [Next]_vars
             PROVE  Placed'
  OBVIOUS
<1>1. ASSUME NEW j \in Job, CallQueues(j) \/ CallThrows(j)
      PROVE  Placed'
  BY <1>1, PlacedEnqueue DEF CallQueues, CallThrows, LeaveQueued
<1>2. ASSUME NEW j \in Job, NEW t \in Thread, CallSpawns(j, t)
      PROVE  Placed'
  <2>1. \A u \in Thread : tpc'[u] = "call" <=> tpc[u] = "call"
    BY <1>2 DEF CallSpawns, StartThread, TypeOK
  <2>2. Enqueue(j)
    BY <1>2 DEF CallSpawns, StartThread
  <2> QED BY <2>1, <2>2, PlacedEnqueue
<1>3. ASSUME NEW t \in Thread, TakeJob(t)
      PROVE  Placed'
  <2> DEFINE h == Head(queue)
  <2>1. /\ queue # <<>> /\ queue' = Tail(queue) /\ started' = Append(started, h)
        /\ tpc[t] = "take" /\ tpc' = [tpc EXCEPT ![t] = "call"]
        /\ tjob' = [tjob EXCEPT ![t] = h]
        /\ UNCHANGED <<submissions, finished>>
    BY <1>3 DEF TakeJob, Take
  <2>2. h \in Job
    BY <2>1, HeadTailProperties DEF TypeOK
  <2>3. /\ Range(queue) = {h} \cup Range(queue')
        /\ Range(started') = Range(started) \cup {h}
    BY <2>1, <2>2, RangeHeadTail, RangeAppend DEF TypeOK
  <2>4. NoRepeat(queue') /\ h \notin Range(queue')
    BY <2>1, NoRepeatTail DEF Placed, TypeOK
  <2>5. h \notin Range(started)
    BY <2>3 DEF Placed
  <2>6. FifoStart'
    <3>1. Append(started, h) \o Tail(queue) = started \o queue
      BY <2>1, ConcatShift DEF TypeOK
    <3> QED BY <3>1, <2>1 DEF Placed, FifoStart
  <2>7. /\ tpc'[t] = "call" /\ tjob'[t] = h
        /\ \A u \in Thread \ {t} : tpc'[u] = tpc[u] /\ tjob'[u] = tjob[u]
    BY <2>1 DEF TypeOK
  <2>8. h \notin finished
    BY <2>5 DEF Placed
  <2> HIDE DEF h
  <2>9. InHand'
    BY <2>1, <2>3, <2>5, <2>7, <2>8 DEF Placed, InHand
  <2>10. Accounted'
    BY <2>1, <2>3, <2>7 DEF Placed, Accounted
  <2>11. /\ Range(queue') \cap Range(started') = {}
         /\ finished' \subseteq Range(started')
    BY <2>1, <2>3, <2>4 DEF Placed
  <2> QED BY <2>4, <2>6, <2>9, <2>10, <2>11 DEF Placed
<1>4. ASSUME NEW t \in Thread, ExitThread(t)
      PROVE  Placed'
  <2>1. \A u \in Thread : tpc'[u] = "call" <=> tpc[u] = "call"
    BY <1>4 DEF ExitThread, Exit, TypeOK
  <2> QED BY <1>4, <2>1, PlacedKept DEF ExitThread, Exit, history
<1>5. ASSUME NEW t \in Thread, ReturnFromJob(t)
      PROVE  Placed'
  <2>1. /\ UNCHANGED <<queue, submissions, started>>
        /\ finished' = finished \cup {tjob[t]} /\ tpc[t] = "call"
        /\ tpc'[t] = "take"
        /\ \A u \in Thread \ {t} : tpc'[u] = tpc[u] /\ tjob'[u] = tjob[u]
    BY <1>5 DEF ReturnFromJob, TypeOK, state
  <2>2. InHand'
    BY <2>1 DEF Placed, InHand
  <2>3. Accounted'
    BY <2>1 DEF Placed, Accounted
  <2>4. finished' \subseteq Range(started')
    BY <2>1 DEF Placed, InHand
  <2> QED BY <2>1, <2>2, <2>3, <2>4 DEF Placed, FifoStart
<1>6. ASSUME NEW t \in Thread, ThrowFromJob(t)
      PROVE  Placed'
  BY <1>6, PlacedKept DEF ThrowFromJob, state, history
<1>7. ASSUME NEW p \in Parallelisms, SetParallelism(p)
      PROVE  Placed'
  BY <1>7, PlacedKept DEF SetParallelism, threads
<1>8. ASSUME WaitEmpty \/ WaitEmptyReturns
      PROVE  Placed'
  BY <1>8, PlacedKept DEF WaitEmpty, WaitEmptyReturns, state, threads, history
<1>9. ASSUME UNCHANGED vars
      PROVE  Placed'
  BY <1>9, PlacedKept DEF vars, state, threads, history
<1> QED BY <1>1, <1>2, <1>3, <1>4, <1>5, <1>6, <1>7, <1>8, <1>9, NextCases

-----------------------------------------------------------------------------
(* Third layer: what is left in the queue, and what wait_empty_ may tell.  *)

WaitKnown == waitFor \subseteq Range(submissions)

IInv == IInv1 /\ Placed /\ NoStrandedJob /\ WaitKnown /\ WaitEmptyMeansDone

LEMMA IInvInit == Init => IInv
<1>1. ASSUME Init PROVE NoStrandedJob /\ WaitKnown /\ WaitEmptyMeansDone
  BY <1>1, RangeEmpty DEF Init, NoStrandedJob, WaitKnown, WaitEmptyMeansDone
<1> QED BY <1>1, CountInit, PlacedInit DEF IInv

\* A thread that is somewhere is counted.
LEMMA LiveThreadCounts ==
  ASSUME IInv1, NEW t \in Thread, tpc[t] # "absent"
  PROVE  active # 0
<1>1. Cardinality(Live) # 0
  BY LiveIsFinite, FS_EmptySet DEF Live
<1> QED BY <1>1 DEF IInv1, Counted, ActiveCountsThreads

LEMMA NoStrandedNext == IInv1 /\ NoStrandedJob /\ [Next]_vars => NoStrandedJob'
<1> SUFFICES ASSUME IInv1, NoStrandedJob, [Next]_vars
             PROVE  NoStrandedJob'
  OBVIOUS
<1>0. TypeOK /\ active \in Nat /\ parallelism \in Nat
  BY UShortIsNat DEF IInv1, TypeOK
<1>1. ASSUME NEW j \in Job, CallQueues(j) \/ CallThrows(j)
      PROVE  NoStrandedJob'
  <2>1. Range(queue') = Range(queue) \cup {j}
    <3>1. queue' = Append(queue, j)
      BY <1>1 DEF CallQueues, CallThrows, LeaveQueued, Enqueue, EnqueueAt
    <3>2. queue \in Seq(Job)
      BY <1>0 DEF TypeOK
    <3> QED BY ONLY <3>1, <3>2, RangeAppend
  <2>2. active' = active
    BY <1>1 DEF CallQueues, CallThrows, LeaveQueued
  <2>3. ASSUME active = 0 PROVE unserved' = unserved \cup {j}
    <3>1. CASE CallQueues(j)
      <4>1. parallelism = 0
        BY <1>0, <2>3, <3>1 DEF CallQueues
      <4> QED BY <2>3, <3>1, <4>1 DEF CallQueues, LeaveQueued
    <3>2. CASE CallThrows(j)
      BY <2>3, <3>2 DEF CallThrows, LeaveQueued
    <3> QED BY <1>1, <3>1, <3>2
  <2> QED BY <2>1, <2>2, <2>3 DEF NoStrandedJob
<1>2. ASSUME NEW j \in Job, NEW t \in Thread, CallSpawns(j, t)
      PROVE  NoStrandedJob'
  <2>1. active' = active + 1
    BY <1>2 DEF CallSpawns, StartThread
  <2> QED BY <1>0, <2>1 DEF NoStrandedJob
<1>3. ASSUME NEW t \in Thread, TakeJob(t)
      PROVE  NoStrandedJob'
  <2>1. tpc[t] # "absent" /\ active' = active
    BY <1>3 DEF TakeJob, Take
  <2> QED BY <2>1, LiveThreadCounts DEF NoStrandedJob
<1>4. ASSUME NEW t \in Thread, ExitThread(t)
      PROVE  NoStrandedJob'
  <2>1. queue' = <<>>
    BY <1>4 DEF ExitThread, Exit
  <2> QED BY <2>1, RangeEmpty DEF NoStrandedJob
<1>5. ASSUME NEW t \in Thread, ReturnFromJob(t) \/ ThrowFromJob(t)
      PROVE  NoStrandedJob'
  BY <1>5 DEF ReturnFromJob, ThrowFromJob, state, history, NoStrandedJob
<1>6. ASSUME NEW p \in Parallelisms, SetParallelism(p)
      PROVE  NoStrandedJob'
  BY <1>6 DEF SetParallelism, NoStrandedJob
<1>7. ASSUME WaitEmpty \/ WaitEmptyReturns \/ UNCHANGED vars
      PROVE  NoStrandedJob'
  BY <1>7 DEF WaitEmpty, WaitEmptyReturns, vars, state, threads, history,
              NoStrandedJob
<1> QED BY <1>1, <1>2, <1>3, <1>4, <1>5, <1>6, <1>7, NextCases

LEMMA WaitNext ==
  IInv /\ [Next]_vars => WaitKnown' /\ WaitEmptyMeansDone'
<1> SUFFICES ASSUME IInv, [Next]_vars
             PROVE  WaitKnown' /\ WaitEmptyMeansDone'
  OBVIOUS
<1>0. TypeOK
  BY DEF IInv, IInv1
<1>1. ASSUME WaitEmpty
      PROVE  WaitKnown' /\ WaitEmptyMeansDone'
  BY <1>1 DEF WaitEmpty, WaitKnown, WaitEmptyMeansDone, history
<1>2. ASSUME WaitEmptyReturns
      PROVE  WaitKnown' /\ WaitEmptyMeansDone'
  <2>1. UNCHANGED <<state, threads, waitFor, history>>
    BY <1>2 DEF WaitEmptyReturns
  <2>2. active = 0
    BY <1>0, <1>2, UShortIsNat DEF WaitEmptyReturns, concurrency, TypeOK
  <2>3. Range(queue) \subseteq unserved
    BY <2>2 DEF IInv, NoStrandedJob
  <2>4. \A t \in Thread : tpc[t] # "call"
    BY <2>2, LiveThreadCounts DEF IInv
  <2>5. Range(started) \subseteq finished
    BY <2>4 DEF IInv, Placed, Accounted
  <2>6. Range(submissions) = Range(started) \cup Range(queue)
    BY <1>0, SubmissionsRange DEF IInv, Placed
  <2>7. waitFor \subseteq finished \cup unserved
    BY <2>3, <2>5, <2>6 DEF IInv, WaitKnown
  <2> QED BY <2>1, <2>7 DEF IInv, WaitKnown, WaitEmptyMeansDone, history
<1>3. ASSUME UNCHANGED waitState,
             finished \subseteq finished', unserved \subseteq unserved',
             Range(submissions) \subseteq Range(submissions')
      PROVE  WaitKnown' /\ WaitEmptyMeansDone'
  BY <1>3 DEF IInv, WaitKnown, WaitEmptyMeansDone, waitState
<1>4. ASSUME NEW j \in Job, Enqueue(j)
      PROVE  /\ Range(submissions) \subseteq Range(submissions')
             /\ UNCHANGED <<waitState, finished>>
  BY <1>0, <1>4, RangeAppend DEF Enqueue, EnqueueAt, TypeOK
<1>5. ASSUME NEW j \in Job, CallQueues(j) \/ CallThrows(j)
      PROVE  WaitKnown' /\ WaitEmptyMeansDone'
  <2>1. Enqueue(j) /\ unserved \subseteq unserved'
    BY <1>5 DEF CallQueues, CallThrows, LeaveQueued
  <2> QED BY <2>1, <1>3, <1>4
<1>6. ASSUME NEW j \in Job, NEW t \in Thread, CallSpawns(j, t)
      PROVE  WaitKnown' /\ WaitEmptyMeansDone'
  <2>1. Enqueue(j) /\ UNCHANGED unserved
    BY <1>6 DEF CallSpawns, StartThread
  <2> QED BY <2>1, <1>3, <1>4
<1>7. ASSUME NEW t \in Thread, TakeJob(t) \/ ExitThread(t)
      PROVE  WaitKnown' /\ WaitEmptyMeansDone'
  BY <1>3, <1>7 DEF TakeJob, Take, ExitThread, Exit, history
<1>8. ASSUME NEW t \in Thread, ReturnFromJob(t) \/ ThrowFromJob(t)
      PROVE  WaitKnown' /\ WaitEmptyMeansDone'
  BY <1>3, <1>8 DEF ReturnFromJob, ThrowFromJob, history
<1>9. ASSUME NEW p \in Parallelisms, SetParallelism(p)
      PROVE  WaitKnown' /\ WaitEmptyMeansDone'
  BY <1>3, <1>9 DEF SetParallelism
<1>10. ASSUME UNCHANGED vars
       PROVE  WaitKnown' /\ WaitEmptyMeansDone'
  BY <1>3, <1>10 DEF vars, history
<1> QED BY <1>1, <1>2, <1>5, <1>6, <1>7, <1>8, <1>9, <1>10, NextCases

LEMMA IInvNext == IInv /\ [Next]_vars => IInv'
BY CountNext, PlacedNext, NoStrandedNext, WaitNext DEF IInv, IInv1

LEMMA IInvHolds == Spec => []IInv
BY IInvInit, IInvNext, PTL DEF Spec

\* No lost job: with no thread left, the queue holds only jobs for which no
\* thread could be started.
THEOREM WorkerLosesNoJob == Spec => []NoStrandedJob
<1>1. IInv => NoStrandedJob
  BY DEF IInv
<1> QED BY <1>1, IInvHolds, PTL

\* Jobs are taken in the order in which they were submitted.
THEOREM WorkerIsFifo == Spec => []FifoStart
<1>1. IInv => FifoStart
  BY DEF IInv, Placed
<1> QED BY <1>1, IInvHolds, PTL

\* No job is run by two threads, or twice.
THEOREM WorkerRunsOnce == Spec => []RunsOnce
<1>1. IInv => RunsOnce
  BY DEF IInv, Placed, InHand, RunsOnce
<1> QED BY <1>1, IInvHolds, PTL

\* wait_empty_ returns only when what was submitted before it has run.
THEOREM WorkerWaitIsSound == Spec => []WaitEmptyMeansDone
<1>1. IInv => WaitEmptyMeansDone
  BY DEF IInv
<1> QED BY <1>1, IInvHolds, PTL

-----------------------------------------------------------------------------
(* The worker implements the pool of jobs.                                 *)

Callers == {u \in Thread : tpc[u] = "call"}

\* Distinct or not, the jobs being run are no more than the threads that run
\* them, and the thread about to take a job is not one of those.
LEMMA RunningBound ==
  ASSUME IInv, NEW t \in Thread, tpc[t] = "take"
  PROVE  Cardinality(Running) < peak
<1>1. IsFiniteSet(Callers) /\ Cardinality(Callers) <= Cardinality(Live \ {t})
  <2>1. Callers \subseteq Live \ {t}
    BY DEF Callers, Live
  <2>2. IsFiniteSet(Live \ {t})
    BY LiveIsFinite, FS_RemoveElement
  <2> QED BY <2>1, <2>2, FS_Subset
<1>2. Cardinality(Live \ {t}) = Cardinality(Live) - 1
  BY LiveIsFinite, FS_RemoveElement DEF Live
<1>3. IsFiniteSet(Running) /\ Cardinality(Running) <= Cardinality(Callers)
  <2> DEFINE f == [u \in Callers |-> tjob[u]]
  <2>1. f \in Surjection(Callers, Running)
    BY DEF Surjection, Running, Callers
  <2> QED BY <2>1, <1>1, FS_Surjection
<1>4. Cardinality(Running) \in Nat /\ Cardinality(Callers) \in Nat
      /\ Cardinality(Live) \in Nat
  BY <1>1, <1>3, LiveIsFinite, FS_CardinalityType
<1>5. Cardinality(Live) <= peak /\ peak \in Nat
  BY UShortIsNat DEF IInv, IInv1, TypeOK, Counted, ActiveCountsThreads
<1> QED BY <1>1, <1>2, <1>3, <1>4, <1>5

LEMMA PoolInitOK == Init => Pool!PoolInit
<1> SUFFICES ASSUME Init PROVE Pool!PoolInit
  OBVIOUS
<1>1. Running = {}
  BY DEF Init, Running
<1>2. peak \in Nat
  BY InitialParallelism, UShortIsNat DEF Init
<1> QED BY <1>1, <1>2 DEF Init, Pool!PoolInit

LEMMA PoolAccepts ==
  ASSUME IInv, NEW j \in Job, Enqueue(j),
         \A t \in Thread : tpc'[t] = "call" <=> tpc[t] = "call"
  PROVE  Pool!Accept(j)
<1>1. Running' = Running
  BY DEF Running, Enqueue, EnqueueAt
<1>2. Range(submissions) = Range(started) \cup Range(queue)
  BY SubmissionsRange DEF IInv, IInv1, Placed
<1>3. Running \cup finished \subseteq Range(started)
  BY DEF IInv, Placed, InHand, Running
<1>4. Pool!Range(queue) = Range(queue)
  BY DEF Range, Pool!Range
<1> QED BY <1>1, <1>2, <1>3, <1>4 DEF Enqueue, EnqueueAt, Pool!Accept

LEMMA PoolStep == IInv /\ [Next]_vars => [Pool!PoolNext]_(Pool!poolVars)
<1> SUFFICES ASSUME IInv, [Next]_vars
             PROVE  Pool!PoolNext \/ UNCHANGED Pool!poolVars
  OBVIOUS
<1>0. TypeOK
  BY DEF IInv, IInv1
<1>1. ASSUME NEW j \in Job, CallQueues(j) \/ CallThrows(j)
      PROVE  Pool!PoolNext
  <2>1. Pool!Accept(j)
    BY <1>1, PoolAccepts DEF CallQueues, CallThrows, LeaveQueued
  <2> QED BY <2>1 DEF Pool!PoolNext
<1>2. ASSUME NEW j \in Job, NEW t \in Thread, CallSpawns(j, t)
      PROVE  Pool!PoolNext
  <2>1. \A u \in Thread : tpc'[u] = "call" <=> tpc[u] = "call"
    BY <1>0, <1>2 DEF CallSpawns, StartThread, TypeOK
  <2>2. Enqueue(j)
    BY <1>2 DEF CallSpawns, StartThread
  <2>3. Pool!Accept(j)
    BY <2>1, <2>2, PoolAccepts
  <2> QED BY <2>3 DEF Pool!PoolNext
<1>3. ASSUME NEW t \in Thread, TakeJob(t)
      PROVE  Pool!PoolNext
  <2>1. Cardinality(Running) < peak
    BY <1>3, RunningBound DEF TakeJob, Take
  <2>2. Running' = Running \cup {Head(queue)}
    BY <1>0, <1>3 DEF TakeJob, Take, Running, TypeOK
  <2>3. Pool!Cardinality(Running) = Cardinality(Running)
    BY DEF Cardinality, Pool!Cardinality
  <2>4. Pool!Start
    BY <1>3, <2>1, <2>2, <2>3 DEF TakeJob, Take, Pool!Start
  <2> QED BY <2>4 DEF Pool!PoolNext
<1>4. ASSUME NEW t \in Thread, ExitThread(t)
      PROVE  UNCHANGED Pool!poolVars
  <2>1. Running' = Running
    BY <1>0, <1>4 DEF ExitThread, Exit, Running, TypeOK
  <2> QED BY <1>4, <2>1 DEF ExitThread, Exit, history, Pool!poolVars
<1>5. ASSUME NEW t \in Thread, ReturnFromJob(t)
      PROVE  Pool!PoolNext
  <2>1. tpc[t] = "call" /\ tpc'[t] = "take"
        /\ \A u \in Thread \ {t} : tpc'[u] = tpc[u] /\ tjob'[u] = tjob[u]
    BY <1>0, <1>5 DEF ReturnFromJob, TypeOK
  <2>2. \A u \in Thread \ {t} : tpc[u] = "call" => tjob[u] # tjob[t]
    BY <2>1 DEF IInv, Placed, InHand
  <2>3. Running' = Running \ {tjob[t]} /\ tjob[t] \in Running
    BY <2>1, <2>2 DEF Running
  <2>4. tjob[t] \in Job
    BY <1>0, <2>1, WorkerAssumption DEF TypeOK
  <2>5. Pool!Finish(tjob[t])
    BY <1>5, <2>3 DEF ReturnFromJob, state, Pool!Finish
  <2> QED BY <2>4, <2>5 DEF Pool!PoolNext
<1>6. ASSUME NEW t \in Thread, ThrowFromJob(t)
      PROVE  UNCHANGED Pool!poolVars
  BY <1>6 DEF ThrowFromJob, state, history, Running, Pool!poolVars
<1>7. ASSUME NEW p \in Parallelisms, SetParallelism(p)
      PROVE  Pool!PoolNext
  <2>1. p \in Nat /\ peak \in Nat
    BY <1>0, WorkerAssumption, UShortIsNat DEF TypeOK
  <2>2. peak' \in Nat /\ peak' >= peak
    BY <1>7, <2>1 DEF SetParallelism
  <2>3. Pool!Raise
    BY <1>7, <2>2 DEF SetParallelism, threads, Running, Pool!Raise
  <2> QED BY <2>3 DEF Pool!PoolNext
<1>8. ASSUME WaitEmpty \/ WaitEmptyReturns \/ UNCHANGED vars
      PROVE  UNCHANGED Pool!poolVars
  BY <1>8 DEF WaitEmpty, WaitEmptyReturns, vars, state, threads, history,
              Running, Pool!poolVars
<1> QED BY <1>1, <1>2, <1>3, <1>4, <1>5, <1>6, <1>7, <1>8, NextCases

\* The worker does what the pool of jobs promises: first in, first out, each
\* job once, never more of them running than the highest parallelism set.
THEOREM WorkerImplementsPool == Spec => ImplementsPool
BY PoolInitOK, PoolStep, IInvHolds, PTL DEF Spec, ImplementsPool, Pool!PoolSpec

=============================================================================
