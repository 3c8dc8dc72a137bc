--------------------------- MODULE FileLockProofs ---------------------------
(***************************************************************************)
(* Proofs about the lock of a stored file, for any finite set of threads.  *)
(***************************************************************************)
EXTENDS FileLock, FiniteSetTheorems, TLAPS

(***************************************************************************)
(* Who owns a mutex is determined by where the threads are.  This is what  *)
(* makes the safety properties inductive: two threads are never at the     *)
(* test of the while loops together.                                       *)
(***************************************************************************)
Owners == \A t \in Threads :
            /\ order_mtx = t <=> pc[t] \in {"order", "check", "wait", "woken"}
            /\ file_mtx = t <=> pc[t] \in {"check", "entered", "leaving", "left"}

IInv == TypeOK /\ Owners /\ WritersExclude /\ CountersExact /\ NoLostWakeup

-----------------------------------------------------------------------------
\* Subsets of Threads are finite, and their cardinality is 0 only when empty.
LEMMA FiniteInside ==
    /\ IsFiniteSet(Readers) /\ IsFiniteSet(Writers)
    /\ Cardinality(Readers) \in Nat /\ Cardinality(Writers) \in Nat
    /\ Cardinality(Readers) = 0 <=> Readers = {}
    /\ Cardinality(Writers) = 0 <=> Writers = {}
<1>1. Readers \subseteq Threads /\ Writers \subseteq Threads
  BY DEF Readers, Writers, Inside
<1>2. IsFiniteSet(Readers) /\ IsFiniteSet(Writers)
  BY <1>1, FS_Subset, ThreadsAssumption
<1> QED
  BY <1>2, FS_CardinalityType, FS_EmptySet

\* The tests of the while loops, in terms of the threads inside.
LEMMA MustWaitMeaning ==
    ASSUME CountersExact, NEW k \in Kinds
    PROVE  MustWait(k) <=> Writers # {} \/ (k = "writer" /\ Readers # {})
  BY FiniteInside DEF MustWait, CountersExact

\* Steps that move no thread in or out leave the two sets unchanged.
LEMMA InsideUnchanged ==
    ASSUME TypeOK, NEW t \in Threads, NEW l \in Labels,
           pc' = [pc EXCEPT ![t] = l],
           pc[t] \in {"entered", "in", "leaving"} <=> l \in {"entered", "in", "leaving"},
           \/ kind' = kind
           \/ /\ l \notin {"entered", "in", "leaving"}
              /\ \E k \in Kinds : kind' = [kind EXCEPT ![t] = k]
    PROVE  Inside' = Inside /\ Readers' = Readers /\ Writers' = Writers
  BY DEF Inside, Readers, Writers, TypeOK

\* A file just created (create_file) satisfies the invariant.
LEMMA InitIInv == Init => IInv
<1> SUFFICES ASSUME Init PROVE IInv
  OBVIOUS
<1> USE ThreadsAssumption DEF Init
<1>1. TypeOK
  BY DEF TypeOK, Labels, Kinds
<1>2. Owners
  BY DEF Owners
<1>3. Inside = {} /\ Readers = {} /\ Writers = {} /\ Waiters = {}
  BY DEF Inside, Readers, Writers, Waiters
<1>4. WritersExclude /\ CountersExact /\ NoLostWakeup
  BY <1>3, FS_EmptySet DEF WritersExclude, CountersExact, NoLostWakeup
<1> QED
  BY <1>1, <1>2, <1>4 DEF IInv

\* No operation of the lock leaves the types; the counters never go below 0.
LEMMA NextTypeOK == TypeOK /\ Owners /\ CountersExact /\ [Next]_vars => TypeOK'
<1> SUFFICES ASSUME TypeOK, Owners, CountersExact, [Next]_vars PROVE TypeOK'
  OBVIOUS
<1> USE ThreadsAssumption DEF TypeOK, Labels, Kinds, GoTo
<1>1. CASE UNCHANGED vars
  BY <1>1 DEF vars
<1>2. ASSUME NEW t \in Threads, NEW k \in Kinds, LockOrder(t, k) PROVE TypeOK'
  BY <1>2 DEF LockOrder
<1>3. ASSUME NEW t \in Threads, LockFile(t) PROVE TypeOK'
  BY <1>3 DEF LockFile
<1>4. ASSUME NEW t \in Threads, CondWait(t) PROVE TypeOK'
  BY <1>4 DEF CondWait
<1>5. ASSUME NEW t \in Threads, Enter(t) PROVE TypeOK'
  BY <1>5 DEF Enter
<1>6. ASSUME NEW t \in Threads, UnlockFile(t) PROVE TypeOK'
  BY <1>6 DEF UnlockFile
<1>7. ASSUME NEW t \in Threads, LockToLeave(t) PROVE TypeOK'
  BY <1>7 DEF LockToLeave
<1>8. ASSUME NEW t \in Threads, LeaveReader(t) PROVE TypeOK'
  <2>1. t \in Readers
    BY <1>8 DEF LeaveReader, Readers, Inside
  <2>2. n_readers # 0
    BY <2>1, FiniteInside DEF CountersExact
  <2> QED
    BY <1>8, <2>2 DEF LeaveReader, SignalAndGo, Waiters
<1>9. ASSUME NEW t \in Threads, LeaveWriter(t) PROVE TypeOK'
  <2>1. t \in Writers
    BY <1>9 DEF LeaveWriter, Writers, Inside
  <2>2. n_writers # 0
    BY <2>1, FiniteInside DEF CountersExact
  <2> QED
    BY <1>9, <2>2 DEF LeaveWriter, SignalAndGo, Waiters
<1>10. ASSUME NEW t \in Threads, SpuriousWakeup(t) PROVE TypeOK'
  BY <1>10 DEF SpuriousWakeup
<1> QED
  BY <1>1, <1>2, <1>3, <1>4, <1>5, <1>6, <1>7, <1>8, <1>9, <1>10 DEF Next, Step

\* Every operation hands the mutexes over as the positions of the threads say.
LEMMA NextOwners == TypeOK /\ Owners /\ [Next]_vars => Owners'
<1> SUFFICES ASSUME TypeOK, Owners, [Next]_vars PROVE Owners'
  OBVIOUS
<1> USE ThreadsAssumption DEF TypeOK, Owners, GoTo
<1>1. CASE UNCHANGED vars
  BY <1>1 DEF vars
<1>2. ASSUME NEW t \in Threads, NEW k \in Kinds, LockOrder(t, k) PROVE Owners'
  BY <1>2 DEF LockOrder
<1>3. ASSUME NEW t \in Threads, LockFile(t) PROVE Owners'
  BY <1>3 DEF LockFile
<1>4. ASSUME NEW t \in Threads, CondWait(t) PROVE Owners'
  BY <1>4 DEF CondWait
<1>5. ASSUME NEW t \in Threads, Enter(t) PROVE Owners'
  BY <1>5 DEF Enter
<1>6. ASSUME NEW t \in Threads, UnlockFile(t) PROVE Owners'
  BY <1>6 DEF UnlockFile
<1>7. ASSUME NEW t \in Threads, LockToLeave(t) PROVE Owners'
  BY <1>7 DEF LockToLeave
<1>8. ASSUME NEW t \in Threads, pc[t] = "leaving", UNCHANGED <<order_mtx, file_mtx>>,
             SignalAndGo(t) \/ GoTo(t, "left")
      PROVE  Owners'
  <2>1. CASE GoTo(t, "left")
    BY <1>8, <2>1
  <2>2. ASSUME NEW w \in Waiters, pc' = [pc EXCEPT ![t] = "left", ![w] = "woken"]
        PROVE  Owners'
    BY <1>8, <2>2 DEF Waiters
  <2> QED
    BY <1>8, <2>1, <2>2 DEF SignalAndGo
<1>9. ASSUME NEW t \in Threads, LeaveReader(t) PROVE Owners'
  BY <1>8, <1>9 DEF LeaveReader
<1>10. ASSUME NEW t \in Threads, LeaveWriter(t) PROVE Owners'
  BY <1>8, <1>10 DEF LeaveWriter
<1>11. ASSUME NEW t \in Threads, SpuriousWakeup(t) PROVE Owners'
  BY <1>11 DEF SpuriousWakeup
<1> QED
  BY <1>1, <1>2, <1>3, <1>4, <1>5, <1>6, <1>7, <1>9, <1>10, <1>11 DEF Next, Step

-----------------------------------------------------------------------------
\* What a thread that goes in adds to the two sets.
LEMMA EnterAdds ==
    ASSUME TypeOK, NEW t \in Threads, Enter(t)
    PROVE  /\ t \notin Inside
           /\ Inside' = Inside \cup {t}
           /\ Readers' = IF kind[t] = "reader" THEN Readers \cup {t} ELSE Readers
           /\ Writers' = IF kind[t] = "writer" THEN Writers \cup {t} ELSE Writers
  BY DEF TypeOK, Enter, GoTo, Inside, Readers, Writers, Kinds

\* What a thread that comes out takes away from them, whoever it wakes.
LEMMA LeaveRemoves ==
    ASSUME TypeOK, NEW t \in Threads, LeaveReader(t) \/ LeaveWriter(t)
    PROVE  /\ t \in Inside
           /\ Inside' = Inside \ {t}
           /\ Readers' = Readers \ {t}
           /\ Writers' = Writers \ {t}
           /\ Waiters' \subseteq Waiters
<1>1. pc[t] = "leaving" /\ kind' = kind /\ (SignalAndGo(t) \/ GoTo(t, "left"))
  BY DEF LeaveReader, LeaveWriter
<1>2. CASE GoTo(t, "left")
  BY <1>1, <1>2 DEF GoTo, TypeOK, Inside, Readers, Writers, Waiters
<1>3. ASSUME NEW w \in Waiters, pc' = [pc EXCEPT ![t] = "left", ![w] = "woken"]
      PROVE  /\ Inside' = Inside \ {t}
             /\ Readers' = Readers \ {t} /\ Writers' = Writers \ {t}
             /\ Waiters' \subseteq Waiters
  BY <1>1, <1>3 DEF TypeOK, Inside, Readers, Writers, Waiters
<1> QED
  BY <1>1, <1>2, <1>3 DEF SignalAndGo, Inside

\* The steps that change neither the threads inside nor the counters.
Quiet(t) == \/ \E k \in Kinds : LockOrder(t, k)
            \/ LockFile(t)
            \/ CondWait(t)
            \/ UnlockFile(t)
            \/ LockToLeave(t)
            \/ SpuriousWakeup(t)

\* The operations that neither count a thread nor uncount it.
LEMMA QuietInside ==
    ASSUME TypeOK, NEW t \in Threads, Quiet(t)
    PROVE  /\ Inside' = Inside /\ Readers' = Readers /\ Writers' = Writers
           /\ n_readers' = n_readers /\ n_writers' = n_writers
<1> USE DEF GoTo, Labels
<1>1. ASSUME NEW k \in Kinds, LockOrder(t, k)
      PROVE  Inside' = Inside /\ Readers' = Readers /\ Writers' = Writers
  BY <1>1, InsideUnchanged DEF LockOrder
<1>2. CASE LockFile(t)
  BY <1>2, InsideUnchanged DEF LockFile
<1>3. CASE CondWait(t)
  BY <1>3, InsideUnchanged DEF CondWait
<1>4. CASE UnlockFile(t)
  BY <1>4, InsideUnchanged DEF UnlockFile
<1>5. CASE LockToLeave(t)
  BY <1>5, InsideUnchanged DEF LockToLeave
<1>6. CASE SpuriousWakeup(t)
  BY <1>6, InsideUnchanged DEF SpuriousWakeup
<1>7. n_readers' = n_readers /\ n_writers' = n_writers
  BY DEF Quiet, LockOrder, LockFile, CondWait, UnlockFile, LockToLeave, SpuriousWakeup
<1> QED
  BY <1>1, <1>2, <1>3, <1>4, <1>5, <1>6, <1>7 DEF Quiet

\* A step is quiet, or a thread enters, or one leaves.
LEMMA NextCases ==
    ASSUME [Next]_vars
    PROVE  \/ UNCHANGED vars
           \/ \E t \in Threads : Quiet(t) \/ Enter(t) \/ LeaveReader(t) \/ LeaveWriter(t)
  BY DEF Next, Step, Quiet

\* The increments and decrements of the four functions keep the counters exact.
LEMMA NextCounters == TypeOK /\ CountersExact /\ [Next]_vars => CountersExact'
<1> SUFFICES ASSUME TypeOK, CountersExact, [Next]_vars PROVE CountersExact'
  OBVIOUS
<1>1. CASE UNCHANGED vars
  BY <1>1 DEF vars, CountersExact, Readers, Writers, Inside
<1>2. ASSUME NEW t \in Threads, Quiet(t) PROVE CountersExact'
  BY <1>2, QuietInside DEF CountersExact
<1>3. ASSUME NEW t \in Threads, Enter(t) PROVE CountersExact'
  <2>1. t \notin Readers /\ t \notin Writers
    BY <1>3, EnterAdds DEF Readers, Writers
  <2>2. /\ Cardinality(Readers \cup {t}) = Cardinality(Readers) + 1
        /\ Cardinality(Writers \cup {t}) = Cardinality(Writers) + 1
    BY <2>1, FiniteInside, FS_AddElement
  <2> QED
    BY <1>3, <2>2, EnterAdds DEF Enter, CountersExact
<1>4. ASSUME NEW t \in Threads, LeaveReader(t) PROVE CountersExact'
  <2>1. t \in Readers /\ t \notin Writers
    BY <1>4, LeaveRemoves DEF LeaveReader, Readers, Writers
  <2>2. Cardinality(Readers \ {t}) = Cardinality(Readers) - 1
    BY <2>1, FiniteInside, FS_RemoveElement
  <2>3. Writers \ {t} = Writers
    BY <2>1
  <2> QED
    BY <1>4, <2>2, <2>3, LeaveRemoves DEF LeaveReader, CountersExact
<1>5. ASSUME NEW t \in Threads, LeaveWriter(t) PROVE CountersExact'
  <2>1. t \in Writers /\ t \notin Readers
    BY <1>5, LeaveRemoves DEF LeaveWriter, Readers, Writers
  <2>2. Cardinality(Writers \ {t}) = Cardinality(Writers) - 1
    BY <2>1, FiniteInside, FS_RemoveElement
  <2>3. Readers \ {t} = Readers
    BY <2>1
  <2> QED
    BY <1>5, <2>2, <2>3, LeaveRemoves DEF LeaveWriter, CountersExact
<1> QED
  BY <1>1, <1>2, <1>3, <1>4, <1>5, NextCases

\* Whoever is inside is a reader or a writer.
LEMMA InsideSplit == ASSUME TypeOK PROVE Inside = Readers \cup Writers
  BY DEF TypeOK, Kinds, Inside, Readers, Writers

\* The tests of the while loops keep a writer alone.
LEMMA NextExclude ==
    TypeOK /\ CountersExact /\ WritersExclude /\ [Next]_vars => WritersExclude'
<1> SUFFICES ASSUME TypeOK, CountersExact, WritersExclude, [Next]_vars
             PROVE  WritersExclude'
  OBVIOUS
<1>1. CASE UNCHANGED vars
  BY <1>1 DEF vars, WritersExclude, Writers, Inside
<1>2. ASSUME NEW t \in Threads, Quiet(t) PROVE WritersExclude'
  BY <1>2, QuietInside DEF WritersExclude
<1>3. ASSUME NEW t \in Threads, Enter(t) PROVE WritersExclude'
  <2>1. Writers = {} /\ (kind[t] = "writer" => Readers = {})
    BY <1>3, MustWaitMeaning DEF Enter, TypeOK
  <2>2. CASE kind[t] = "reader"
    BY <1>3, <2>1, <2>2, EnterAdds DEF WritersExclude
  <2>3. CASE kind[t] = "writer"
    BY <1>3, <2>1, <2>3, EnterAdds, InsideSplit DEF WritersExclude
  <2> QED
    BY <2>2, <2>3 DEF TypeOK, Kinds
<1>4. ASSUME NEW t \in Threads, LeaveReader(t) \/ LeaveWriter(t) PROVE WritersExclude'
  BY <1>4, LeaveRemoves DEF WritersExclude
<1> QED
  BY <1>1, <1>2, <1>3, <1>4, NextCases

\* Only the owner of order_mtx can be asleep on access_cond.
LEMMA OwnersOneWaiter == Owners => OneWaiter
  BY DEF Owners, OneWaiter, Waiters

\* A signal therefore leaves nobody asleep.
LEMMA SignalEmpties ==
    ASSUME TypeOK, OneWaiter, NEW t \in Threads, pc[t] = "leaving", SignalAndGo(t)
    PROVE  Waiters' = {}
<1>1. CASE Waiters = {} /\ GoTo(t, "left")
  BY <1>1 DEF TypeOK, GoTo, Waiters
<1>2. ASSUME NEW w \in Waiters, pc' = [pc EXCEPT ![t] = "left", ![w] = "woken"]
      PROVE  Waiters' = {}
  BY <1>2 DEF TypeOK, OneWaiter, Waiters
<1> QED
  BY <1>1, <1>2 DEF SignalAndGo

\* Whoever makes a waiting condition false also wakes the waiter.
LEMMA NextNoLostWakeup == IInv /\ [Next]_vars => NoLostWakeup'
<1> SUFFICES ASSUME IInv, [Next]_vars PROVE NoLostWakeup'
  OBVIOUS
<1> USE DEF IInv
<1>0. OneWaiter
  BY OwnersOneWaiter
<1>1. CASE UNCHANGED vars
  BY <1>1 DEF vars, NoLostWakeup, Waiters, MustWait
<1>2. ASSUME NEW t \in Threads, Quiet(t) PROVE NoLostWakeup'
  <2>1. CASE CondWait(t)
    BY <2>1 DEF CondWait, GoTo, TypeOK, NoLostWakeup, Waiters, MustWait
  <2>2. CASE ~CondWait(t)
    <3>1. Waiters' \subseteq Waiters /\ \A w \in Waiters : kind'[w] = kind[w]
      BY <1>2, <2>2 DEF Quiet, LockOrder, LockFile, UnlockFile, LockToLeave,
                        SpuriousWakeup, GoTo, TypeOK, Waiters
    <3> QED
      BY <1>2, <3>1, QuietInside DEF NoLostWakeup, MustWait
  <2> QED
    BY <2>1, <2>2
<1>3. ASSUME NEW t \in Threads, Enter(t) PROVE NoLostWakeup'
  BY <1>3 DEF Enter, GoTo, TypeOK, NoLostWakeup, Waiters, MustWait
<1>4. ASSUME NEW t \in Threads, LeaveReader(t) PROVE NoLostWakeup'
  <2>1. CASE n_readers' = 0
    BY <1>0, <1>4, <2>1, SignalEmpties DEF LeaveReader, NoLostWakeup
  <2>2. CASE n_readers' # 0
    <3>1. t \in Readers /\ Inside # {}
      BY <1>4 DEF LeaveReader, Readers, Inside
    <3>2. t \notin Writers /\ Writers = {}
      BY <3>1 DEF WritersExclude, Readers, Writers
    <3>3. n_writers = 0
      BY <3>2, FiniteInside DEF CountersExact
    <3>4. n_readers' > 0
      BY <1>4, <2>2, <3>1, FiniteInside DEF LeaveReader, CountersExact, TypeOK
    <3>5. \A w \in Waiters : kind[w] = "writer"
      BY <3>3 DEF NoLostWakeup, MustWait
    <3> QED
      BY <1>4, <3>4, <3>5, LeaveRemoves DEF LeaveReader, NoLostWakeup, MustWait
  <2> QED
    BY <2>1, <2>2
<1>5. ASSUME NEW t \in Threads, LeaveWriter(t) PROVE NoLostWakeup'
  BY <1>0, <1>5, SignalEmpties DEF LeaveWriter, NoLostWakeup
<1> QED
  BY <1>1, <1>2, <1>3, <1>4, <1>5, NextCases

(***************************************************************************)
(* The conjunction is an invariant of the lock.                            *)
(***************************************************************************)
THEOREM Invariant == Safety => []IInv
<1>1. Init => IInv
  BY InitIInv
<1>2. IInv /\ [Next]_vars => IInv'
  BY NextTypeOK, NextOwners, NextCounters, NextExclude, NextNoLostWakeup DEF IInv
<1> QED
  BY <1>1, <1>2, PTL DEF Safety

(***************************************************************************)
(* Types, which include that the unsigned counters never wrap around.      *)
(***************************************************************************)
THEOREM TypeCorrect == Safety => []TypeOK
  BY Invariant, PTL DEF IInv

(***************************************************************************)
(* Any number of readers or one writer: file_locks.c excludes the rest.    *)
(***************************************************************************)
THEOREM Exclusion == Safety => []WritersExclude
  BY Invariant, PTL DEF IInv

(***************************************************************************)
(* n_readers and n_writers count the threads inside.                       *)
(***************************************************************************)
THEOREM Counting == Safety => []CountersExact
  BY Invariant, PTL DEF IInv

(***************************************************************************)
(* No thread sleeps on access_cond without a reason: one signal per unlock *)
(* is enough.                                                              *)
(***************************************************************************)
THEOREM WakeUps == Safety => []NoLostWakeup
  BY Invariant, PTL DEF IInv

(***************************************************************************)
(* At most one thread sleeps on access_cond, so that the single signal     *)
(* cannot wake the wrong one: order_mtx is held during the wait.           *)
(***************************************************************************)
THEOREM SingleWaiter == Safety => []OneWaiter
<1>1. IInv => OneWaiter
  BY OwnersOneWaiter DEF IInv
<1> QED
  BY <1>1, Invariant, PTL

-----------------------------------------------------------------------------
\* The lock of a new file is a free abstract lock.
LEMMA InitRefines == Init => Abs!AbsInit
  BY DEF Init, Abs!AbsInit, Inside, Readers, Writers, Kinds

\* Every operation of the lock is a step of the abstract lock, or none.
LEMMA StepRefines == IInv /\ [Next]_vars => [Abs!AbsNext]_(Abs!absvars)
<1> SUFFICES ASSUME IInv, [Next]_vars
             PROVE  Abs!AbsNext \/ UNCHANGED Abs!absvars
  OBVIOUS
<1> USE DEF IInv
<1>1. CASE UNCHANGED vars
  BY <1>1 DEF vars, Abs!absvars, Readers, Writers, Inside
<1>2. ASSUME NEW t \in Threads, NEW k \in Kinds, LockOrder(t, k) PROVE Abs!AbsNext
  <2>1. Readers' = Readers /\ Writers' = Writers
    BY <1>2, QuietInside DEF Quiet
  <2>2. t \notin Readers \cup Writers
    BY <1>2 DEF LockOrder, Readers, Writers, Inside
  <2>3. Abs!AbsArrive(t, k)
    BY <1>2, <2>1, <2>2 DEF Abs!AbsArrive, LockOrder
  <2> QED
    BY <2>3 DEF Abs!AbsNext, Kinds
<1>3. ASSUME NEW t \in Threads, Quiet(t), \A k \in Kinds : ~LockOrder(t, k)
      PROVE  UNCHANGED Abs!absvars
  BY <1>3, QuietInside DEF Quiet, LockFile, CondWait, UnlockFile, LockToLeave,
                           SpuriousWakeup, Abs!absvars
<1>4. ASSUME NEW t \in Threads, Enter(t) PROVE Abs!AbsNext
  <2>1. Writers = {} /\ (kind[t] = "writer" => Readers = {})
    BY <1>4, MustWaitMeaning DEF Enter, TypeOK
  <2>2. order_mtx = t
    BY <1>4 DEF Enter, Owners
  <2>3. CASE kind[t] = "reader"
    <3>1. Abs!AbsEnterReader(t)
      BY <1>4, <2>1, <2>2, <2>3, EnterAdds DEF Abs!AbsEnterReader, Enter
    <3> QED
      BY <3>1 DEF Abs!AbsNext
  <2>4. CASE kind[t] = "writer"
    <3>1. Abs!AbsEnterWriter(t)
      BY <1>4, <2>1, <2>2, <2>4, EnterAdds DEF Abs!AbsEnterWriter, Enter
    <3> QED
      BY <3>1 DEF Abs!AbsNext
  <2> QED
    BY <2>3, <2>4 DEF TypeOK, Kinds
<1>5. ASSUME NEW t \in Threads, LeaveReader(t) \/ LeaveWriter(t) PROVE Abs!AbsNext
  <2>1. Abs!AbsLeave(t)
    BY <1>5, LeaveRemoves, InsideSplit DEF Abs!AbsLeave, LeaveReader, LeaveWriter
  <2> QED
    BY <2>1 DEF Abs!AbsNext
<1> QED
  BY <1>1, <1>2, <1>3, <1>4, <1>5, NextCases

(***************************************************************************)
(* file_locks.c implements the safety part of RWLock: order_mtx is the     *)
(* door, and a caller is in from the increment of a counter to its         *)
(* decrement.                                                              *)
(***************************************************************************)
THEOREM Refinement == Safety => Abs!AbsSafety
  BY InitRefines, StepRefines, Invariant, PTL DEF Safety, Abs!AbsSafety
=============================================================================
