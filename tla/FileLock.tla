------------------------------ MODULE FileLock ------------------------------
(***************************************************************************)
(* The reader-writer lock of one stored file: file_reader_lock,            *)
(* file_reader_unlock, file_writer_lock and file_writer_unlock of          *)
(* src/src/server/file_locks.c, one action per mutex operation.            *)
(*                                                                         *)
(* pc[t] is where thread t is in those functions:                          *)
(*   "out"      not using the lock                                         *)
(*   "order"    holds order_mtx, about to lock file_mtx                    *)
(*   "check"    holds both mutexes, at the test of the while loop          *)
(*   "wait"     in pthread_cond_wait: order_mtx held, file_mtx released    *)
(*   "woken"    awake inside pthread_cond_wait, must relock file_mtx       *)
(*   "entered"  counted, order_mtx released, file_mtx still held           *)
(*   "in"       lock function returned: t reads or writes the file         *)
(*   "leaving"  unlock function holds file_mtx, counter not yet decreased  *)
(*   "left"     counter decreased and signal sent, file_mtx still held     *)
(***************************************************************************)
EXTENDS Integers, FiniteSets

CONSTANTS
    Threads,    \* the threads that use the file
    None        \* "no thread": the owner of a free mutex

ASSUME ThreadsAssumption == IsFiniteSet(Threads) /\ None \notin Threads

VARIABLES
    pc,         \* see above
    kind,       \* kind[t]: "reader" or "writer", the function t called last
    order_mtx,  \* the thread that owns order_mtx, or None
    file_mtx,   \* the thread that owns file_mtx, or None
    n_readers,
    n_writers

vars == <<pc, kind, order_mtx, file_mtx, n_readers, n_writers>>

Kinds == {"reader", "writer"}
Labels == {"out", "order", "check", "wait", "woken", "entered", "in", "leaving", "left"}

(***************************************************************************)
(* create_file zeroes the counters of a new file.                          *)
(***************************************************************************)
Init == /\ pc = [t \in Threads |-> "out"]
        /\ kind \in [Threads -> Kinds]
        /\ order_mtx = None
        /\ file_mtx = None
        /\ n_readers = 0
        /\ n_writers = 0

GoTo(t, l) == pc' = [pc EXCEPT ![t] = l]

\* file_reader_lock / file_writer_lock: lock(order_mtx).
LockOrder(t, k) == /\ pc[t] = "out"
                   /\ order_mtx = None
                   /\ order_mtx' = t
                   /\ kind' = [kind EXCEPT ![t] = k]
                   /\ GoTo(t, "order")
                   /\ UNCHANGED <<file_mtx, n_readers, n_writers>>

\* lock(file_mtx), on the way in or at the end of pthread_cond_wait.
LockFile(t) == /\ pc[t] \in {"order", "woken"}
               /\ file_mtx = None
               /\ file_mtx' = t
               /\ GoTo(t, "check")
               /\ UNCHANGED <<kind, order_mtx, n_readers, n_writers>>

\* Fault: a writer does not wait for readers.
WriterIgnoresReaders(k) == n_writers > 0
\* Fault: a reader does not wait for the writer.
ReaderIgnoresWriter(k) == k = "writer" /\ (n_readers > 0 \/ n_writers > 0)

\* The conditions of the two while loops.
MustWait(k) == \/ n_writers > 0
               \/ k = "writer" /\ n_readers > 0

\* Fault: order_mtx is released before the wait.
CondWaitOutOfOrder(t) == /\ pc[t] = "check"
                         /\ MustWait(kind[t])
                         /\ file_mtx' = None
                         /\ order_mtx' = None
                         /\ GoTo(t, "wait")
                         /\ UNCHANGED <<kind, n_readers, n_writers>>

\* pthread_cond_wait(access_cond, file_mtx): order_mtx stays locked.
CondWait(t) == /\ pc[t] = "check"
               /\ MustWait(kind[t])
               /\ file_mtx' = None
               /\ GoTo(t, "wait")
               /\ UNCHANGED <<kind, order_mtx, n_readers, n_writers>>

\* n_readers++ or n_writers++, then unlock(order_mtx).
Enter(t) == /\ pc[t] = "check"
            /\ ~MustWait(kind[t])
            /\ n_readers' = IF kind[t] = "reader" THEN n_readers + 1 ELSE n_readers
            /\ n_writers' = IF kind[t] = "writer" THEN n_writers + 1 ELSE n_writers
            /\ order_mtx' = None
            /\ GoTo(t, "entered")
            /\ UNCHANGED <<kind, file_mtx>>

\* unlock(file_mtx), the last statement of all four functions.
UnlockFile(t) == /\ pc[t] \in {"entered", "left"}
                 /\ file_mtx' = None
                 /\ GoTo(t, IF pc[t] = "entered" THEN "in" ELSE "out")
                 /\ UNCHANGED <<kind, order_mtx, n_readers, n_writers>>

\* file_reader_unlock / file_writer_unlock: lock(file_mtx).
LockToLeave(t) == /\ pc[t] = "in"
                  /\ file_mtx = None
                  /\ file_mtx' = t
                  /\ GoTo(t, "leaving")
                  /\ UNCHANGED <<kind, order_mtx, n_readers, n_writers>>

\* The threads blocked on access_cond.
Waiters == {t \in Threads : pc[t] = "wait"}

\* Fault: the unlock functions do not signal.
GoWithoutSignal(t) == GoTo(t, "left")

\* t goes to "left"; pthread_cond_signal wakes one waiter, if there is one.
SignalAndGo(t) ==
    \/ Waiters = {} /\ GoTo(t, "left")
    \/ \E w \in Waiters : pc' = [pc EXCEPT ![t] = "left", ![w] = "woken"]

\* Fault: the reader does not decrease its counter.
LeaveUncounted(t) == /\ pc[t] = "leaving"
                     /\ kind[t] = "reader"
                     /\ SignalAndGo(t)
                     /\ UNCHANGED <<kind, order_mtx, file_mtx, n_readers, n_writers>>
\* Fault: the reader decreases the counter of the writers.
LeaveAsWriter(t) == /\ pc[t] = "leaving"
                    /\ kind[t] = "reader"
                    /\ n_writers' = n_writers - 1
                    /\ SignalAndGo(t)
                    /\ UNCHANGED <<kind, order_mtx, file_mtx, n_readers>>
\* Fault: a reader signals when one reader is left, not when none is.
LeaveSignalEarly(t) == /\ pc[t] = "leaving"
                       /\ kind[t] = "reader"
                       /\ n_readers' = n_readers - 1
                       /\ IF n_readers' = 1 THEN SignalAndGo(t) ELSE GoTo(t, "left")
                       /\ UNCHANGED <<kind, order_mtx, file_mtx, n_writers>>

\* file_reader_unlock: only the last reader signals.
LeaveReader(t) == /\ pc[t] = "leaving"
                  /\ kind[t] = "reader"
                  /\ n_readers' = n_readers - 1
                  /\ IF n_readers' = 0 THEN SignalAndGo(t) ELSE GoTo(t, "left")
                  /\ UNCHANGED <<kind, order_mtx, file_mtx, n_writers>>

\* file_writer_unlock.
LeaveWriter(t) == /\ pc[t] = "leaving"
                  /\ kind[t] = "writer"
                  /\ n_writers' = n_writers - 1
                  /\ SignalAndGo(t)
                  /\ UNCHANGED <<kind, order_mtx, file_mtx, n_readers>>

\* POSIX allows pthread_cond_wait to return without a signal.
SpuriousWakeup(t) == /\ pc[t] = "wait"
                     /\ GoTo(t, "woken")
                     /\ UNCHANGED <<kind, order_mtx, file_mtx, n_readers, n_writers>>

\* The steps a thread takes by itself once it has called a lock function.
Step(t) == \/ LockFile(t)
           \/ CondWait(t)
           \/ Enter(t)
           \/ UnlockFile(t)
           \/ LockToLeave(t)
           \/ LeaveReader(t)
           \/ LeaveWriter(t)

Next == \E t \in Threads : \/ \E k \in Kinds : LockOrder(t, k)
                           \/ Step(t)
                           \/ SpuriousWakeup(t)

Safety == Init /\ [][Next]_vars

(***************************************************************************)
(* A thread that can run runs, and one that holds the lock gives it back;  *)
(* nobody has to ask for the lock.  Spurious wake-ups do not go on for     *)
(* ever.  Weak fairness only: a mutex may be won by the same thread again  *)
(* and again.                                                              *)
(***************************************************************************)
Fairness == /\ \A t \in Threads : WF_vars(Step(t))
            /\ <>[][\A t \in Threads : ~SpuriousWakeup(t)]_vars

Spec == Safety /\ Fairness

-----------------------------------------------------------------------------
\* The threads counted as readers, and as writers.
Inside == {t \in Threads : pc[t] \in {"entered", "in", "leaving"}}
Readers == {t \in Inside : kind[t] = "reader"}
Writers == {t \in Inside : kind[t] = "writer"}

(***************************************************************************)
(* Types.  n_readers and n_writers are unsigned in file_t: that they stay  *)
(* naturals says that no unlock makes them wrap around.                    *)
(***************************************************************************)
TypeOK == /\ pc \in [Threads -> Labels]
          /\ kind \in [Threads -> Kinds]
          /\ order_mtx \in Threads \cup {None}
          /\ file_mtx \in Threads \cup {None}
          /\ n_readers \in Nat
          /\ n_writers \in Nat

(***************************************************************************)
(* A file being written is used by nobody else (file_writer_lock).         *)
(***************************************************************************)
WritersExclude == \A w \in Writers : Inside = {w}

(***************************************************************************)
(* The two counters of file_t, changed in four functions, always equal the *)
(* number of threads that really are inside.                               *)
(***************************************************************************)
CountersExact == /\ n_readers = Cardinality(Readers)
                 /\ n_writers = Cardinality(Writers)

(***************************************************************************)
(* No wake-up is lost: a thread sleeping on access_cond still has a reason *)
(* to sleep.  This is what makes one pthread_cond_signal, sent only by the *)
(* last reader and by every writer, enough.                                *)
(***************************************************************************)
NoLostWakeup == \A t \in Waiters : MustWait(kind[t])

(***************************************************************************)
(* At most one thread sleeps on access_cond: order_mtx stays locked during *)
(* the wait.  With two, the single signal could wake the wrong one.        *)
(***************************************************************************)
OneWaiter == \A t, u \in Waiters : t = u

(***************************************************************************)
(* Liveness: a thread that got order_mtx gets the lock, whatever readers   *)
(* do meanwhile (no starvation of writers behind the order mutex).         *)
(***************************************************************************)
OrderHolderEnters == \A t \in Threads : order_mtx = t ~> t \in Inside

(***************************************************************************)
(* The lock implements the promise of RWLock, its fairness included.       *)
(***************************************************************************)
Abs == INSTANCE RWLock WITH door <- order_mtx, want <- kind,
                            readers <- Readers, writers <- Writers
Implements == Abs!AbsSpec
=============================================================================
