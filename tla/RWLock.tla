------------------------------- MODULE RWLock -------------------------------
(***************************************************************************)
(* What the lock of a stored file promises to the request handlers: any    *)
(* number of readers or one writer are inside, and callers are let in one  *)
(* at a time through a door: whoever is at the door is the next one in, so *)
(* that a writer cannot be overtaken for ever by readers.                  *)
(***************************************************************************)
CONSTANTS Threads, None

VARIABLES
    door,       \* the thread that is next to enter, or None
    want,       \* want[t]: "reader" or "writer", what t asks for or holds
    readers,    \* the threads that hold the lock for reading
    writers     \* the threads that hold the lock for writing

absvars == <<door, want, readers, writers>>

AbsInit == /\ door = None
           /\ want \in [Threads -> {"reader", "writer"}]
           /\ readers = {}
           /\ writers = {}

\* A thread outside the lock reaches the door.
AbsArrive(t, k) == /\ door = None
                   /\ t \notin readers \cup writers
                   /\ door' = t
                   /\ want' = [want EXCEPT ![t] = k]
                   /\ UNCHANGED <<readers, writers>>

\* The thread at the door goes in as a reader: no writer is inside.
AbsEnterReader(t) == /\ door = t
                     /\ want[t] = "reader"
                     /\ writers = {}
                     /\ readers' = readers \cup {t}
                     /\ door' = None
                     /\ UNCHANGED <<want, writers>>

\* The thread at the door goes in as a writer: nobody is inside.
AbsEnterWriter(t) == /\ door = t
                     /\ want[t] = "writer"
                     /\ writers = {}
                     /\ readers = {}
                     /\ writers' = {t}
                     /\ door' = None
                     /\ UNCHANGED <<want, readers>>

AbsLeave(t) == /\ t \in readers \cup writers
               /\ readers' = readers \ {t}
               /\ writers' = writers \ {t}
               /\ UNCHANGED <<door, want>>

AbsNext == \E t \in Threads : \/ \E k \in {"reader", "writer"} : AbsArrive(t, k)
                              \/ AbsEnterReader(t)
                              \/ AbsEnterWriter(t)
                              \/ AbsLeave(t)

AbsSafety == AbsInit /\ [][AbsNext]_absvars

(***************************************************************************)
(* Whoever is at the door goes in, and while somebody is at the door those *)
(* inside come out.  With nobody at the door a reader may be kept inside   *)
(* by others that come and go: the mutex it needs to leave is the one they *)
(* use to enter.                                                           *)
(***************************************************************************)
AbsFairness == \A t \in Threads : /\ WF_absvars(AbsEnterReader(t))
                                  /\ WF_absvars(AbsEnterWriter(t))
                                  /\ WF_absvars(door # None /\ AbsLeave(t))

AbsSpec == AbsSafety /\ AbsFairness
=============================================================================
