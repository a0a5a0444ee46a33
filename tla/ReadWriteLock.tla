---------------------------- MODULE ReadWriteLock -----------------------------
(***************************************************************************)
(* PART A's reader/writer lock, ReadWriteLocks/rw_lock.c: any number of    *)
(* readers or one writer, one condition variable for both kinds of waiter. *)
(* Every function runs under state_mutex and one action is the code        *)
(* between two points where it gives that mutex up.                        *)
(***************************************************************************)
EXTENDS Integers, FiniteSets

CONSTANTS Threads,
          NULL      \* no thread, the writer_thread of a lock without writer

ASSUME NullIsNoThread == NULL \notin Threads
ASSUME ThreadsFinite == IsFiniteSet(Threads)

VARIABLES is_writer_thread_active, is_reader_thread_active,
          n,                  \* how many threads are inside
          waiting_threads,
          writer_thread,
          cv,                 \* the threads asleep on cv
          call                \* where each thread is with respect to the lock

lockVars == <<is_writer_thread_active, is_reader_thread_active, n, writer_thread>>
vars == <<lockVars, waiting_threads, cv, call>>

CallStates == {"idle", "rd_wait", "reading", "wr_wait", "writing"}
In(state) == {t \in Threads : call[t] = state}
Waiting == In("rd_wait") \cup In("wr_wait")

TypeOK ==
  /\ is_writer_thread_active \in BOOLEAN /\ is_reader_thread_active \in BOOLEAN
  /\ n \in Nat /\ waiting_threads \in Nat
  /\ writer_thread \in Threads \cup {NULL}
  /\ call \in [Threads -> CallStates]
  /\ cv \subseteq Waiting

-------------------------------------------------------------------------------
(* rw_lock_init.  It leaves n and is_writer_thread_active as they are: the *)
(* lock of the test is static and so has zeros there.                      *)
Init ==
  /\ is_writer_thread_active = FALSE /\ is_reader_thread_active = FALSE
  /\ n = 0 /\ waiting_threads = 0
  /\ writer_thread = NULL
  /\ cv = {}
  /\ call = [t \in Threads |-> "idle"]

(* Names with "Wrong" are variants of the definition that follows, each    *)
(* with a slip the code might have; no part of the model uses them.        *)
WrongWriterBlocked == is_writer_thread_active

(* The conditions of the two while loops. *)
ReaderBlocked == is_writer_thread_active
WriterBlocked == is_writer_thread_active \/ is_reader_thread_active

(* pthread_cond_wait: the caller sleeps, first call or not. *)
Sleep(t, state) ==
  /\ cv' = cv \cup {t}
  /\ call' = [call EXCEPT ![t] = state]
  /\ UNCHANGED lockVars

(* The end of rd_lock and of wr_lock, after their loops. *)
ReaderEnters(t) ==
  /\ is_reader_thread_active' = TRUE
  /\ n' = n + 1
  /\ call' = [call EXCEPT ![t] = "reading"]
  /\ UNCHANGED <<is_writer_thread_active, writer_thread, cv>>

WriterEnters(t) ==
  /\ writer_thread' = t
  /\ is_writer_thread_active' = TRUE
  /\ n' = n + 1
  /\ call' = [call EXCEPT ![t] = "writing"]
  /\ UNCHANGED <<is_reader_thread_active, cv>>

(* rd_lock and wr_lock when called, and when cond_wait returns.  A caller  *)
(* that need not wait raises and lowers waiting_threads at once.           *)
RdLock(t) ==
  /\ call[t] = "idle"
  /\ \/ ReaderBlocked /\ Sleep(t, "rd_wait") /\ waiting_threads' = waiting_threads + 1
     \/ ~ReaderBlocked /\ ReaderEnters(t) /\ UNCHANGED waiting_threads

RdRetest(t) ==
  /\ call[t] = "rd_wait" /\ t \notin cv
  /\ \/ ReaderBlocked /\ Sleep(t, "rd_wait") /\ UNCHANGED waiting_threads
     \/ ~ReaderBlocked /\ ReaderEnters(t) /\ waiting_threads' = waiting_threads - 1

WrLock(t) ==
  /\ call[t] = "idle"
  /\ \/ WriterBlocked /\ Sleep(t, "wr_wait") /\ waiting_threads' = waiting_threads + 1
     \/ ~WriterBlocked /\ WriterEnters(t) /\ UNCHANGED waiting_threads

WrRetest(t) ==
  /\ call[t] = "wr_wait" /\ t \notin cv
  /\ \/ WriterBlocked /\ Sleep(t, "wr_wait") /\ UNCHANGED waiting_threads
     \/ ~WriterBlocked /\ WriterEnters(t) /\ waiting_threads' = waiting_threads - 1

(* The broadcast of the last thread to leave, if anybody waits. *)
WrongWakeAll == cv' = IF waiting_threads > 1 THEN {} ELSE cv

WakeAll == cv' = IF waiting_threads > 0 THEN {} ELSE cv

(* rw_lock_unlock: the caller counts as a reader when there is no writer.  *)
WrongReaderLeaves ==   \* clears the flag although other readers stay
  /\ writer_thread = NULL
  /\ n' = n - 1
  /\ is_reader_thread_active' = FALSE
  /\ WakeAll
  /\ UNCHANGED <<is_writer_thread_active, writer_thread>>

ReaderLeaves ==
  /\ writer_thread = NULL
  /\ n' = n - 1
  /\ IF n' = 0 THEN is_reader_thread_active' = FALSE /\ WakeAll
               ELSE UNCHANGED <<is_reader_thread_active, cv>>
  /\ UNCHANGED <<is_writer_thread_active, writer_thread>>

WriterLeaves(t) ==
  /\ writer_thread # NULL
  /\ writer_thread = t      \* the assertion of line 74
  /\ n' = n - 1
  /\ IF n' = 0 THEN is_writer_thread_active' = FALSE /\ writer_thread' = NULL /\ WakeAll
               ELSE UNCHANGED <<is_writer_thread_active, writer_thread, cv>>
  /\ UNCHANGED is_reader_thread_active

Unlock(t) ==
  /\ call[t] \in {"reading", "writing"}
  /\ ReaderLeaves \/ WriterLeaves(t)
  /\ call' = [call EXCEPT ![t] = "idle"]
  /\ UNCHANGED waiting_threads

SpuriousWakeup(t) ==
  /\ t \in cv
  /\ cv' = cv \ {t}
  /\ UNCHANGED <<lockVars, waiting_threads, call>>

Next == \E t \in Threads : \/ RdLock(t) \/ RdRetest(t)
                           \/ WrLock(t) \/ WrRetest(t)
                           \/ Unlock(t) \/ SpuriousWakeup(t)

(* Threads that can run do, and a holder unlocks; nobody has to lock.      *)
Fairness ==
  \A t \in Threads : WF_vars(RdRetest(t)) /\ WF_vars(WrRetest(t)) /\ WF_vars(Unlock(t))

Spec == Init /\ [][Next]_vars /\ Fairness

-------------------------------------------------------------------------------
(* The assertions of the three functions hold whenever a thread reaches    *)
(* them: after its loop no lock function finds a stale writer_thread or    *)
(* flag, and no writer's unlock finds another thread's name.               *)
AssertionsHold ==
  /\ ~ReaderBlocked => writer_thread = NULL
  /\ ~WriterBlocked => writer_thread = NULL
  /\ \A t \in In("writing") : writer_thread = t

(* The flags and the count, set one by one, always describe the same set   *)
(* of threads inside.                                                      *)
FlagsAgree ==
  /\ n = Cardinality(In("reading")) + Cardinality(In("writing"))
  /\ is_reader_thread_active <=> In("reading") # {}
  /\ is_writer_thread_active <=> In("writing") # {}
  /\ waiting_threads = Cardinality(Waiting)

(* Who is inside, as the lock's own variables tell it: writer_thread names *)
(* the writer, if there is one, and a writer is alone.                     *)
HoldersNamed ==
  /\ In("writing") = IF writer_thread = NULL THEN {} ELSE {writer_thread}
  /\ In("reading") # {} => writer_thread = NULL

(* unlock is not told who calls: it takes its branch by writer_thread and  *)
(* broadcasts by n and waiting_threads, so the name, the flags and the     *)
(* counts have to be exact together, however the threads interleave.       *)
Exact == TypeOK /\ FlagsAgree /\ HoldersNamed

(* No wakeup is lost: a thread sleeps only while its loop condition holds. *)
SleepersHaveCause ==
  \A t \in cv : IF call[t] = "rd_wait" THEN ReaderBlocked ELSE WriterBlocked

(* A waiting thread gets the lock or finds it taken again and again.       *)
NeverForgotten ==
  \A t \in Threads :
    /\ []<>(call[t] # "rd_wait" \/ ReaderBlocked)
    /\ []<>(call[t] # "wr_wait" \/ WriterBlocked)

(* It is the lock of RWLockSpec with one writer and no limit on readers.   *)
Abstract == INSTANCE RWLockSpec
              WITH reading <- In("reading"), writing <- In("writing"),
                   MaxReaders <- Cardinality(Threads), MaxWriters <- 1
Refinement == Abstract!Spec
===============================================================================
