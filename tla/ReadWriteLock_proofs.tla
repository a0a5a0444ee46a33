------------------------- MODULE ReadWriteLock_proofs -------------------------
(***************************************************************************)
(* Theorems about the lock with one condition variable, for every finite   *)
(* set of threads.                                                         *)
(***************************************************************************)
EXTENDS ReadWriteTest, FiniteSetTheorems, TLAPS

-------------------------------------------------------------------------------
LEMMA InFinite ==
  /\ IsFiniteSet(In("reading")) /\ IsFiniteSet(In("writing"))
  /\ Cardinality(In("reading")) \in Nat /\ Cardinality(In("writing")) \in Nat
<1>1. In("reading") \subseteq Threads /\ In("writing") \subseteq Threads
  BY DEF In
<1>2. IsFiniteSet(In("reading")) /\ IsFiniteSet(In("writing"))
  BY <1>1, ThreadsFinite, FS_Subset
<1> QED
  BY <1>2, FS_CardinalityType

LEMMA EmptyCard == Cardinality({}) = 0
  BY FS_EmptySet

LEMMA OneCard == \A t \in Threads : Cardinality({t}) = 1
  BY FS_Singleton

LEMMA WaitingFinite == IsFiniteSet(Waiting) /\ Cardinality(Waiting) \in Nat
<1>1. Waiting \subseteq Threads
  BY DEF Waiting, In
<1> QED
  BY <1>1, ThreadsFinite, FS_Subset, FS_CardinalityType

(* The thread t goes to the state b: what becomes of the four sets.        *)
LEMMA Move ==
  ASSUME call \in [Threads -> CallStates], NEW t \in Threads, NEW b \in CallStates,
         call' = [call EXCEPT ![t] = b]
  PROVE  /\ call' \in [Threads -> CallStates]
         /\ In("reading")' = IF b = "reading" THEN In("reading") \cup {t} ELSE In("reading") \ {t}
         /\ In("writing")' = IF b = "writing" THEN In("writing") \cup {t} ELSE In("writing") \ {t}
         /\ Waiting' = IF b \in {"rd_wait", "wr_wait"} THEN Waiting \cup {t} ELSE Waiting \ {t}
  BY DEF In, Waiting, CallStates

LEMMA ExactInit == Init => Exact
<1> SUFFICES ASSUME Init PROVE Exact
  OBVIOUS
<1>1. In("reading") = {} /\ In("writing") = {} /\ Waiting = {}
  BY DEF Init, In, Waiting
<1>2. TypeOK
  BY DEF Init, TypeOK, CallStates
<1>3. FlagsAgree
  BY <1>1, FS_EmptySet DEF Init, FlagsAgree
<1> QED
  BY <1>1, <1>2, <1>3 DEF Init, Exact, HoldersNamed

(* A caller goes to sleep, in rd_lock or in wr_lock.                       *)
LEMMA ExactSleep ==
  ASSUME Exact, NEW t \in Threads, NEW s \in {"rd_wait", "wr_wait"}, Sleep(t, s),
         \/ call[t] = "idle" /\ waiting_threads' = waiting_threads + 1
         \/ call[t] = s /\ UNCHANGED waiting_threads
  PROVE  Exact'
<1>1. /\ call' = [call EXCEPT ![t] = s] /\ cv' = cv \cup {t}
      /\ UNCHANGED <<is_writer_thread_active, is_reader_thread_active, n, writer_thread>>
  BY DEF Sleep, lockVars
<1>2. /\ call' \in [Threads -> CallStates]
      /\ In("reading")' = In("reading") /\ In("writing")' = In("writing")
      /\ Waiting' = Waiting \cup {t}
  BY <1>1, Move DEF Exact, TypeOK, CallStates, In
<1>3. waiting_threads' = Cardinality(Waiting')
  <2>1. CASE call[t] = "idle" /\ waiting_threads' = waiting_threads + 1
    <3>1. t \notin Waiting
      BY <2>1 DEF Waiting, In
    <3> QED
      BY <1>2, <2>1, <3>1, WaitingFinite, FS_AddElement DEF Exact, FlagsAgree
  <2>2. CASE call[t] = s /\ UNCHANGED waiting_threads
    <3>1. t \in Waiting
      BY <2>2 DEF Waiting, In
    <3>2. Waiting' = Waiting
      BY <1>2, <3>1
    <3> QED
      BY <2>2, <3>2 DEF Exact, FlagsAgree
  <2> QED
    BY <2>1, <2>2
<1>4. waiting_threads' \in Nat
  BY DEF Exact, TypeOK
<1>5. TypeOK'
  BY <1>1, <1>2, <1>4 DEF Exact, TypeOK
<1>6. FlagsAgree'
  BY <1>1, <1>2, <1>3 DEF Exact, FlagsAgree
<1>7. HoldersNamed'
  BY <1>1, <1>2 DEF Exact, HoldersNamed
<1> QED
  BY <1>5, <1>6, <1>7 DEF Exact

(* waiting_threads follows a thread that gets in.                          *)
LEMMA WaitingAfterEntry ==
  ASSUME Exact, NEW t \in Threads, NEW s \in {"reading", "writing"},
         call' = [call EXCEPT ![t] = s], cv' = cv,
         \/ call[t] = "idle" /\ UNCHANGED waiting_threads
         \/ /\ call[t] \in {"rd_wait", "wr_wait"} /\ t \notin cv
            /\ waiting_threads' = waiting_threads - 1
  PROVE  /\ waiting_threads' = Cardinality(Waiting') /\ waiting_threads' \in Nat
         /\ cv' \subseteq Waiting'
<1>1. Waiting' = Waiting \ {t}
  BY Move DEF Exact, TypeOK, CallStates
<1>2. CASE call[t] = "idle" /\ UNCHANGED waiting_threads
  <2>1. t \notin Waiting
    BY <1>2 DEF Waiting, In
  <2>2. Waiting' = Waiting
    BY <1>1, <2>1
  <2> QED
    BY <1>2, <2>2 DEF Exact, FlagsAgree, TypeOK
<1>3. CASE /\ call[t] \in {"rd_wait", "wr_wait"} /\ t \notin cv
           /\ waiting_threads' = waiting_threads - 1
  <2>1. t \in Waiting
    BY <1>3 DEF Waiting, In
  <2>2. Cardinality(Waiting') = Cardinality(Waiting) - 1 /\ IsFiniteSet(Waiting')
    BY <1>1, <2>1, WaitingFinite, FS_RemoveElement
  <2>3. Cardinality(Waiting') \in Nat
    BY <2>2, FS_CardinalityType
  <2>4. cv' \subseteq Waiting'
    BY <1>1, <1>3 DEF Exact, TypeOK
  <2> QED
    BY <1>3, <2>2, <2>3, <2>4 DEF Exact, FlagsAgree
<1> QED
  BY <1>2, <1>3

LEMMA ExactReaderEnters ==
  ASSUME Exact, NEW t \in Threads, ~ReaderBlocked, ReaderEnters(t),
         \/ call[t] = "idle" /\ UNCHANGED waiting_threads
         \/ call[t] = "rd_wait" /\ t \notin cv /\ waiting_threads' = waiting_threads - 1
  PROVE  Exact'
<1>1. /\ call' = [call EXCEPT ![t] = "reading"] /\ n' = n + 1
      /\ is_reader_thread_active'
      /\ UNCHANGED <<is_writer_thread_active, writer_thread, cv>>
  BY DEF ReaderEnters
<1>2. In("writing") = {} /\ writer_thread = NULL
  BY DEF ReaderBlocked, Exact, FlagsAgree, HoldersNamed
<1>3. t \notin In("reading") /\ t \notin In("writing")
  BY DEF In
<1>4. /\ call' \in [Threads -> CallStates]
      /\ In("reading")' = In("reading") \cup {t} /\ In("writing")' = {}
  BY <1>1, <1>2, Move DEF Exact, TypeOK, CallStates
<1>5. Cardinality(In("reading")') = Cardinality(In("reading")) + 1
  BY <1>3, <1>4, InFinite, FS_AddElement
<1>6. /\ waiting_threads' = Cardinality(Waiting') /\ waiting_threads' \in Nat
      /\ cv' \subseteq Waiting'
  BY <1>1, WaitingAfterEntry
<1>7. TypeOK'
  BY <1>1, <1>4, <1>6 DEF Exact, TypeOK
<1>8. FlagsAgree'
  <2>1. Cardinality(In("writing")) = 0 /\ Cardinality(In("writing")') = 0
    BY <1>2, <1>4, EmptyCard
  <2>2. n' = Cardinality(In("reading")') + Cardinality(In("writing")')
    BY <1>1, <1>5, <2>1, InFinite DEF Exact, FlagsAgree
  <2>3. In("reading")' # {}
    BY <1>4
  <2> QED
    BY <1>1, <1>2, <1>4, <1>6, <2>2, <2>3 DEF Exact, FlagsAgree
<1>9. HoldersNamed'
  BY <1>1, <1>2, <1>4 DEF HoldersNamed
<1> QED
  BY <1>7, <1>8, <1>9 DEF Exact

LEMMA ExactWriterEnters ==
  ASSUME Exact, NEW t \in Threads, ~WriterBlocked, WriterEnters(t),
         \/ call[t] = "idle" /\ UNCHANGED waiting_threads
         \/ call[t] = "wr_wait" /\ t \notin cv /\ waiting_threads' = waiting_threads - 1
  PROVE  Exact'
<1>1. /\ call' = [call EXCEPT ![t] = "writing"] /\ n' = n + 1
      /\ is_writer_thread_active' /\ writer_thread' = t
      /\ UNCHANGED <<is_reader_thread_active, cv>>
  BY DEF WriterEnters
<1>2. In("writing") = {} /\ In("reading") = {} /\ ~is_reader_thread_active
  BY DEF WriterBlocked, Exact, FlagsAgree
<1>3. /\ call' \in [Threads -> CallStates]
      /\ In("reading")' = {} /\ In("writing")' = {t}
  BY <1>1, <1>2, Move DEF Exact, TypeOK, CallStates
<1>4. n = 0 /\ Cardinality(In("reading")') = 0 /\ Cardinality(In("writing")') = 1
  <2>1. Cardinality(In("reading")) = 0 /\ Cardinality(In("writing")) = 0
    BY <1>2, EmptyCard
  <2>2. Cardinality(In("reading")') = 0 /\ Cardinality(In("writing")') = 1
    BY <1>3, EmptyCard, OneCard
  <2> QED
    BY <2>1, <2>2 DEF Exact, FlagsAgree
<1>5. /\ waiting_threads' = Cardinality(Waiting') /\ waiting_threads' \in Nat
      /\ cv' \subseteq Waiting'
  BY <1>1, WaitingAfterEntry
<1>6. TypeOK'
  BY <1>1, <1>3, <1>5 DEF Exact, TypeOK
<1>7. FlagsAgree'
  BY <1>1, <1>2, <1>3, <1>4, <1>5 DEF FlagsAgree
<1>8. HoldersNamed'
  BY <1>1, <1>3, NullIsNoThread DEF HoldersNamed
<1> QED
  BY <1>6, <1>7, <1>8 DEF Exact

(* Which branch of unlock a holder takes, and when it is the last one.     *)
LEMMA UnlockBranch ==
  ASSUME Exact, NEW t \in Threads, Unlock(t)
  PROVE  \/ call[t] = "reading" /\ writer_thread = NULL /\ ReaderLeaves
         \/ call[t] = "writing" /\ writer_thread = t /\ n = 1 /\ WriterLeaves(t)
<1>1. CASE call[t] = "reading"
  <2>1. t \in In("reading")
    BY <1>1 DEF In
  <2>2. writer_thread = NULL
    BY <2>1 DEF Exact, HoldersNamed
  <2> QED
    BY <1>1, <2>2 DEF Unlock, WriterLeaves
<1>2. CASE call[t] = "writing"
  <2>1. t \in In("writing")
    BY <1>2 DEF In
  <2>2. writer_thread = t /\ In("writing") = {t} /\ In("reading") = {}
    BY <2>1, NullIsNoThread DEF Exact, HoldersNamed
  <2>3. n = 1
    BY <2>2, EmptyCard, OneCard DEF Exact, FlagsAgree
  <2> QED
    BY <1>2, <2>2, <2>3, NullIsNoThread DEF Unlock, ReaderLeaves
<1> QED
  BY <1>1, <1>2 DEF Unlock

(* The broadcast leaves nobody asleep, because nobody sleeps uncounted.    *)
LEMMA WakeAllWakes == Exact /\ WakeAll => cv' = {}
<1> SUFFICES ASSUME Exact, WakeAll PROVE cv' = {}
  OBVIOUS
<1>1. CASE waiting_threads > 0
  BY <1>1 DEF WakeAll
<1>2. CASE ~(waiting_threads > 0)
  <2>1. Cardinality(Waiting) = 0
    BY <1>2 DEF Exact, TypeOK, FlagsAgree
  <2>2. Waiting = {}
    BY <2>1, WaitingFinite, FS_EmptySet
  <2> QED
    BY <1>2, <2>2 DEF WakeAll, Exact, TypeOK
<1> QED
  BY <1>1, <1>2

LEMMA ExactUnlock ==
  ASSUME Exact, NEW t \in Threads, Unlock(t)
  PROVE  Exact'
<1>1. call' = [call EXCEPT ![t] = "idle"] /\ UNCHANGED waiting_threads /\ t \notin Waiting
  BY DEF Unlock, Waiting, In
<1>2. /\ call' \in [Threads -> CallStates]
      /\ In("reading")' = In("reading") \ {t} /\ In("writing")' = In("writing") \ {t}
      /\ Waiting' = Waiting
  <2>1. /\ call' \in [Threads -> CallStates]
        /\ In("reading")' = In("reading") \ {t} /\ In("writing")' = In("writing") \ {t}
        /\ Waiting' = Waiting \ {t}
    BY <1>1, Move DEF Exact, TypeOK, CallStates
  <2> QED
    BY <1>1, <2>1
<1>3. CASE call[t] = "reading" /\ writer_thread = NULL /\ ReaderLeaves
  <2>1. n' = n - 1 /\ UNCHANGED <<is_writer_thread_active, writer_thread>>
    BY <1>3 DEF ReaderLeaves
  <2>2. t \in In("reading") /\ t \notin In("writing")
    BY <1>3 DEF In
  <2>3. In("writing") = {} /\ In("writing")' = {}
    BY <1>2, <1>3 DEF Exact, HoldersNamed
  <2>4. Cardinality(In("reading")') = Cardinality(In("reading")) - 1
    BY <1>2, <2>2, InFinite, FS_RemoveElement
  <2>5. IsFiniteSet(In("reading")') /\ Cardinality(In("reading")') \in Nat
    <3>1. IsFiniteSet(In("reading")')
      BY <1>2, InFinite, FS_RemoveElement
    <3> QED
      BY <3>1, FS_CardinalityType
  <2>6. n' = Cardinality(In("reading")') /\ Cardinality(In("writing")') = 0
    <3>1. Cardinality(In("writing")) = 0 /\ Cardinality(In("writing")') = 0
      BY <2>3, EmptyCard
    <3> QED
      BY <2>1, <2>4, <3>1, InFinite DEF Exact, FlagsAgree
  <2>7. n' = 0 <=> In("reading")' = {}
    BY <2>5, <2>6, FS_EmptySet
  <2>8. is_reader_thread_active' \in BOOLEAN /\ (is_reader_thread_active' <=> In("reading")' # {})
    <3>1. CASE n' = 0
      BY <1>3, <2>7, <3>1 DEF ReaderLeaves
    <3>2. CASE n' # 0
      BY <1>3, <2>2, <2>7, <3>2 DEF ReaderLeaves, Exact, TypeOK, FlagsAgree
    <3> QED
      BY <3>1, <3>2
  <2>9. cv' \subseteq cv
    BY <1>3 DEF ReaderLeaves, WakeAll
  <2>10. TypeOK'
    BY <1>1, <1>2, <2>1, <2>5, <2>6, <2>8, <2>9 DEF Exact, TypeOK
  <2>11. FlagsAgree'
    BY <1>1, <1>2, <2>1, <2>3, <2>5, <2>6, <2>8 DEF Exact, FlagsAgree
  <2>12. HoldersNamed'
    BY <1>3, <2>1, <2>3 DEF HoldersNamed
  <2> QED
    BY <2>10, <2>11, <2>12 DEF Exact
<1>4. CASE call[t] = "writing" /\ writer_thread = t /\ n = 1 /\ WriterLeaves(t)
  <2>1. /\ n' = 0 /\ ~is_writer_thread_active' /\ is_writer_thread_active' \in BOOLEAN
        /\ writer_thread' = NULL /\ WakeAll
        /\ UNCHANGED is_reader_thread_active
    <3>1. n' = 0
      BY <1>4 DEF WriterLeaves
    <3> QED
      BY <1>4, <3>1 DEF WriterLeaves
  <2>2. In("writing") = {t} /\ In("reading") = {}
    BY <1>4, NullIsNoThread DEF Exact, HoldersNamed
  <2>3. In("writing")' = {} /\ In("reading")' = {}
    BY <1>2, <2>2
  <2>4. cv' = {}
    BY <2>1, WakeAllWakes
  <2>5. TypeOK'
    BY <1>1, <1>2, <2>1, <2>4 DEF Exact, TypeOK
  <2>6. FlagsAgree'
    BY <1>1, <1>2, <2>1, <2>2, <2>3, FS_EmptySet DEF Exact, FlagsAgree
  <2>7. HoldersNamed'
    BY <2>1, <2>3 DEF HoldersNamed
  <2> QED
    BY <2>5, <2>6, <2>7 DEF Exact
<1> QED
  BY <1>3, <1>4, UnlockBranch

LEMMA ExactStep == Exact /\ [Next]_vars => Exact'
<1> SUFFICES ASSUME Exact, [Next]_vars PROVE Exact'
  OBVIOUS
<1>1. ASSUME NEW t \in Threads, RdLock(t) PROVE Exact'
  BY <1>1, ExactSleep, ExactReaderEnters DEF RdLock
<1>2. ASSUME NEW t \in Threads, RdRetest(t) PROVE Exact'
  BY <1>2, ExactSleep, ExactReaderEnters DEF RdRetest
<1>3. ASSUME NEW t \in Threads, WrLock(t) PROVE Exact'
  BY <1>3, ExactSleep, ExactWriterEnters DEF WrLock
<1>4. ASSUME NEW t \in Threads, WrRetest(t) PROVE Exact'
  BY <1>4, ExactSleep, ExactWriterEnters DEF WrRetest
<1>5. ASSUME NEW t \in Threads, SpuriousWakeup(t) PROVE Exact'
  BY <1>5 DEF SpuriousWakeup, lockVars, Exact, TypeOK, FlagsAgree, HoldersNamed, In, Waiting
<1>6. CASE UNCHANGED vars
  BY <1>6 DEF vars, lockVars, Exact, TypeOK, FlagsAgree, HoldersNamed, In, Waiting
<1> QED
  BY <1>1, <1>2, <1>3, <1>4, <1>5, <1>6, ExactUnlock DEF Next

THEOREM ExactInvariant == Spec => []Exact
  BY ExactInit, ExactStep, PTL DEF Spec

(* Type correctness of the lock's state.                                   *)
THEOREM TypeCorrect == Spec => []TypeOK
  BY ExactInvariant, PTL DEF Exact

(* The flags and the count always describe the threads inside.             *)
THEOREM FlagsAlwaysAgree == Spec => []FlagsAgree
  BY ExactInvariant, PTL DEF Exact

(* No assertion of rw_lock.c fails, for any number of threads.             *)
THEOREM AssertionsNeverFail == Spec => []AssertionsHold
<1>1. Exact => AssertionsHold
  <2> SUFFICES ASSUME Exact PROVE AssertionsHold
    OBVIOUS
  <2>1. ~is_writer_thread_active => writer_thread = NULL
    BY DEF Exact, FlagsAgree, HoldersNamed
  <2>2. \A t \in In("writing") : writer_thread = t
    BY DEF Exact, HoldersNamed
  <2> QED
    BY <2>1, <2>2 DEF AssertionsHold, ReaderBlocked, WriterBlocked
<1> QED
  BY <1>1, ExactInvariant, PTL

-------------------------------------------------------------------------------
(* No wakeup is lost: a flag is lowered only together with a broadcast to  *)
(* all.                                                                    *)
LEMMA SleepersStep == Exact /\ SleepersHaveCause /\ [Next]_vars => SleepersHaveCause'
<1> SUFFICES ASSUME Exact, SleepersHaveCause, [Next]_vars PROVE SleepersHaveCause'
  OBVIOUS
<1>0. call \in [Threads -> CallStates] /\ \A u \in cv : u \in Threads /\ call[u] \in {"rd_wait", "wr_wait"}
  BY DEF Exact, TypeOK, Waiting, In
<1>1. ASSUME NEW t \in Threads, RdLock(t) \/ RdRetest(t) PROVE SleepersHaveCause'
  <2>1. CASE ReaderBlocked /\ Sleep(t, "rd_wait")
    BY <1>0, <2>1 DEF Sleep, lockVars, SleepersHaveCause, ReaderBlocked, WriterBlocked
  <2>2. CASE ~ReaderBlocked /\ ReaderEnters(t) /\ t \notin cv
    BY <1>0, <2>2 DEF ReaderEnters, SleepersHaveCause, ReaderBlocked, WriterBlocked
  <2> QED
    BY <1>0, <1>1, <2>1, <2>2 DEF RdLock, RdRetest
<1>2. ASSUME NEW t \in Threads, WrLock(t) \/ WrRetest(t) PROVE SleepersHaveCause'
  <2>1. CASE WriterBlocked /\ Sleep(t, "wr_wait")
    BY <1>0, <2>1 DEF Sleep, lockVars, SleepersHaveCause, ReaderBlocked, WriterBlocked
  <2>2. CASE ~WriterBlocked /\ WriterEnters(t) /\ t \notin cv
    BY <1>0, <2>2 DEF WriterEnters, SleepersHaveCause, ReaderBlocked, WriterBlocked
  <2> QED
    BY <1>0, <1>2, <2>1, <2>2 DEF WrLock, WrRetest
<1>3. ASSUME NEW t \in Threads, Unlock(t) PROVE SleepersHaveCause'
  <2>1. call' = [call EXCEPT ![t] = "idle"] /\ t \notin cv
    BY <1>0, <1>3 DEF Unlock
  <2>2. CASE ReaderLeaves /\ n' = 0
    BY <2>2, WakeAllWakes DEF ReaderLeaves, SleepersHaveCause
  <2>3. CASE ReaderLeaves /\ n' # 0
    BY <1>0, <2>1, <2>3 DEF ReaderLeaves, SleepersHaveCause, ReaderBlocked, WriterBlocked
  <2>4. CASE n = 1 /\ WriterLeaves(t)
    <3>1. WakeAll
      BY <2>4 DEF WriterLeaves
    <3> QED
      BY <3>1, WakeAllWakes DEF SleepersHaveCause
  <2> QED
    BY <1>3, <2>2, <2>3, <2>4, UnlockBranch
<1>4. ASSUME NEW t \in Threads, SpuriousWakeup(t) PROVE SleepersHaveCause'
  BY <1>4 DEF SpuriousWakeup, lockVars, SleepersHaveCause, ReaderBlocked, WriterBlocked
<1>5. CASE UNCHANGED vars
  BY <1>5 DEF vars, lockVars, SleepersHaveCause, ReaderBlocked, WriterBlocked
<1> QED
  BY <1>1, <1>2, <1>3, <1>4, <1>5 DEF Next

THEOREM NoLostWakeup == Spec => []SleepersHaveCause
<1>1. Init => SleepersHaveCause
  BY DEF Init, SleepersHaveCause
<1> QED
  BY <1>1, SleepersStep, ExactInvariant, PTL DEF Spec

-------------------------------------------------------------------------------
(* Every step of the lock is a step of the abstract lock or a stutter.     *)
LEMMA StepRefines == Exact /\ [Next]_vars => [Abstract!Next]_(Abstract!vars)
<1> SUFFICES ASSUME Exact, [Next]_vars
             PROVE  Abstract!Next \/ UNCHANGED Abstract!vars
  BY DEF Abstract!vars
<1>0. call \in [Threads -> CallStates]
  BY DEF Exact, TypeOK
<1>1. ASSUME NEW t \in Threads, NEW s \in {"rd_wait", "wr_wait"}, Sleep(t, s),
             call[t] \in {"idle", "rd_wait", "wr_wait"}
      PROVE  UNCHANGED Abstract!vars
  BY <1>0, <1>1 DEF Sleep, Abstract!vars, In
<1>2. ASSUME NEW t \in Threads, ~ReaderBlocked, ReaderEnters(t), call[t] \in {"idle", "rd_wait"}
      PROVE  Abstract!StartRead(t)
  <2>1. call' = [call EXCEPT ![t] = "reading"] /\ t \notin In("reading") \cup In("writing")
    BY <1>2 DEF ReaderEnters, In
  <2>2. In("reading")' = In("reading") \cup {t} /\ In("writing")' = In("writing")
    BY <1>0, <2>1 DEF In
  <2>3. In("writing") = {}
    BY <1>2 DEF ReaderBlocked, Exact, FlagsAgree
  <2>4. Cardinality(In("reading")) < Cardinality(Threads)
    <3>1. In("reading") \subseteq Threads \ {t}
      BY <2>1 DEF In
    <3>2. /\ IsFiniteSet(Threads \ {t})
          /\ Cardinality(Threads \ {t}) = Cardinality(Threads) - 1
      BY ThreadsFinite, FS_RemoveElement
    <3>3. /\ Cardinality(In("reading")) <= Cardinality(Threads \ {t})
          /\ Cardinality(Threads) \in Nat /\ Cardinality(In("reading")) \in Nat
      BY <3>1, <3>2, ThreadsFinite, InFinite, FS_Subset, FS_CardinalityType
    <3> QED
      BY <3>2, <3>3
  <2> QED
    BY <2>1, <2>2, <2>3, <2>4 DEF Cardinality, Abstract!Cardinality, Abstract!StartRead
<1>3. ASSUME NEW t \in Threads, ~WriterBlocked, WriterEnters(t), call[t] \in {"idle", "wr_wait"}
      PROVE  Abstract!StartWrite(t)
  <2>1. call' = [call EXCEPT ![t] = "writing"] /\ t \notin In("reading") \cup In("writing")
    BY <1>3 DEF WriterEnters, In
  <2>2. In("writing")' = In("writing") \cup {t} /\ In("reading")' = In("reading")
    BY <1>0, <2>1 DEF In
  <2>3. In("writing") = {} /\ In("reading") = {} /\ Cardinality(In("writing")) < 1
    BY <1>3, EmptyCard DEF WriterBlocked, Exact, FlagsAgree
  <2> QED
    BY <2>1, <2>2, <2>3 DEF Cardinality, Abstract!Cardinality, Abstract!StartWrite
<1>4. ASSUME NEW t \in Threads, Unlock(t)
      PROVE  Abstract!EndRead(t) \/ Abstract!EndWrite(t)
  <2>1. call[t] \in {"reading", "writing"} /\ call' = [call EXCEPT ![t] = "idle"]
    BY <1>4 DEF Unlock
  <2>2. CASE call[t] = "reading"
    BY <1>0, <2>1, <2>2 DEF In, Abstract!EndRead
  <2>3. CASE call[t] = "writing"
    BY <1>0, <2>1, <2>3 DEF In, Abstract!EndWrite
  <2> QED
    BY <2>1, <2>2, <2>3
<1>5. ASSUME NEW t \in Threads, SpuriousWakeup(t) PROVE UNCHANGED Abstract!vars
  BY <1>5 DEF SpuriousWakeup, Abstract!vars, In
<1>6. CASE UNCHANGED vars
  BY <1>6 DEF vars, Abstract!vars, In
<1>7. ASSUME NEW t \in Threads, RdLock(t) \/ RdRetest(t)
      PROVE  Abstract!StartRead(t) \/ UNCHANGED Abstract!vars
  BY <1>1, <1>2, <1>7 DEF RdLock, RdRetest
<1>8. ASSUME NEW t \in Threads, WrLock(t) \/ WrRetest(t)
      PROVE  Abstract!StartWrite(t) \/ UNCHANGED Abstract!vars
  BY <1>1, <1>3, <1>8 DEF WrLock, WrRetest
<1> QED
  BY <1>4, <1>5, <1>6, <1>7, <1>8 DEF Next, Abstract!Next

(* The lock implements the abstract reader/writer lock with one writer.    *)
THEOREM ImplementsRWLock == Spec => Refinement
<1>1. Init => Abstract!Init
  BY DEF Init, In, Abstract!Init
<1> QED
  BY <1>1, StepRefines, ExactInvariant, PTL DEF Spec, Refinement, Abstract!Spec

-------------------------------------------------------------------------------
(* The test.  A thread is in the lock function, or it holds the lock.      *)
Counted == {t \in Readers : at[t] \in {"check", "leave"}}
WriterCounted == \E t \in Writers : at[t] \in {"check", "leave", "leaving"}

TestPlaces == {"lock", "enter", "entering", "check", "leave", "leaving", "unlock"}

PlacesFit ==
  /\ at \in [Threads -> TestPlaces]
  /\ \A t \in Readers : /\ call[t] = "reading" <=> at[t] # "lock"
                        /\ call[t] \in {"idle", "rd_wait", "reading"}
                        /\ at[t] \notin {"entering", "leaving"}
  /\ \A t \in Writers : /\ call[t] = "writing" <=> at[t] # "lock"
                        /\ call[t] \in {"idle", "wr_wait", "writing"}

(* The counts of the test: the readers between their two updates, and the  *)
(* one writer there can be, whose half-done update has seen the count as   *)
(* it still is.                                                            *)
CountsFit ==
  /\ n_r = Cardinality(Counted)
  /\ n_w = IF WriterCounted THEN 1 ELSE 0
  /\ seen \in [Writers -> {0, 1}]
  /\ \A t \in Writers : /\ at[t] = "entering" => seen[t] = 0
                        /\ at[t] = "leaving" => seen[t] = 1

TestInv == Exact /\ PlacesFit /\ CountsFit

(* One thread holds the lock alone, or only readers hold it.               *)
LEMMA HoldersExclude ==
  ASSUME Exact, PlacesFit, NEW t \in Writers, at[t] # "lock"
  PROVE  \A u \in Threads : u # t => at[u] = "lock"
<1>1. t \in Threads /\ t \in In("writing")
  BY RolesPartitionThreads DEF PlacesFit, In
<1>2. In("writing") = {t} /\ In("reading") = {}
  BY <1>1, NullIsNoThread DEF Exact, HoldersNamed
<1>3. ASSUME NEW u \in Threads, u # t PROVE at[u] = "lock"
  <2>1. u \notin In("writing") /\ u \notin In("reading")
    BY <1>2, <1>3
  <2> QED
    BY <2>1, RolesPartitionThreads DEF PlacesFit, In
<1> QED
  BY <1>3

LEMMA CountedFinite == IsFiniteSet(Counted) /\ Cardinality(Counted) \in Nat
<1>1. Counted \subseteq Threads
  BY RolesPartitionThreads DEF Counted
<1> QED
  BY <1>1, ThreadsFinite, FS_Subset, FS_CardinalityType

LEMMA TestPlacesKept == ASSUME TestInv, [TestNext]_testVars PROVE PlacesFit'
<1> USE RolesPartitionThreads DEF TestInv, PlacesFit, TestPlaces
<1>1. CASE UNCHANGED testVars
  BY <1>1 DEF testVars, vars
<1>2. ASSUME NEW t \in Threads, CallLock(t) PROVE PlacesFit'
  BY <1>2 DEF CallLock, InLock, RdLock, WrLock, Sleep, ReaderEnters, WriterEnters, Exact, TypeOK, CallStates
<1>3. ASSUME NEW t \in Threads, WaitInLock(t) PROVE PlacesFit'
  BY <1>3 DEF WaitInLock, InLock, RdRetest, WrRetest, Sleep, ReaderEnters, WriterEnters, Exact, TypeOK, CallStates
<1>4. ASSUME NEW t \in Threads, ReaderCounts(t) \/ WriterReads(t) \/ WriterCounts(t) \/ ExecuteCS(t)
      PROVE  PlacesFit'
  BY <1>4 DEF ReaderCounts, WriterReads, WriterCounts, ExecuteCS, Goto, vars
<1>5. ASSUME NEW t \in Threads, LeaveLock(t) PROVE PlacesFit'
  BY <1>5 DEF LeaveLock, Goto, Unlock, Exact, TypeOK, CallStates
<1>6. ASSUME NEW t \in Threads, Wakes(t) PROVE PlacesFit'
  BY <1>6 DEF Wakes, SpuriousWakeup
<1> QED
  BY <1>1, <1>2, <1>3, <1>4, <1>5, <1>6 DEF TestNext, Continue

(* A step in the lock leaves the counts alone, and who is counted.         *)
LEMMA CountsUnmoved ==
  ASSUME TestInv, n_r' = n_r, n_w' = n_w, seen' = seen,
         \A t \in Threads :
           \/ at'[t] = at[t]
           \/ at[t] \in {"lock", "unlock"} /\ at'[t] \in {"lock", "enter"}
           \/ at[t] = "check" /\ at'[t] = "leave"
  PROVE  CountsFit'
<1>1. Counted' = Counted /\ (WriterCounted' <=> WriterCounted)
  BY RolesPartitionThreads DEF Counted, WriterCounted
<1> QED
  BY <1>1, RolesPartitionThreads DEF TestInv, CountsFit

LEMMA CountsKept == ASSUME TestInv, [TestNext]_testVars PROVE CountsFit'
<1>1. CASE UNCHANGED testVars
  BY <1>1, CountsUnmoved DEF testVars, counts
<1> USE RolesPartitionThreads
<1>2. ASSUME NEW t \in Threads, CallLock(t) \/ WaitInLock(t) PROVE CountsFit'
  <2>1. at[t] = "lock" /\ (at' = at \/ at' = [at EXCEPT ![t] = "enter"]) /\ UNCHANGED <<n_r, n_w, seen>>
    BY <1>2 DEF CallLock, WaitInLock, InLock, counts
  <2> QED
    BY <2>1, CountsUnmoved DEF TestInv, PlacesFit
<1>3. ASSUME NEW t \in Threads, ExecuteCS(t) \/ LeaveLock(t) \/ Wakes(t) PROVE CountsFit'
  <2>1. /\ \/ at[t] = "check" /\ at' = [at EXCEPT ![t] = "leave"]
           \/ at[t] = "unlock" /\ at' = [at EXCEPT ![t] = "lock"]
           \/ at' = at
        /\ UNCHANGED <<n_r, n_w, seen>>
    BY <1>3 DEF ExecuteCS, LeaveLock, Wakes, Goto, counts
  <2> QED
    BY <2>1, CountsUnmoved DEF TestInv, PlacesFit
<1>4. ASSUME NEW t \in Threads, ReaderCounts(t) PROVE CountsFit'
  <2>1. /\ t \in Readers /\ UNCHANGED <<n_w, seen>>
        /\ \A u \in Writers : at'[u] = at[u]
    BY <1>4 DEF ReaderCounts, Goto, TestInv, PlacesFit
  <2>2. n_r' = Cardinality(Counted')
    <3>1. CASE at[t] = "enter"
      <4>1. Counted' = Counted \cup {t} /\ t \notin Counted /\ n_r' = n_r + 1
        BY <1>4, <2>1, <3>1 DEF ReaderCounts, Goto, Counted, TestInv, PlacesFit
      <4> QED
        BY <4>1, CountedFinite, FS_AddElement DEF TestInv, CountsFit
    <3>2. CASE at[t] = "leave"
      <4>1. Counted' = Counted \ {t} /\ t \in Counted /\ n_r' = n_r - 1
        BY <1>4, <2>1, <3>2 DEF ReaderCounts, Goto, Counted, TestInv, PlacesFit
      <4> QED
        BY <4>1, CountedFinite, FS_RemoveElement DEF TestInv, CountsFit
    <3> QED
      BY <1>4, <3>1, <3>2 DEF ReaderCounts, Goto
  <2>3. WriterCounted' <=> WriterCounted
    BY <2>1 DEF WriterCounted
  <2> QED
    BY <2>1, <2>2, <2>3 DEF TestInv, CountsFit
<1>5. ASSUME NEW t \in Threads, WriterReads(t) \/ WriterCounts(t) PROVE CountsFit'
  <2>1. t \in Writers /\ at[t] # "lock" /\ UNCHANGED n_r
    BY <1>5 DEF WriterReads, WriterCounts, Goto, TestInv, PlacesFit
  <2>2. \A u \in Threads : u # t => at[u] = "lock" /\ at'[u] = "lock"
    BY <1>5, <2>1, HoldersExclude DEF WriterReads, WriterCounts, Goto, TestInv, PlacesFit
  <2>3. Counted' = Counted
    BY <2>1, <2>2 DEF Counted
  <2>4. /\ WriterCounted <=> at[t] \in {"check", "leave", "leaving"}
        /\ WriterCounted' <=> at'[t] \in {"check", "leave", "leaving"}
    BY <2>1, <2>2 DEF WriterCounted
  <2>5. CASE WriterReads(t)
    BY <2>1, <2>2, <2>3, <2>4, <2>5 DEF WriterReads, Goto, TestInv, PlacesFit, CountsFit
  <2>6. CASE WriterCounts(t)
    BY <2>1, <2>2, <2>3, <2>4, <2>6 DEF WriterCounts, Goto, TestInv, PlacesFit, CountsFit
  <2> QED
    BY <1>5, <2>5, <2>6
<1> QED
  BY <1>1, <1>2, <1>3, <1>4, <1>5 DEF TestNext, Continue

(* Each step of the test is one of the lock or leaves it alone.            *)
LEMMA TestStepIsLockStep == ASSUME [TestNext]_testVars PROVE [Next]_vars
  BY DEF TestNext, Continue, CallLock, WaitInLock, ReaderCounts, WriterReads, WriterCounts, ExecuteCS,
     LeaveLock, Wakes, testVars, Next

(* The invariant of the test: places, counts and the lock agree.           *)
THEOREM TestInvariant == TestSpec => []TestInv
<1>1. ASSUME TestInit PROVE TestInv
  <2>1. Exact
    BY <1>1, ExactInit DEF TestInit
  <2>2. PlacesFit
    BY <1>1, RolesPartitionThreads DEF TestInit, Init, PlacesFit, TestPlaces
  <2>3. Counted = {} /\ ~WriterCounted
    BY <1>1, RolesPartitionThreads DEF TestInit, Counted, WriterCounted
  <2>4. CountsFit
    BY <1>1, <2>3, FS_EmptySet, RolesPartitionThreads DEF TestInit, CountsFit
  <2> QED
    BY <2>1, <2>2, <2>4 DEF TestInv
<1>2. ASSUME TestInv, [TestNext]_testVars PROVE TestInv'
  BY <1>2, TestStepIsLockStep, ExactStep, TestPlacesKept, CountsKept DEF TestInv
<1> QED
  BY <1>1, <1>2, PTL DEF TestSpec

(* No assertion of cs_status_check fails, for any number of readers and    *)
(* writers: n_w++ and n_w-- are atomic enough because the lock lets one    *)
(* writer in at a time and no reader beside it.                            *)
THEOREM TestAssertionsHold == TestSpec => []CsStatusHolds
<1>1. ASSUME TestInv PROVE CsStatusHolds
  <2>1. SUFFICES ASSUME NEW t \in Threads, at[t] = "check" PROVE StatusValid
    BY DEF CsStatusHolds
  <2>2. CASE t \in Readers
    <3>1. ~WriterCounted
      BY <1>1, <2>1, <2>2, HoldersExclude, RolesPartitionThreads DEF TestInv, WriterCounted
    <3>2. n_r \in Nat /\ n_r # 0
      <4>1. t \in Counted
        BY <2>1, <2>2 DEF Counted
      <4> QED
        BY <1>1, <4>1, CountedFinite, FS_EmptySet DEF TestInv, CountsFit
    <3> QED
      BY <1>1, <3>1, <3>2 DEF TestInv, CountsFit, StatusValid
  <2>3. CASE t \in Writers
    <3>1. Counted = {}
      BY <1>1, <2>1, <2>3, HoldersExclude, RolesPartitionThreads DEF TestInv, Counted
    <3>2. WriterCounted
      BY <2>1, <2>3 DEF WriterCounted
    <3> QED
      BY <1>1, <3>1, <3>2, FS_EmptySet DEF TestInv, CountsFit, StatusValid
  <2> QED
    BY <2>2, <2>3, RolesPartitionThreads
<1> QED
  BY <1>1, TestInvariant, PTL

(* The test uses the lock as Spec allows: what is proved of the lock holds *)
(* of it in the test.                                                      *)
THEOREM TestKeepsLock == TestSpec => [](Exact /\ SleepersHaveCause) /\ Refinement
<1>1. TestInit => Init /\ Exact /\ SleepersHaveCause /\ Abstract!Init
  BY ExactInit DEF TestInit, Init, SleepersHaveCause, In, Abstract!Init
<1>2. [TestNext]_testVars => [Next]_vars
  BY TestStepIsLockStep
<1> QED
  BY <1>1, <1>2, ExactStep, SleepersStep, StepRefines, PTL DEF TestSpec, Refinement, Abstract!Spec
===============================================================================
