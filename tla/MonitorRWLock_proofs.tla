------------------------- MODULE MonitorRWLock_proofs -------------------------
(***************************************************************************)
(* Theorems about the monitor lock for every finite set of threads and     *)
(* every pair of positive limits.                                          *)
(***************************************************************************)
EXTENDS MonitorTest, Bridge, FiniteSetTheorems, TLAPS

(* The threads that the assignment f of call states puts in the state s.   *)
At(f, s) == {t \in Threads : f[t] = s}

(* Readers and writers exclude each other in the lock's own counters.      *)
OneSide ==
  /\ readers_active = 0 \/ writers_active = 0
  /\ readers_active <= MaxReaders
  /\ writers_active <= MaxWriters

(* Inductive: unlock decides by the counters, so neither their exactness   *)
(* nor the exclusion is inductive without the other.                       *)
Counted == TypeOK /\ CountersExact /\ OneSide

-------------------------------------------------------------------------------
(* One thread changing its call state moves between two of the sets At and *)
(* leaves the others alone.                                                *)
LEMMA MoveOne ==
  ASSUME call \in [Threads -> CallStates], NEW t \in Threads,
         NEW a, NEW b \in CallStates, call[t] = a, a # b,
         call' = [call EXCEPT ![t] = b]
  PROVE  /\ call' \in [Threads -> CallStates]
         /\ At(call', b) = At(call, b) \cup {t}
         /\ At(call', a) = At(call, a) \ {t}
         /\ \A c \in CallStates : c # a /\ c # b => At(call', c) = At(call, c)
         /\ Cardinality(At(call', b)) = Cardinality(At(call, b)) + 1
         /\ Cardinality(At(call', a)) = Cardinality(At(call, a)) - 1
<1>1. call' \in [Threads -> CallStates]
  OBVIOUS
<1>2. At(call', b) = At(call, b) \cup {t}
  BY DEF At
<1>3. At(call', a) = At(call, a) \ {t}
  BY DEF At
<1>4. \A c \in CallStates : c # a /\ c # b => At(call', c) = At(call, c)
  BY DEF At
<1>5. \A c : IsFiniteSet(At(call, c))
  BY ThreadsFinite, FS_Subset DEF At
<1>6. t \in At(call, a) /\ t \notin At(call, b)
  BY DEF At
<1>7. Cardinality(At(call', b)) = Cardinality(At(call, b)) + 1
  BY <1>2, <1>5, <1>6, FS_AddElement
<1>8. Cardinality(At(call', a)) = Cardinality(At(call, a)) - 1
  BY <1>3, <1>5, <1>6, FS_RemoveElement
<1> QED
  BY <1>1, <1>2, <1>3, <1>4, <1>7, <1>8

(* A thread in a call state makes the number of such threads positive, and *)
(* a positive number has a thread to show for it.                          *)
LEMMA SomeoneIn ==
  ASSUME NEW f \in [Threads -> CallStates], NEW s
  PROVE  /\ Cardinality(At(f, s)) \in Nat
         /\ Cardinality(At(f, s)) > 0 <=> \E t \in Threads : f[t] = s
<1>1. IsFiniteSet(At(f, s))
  BY ThreadsFinite, FS_Subset DEF At
<1>2. Cardinality(At(f, s)) \in Nat
  BY <1>1, FS_CardinalityType
<1>3. Cardinality(At(f, s)) = 0 <=> At(f, s) = {}
  BY <1>1, FS_EmptySet
<1> QED
  BY <1>2, <1>3 DEF At

LEMMA InIsAt == \A s : In(s) = At(call, s)
  BY DEF In, At

LEMMA InIsAtPrimed == \A s : In(s)' = At(call', s)
  BY DEF In, At

-------------------------------------------------------------------------------
(* Which branch of unlock a holder takes: its own, because the counters    *)
(* are exact and one-sided.                                                *)
LEMMA UnlockBranch ==
  ASSUME Counted, NEW t \in Threads, Unlock(t)
  PROVE  \/ call[t] = "reading" /\ ReaderLeaves
         \/ call[t] = "writing" /\ readers_active = 0 /\ writers_active > 0 /\ WriterLeaves
<1>1. CASE call[t] = "reading"
  <2>1. readers_active > 0
    BY <1>1, SomeoneIn, InIsAt DEF Counted, TypeOK, CountersExact
  <2>2. ~WriterLeaves
    BY <2>1 DEF WriterLeaves
  <2> QED
    BY <1>1, <2>2 DEF Unlock
<1>2. CASE call[t] = "writing"
  <2>1. writers_active > 0
    BY <1>2, SomeoneIn, InIsAt DEF Counted, TypeOK, CountersExact
  <2>2. readers_active = 0
    BY <2>1 DEF Counted, OneSide, TypeOK
  <2>3. ~ReaderLeaves
    BY <2>2 DEF ReaderLeaves
  <2> QED
    BY <1>2, <2>1, <2>2, <2>3 DEF Unlock
<1> QED
  BY <1>1, <1>2 DEF Unlock

LEMMA CountedInit == Init => Counted
<1> SUFFICES ASSUME Init PROVE Counted
  OBVIOUS
<1>1. \A s : s # "idle" => In(s) = {}
  BY DEF Init, In
<1>2. TypeOK
  BY DEF Init, TypeOK, CallStates, In
<1>3. CountersExact
  BY <1>1, FS_EmptySet DEF Init, CountersExact
<1>4. OneSide
  BY LimitsPositive DEF Init, OneSide
<1> QED
  BY <1>2, <1>3, <1>4 DEF Counted

(* rd_lock and its retest keep the counters exact and one-sided: whatever   *)
(* moves a counter moves a thread between the states it counts.             *)
LEMMA CountedRdLock ==
  ASSUME Counted, NEW t \in Threads, RdLock(t) \/ RdRetest(t)
  PROVE  Counted'
<1> USE InIsAt, InIsAtPrimed
<1>0. call \in [Threads -> CallStates]
  BY DEF Counted, TypeOK
<1>1. CASE RdLock(t) /\ ReaderBlocked
  <2>1. /\ call[t] = "idle" /\ call' = [call EXCEPT ![t] = "rd_wait"]
        /\ readers_waiting' = readers_waiting + 1 /\ readers_cv' = readers_cv \cup {t}
        /\ UNCHANGED <<readers_active, wvars>>
    BY <1>1 DEF RdLock
  <2>2. /\ call' \in [Threads -> CallStates]
        /\ At(call', "rd_wait") = At(call, "rd_wait") \cup {t}
        /\ \A c \in {"reading", "writing", "wr_wait"} : At(call', c) = At(call, c)
        /\ Cardinality(At(call', "rd_wait")) = Cardinality(At(call, "rd_wait")) + 1
    BY <1>0, <2>1, MoveOne DEF CallStates
  <2>3. TypeOK'
    BY <2>1, <2>2 DEF Counted, TypeOK, wvars, In, At
  <2>4. CountersExact'
    BY <2>1, <2>2 DEF Counted, CountersExact, wvars
  <2>5. OneSide'
    BY <2>1 DEF Counted, OneSide, wvars
  <2> QED
    BY <2>3, <2>4, <2>5 DEF Counted
<1>2. CASE RdLock(t) /\ ~ReaderBlocked
  <2>1. /\ call[t] = "idle" /\ call' = [call EXCEPT ![t] = "reading"]
        /\ readers_active' = readers_active + 1
        /\ UNCHANGED <<readers_waiting, readers_cv, wvars>>
    BY <1>2 DEF RdLock
  <2>2. /\ call' \in [Threads -> CallStates]
        /\ \A c \in {"rd_wait", "writing", "wr_wait"} : At(call', c) = At(call, c)
        /\ Cardinality(At(call', "reading")) = Cardinality(At(call, "reading")) + 1
    BY <1>0, <2>1, MoveOne DEF CallStates
  <2>3. TypeOK'
    BY <2>1, <2>2 DEF Counted, TypeOK, wvars, In, At
  <2>4. CountersExact'
    BY <2>1, <2>2 DEF Counted, CountersExact, wvars
  <2>5. OneSide'
    BY <1>2, <2>1, LimitsPositive DEF Counted, TypeOK, OneSide, wvars, ReaderBlocked
  <2> QED
    BY <2>3, <2>4, <2>5 DEF Counted
<1>3. CASE RdRetest(t) /\ ReaderBlocked
  <2>1. /\ call[t] = "rd_wait" /\ readers_cv' = readers_cv \cup {t}
        /\ UNCHANGED <<readers_active, readers_waiting, call, wvars>>
    BY <1>3 DEF RdRetest
  <2> QED
    BY <2>1 DEF Counted, TypeOK, CountersExact, OneSide, wvars, At
<1>4. CASE RdRetest(t) /\ ~ReaderBlocked
  <2>1. /\ call[t] = "rd_wait" /\ t \notin readers_cv
        /\ call' = [call EXCEPT ![t] = "reading"]
        /\ readers_waiting' = readers_waiting - 1 /\ readers_active' = readers_active + 1
        /\ UNCHANGED <<readers_cv, wvars>>
    BY <1>4 DEF RdRetest
  <2>2. /\ call' \in [Threads -> CallStates]
        /\ At(call', "rd_wait") = At(call, "rd_wait") \ {t}
        /\ \A c \in {"writing", "wr_wait"} : At(call', c) = At(call, c)
        /\ Cardinality(At(call', "reading")) = Cardinality(At(call, "reading")) + 1
        /\ Cardinality(At(call', "rd_wait")) = Cardinality(At(call, "rd_wait")) - 1
    BY <1>0, <2>1, MoveOne DEF CallStates
  <2>3. readers_waiting > 0
    BY <1>0, <2>1, SomeoneIn DEF Counted, CountersExact
  <2>4. TypeOK'
    BY <2>1, <2>2, <2>3 DEF Counted, TypeOK, wvars, In, At
  <2>5. CountersExact'
    BY <2>1, <2>2 DEF Counted, CountersExact, wvars
  <2>6. OneSide'
    BY <1>4, <2>1, LimitsPositive DEF Counted, TypeOK, OneSide, wvars, ReaderBlocked
  <2> QED
    BY <2>4, <2>5, <2>6 DEF Counted
<1> QED
  BY <1>1, <1>2, <1>3, <1>4

(* The same for wr_lock.                                                    *)
LEMMA CountedWrLock ==
  ASSUME Counted, NEW t \in Threads, WrLock(t) \/ WrRetest(t)
  PROVE  Counted'
<1> USE InIsAt, InIsAtPrimed
<1>0. call \in [Threads -> CallStates]
  BY DEF Counted, TypeOK
<1>1. CASE WrLock(t) /\ WriterBlocked
  <2>1. /\ call[t] = "idle" /\ call' = [call EXCEPT ![t] = "wr_wait"]
        /\ writers_waiting' = writers_waiting + 1 /\ writers_cv' = writers_cv \cup {t}
        /\ UNCHANGED <<writers_active, rvars>>
    BY <1>1 DEF WrLock
  <2>2. /\ call' \in [Threads -> CallStates]
        /\ At(call', "wr_wait") = At(call, "wr_wait") \cup {t}
        /\ \A c \in {"writing", "reading", "rd_wait"} : At(call', c) = At(call, c)
        /\ Cardinality(At(call', "wr_wait")) = Cardinality(At(call, "wr_wait")) + 1
    BY <1>0, <2>1, MoveOne DEF CallStates
  <2>3. TypeOK'
    BY <2>1, <2>2 DEF Counted, TypeOK, rvars, In, At
  <2>4. CountersExact'
    BY <2>1, <2>2 DEF Counted, CountersExact, rvars
  <2>5. OneSide'
    BY <2>1 DEF Counted, OneSide, rvars
  <2> QED
    BY <2>3, <2>4, <2>5 DEF Counted
<1>2. CASE WrLock(t) /\ ~WriterBlocked
  <2>1. /\ call[t] = "idle" /\ call' = [call EXCEPT ![t] = "writing"]
        /\ writers_active' = writers_active + 1
        /\ UNCHANGED <<writers_waiting, writers_cv, rvars>>
    BY <1>2 DEF WrLock
  <2>2. /\ call' \in [Threads -> CallStates]
        /\ \A c \in {"wr_wait", "reading", "rd_wait"} : At(call', c) = At(call, c)
        /\ Cardinality(At(call', "writing")) = Cardinality(At(call, "writing")) + 1
    BY <1>0, <2>1, MoveOne DEF CallStates
  <2>3. TypeOK'
    BY <2>1, <2>2 DEF Counted, TypeOK, rvars, In, At
  <2>4. CountersExact'
    BY <2>1, <2>2 DEF Counted, CountersExact, rvars
  <2>5. OneSide'
    BY <1>2, <2>1, LimitsPositive DEF Counted, TypeOK, OneSide, rvars, WriterBlocked
  <2> QED
    BY <2>3, <2>4, <2>5 DEF Counted
<1>3. CASE WrRetest(t) /\ WriterBlocked
  <2>1. /\ call[t] = "wr_wait" /\ writers_cv' = writers_cv \cup {t}
        /\ UNCHANGED <<writers_active, writers_waiting, call, rvars>>
    BY <1>3 DEF WrRetest
  <2> QED
    BY <2>1 DEF Counted, TypeOK, CountersExact, OneSide, rvars, At
<1>4. CASE WrRetest(t) /\ ~WriterBlocked
  <2>1. /\ call[t] = "wr_wait" /\ t \notin writers_cv
        /\ call' = [call EXCEPT ![t] = "writing"]
        /\ writers_waiting' = writers_waiting - 1 /\ writers_active' = writers_active + 1
        /\ UNCHANGED <<writers_cv, rvars>>
    BY <1>4 DEF WrRetest
  <2>2. /\ call' \in [Threads -> CallStates]
        /\ At(call', "wr_wait") = At(call, "wr_wait") \ {t}
        /\ \A c \in {"reading", "rd_wait"} : At(call', c) = At(call, c)
        /\ Cardinality(At(call', "writing")) = Cardinality(At(call, "writing")) + 1
        /\ Cardinality(At(call', "wr_wait")) = Cardinality(At(call, "wr_wait")) - 1
    BY <1>0, <2>1, MoveOne DEF CallStates
  <2>3. writers_waiting > 0
    BY <1>0, <2>1, SomeoneIn DEF Counted, CountersExact
  <2>4. TypeOK'
    BY <2>1, <2>2, <2>3 DEF Counted, TypeOK, rvars, In, At
  <2>5. CountersExact'
    BY <2>1, <2>2 DEF Counted, CountersExact, rvars
  <2>6. OneSide'
    BY <1>4, <2>1, LimitsPositive DEF Counted, TypeOK, OneSide, rvars, WriterBlocked
  <2> QED
    BY <2>4, <2>5, <2>6 DEF Counted
<1> QED
  BY <1>1, <1>2, <1>3, <1>4

(* unlock takes the branch of the caller's kind, and so lowers the counter *)
(* the caller was counted in.                                              *)
LEMMA CountedUnlock ==
  ASSUME Counted, NEW t \in Threads, Unlock(t)
  PROVE  Counted'
<1> USE InIsAt, InIsAtPrimed
<1>0. call \in [Threads -> CallStates]
  BY DEF Counted, TypeOK
<1>1. CASE call[t] = "reading" /\ ReaderLeaves
  <2>1. /\ call' = [call EXCEPT ![t] = "idle"]
        /\ readers_active > 0 /\ readers_active' = readers_active - 1
        /\ readers_cv' \subseteq readers_cv /\ writers_cv' \subseteq writers_cv
        /\ UNCHANGED <<writers_active, readers_waiting, writers_waiting>>
    BY <1>1 DEF ReaderLeaves, AfterBroadcast, Unlock
  <2>2. /\ call' \in [Threads -> CallStates]
        /\ \A c \in {"rd_wait", "writing", "wr_wait"} : At(call', c) = At(call, c)
        /\ Cardinality(At(call', "reading")) = Cardinality(At(call, "reading")) - 1
    BY <1>0, <1>1, <2>1, MoveOne DEF CallStates
  <2>3. TypeOK'
    BY <2>1, <2>2 DEF Counted, TypeOK, In, At
  <2>4. CountersExact'
    BY <2>1, <2>2 DEF Counted, CountersExact
  <2>5. OneSide'
    BY <2>1, LimitsPositive DEF Counted, TypeOK, OneSide
  <2> QED
    BY <2>3, <2>4, <2>5 DEF Counted
<1>2. CASE call[t] = "writing" /\ readers_active = 0 /\ writers_active > 0 /\ WriterLeaves
  <2>1. /\ call' = [call EXCEPT ![t] = "idle"]
        /\ writers_active > 0 /\ writers_active' = writers_active - 1
        /\ readers_cv' \subseteq readers_cv /\ writers_cv' \subseteq writers_cv
        /\ UNCHANGED <<readers_active, readers_waiting, writers_waiting>>
    BY <1>2 DEF WriterLeaves, AfterBroadcast, Unlock
  <2>2. /\ call' \in [Threads -> CallStates]
        /\ \A c \in {"rd_wait", "reading", "wr_wait"} : At(call', c) = At(call, c)
        /\ Cardinality(At(call', "writing")) = Cardinality(At(call, "writing")) - 1
    BY <1>0, <1>2, <2>1, MoveOne DEF CallStates
  <2>3. TypeOK'
    BY <2>1, <2>2 DEF Counted, TypeOK, In, At
  <2>4. CountersExact'
    BY <2>1, <2>2 DEF Counted, CountersExact
  <2>5. OneSide'
    BY <1>2, <2>1, LimitsPositive DEF Counted, TypeOK, OneSide
  <2> QED
    BY <2>3, <2>4, <2>5 DEF Counted
<1> QED
  BY <1>1, <1>2, UnlockBranch

(* Every step, a spurious wakeup and a stutter among them.                 *)
LEMMA CountedStep == Counted /\ [Next]_vars => Counted'
<1> SUFFICES ASSUME Counted, [Next]_vars PROVE Counted'
  OBVIOUS
<1>1. ASSUME NEW t \in Threads, SpuriousWakeup(t) PROVE Counted'
  BY <1>1 DEF SpuriousWakeup, Counted, TypeOK, CountersExact, OneSide, In
<1>2. CASE UNCHANGED vars
  BY <1>2 DEF vars, rvars, wvars, Counted, TypeOK, CountersExact, OneSide, In
<1> QED
  BY <1>1, <1>2, CountedRdLock, CountedWrLock, CountedUnlock DEF Next

THEOREM CountedInvariant == Spec => []Counted
  BY CountedInit, CountedStep, PTL DEF Spec

(* Type correctness of the lock's state.                                   *)
THEOREM TypeCorrect == Spec => []TypeOK
  BY CountedInvariant, PTL DEF Counted

(* Whatever the number of threads and the limits, the counters unlock      *)
(* decides by count the threads inside and the threads waiting.            *)
THEOREM CountersAlwaysExact == Spec => []CountersExact
  BY CountedInvariant, PTL DEF Counted

LEMMA Excludes == Counted => Exclusion
<1> SUFFICES ASSUME Counted PROVE Exclusion
  OBVIOUS
<1>1. \A s : IsFiniteSet(In(s))
  BY ThreadsFinite, FS_Subset DEF In
<1>2. In("reading") = {} \/ In("writing") = {}
  BY <1>1, FS_EmptySet DEF Counted, CountersExact, OneSide
<1> QED
  BY <1>2 DEF Counted, CountersExact, OneSide, Exclusion

(* Readers and writers are never inside together, nor more than the limits. *)
THEOREM MutualExclusion == Spec => []Exclusion
  BY Excludes, CountedInvariant, PTL

-------------------------------------------------------------------------------
(* A waiting counter is positive exactly when some thread waits, asleep or *)
(* awake; sleepers are waiters.                                            *)
LEMMA WaitersCounted ==
  ASSUME Counted
  PROVE  /\ readers_waiting > 0 <=> In("rd_wait") # {}
         /\ writers_waiting > 0 <=> In("wr_wait") # {}
         /\ readers_cv # {} => readers_waiting > 0
         /\ writers_cv # {} => writers_waiting > 0
<1>1. /\ readers_waiting > 0 <=> In("rd_wait") # {}
      /\ writers_waiting > 0 <=> In("wr_wait") # {}
  BY SomeoneIn, InIsAt DEF Counted, CountersExact, TypeOK, In
<1> QED
  BY <1>1 DEF Counted, TypeOK

(* The active counters are zero exactly when nobody is inside.             *)
LEMMA HoldersCounted ==
  ASSUME Counted
  PROVE  /\ readers_active = 0 <=> In("reading") = {}
         /\ writers_active = 0 <=> In("writing") = {}
<1>1. \A s : IsFiniteSet(In(s))
  BY ThreadsFinite, FS_Subset DEF In
<1> QED
  BY <1>1, FS_EmptySet DEF Counted, CountersExact

LEMMA SleepersRdLock ==
  ASSUME Counted, SleepersHaveCause, NEW t \in Threads, RdLock(t) \/ RdRetest(t)
  PROVE  SleepersHaveCause'
<1>1. CASE ReaderBlocked
  <2>1. UNCHANGED <<readers_active, wvars>> /\ AwakeWriters' = AwakeWriters
    BY <1>1 DEF RdLock, RdRetest, AwakeWriters, In, wvars, Counted, TypeOK
  <2>2. ReaderBlocked'
    BY <1>1, <2>1 DEF ReaderBlocked, wvars
  <2>3. CASE WriterBlocked
    BY <2>1, <2>2, <2>3 DEF SleepersHaveCause, WriterBlocked, wvars
  <2>4. CASE ~WriterBlocked
    <3>1. readers_active = 0 /\ writers_active # 0 /\ writers_active <= MaxWriters
      BY <1>1, <2>4, LimitsPositive DEF ReaderBlocked, WriterBlocked, Counted, TypeOK, OneSide
    <3>2. MaxWriters # 1
      BY <2>4, <3>1 DEF WriterBlocked, Counted, TypeOK
    <3>3. writers_cv' = {}
      BY <2>1, <2>4, <3>2 DEF SleepersHaveCause, wvars
    <3> QED
      BY <2>2, <3>3 DEF SleepersHaveCause
  <2> QED
    BY <2>3, <2>4
<1>2. CASE ~ReaderBlocked
  <2>1. /\ readers_active' = readers_active + 1
        /\ UNCHANGED <<readers_cv, wvars>>
    BY <1>2 DEF RdLock, RdRetest
  <2>2. WriterBlocked'
    BY <2>1 DEF WriterBlocked, Counted, TypeOK
  <2>3. ASSUME readers_cv' # {} PROVE ReaderBlocked'
    <3>1. MaxReaders = 1
      BY <1>2, <2>1, <2>3 DEF SleepersHaveCause
    <3>2. readers_active = 0
      BY <1>2, <3>1 DEF ReaderBlocked, Counted, TypeOK, OneSide
    <3> QED
      BY <2>1, <3>1, <3>2 DEF ReaderBlocked
  <2> QED
    BY <2>2, <2>3 DEF SleepersHaveCause
<1> QED
  BY <1>1, <1>2

LEMMA SleepersWrLock ==
  ASSUME Counted, SleepersHaveCause, NEW t \in Threads, WrLock(t) \/ WrRetest(t)
  PROVE  SleepersHaveCause'
<1>1. CASE WriterBlocked
  <2>1. UNCHANGED <<writers_active, rvars>> /\ AwakeReaders' = AwakeReaders
    BY <1>1 DEF WrLock, WrRetest, AwakeReaders, In, rvars, Counted, TypeOK
  <2>2. WriterBlocked'
    BY <1>1, <2>1 DEF WriterBlocked, rvars
  <2>3. CASE ReaderBlocked
    BY <2>1, <2>2, <2>3 DEF SleepersHaveCause, ReaderBlocked, rvars
  <2>4. CASE ~ReaderBlocked
    <3>1. writers_active = 0 /\ readers_active # 0 /\ readers_active <= MaxReaders
      BY <1>1, <2>4, LimitsPositive DEF ReaderBlocked, WriterBlocked, Counted, TypeOK, OneSide
    <3>2. MaxReaders # 1
      BY <2>4, <3>1 DEF ReaderBlocked, Counted, TypeOK
    <3>3. readers_cv' = {}
      BY <2>1, <2>4, <3>2 DEF SleepersHaveCause, rvars
    <3> QED
      BY <2>2, <3>3 DEF SleepersHaveCause
  <2> QED
    BY <2>3, <2>4
<1>2. CASE ~WriterBlocked
  <2>1. /\ writers_active' = writers_active + 1
        /\ UNCHANGED <<writers_cv, rvars>>
    BY <1>2 DEF WrLock, WrRetest
  <2>2. ReaderBlocked'
    BY <2>1 DEF ReaderBlocked, Counted, TypeOK
  <2>3. ASSUME writers_cv' # {} PROVE WriterBlocked'
    <3>1. MaxWriters = 1
      BY <1>2, <2>1, <2>3 DEF SleepersHaveCause
    <3>2. writers_active = 0
      BY <1>2, <3>1 DEF WriterBlocked, Counted, TypeOK, OneSide
    <3> QED
      BY <2>1, <3>1, <3>2 DEF WriterBlocked
  <2> QED
    BY <2>2, <2>3 DEF SleepersHaveCause
<1> QED
  BY <1>1, <1>2

(* The last reader to leave wakes the writers if there are any, and then    *)
(* leaves sleeping readers only if they slept because of a limit of one.   *)
LEMMA SleepersReaderLeaves ==
  ASSUME Counted, SleepersHaveCause, NEW t \in Threads,
         Unlock(t), call[t] = "reading", ReaderLeaves
  PROVE  SleepersHaveCause'
<1>1. /\ readers_active > 0 /\ writers_active = 0
      /\ readers_active' = readers_active - 1 /\ writers_active' = 0
  BY DEF ReaderLeaves, Counted, TypeOK, OneSide
<1>2. In("wr_wait")' = In("wr_wait")
  BY DEF Unlock, In, Counted, TypeOK
<1>3. ASSUME readers_cv' # {} PROVE MaxReaders = 1 /\ AwakeWriters' # {}
  <2>1. readers_cv # {} /\ readers_waiting > 0
    BY <1>3, WaitersCounted DEF ReaderLeaves, AfterBroadcast
  <2>2. readers_active = 1 /\ writers_waiting > 0 /\ writers_cv' = {}
    BY <1>3, <2>1 DEF ReaderLeaves, AfterBroadcast
  <2>3. MaxReaders = 1
    BY <1>1, <2>1, <2>2 DEF SleepersHaveCause, ReaderBlocked
  <2> QED
    BY <1>2, <2>2, <2>3, WaitersCounted DEF AwakeWriters
<1>4. ASSUME writers_cv' # {} PROVE WriterBlocked'
  <2>1. writers_cv # {} /\ writers_waiting > 0
    BY <1>4, WaitersCounted DEF ReaderLeaves, AfterBroadcast
  <2>2. readers_active # 1
    BY <1>4, <2>1 DEF ReaderLeaves, AfterBroadcast
  <2> QED
    BY <1>1, <2>2 DEF WriterBlocked, Counted, TypeOK
<1> QED
  BY <1>3, <1>4 DEF SleepersHaveCause

LEMMA SleepersWriterLeaves ==
  ASSUME Counted, SleepersHaveCause, NEW t \in Threads,
         Unlock(t), call[t] = "writing", writers_active > 0, WriterLeaves
  PROVE  SleepersHaveCause'
<1>1. /\ readers_active = 0 /\ readers_active' = 0
      /\ writers_active' = writers_active - 1
  BY DEF WriterLeaves
<1>2. In("rd_wait")' = In("rd_wait")
  BY DEF Unlock, In, Counted, TypeOK
<1>3. ASSUME writers_cv' # {} PROVE MaxWriters = 1 /\ AwakeReaders' # {}
  <2>1. writers_cv # {} /\ writers_waiting > 0
    BY <1>3, WaitersCounted DEF WriterLeaves, AfterBroadcast
  <2>2. writers_active = 1 /\ readers_waiting > 0 /\ readers_cv' = {}
    BY <1>3, <2>1 DEF WriterLeaves, AfterBroadcast
  <2>3. MaxWriters = 1
    BY <1>1, <2>1, <2>2 DEF SleepersHaveCause, WriterBlocked
  <2> QED
    BY <1>2, <2>2, <2>3, WaitersCounted DEF AwakeReaders
<1>4. ASSUME readers_cv' # {} PROVE ReaderBlocked'
  <2>1. readers_cv # {} /\ readers_waiting > 0
    BY <1>4, WaitersCounted DEF WriterLeaves, AfterBroadcast
  <2>2. writers_active # 1
    BY <1>4, <2>1 DEF WriterLeaves, AfterBroadcast
  <2> QED
    BY <1>1, <2>2 DEF ReaderBlocked, Counted, TypeOK
<1> QED
  BY <1>3, <1>4 DEF SleepersHaveCause

LEMMA SleepersStep == Counted /\ SleepersHaveCause /\ [Next]_vars => SleepersHaveCause'
<1> SUFFICES ASSUME Counted, SleepersHaveCause, [Next]_vars
             PROVE  SleepersHaveCause'
  OBVIOUS
<1>1. ASSUME NEW t \in Threads, Unlock(t) PROVE SleepersHaveCause'
  BY <1>1, UnlockBranch, SleepersReaderLeaves, SleepersWriterLeaves
<1>2. ASSUME NEW t \in Threads, SpuriousWakeup(t) PROVE SleepersHaveCause'
  BY <1>2 DEF SpuriousWakeup, SleepersHaveCause, ReaderBlocked, WriterBlocked,
              AwakeReaders, AwakeWriters, In
<1>3. CASE UNCHANGED vars
  BY <1>3 DEF vars, rvars, wvars, SleepersHaveCause, ReaderBlocked, WriterBlocked,
              AwakeReaders, AwakeWriters, In
<1> QED
  BY <1>1, <1>2, <1>3, SleepersRdLock, SleepersWrLock DEF Next

(* No wakeup is lost, for every number of threads and every limit.         *)
THEOREM NoLostWakeup == Spec => []SleepersHaveCause
<1>1. Init => SleepersHaveCause
  BY DEF Init, SleepersHaveCause
<1> QED
  BY <1>1, SleepersStep, CountedInvariant, PTL DEF Spec

-------------------------------------------------------------------------------
(* Every step of the monitor is a step of the abstract lock or a stutter.  *)
LEMMA StepRefines == Counted /\ [Next]_vars => [Abstract!Next]_(Abstract!vars)
<1> SUFFICES ASSUME Counted, [Next]_vars
             PROVE  Abstract!Next \/ UNCHANGED Abstract!vars
  BY DEF Abstract!vars
<1>0. call \in [Threads -> CallStates]
  BY DEF Counted, TypeOK
<1>1. ASSUME NEW t \in Threads, RdLock(t) \/ RdRetest(t)
      PROVE  Abstract!StartRead(t) \/ UNCHANGED Abstract!vars
  <2>1. CASE ReaderBlocked
    BY <1>0, <1>1, <2>1 DEF RdLock, RdRetest, Abstract!vars, In
  <2>2. CASE ~ReaderBlocked
    <3>1. /\ call[t] \in {"idle", "rd_wait"}
          /\ call' = [call EXCEPT ![t] = "reading"]
      BY <1>1, <2>2 DEF RdLock, RdRetest
    <3>2. t \notin In("reading") \cup In("writing")
      BY <3>1 DEF In
    <3>3. In("reading")' = In("reading") \cup {t} /\ In("writing")' = In("writing")
      BY <1>0, <3>1 DEF In
    <3>4. writers_active = 0 /\ readers_active < MaxReaders
      BY <2>2, LimitsPositive DEF ReaderBlocked, Counted, TypeOK, OneSide
    <3>5. In("writing") = {} /\ Cardinality(In("reading")) < MaxReaders
      BY <3>4, HoldersCounted DEF Counted, CountersExact
    <3> QED
      BY <3>2, <3>3, <3>5 DEF Cardinality, Abstract!Cardinality, Abstract!StartRead
  <2> QED
    BY <2>1, <2>2
<1>2. ASSUME NEW t \in Threads, WrLock(t) \/ WrRetest(t)
      PROVE  Abstract!StartWrite(t) \/ UNCHANGED Abstract!vars
  <2>1. CASE WriterBlocked
    BY <1>0, <1>2, <2>1 DEF WrLock, WrRetest, Abstract!vars, In
  <2>2. CASE ~WriterBlocked
    <3>1. /\ call[t] \in {"idle", "wr_wait"}
          /\ call' = [call EXCEPT ![t] = "writing"]
      BY <1>2, <2>2 DEF WrLock, WrRetest
    <3>2. t \notin In("reading") \cup In("writing")
      BY <3>1 DEF In
    <3>3. In("writing")' = In("writing") \cup {t} /\ In("reading")' = In("reading")
      BY <1>0, <3>1 DEF In
    <3>4. readers_active = 0 /\ writers_active < MaxWriters
      BY <2>2, LimitsPositive DEF WriterBlocked, Counted, TypeOK, OneSide
    <3>5. In("reading") = {} /\ Cardinality(In("writing")) < MaxWriters
      BY <3>4, HoldersCounted DEF Counted, CountersExact
    <3> QED
      BY <3>2, <3>3, <3>5 DEF Cardinality, Abstract!Cardinality, Abstract!StartWrite
  <2> QED
    BY <2>1, <2>2
<1>3. ASSUME NEW t \in Threads, Unlock(t)
      PROVE  Abstract!EndRead(t) \/ Abstract!EndWrite(t)
  <2>1. call[t] \in {"reading", "writing"} /\ call' = [call EXCEPT ![t] = "idle"]
    BY <1>3 DEF Unlock
  <2>2. CASE call[t] = "reading"
    BY <1>0, <2>1, <2>2 DEF In, Abstract!EndRead
  <2>3. CASE call[t] = "writing"
    BY <1>0, <2>1, <2>3 DEF In, Abstract!EndWrite
  <2> QED
    BY <2>1, <2>2, <2>3
<1>4. ASSUME NEW t \in Threads, SpuriousWakeup(t) PROVE UNCHANGED Abstract!vars
  BY <1>4 DEF SpuriousWakeup, Abstract!vars, In
<1>5. CASE UNCHANGED vars
  BY <1>5 DEF vars, Abstract!vars, In
<1> QED
  BY <1>1, <1>2, <1>3, <1>4, <1>5 DEF Next, Abstract!Next

(* The monitor implements the abstract reader/writer lock.                 *)
THEOREM ImplementsRWLock == Spec => Refinement
<1>1. Init => Abstract!Init
  BY DEF Init, In, Abstract!Init
<1> QED
  BY <1>1, StepRefines, CountedInvariant, PTL DEF Spec, Refinement, Abstract!Spec

-------------------------------------------------------------------------------
(* The test.  A thread is in the lock function, or it holds the lock; the  *)
(* test counts some of the holders.                                        *)
CountedOf(role) == {t \in role : at[t] \in {"check", "leave"}}

TestPlaces == {"lock", "enter", "check", "leave", "unlock"}

PlacesFit ==
  /\ at \in [Threads -> TestPlaces]
  /\ \A t \in Readers : /\ call[t] = "reading" <=> at[t] # "lock"
                        /\ call[t] \in {"idle", "rd_wait", "reading"}
  /\ \A t \in Writers : /\ call[t] = "writing" <=> at[t] # "lock"
                        /\ call[t] \in {"idle", "wr_wait", "writing"}

CountsFit ==
  /\ n_r = Cardinality(CountedOf(Readers))
  /\ n_w = Cardinality(CountedOf(Writers))

TestInv == Counted /\ PlacesFit /\ CountsFit

(* The test counts no more than the lock does.                             *)
LEMMA CountedFew ==
  ASSUME Counted, PlacesFit
  PROVE  /\ Cardinality(CountedOf(Readers)) \in Nat /\ Cardinality(CountedOf(Writers)) \in Nat
         /\ Cardinality(CountedOf(Readers)) <= Cardinality(In("reading"))
         /\ Cardinality(CountedOf(Writers)) <= Cardinality(In("writing"))
<1>1. CountedOf(Readers) \subseteq In("reading") /\ CountedOf(Writers) \subseteq In("writing")
  BY RolesPartitionThreads DEF CountedOf, In, PlacesFit
<1>2. IsFiniteSet(In("reading")) /\ IsFiniteSet(In("writing"))
  BY ThreadsFinite, FS_Subset DEF In
<1>3. IsFiniteSet(CountedOf(Readers)) /\ IsFiniteSet(CountedOf(Writers))
  BY <1>1, <1>2, FS_Subset
<1> QED
  BY <1>1, <1>2, <1>3, FS_Subset, FS_CardinalityType

LEMMA TestPlacesKept == ASSUME TestInv, [TestNext]_testVars PROVE PlacesFit'
<1> USE RolesPartitionThreads DEF TestInv, PlacesFit, TestPlaces
<1>1. CASE UNCHANGED testVars
  BY <1>1 DEF testVars, vars
<1>2. ASSUME NEW t \in Threads, CallLock(t) PROVE PlacesFit'
  BY <1>2 DEF CallLock, LockReturns, RdLock, WrLock, Counted, TypeOK, CallStates
<1>3. ASSUME NEW t \in Threads, WaitInLock(t) PROVE PlacesFit'
  BY <1>3 DEF WaitInLock, LockReturns, RdRetest, WrRetest, Counted, TypeOK, CallStates
<1>4. ASSUME NEW t \in Threads, EnterCS(t) \/ ExecuteCS(t) \/ LeaveCS(t) PROVE PlacesFit'
  BY <1>4 DEF EnterCS, ExecuteCS, LeaveCS, Recount, Goto, vars
<1>5. ASSUME NEW t \in Threads, LeaveLock(t) PROVE PlacesFit'
  BY <1>5 DEF LeaveLock, Goto, Unlock, Counted, TypeOK, CallStates
<1>6. ASSUME NEW t \in Threads, Wakes(t) PROVE PlacesFit'
  BY <1>6 DEF Wakes, SpuriousWakeup
<1> QED
  BY <1>1, <1>2, <1>3, <1>4, <1>5, <1>6 DEF TestNext, Continue

(* A thread that enters or leaves is counted once, and in its own role.    *)
LEMMA Recounted ==
  ASSUME TestInv, NEW t \in Threads, NEW role \in {Readers, Writers}, EnterCS(t) \/ LeaveCS(t)
  PROVE  Cardinality(CountedOf(role)') =
           Cardinality(CountedOf(role)) + (IF t \notin role THEN 0 ELSE IF EnterCS(t) THEN 1 ELSE -1)
<1>1. IsFiniteSet(CountedOf(role)) /\ Cardinality(CountedOf(role)) \in Nat
  BY RolesPartitionThreads, ThreadsFinite, FS_Subset, FS_CardinalityType DEF CountedOf
<1>2. at \in [Threads -> TestPlaces] /\ role \subseteq Threads
  BY RolesPartitionThreads DEF TestInv, PlacesFit
<1>3. CASE t \notin role
  <2>1. CountedOf(role)' = CountedOf(role)
    BY <1>2, <1>3 DEF CountedOf, EnterCS, LeaveCS, Goto
  <2> QED
    BY <1>1, <1>3, <2>1
<1>4. CASE t \in role /\ EnterCS(t)
  <2>1. CountedOf(role)' = CountedOf(role) \cup {t} /\ t \notin CountedOf(role)
    BY <1>2, <1>4 DEF CountedOf, EnterCS, Goto
  <2> QED
    BY <1>1, <1>4, <2>1, FS_AddElement
<1>5. CASE t \in role /\ ~EnterCS(t)
  <2>1. CountedOf(role)' = CountedOf(role) \ {t} /\ t \in CountedOf(role)
    BY <1>2, <1>5 DEF CountedOf, LeaveCS, Goto
  <2> QED
    BY <1>1, <1>5, <2>1, FS_RemoveElement
<1> QED
  BY <1>3, <1>4, <1>5

LEMMA CountsKept == ASSUME TestInv, [TestNext]_testVars PROVE CountsFit'
<1> USE RolesPartitionThreads
<1>1. ASSUME n_r' = n_r, n_w' = n_w, CountedOf(Readers)' = CountedOf(Readers),
             CountedOf(Writers)' = CountedOf(Writers)
      PROVE  CountsFit'
  BY <1>1 DEF TestInv, CountsFit
<1>2. CASE UNCHANGED testVars
  BY <1>1, <1>2 DEF testVars, CountedOf
<1>3. ASSUME NEW t \in Threads, CallLock(t) \/ WaitInLock(t) PROVE CountsFit'
  <2>1. at[t] = "lock" /\ (at' = at \/ at' = [at EXCEPT ![t] = "enter"]) /\ UNCHANGED <<n_r, n_w>>
    BY <1>3 DEF CallLock, WaitInLock, LockReturns
  <2> QED
    BY <1>1, <2>1 DEF CountedOf, TestInv, PlacesFit
<1>4. ASSUME NEW t \in Threads, ExecuteCS(t) \/ LeaveLock(t) \/ Wakes(t) PROVE CountsFit'
  <2>1. /\ \/ at[t] = "check" /\ at' = [at EXCEPT ![t] = "leave"]
           \/ at[t] = "unlock" /\ at' = [at EXCEPT ![t] = "lock"]
           \/ at' = at
        /\ UNCHANGED <<n_r, n_w>>
    BY <1>4 DEF ExecuteCS, LeaveLock, Wakes, Goto
  <2> QED
    BY <1>1, <2>1 DEF CountedOf, TestInv, PlacesFit
<1>5. ASSUME NEW t \in Threads, EnterCS(t) \/ LeaveCS(t) PROVE CountsFit'
  <2>1. /\ n_r' = n_r + (IF t \notin Readers THEN 0 ELSE IF EnterCS(t) THEN 1 ELSE -1)
        /\ n_w' = n_w + (IF t \notin Writers THEN 0 ELSE IF EnterCS(t) THEN 1 ELSE -1)
    <3>1. n_r \in Int /\ n_w \in Int
      BY CountedFew DEF TestInv, CountsFit
    <3>2. ~(EnterCS(t) /\ LeaveCS(t))
      BY DEF EnterCS, LeaveCS, Goto
    <3> QED
      BY <1>5, <3>1, <3>2 DEF EnterCS, LeaveCS, Recount
  <2>2. /\ Cardinality(CountedOf(Readers)') =
             Cardinality(CountedOf(Readers)) + (IF t \notin Readers THEN 0 ELSE IF EnterCS(t) THEN 1 ELSE -1)
        /\ Cardinality(CountedOf(Writers)') =
             Cardinality(CountedOf(Writers)) + (IF t \notin Writers THEN 0 ELSE IF EnterCS(t) THEN 1 ELSE -1)
    BY <1>5, Recounted
  <2> QED
    BY <2>1, <2>2 DEF TestInv, CountsFit
<1> QED
  BY <1>2, <1>3, <1>4, <1>5 DEF TestNext, Continue

(* Each step of the test is one of the lock or leaves it alone.            *)
LEMMA TestStepIsLockStep == ASSUME [TestNext]_testVars PROVE [Next]_vars
  BY DEF TestNext, Continue, CallLock, WaitInLock, EnterCS, ExecuteCS, LeaveCS, Recount, LeaveLock, Wakes,
     testVars, Next

(* The invariant of the test: places, counts and the lock agree.           *)
THEOREM TestInvariant == TestSpec => []TestInv
<1>1. ASSUME TestInit PROVE TestInv
  <2>1. Counted /\ PlacesFit
    BY <1>1, CountedInit, RolesPartitionThreads DEF TestInit, Init, PlacesFit, TestPlaces
  <2>2. CountedOf(Readers) = {} /\ CountedOf(Writers) = {}
    BY <1>1, RolesPartitionThreads DEF TestInit, CountedOf
  <2> QED
    BY <1>1, <2>1, <2>2, FS_EmptySet DEF TestInit, TestInv, CountsFit
<1>2. ASSUME TestInv, [TestNext]_testVars PROVE TestInv'
  BY <1>2, TestStepIsLockStep, CountedStep, TestPlacesKept, CountsKept DEF TestInv
<1> QED
  BY <1>1, <1>2, PTL DEF TestSpec

(* No assertion of cs_status_check fails, for any number of readers and    *)
(* writers and any limits: the test's counts lag behind the lock's.        *)
THEOREM TestAssertionsHold == TestSpec => []CsStatusHolds
<1>1. ASSUME TestInv PROVE CsStatusHolds
  <2>1. SUFFICES ASSUME NEW t \in Threads, at[t] = "check" PROVE StatusValid
    BY DEF CsStatusHolds
  <2>2. /\ n_r \in Nat /\ n_w \in Nat
        /\ n_r <= readers_active /\ n_w <= writers_active
    BY <1>1, CountedFew DEF TestInv, CountsFit, Counted, CountersExact
  <2>3. /\ readers_active = 0 \/ writers_active = 0
        /\ readers_active <= MaxReaders /\ writers_active <= MaxWriters
        /\ readers_active \in Nat /\ writers_active \in Nat
    BY <1>1 DEF TestInv, Counted, OneSide, TypeOK
  <2> QED
    BY <2>2, <2>3, LimitsPositive DEF StatusValid
<1> QED
  BY <1>1, TestInvariant, PTL

(* The test uses the lock as Spec allows: what is proved of the lock holds *)
(* of it in the test.                                                      *)
THEOREM TestKeepsLock == TestSpec => [](CountersExact /\ SleepersHaveCause) /\ Refinement
<1>1. TestInit => Counted /\ SleepersHaveCause /\ Abstract!Init
  BY CountedInit DEF TestInit, Init, SleepersHaveCause, In, Abstract!Init
<1>2. [TestNext]_testVars => [Next]_vars
  BY TestStepIsLockStep
<1>3. Counted => CountersExact
  BY DEF Counted
<1> QED
  BY <1>1, <1>2, <1>3, CountedStep, SleepersStep, StepRefines, PTL DEF TestSpec, Refinement, Abstract!Spec

-------------------------------------------------------------------------------
(* The bridge.  A bus waits in the lock only while the lock keeps it out,  *)
(* and it waits with the bridge's mutex.                                   *)
NoBusIsNoThread == NoBus \notin Threads

Stages == {"arrive", "wait", "count", "check", "uncount", "leave"}

KeptOut(b) == IF b \in LRBuses THEN ReaderBlocked ELSE WriterBlocked
Waits(b) == stage[b] = "wait" /\ owner = b /\ KeptOut(b)

(* What a bus that has come as far as the stage s is to the lock.          *)
CallFits(c, lr, s) ==
  CASE s = "arrive" -> c = "idle"
    [] s = "wait"   -> c = IF lr THEN "rd_wait" ELSE "wr_wait"
    [] OTHER        -> c = IF lr THEN "reading" ELSE "writing"

StagesFit ==
  /\ stage \in [Threads -> Stages]
  /\ \A b \in Threads : CallFits(call[b], b \in LRBuses, stage[b])
  /\ \A b \in Threads : stage[b] = "wait" => Waits(b)

CountedBuses(B) == {b \in B \cap Threads : stage[b] \in {"check", "uncount"}}

CrossingsCounted ==
  /\ lr_on = Cardinality(CountedBuses(LRBuses))
  /\ rl_on = Cardinality(CountedBuses(RLBuses))

BridgeInv == Counted /\ StagesFit /\ CrossingsCounted

(* Each step of the bridge is one of its lock or leaves it alone.          *)
LEMMA BridgeStepIsLockStep == ASSUME [BridgeNext]_bridgeVars PROVE [Next]_vars
<1>1. ASSUME NEW b \in Threads, BridgeEnter(b) PROVE RdLock(b) \/ WrLock(b)
  BY <1>1 DEF BridgeEnter
<1> QED
  BY <1>1 DEF BridgeNext, Bus, EnterRetest, BusCounted, Cross, BusUncounted, CountBus, BridgeLeave, WakesInLock,
     bridgeVars, Next

(* bridge.c uses the lock as its specification allows: what is proved of   *)
(* the lock holds of it under the bridge, although the bridge locks up.    *)
THEOREM BridgeKeepsLock == BridgeSpec => [](CountersExact /\ SleepersHaveCause) /\ Refinement
<1>1. BridgeInit => Counted /\ SleepersHaveCause /\ Abstract!Init
  BY CountedInit DEF BridgeInit, Init, SleepersHaveCause, In, Abstract!Init
<1>2. [BridgeNext]_bridgeVars => [Next]_vars
  BY BridgeStepIsLockStep
<1>3. Counted => CountersExact
  BY DEF Counted
<1> QED
  BY <1>1, <1>2, <1>3, CountedStep, SleepersStep, StepRefines, PTL DEF BridgeSpec, Refinement, Abstract!Spec

(* With the bridge's mutex taken by a bus that waits, no bus comes or      *)
(* goes: what keeps the bus out stays as it is.                            *)
LEMMA WaiterStays ==
  ASSUME NoBusIsNoThread, StagesFit, call \in [Threads -> CallStates],
         [BridgeNext]_bridgeVars, NEW b \in Threads, Waits(b)
  PROVE  Waits(b)' /\ UNCHANGED <<readers_active, writers_active, call, cnt, owner>>
<1>1. owner = b /\ b # NoBus /\ \A c \in Threads : stage[c] = "wait" => c = b
  BY DEF NoBusIsNoThread, Waits, StagesFit
<1>2. CASE UNCHANGED bridgeVars
  BY <1>2 DEF bridgeVars, vars, rvars, wvars, counts, Waits, KeptOut, ReaderBlocked, WriterBlocked
<1>3. ASSUME NEW c \in Threads, Bus(c) \/ WakesInLock(c)
      PROVE  Waits(b)' /\ UNCHANGED <<readers_active, writers_active, call, cnt, owner>>
  <2>1. ~BridgeEnter(c) /\ ~BridgeLeave(c)
    BY <1>1 DEF BridgeEnter, BridgeLeave
  <2>2. CASE EnterRetest(c)
    <3>1. c = b /\ call[b] = IF b \in LRBuses THEN "rd_wait" ELSE "wr_wait"
      BY <1>1, <2>2 DEF EnterRetest, StagesFit, CallFits
    <3>2. /\ KeptOut(b)
          /\ RdRetest(b) => b \in LRBuses
          /\ WrRetest(b) => b \notin LRBuses
      BY <3>1 DEF Waits, RdRetest, WrRetest
    <3>3. UNCHANGED <<readers_active, writers_active, call, cnt>>
      BY <2>2, <3>1, <3>2 DEF EnterRetest, RdRetest, WrRetest, KeptOut, counts, rvars, wvars
    <3>4. owner' = b /\ stage' = [stage EXCEPT ![b] = "wait"]
      BY <2>2, <3>1, <3>3 DEF EnterRetest, AfterLock, OnBridge
    <3> QED
      BY <1>1, <3>2, <3>3, <3>4 DEF Waits, KeptOut, ReaderBlocked, WriterBlocked, StagesFit
  <2>3. CASE BusCounted(c) \/ Cross(c) \/ BusUncounted(c)
    BY <1>1, <2>3 DEF BusCounted, Cross, BusUncounted, CountBus, Advance, Waits, KeptOut, ReaderBlocked, WriterBlocked,
       vars, rvars, wvars, counts, StagesFit
  <2>4. CASE WakesInLock(c)
    BY <1>1, <2>4 DEF WakesInLock, SpuriousWakeup, Waits, KeptOut, ReaderBlocked, WriterBlocked, counts
  <2> QED
    BY <1>3, <2>1, <2>2, <2>3, <2>4 DEF Bus
<1> QED
  BY <1>2, <1>3 DEF BridgeNext

LEMMA StagesKept ==
  ASSUME NoBusIsNoThread, Counted, StagesFit, [BridgeNext]_bridgeVars
  PROVE  StagesFit'
<1>0. /\ call \in [Threads -> CallStates] /\ stage \in [Threads -> Stages]
      /\ \A b \in Threads : CallFits(call[b], b \in LRBuses, stage[b])
  BY DEF Counted, TypeOK, StagesFit
<1>1. ASSUME NEW b \in Threads, stage[b] = "wait" PROVE Waits(b)'
  BY <1>0, <1>1, WaiterStays DEF StagesFit
<1>2. CASE UNCHANGED bridgeVars
  <2>1. UNCHANGED <<call, stage>>
    BY <1>2 DEF bridgeVars, vars
  <2> QED
    BY <1>0, <1>1, <2>1 DEF StagesFit, CallFits
<1>3. ASSUME NEW c \in Threads, Bus(c) \/ WakesInLock(c) PROVE StagesFit'
  <2>1. CASE BridgeEnter(c)
    <3> DEFINE lr == c \in LRBuses
               held == IF lr THEN "reading" ELSE "writing"
               asleep == IF lr THEN "rd_wait" ELSE "wr_wait"
    <3>1. /\ stage[c] = "arrive" /\ call[c] = "idle"
          /\ IF lr THEN RdLock(c) ELSE WrLock(c)
          /\ AfterLock(c)
      BY <2>1 DEF BridgeEnter, RdLock, WrLock
    <3>2. \/ /\ KeptOut(c) /\ call' = [call EXCEPT ![c] = asleep]
             /\ UNCHANGED <<readers_active, writers_active>>
          \/ call' = [call EXCEPT ![c] = held]
      BY <3>1 DEF RdLock, WrLock, KeptOut, rvars, wvars
    <3>3. CASE KeptOut(c) /\ call' = [call EXCEPT ![c] = asleep] /\ UNCHANGED <<readers_active, writers_active>>
      <4>1. owner' = c /\ stage' = [stage EXCEPT ![c] = "wait"]
        BY <1>0, <3>1, <3>3 DEF AfterLock, OnBridge
      <4>2. Waits(c)'
        BY <1>0, <3>3, <4>1 DEF Waits, KeptOut, ReaderBlocked, WriterBlocked
      <4>3. CallFits(asleep, lr, "wait")
        BY DEF CallFits
      <4> QED
        BY <1>0, <1>1, <3>3, <4>1, <4>2, <4>3 DEF StagesFit, Stages, CallFits
    <3>4. CASE call' = [call EXCEPT ![c] = held]
      <4>1. stage' = [stage EXCEPT ![c] = "count"]
        BY <1>0, <3>1, <3>4 DEF AfterLock, OnBridge
      <4>2. CallFits(held, lr, "count")
        BY DEF CallFits
      <4> QED
        BY <1>0, <1>1, <3>4, <4>1, <4>2 DEF StagesFit, Stages
    <3> QED
      BY <3>2, <3>3, <3>4
  <2>2. CASE EnterRetest(c)
    <3>1. stage[c] = "wait" /\ Waits(c)' /\ call' = call
      BY <1>1, <2>2, WaiterStays DEF EnterRetest, StagesFit, Counted, TypeOK
    <3>2. stage' = stage
      BY <1>0, <2>2, <3>1 DEF EnterRetest, AfterLock, Waits
    <3> QED
      BY <1>0, <1>1, <3>1, <3>2 DEF StagesFit
  <2>3. CASE BusCounted(c) \/ Cross(c) \/ BusUncounted(c)
    <3>1. PICK s \in {"check", "uncount", "leave"} :
            call' = call /\ stage[c] \in {"count", "check", "uncount"} /\ stage' = [stage EXCEPT ![c] = s]
      BY <2>3 DEF BusCounted, Cross, BusUncounted, CountBus, Advance, vars
    <3> QED
      BY <1>0, <1>1, <3>1 DEF StagesFit, Stages, CallFits
  <2>4. CASE BridgeLeave(c)
    <3>1. /\ stage[c] = "leave" /\ stage' = [stage EXCEPT ![c] = "arrive"]
          /\ call' = [call EXCEPT ![c] = "idle"]
      BY <2>4 DEF BridgeLeave, Advance, Unlock
    <3> QED
      BY <1>0, <1>1, <3>1 DEF StagesFit, Stages, CallFits
  <2>5. CASE WakesInLock(c)
    <3>1. UNCHANGED <<call, stage>>
      BY <2>5 DEF WakesInLock, SpuriousWakeup
    <3> QED
      BY <1>0, <1>1, <3>1 DEF StagesFit
  <2> QED
    BY <1>3, <2>1, <2>2, <2>3, <2>4, <2>5 DEF Bus
<1> QED
  BY <1>2, <1>3 DEF BridgeNext

(* A bus is counted while it is between the two counts, and by its own     *)
(* direction.                                                              *)
LEMMA BusesRecounted ==
  ASSUME StagesFit, NEW c \in Threads, NEW B \in {LRBuses, RLBuses}, BusCounted(c) \/ BusUncounted(c)
  PROVE  Cardinality(CountedBuses(B)') =
           Cardinality(CountedBuses(B)) + (IF c \notin B THEN 0 ELSE IF BusCounted(c) THEN 1 ELSE -1)
<1>1. IsFiniteSet(CountedBuses(B)) /\ Cardinality(CountedBuses(B)) \in Nat
  BY ThreadsFinite, FS_Subset, FS_CardinalityType DEF CountedBuses
<1>2. stage \in [Threads -> Stages]
  BY DEF StagesFit
<1>3. CASE c \notin B
  <2>1. CountedBuses(B)' = CountedBuses(B)
    BY <1>2, <1>3 DEF CountedBuses, BusCounted, BusUncounted, Advance
  <2> QED
    BY <1>1, <1>3, <2>1
<1>4. CASE c \in B /\ BusCounted(c)
  <2>1. CountedBuses(B)' = CountedBuses(B) \cup {c} /\ c \notin CountedBuses(B)
    BY <1>2, <1>4 DEF CountedBuses, BusCounted, Advance
  <2> QED
    BY <1>1, <1>4, <2>1, FS_AddElement
<1>5. CASE c \in B /\ ~BusCounted(c)
  <2>1. stage[c] = "uncount" /\ stage' = [stage EXCEPT ![c] = "leave"]
    BY <1>5 DEF BusUncounted, Advance
  <2>2. CountedBuses(B)' = CountedBuses(B) \ {c} /\ c \in CountedBuses(B)
    BY <1>2, <1>5, <2>1 DEF CountedBuses
  <2> QED
    BY <1>1, <1>5, <2>2, FS_RemoveElement
<1> QED
  BY <1>3, <1>4, <1>5

LEMMA CrossingsKept ==
  ASSUME StagesFit, CrossingsCounted, [BridgeNext]_bridgeVars
  PROVE  CrossingsCounted'
<1>0. stage \in [Threads -> Stages]
  BY DEF StagesFit
<1>1. ASSUME UNCHANGED <<lr_on, rl_on>>, \A b \in Threads : stage[b] \in {"check", "uncount"} <=> stage'[b] \in {"check", "uncount"}
      PROVE  CrossingsCounted'
  <2>1. CountedBuses(LRBuses)' = CountedBuses(LRBuses) /\ CountedBuses(RLBuses)' = CountedBuses(RLBuses)
    BY <1>1 DEF CountedBuses
  <2> QED
    BY <1>1, <2>1 DEF CrossingsCounted
<1>2. CASE UNCHANGED bridgeVars
  BY <1>1, <1>2 DEF bridgeVars, counts
<1>3. ASSUME NEW c \in Threads, Bus(c) \/ WakesInLock(c) PROVE CrossingsCounted'
  <2>1. CASE BridgeEnter(c) \/ EnterRetest(c)
    <3>1. /\ stage[c] \in {"arrive", "wait"} /\ UNCHANGED <<lr_on, rl_on>>
          /\ \E s \in {"count", "wait"} : stage' = [stage EXCEPT ![c] = s]
      BY <2>1 DEF BridgeEnter, EnterRetest, AfterLock, counts
    <3> QED
      BY <1>0, <1>1, <3>1
  <2>2. CASE Cross(c) \/ BridgeLeave(c) \/ WakesInLock(c)
    <3>1. UNCHANGED <<lr_on, rl_on>>
      BY <2>2 DEF Cross, BridgeLeave, WakesInLock, counts
    <3> QED
      BY <1>0, <1>1, <2>2, <3>1 DEF Cross, BridgeLeave, WakesInLock, Advance
  <2>3. CASE BusCounted(c) \/ BusUncounted(c)
    <3>1. /\ Cardinality(CountedBuses(LRBuses)) \in Nat /\ Cardinality(CountedBuses(RLBuses)) \in Nat
      BY ThreadsFinite, FS_Subset, FS_CardinalityType DEF CountedBuses
    <3>2. /\ lr_on' = lr_on + (IF c \notin LRBuses THEN 0 ELSE IF BusCounted(c) THEN 1 ELSE -1)
          /\ rl_on' = rl_on + (IF c \notin RLBuses THEN 0 ELSE IF BusCounted(c) THEN 1 ELSE -1)
      <4>1. ~(BusCounted(c) /\ BusUncounted(c))
        BY DEF BusCounted, BusUncounted, Advance
      <4> QED
        BY <2>3, <3>1, <4>1 DEF BusCounted, BusUncounted, CountBus, CrossingsCounted
    <3> QED
      BY <2>3, <3>2, BusesRecounted DEF CrossingsCounted
  <2> QED
    BY <1>3, <2>1, <2>2, <2>3 DEF Bus
<1> QED
  BY <1>2, <1>3 DEF BridgeNext

(* The invariant of the bridge: stages, counts, mutex and lock agree.      *)
THEOREM BridgeInvariant == ASSUME NoBusIsNoThread PROVE BridgeSpec => []BridgeInv
<1>1. ASSUME BridgeInit PROVE BridgeInv
  <2>1. Counted /\ StagesFit
    BY <1>1, CountedInit DEF BridgeInit, Init, StagesFit, Stages, CallFits
  <2>2. CountedBuses(LRBuses) = {} /\ CountedBuses(RLBuses) = {}
    BY <1>1 DEF BridgeInit, CountedBuses
  <2> QED
    BY <1>1, <2>1, <2>2, FS_EmptySet DEF BridgeInit, BridgeInv, CrossingsCounted
<1>2. NoBusIsNoThread /\ BridgeInv /\ [BridgeNext]_bridgeVars => BridgeInv'
  BY BridgeStepIsLockStep, CountedStep, StagesKept, CrossingsKept DEF BridgeInv
<1> QED
  BY <1>1, <1>2, PTL DEF BridgeSpec

(* cs_status_check: never two directions on the bridge, and no more buses  *)
(* of a direction than the limit of the other one, as the two are          *)
(* exchanged on their way to the lock (bridge.c:12).                       *)
LimitsExchanged ==
  /\ lr_on = 0 \/ rl_on = 0
  /\ lr_on <= n_RL /\ rl_on <= n_LR

THEOREM ExchangedLimitsHold == ASSUME NoBusIsNoThread PROVE BridgeSpec => []LimitsExchanged
<1>1. ASSUME BridgeInv PROVE LimitsExchanged
  <2>1. CountedBuses(LRBuses) \subseteq In("reading") /\ CountedBuses(RLBuses) \subseteq In("writing")
    BY <1>1 DEF BridgeInv, StagesFit, CallFits, CountedBuses, In, RLBuses
  <2>2. IsFiniteSet(In("reading")) /\ IsFiniteSet(In("writing"))
    BY ThreadsFinite, FS_Subset DEF In
  <2>3. /\ lr_on \in Nat /\ rl_on \in Nat
        /\ lr_on <= readers_active /\ rl_on <= writers_active
    BY <1>1, <2>1, <2>2, FS_Subset, FS_CardinalityType DEF BridgeInv, CrossingsCounted, Counted, CountersExact
  <2> QED
    BY <1>1, <2>3, LimitsPositive DEF BridgeInv, Counted, OneSide, TypeOK, LimitsExchanged, n_LR, n_RL
<1> QED
  BY <1>1, BridgeInvariant, PTL

(* The test gives both directions one limit, and its assertion holds       *)
(* whenever a bus is about to make it.                                     *)
THEOREM BridgeAssertionsHold ==
  ASSUME NoBusIsNoThread, n_LR = n_RL
  PROVE  BridgeSpec => []((\E b \in Threads : stage[b] = "check") => BridgeStatusValid)
<1>1. BridgeInv /\ LimitsExchanged => BridgeStatusValid
  <2>1. CrossingsCounted => lr_on \in Nat /\ rl_on \in Nat
    BY ThreadsFinite, FS_Subset, FS_CardinalityType DEF CrossingsCounted, CountedBuses
  <2> QED
    BY <2>1 DEF BridgeInv, LimitsExchanged, BridgeStatusValid
<1>2. BridgeStatusValid => ((\E b \in Threads : stage[b] = "check") => BridgeStatusValid)
  OBVIOUS
<1> QED
  BY <1>1, <1>2, BridgeInvariant, ExchangedLimitsHold, PTL

(* bridge.c:19 and 37: a bus that has to wait waits for ever, whatever the *)
(* other buses do, and from then on nobody comes or leaves.                *)
THEOREM WaitsForEver ==
  ASSUME NoBusIsNoThread, NEW b \in Threads
  PROVE  BridgeSpec => /\ [](stage[b] = "wait" => []Waits(b))
                       /\ [][Waits(b) => UNCHANGED <<call, cnt, owner>>]_bridgeVars
<1>1. BridgeInv => (stage[b] = "wait" => Waits(b))
  BY DEF BridgeInv, StagesFit
<1>2. BridgeInv /\ Waits(b) /\ [BridgeNext]_bridgeVars => Waits(b)'
  BY WaiterStays DEF BridgeInv, Counted, TypeOK
<1>3. BridgeInv /\ [BridgeNext]_bridgeVars => [Waits(b) => UNCHANGED <<call, cnt, owner>>]_bridgeVars
  BY WaiterStays DEF BridgeInv, Counted, TypeOK
<1> QED
  BY <1>1, <1>2, <1>3, BridgeInvariant, PTL DEF BridgeSpec

(* Hence the test does not end once a bus has had to wait.                 *)
THEOREM WaiterPreventsEnd ==
  ASSUME NoBusIsNoThread, Crossings \in Nat, NEW b \in Threads
  PROVE  BridgeSpec => (<>(stage[b] = "wait") => ~BusesFinish)
<1>1. Waits(b) => ~AllAcross
  BY DEF Waits, AllAcross
<1>2. BridgeInv /\ AllAcross /\ [BridgeNext]_bridgeVars => AllAcross'
  <2> SUFFICES ASSUME BridgeInv, AllAcross, [BridgeNext]_bridgeVars PROVE AllAcross'
    OBVIOUS
  <2>1. \A c \in Threads : stage[c] = "arrive" /\ cnt[c] = Crossings /\ call[c] = "idle"
    BY DEF AllAcross, BridgeInv, StagesFit, CallFits
  <2>2. UNCHANGED <<stage, cnt>>
    BY <2>1 DEF BridgeNext, Bus, BridgeEnter, EnterRetest, BusCounted, Cross, BusUncounted, BridgeLeave, Advance,
       WakesInLock, bridgeVars, counts
  <2> QED
    BY <2>2 DEF AllAcross
<1> QED
  BY <1>1, <1>2, WaitsForEver, BridgeInvariant, PTL DEF BridgeSpec, BusesFinish
===============================================================================
