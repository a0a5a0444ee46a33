--------------------------------- MODULE Crud ----------------------------------
(***************************************************************************)
(* PART A's student database, CRUD/Crud_algo.c over student_list.c and     *)
(* refcount.c: threads that read, update, create and delete students in a  *)
(* list (LinkedListApi) under its lock.  A student counts references to    *)
(* it, one of the list and one of each thread that uses it, and whoever    *)
(* drops the last one frees it.  An action is the code between two calls   *)
(* of pthread or of refcount.c, whose spinlock makes them atomic.          *)
(***************************************************************************)
EXTENDS Integers, FiniteSets

CONSTANTS Readers, Updaters, Creators, Deleters,  \* the threads of each function
          Rolls,              \* roll_no, 0 .. MAX_ROLL_NO - 1
          Students,           \* bound: the places malloc has for students
          INCR, MarksRange,   \* the increment and the modulus of total_marks
          None                \* no thread, no student, no roll number

Users == Readers \cup Updaters
Writers == Creators \cup Deleters
Threads == Users \cup Writers

ASSUME ThreadsFinite == IsFiniteSet(Threads)
ASSUME RolesDisjoint ==
  /\ Readers \cap Updaters = {} /\ Creators \cap Deleters = {}
  /\ Users \cap Writers = {}
ASSUME NoneIsNothing == None \notin Threads \cup Rolls \cup Students \cup Nat
ASSUME MarksAreNumbers == INCR \in Nat /\ MarksRange \in Nat \ {0}

LL == INSTANCE LinkedListApi WITH NULL <- None

VARIABLES lst,        \* the list of students, stud_lst.lst
          lstLock,    \* its lock, stud_lst.rw_lock
          roll,       \* roll_no of each allocated student
          marks,      \* total_marks
          ref,        \* ref_count
          studLock,   \* rw_lock of each student
          at,         \* where each thread is in its loop
          stud        \* its local variable of that name

students == <<lst, roll, marks, ref>>
locks == <<lstLock, studLock>>
vars == <<students, locks, at, stud>>

Places == {"idle", "lookup", "ref", "lock", "unlist", "use", "wrap",     \* users
           "find", "insert", "listed",                                   \* creators
           "remove", "share", "drop", "release",                         \* deleters
           "done", "destroy"}

Unlocked == [readers |-> {}, writer |-> None]
LockStates == [readers : SUBSET Threads, writer : Threads \cup {None}]

(* The students in the list. *)
Listed == LL!Held(lst)

TypeOK ==
  /\ Listed \subseteq Students
  /\ lstLock \in LockStates /\ studLock \in [Students -> LockStates]
  /\ roll \in [Students -> Rolls \cup {None}]
  /\ marks \in [Students -> 0 .. MarksRange + INCR - 1]
  /\ ref \in [Students -> Nat]
  /\ at \in [Threads -> Places]
  /\ stud \in [Threads -> Students \cup {None}]

-------------------------------------------------------------------------------
(* pthread_rwlock: many readers or one writer; nothing is assumed of whom  *)
(* it prefers.                                                             *)
CanRead(l) == l.writer = None
CanWrite(l) == l.writer = None /\ l.readers = {}
ReadLocked(l, t) == [l EXCEPT !.readers = @ \cup {t}]
WriteLocked(l, t) == [l EXCEPT !.writer = t]
Released(l, t) == [readers |-> l.readers \ {t}, writer |-> IF l.writer = t THEN None ELSE l.writer]

(* main *)
Init ==
  /\ lst = LL!init_singly_ll /\ lstLock = Unlocked
  /\ roll = [s \in Students |-> None]
  /\ marks = [s \in Students |-> 0] /\ ref = [s \in Students |-> 0]
  /\ studLock = [s \in Students |-> Unlocked]
  /\ at = [t \in Threads |-> "idle"]
  /\ stud = [t \in Threads |-> None]

Goto(t, from, to) == at[t] = from /\ at' = [at EXCEPT ![t] = to]

(* student_lst_lookup *)
Found(r) == {s \in Listed : roll[s] = r}

AddRef(s, d) == ref' = [ref EXCEPT ![s] = @ + d]
LeaveList(t) == lstLock' = Released(lstLock, t)

(* The loop goes round without a student. *)
GiveUp(t) ==
  /\ at' = [at EXCEPT ![t] = "idle"]
  /\ LeaveList(t)
  /\ UNCHANGED <<students, studLock, stud>>

-------------------------------------------------------------------------------
(* reader_fn and update_fn *)
EnterList(t) ==
  /\ t \in Users /\ Goto(t, "idle", "lookup")
  /\ CanRead(lstLock) /\ lstLock' = ReadLocked(lstLock, t)
  /\ UNCHANGED <<students, studLock, stud>>

Lookup(t) ==
  /\ at[t] = "lookup"
  /\ \E r \in Rolls :
       \/ Found(r) = {} /\ GiveUp(t)
       \/ \E s \in Found(r) : /\ stud' = [stud EXCEPT ![t] = s]
                              /\ Goto(t, "lookup", "ref")
                              /\ UNCHANGED <<students, locks>>

(* Names with "Wrong" are variants of the definition that follows, each    *)
(* with a slip the code might have; no part of the model uses them.        *)
WrongTakeRef(t) ==   \* does not count the reference
  /\ Goto(t, "ref", "lock")
  /\ UNCHANGED <<students, locks, stud>>

TakeRef(t) ==
  /\ Goto(t, "ref", "lock")
  /\ AddRef(stud[t], 1)
  /\ UNCHANGED <<lst, roll, marks, locks, stud>>

WrongLockStudent(t) ==   \* an updater takes the lock for reading
  /\ Goto(t, "lock", "unlist")
  /\ CanRead(studLock[stud[t]])
  /\ studLock' = [studLock EXCEPT ![stud[t]] = ReadLocked(@, t)]
  /\ UNCHANGED <<students, lstLock, stud>>

LockStudent(t) ==
  /\ Goto(t, "lock", "unlist")
  /\ LET s == stud[t]
     IN \/ /\ t \in Readers /\ CanRead(studLock[s])
           /\ studLock' = [studLock EXCEPT ![s] = ReadLocked(@, t)]
        \/ /\ t \in Updaters /\ CanWrite(studLock[s])
           /\ studLock' = [studLock EXCEPT ![s] = WriteLocked(@, t)]
  /\ UNCHANGED <<students, lstLock, stud>>

UnlockList(t) ==
  /\ Goto(t, "unlist", "use")
  /\ LeaveList(t)
  /\ UNCHANGED <<students, studLock, stud>>

UnlockStudent(t) ==
  /\ studLock' = [studLock EXCEPT ![stud[t]] = Released(@, t)]
  /\ UNCHANGED <<lstLock, stud>>

Read(t) ==
  /\ t \in Readers /\ Goto(t, "use", "done")
  /\ UnlockStudent(t)
  /\ UNCHANGED students

(* The update adds first and takes the remainder in a statement of its own. *)
Increment(t) ==
  /\ t \in Updaters /\ Goto(t, "use", "wrap")
  /\ marks' = [marks EXCEPT ![stud[t]] = @ + INCR]
  /\ UNCHANGED <<lst, roll, ref, locks, stud>>

Wrap(t) ==
  /\ Goto(t, "wrap", "done")
  /\ marks' = [marks EXCEPT ![stud[t]] = @ % MarksRange]
  /\ UnlockStudent(t)
  /\ UNCHANGED <<lst, roll, ref>>

(* thread_using_object_done, whose caller destroys the student if it was   *)
(* the last; student_destroy.  Their assertions are conjuncts.             *)
WrongDone(t) ==   \* leaves the student to the list's last holder
  /\ at[t] = "done" /\ ref[stud[t]] > 0
  /\ AddRef(stud[t], -1)
  /\ at' = [at EXCEPT ![t] = IF ref'[stud[t]] = 0 /\ t \in Deleters THEN "destroy" ELSE "idle"]
  /\ stud' = IF at'[t] = "destroy" THEN stud ELSE [stud EXCEPT ![t] = None]
  /\ UNCHANGED <<lst, roll, marks, locks>>

Done(t) ==
  /\ at[t] = "done" /\ ref[stud[t]] > 0
  /\ AddRef(stud[t], -1)
  /\ IF ref'[stud[t]] = 0
     THEN at' = [at EXCEPT ![t] = "destroy"] /\ UNCHANGED stud
     ELSE at' = [at EXCEPT ![t] = "idle"] /\ stud' = [stud EXCEPT ![t] = None]
  /\ UNCHANGED <<lst, roll, marks, locks>>

Destroy(t) ==
  /\ Goto(t, "destroy", "idle") /\ ref[stud[t]] = 0
  /\ roll' = [roll EXCEPT ![stud[t]] = None]
  /\ stud' = [stud EXCEPT ![t] = None]
  /\ UNCHANGED <<lst, marks, ref, locks>>

-------------------------------------------------------------------------------
(* create_fn and delete_fn *)
WrongEnterListAlone(t) ==   \* takes the list's lock for reading
  /\ Goto(t, "idle", IF t \in Creators THEN "find" ELSE "remove") /\ t \in Writers
  /\ CanRead(lstLock) /\ lstLock' = ReadLocked(lstLock, t)
  /\ UNCHANGED <<students, studLock, stud>>

EnterListAlone(t) ==
  /\ t \in Writers
  /\ Goto(t, "idle", IF t \in Creators THEN "find" ELSE "remove")
  /\ CanWrite(lstLock) /\ lstLock' = WriteLocked(lstLock, t)
  /\ UNCHANGED <<students, studLock, stud>>

(* The lookup of create_fn, and student_malloc if there is no such student. *)
Allocate(t) ==
  /\ at[t] = "find"
  /\ \E r \in Rolls :
       \/ Found(r) # {} /\ GiveUp(t)
       \/ /\ Found(r) = {}
          /\ \E s \in Students :
               /\ roll[s] = None
               /\ roll' = [roll EXCEPT ![s] = r]
               /\ marks' = [marks EXCEPT ![s] = 0]
               /\ ref' = [ref EXCEPT ![s] = 0]
               /\ studLock' = [studLock EXCEPT ![s] = Unlocked]
               /\ stud' = [stud EXCEPT ![t] = s]
          /\ Goto(t, "find", "insert")
          /\ UNCHANGED <<lst, lstLock>>

(* student_lst_insert, under an assertion that it finds no such student.   *)
Insert(t) ==
  /\ Goto(t, "insert", "listed")
  /\ Found(roll[stud[t]]) = {}
  /\ lst' = LL!singly_ll_add_node_by_val(lst, stud[t])
  /\ UNCHANGED <<roll, marks, ref, locks, stud>>

WrongRefForList(t) ==   \* does not count the list's reference
  /\ Goto(t, "listed", "idle")
  /\ LeaveList(t)
  /\ stud' = [stud EXCEPT ![t] = None]
  /\ UNCHANGED <<students, studLock>>

(* ref_count_inc for the list, and the unlock. *)
RefForList(t) ==
  /\ Goto(t, "listed", "idle")
  /\ AddRef(stud[t], 1)
  /\ LeaveList(t)
  /\ stud' = [stud EXCEPT ![t] = None]
  /\ UNCHANGED <<lst, roll, marks, studLock>>

Remove(t) ==
  /\ at[t] = "remove"
  /\ \E r \in Rolls :
       \/ Found(r) = {} /\ GiveUp(t)
       \/ \E s \in Found(r) : /\ lst' = LL!singly_ll_delete_node_by_data_ptr(lst, s)
                              /\ stud' = [stud EXCEPT ![t] = s]
                              /\ Goto(t, "remove", "share")
                              /\ UNCHANGED <<roll, marks, ref, locks>>

Share(t) ==
  /\ Goto(t, "share", "drop")
  /\ AddRef(stud[t], 1)
  /\ UNCHANGED <<lst, roll, marks, locks, stud>>

(* The list's reference, under the assertion that it is not the last.      *)
DropRefOfList(t) ==
  /\ Goto(t, "drop", "release") /\ ref[stud[t]] > 1
  /\ AddRef(stud[t], -1)
  /\ UNCHANGED <<lst, roll, marks, locks, stud>>

ReleaseList(t) ==
  /\ Goto(t, "release", "done")
  /\ LeaveList(t)
  /\ UNCHANGED <<students, studLock, stud>>

-------------------------------------------------------------------------------
(* What a thread does once it holds a lock: it waits for no other thread,  *)
(* except for the lock of the student.                                     *)
Proceed(t) ==
  \/ Lookup(t) \/ TakeRef(t) \/ UnlockList(t) \/ Read(t) \/ Increment(t) \/ Wrap(t)
  \/ Allocate(t) \/ Insert(t) \/ RefForList(t)
  \/ Remove(t) \/ Share(t) \/ DropRefOfList(t) \/ ReleaseList(t)
  \/ Done(t) \/ Destroy(t)

Next == \E t \in Threads : EnterList(t) \/ LockStudent(t) \/ EnterListAlone(t) \/ Proceed(t)

Spec == Init /\ [][Next]_vars

(* A thread that can go on does.  Nothing is assumed of who gets a lock.   *)
FairSpec == Spec /\ \A t \in Threads : WF_vars(Proceed(t))

-------------------------------------------------------------------------------
HoldersOf(s) ==
  {t \in Threads : stud[t] = s /\ at[t] \in {"lock", "unlist", "use", "wrap", "drop", "release", "done"}}

(* The list's reference is counted after the insertion and dropped some    *)
(* time after the removal.                                                 *)
CountedForList(s) ==
  \/ s \in Listed /\ ~\E t \in Threads : stud[t] = s /\ at[t] = "listed"
  \/ \E t \in Threads : stud[t] = s /\ at[t] \in {"share", "drop"}

(* The state is well formed: the student list keeps its count, its links   *)
(* and its memory in agreement whatever is inserted and removed.           *)
ListSound == TypeOK /\ LL!Consistent(lst)

(* The count of a student is the number of references to it, however the   *)
(* threads that use it and the one that deletes it interleave; hence the   *)
(* assertions of refcount.c and of delete_fn hold.                         *)
RefCountExact ==
  \A s \in Students :
    roll[s] # None =>
      ref[s] = Cardinality(HoldersOf(s)) + (IF CountedForList(s) THEN 1 ELSE 0)

(* No student is used after it was freed, or freed twice or with its lock  *)
(* held, although its deletion does not wait for the threads using it.     *)
NoUseAfterFree ==
  /\ \A t \in Threads : stud[t] # None => roll[stud[t]] # None
  /\ \A s \in Listed : roll[s] # None
  /\ \A t, u \in Threads :
       (at[t] = "destroy" /\ stud[u] = stud[t]) => u = t
  /\ \A s \in Students : roll[s] = None => studLock[s] = Unlocked

(* The assertion of create_fn never fails: between its lookup and its      *)
(* insertion nobody inserts a student of that number.                      *)
InsertionSucceeds == \A t \in Threads : at[t] = "insert" => Found(roll[stud[t]]) = {}

(* A reader never sees marks in the middle of an update ("Marks of student *)
(* update by more than INCR").                                             *)
ReadsWholeUpdates ==
  \A t \in Readers : at[t] = "use" => marks[stud[t]] < MarksRange

(* No new operation on a student whose deletion is deferred: once it has   *)
(* left the list, no thread but the deleting one takes a reference to it.  *)
DeferredUntouched ==
  [][\A s \in Students :
       (s \notin Listed /\ roll[s] # None) => HoldersOf(s)' \subseteq HoldersOf(s) \cup Deleters]_vars

(* A student removed from the list is freed in the end: no deferred        *)
(* deletion is forgotten and none leaks.                                   *)
RemovedIsFreed ==
  \A s \in Students : (s \notin Listed /\ roll[s] # None) ~> (s \in Listed \/ roll[s] = None)
===============================================================================
