------------------------------ MODULE ThreadPool ------------------------------
(***************************************************************************)
(* PART B's thread pool (ThreadPool/threadlib.c; the other threadlib.c     *)
(* files have the same functions) under one thread that dispatches jobs,   *)
(* as main of thread_pool_app.c does.  The pool's list is under its mutex; *)
(* nothing else that dispatcher and workers share is, so that each of      *)
(* their accesses to a thread_t is an action of its own.                   *)
(***************************************************************************)
EXTENDS Integers, Sequences, FiniteSets, Glthread

CONSTANTS Workers,     \* the thread_t structures inserted in the pool
          Blocking     \* for each dispatch of main its argument block_caller

Jobs == 1..Len(Blocking)
ASSUME BlockingIsSeq == Blocking \in Seq(BOOLEAN)
ASSUME WorkersFinite == IsFiniteSet(Workers)
ASSUME AddressesDiffer == "pool_head" \notin Workers /\ NULL \notin Workers \cup {"pool_head"}

VARIABLES wait_glue,   \* the links of each worker, and pool_head, the list's head
          dpc,         \* the next statement of thread_pool_dispatch_thread
          j,           \* the dispatch main has come to
          got,         \* the worker the dispatch took from the pool
          wpc,         \* the next statement of each worker, none before thread_run
          ex,          \* the job in thread->arg, 0 before the first
          current,     \* the job the worker is running
          semaphore,   \* the field thread->semaphore, see Zero
          runs,        \* ghost: how often each job has been run
          given,       \* ghost: the jobs for which a worker was found
          disturbed    \* ghost: a worker's cond_wait returned without a signal

dispVars == <<dpc, j, got, ex, given>>
workVars == <<wpc, current, runs>>
poolVars == <<wait_glue, dispVars, workVars, semaphore, disturbed>>

DispatchPlaces == {"get", "prepare", "run", "alloc", "sem_init", "sem_wait", "blocked"}
WorkerPlaces == {"none", "job", "insert", "test", "post", "sleep", "asleep"}

(* sem_init, sem_wait and sem_post are given the address of the pointer    *)
(* thread->semaphore: the sem_t lies over it, the value and the number of  *)
(* waiters in the bytes the worker tests as a pointer.  junk: these bytes  *)
(* are what calloc returned.                                               *)
Sem(value, waiters, junk) == [value |-> value, waiters |-> waiters, junk |-> junk]
Zero == Sem(0, 0, FALSE)
NonNull(s) == s # Zero

Links == Workers \cup {"pool_head", NULL}

PoolTypeOK ==
  /\ wait_glue \in [Workers \cup {"pool_head"} -> [left : Links, right : Links]]
  /\ dpc \in DispatchPlaces /\ j \in 1..Len(Blocking)+1
  /\ got \in Workers \cup {NULL}
  /\ wpc \in [Workers -> WorkerPlaces]
  /\ ex \in [Workers -> 0..Len(Blocking)] /\ current \in [Workers -> 0..Len(Blocking)]
  /\ semaphore \in [Workers -> [value : Nat, waiters : {0, 1}, junk : BOOLEAN]]
  /\ runs \in [Jobs -> Nat] /\ given \subseteq Jobs
  /\ disturbed \in BOOLEAN

-------------------------------------------------------------------------------
(* The idle workers, oldest first. *)
pool == Listed(wait_glue, "pool_head")
InPool(w) == \E i \in DOMAIN pool : pool[i] = w

(* thread_create, thread_pool_init and thread_pool_insert_new_thread in main *)
PoolInit ==
  /\ wait_glue \in {Chain(Workers, "pool_head", s) :
                     s \in {s \in Distinct(Workers) : Len(s) = Cardinality(Workers)}}
  /\ dpc = "get" /\ j = 1 /\ got = NULL
  /\ wpc = [w \in Workers |-> "none"]
  /\ ex = [w \in Workers |-> 0] /\ current = [w \in Workers |-> 0]
  /\ semaphore = [w \in Workers |-> Zero]
  /\ runs = [i \in Jobs |-> 0] /\ given = {}
  /\ disturbed = FALSE

NextDispatch == dpc' = "get" /\ j' = j + 1 /\ got' = NULL

(* Names with "Wrong" are variants of the definition that follows, each    *)
(* with a slip the code might have; no part of the model uses them.        *)
WrongGetThread ==   \* leaves the worker in the list
  /\ dpc = "get" /\ j \in Jobs /\ pool # <<>>
  /\ got' = Head(pool)
  /\ given' = given \cup {j}
  /\ dpc' = "prepare"
  /\ UNCHANGED <<wait_glue, j, ex, workVars, semaphore, disturbed>>

(* thread_pool_get_thread; a dispatch that finds no worker does nothing.   *)
GetThread ==
  /\ dpc = "get" /\ j \in Jobs
  /\ \/ /\ pool = <<>>
        /\ NextDispatch
        /\ UNCHANGED <<wait_glue, given>>
     \/ /\ pool # <<>>
        /\ got' = glthread_get_first_node(wait_glue, "pool_head")
        /\ wait_glue' = dequeue_glthread_first(wait_glue, "pool_head")
        /\ given' = given \cup {j}
        /\ dpc' = "prepare"
        /\ UNCHANGED j
  /\ UNCHANGED <<ex, workVars, semaphore, disturbed>>

(* The execution data, kept from the worker's first dispatch on. *)
Prepare ==
  /\ dpc = "prepare"
  /\ ex' = [ex EXCEPT ![got] = j]
  /\ dpc' = "run"
  /\ UNCHANGED <<wait_glue, j, got, given, workVars, semaphore, disturbed>>

(* thread_pool_run_thread: create the thread, or signal it without its     *)
(* mutex, which wakes nobody if it is not asleep yet.                      *)
RunThread ==
  /\ dpc = "run"
  /\ wpc' = IF wpc[got] \in {"none", "asleep"} THEN [wpc EXCEPT ![got] = "job"] ELSE wpc
  /\ IF Blocking[j] THEN dpc' = "alloc" /\ UNCHANGED <<j, got>> ELSE NextDispatch
  /\ UNCHANGED <<wait_glue, ex, given, current, runs, semaphore, disturbed>>

(* The three statements of a blocking dispatch. *)
SemStep(from, to, value) ==
  /\ dpc = from /\ dpc' = to
  /\ semaphore' = [semaphore EXCEPT ![got] = value]
  /\ UNCHANGED <<wait_glue, j, got, ex, given, workVars, disturbed>>

AllocSemaphore == SemStep("alloc", "sem_init", Sem(0, 0, TRUE))
InitSemaphore == SemStep("sem_init", "sem_wait", Zero)
SemWait ==
  /\ dpc = "sem_wait" /\ semaphore[got].value = 0
  /\ SemStep("sem_wait", "blocked", [semaphore[got] EXCEPT !.waiters = 1])

(* sem_wait returns, at once or after having been blocked. *)
SemWaitReturns ==
  /\ dpc \in {"sem_wait", "blocked"}
  /\ semaphore[got].value > 0
  /\ semaphore' = [semaphore EXCEPT ![got].value = @ - 1, ![got].waiters = 0]
  /\ NextDispatch
  /\ UNCHANGED <<wait_glue, ex, given, workVars, disturbed>>

Dispatcher == \/ GetThread \/ Prepare \/ RunThread
              \/ AllocSemaphore \/ InitSemaphore \/ SemWait \/ SemWaitReturns

-------------------------------------------------------------------------------
Advance(w, from, to) == wpc[w] = from /\ wpc' = [wpc EXCEPT ![w] = to]

(* execute_then_finish: the job is read from the execution data and run. *)
RunJob(w) ==
  /\ Advance(w, "job", "insert")
  /\ current' = [current EXCEPT ![w] = ex[w]]
  /\ runs' = [runs EXCEPT ![ex[w]] = @ + 1]
  /\ UNCHANGED <<wait_glue, dispVars, semaphore, disturbed>>

(* finish_stage_fn, first statement: back into the pool, whose assertion   *)
(* ends the program if the worker is in a list already.                    *)
Insert(w) ==
  /\ Advance(w, "insert", "test")
  /\ IS_GLTHREAD_LIST_EMPTY(wait_glue, w)
  /\ wait_glue' = glthread_add_last(wait_glue, "pool_head", w)
  /\ UNCHANGED <<dispVars, current, runs, semaphore, disturbed>>

(* Its test of thread->semaphore, and its post. *)
TestSemaphore(w) ==
  /\ Advance(w, "test", IF NonNull(semaphore[w]) THEN "post" ELSE "sleep")
  /\ UNCHANGED <<wait_glue, dispVars, current, runs, semaphore, disturbed>>

Post(w) ==
  /\ Advance(w, "post", "sleep")
  /\ semaphore' = IF semaphore[w].junk THEN semaphore
                  ELSE [semaphore EXCEPT ![w].value = @ + 1]
  /\ UNCHANGED <<wait_glue, dispVars, current, runs, disturbed>>

WrongCondWait(w) ==   \* goes on without waiting
  /\ Advance(w, "sleep", "job")
  /\ UNCHANGED <<wait_glue, dispVars, current, runs, semaphore, disturbed>>

(* Its pthread_cond_wait. *)
CondWait(w) ==
  /\ Advance(w, "sleep", "asleep")
  /\ UNCHANGED <<wait_glue, dispVars, current, runs, semaphore, disturbed>>

Worker(w) == RunJob(w) \/ Insert(w) \/ TestSemaphore(w) \/ Post(w) \/ CondWait(w)

WakeUnsignalled(w) ==
  /\ Advance(w, "asleep", "job")
  /\ disturbed' = TRUE
  /\ UNCHANGED <<wait_glue, dispVars, current, runs, semaphore>>

PoolNext == Dispatcher \/ \E w \in Workers : Worker(w) \/ WakeUnsignalled(w)

(* The dispatcher and every created worker run when they can. *)
PoolSpec ==
  /\ PoolInit /\ [][PoolNext]_poolVars
  /\ WF_poolVars(Dispatcher) /\ \A w \in Workers : WF_poolVars(Worker(w))

-------------------------------------------------------------------------------
(* The state is well formed, and a worker in the pool is idle and there    *)
(* once: the assertion of thread_pool_insert_new_thread does not fail and  *)
(* no dispatch hands a job to a worker that has another one.  A spurious   *)
(* wakeup breaks it: the worker runs its old job again while it is in the  *)
(* pool.                                                                   *)
PooledAreIdle ==
  /\ PoolTypeOK
  /\ ~disturbed =>
    /\ \A a, b \in DOMAIN pool : a # b => pool[a] # pool[b]
    /\ \A w \in Workers : wpc[w] \in {"job", "insert"} => ~InPool(w)

(* No job is run twice and none without having been dispatched, although   *)
(* the execution data of a worker outlives the job.                        *)
AtMostOnce ==
  ~disturbed => \A i \in Jobs : runs[i] <= (IF i \in given THEN 1 ELSE 0)

(* A dispatch that finds a worker has its job run. *)
DispatchedJobsRun == \A i \in Jobs : i \in given ~> (runs[i] > 0 \/ disturbed)
===============================================================================
