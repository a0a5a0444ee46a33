---------------------------- MODULE ThreadPrograms ----------------------------
(***************************************************************************)
(* The small programs of PART A: threads that alternate through two        *)
(* semaphores, threads that are cancelled while they hold files, sockets   *)
(* and memory, and threads that are created and joined.  A program gives   *)
(* each of its threads a sequence of calls, and an action is one call;     *)
(* which program runs is chosen at the start.  The semaphores of EvenOdd   *)
(* are those of Semaphore, which a further program, "callers", leaves to   *)
(* any threads that call one of them as they like.                         *)
(***************************************************************************)
EXTENDS Semaphore, Sequences
LOCAL INSTANCE SequencesExt

VARIABLES program,
          pc,          \* the next call of each thread, in its sequence
          state,       \* of each thread: "new", "running", "failed" (never created),
                       \* "ended", "cancelled", "killed"
          pending,     \* the threads with a cancellation request
          async,       \* the threads that may be cancelled between any two calls
          cleanup,     \* the cleanup handlers of each thread, the last first
          allocated,   \* memory, files and sockets not yet given back
          printed,     \* what was printed, where its order matters
          sem_t,       \* the POSIX semaphores of Assignment1
          permit_counter2, cv2, awake2, posts2, passed2, spurious2   \* sem2 of EvenOdd

Sem2 == INSTANCE Semaphore WITH permit_counter <- permit_counter2, cv <- cv2, awake <- awake2,
                                posts <- posts2, passed <- passed2, spurious <- spurious2
vars2 == <<permit_counter2, cv2, awake2, posts2, passed2, spurious2>>
semaphores == <<vars, vars2, sem_t>>
progress == <<pc, printed>>
cancellation == <<pending, async, cleanup>>
allVars == <<program, semaphores, progress, state, cancellation, allocated>>

Slaves == <<"t1", "t2">>
Started == {"t1", "t2", "t3"}
All == Started \cup {"main"}

-------------------------------------------------------------------------------
(* The calls.  A resource is a kind and the thread or the line it is for.  *)
(* CreateOr and TakeOr are calls whose result the code tests, followed by  *)
(* what it does in case of failure, which success skips.  pthread_create   *)
(* may fail also where nobody looks; the other calls are taken to succeed. *)
Create(t) == <<"create", <<t, 0>>>>
CreateOr(t, Failed) == <<<<"create", <<t, Len(Failed)>>>>>> \o Failed
Join(t) == <<"join", t>>
Rejoin(t) == <<"rejoin", t>>                \* of a thread that was joined before
Take(kind, t) == <<"take", <<kind, t>>>>
TakeOr(kind, t, Failed) == <<<<"attempt", <<<<kind, t>>, Len(Failed)>>>>>> \o Failed
Give(kind, t) == <<"give", <<kind, t>>>>
Use(kind, t) == <<"use", <<kind, t>>>>
Push(kind, t) == <<"push", <<kind, t>>>>    \* the cleanup handler that gives it back
Open(kind, t) == <<"open", <<kind, t>>>>    \* a cancellation point; the thread returns if it fails
Try == <<"try", 0>>                         \* the thread returns if it fails
Point == <<"point", 0>>                     \* a cancellation point
Goto(n) == <<"goto", n>>
Report(x, ts) == <<"print", <<x, ts>>>>     \* x is made of the results of ts
Write(x) == Report(x, {})
Async == <<"async", 0>>
Menu(ts) == <<"menu", ts>>                  \* a user cancels some of ts or ends the program
Cancel(t) == <<"cancel", t>>
Exit == <<"exit", 0>>                       \* the end of main ends the process
Return == <<"return", 0>>

Each(s, Calls(_)) == FlattenSeq([i \in DOMAIN s |-> Calls(s[i])])
Endless(start, loop) == start \o loop \o <<Goto(Len(start) + 1)>>

-------------------------------------------------------------------------------
(* EvenOdd/main.c *)
Odd == <<1, 3, 5, 7, 9, 11, 13>>
Even == <<2, 4, 6, 8, 10, 12, 14>>
P(i) == <<"sema_wait", i>>
V(i) == <<"sema_post", i>>

goAHead1 == Each(Odd, LAMBDA i : <<Write(i), V(2), P(1)>>)
(* Names with "Wrong" are variants of the definition that follows, each    *)
(* with a slip the code might have; no part of the model uses them.        *)
Wrong_goAHead2 == Each(Even, LAMBDA i : <<Write(i), P(2), V(1)>>)
Wrong_goAHead2_rounds == Each(Even \o <<16>>, LAMBDA i : <<P(2), Write(i), V(1)>>)
goAHead2 == Each(Even, LAMBDA i : <<P(2), Write(i), V(1)>>)

CreateAndJoin(s) == Each(s, LAMBDA t : <<Create(t)>>) \o Each(s, LAMBDA t : <<Join(t)>>) \o <<Exit>>

EvenOdd == [main |-> CreateAndJoin(Slaves), t1 |-> goAHead1, t2 |-> goAHead2]

(* Assignment1/main.c *)
Assignment1 ==
  [main |-> CreateAndJoin(Slaves),
   t1 |-> <<<<"sem_wait", 1>>, Write(1), <<"sem_post", 2>>>>,
   t2 |-> <<Write(2), <<"sem_post", 1>>, <<"sem_wait", 2>>>>]

(* ThreadCancellation: the main of all four programs, and write_into_file  *)
(* of each, with one file and one argument in memory for each slave.       *)
MasterSlave(ts) == Each(Slaves, LAMBDA t : <<Take("arg", t), Create(t)>>) \o <<Menu(ts)>>

WriteLines(t) == <<Use("arg", t), Use("file", t), Point>>

Wrong_write_deferred(t) ==   \* registers the file's handler after a first line
  Endless(<<Push("arg", t), Use("arg", t), Open("file", t)>>
            \o WriteLines(t) \o <<Push("file", t)>>,
          WriteLines(t))
write_deferred(t) ==
  Endless(<<Push("arg", t), Use("arg", t), Open("file", t), Push("file", t)>>, WriteLines(t))
write_async_handlers(t) ==
  Endless(<<Async, Push("arg", t), Use("arg", t), Open("file", t), Push("file", t)>>, WriteLines(t))
write_async(t) ==
  Endless(<<Async, Use("arg", t), Open("file", t)>>, WriteLines(t))
write_uncancelled(t) ==
  Endless(<<Use("arg", t), Open("file", t)>>, WriteLines(t))

Slave(Main, Body(_)) == [main |-> Main, t1 |-> Body("t1"), t2 |-> Body("t2")]
master_slave1_deferred_cancellation == Slave(MasterSlave(ToSet(Slaves)), write_deferred)
master_slave1_async_cancellation_cleanup_handlers ==
  Slave(MasterSlave(ToSet(Slaves)), write_async_handlers)
master_slave1_async_cancellation == Slave(MasterSlave(ToSet(Slaves)), write_async)
master_slave1 == Slave(MasterSlave({}), write_uncancelled)

(* The UDP listeners: socket, bind, and a loop that waits in recvfrom.     *)
Listen(t, Handlers) ==
  Endless(<<Use("package", t), Give("package", t), Try, Take("socket", t), Try, Take("buffer", t)>>
            \o Handlers,
          <<Use("buffer", t), Use("socket", t), Point>>)
listen_assignment(t) == Listen(t, <<Push("buffer", t), Push("socket", t)>>)
listen_solution(t) == Listen(t, <<Push("socket", t), Push("buffer", t)>>)
listen_for_ever(t) == Listen(t, <<>>)

udp_server_create_and_start(t) == <<Take("package", t), Create(t)>>
CreateListeners == Each(Slaves, udp_server_create_and_start) \o <<Return>>
CancelFirst == Each(Slaves, udp_server_create_and_start) \o <<Cancel("t1"), Return>>

(* Joinable Threads/main.c: the threads square 2 and 5.  A thread that     *)
(* cannot be created is reported, and main joins it nonetheless.           *)
calc_square(t) == <<Use("arg", t), Give("arg", t), Take("result", t)>>
Joinable ==
  [main |-> Each(Slaves, LAMBDA t : <<Take("arg", t), Create(t)>>)
            \o <<Join("t1"), Use("result", "t1"), Report(2 * 2, {"t1"}),
                 Join("t2"), Use("result", "t2"), Report(5 * 5, {"t2"}), Exit>>,
   t1 |-> calc_square("t1"), t2 |-> calc_square("t2")]

(* Assignment On Joinable & Detached Threads/main.c: the next thread is    *)
(* created when the last one has ended, and none after one that cannot be. *)
(* Bound: 3 threads of the 5.                                              *)
print_who_iam_i(t, n) == <<Use("arg", t), Give("arg", t), Write(n)>>
Countdown ==
  [main |-> Each(<<"t1", "t2", "t3">>, LAMBDA t : <<Take("arg", t)>> \o CreateOr(t, <<Exit>>) \o <<Join(t)>>)
            \o <<Exit>>,
   t1 |-> print_who_iam_i("t1", 3), t2 |-> print_who_iam_i("t2", 2),
   t3 |-> print_who_iam_i("t3", 1)]

(* Basic threading/main.c: main ends by pthread_exit, the process does not.*)
Basic == [main |-> <<Create("t1"), Return>>,
          t1 |-> Each([i \in 1..10 |-> i], LAMBDA i : <<Write(1), Point>>)]

(* MapReduceProject/main.c with a file of MAX_LINES lines, whose numbers   *)
(* of words are Words.  Each thread counts a slice of FOR_EACH lines.      *)
Words == <<3, 1, 4, 1, 5>>
MAX_LINES == Len(Words)
FOR_EACH == MAX_LINES \div Len(Slaves)
Lines == [k \in 1..MAX_LINES |-> k]
Slice(i) == SubSeq(Lines, (i - 1) * FOR_EACH + 1, i * FOR_EACH)
readYourPart(i) ==
  <<Use("parts", Slaves[i])>>
  \o Each(Slice(i), LAMBDA k : <<Use("lines", "main"), Use("line", k)>>)
  \o <<Give("parts", Slaves[i]), Take("result", Slaves[i])>>
Count(i) == FoldLeft(LAMBDA sum, k : sum + Words[k], 0, Slice(i))

(* Without the file, the array or any of the lines, what was taken before  *)
(* is given back and main returns.                                         *)
freeLines(lineCount) ==
  Each(SubSeq(Lines, 1, lineCount), LAMBDA k : <<Give("line", k)>>) \o <<Give("lines", "main")>>
CloseAndReturn == <<Give("file", "main"), Exit>>
readLinesFromFile ==
  TakeOr("file", "main", <<Exit>>)
  \o TakeOr("lines", "main", CloseAndReturn)
  \o Each(Lines, LAMBDA k : TakeOr("line", k, freeLines(k - 1) \o CloseAndReturn))
  \o <<Give("file", "main")>>

(* main creates the threads, though some may fail, joins each of them      *)
(* twice, the second time under a lock that nobody else takes, and frees   *)
(* the lines.                                                              *)
create_thread_and_print(t) == <<Take("parts", t), Create(t)>>
StartParts == readLinesFromFile \o Each(Slaves, create_thread_and_print)
Collect == Each(Slaves, LAMBDA t : <<Join(t), Rejoin(t), Use("result", t)>>)
           \o <<Report(Count(1) + Count(2), ToSet(Slaves))>>
CountInThreads ==
  [main |-> StartParts \o Collect \o freeLines(MAX_LINES) \o <<Exit>>,
   t1 |-> readYourPart(1), t2 |-> readYourPart(2)]

Code ==
  [callers |-> [t \in {} |-> <<>>],
   EvenOdd |-> EvenOdd, Assignment1 |-> Assignment1,
   deferred |-> master_slave1_deferred_cancellation,
   async_handlers |-> master_slave1_async_cancellation_cleanup_handlers,
   async |-> master_slave1_async_cancellation, master_slave1 |-> master_slave1,
   listener |-> Slave(CancelFirst, listen_assignment),
   listener_soln |-> Slave(CreateListeners, listen_solution),
   listener_events |-> Slave(CreateListeners, listen_for_ever),
   joinable |-> Joinable, countdown |-> Countdown, basic |-> Basic,
   wordcount |-> CountInThreads]

-------------------------------------------------------------------------------
ProgramInit ==
  /\ Init /\ Sem2!Init /\ sem_t = [i \in 1..2 |-> 0]
  /\ program \in DOMAIN Code
  /\ pc = [t \in DOMAIN Code[program] |-> 1]
  /\ state = [t \in DOMAIN pc |-> IF t = "main" THEN "running" ELSE "new"]
  /\ pending = {} /\ async = {} /\ cleanup = [t \in DOMAIN pc |-> <<>>]
  /\ allocated = {} /\ printed = <<>>

(* The next call of t, and its argument *)
InCode(t) == t \in DOMAIN pc /\ state[t] = "running" /\ pc[t] \in DOMAIN Code[program][t]
Calls(t, kind) == InCode(t) /\ Code[program][t][pc[t]][1] = kind
Arg(t) == Code[program][t][pc[t]][2]
Advance(t) == pc' = [pc EXCEPT ![t] = @ + 1]
Succeed(t) == pc' = [pc EXCEPT ![t] = @ + 1 + Arg(t)[2]]
Becomes(t, how) == state' = [state EXCEPT ![t] = how]
Failed(t) == t \in DOMAIN state /\ state[t] = "failed"
Stopped(t) == t \in DOMAIN state /\ state[t] \notin {"new", "running"}
EndProcess == state' = [t \in DOMAIN state |-> IF state[t] = "running" THEN "killed" ELSE state[t]]

(* pthread_create and pthread_join.  A thread that was joined before is    *)
(* found to have ended, or the process ends, which is undefined.           *)
CreateThread(t) ==
  /\ Calls(t, "create")
  /\ \/ Becomes(Arg(t)[1], "running") /\ Succeed(t)
     \/ Becomes(Arg(t)[1], "failed") /\ Advance(t)
  /\ UNCHANGED <<program, semaphores, printed, cancellation, allocated>>
JoinThread(t) ==
  /\ Calls(t, "join") /\ Stopped(Arg(t)) /\ ~ Failed(Arg(t))
  /\ Advance(t) /\ UNCHANGED <<program, semaphores, printed, state, cancellation, allocated>>
JoinAgain(t) ==
  /\ Calls(t, "rejoin") /\ ~ Failed(Arg(t))
  /\ \/ Advance(t) /\ UNCHANGED state
     \/ EndProcess /\ UNCHANGED pc
  /\ UNCHANGED <<program, semaphores, printed, cancellation, allocated>>

(* malloc, fopen and socket; free, fclose and close *)
Allocate(t) ==
  /\ Calls(t, "take") \/ Calls(t, "open")
  /\ allocated' = allocated \cup {Arg(t)}
  /\ Advance(t) /\ UNCHANGED <<program, semaphores, printed, state, cancellation>>
AllocateOr(t) ==
  /\ Calls(t, "attempt")
  /\ \/ allocated' = allocated \cup {Arg(t)[1]} /\ Succeed(t)
     \/ UNCHANGED allocated /\ Advance(t)
  /\ UNCHANGED <<program, semaphores, printed, state, cancellation>>
Free(t) ==
  /\ Calls(t, "give") /\ allocated' = allocated \ {Arg(t)}
  /\ Advance(t) /\ UNCHANGED <<program, semaphores, printed, state, cancellation>>

(* A call that changes nothing here.  pthread_testcancel, and a call that  *)
(* sleeps, do not return to a thread with a cancellation request.          *)
Pass(t) ==
  /\ \/ Calls(t, "use") /\ Arg(t) \in allocated
     \/ Calls(t, "try")
     \/ Calls(t, "point") /\ t \notin pending
  /\ Advance(t) /\ UNCHANGED <<program, semaphores, printed, state, cancellation, allocated>>
Jump(t) ==
  /\ Calls(t, "goto") /\ pc' = [pc EXCEPT ![t] = Arg(t)]
  /\ UNCHANGED <<program, semaphores, printed, state, cancellation, allocated>>
Printf(t) ==   \* a result that was never set is some number, or reads as none
  /\ Calls(t, "print")
  /\ IF \A u \in Arg(t)[2] : <<"result", u>> \in allocated
     THEN printed' = Append(printed, Arg(t)[1])
     ELSE printed' \in {Append(printed, "unset"), printed}
  /\ Advance(t) /\ UNCHANGED <<program, semaphores, state, cancellation, allocated>>

(* pthread_setcanceltype, pthread_cleanup_push and pthread_cancel *)
SetAsync(t) ==
  /\ Calls(t, "async") /\ async' = async \cup {t}
  /\ Advance(t)
  /\ UNCHANGED <<program, semaphores, printed, state, pending, cleanup, allocated>>
PushHandler(t) ==
  /\ Calls(t, "push") /\ cleanup' = [cleanup EXCEPT ![t] = <<Arg(t)>> \o @]
  /\ Advance(t) /\ UNCHANGED <<program, semaphores, printed, state, pending, async, allocated>>
CancelThread(t) ==
  /\ Calls(t, "cancel") /\ ~ Stopped(Arg(t)) /\ pending' = pending \cup {Arg(t)}
  /\ Advance(t) /\ UNCHANGED <<program, semaphores, printed, state, async, cleanup, allocated>>

(* A cancelled thread runs its handlers and ends.  fopen may be, and need  *)
(* not be, a cancellation point.                                           *)
Cancelled(t) ==
  /\ InCode(t) /\ t \in pending
  /\ t \in async \/ Calls(t, "point") \/ Calls(t, "open")
  /\ Becomes(t, "cancelled")
  /\ allocated' = allocated \ ToSet(cleanup[t])
  /\ cleanup' = [cleanup EXCEPT ![t] = <<>>]
  /\ UNCHANGED <<program, semaphores, progress, pending, async>>

(* A thread returns: at its end, or where a call has failed, without its   *)
(* handlers; and the end of main ends the process.                         *)
EndThread(t) ==
  /\ \/ t \in DOMAIN pc /\ state[t] = "running" /\ ~ InCode(t)
     \/ Calls(t, "return") \/ Calls(t, "open") \/ Calls(t, "try")
  /\ Becomes(t, "ended")
  /\ UNCHANGED <<program, semaphores, progress, cancellation, allocated>>
ExitProcess(t) ==
  /\ Calls(t, "exit") /\ EndProcess
  /\ UNCHANGED <<program, semaphores, progress, cancellation, allocated>>

(* The main menu of master_slave: an answer other than these changes       *)
(* nothing, nor need one that cancels a slave that was not created, and any*)
(* number that names no slave ends the process.                            *)
UserAnswers(t) ==
  /\ Calls(t, "menu")
  /\ \/ \E u \in Arg(t) : ~ Failed(u) /\ pending' = pending \cup {u} /\ UNCHANGED state
     \/ EndProcess /\ UNCHANGED pending
  /\ UNCHANGED <<program, semaphores, progress, async, cleanup, allocated>>

(* sema_wait and sema_post of sem1 and sem2 *)
OnlySem1 == UNCHANGED <<vars2, sem_t>>
OnlySem2 == UNCHANGED <<vars, sem_t>>
sema_wait(t) ==
  /\ Calls(t, "sema_wait")
  /\ \/ Arg(t) = 1 /\ (Wait(t) \/ WaitReturns(t)) /\ OnlySem1
     \/ Arg(t) = 2 /\ (Sem2!Wait(t) \/ Sem2!WaitReturns(t)) /\ OnlySem2
  /\ IF passed' + passed2' > passed + passed2 THEN Advance(t) ELSE UNCHANGED pc
  /\ UNCHANGED <<program, printed, state, cancellation, allocated>>
sema_post(t) ==
  /\ Calls(t, "sema_post")
  /\ \/ Arg(t) = 1 /\ Post(t) /\ OnlySem1
     \/ Arg(t) = 2 /\ Sem2!Post(t) /\ OnlySem2
  /\ Advance(t) /\ UNCHANGED <<program, printed, state, cancellation, allocated>>

(* sem_wait and sem_post of the C library *)
sem_wait(t) ==
  /\ Calls(t, "sem_wait") /\ sem_t[Arg(t)] > 0
  /\ sem_t' = [sem_t EXCEPT ![Arg(t)] = @ - 1]
  /\ Advance(t) /\ UNCHANGED <<program, vars, vars2, printed, state, cancellation, allocated>>
sem_post(t) ==
  /\ Calls(t, "sem_post") /\ sem_t' = [sem_t EXCEPT ![Arg(t)] = @ + 1]
  /\ Advance(t) /\ UNCHANGED <<program, vars, vars2, printed, state, cancellation, allocated>>

(* A handle or a pointer that was never set, or is set no longer: what the *)
(* call does is undefined.  It goes on, with an error or any value; it ends*)
(* the process; or it never returns, as it is no step that must be taken.  *)
Undefined(t) ==
  /\ \/ (Calls(t, "join") \/ Calls(t, "rejoin")) /\ Failed(Arg(t))
     \/ Calls(t, "cancel") /\ Stopped(Arg(t))
     \/ Calls(t, "use") /\ Arg(t) \notin allocated
  /\ \/ Advance(t) /\ UNCHANGED state
     \/ EndProcess /\ UNCHANGED pc
  /\ UNCHANGED <<program, semaphores, printed, cancellation, allocated>>

(* What a thread does by itself, as opposed to what its user does *)
ThreadStep(t) ==
  \/ CreateThread(t) \/ JoinThread(t) \/ JoinAgain(t)
  \/ Allocate(t) \/ AllocateOr(t) \/ Free(t) \/ Pass(t) \/ Jump(t)
  \/ Printf(t) \/ SetAsync(t) \/ PushHandler(t) \/ CancelThread(t) \/ Cancelled(t)
  \/ EndThread(t) \/ ExitProcess(t)
  \/ sema_wait(t) \/ sema_post(t) \/ sem_wait(t) \/ sem_post(t)

OthersAlone == UNCHANGED <<program, progress, state, cancellation, allocated>>
AnyCaller == program = "callers" /\ Next /\ OnlySem1 /\ OthersAlone
SpuriousReturn(t) ==   \* bound: one in EvenOdd
  /\ InCode(t) /\ OthersAlone /\ spurious + spurious2 = 0
  /\ (SpuriousWakeup(t) /\ OnlySem1) \/ (Sem2!SpuriousWakeup(t) /\ OnlySem2)

ProgramNext ==
  AnyCaller
  \/ \E t \in All : ThreadStep(t) \/ Undefined(t) \/ UserAnswers(t) \/ SpuriousReturn(t)

ProgramSpec == ProgramInit /\ [][ProgramNext]_allVars /\ \A t \in All : WF_allVars(ThreadStep(t))

-------------------------------------------------------------------------------
(* Every program whose output has an order prints in it, however its       *)
(* threads run and whichever cannot be created, unless a cond_wait has     *)
(* returned without a signal: sema_wait (sema.c) takes such a return for a *)
(* permit.  Joinable Threads prints what it finds in place of the result of*)
(* a thread that was not created.                                          *)
Expected ==
  [EvenOdd |-> [i \in 1..14 |-> i], Assignment1 |-> <<2, 1>>, joinable |-> <<4, 25>>,
   countdown |-> <<3, 2, 1>>]
AllCreated == \A t \in All : ~ Failed(t)
PrintsInOrder ==
  (program \in DOMAIN Expected /\ spurious + spurious2 = 0 /\ (program = "joinable" => AllCreated))
    => IsPrefix(printed, Expected[program])

(* A thread cancelled by deferred cancellation leaves nothing allocated:   *)
(* the handler of all it holds is registered by its next cancellation      *)
(* point.  With asynchronous cancellation a handler may be a step late, but*)
(* the program that registers handlers leaves one object at most.          *)
LeftBy(t) == {kind \in {"arg", "file", "package", "socket", "buffer"} : <<kind, t>> \in allocated}
CancelLeaks ==
  \A t \in DOMAIN state : state[t] = "cancelled" =>
    /\ program \in {"deferred", "listener"} => LeftBy(t) = {}
    /\ program = "async_handlers" => Cardinality(LeftBy(t)) <= 1

(* No thread uses or frees what is not allocated, whatever the others do   *)
(* and whichever call fails, and no cleanup handler would: arguments and   *)
(* results change hands between threads, and the lines of the word count   *)
(* belong to all of them.  The one exception is what the code does without *)
(* looking whether its thread exists: main of Joinable Threads and of the  *)
(* word count reads the result of a thread that could not be created.  And *)
(* a word count that cannot read its lines has freed each thing it took.   *)
MissingResult(r) == r[1] = "result" /\ Failed(r[2])

(* The threads of the programs that end do end, the semaphores' posts and  *)
(* waits being balanced, unless main joins a thread that it could not      *)
(* create, which two of the programs cannot; and so does every thread with *)
(* a cancellation request, whose loop comes to a cancellation point again. *)
Ending == {"EvenOdd", "Assignment1", "joinable", "countdown", "basic", "wordcount"}
AllEnd ==
  /\ program \in Ending
       ~> \/ \A t \in DOMAIN state : state[t] # "running"
          \/ program \notin {"countdown", "basic"} /\ ~ AllCreated
  /\ \A t \in All : t \in pending ~> Stopped(t)
===============================================================================
