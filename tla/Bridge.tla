-------------------------------- MODULE Bridge --------------------------------
(***************************************************************************)
(* PART B's one-lane bridge: BridgeProblem/bridge.c over the monitor lock  *)
(* (BridgeProblem/rw_lock.c, the code of MonitorRWLock with the limits in  *)
(* fields), and the buses of its test_custom.c, which are the lock's       *)
(* Threads.  The bridge calls the lock with its own mutex held, so that a  *)
(* bus that sleeps inside the lock keeps the bridge's mutex:               *)
(* pthread_cond_wait releases only the lock's.                             *)
(***************************************************************************)
EXTENDS MonitorRWLock

CONSTANTS LRBuses,     \* the threads of bus_enter_lr; the others are of bus_enter_rl
          Crossings,   \* crossings of one bus, 100 in the test
          NoBus        \* the bridge's mutex is free

RLBuses == Threads \ LRBuses

(* The limits given to init_bridge, which passes (n_LR, n_RL) to           *)
(* parameters named (max_writer_threads, max_reader_threads), while the    *)
(* left-to-right buses are the lock's readers.                             *)
n_LR == MaxWriters
n_RL == MaxReaders

VARIABLES owner,        \* the bus that holds the bridge's state_mutex, or NoBus
          lr_on, rl_on, \* the counts of the test, its n_r and n_w
          stage,        \* the next statement of each bus
          cnt           \* the crossings each bus has begun

counts == <<lr_on, rl_on, cnt>>
bridgeVars == <<vars, owner, counts, stage>>

(* init_bridge and main *)
BridgeInit ==
  /\ Init
  /\ owner = NoBus
  /\ lr_on = 0 /\ rl_on = 0
  /\ stage = [b \in Threads |-> "arrive"]
  /\ cnt = [b \in Threads |-> 0]

Advance(b, from, to) == stage[b] = from /\ stage' = [stage EXCEPT ![b] = to]

OnBridge(b, c) == c[b] \in {"reading", "writing"}

(* What bridge_enter does when the lock function sleeps or returns.        *)
AfterLock(b) ==
  /\ owner' = IF OnBridge(b, call') THEN NoBus ELSE b
  /\ stage' = [stage EXCEPT ![b] = IF OnBridge(b, call') THEN "count" ELSE "wait"]

(* bridge_enter_lr and bridge_enter_rl, up to their return or to the       *)
(* pthread_cond_wait of the lock function.                                 *)
BridgeEnter(b) ==
  /\ stage[b] = "arrive" /\ cnt[b] < Crossings
  /\ owner = NoBus
  /\ IF b \in LRBuses THEN RdLock(b) ELSE WrLock(b)
  /\ AfterLock(b)
  /\ cnt' = [cnt EXCEPT ![b] = @ + 1]
  /\ UNCHANGED <<lr_on, rl_on>>

(* A bus that wakes inside the lock function still holds the bridge's mutex. *)
EnterRetest(b) ==
  /\ stage[b] = "wait"
  /\ RdRetest(b) \/ WrRetest(b)
  /\ AfterLock(b)
  /\ UNCHANGED counts

CountBus(b, d) ==
  /\ lr_on' = IF b \in LRBuses THEN lr_on + d ELSE lr_on
  /\ rl_on' = IF b \in RLBuses THEN rl_on + d ELSE rl_on
  /\ UNCHANGED <<vars, owner, cnt>>

BusCounted(b) == Advance(b, "count", "check") /\ CountBus(b, 1)
BusUncounted(b) == Advance(b, "uncount", "leave") /\ CountBus(b, -1)

(* The states cs_status_check accepts, with the limits of the bridge.      *)
BridgeStatusValid ==
  /\ lr_on >= 0 /\ rl_on >= 0
  /\ \/ lr_on = 0 /\ rl_on = 0
     \/ lr_on > 0 /\ lr_on <= n_LR /\ rl_on = 0
     \/ lr_on = 0 /\ rl_on > 0 /\ rl_on <= n_RL

(* cs_status_check, whose failing assertion ends the program. *)
Cross(b) ==
  /\ Advance(b, "check", "uncount")
  /\ BridgeStatusValid
  /\ UNCHANGED <<vars, owner, counts>>

(* bridge_leave_lr and bridge_leave_rl *)
BridgeLeave(b) ==
  /\ Advance(b, "leave", "arrive")
  /\ owner = NoBus
  /\ Unlock(b)
  /\ UNCHANGED <<owner, counts>>

WakesInLock(b) == SpuriousWakeup(b) /\ UNCHANGED <<owner, stage, counts>>

Bus(b) == \/ BridgeEnter(b) \/ EnterRetest(b) \/ BusCounted(b)
          \/ Cross(b) \/ BusUncounted(b) \/ BridgeLeave(b)

BridgeNext == \E b \in Threads : Bus(b) \/ WakesInLock(b)

(* Every bus that can run is eventually run. *)
BridgeSpec == BridgeInit /\ [][BridgeNext]_bridgeVars /\ \A b \in Threads : WF_bridgeVars(Bus(b))

-------------------------------------------------------------------------------
(* All crossings are made and all threads have ended. *)
AllAcross == \A b \in Threads : stage[b] = "arrive" /\ cnt[b] = Crossings

(* Every bus makes its crossings and its thread ends, as the loops of the  *)
(* test say.                                                               *)
BusesFinish == <>AllAcross
===============================================================================
