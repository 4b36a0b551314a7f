------------------------------- MODULE Vehicle -------------------------------
(***************************************************************************)
(* The processes of one vehicle, from start to power-off                   *)
(* (app/vehicle_main.cpp, vehicle.hpp, components/gateway.hpp and          *)
(* component.hpp): main builds the gateway, forks the components, waits    *)
(* for the alarm, sends SIGTERM to every child, waits for each, and        *)
(* switches the machine off.                                               *)
(*                                                                         *)
(* The processes meet in the shared-memory engine, kept here to what makes *)
(* them wait for each other: who is in the table, how far each reader is   *)
(* behind, who waits for whom.  Its semaphore, which gains a permit with   *)
(* every constructor (OneAtATime of ShmEngine), does not keep them apart.  *)
(***************************************************************************)
EXTENDS Integers

CONSTANTS
  K,            \* the number of components that main forks
  PROCS,        \* ShmChannel::PROCS, the entries of the reader table
  N,            \* ShmChannel::N, the frame slots
  MaxFrames,    \* bound on the frames sent
  MaxSignals    \* bound on SIGALRM, SIGINT and SIGTERM from outside

ASSUME VehicleAssumption ==
  /\ K \in Nat \ {0} /\ PROCS \in Nat /\ N \in Nat \ {0}
  /\ K < PROCS   \* six components at most and eight entries
  /\ MaxFrames \in Nat /\ MaxSignals \in Nat \ {0}

Main     == 0
Children == 1 .. K
Procs    == 0 .. K
Entries  == 0 .. PROCS - 1
NoPid    == -1
NoEntry  == -1

VARIABLES
  mpc, k,             \* main(): where, and the child its loop is at
  hurried,            \* the children whose waitpid a signal has ended
  stop, signals,      \* g_stop of each process; the stop signals main has had
  term, sig,          \* SIGTERM is pending; SIGUSR1 is, or has posted _notify_sem
  life, idx,          \* constructors and destructors of each process; _idx
  pids, lag,          \* the table; per entry, tail - heads[i]
  sender, at,         \* a child's threads in _send; the i of its loops
  frames              \* frames sent

main    == <<mpc, k, hurried>>
flags   == <<stop, signals, term>>
table   == <<idx, pids, lag>>
sending == <<sender, at, frames>>
vars == <<main, flags, sig, life, table, sending>>

MainPCs == {"build", "fork", "spin", "kill", "wait", "off", "aborted"}
Lives == {"none", "forked", "found", "enrolled", "nic", "run", "stop", "left",
          "joining", "out", "dead"}
Senders == {"none", "idle", "scan", "wait", "kill"}

(* exit(0) and exit(1); a process that has ended or was never there.       *)
Ended(p) == life[p] \in {"out", "dead"}
Alive(p) == life[p] \notin {"none", "out", "dead"}

(* The handler of SIGUSR1 is the process's own; before, it is the one      *)
(* inherited from main and posts a semaphore nobody waits on.              *)
Catches(p) == life[p] \in {"nic", "run", "stop"}

(* The reader thread, up to the _running = false of the destructor.        *)
Reads(p) == life[p] \in {"nic", "run", "stop", "left"}

(* setup_signals() and alarm() are done, the segment is new.               *)
Init ==
  /\ mpc = "build" /\ k = 1 /\ hurried = {}
  /\ stop = [p \in Procs |-> FALSE] /\ signals = 0
  /\ term = [p \in Procs |-> FALSE] /\ sig = [p \in Procs |-> FALSE]
  /\ life = [p \in Procs |-> IF p = Main THEN "forked" ELSE "none"]
  /\ idx = [p \in Procs |-> NoEntry]
  /\ pids = [i \in Entries |-> NoPid] /\ lag = [i \in Entries |-> 0]
  /\ sender = [p \in Procs |-> "none"] /\ at = [p \in Procs |-> 0]
  /\ frames = 0

(* The end of a process: its threads and pending signals are gone.         *)
Gone(p, how) ==
  /\ life' = [life EXCEPT ![p] = how] /\ idx' = [idx EXCEPT ![p] = NoEntry]
  /\ term' = [term EXCEPT ![p] = FALSE] /\ sig' = [sig EXCEPT ![p] = FALSE]
  /\ sender' = [sender EXCEPT ![p] = "none"] /\ at' = [at EXCEPT ![p] = 0]

(***************************************************************************)
(* main()                                                                  *)
(***************************************************************************)
MainMove(from, to) == mpc = from /\ mpc' = to

(* Mutant: the components are forked while the gateway is being built.     *)
BuiltEarly ==
  /\ MainMove("build", "fork")
  /\ UNCHANGED <<k, hurried, flags, sig, life, table, sending>>

(* Vehicle v(iface) is complete.                                           *)
Built ==
  /\ life[Main] = "nic" /\ MainMove("build", "fork")
  /\ UNCHANGED <<k, hurried, flags, sig, life, table, sending>>

(* Mutant: one more turn of the loop.                                      *)
ForkOneMore ==
  /\ mpc = "fork" /\ k <= K + 1
  /\ life' = [c \in Procs |-> IF c = k THEN "forked" ELSE life[c]]
  /\ stop' = [c \in Procs |-> IF c = k THEN stop[Main] ELSE stop[c]]
  /\ k' = k + 1
  /\ UNCHANGED <<mpc, hurried, signals, term, sig, table, sending>>

(* spawn: the child has a copy of g_stop and of the signal handlers.       *)
Fork ==
  /\ mpc = "fork" /\ k <= K
  /\ life' = [life EXCEPT ![k] = "forked"] /\ stop' = [stop EXCEPT ![k] = stop[Main]]
  /\ k' = k + 1
  /\ UNCHANGED <<mpc, hurried, signals, term, sig, table, sending>>

(* perror("fork"), exit(1): the children forked so far stay.               *)
ForkFails ==
  /\ k <= K /\ MainMove("fork", "aborted")
  /\ Gone(Main, "dead")
  /\ UNCHANGED <<k, hurried, stop, signals, pids, lag, frames>>

Forked ==
  /\ k > K /\ MainMove("fork", "spin")
  /\ UNCHANGED <<k, hurried, flags, sig, life, table, sending>>

(* while (!g_stop) {}                                                      *)
Spin ==
  /\ stop[Main] /\ MainMove("spin", "kill") /\ k' = 1
  /\ UNCHANGED <<hurried, flags, sig, life, table, sending>>

(* Mutant: the last child is left out.                                     *)
KillAllButLast ==
  /\ mpc = "kill"
  /\ IF k < K
     THEN term' = [term EXCEPT ![k] = Alive(k)] /\ k' = k + 1 /\ UNCHANGED mpc
     ELSE mpc' = "wait" /\ k' = 1 /\ UNCHANGED term
  /\ UNCHANGED <<hurried, stop, signals, sig, life, table, sending>>

(* kill(pid, SIGTERM), child by child.                                     *)
Kill ==
  /\ mpc = "kill"
  /\ IF k <= K
     THEN term' = [term EXCEPT ![k] = Alive(k)] /\ k' = k + 1 /\ UNCHANGED mpc
     ELSE mpc' = "wait" /\ k' = 1 /\ UNCHANGED term
  /\ UNCHANGED <<hurried, stop, signals, sig, life, table, sending>>

(* Mutant: waitpid with WNOHANG.                                           *)
WaitNoHang ==
  /\ mpc = "wait" /\ k <= K /\ k' = k + 1
  /\ UNCHANGED <<mpc, hurried, flags, sig, life, table, sending>>

(* waitpid(pid, nullptr, 0) returns ...                                    *)
WaitChild ==
  /\ mpc = "wait" /\ k <= K /\ Ended(k) /\ k' = k + 1
  /\ UNCHANGED <<mpc, hurried, flags, sig, life, table, sending>>

(* ... and so it does, with EINTR, when a handler runs on the main thread: *)
(* no handler is installed with SA_RESTART, and the result is not looked   *)
(* at.                                                                     *)
Interrupted ==
  \/ mpc = "wait" /\ k <= K /\ k' = k + 1 /\ hurried' = hurried \cup {k}
  \/ UNCHANGED <<k, hurried>>

(* SIGIO of the gateway's raw socket, on the main thread.                  *)
NetworkSignal ==
  /\ mpc = "wait" /\ k <= K /\ k' = k + 1 /\ hurried' = hurried \cup {k}
  /\ UNCHANGED <<mpc, flags, sig, life, table, sending>>

(* sync(), reboot(RB_POWER_OFF).                                           *)
PowerOff ==
  /\ k > K /\ MainMove("wait", "off")
  /\ UNCHANGED <<k, hurried, flags, sig, life, table, sending>>

(* on_stop: the alarm, or a signal from outside.                           *)
StopSignal ==
  /\ Alive(Main) /\ signals < MaxSignals /\ signals' = signals + 1
  /\ stop' = [stop EXCEPT ![Main] = TRUE]
  /\ Interrupted
  /\ UNCHANGED <<mpc, term, sig, life, table, sending>>

(***************************************************************************)
(* A process: the constructors, ...                                        *)
(***************************************************************************)
LifeMove(p, from, to) == life[p] = from /\ life' = [life EXCEPT ![p] = to]

Free == {i \in Entries : pids[i] = NoPid /\ \A j \in 0 .. i - 1 : pids[j] # NoPid}

(* enroll(getpid()) looks for the first free entry.  Every constructor has *)
(* added a permit to the semaphore, so that two children may be here, find *)
(* the same entry, ...                                                     *)
Find(p) ==
  /\ LifeMove(p, "forked", "found")
  /\ \E i \in Free : idx' = [idx EXCEPT ![p] = i]
  /\ UNCHANGED <<main, flags, sig, pids, lag, sending>>

(* ... and both write their pid to it.                                     *)
Claim(p) ==
  /\ LifeMove(p, "found", "enrolled")
  /\ pids' = [pids EXCEPT ![idx[p]] = p] /\ lag' = [lag EXCEPT ![idx[p]] = 0]
  /\ UNCHANGED <<main, flags, sig, idx, sending>>

(* sigaction, _instance = this, and the reader thread; then the members of *)
(* NIC, and protocol.                                                      *)
Install(p) ==
  /\ LifeMove(p, "enrolled", "nic")
  /\ UNCHANGED <<main, flags, sig, table, sending>>

(* setup(): the SmartData of a component and their threads (for the        *)
(* TimeClient, run(), which sends from the main thread).                   *)
Setup(p) ==
  /\ p # Main /\ LifeMove(p, "nic", "run") /\ sender' = [sender EXCEPT ![p] = "idle"]
  /\ UNCHANGED <<main, flags, sig, table, at, frames>>

(* ... the end of while (!g_stop), ...                                     *)
LeaveLoop(p) ==
  /\ stop[p] /\ LifeMove(p, "run", "stop")
  /\ UNCHANGED <<main, flags, sig, table, sending>>

(* ... and the destructors: stop() joins the threads of each SmartData,    *)
(* which go, and protocol and the members of NIC with them; ~ShmEngine     *)
(* ignores SIGUSR1, which discards a pending one, and gives up its entry,  *)
Destroy(p) ==
  /\ sender[p] = "idle" /\ LifeMove(p, "stop", "left")
  /\ sender' = [sender EXCEPT ![p] = "none"]
  /\ sig' \in {sig, [sig EXCEPT ![p] = FALSE]}
  /\ pids' = [i \in Entries |-> IF pids[i] = p THEN NoPid ELSE pids[i]]
  /\ UNCHANGED <<main, flags, idx, lag, at, frames>>

(* sets _running = false, posts, ...                                       *)
StopReader(p) ==
  /\ LifeMove(p, "left", "joining")
  /\ UNCHANGED <<main, flags, sig, table, sending>>

(* ... joins, and exit(0) follows the return of fn.                        *)
Exit(p) ==
  /\ life[p] = "joining" /\ Gone(p, "out")
  /\ UNCHANGED <<main, stop, signals, pids, lag, frames>>

(* SIGTERM: the handler installed before fork.                             *)
OnStop(p) ==
  /\ Alive(p) /\ term[p] /\ term' = [term EXCEPT ![p] = FALSE]
  /\ stop' = [stop EXCEPT ![p] = TRUE]
  /\ UNCHANGED <<main, signals, sig, life, table, sending>>

(***************************************************************************)
(* The shared-memory engine.                                               *)
(***************************************************************************)
(* The threads of a component send, also while stop() waits for them: the  *)
(* periodic ones are stopped by the destructor.                            *)
SendBegin(p) ==
  /\ life[p] \in {"run", "stop"} /\ sender[p] = "idle" /\ frames < MaxFrames
  /\ sender' = [sender EXCEPT ![p] = "scan"] /\ frames' = frames + 1
  /\ UNCHANGED <<main, flags, sig, life, table, at>>

(* Entry i has the pid of another process.                                 *)
Other(p, i) == pids[i] \notin {NoPid, p}

(* One pass over the table, which does not go back: on to the next entry;  *)
Pass(p) ==
  /\ sender[p] = "scan" /\ at[p] < PROCS
  /\ Other(p, at[p]) => lag[at[p]] < N
  /\ at' = [at EXCEPT ![p] = @ + 1]
  /\ UNCHANGED <<main, flags, sig, life, table, sender, frames>>

(* a reader is N frames behind: wait for it, and look only at its head,    *)
Full(p) ==
  /\ sender[p] = "scan" /\ at[p] < PROCS
  /\ Other(p, at[p]) /\ lag[at[p]] >= N
  /\ sender' = [sender EXCEPT ![p] = "wait"]
  /\ UNCHANGED <<main, flags, sig, life, table, at, frames>>

(* and go on after it when it has caught up.                               *)
Room(p) ==
  /\ sender[p] = "wait" /\ lag[at[p]] < N
  /\ sender' = [sender EXCEPT ![p] = "scan"] /\ at' = [at EXCEPT ![p] = @ + 1]
  /\ UNCHANGED <<main, flags, sig, life, table, frames>>

(* Mutant: the loop of kill begins at the second entry.                    *)
PublishSkipsFirst(p) ==
  /\ sender[p] = "scan" /\ at[p] = PROCS
  /\ lag' = [i \in Entries |-> lag[i] + 1]
  /\ sender' = [sender EXCEPT ![p] = "kill"] /\ at' = [at EXCEPT ![p] = 1]
  /\ UNCHANGED <<main, flags, sig, life, idx, pids, frames>>

(* tail++ moves the frame's own writer behind too.                         *)
Publish(p) ==
  /\ sender[p] = "scan" /\ at[p] = PROCS
  /\ lag' = [i \in Entries |-> lag[i] + 1]
  /\ sender' = [sender EXCEPT ![p] = "kill"] /\ at' = [at EXCEPT ![p] = 0]
  /\ UNCHANGED <<main, flags, sig, life, idx, pids, frames>>

(* kill(pid, SIGUSR1) for the entries of the others; the gateway gets its  *)
(* signal on its main thread or on another one.  After the last entry the  *)
(* semaphore is given back, which never waits, and _send returns.          *)
Signal(p) ==
  /\ sender[p] = "kill"
  /\ LET q == pids[at[p]]
     IN  IF Other(p, at[p]) /\ Catches(q)
         THEN /\ sig' = [sig EXCEPT ![q] = TRUE]
              /\ IF q = Main THEN Interrupted ELSE UNCHANGED <<k, hurried>>
         ELSE UNCHANGED <<sig, k, hurried>>
  /\ IF at[p] + 1 < PROCS
     THEN at' = [at EXCEPT ![p] = @ + 1] /\ UNCHANGED sender
     ELSE at' = [at EXCEPT ![p] = 0] /\ sender' = [sender EXCEPT ![p] = "idle"]
  /\ UNCHANGED <<mpc, flags, life, table, frames>>

(* A signal finds a thread in semop, at the beginning of _send, in its     *)
(* wait, or in the constructor: exit(1), and the entry stays.              *)
SemopFails(p) ==
  /\ Alive(p) /\ (sig[p] \/ term[p])
  /\ (sender[p] = "scan" /\ at[p] = 0) \/ sender[p] = "wait" \/ life[p] = "forked"
  /\ Gone(p, "dead")
  /\ UNCHANGED <<main, stop, signals, pids, lag, frames>>

(* The reader thread wakes and reads all there is in the entry _idx,       *)
(* whoever has it by now.                                                  *)
Read(p) ==
  /\ Reads(p) /\ sig[p] /\ sig' = [sig EXCEPT ![p] = FALSE]
  /\ lag' = [lag EXCEPT ![idx[p]] = 0]
  /\ UNCHANGED <<main, flags, life, idx, pids, sending>>

MainStep == Built \/ Fork \/ Forked \/ Spin \/ Kill \/ WaitChild \/ PowerOff
LifeStep(p) ==
  \/ Find(p) \/ Claim(p) \/ Install(p) \/ Setup(p) \/ LeaveLoop(p)
  \/ Destroy(p) \/ StopReader(p) \/ Exit(p)
SendStep(p) == Pass(p) \/ Full(p) \/ Room(p) \/ Publish(p) \/ Signal(p)

(* Nothing happens once the machine is off.                                *)
Next ==
  /\ mpc # "off"
  /\ \/ MainStep \/ ForkFails \/ NetworkSignal \/ StopSignal
     \/ \E p \in Procs : \/ LifeStep(p) \/ OnStop(p) \/ Read(p)
                         \/ SendBegin(p) \/ SendStep(p) \/ SemopFails(p)

Spec == Init /\ [][Next]_vars

(* The kernel runs every thread and delivers every signal, and the alarm   *)
(* goes off.  Whether a component sends, fork fails or the network raises  *)
(* a signal is left open.                                                  *)
Fairness ==
  /\ WF_vars(mpc # "off" /\ MainStep) /\ WF_vars(mpc # "off" /\ signals = 0 /\ StopSignal)
  /\ \A p \in Procs :
       /\ WF_vars(mpc # "off" /\ LifeStep(p)) /\ WF_vars(mpc # "off" /\ OnStop(p))
       /\ WF_vars(mpc # "off" /\ Read(p)) /\ WF_vars(mpc # "off" /\ SendStep(p))

FairSpec == Spec /\ Fairness

-----------------------------------------------------------------------------
(* Type correctness; an entry that is waited for or signalled exists.      *)
TypeOK ==
  /\ mpc \in MainPCs /\ k \in 1 .. K + 1 /\ hurried \subseteq Children
  /\ stop \in [Procs -> BOOLEAN] /\ signals \in 0 .. MaxSignals
  /\ term \in [Procs -> BOOLEAN] /\ sig \in [Procs -> BOOLEAN]
  /\ life \in [Procs -> Lives] /\ idx \in [Procs -> Entries \cup {NoEntry}]
  /\ pids \in [Entries -> Procs \cup {NoPid}] /\ lag \in [Entries -> Nat]
  /\ sender \in [Procs -> Senders] /\ at \in [Procs -> 0 .. PROCS]
  /\ \A p \in Procs : sender[p] \in {"wait", "kill"} => at[p] < PROCS
  /\ frames \in 0 .. MaxFrames

(* The gateway's entry is its own, though components find the same entry   *)
(* as another, leave theirs without the semaphore and go on reading there: *)
(* its pid stays in the table, so that every frame is notified to it, and  *)
(* no component moves its head.  The gateway has been through enroll when  *)
(* the first component is forked (vehicle_main.cpp:252).                   *)
GatewayEntry ==
  life[Main] \in {"enrolled", "nic"} =>
    pids[idx[Main]] = Main /\ \A c \in Children : idx[c] # idx[Main]

(* "todos os filhos saíram. Desligando VM." (vehicle_main.cpp:325): at     *)
(* power-off every child has exited, save those whose waitpid a signal of  *)
(* the network or of another child has ended.                              *)
OffAfterChildren == mpc = "off" => \A c \in Children : Ended(c) \/ c \in hurried

(* Nobody is about to read from entry i: the process that has it has ended *)
(* or was told of none of the frames.                                      *)
Abandoned(i) == \A p \in Procs : Reads(p) /\ idx[p] = i => ~sig[p]

(* The automatic shutdown (vehicle_main.cpp:249) comes to its end, whether *)
(* the alarm finds main constructing, forking or waiting and whatever the  *)
(* children are at.  One thing can prevent it: a send that waits for room  *)
(* in an entry of which nobody will read.                                  *)
ShutdownEnds ==
  \/ mpc = "spin" ~> mpc = "off"
  \/ <>[](\E c \in Children : Alive(c) /\ sender[c] = "wait" /\ Abandoned(at[c]))

(* The gateway never sends and so is signalled for every frame: no send    *)
(* waits for its entry for ever, though its main thread only spins.        *)
GatewayReads ==
  \A c \in Children :
    sender[c] = "wait" /\ at[c] = idx[Main] ~>
      \/ sender[c] # "wait" \/ at[c] # idx[Main]
      \/ Ended(c) \/ mpc \in {"off", "aborted"}
==============================================================================
