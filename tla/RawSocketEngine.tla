-------------------------- MODULE RawSocketEngine --------------------------
(***************************************************************************)
(* The raw-socket engine (engine/raw_socket_engine.hpp): the kernel queues *)
(* frames and raises SIGIO, the handler posts _notify_sem, and the         *)
(* receiving thread drains the socket before it sleeps on the semaphore.   *)
(* From bind() to the end of stop(), which runs twice when a NIC is        *)
(* destroyed and works once.                                               *)
(***************************************************************************)
EXTENDS Integers, Sequences

CONSTANTS
  Backlog,     \* the frames the socket's receive buffer holds
  MaxFrames    \* bound on the frames that arrive

ASSUME SocketAssumption == Backlog \in Nat \ {0} /\ MaxFrames \in Nat

VARIABLES
  socket,      \* the frames queued in the kernel, by number
  arrived,     \* how many frames were queued
  handled,     \* the last frame given to NIC::_handle
  async,       \* O_ASYNC is set
  pending,     \* SIGIO is pending
  sem,         \* _notify_sem
  pc,          \* the receiving thread
  broke,       \* the last _drain to end broke off on an error
  life         \* the engine's constructor, start() and stop()

vars == <<socket, arrived, handled, async, pending, sem, pc, broke, life>>

PCs   == {"none", "check", "drain", "drained", "sleep", "exit"}
Lives == {"bound", "ready", "running", "stopped", "ignoring", "joining", "closed"}

(* _running, true from the constructor to the exchange in stop(); and      *)
(* SIGIO has its handler until SIG_IGN.                                    *)
Running == life \in {"bound", "ready", "running"}
Catches == life \in {"bound", "ready", "running", "stopped"}

(* After bind(): frames are queued, and no signal is raised for them.      *)
Init ==
  /\ socket = << >> /\ arrived = 0 /\ handled = 0
  /\ async = FALSE /\ pending = FALSE /\ sem = 0
  /\ pc = "none" /\ broke = FALSE /\ life = "bound"

(* The kernel queues a frame, unless the buffer is full, and raises SIGIO, *)
(* which an ignored disposition discards.                                  *)
Arrive ==
  /\ life # "closed" /\ arrived < MaxFrames /\ Len(socket) < Backlog
  /\ socket' = Append(socket, arrived + 1)
  /\ arrived' = arrived + 1
  /\ pending' = (pending \/ (async /\ Catches))
  /\ UNCHANGED <<handled, async, sem, pc, broke, life>>

(* The handler and _instance are in place before O_ASYNC is set.           *)
SetAsync ==
  /\ life = "bound" /\ life' = "ready"
  /\ async' = TRUE
  /\ UNCHANGED <<socket, arrived, handled, pending, sem, pc, broke>>

Start ==
  /\ life = "ready" /\ life' = "running" /\ pc' = "check"
  /\ UNCHANGED <<socket, arrived, handled, async, pending, sem, broke>>

(* _signal_handler; run on the sleeping receiving thread it also ends its  *)
(* sem_wait (EINTR, "apenas nos faz drenar de novo").                      *)
Handler ==
  /\ pending /\ pending' = FALSE /\ sem' = sem + 1
  /\ \/ UNCHANGED pc
     \/ pc = "sleep" /\ pc' = "check"
  /\ UNCHANGED <<socket, arrived, handled, async, broke, life>>

Move(from, to) == pc = from /\ pc' = to

Check ==
  /\ Move("check", IF Running THEN "drain" ELSE "exit")
  /\ UNCHANGED <<socket, arrived, handled, async, pending, sem, broke, life>>

(* Mutant: _drain takes one frame and goes to sleep.                       *)
DrainOnce ==
  /\ Move("drain", "drained") /\ broke' = FALSE
  /\ IF Running /\ socket # << >>
     THEN handled' = Head(socket) /\ socket' = Tail(socket)
     ELSE UNCHANGED <<handled, socket>>
  /\ UNCHANGED <<arrived, async, pending, sem, life>>

(* One turn of _drain: recvfrom and _handle, until EAGAIN or stop().       *)
Drain ==
  /\ pc = "drain"
  /\ IF Running /\ socket # << >>
     THEN handled' = Head(socket) /\ socket' = Tail(socket) /\ UNCHANGED <<pc, broke>>
     ELSE pc' = "drained" /\ broke' = FALSE /\ UNCHANGED <<handled, socket>>
  /\ UNCHANGED <<arrived, async, pending, sem, life>>

(* recvfrom fails ("erro real"), or returns 0: _drain leaves the socket as *)
(* it is.                                                                  *)
DrainBreaks ==
  /\ Running /\ Move("drain", "drained") /\ broke' = TRUE
  /\ UNCHANGED <<socket, arrived, handled, async, pending, sem, life>>

(* "if(!_running) break" before the thread sleeps.                         *)
Drained ==
  /\ Move("drained", IF Running THEN "sleep" ELSE "exit")
  /\ UNCHANGED <<socket, arrived, handled, async, pending, sem, broke, life>>
(* Mutant: the thread takes a permit that is not there.                    *)
WakeUnchecked ==
  /\ Move("sleep", "check") /\ sem' = sem - 1
  /\ UNCHANGED <<socket, arrived, handled, async, pending, broke, life>>

Wake ==
  /\ Move("sleep", "check")
  /\ sem > 0 /\ sem' = sem - 1
  /\ UNCHANGED <<socket, arrived, handled, async, pending, broke, life>>

(* stop(): the exchange, SIG_IGN, sem_post, join, and what is closed then. *)
Stop ==
  /\ life = "running" /\ life' = "stopped"
  /\ UNCHANGED <<socket, arrived, handled, async, pending, sem, pc, broke>>

IgnoreSignal ==
  /\ life = "stopped" /\ life' = "ignoring"
  /\ pending' = FALSE
  /\ UNCHANGED <<socket, arrived, handled, async, sem, pc, broke>>

(* Mutant: stop() joins without waking the thread.                         *)
PostNothing ==
  /\ life = "ignoring" /\ life' = "joining"
  /\ UNCHANGED <<socket, arrived, handled, async, pending, sem, pc, broke>>

Post ==
  /\ life = "ignoring" /\ life' = "joining"
  /\ sem' = sem + 1
  /\ UNCHANGED <<socket, arrived, handled, async, pending, pc, broke>>

Close ==
  /\ life = "joining" /\ pc = "exit" /\ life' = "closed"
  /\ UNCHANGED <<socket, arrived, handled, async, pending, sem, pc, broke>>

ReceiveStep == Check \/ Drain \/ Drained \/ Wake
StopStep == IgnoreSignal \/ Post \/ Close

Next ==
  \/ Arrive \/ Handler \/ ReceiveStep \/ DrainBreaks
  \/ SetAsync \/ Start \/ Stop \/ StopStep

Spec == Init /\ [][Next]_vars

(* A runnable thread runs and a pending signal is delivered; frames,       *)
(* errors and the call of stop() are not promised.                         *)
Fairness ==
  /\ WF_vars(SetAsync) /\ WF_vars(Start)
  /\ WF_vars(Handler) /\ WF_vars(ReceiveStep) /\ WF_vars(StopStep)

FairSpec == Spec /\ Fairness

-----------------------------------------------------------------------------
(* Type correctness.                                                       *)
TypeOK ==
  /\ socket \in Seq(Nat) /\ arrived \in Nat /\ handled \in Nat
  /\ async \in BOOLEAN /\ pending \in BOOLEAN /\ sem \in Nat
  /\ pc \in PCs /\ broke \in BOOLEAN /\ life \in Lives

(* "nenhum pacote seja perdido entre o bind e a instalação do handler, e   *)
(* cobre o caso de vários pacotes chegarem para um único sinal" (154): the *)
(* thread never sleeps on a zero semaphore while a frame is queued, unless *)
(* a SIGIO is about to wake it, wherever in the loop the frame came.  The  *)
(* exception is a _drain that broke off on an error: what it left waits    *)
(* for the next frame's signal.                                            *)
NoFrameStranded ==
  Running /\ pc = "sleep" /\ sem = 0 /\ socket # << >> => pending \/ broke

(* Every frame the kernel queued reaches _handle, unless the engine stops  *)
(* or a _drain breaks off on an error.                                     *)
AllHandled ==
  \A k \in 1 .. MaxFrames : arrived >= k ~> handled >= k \/ ~Running \/ broke

(* stop() returns: neither the signal nor the semaphore it destroys is the *)
(* only thing that could have woken the thread.                            *)
StopReturns == life = "stopped" ~> life = "closed"
=============================================================================
