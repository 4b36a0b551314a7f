-------------------------- MODULE ConcurrentObserver --------------------------
(***************************************************************************)
(* The last hop of a received frame: Communicator::update builds a Message *)
(* and notifies the ConcurrentObserver subscribed to it, whose own thread  *)
(* takes it from the queue (observe/concurrent.hpp, observe/endpoint.hpp,  *)
(* utils/list.hpp, utils/semaphore.hpp, the loops of SmartData::run and    *)
(* Endpoint::receive), from subscribe to the destructor.                   *)
(*                                                                         *)
(* The receiving threads are those of the NICs of the process: the reader  *)
(* of ShmEngine and the thread of RawSocketEngine.  A Communicator has one *)
(* subscriber in every component of the repository.  A Message is a        *)
(* number, and heap is the set of those that were new'ed and not deleted.  *)
(***************************************************************************)
EXTENDS Integers, Sequences, FiniteSets

CONSTANTS
  Receivers,    \* the threads that call Communicator::update
  Consumers,    \* the threads that call updated_for (one, in the repository)
  None,         \* no message in hand
  MaxMsgs       \* bound on the frames that arrive

ASSUME ObserverAssumption ==
  /\ IsFiniteSet(Receivers) /\ IsFiniteSet(Consumers)
  /\ None \notin Nat /\ MaxMsgs \in Nat

VARIABLES
  queue, sem,     \* _data and _semaphore
  life,           \* subscribe, stop, unsubscribe and destructor of the observer
  rpc, rmsg,      \* a receiving thread: where, and the Message it holds
  cpc, cmsg,      \* a consuming thread: likewise
  heap, nmsgs     \* the Messages that exist, and how many were made

vars == <<queue, sem, life, rpc, rmsg, cpc, cmsg, heap, nmsgs>>

Lives == {"new", "subscribed", "stopping", "unsubscribed", "destroyed"}
ReceivePCs == {"idle", "notify", "insert", "post", "next", "undefined"}
ConsumePCs == {"none", "check", "wait", "empty", "remove", "handle", "exit", "thrown"}

(* The observer's node is in the Ordered_List; its _running flag.          *)
Listed  == life \in {"subscribed", "stopping"}
Running == life = "subscribed"

Init ==
  /\ queue = << >> /\ sem = 0 /\ life = "new"
  /\ rpc = [r \in Receivers |-> "idle"] /\ rmsg = [r \in Receivers |-> None]
  /\ cpc = [c \in Consumers |-> "none"] /\ cmsg = [c \in Consumers |-> None]
  /\ heap = {} /\ nmsgs = 0

(***************************************************************************)
(* Communicator::update and Observed::notify, which walks the list without *)
(* its lock, down to ConcurrentObserver::update.                           *)
(***************************************************************************)
RecvMove(r, from, to) == rpc[r] = from /\ rpc' = [rpc EXCEPT ![r] = to]

(* A frame arrives: new Message.  An empty one is deleted again.           *)
Receive(r) ==
  /\ nmsgs < MaxMsgs /\ nmsgs' = nmsgs + 1
  /\ \/ /\ RecvMove(r, "idle", "notify")
        /\ rmsg' = [rmsg EXCEPT ![r] = nmsgs + 1]
        /\ heap' = heap \cup {nmsgs + 1}
     \/ rpc[r] = "idle" /\ UNCHANGED <<rpc, rmsg, heap>>
  /\ UNCHANGED <<queue, sem, life, cpc, cmsg>>
(* Mutant: a message nobody is subscribed to is not deleted.               *)
NotifyLeaks(r) ==
  /\ \/ Listed /\ RecvMove(r, "notify", "insert") /\ UNCHANGED rmsg
     \/ /\ ~Listed /\ RecvMove(r, "notify", "idle")
        /\ rmsg' = [rmsg EXCEPT ![r] = None]
  /\ UNCHANGED <<queue, sem, life, cpc, cmsg, heap, nmsgs>>

(* begin() finds the observer, or notify returns false: delete msg.        *)
Notify(r) ==
  /\ \/ Listed /\ RecvMove(r, "notify", "insert") /\ UNCHANGED <<rmsg, heap>>
     \/ /\ ~Listed /\ RecvMove(r, "notify", "idle")
        /\ rmsg' = [rmsg EXCEPT ![r] = None]
        /\ heap' = heap \ {rmsg[r]}
  /\ UNCHANGED <<queue, sem, life, cpc, cmsg, nmsgs>>

(* _data.insert(d), under the mutex of the List; undefined on an observer  *)
(* whose destructor has run.                                               *)
Insert(r) ==
  /\ \/ /\ life # "destroyed" /\ RecvMove(r, "insert", "post")
        /\ queue' = Append(queue, rmsg[r])
        /\ rmsg' = [rmsg EXCEPT ![r] = None]
     \/ life = "destroyed" /\ RecvMove(r, "insert", "undefined") /\ UNCHANGED <<queue, rmsg>>
  /\ UNCHANGED <<sem, life, cpc, cmsg, heap, nmsgs>>

(* _semaphore.v().                                                         *)
Post(r) ==
  /\ \/ life # "destroyed" /\ RecvMove(r, "post", "next") /\ sem' = sem + 1
     \/ life = "destroyed" /\ RecvMove(r, "post", "undefined") /\ UNCHANGED sem
  /\ UNCHANGED <<queue, life, rmsg, cpc, cmsg, heap, nmsgs>>

(* ++it, from a node that remove may have freed.                           *)
Advance(r) ==
  /\ RecvMove(r, "next", IF Listed THEN "idle" ELSE "undefined")
  /\ UNCHANGED <<queue, sem, life, rmsg, cpc, cmsg, heap, nmsgs>>

(***************************************************************************)
(* The owner's loop: while (_running) { updated_for(100 ms); ... }.        *)
(***************************************************************************)
ConsMove(c, from, to) == cpc[c] = from /\ cpc' = [cpc EXCEPT ![c] = to]
(* Mutant: the loop does not look at _running.                             *)
CheckForever(c) ==
  /\ ConsMove(c, "check", "wait")
  /\ UNCHANGED <<queue, sem, life, rpc, rmsg, cmsg, heap, nmsgs>>

Check(c) ==
  /\ ConsMove(c, "check", IF Running THEN "wait" ELSE "exit")
  /\ UNCHANGED <<queue, sem, life, rpc, rmsg, cmsg, heap, nmsgs>>
(* Mutant: the semaphore does not block at zero.                           *)
AcquireUnchecked(c) ==
  /\ sem' = sem - 1
  /\ ConsMove(c, "wait", "empty")
  /\ UNCHANGED <<queue, life, rpc, rmsg, cmsg, heap, nmsgs>>

(* try_p_for succeeds, or its time passes first.                           *)
Acquire(c) ==
  /\ sem > 0 /\ sem' = sem - 1
  /\ ConsMove(c, "wait", "empty")
  /\ UNCHANGED <<queue, life, rpc, rmsg, cmsg, heap, nmsgs>>
(* Mutant: the result of try_p_for is not looked at.                       *)
TimeoutTakes(c) ==
  /\ sem = 0
  /\ ConsMove(c, "wait", "empty")
  /\ UNCHANGED <<queue, sem, life, rpc, rmsg, cmsg, heap, nmsgs>>

Timeout(c) ==
  /\ sem = 0
  /\ ConsMove(c, "wait", "check")
  /\ UNCHANGED <<queue, sem, life, rpc, rmsg, cmsg, heap, nmsgs>>

(* _data.empty() ? nullptr : _data.remove(): two separate locks.           *)
TestEmpty(c) ==
  /\ ConsMove(c, "empty", IF queue = << >> THEN "check" ELSE "remove")
  /\ UNCHANGED <<queue, sem, life, rpc, rmsg, cmsg, heap, nmsgs>>

Remove(c) ==
  /\ ConsMove(c, "remove", IF queue = << >> THEN "thrown" ELSE "handle")
  /\ cmsg' = [cmsg EXCEPT ![c] = IF queue = << >> THEN @ ELSE Head(queue)]
  /\ queue' = IF queue = << >> THEN queue ELSE Tail(queue)
  /\ UNCHANGED <<sem, life, rpc, rmsg, heap, nmsgs>>

(* The message is used and deleted.                                        *)
Handle(c) ==
  /\ ConsMove(c, "handle", "check")
  /\ cmsg' = [cmsg EXCEPT ![c] = None]
  /\ heap' = heap \ {cmsg[c]}
  /\ UNCHANGED <<queue, sem, life, rpc, rmsg, nmsgs>>

(***************************************************************************)
(* start, stop and the destructor.                                         *)
(***************************************************************************)
Start ==
  /\ life = "new" /\ life' = "subscribed"
  /\ cpc' = [c \in Consumers |-> "check"]
  /\ UNCHANGED <<queue, sem, rpc, rmsg, cmsg, heap, nmsgs>>
(* Mutant: stop() posts the semaphore to wake the consumer.                *)
StopPosts ==
  /\ Running /\ life' = "stopping" /\ sem' = sem + 1
  /\ UNCHANGED <<queue, rpc, rmsg, cpc, cmsg, heap, nmsgs>>

Stop ==
  /\ Running /\ life' = "stopping"
  /\ UNCHANGED <<queue, sem, rpc, rmsg, cpc, cmsg, heap, nmsgs>>

(* join(), then unsubscribe(this).                                         *)
Unsubscribe ==
  /\ life = "stopping" /\ \A c \in Consumers : cpc[c] = "exit"
  /\ life' = "unsubscribed"
  /\ UNCHANGED <<queue, sem, rpc, rmsg, cpc, cmsg, heap, nmsgs>>

(* "drena o que sobrou", one message at a time.                            *)
Drain ==
  /\ life = "unsubscribed" /\ queue # << >>
  /\ queue' = Tail(queue) /\ heap' = heap \ {Head(queue)}
  /\ UNCHANGED <<sem, life, rpc, rmsg, cpc, cmsg, nmsgs>>
(* Mutant: the destructor does not drain.                                  *)
DestroyAtOnce ==
  /\ life = "unsubscribed" /\ life' = "destroyed"
  /\ UNCHANGED <<queue, sem, rpc, rmsg, cpc, cmsg, heap, nmsgs>>

Destroy ==
  /\ life = "unsubscribed" /\ queue = << >>
  /\ life' = "destroyed"
  /\ UNCHANGED <<queue, sem, rpc, rmsg, cpc, cmsg, heap, nmsgs>>

ReceiveStep(r) == Notify(r) \/ Insert(r) \/ Post(r) \/ Advance(r)
ConsumeStep(c) ==
  Check(c) \/ Acquire(c) \/ Timeout(c) \/ TestEmpty(c) \/ Remove(c) \/ Handle(c)
TeardownStep == Unsubscribe \/ Drain \/ Destroy

Next ==
  \/ \E r \in Receivers : Receive(r) \/ ReceiveStep(r)
  \/ \E c \in Consumers : ConsumeStep(c)
  \/ Start \/ Stop \/ TeardownStep

Spec == Init /\ [][Next]_vars

(* Every thread that can run does; frames, start and stop are not promised.*)
Fairness ==
  /\ \A r \in Receivers : WF_vars(ReceiveStep(r))
  /\ \A c \in Consumers : WF_vars(ConsumeStep(c))
  /\ WF_vars(TeardownStep)

FairSpec == Spec /\ Fairness

-----------------------------------------------------------------------------
(* Type correctness.                                                       *)
TypeOK ==
  /\ queue \in Seq(Nat) /\ sem \in Nat /\ life \in Lives
  /\ rpc \in [Receivers -> ReceivePCs] /\ rmsg \in [Receivers -> Nat \cup {None}]
  /\ cpc \in [Consumers -> ConsumePCs] /\ cmsg \in [Consumers -> Nat \cup {None}]
  /\ heap \subseteq Nat /\ nmsgs \in Nat

Posting == {r \in Receivers : rpc[r] = "post"}
Taking  == {c \in Consumers : cpc[c] \in {"empty", "remove"}}

(* The queue and the semaphore agree: every queued message is matched by   *)
(* exactly one permit, one receiver about to post it, or one consumer that *)
(* has the permit and not yet the message.  insert and v, and p, empty and *)
(* remove, are five separate critical sections.                            *)
TokenAccounting ==
  life \in {"new", "subscribed", "stopping"} =>
    Len(queue) = sem + Cardinality(Posting) + Cardinality(Taking)

(* A consumer that got a permit gets a message: updated_for returns        *)
(* nullptr on a timeout only, which is how SmartData::run reads it, and    *)
(* List::remove never throws "List is empty".                              *)
NullMeansTimeout ==
  \A c \in Consumers : /\ cpc[c] \in {"empty", "remove"} => queue # << >>
                       /\ cpc[c] # "thrown"

(* Where message m is held.                                                *)
Holders(m) ==
  {<<"r", r>> : r \in {r \in Receivers : rmsg[r] = m}}
    \cup {<<"c", c>> : c \in {c \in Consumers : cmsg[c] = m}}
    \cup {<<"q", i>> : i \in {i \in DOMAIN queue : queue[i] = m}}

(* A Message that was new'ed and not yet deleted has exactly one owner, be *)
(* it a receiver, the queue or a consumer, and one that was deleted has    *)
(* none: nothing leaks on the discard paths and nothing is deleted twice.  *)
OwnedOnce ==
  \A m \in 1 .. nmsgs : Cardinality(Holders(m)) = IF m \in heap THEN 1 ELSE 0

(* A queued message is consumed, or drained when the observer is stopped.  *)
QueueDrains == \A m \in 1 .. MaxMsgs :
  m \in {queue[i] : i \in DOMAIN queue} ~> m \notin {queue[i] : i \in DOMAIN queue}

(* stop() returns although messages keep coming, and the destructor ends.  *)
StopTerminates == life = "stopping" ~> life = "destroyed"

(* "A simple thread-safe ordered list implementation"                      *)
(* (ordered_list.hpp:5): notify may run while an observer unsubscribes and *)
(* is destroyed.                                                           *)
NoUseAfterFree == \A r \in Receivers : rpc[r] # "undefined"
=============================================================================
