----------------------- MODULE ConcurrentObserverProofs -----------------------
(***************************************************************************)
(* The queue of a ConcurrentObserver for any number of receiving and       *)
(* consuming threads and of messages: its permits, what a permit finds,    *)
(* and who owns a message.                                                 *)
(***************************************************************************)
EXTENDS ConcurrentObserver, FiniteSetTheorems, SequenceTheorems, TLAPS

(* Before start there is no consumer, and after join they have all left.   *)
(* A receiver that inserts, and a consumer that handles, has a message.    *)
Phases ==
  /\ life = "new" => \A c \in Consumers : cpc[c] = "none"
  /\ life \in {"unsubscribed", "destroyed"} => \A c \in Consumers : cpc[c] = "exit"
  /\ \A r \in Receivers : rpc[r] \in {"notify", "insert"} => rmsg[r] \in Nat

NeverThrown == \A c \in Consumers : cpc[c] # "thrown"

IInv == TypeOK /\ Phases /\ TokenAccounting /\ NeverThrown

LEMMA CardinalityPlus ==
  ASSUME NEW S, NEW T, NEW x, IsFiniteSet(S), x \notin S, T = S \cup {x}
  PROVE  Cardinality(T) = Cardinality(S) + 1
BY FS_AddElement

LEMMA CardinalityMinus ==
  ASSUME NEW S, NEW T, NEW x, IsFiniteSet(S), x \in S, T = S \ {x}
  PROVE  Cardinality(T) = Cardinality(S) - 1
BY FS_RemoveElement

LEMMA ThreadsFinite ==
  /\ IsFiniteSet(Posting) /\ Cardinality(Posting) \in Nat
  /\ IsFiniteSet(Taking) /\ Cardinality(Taking) \in Nat
BY ObserverAssumption, FS_Subset, FS_CardinalityType DEF Posting, Taking

(* The permits cover every consumer that is taking a message.              *)
LEMMA TakingFinds ==
  ASSUME TypeOK, Phases, TokenAccounting, NEW c \in Taking
  PROVE  queue # << >>
<1>1. life \in {"new", "subscribed", "stopping"}
  BY DEF Phases, Taking, TypeOK, Lives
<1>2. Cardinality(Taking) >= 1
  <2>1. Cardinality(Taking) # 0
    BY ThreadsFinite, FS_EmptySet
  <2> QED
    BY <2>1, ThreadsFinite
<1>3. Len(queue) >= 1
  BY <1>1, <1>2, ThreadsFinite DEF TokenAccounting, TypeOK
<1> QED
  BY <1>3 DEF TypeOK

LEMMA InitInv == Init => IInv
<1> SUFFICES ASSUME Init PROVE IInv
  OBVIOUS
<1>1. TypeOK /\ Phases /\ NeverThrown
  BY DEF Init, TypeOK, Phases, NeverThrown, Lives, ReceivePCs, ConsumePCs
<1>2. Posting = {} /\ Taking = {} /\ Len(queue) = 0 /\ sem = 0
  BY DEF Init, Posting, Taking
<1>3. TokenAccounting
  BY <1>2, FS_EmptySet DEF TokenAccounting
<1> QED
  BY <1>1, <1>3 DEF IInv

LEMMA NextTyping == IInv /\ [Next]_vars => TypeOK' /\ Phases'
<1> SUFFICES ASSUME IInv, [Next]_vars PROVE TypeOK' /\ Phases'
  OBVIOUS
<1> USE DEF RecvMove, ConsMove, Lives, ReceivePCs, ConsumePCs
<1>t. TypeOK /\ Phases
  BY DEF IInv
<1>1. ASSUME NEW r \in Receivers, Receive(r) PROVE TypeOK' /\ Phases'
  <2>n. nmsgs + 1 \in Nat
    BY <1>t DEF TypeOK
  <2>1. TypeOK'
    BY <1>1, <1>t, <2>n, Zenon DEF Receive, TypeOK
  <2>2. Phases'
    BY <1>1, <1>t DEF Receive, TypeOK, Phases
  <2> QED
    BY <2>1, <2>2
<1>2. ASSUME NEW r \in Receivers, Notify(r) PROVE TypeOK' /\ Phases'
  BY <1>2, <1>t DEF Notify, TypeOK, Phases
<1>3. ASSUME NEW r \in Receivers, Insert(r) PROVE TypeOK' /\ Phases'
  <2>1. queue' \in Seq(Nat)
    <3>1. queue \in Seq(Nat) /\ rmsg[r] \in Nat
      BY <1>3, <1>t DEF Insert, TypeOK, Phases
    <3>2. queue' = queue \/ queue' = Append(queue, rmsg[r])
      BY <1>3, Zenon DEF Insert
    <3> QED
      BY <3>1, <3>2
  <2>2. TypeOK'
    BY <1>3, <1>t, <2>1 DEF Insert, TypeOK
  <2>3. Phases'
    BY <1>3, <1>t DEF Insert, TypeOK, Phases
  <2> QED
    BY <2>2, <2>3
<1>4. ASSUME NEW r \in Receivers, Post(r) \/ Advance(r) PROVE TypeOK' /\ Phases'
  <2>s. sem + 1 \in Nat
    BY <1>t DEF TypeOK
  <2>1. TypeOK'
    <3>1. sem' \in Nat
      BY <1>4, <1>t, <2>s DEF Post, Advance, TypeOK
    <3>2. rpc' \in [Receivers -> ReceivePCs]
      BY <1>4, <1>t DEF Post, Advance, TypeOK
    <3> QED
      BY <1>4, <1>t, <3>1, <3>2 DEF Post, Advance, TypeOK
  <2>2. Phases'
    BY <1>4, <1>t DEF Post, Advance, TypeOK, Phases
  <2> QED
    BY <2>1, <2>2
<1>5. ASSUME NEW c \in Consumers, Check(c) \/ Acquire(c) \/ Timeout(c) \/ TestEmpty(c)
      PROVE  TypeOK' /\ Phases'
  <2>1. TypeOK'
    <3>1. sem' \in Nat
      BY <1>5, <1>t DEF Check, Acquire, Timeout, TestEmpty, TypeOK
    <3>2. cpc' \in [Consumers -> ConsumePCs]
      BY <1>5, <1>t DEF Check, Acquire, Timeout, TestEmpty, TypeOK
    <3> QED
      BY <1>5, <1>t, <3>1, <3>2 DEF Check, Acquire, Timeout, TestEmpty, TypeOK
  <2>2. Phases'
    BY <1>5, <1>t DEF Check, Acquire, Timeout, TestEmpty, TypeOK, Phases
  <2> QED
    BY <2>1, <2>2
<1>6. ASSUME NEW c \in Consumers, Remove(c) PROVE TypeOK' /\ Phases'
  <2>1. queue # << >> => Head(queue) \in Nat /\ Tail(queue) \in Seq(Nat)
    BY <1>t DEF TypeOK
  <2>2. TypeOK'
    BY <1>6, <1>t, <2>1 DEF Remove, TypeOK
  <2>3. Phases'
    BY <1>6, <1>t DEF Remove, TypeOK, Phases
  <2> QED
    BY <2>2, <2>3
<1>7. ASSUME NEW c \in Consumers, Handle(c) PROVE TypeOK' /\ Phases'
  BY <1>7, <1>t DEF Handle, TypeOK, Phases
<1>8. CASE Start \/ Stop \/ Unsubscribe \/ Destroy
  BY <1>8, <1>t DEF Start, Stop, Unsubscribe, Destroy, Running, TypeOK, Phases
<1>9. CASE Drain
  <2>1. Tail(queue) \in Seq(Nat)
    BY <1>9, <1>t DEF Drain, TypeOK
  <2> QED
    BY <1>9, <1>t, <2>1 DEF Drain, TypeOK, Phases
<1>10. CASE UNCHANGED vars
  BY <1>10, <1>t DEF vars, TypeOK, Phases
<1> QED
  BY <1>1, <1>2, <1>3, <1>4, <1>5, <1>6, <1>7, <1>8, <1>9, <1>10
     DEF Next, ReceiveStep, ConsumeStep, TeardownStep

LEMMA NextTokens == IInv /\ [Next]_vars => TokenAccounting'
<1> SUFFICES ASSUME IInv, [Next]_vars PROVE TokenAccounting'
  OBVIOUS
<1> DEFINE Quiet == /\ Len(queue') = Len(queue) /\ sem' = sem
                    /\ Posting' = Posting /\ Taking' = Taking
                    /\ life' \in {"new", "subscribed", "stopping"} =>
                         life \in {"new", "subscribed", "stopping"}
<1>quiet. ASSUME Quiet PROVE TokenAccounting'
  BY <1>quiet DEF IInv, TokenAccounting
<1> USE DEF RecvMove, ConsMove
<1>1. ASSUME NEW r \in Receivers, Receive(r) \/ Notify(r) \/ Advance(r) PROVE Quiet
  BY <1>1 DEF IInv, TypeOK, Receive, Notify, Advance, Posting, Taking
<1>2. ASSUME NEW r \in Receivers, Insert(r) PROVE TokenAccounting'
  <2>1. CASE life = "destroyed"
    BY <1>2, <2>1 DEF Insert, TokenAccounting
  <2>2. CASE life # "destroyed"
    <3>1. r \notin Posting /\ Posting' = Posting \cup {r} /\ Taking' = Taking /\ sem' = sem
      BY <1>2, <2>2 DEF IInv, TypeOK, Insert, Posting, Taking
    <3>2. Len(queue') = Len(queue) + 1
      BY <1>2, <2>2 DEF IInv, TypeOK, Phases, Insert
    <3>3. Cardinality(Posting') = Cardinality(Posting) + 1
      BY <3>1, ThreadsFinite, CardinalityPlus
    <3>4. life' = life
      BY <1>2 DEF Insert
    <3> QED
      BY <3>1, <3>2, <3>3, <3>4, ThreadsFinite DEF IInv, TypeOK, TokenAccounting
  <2> QED
    BY <2>1, <2>2
<1>3. ASSUME NEW r \in Receivers, Post(r) PROVE TokenAccounting'
  <2>1. CASE life = "destroyed"
    BY <1>3, <2>1 DEF Post, TokenAccounting
  <2>2. CASE life # "destroyed"
    <3>1. /\ r \in Posting /\ Posting' = Posting \ {r} /\ Taking' = Taking
          /\ sem' = sem + 1 /\ queue' = queue /\ life' = life
      BY <1>3, <2>2 DEF IInv, TypeOK, Post, Posting, Taking
    <3>2. Cardinality(Posting') = Cardinality(Posting) - 1
      BY <3>1, ThreadsFinite, CardinalityMinus
    <3> QED
      BY <3>1, <3>2, ThreadsFinite DEF IInv, TypeOK, TokenAccounting
  <2> QED
    BY <2>1, <2>2
<1>4. ASSUME NEW c \in Consumers, Check(c) \/ Timeout(c) \/ Handle(c) PROVE Quiet
  BY <1>4 DEF IInv, TypeOK, Check, Timeout, Handle, Posting, Taking
<1>5. ASSUME NEW c \in Consumers, Acquire(c) PROVE TokenAccounting'
  <2>1. /\ c \notin Taking /\ Taking' = Taking \cup {c} /\ Posting' = Posting
        /\ sem' = sem - 1 /\ queue' = queue /\ life' = life
    BY <1>5 DEF IInv, TypeOK, Acquire, Posting, Taking
  <2>2. Cardinality(Taking') = Cardinality(Taking) + 1
    BY <2>1, ThreadsFinite, CardinalityPlus
  <2> QED
    BY <2>1, <2>2, ThreadsFinite DEF IInv, TypeOK, TokenAccounting
<1>6. ASSUME NEW c \in Consumers, TestEmpty(c) PROVE Quiet
  <2>1. queue # << >>
    BY <1>6, TakingFinds DEF IInv, TestEmpty, Taking
  <2> QED
    BY <1>6, <2>1 DEF IInv, TypeOK, TestEmpty, Posting, Taking
<1>7. ASSUME NEW c \in Consumers, Remove(c) PROVE TokenAccounting'
  <2>1. queue # << >>
    BY <1>7, TakingFinds DEF IInv, Remove, Taking
  <2>2. /\ c \in Taking /\ Taking' = Taking \ {c} /\ Posting' = Posting
        /\ sem' = sem /\ life' = life
    BY <1>7, <2>1 DEF IInv, TypeOK, Remove, Posting, Taking
  <2>3. Cardinality(Taking') = Cardinality(Taking) - 1
    BY <2>2, ThreadsFinite, CardinalityMinus
  <2>4. Len(queue') = Len(queue) - 1
    <3>1. queue' = Tail(queue) /\ queue \in Seq(Nat)
      BY <1>7, <2>1 DEF IInv, TypeOK, Remove
    <3> QED
      BY <2>1, <3>1
  <2>5. sem \in Nat /\ Len(queue) \in Nat
    BY DEF IInv, TypeOK
  <2> QED
    BY <2>2, <2>3, <2>4, <2>5, ThreadsFinite DEF IInv, TokenAccounting
<1>8. CASE Start
  <2>1. Taking = {} /\ Taking' = {}
    BY <1>8 DEF IInv, Phases, Start, Taking
  <2> QED
    BY <1>8, <2>1, <1>quiet DEF Start, Posting
<1>9. CASE Stop \/ Unsubscribe \/ Destroy \/ UNCHANGED vars
  BY <1>9, <1>quiet DEF Stop, Unsubscribe, Destroy, Running, Posting, Taking, vars
<1>10. CASE Drain
  BY <1>10 DEF Drain, TokenAccounting
<1> QED
  BY <1>1, <1>2, <1>3, <1>4, <1>5, <1>6, <1>7, <1>8, <1>9, <1>10, <1>quiet
     DEF Next, ReceiveStep, ConsumeStep, TeardownStep

LEMMA NextNeverThrown == IInv /\ [Next]_vars => NeverThrown'
<1> SUFFICES ASSUME IInv, [Next]_vars, NEW c \in Consumers PROVE cpc'[c] # "thrown"
  BY DEF NeverThrown
<1>1. ASSUME NEW d \in Consumers, Remove(d) PROVE queue # << >>
  BY <1>1, TakingFinds DEF IInv, Remove, ConsMove, Taking
<1> QED
  BY <1>1 DEF IInv, TypeOK, NeverThrown, Next, ReceiveStep, ConsumeStep, TeardownStep, Receive,
         Notify, Insert, Post, Advance, Check, Acquire, Timeout, TestEmpty, Remove, Handle, Start,
         Stop, Unsubscribe, Drain, Destroy, RecvMove, ConsMove, vars

LEMMA Invariance == Spec => []IInv
<1>1. IInv /\ [Next]_vars => IInv'
  BY NextTyping, NextTokens, NextNeverThrown DEF IInv
<1> QED BY InitInv, <1>1, PTL DEF Spec

(* insert before v, and p before remove: for any number of threads the     *)
(* permits and the queue agree.                                            *)
THEOREM Permits == Spec => [](TypeOK /\ TokenAccounting)
<1>1. IInv => TypeOK /\ TokenAccounting
  BY DEF IInv
<1> QED BY Invariance, <1>1, PTL

(* A permit always finds a message, so that nullptr means a timeout, and   *)
(* List::remove never throws.                                              *)
THEOREM QueueSafety == Spec => []NullMeansTimeout
<1>1. IInv => NullMeansTimeout
  BY TakingFinds DEF IInv, NeverThrown, NullMeansTimeout, Taking
<1> QED BY Invariance, <1>1, PTL

-----------------------------------------------------------------------------
(* What a thread has in hand follows from where it is.                     *)
Hands ==
  /\ \A r \in Receivers : /\ rpc[r] \in {"idle", "post", "next"} => rmsg[r] = None
                          /\ rpc[r] \in {"notify", "insert"} => rmsg[r] # None
  /\ \A c \in Consumers : cmsg[c] # None <=> cpc[c] = "handle"

(* What is held exists.                                                    *)
HeldExists ==
  /\ heap \subseteq 1 .. nmsgs
  /\ \A r \in Receivers : rmsg[r] = None \/ rmsg[r] \in heap
  /\ \A c \in Consumers : cmsg[c] = None \/ cmsg[c] \in heap
  /\ \A i \in 1 .. Len(queue) : queue[i] \in heap

(* What exists is held.                                                    *)
Held(m) ==
  \/ \E r \in Receivers : rmsg[r] = m
  \/ \E c \in Consumers : cmsg[c] = m
  \/ \E i \in 1 .. Len(queue) : queue[i] = m
ExistsHeld == \A m \in heap : Held(m)

(* No message is in two hands, twice in the queue, or in both.             *)
HeldApart ==
  /\ \A r, s \in Receivers : rmsg[r] # None /\ rmsg[r] = rmsg[s] => r = s
  /\ \A c, d \in Consumers : cmsg[c] # None /\ cmsg[c] = cmsg[d] => c = d
  /\ \A i, j \in 1 .. Len(queue) : queue[i] = queue[j] => i = j
  /\ \A r \in Receivers, c \in Consumers : rmsg[r] # None => rmsg[r] # cmsg[c]
  /\ \A r \in Receivers, i \in 1 .. Len(queue) : rmsg[r] # queue[i]
  /\ \A c \in Consumers, i \in 1 .. Len(queue) : cmsg[c] # queue[i]

Ownership == Hands /\ HeldExists /\ ExistsHeld /\ HeldApart

LEMMA InitOwnership == Init => Ownership
BY DEF Init, Ownership, Hands, HeldExists, ExistsHeld, HeldApart

(* Steps that move a thread on and leave every message where it is.        *)
LEMMA QuietOwnership ==
  ASSUME Ownership, Hands', UNCHANGED <<queue, rmsg, cmsg, heap, nmsgs>>
  PROVE  Ownership'
BY DEF Ownership, HeldExists, ExistsHeld, HeldApart, Held

(* A fresh number is in nobody's hands.                                    *)
LEMMA ReceiveOwnership ==
  ASSUME TypeOK, Ownership, NEW r \in Receivers, Receive(r)
  PROVE  Ownership'
<1> USE DEF RecvMove
<1>n. /\ nmsgs \in Nat /\ nmsgs' = nmsgs + 1 /\ queue' = queue /\ cmsg' = cmsg
      /\ cpc' = cpc
  BY DEF Receive, TypeOK
<1>m. nmsgs + 1 # None
  BY <1>n, ObserverAssumption
<1>1. Hands'
  <2>1. \A s \in Receivers : \/ rpc'[s] = rpc[s] /\ rmsg'[s] = rmsg[s]
                             \/ rpc'[s] = "notify" /\ rmsg'[s] = nmsgs + 1
    BY DEF Receive, TypeOK
  <2> QED
    BY <1>n, <1>m, <2>1 DEF Ownership, Hands
<1>2. CASE UNCHANGED <<rmsg, heap>>
  <2>1. HeldExists'
    BY <1>n, <1>2 DEF Ownership, HeldExists
  <2> QED
    BY <1>1, <1>n, <1>2, <2>1 DEF Ownership, ExistsHeld, HeldApart, Held
<1>3. CASE /\ rpc[r] = "idle" /\ rmsg' = [rmsg EXCEPT ![r] = nmsgs + 1]
           /\ heap' = heap \cup {nmsgs + 1}
  <2>1. rmsg[r] = None /\ nmsgs + 1 \notin heap /\ None \notin heap
    <3>1. None \notin heap
      BY ObserverAssumption DEF TypeOK
    <3> QED
      BY <1>3, <1>n, <3>1 DEF Ownership, Hands, HeldExists
  <2>2. /\ rmsg'[r] = nmsgs + 1 /\ \A s \in Receivers : s # r => rmsg'[s] = rmsg[s]
    BY <1>3 DEF TypeOK
  <2>4. HeldExists'
    BY <1>n, <1>3, <2>2 DEF Ownership, HeldExists
  <2>5. ExistsHeld'
    BY <1>n, <1>3, <2>1, <2>2 DEF Ownership, ExistsHeld, Held
  <2>6. HeldApart'
    BY <1>n, <1>m, <2>1, <2>2 DEF Ownership, HeldExists, HeldApart
  <2> QED
    BY <1>1, <2>4, <2>5, <2>6 DEF Ownership
<1> QED
  BY <1>2, <1>3 DEF Receive

(* Nobody is subscribed: the message in hand is deleted.                   *)
LEMMA NotifyOwnership ==
  ASSUME TypeOK, Ownership, NEW r \in Receivers, Notify(r)
  PROVE  Ownership'
<1> USE DEF RecvMove
<1>1. Hands'
  BY DEF Notify, TypeOK, Ownership, Hands
<1>2. CASE UNCHANGED <<rmsg, heap>>
  BY <1>1, <1>2, QuietOwnership DEF Notify
<1>3. CASE /\ rpc[r] = "notify" /\ rmsg' = [rmsg EXCEPT ![r] = None]
           /\ heap' = heap \ {rmsg[r]}
  <2>1. rmsg[r] # None /\ queue' = queue /\ cmsg' = cmsg /\ nmsgs' = nmsgs
    BY <1>3 DEF Ownership, Hands, Notify
  <2>2. rmsg'[r] = None /\ \A s \in Receivers : s # r => rmsg'[s] = rmsg[s]
    BY <1>3 DEF TypeOK
  <2>3. HeldExists'
    <3>1. heap' \subseteq 1 .. nmsgs'
      BY <1>3, <2>1 DEF Ownership, HeldExists
    <3>2. \A s \in Receivers : rmsg'[s] = None \/ rmsg'[s] \in heap'
      BY <1>3, <2>1, <2>2 DEF Ownership, HeldExists, HeldApart
    <3>3. \A c \in Consumers : cmsg'[c] = None \/ cmsg'[c] \in heap'
      BY <1>3, <2>1 DEF Ownership, HeldExists, HeldApart
    <3>4. \A i \in 1 .. Len(queue') : queue'[i] \in heap'
      BY <1>3, <2>1 DEF Ownership, HeldExists, HeldApart
    <3> QED
      BY <3>1, <3>2, <3>3, <3>4 DEF HeldExists
  <2>4. ExistsHeld'
    BY <1>3, <2>1, <2>2 DEF Ownership, ExistsHeld, Held
  <2>5. None \notin heap
    BY ObserverAssumption DEF TypeOK
  <2>6. HeldApart'
    BY <2>1, <2>2, <2>5 DEF Ownership, HeldExists, HeldApart
  <2> QED
    BY <1>1, <2>3, <2>4, <2>6 DEF Ownership
<1> QED
  BY <1>2, <1>3 DEF Notify

(* insert: the message goes from the hand to the end of the queue.         *)
LEMMA InsertOwnership ==
  ASSUME TypeOK, Ownership, NEW r \in Receivers, Insert(r)
  PROVE  Ownership'
<1> USE DEF RecvMove
<1>1. Hands'
  BY DEF Insert, TypeOK, Ownership, Hands
<1>2. CASE UNCHANGED <<queue, rmsg>>
  BY <1>1, <1>2, QuietOwnership DEF Insert
<1>3. CASE /\ rpc[r] = "insert" /\ rmsg' = [rmsg EXCEPT ![r] = None]
           /\ queue' = Append(queue, rmsg[r])
  <2>1. rmsg[r] # None /\ heap' = heap /\ cmsg' = cmsg /\ nmsgs' = nmsgs
    BY <1>3 DEF Ownership, Hands, Insert
  <2>2. rmsg'[r] = None /\ \A s \in Receivers : s # r => rmsg'[s] = rmsg[s]
    BY <1>3 DEF TypeOK
  <2>3. queue \in Seq(Nat) /\ rmsg[r] \in Nat /\ Len(queue) \in Nat
    BY <2>1 DEF TypeOK
  <2>4. /\ Len(queue') = Len(queue) + 1 /\ queue'[Len(queue) + 1] = rmsg[r]
        /\ \A i \in 1 .. Len(queue) : queue'[i] = queue[i]
    BY <1>3, <2>3
  <2>5. \A i \in 1 .. Len(queue') : i \in 1 .. Len(queue) \/ i = Len(queue) + 1
    BY <2>3, <2>4
  <2>6. HeldExists'
    BY <2>1, <2>2, <2>4, <2>5 DEF Ownership, HeldExists
  <2>7. ExistsHeld'
    <3>1. \A i \in 1 .. Len(queue) : i \in 1 .. Len(queue')
      BY <2>3, <2>4
    <3>2. Len(queue) + 1 \in 1 .. Len(queue')
      BY <2>3, <2>4
    <3> SUFFICES ASSUME NEW m \in heap' PROVE Held(m)'
      BY DEF ExistsHeld
    <3>3. Held(m)
      BY <2>1 DEF Ownership, ExistsHeld
    <3>4. CASE m = rmsg[r]
      BY <2>4, <3>2, <3>4 DEF Held
    <3>5. CASE m # rmsg[r]
      BY <2>1, <2>2, <2>4, <3>1, <3>3, <3>5, Zenon DEF Held
    <3> QED
      BY <3>4, <3>5
  <2>8. None \notin heap
    BY ObserverAssumption DEF TypeOK
  <2>9. HeldApart'
    BY <2>1, <2>2, <2>4, <2>5, <2>8 DEF Ownership, HeldExists, HeldApart
  <2> QED
    BY <1>1, <2>6, <2>7, <2>9 DEF Ownership
<1> QED
  BY <1>2, <1>3 DEF Insert

LEMMA TailFacts ==
  ASSUME queue \in Seq(Nat), queue # << >>
  PROVE  /\ Len(Tail(queue)) = Len(queue) - 1 /\ Head(queue) = queue[1]
         /\ 1 \in 1 .. Len(queue)
         /\ \A i \in 1 .. Len(Tail(queue)) : /\ i + 1 \in 1 .. Len(queue) /\ i + 1 # 1
                                             /\ Tail(queue)[i] = queue[i + 1]
         /\ \A i \in 1 .. Len(queue) : i # 1 =>
              /\ i - 1 \in 1 .. Len(Tail(queue)) /\ Tail(queue)[i - 1] = queue[i]
OBVIOUS

(* remove: the message goes from the head of the queue to the hand.        *)
LEMMA RemoveOwnership ==
  ASSUME TypeOK, Ownership, NEW c \in Consumers, Remove(c), queue # << >>
  PROVE  Ownership'
<1> USE DEF ConsMove
<1>1. /\ cpc[c] = "remove" /\ cmsg' = [cmsg EXCEPT ![c] = queue[1]] /\ queue' = Tail(queue)
      /\ UNCHANGED <<rmsg, heap, nmsgs>>
  BY TailFacts DEF Remove, TypeOK
<1>2. cmsg[c] = None
  BY <1>1 DEF Ownership, Hands
<1>3. cmsg'[c] = queue[1] /\ \A d \in Consumers : d # c => cmsg'[d] = cmsg[d]
  BY <1>1 DEF TypeOK
<1>4. None \notin heap /\ queue[1] \in heap
  BY TailFacts, ObserverAssumption DEF TypeOK, Ownership, HeldExists
<1>5. Hands'
  BY <1>3, <1>4 DEF Remove, TypeOK, Ownership, Hands
<1>t. /\ 1 \in 1 .. Len(queue)
      /\ \A i \in 1 .. Len(queue') : /\ i + 1 \in 1 .. Len(queue) /\ i + 1 # 1
                                     /\ queue'[i] = queue[i + 1]
      /\ \A i \in 1 .. Len(queue) : i # 1 =>
              /\ i - 1 \in 1 .. Len(queue') /\ queue'[i - 1] = queue[i]
  BY <1>1, TailFacts DEF TypeOK
<1>6. HeldExists'
  BY <1>1, <1>3, <1>4, <1>t DEF Ownership, HeldExists
<1>7. ExistsHeld'
  <2> SUFFICES ASSUME NEW m \in heap PROVE Held(m)'
    BY <1>1 DEF ExistsHeld
  <2>0. Held(m)
    BY DEF Ownership, ExistsHeld
  <2>1. ASSUME NEW r \in Receivers, rmsg[r] = m PROVE Held(m)'
    BY <1>1, <2>1 DEF Held
  <2>2. ASSUME NEW d \in Consumers, cmsg[d] = m PROVE Held(m)'
    <3>1. cmsg'[d] = m
      BY <1>2, <1>3, <1>4, <2>2
    <3> QED BY <3>1 DEF Held
  <2>3. ASSUME NEW i \in 1 .. Len(queue), queue[i] = m PROVE Held(m)'
    <3>1. CASE i = 1
      BY <1>3, <2>3, <3>1 DEF Held
    <3>2. CASE i # 1
      <4>1. i - 1 \in 1 .. Len(queue') /\ queue'[i - 1] = m
        BY <1>t, <2>3, <3>2
      <4> QED BY <4>1 DEF Held
    <3> QED BY <3>1, <3>2
  <2> QED BY <2>0, <2>1, <2>2, <2>3 DEF Held
<1>8. HeldApart'
  <2>1. \A i, j \in 1 .. Len(queue') : queue'[i] = queue'[j] => i = j
    <3> SUFFICES ASSUME NEW i \in 1 .. Len(queue'), NEW j \in 1 .. Len(queue'),
                        queue'[i] = queue'[j]
                 PROVE  i = j
      OBVIOUS
    <3>0. \A k, l \in 1 .. Len(queue) : queue[k] = queue[l] => k = l
      BY DEF Ownership, HeldApart
    <3>1. i + 1 = j + 1
      <4>1. i + 1 \in 1 .. Len(queue) /\ queue'[i] = queue[i + 1]
        BY <1>t
      <4>2. j + 1 \in 1 .. Len(queue) /\ queue'[j] = queue[j + 1]
        BY <1>t
      <4> QED BY <3>0, <4>1, <4>2
    <3> QED
      BY <3>1
  <2>2. \A d \in Consumers, i \in 1 .. Len(queue') : cmsg'[d] # queue'[i]
    BY <1>3, <1>t DEF Ownership, HeldApart
  <2>3. \A r \in Receivers, i \in 1 .. Len(queue') : rmsg'[r] # queue'[i]
    BY <1>1, <1>t DEF Ownership, HeldApart
  <2>4. \A d, e \in Consumers : cmsg'[d] # None /\ cmsg'[d] = cmsg'[e] => d = e
    BY <1>3, <1>t DEF Ownership, HeldApart
  <2>5. \A r \in Receivers, d \in Consumers : rmsg'[r] # None => rmsg'[r] # cmsg'[d]
    BY <1>1, <1>3, <1>t DEF Ownership, HeldApart
  <2> QED
    BY <1>1, <2>1, <2>2, <2>3, <2>4, <2>5 DEF Ownership, HeldApart
<1> QED
  BY <1>5, <1>6, <1>7, <1>8 DEF Ownership

(* The consumer deletes what it has in hand.                               *)
LEMMA HandleOwnership ==
  ASSUME TypeOK, Ownership, NEW c \in Consumers, Handle(c)
  PROVE  Ownership'
<1> USE DEF ConsMove
<1>1. /\ cmsg[c] # None /\ heap' = heap \ {cmsg[c]}
      /\ UNCHANGED <<queue, rmsg, nmsgs>>
  BY DEF Handle, Ownership, Hands
<1>2. cmsg'[c] = None /\ \A d \in Consumers : d # c => cmsg'[d] = cmsg[d]
  BY DEF Handle, TypeOK
<1>3. Hands'
  BY <1>2 DEF Handle, TypeOK, Ownership, Hands
<1>4. HeldExists'
  BY <1>1, <1>2 DEF Ownership, HeldExists, HeldApart
<1>5. ExistsHeld'
  BY <1>1, <1>2 DEF Ownership, ExistsHeld, Held
<1>6. None \notin heap
  BY ObserverAssumption DEF TypeOK
<1>7. HeldApart'
  BY <1>1, <1>2, <1>6 DEF Ownership, HeldExists, HeldApart
<1> QED
  BY <1>3, <1>4, <1>5, <1>7 DEF Ownership

(* The destructor deletes the head of the queue.                           *)
LEMMA DrainOwnership ==
  ASSUME TypeOK, Ownership, Drain
  PROVE  Ownership'
<1>1. /\ queue # << >> /\ queue' = Tail(queue) /\ heap' = heap \ {queue[1]}
      /\ UNCHANGED <<rpc, rmsg, cpc, cmsg, nmsgs>>
  BY TailFacts DEF Drain, TypeOK
<1>t. /\ 1 \in 1 .. Len(queue)
      /\ \A i \in 1 .. Len(queue') : /\ i + 1 \in 1 .. Len(queue) /\ i + 1 # 1
                                     /\ queue'[i] = queue[i + 1]
      /\ \A i \in 1 .. Len(queue) : i # 1 =>
              /\ i - 1 \in 1 .. Len(queue') /\ queue'[i - 1] = queue[i]
  BY <1>1, TailFacts DEF TypeOK
<1>2. Hands'
  BY <1>1 DEF Ownership, Hands
<1>3. HeldExists'
  <2>1. heap' \subseteq 1 .. nmsgs'
    BY <1>1 DEF Ownership, HeldExists
  <2>2. \A r \in Receivers : rmsg'[r] = None \/ rmsg'[r] \in heap'
    BY <1>1, <1>t DEF Ownership, HeldExists, HeldApart
  <2>3. \A c \in Consumers : cmsg'[c] = None \/ cmsg'[c] \in heap'
    BY <1>1, <1>t DEF Ownership, HeldExists, HeldApart
  <2>4. \A i \in 1 .. Len(queue') : queue'[i] \in heap'
    BY <1>1, <1>t DEF Ownership, HeldExists, HeldApart
  <2> QED
    BY <2>1, <2>2, <2>3, <2>4 DEF HeldExists
<1>4. ExistsHeld'
  <2> SUFFICES ASSUME NEW m \in heap, m # queue[1] PROVE Held(m)'
    BY <1>1 DEF ExistsHeld
  <2>0. Held(m)
    BY DEF Ownership, ExistsHeld
  <2>1. ASSUME NEW r \in Receivers, rmsg[r] = m PROVE Held(m)'
    BY <1>1, <2>1 DEF Held
  <2>2. ASSUME NEW c \in Consumers, cmsg[c] = m PROVE Held(m)'
    BY <1>1, <2>2 DEF Held
  <2>3. ASSUME NEW i \in 1 .. Len(queue), queue[i] = m PROVE Held(m)'
    <3>1. i - 1 \in 1 .. Len(queue') /\ queue'[i - 1] = m
      BY <1>t, <2>3
    <3> QED BY <3>1 DEF Held
  <2> QED BY <2>0, <2>1, <2>2, <2>3 DEF Held
<1>5. HeldApart'
  <2>1. \A i, j \in 1 .. Len(queue') : queue'[i] = queue'[j] => i = j
    <3> SUFFICES ASSUME NEW i \in 1 .. Len(queue'), NEW j \in 1 .. Len(queue'),
                        queue'[i] = queue'[j]
                 PROVE  i = j
      OBVIOUS
    <3>0. \A k, l \in 1 .. Len(queue) : queue[k] = queue[l] => k = l
      BY DEF Ownership, HeldApart
    <3>1. i + 1 = j + 1
      <4>1. i + 1 \in 1 .. Len(queue) /\ queue'[i] = queue[i + 1]
        BY <1>t
      <4>2. j + 1 \in 1 .. Len(queue) /\ queue'[j] = queue[j + 1]
        BY <1>t
      <4> QED BY <3>0, <4>1, <4>2
    <3> QED
      BY <3>1
  <2> QED
    BY <1>1, <1>t, <2>1 DEF Ownership, HeldApart
<1> QED
  BY <1>2, <1>3, <1>4, <1>5 DEF Ownership

LEMMA NextOwnership == IInv /\ Ownership /\ [Next]_vars => Ownership'
<1> SUFFICES ASSUME IInv, Ownership, [Next]_vars PROVE Ownership'
  OBVIOUS
<1>t. TypeOK /\ Phases
  BY DEF IInv
<1>1. ASSUME NEW r \in Receivers, Post(r) \/ Advance(r) PROVE Ownership'
  <2>1. Hands'
    BY <1>1, <1>t DEF Post, Advance, RecvMove, TypeOK, Ownership, Hands
  <2> QED
    BY <1>1, <2>1, QuietOwnership DEF Post, Advance
<1>2. ASSUME NEW c \in Consumers, Check(c) \/ Acquire(c) \/ Timeout(c) \/ TestEmpty(c)
      PROVE  Ownership'
  <2>1. Hands'
    BY <1>2, <1>t DEF Check, Acquire, Timeout, TestEmpty, ConsMove, TypeOK, Ownership, Hands
  <2> QED
    BY <1>2, <2>1, QuietOwnership DEF Check, Acquire, Timeout, TestEmpty
<1>3. ASSUME NEW c \in Consumers, Remove(c) PROVE Ownership'
  <2>1. queue # << >>
    BY <1>3, TakingFinds DEF IInv, Remove, ConsMove, Taking
  <2> QED
    BY <1>3, <1>t, <2>1, RemoveOwnership
<1>4. CASE Start \/ Stop \/ Unsubscribe \/ Destroy \/ UNCHANGED vars
  <2>1. Hands'
    BY <1>4, <1>t DEF Start, Stop, Unsubscribe, Destroy, vars, Phases, Ownership, Hands
  <2> QED
    BY <1>4, <2>1, QuietOwnership DEF Start, Stop, Unsubscribe, Destroy, vars
<1> QED
  BY <1>t, <1>1, <1>2, <1>3, <1>4, ReceiveOwnership, NotifyOwnership, InsertOwnership,
     HandleOwnership, DrainOwnership
     DEF Next, ReceiveStep, ConsumeStep, TeardownStep

LEMMA OwnershipHolders ==
  ASSUME TypeOK, Ownership, NEW m \in 1 .. nmsgs
  PROVE  Cardinality(Holders(m)) = IF m \in heap THEN 1 ELSE 0
<1>n. m # None /\ DOMAIN queue = 1 .. Len(queue)
  BY ObserverAssumption DEF TypeOK
<1>1. CASE m \in heap
  <2>1. \A h, g \in Holders(m) : h = g
    BY <1>n DEF Holders, Ownership, HeldApart
  <2>2. Holders(m) # {}
    <3>1. Held(m)
      BY <1>1 DEF Ownership, ExistsHeld
    <3>2. ASSUME NEW r \in Receivers, rmsg[r] = m PROVE <<"r", r>> \in Holders(m)
      BY <3>2 DEF Holders
    <3>3. ASSUME NEW c \in Consumers, cmsg[c] = m PROVE <<"c", c>> \in Holders(m)
      BY <3>3 DEF Holders
    <3>4. ASSUME NEW i \in 1 .. Len(queue), queue[i] = m PROVE <<"q", i>> \in Holders(m)
      BY <1>n, <3>4 DEF Holders
    <3> QED
      BY <3>1, <3>2, <3>3, <3>4 DEF Held
  <2>3. PICK h : h \in Holders(m)
    BY <2>2
  <2>4. Holders(m) = {h}
    BY <2>1, <2>3
  <2> QED
    BY <1>1, <2>4, FS_Singleton
<1>2. CASE m \notin heap
  <2>1. Holders(m) = {}
    BY <1>2, <1>n DEF Holders, Ownership, HeldExists
  <2> QED
    BY <1>2, <2>1, FS_EmptySet
<1> QED
  BY <1>1, <1>2

(* Every Message has one owner from new to delete, through both discard    *)
(* paths, the queue, the handler and the draining destructor, whatever the *)
(* number of threads: nothing leaks and nothing is deleted twice.          *)
THEOREM MessageOwnership == Spec => []OwnedOnce
<1>1. IInv /\ Ownership => OwnedOnce
  BY OwnershipHolders DEF IInv, OwnedOnce
<1>2. Spec => []Ownership
  <2>1. IInv /\ [Next]_vars /\ Ownership => Ownership'
    BY NextOwnership
  <2> QED BY Invariance, InitOwnership, <2>1, PTL DEF Spec
<1> QED BY Invariance, <1>1, <1>2, PTL

-----------------------------------------------------------------------------
(* What the missing lock of Ordered_List is worth.                         *)

(* No receiving thread is between begin() and the end of notify.           *)
NoWalk == \A r \in Receivers : rpc[r] \in {"idle", "notify"}

(* unsubscribe excludes notify, as it would if both took the list's lock.  *)
UnsubscribeExcludes == [][Unsubscribe => NoWalk]_vars

(* While the node is not in the list nobody is walking it.                 *)
GoneUnwalked == /\ ~Listed => NoWalk
                /\ NoUseAfterFree

LEMMA NextGone ==
  TypeOK /\ GoneUnwalked /\ [Next]_vars /\ [Unsubscribe => NoWalk]_vars => GoneUnwalked'
<1> SUFFICES ASSUME TypeOK, GoneUnwalked, [Next]_vars, [Unsubscribe => NoWalk]_vars
             PROVE  GoneUnwalked'
  OBVIOUS
<1> USE DEF RecvMove, TypeOK, Lives, ReceivePCs, GoneUnwalked, NoWalk, NoUseAfterFree, Listed
<1>1. ASSUME NEW r \in Receivers, Receive(r) \/ Notify(r) PROVE GoneUnwalked'
  BY <1>1 DEF Receive, Notify
<1>2. ASSUME NEW r \in Receivers, Insert(r) \/ Post(r) \/ Advance(r) PROVE GoneUnwalked'
  BY <1>2 DEF Insert, Post, Advance
<1>3. ASSUME NEW c \in Consumers, ConsumeStep(c) PROVE GoneUnwalked'
  <2>1. UNCHANGED <<life, rpc>>
    BY <1>3 DEF ConsumeStep, Check, Acquire, Timeout, TestEmpty, Remove, Handle
  <2> QED BY <2>1
<1>4. CASE Start \/ Stop \/ Drain \/ Destroy
  BY <1>4 DEF Start, Stop, Running, Drain, Destroy
<1>5. CASE Unsubscribe
  BY <1>5 DEF Unsubscribe, vars
<1>6. CASE UNCHANGED vars
  BY <1>6 DEF vars
<1> QED
  BY <1>1, <1>2, <1>3, <1>4, <1>5, <1>6 DEF Next, ReceiveStep, TeardownStep

(* The use after free that the code allows has this one cause: if          *)
(* unsubscribe waited for the notify that is walking the list, and nothing *)
(* else were changed, no receiving thread would touch the observer after   *)
(* its destructor, for any number of threads and messages.                 *)
THEOREM LockedListIsSafe == Spec /\ UnsubscribeExcludes => []NoUseAfterFree
<1>1. Init => GoneUnwalked
  BY DEF Init, GoneUnwalked, NoUseAfterFree, NoWalk
<1>2. IInv => TypeOK
  BY DEF IInv
<1>3. GoneUnwalked => NoUseAfterFree
  BY DEF GoneUnwalked
<1> QED
  BY <1>1, <1>2, <1>3, NextGone, Invariance, PTL DEF Spec, UnsubscribeExcludes
==============================================================================
