-------------------------- MODULE SubscriptionsProofs --------------------------
(***************************************************************************)
(* Theorems about Subscriptions, for every number of connections and       *)
(* projects, every channel capacity and every bound.                       *)
(***************************************************************************)
EXTENDS Subscriptions, FiniteSetTheorems, TLAPS

-----------------------------------------------------------------------------
(* Types. *)

(* The last broadcast a receiver can reach is a number. *)
LEMMA EndType ==
  ASSUME TypeOK, NEW c \in Conns, NEW p \in Projects
  PROVE  End(c, p) \in Nat
BY DEF TypeOK, End, Receiver

(* A new receiver begins at the end of the channel it is made from. *)
LEMMA FreshType ==
  ASSUME TypeOK, NEW p \in Projects
  PROVE  FreshReceiver(p) \in Receiver
BY DEF TypeOK, FreshReceiver, Receiver

(* What a connection has of a project it holds no receiver of. *)
LEMMA NoReceiverType == NoReceiver \in Receiver
BY DEF NoReceiver, Receiver

(* Moving a receiver on changes only its position. *)
LEMMA MovedType ==
  ASSUME NEW r \in Receiver, NEW n \in Nat
  PROVE  [r EXCEPT !.next = n] \in Receiver
BY DEF Receiver

(* The receiver of a channel whose sender was dropped. *)
LEMMA DroppedType ==
  ASSUME TypeOK, NEW p \in Projects, NEW r \in Receiver
  PROVE  SenderDropped(r, p) \in Receiver
BY DEF TypeOK, SenderDropped, Receiver

(* subscribe keeps the types of the two maps. *)
LEMMA ManagerSubscribeType ==
  ASSUME ManagerTypeOK, NEW p \in Projects, ManagerSubscribe(p)
  PROVE  ManagerTypeOK'
BY MaxCountAssumption DEF ManagerTypeOK, ManagerSubscribe

(* unsubscribe keeps the types of the two maps. *)
LEMMA ManagerUnsubscribeType ==
  ASSUME ManagerTypeOK, NEW p \in Projects, ManagerUnsubscribe(p)
  PROVE  ManagerTypeOK'
BY MaxCountAssumption DEF ManagerTypeOK, ManagerUnsubscribe

(* The task of c ends: its entries are reset and stay well typed. *)
LEMMA TaskEndsType ==
  ASSUME TypeOK, NEW c \in Conns, TaskEnds(c)
  PROVE  TypeOK'
BY NoReceiverType DEF TypeOK, ManagerTypeOK, TaskEnds

(* A handler that returns keeps the types of what it does not decide.      *)
LEMMA AnswersType ==
  ASSUME TypeOK, NEW c \in Conns, NEW t \in SUBSET Projects, Answers(c, t),
         ManagerTypeOK', rx' \in [Conns -> [Projects -> Receiver]]
  PROVE  TypeOK'
BY DEF TypeOK, Answers

(* No connection, no channel. *)
LEMMA InitType == Init => TypeOK
BY NoReceiverType, MaxCountAssumption DEF Init, ManagerInit, TypeOK, ManagerTypeOK

(* Every step of a connection task, a client or the publisher keeps the    *)
(* types.                                                                  *)
LEMMA StepType == TypeOK /\ [Next]_vars => TypeOK'
<1> SUFFICES ASSUME TypeOK, [Next]_vars PROVE TypeOK'
  OBVIOUS
<1>1. ASSUME NEW c \in Conns, Connect(c) \/ HangUp(c) \/ Drains(c) PROVE TypeOK'
  BY <1>1 DEF TypeOK, ManagerTypeOK, writeVars, Connect, HangUp, Drains
<1>2. ASSUME NEW c \in Conns, WaitsBehind(c) \/ \E p \in Projects : Crosses(c, p)
      PROVE  TypeOK'
  BY <1>2 DEF TypeOK, ManagerTypeOK, WaitsBehind, Crosses
<1>3. ASSUME NEW c \in Conns, NEW p \in Projects, Subscribe(c, p) PROVE TypeOK'
  <2>1. rx' \in [Conns -> [Projects -> Receiver]]
    BY <1>3, FreshType DEF TypeOK, Subscribe
  <2>2. told[c] \cup {p} \in SUBSET Projects
    BY DEF TypeOK
  <2>3. ManagerTypeOK'
    BY <1>3, ManagerSubscribeType DEF TypeOK, Subscribe
  <2> QED BY <1>3, <2>1, <2>2, <2>3, AnswersType DEF Subscribe
<1>4. ASSUME NEW c \in Conns, NEW p \in Projects, UnsubscribeShared(c, p) PROVE TypeOK'
  <2>1. rx' \in [Conns -> [Projects -> Receiver]]
    BY <1>4, NoReceiverType DEF TypeOK, UnsubscribeShared
  <2>2. told[c] \ {p} \in SUBSET Projects
    BY DEF TypeOK
  <2>3. ManagerTypeOK'
    BY <1>4, ManagerUnsubscribeType DEF TypeOK, UnsubscribeShared
  <2> QED BY <1>4, <2>1, <2>2, <2>3, AnswersType DEF UnsubscribeShared
<1>5. ASSUME NEW c \in Conns, NEW p \in Projects, UnsubscribeLast(c, p) PROVE TypeOK'
  <2>1. rx' \in [Conns -> [Projects -> Receiver]]
    <3>1. ASSUME NEW d \in Conns
          PROVE  [rx[d] EXCEPT ![p] = IF d = c THEN NoReceiver ELSE SenderDropped(@, p)]
                   \in [Projects -> Receiver]
      <4>1. rx[d] \in [Projects -> Receiver] /\ rx[d][p] \in Receiver
        BY DEF TypeOK
      <4>2. (IF d = c THEN NoReceiver ELSE SenderDropped(rx[d][p], p)) \in Receiver
        BY <4>1, DroppedType, NoReceiverType
      <4> QED BY <4>1, <4>2
    <3> QED BY <1>5, <3>1 DEF UnsubscribeLast
  <2>2. told[c] \ {p} \in SUBSET Projects
    BY DEF TypeOK
  <2>3. ManagerTypeOK'
    BY <1>5, ManagerUnsubscribeType DEF TypeOK, UnsubscribeLast
  <2> QED BY <1>5, <2>1, <2>2, <2>3, AnswersType DEF UnsubscribeLast
<1>6. ASSUME NEW p \in Projects, Broadcast(p) PROVE TypeOK'
  BY <1>6 DEF TypeOK, ManagerTypeOK, writeVars, Broadcast
<1>7. ASSUME NEW c \in Conns, NEW p \in Projects, Takes(c, p) PROVE TypeOK'
  <2>1. rx[c][p] \in Receiver
    BY DEF TypeOK
  <2>2. [rx[c] EXCEPT ![p].next = @ + 1] \in [Projects -> Receiver]
    <3>1. rx[c][p].next + 1 \in Nat
      BY <2>1 DEF Receiver
    <3>2. [rx[c][p] EXCEPT !.next = rx[c][p].next + 1] \in Receiver
      BY <2>1, <3>1, MovedType
    <3> QED BY <3>2 DEF TypeOK
  <2>3. rx' \in [Conns -> [Projects -> Receiver]]
    BY <1>7, <2>2 DEF TypeOK, Takes
  <2>4. hand' \in [Conns -> SUBSET Projects] /\ todo' \in [Conns -> SUBSET Projects]
    BY <1>7 DEF TypeOK, Takes
  <2> QED BY <1>7, <2>3, <2>4 DEF TypeOK, ManagerTypeOK, Takes
<1>8. ASSUME NEW c \in Conns, NEW p \in Projects, Deliver(c, p) PROVE TypeOK'
  <2>1. hand' \in [Conns -> SUBSET Projects] /\ full' \subseteq Conns
    BY <1>8 DEF TypeOK, Deliver
  <2>2. InHand(c, p) \in Int
    BY DEF TypeOK, Receiver, InHand
  <2>3. got' \in [Conns -> [Projects -> SUBSET Int]]
    <3>1. [got[c] EXCEPT ![p] = @ \cup {InHand(c, p)}] \in [Projects -> SUBSET Int]
      BY <2>2 DEF TypeOK
    <3> QED BY <1>8, <3>1 DEF TypeOK, Deliver
  <2> QED BY <1>8, <2>1, <2>3 DEF TypeOK, ManagerTypeOK, Deliver
<1>9. ASSUME NEW c \in Conns, NEW p \in Projects, FindEmpty(c, p) PROVE TypeOK'
  BY <1>9 DEF TypeOK, ManagerTypeOK, writeVars, FindEmpty
<1>10. ASSUME NEW c \in Conns, NEW p \in Projects, FindLagged(c, p) PROVE TypeOK'
  <2>1. End(c, p) - Capacity + 1 \in Nat
    <3>1. rx[c][p].next \in Nat
      BY DEF TypeOK, Receiver
    <3> QED BY <1>10, <3>1, EndType, CapacityAssumption DEF FindLagged, Lags
  <2>2. [rx[c] EXCEPT ![p].next = End(c, p) - Capacity + 1] \in [Projects -> Receiver]
    <3>1. rx[c][p] \in Receiver
      BY DEF TypeOK
    <3>2. [rx[c][p] EXCEPT !.next = End(c, p) - Capacity + 1] \in Receiver
      BY <2>1, <3>1, MovedType
    <3> QED BY <3>2 DEF TypeOK
  <2>3. rx' \in [Conns -> [Projects -> Receiver]]
    BY <1>10, <2>2 DEF TypeOK, FindLagged
  <2> QED BY <1>10, <2>3 DEF TypeOK, ManagerTypeOK, writeVars, FindLagged
<1>11. ASSUME NEW c \in Conns, NEW p \in Projects, FindClosed(c, p) PROVE TypeOK'
  BY <1>11, NoReceiverType DEF TypeOK, ManagerTypeOK, writeVars, FindClosed, Held
<1>12. ASSUME NEW c \in Conns, Timer(c) PROVE TypeOK'
  BY <1>12 DEF TypeOK, ManagerTypeOK, writeVars, Timer, Held
<1>13. ASSUME NEW c \in Conns, Responds(c) PROVE TypeOK'
  BY <1>13 DEF TypeOK, ManagerTypeOK, Responds, Held
<1>14. ASSUME NEW c \in Conns, Eof(c) \/ DeliverFails(c) \/ RespondFails(c) PROVE TypeOK'
  BY <1>14, TaskEndsType DEF Eof, DeliverFails, RespondFails
<1>15. CASE UNCHANGED vars
  BY <1>15 DEF TypeOK, ManagerTypeOK, vars
<1> QED
  BY <1>1, <1>2, <1>3, <1>4, <1>5, <1>6, <1>7, <1>8, <1>9, <1>10, <1>11, <1>12, <1>13,
     <1>14, <1>15
  DEF Next, Client, Task, Poll, Write

(* Every variable keeps its type, for connections, projects and capacities *)
(* of any number: no request or poll leaves the maps of the code outside   *)
(* what their types allow.                                                 *)
THEOREM TypesHold == Spec => []TypeOK
BY InitType, StepType, PTL DEF Spec

-----------------------------------------------------------------------------
(* Channels and counts. *)

(* No channel and no count. *)
LEMMA InitCounted == Init => ChannelIffCounted
<1> SUFFICES ASSUME Init, NEW p \in Projects PROVE ~(p \in channel) /\ ~(counts[p] > 0)
  BY DEF ChannelIffCounted
<1>1. channel = {} /\ counts[p] = 0
  BY DEF Init, ManagerInit
<1> QED BY <1>1

(* subscribe and unsubscribe change a channel and its count together, and  *)
(* nobody else touches either.                                             *)
LEMMA StepCounted == TypeOK /\ ChannelIffCounted /\ [Next]_vars => ChannelIffCounted'
<1> SUFFICES ASSUME TypeOK, ChannelIffCounted, [Next]_vars PROVE ChannelIffCounted'
  OBVIOUS
<1>1. ASSUME NEW p \in Projects, ManagerSubscribe(p) PROVE ChannelIffCounted'
  BY <1>1, MaxCountAssumption DEF TypeOK, ManagerTypeOK, ChannelIffCounted, ManagerSubscribe
<1>2. ASSUME NEW p \in Projects, ManagerUnsubscribe(p) PROVE ChannelIffCounted'
  <2> SUFFICES ASSUME NEW q \in Projects PROVE q \in channel' <=> counts'[q] > 0
    BY DEF ChannelIffCounted
  <2>1. q \in channel <=> counts[q] > 0
    BY DEF ChannelIffCounted
  <2>2. counts[q] \in Nat
    BY MaxCountAssumption DEF TypeOK, ManagerTypeOK
  <2>3. CASE q = p
    <3>1. counts'[q] = IF counts[q] > 0 THEN counts[q] - 1 ELSE 0
      BY <1>2, <2>3 DEF ManagerUnsubscribe, TypeOK, ManagerTypeOK
    <3>2. channel' = IF counts[q] = 1 THEN channel \ {q} ELSE channel
      BY <1>2, <2>3 DEF ManagerUnsubscribe, DropsChannel
    <3> QED BY <2>1, <2>2, <3>1, <3>2
  <2>4. CASE q # p
    BY <1>2, <2>1, <2>4 DEF ManagerUnsubscribe, TypeOK, ManagerTypeOK
  <2> QED BY <2>3, <2>4
<1>3. CASE UNCHANGED managerVars
  BY <1>3 DEF ChannelIffCounted, managerVars
<1>4. ASSUME NEW c \in Conns, Client(c) PROVE ChannelIffCounted'
  <2>1. CASE Connect(c) \/ HangUp(c) \/ Drains(c) \/ WaitsBehind(c)
    BY <1>3, <2>1 DEF Connect, HangUp, Drains, WaitsBehind, managerVars
  <2>2. ASSUME NEW p \in Projects, Subscribe(c, p) PROVE ChannelIffCounted'
    BY <1>1, <2>2 DEF Subscribe
  <2>3. ASSUME NEW p \in Projects, UnsubscribeShared(c, p) \/ UnsubscribeLast(c, p)
        PROVE  ChannelIffCounted'
    BY <1>2, <2>3 DEF UnsubscribeShared, UnsubscribeLast
  <2>4. ASSUME NEW p \in Projects, Crosses(c, p) PROVE ChannelIffCounted'
    BY <1>3, <2>4 DEF Crosses, managerVars
  <2> QED BY <1>4, <2>1, <2>2, <2>3, <2>4 DEF Client
<1>5. ASSUME NEW c \in Conns, Task(c) PROVE UNCHANGED managerVars
  <2>1. CASE Timer(c) \/ Eof(c) \/ DeliverFails(c) \/ RespondFails(c) \/ Responds(c)
    BY <2>1 DEF Timer, Eof, DeliverFails, RespondFails, Responds, TaskEnds, managerVars
  <2>2. ASSUME NEW p \in Projects, Takes(c, p) \/ FindEmpty(c, p) \/ Deliver(c, p)
        PROVE  UNCHANGED managerVars
    BY <2>2 DEF Takes, FindEmpty, Deliver, managerVars
  <2>3. ASSUME NEW p \in Projects, FindLagged(c, p) \/ FindClosed(c, p)
        PROVE  UNCHANGED managerVars
    BY <2>3 DEF FindLagged, FindClosed, managerVars
  <2> QED BY <1>5, <2>1, <2>2, <2>3 DEF Task, Poll, Write
<1>6. ASSUME NEW p \in Projects, Broadcast(p) PROVE UNCHANGED managerVars
  BY <1>6 DEF Broadcast, managerVars
<1>7. CASE UNCHANGED vars
  BY <1>3, <1>7 DEF vars, managerVars
<1> QED BY <1>3, <1>4, <1>5, <1>6, <1>7 DEF Next

(* subscribe and unsubscribe keep Inner.projects and Inner.counts in step, *)
(* whatever clients ask for: a channel exists exactly while it is counted. *)
THEOREM CountsMatchChannels == Spec => []ChannelIffCounted
BY InitType, StepType, InitCounted, StepCounted, PTL DEF Spec

-----------------------------------------------------------------------------
(* One receiver. *)

(* A task polls, and writes notifications of, receivers it still holds. *)
PollsHeld == \A c \in Conns : todo[c] \cup hand[c] \subseteq Held(c)

(* All a step can do to a receiver, to the notification of its project     *)
(* that is being written, and to what its client was written.              *)
Untouched(c, p) ==
  rx'[c][p] = rx[c][p] /\ got'[c][p] = got[c][p] /\ (p \in hand'[c] <=> p \in hand[c])

ReceiverStep(c, p) ==
  \/ Untouched(c, p)
  \/ rx'[c][p] = NoReceiver /\ got'[c][p] \in {got[c][p], {}} /\ p \notin hand'[c]
  \/ rx'[c][p] = FreshReceiver(p) /\ got'[c][p] = got[c][p] /\ p \notin hand'[c]
  \/ /\ rx'[c][p] = SenderDropped(rx[c][p], p) /\ got'[c][p] = got[c][p]
     /\ p \in hand'[c] <=> p \in hand[c]
  \/ /\ rx[c][p].st # "none" /\ HasMessage(c, p) /\ p \notin hand[c]
     /\ rx'[c][p] = [rx[c][p] EXCEPT !.next = rx[c][p].next + 1]
     /\ got'[c][p] = got[c][p] /\ p \in hand'[c]
  \/ /\ Lags(c, p) /\ p \notin hand[c]
     /\ rx'[c][p] = [rx[c][p] EXCEPT !.next = End(c, p) - Capacity + 1]
     /\ got'[c][p] = got[c][p] /\ p \notin hand'[c]
  \/ /\ p \in hand[c] /\ rx'[c][p] = rx[c][p]
     /\ got'[c][p] = got[c][p] \cup {InHand(c, p)} /\ p \notin hand'[c]

(* One step broadcasts or moves receivers, not both. *)
LEMMA ReceiverSteps ==
  ASSUME TypeOK, PollsHeld, Next, NEW d \in Conns, NEW q \in Projects
  PROVE  \/ published' = published /\ ReceiverStep(d, q)
         \/ /\ rx' = rx /\ got' = got /\ hand' = hand
            /\ published'[q] \in {published[q], published[q] + 1}
<1> DEFINE Goal == published' = published /\ ReceiverStep(d, q)
<1>1. ASSUME NEW c \in Conns, Connect(c) \/ HangUp(c) \/ Timer(c) PROVE Goal
  BY <1>1 DEF Connect, HangUp, Timer, writeVars, ReceiverStep, Untouched
<1>2. ASSUME NEW c \in Conns, Drains(c) \/ WaitsBehind(c) \/ Responds(c) PROVE Goal
  BY <1>2 DEF Drains, WaitsBehind, Responds, ReceiverStep, Untouched
<1>3. ASSUME NEW c \in Conns, NEW p \in Projects, Subscribe(c, p) PROVE Goal
  <2>1. published' = published /\ got' = got /\ hand' = hand /\ hand[c] = {}
    BY <1>3 DEF Subscribe, Answers, Waiting, Running
  <2>2. CASE d = c /\ q = p
    <3>1. rx'[d][q] = FreshReceiver(q)
      BY <1>3, <2>2 DEF Subscribe, TypeOK
    <3> QED BY <2>1, <2>2, <3>1 DEF ReceiverStep
  <2>3. CASE d # c \/ q # p
    <3>1. rx'[d][q] = rx[d][q]
      BY <1>3, <2>3 DEF Subscribe, TypeOK
    <3> QED BY <2>1, <3>1 DEF ReceiverStep, Untouched
  <2> QED BY <2>2, <2>3
<1>4. ASSUME NEW c \in Conns, NEW p \in Projects,
             UnsubscribeShared(c, p) \/ UnsubscribeLast(c, p)
      PROVE  Goal
  <2>1. published' = published /\ got' = got /\ hand' = hand /\ hand[c] = {}
    BY <1>4 DEF UnsubscribeShared, UnsubscribeLast, Answers, Waiting, Running
  <2>2. CASE d = c /\ q = p
    <3>1. rx'[d][q] = NoReceiver
      BY <1>4, <2>2 DEF UnsubscribeShared, UnsubscribeLast, TypeOK
    <3> QED BY <2>1, <2>2, <3>1 DEF ReceiverStep
  <2>3. CASE d # c \/ q # p
    <3>1. rx'[d][q] = rx[d][q] \/ rx'[d][q] = SenderDropped(rx[d][q], q)
      BY <1>4, <2>3 DEF UnsubscribeShared, UnsubscribeLast, TypeOK
    <3> QED BY <2>1, <3>1 DEF ReceiverStep, Untouched
  <2> QED BY <2>2, <2>3
<1>5. ASSUME NEW p \in Projects, Broadcast(p)
      PROVE  /\ rx' = rx /\ got' = got /\ hand' = hand
             /\ published'[q] \in {published[q], published[q] + 1}
  BY <1>5 DEF Broadcast, writeVars, TypeOK
<1>6. ASSUME NEW c \in Conns, NEW p \in Projects, Takes(c, p) PROVE Goal
  <2>1. published' = published /\ got' = got /\ hand[c] = {}
    BY <1>6 DEF Takes, Polling, Running
  <2>2. CASE d = c /\ q = p
    <3>1. rx[c][p].st # "none" /\ HasMessage(c, p)
      BY <1>6 DEF Takes, Polling, PollsHeld, Held
    <3>2. rx'[c][p] = [rx[c][p] EXCEPT !.next = rx[c][p].next + 1]
      BY <1>6 DEF Takes, TypeOK
    <3>3. p \in hand'[c]
      BY <1>6 DEF Takes, TypeOK
    <3> QED BY <2>1, <2>2, <3>1, <3>2, <3>3 DEF ReceiverStep
  <2>3. CASE d # c \/ q # p
    BY <1>6, <2>1, <2>3 DEF Takes, TypeOK, ReceiverStep, Untouched
  <2> QED BY <2>2, <2>3
<1>7. ASSUME NEW c \in Conns, TaskEnds(c) PROVE Goal
  <2>1. CASE d = c
    <3>1. rx'[d] = [r \in Projects |-> NoReceiver] /\ got'[d] = [r \in Projects |-> {}]
      BY <1>7, <2>1 DEF TypeOK, TaskEnds
    <3>2. hand'[d] = {}
      BY <1>7, <2>1 DEF TypeOK, TaskEnds
    <3> QED BY <1>7, <3>1, <3>2 DEF ReceiverStep, TaskEnds
  <2>2. CASE d # c
    BY <1>7, <2>2 DEF TypeOK, TaskEnds, ReceiverStep, Untouched
  <2> QED BY <2>1, <2>2
<1>8. ASSUME NEW c \in Conns, NEW p \in Projects, FindEmpty(c, p) \/ Crosses(c, p) PROVE Goal
  BY <1>8 DEF FindEmpty, Crosses, writeVars, ReceiverStep, Untouched
<1>9. ASSUME NEW c \in Conns, NEW p \in Projects, FindLagged(c, p) PROVE Goal
  <2>1. published' = published /\ got' = got /\ hand' = hand /\ hand[c] = {}
    BY <1>9 DEF FindLagged, Polling, Running, writeVars
  <2> QED BY <1>9, <2>1 DEF FindLagged, TypeOK, ReceiverStep, Untouched
<1>10. ASSUME NEW c \in Conns, NEW p \in Projects, FindClosed(c, p) PROVE Goal
  <2>1. published' = published /\ got' = got /\ hand' = hand /\ hand[c] = {}
    BY <1>10 DEF FindClosed, Polling, Running, writeVars
  <2> QED BY <1>10, <2>1 DEF FindClosed, TypeOK, ReceiverStep, Untouched
<1>11. ASSUME NEW c \in Conns, Eof(c) \/ DeliverFails(c) \/ RespondFails(c) PROVE Goal
  BY <1>7, <1>11 DEF Eof, DeliverFails, RespondFails
<1>12. ASSUME NEW c \in Conns, NEW p \in Projects, Deliver(c, p) PROVE Goal
  BY <1>12 DEF Deliver, TypeOK, ReceiverStep, Untouched
<1> QED
  BY <1>1, <1>2, <1>3, <1>4, <1>5, <1>6, <1>8, <1>9, <1>10, <1>11, <1>12
  DEF Next, Client, Task, Poll, Write

(* Each step keeps it: the receivers a task has yet to poll or to write of *)
(* are among those it holds.                                               *)
LEMMA StepPolls == TypeOK /\ PollsHeld /\ [Next]_vars => PollsHeld'
<1> SUFFICES ASSUME TypeOK, PollsHeld, [Next]_vars, NEW d \in Conns
             PROVE  todo'[d] \cup hand'[d] \subseteq Held(d)'
  BY DEF PollsHeld
<1> DEFINE Goal == todo'[d] \cup hand'[d] \subseteq Held(d)'
<1>1. todo[d] \subseteq Held(d) /\ hand[d] \subseteq Held(d)
  BY DEF PollsHeld
<1>2. ASSUME NEW c \in Conns, Connect(c) \/ HangUp(c) \/ Drains(c) \/ WaitsBehind(c) PROVE Goal
  BY <1>1, <1>2 DEF Connect, HangUp, Drains, WaitsBehind, writeVars, Held
<1>3. ASSUME NEW c \in Conns, NEW p \in Projects, Subscribe(c, p) PROVE Goal
  <2>1. todo' = todo /\ hand' = hand
    BY <1>3 DEF Subscribe, Answers
  <2>2. ASSUME NEW q \in Projects, rx[d][q].st # "none" PROVE rx'[d][q].st # "none"
    BY <1>3, <2>2 DEF Subscribe, FreshReceiver, TypeOK
  <2> QED BY <1>1, <2>1, <2>2 DEF Held
<1>4. ASSUME NEW c \in Conns, NEW p \in Projects,
             UnsubscribeShared(c, p) \/ UnsubscribeLast(c, p)
      PROVE  Goal
  <2>1. todo' = todo /\ hand' = hand /\ todo[c] = {} /\ hand[c] = {}
    BY <1>4 DEF UnsubscribeShared, UnsubscribeLast, Answers, Waiting, Running
  <2>2. CASE d = c
    BY <2>1, <2>2
  <2>3. CASE d # c
    <3>1. rx[d] \in [Projects -> Receiver]
      BY DEF TypeOK
    <3>2. ASSUME NEW q \in Projects, rx[d][q].st # "none" PROVE rx'[d][q].st # "none"
      <4>1. rx'[d][q] = rx[d][q] \/ rx'[d][q] = SenderDropped(rx[d][q], p)
        BY <1>4, <2>3 DEF UnsubscribeShared, UnsubscribeLast, TypeOK
      <4> QED BY <3>1, <3>2, <4>1 DEF SenderDropped, Receiver
    <3> QED BY <1>1, <2>1, <3>2 DEF Held
  <2> QED BY <2>2, <2>3
<1>5. ASSUME NEW c \in Conns, NEW p \in Projects, Crosses(c, p) \/ FindEmpty(c, p) PROVE Goal
  BY <1>1, <1>5 DEF Crosses, FindEmpty, writeVars, Held, TypeOK
<1>6. ASSUME NEW p \in Projects, Broadcast(p) PROVE Goal
  BY <1>1, <1>6 DEF Broadcast, writeVars, Held
<1>7. ASSUME NEW c \in Conns, NEW p \in Projects, Takes(c, p) \/ FindLagged(c, p) PROVE Goal
  <2>1. todo'[d] \subseteq todo[d] /\ hand'[d] \subseteq hand[d] \cup todo[d]
    <3>1. CASE Takes(c, p)
      BY <3>1 DEF Takes, Polling, TypeOK
    <3>2. CASE FindLagged(c, p)
      BY <3>2 DEF FindLagged, writeVars, TypeOK
    <3> QED BY <1>7, <3>1, <3>2
  <2>2. ASSUME NEW q \in Projects PROVE rx'[d][q].st = rx[d][q].st
    <3>1. CASE d # c \/ q # p
      BY <1>7, <3>1 DEF Takes, FindLagged, TypeOK
    <3>2. CASE d = c /\ q = p
      <4>1. \/ rx'[c][p] = [rx[c][p] EXCEPT !.next = rx[c][p].next + 1]
            \/ rx'[c][p] = [rx[c][p] EXCEPT !.next = End(c, p) - Capacity + 1]
        <5>1. CASE Takes(c, p)
          BY <5>1 DEF Takes, TypeOK
        <5>2. CASE FindLagged(c, p)
          BY <5>2 DEF FindLagged, TypeOK
        <5> QED BY <1>7, <5>1, <5>2
      <4>2. rx[c][p] \in Receiver
        BY DEF TypeOK
      <4> QED BY <3>2, <4>1, <4>2 DEF Receiver
    <3> QED BY <3>1, <3>2
  <2> QED BY <1>1, <2>1, <2>2 DEF Held
<1>8. ASSUME NEW c \in Conns, NEW p \in Projects, FindClosed(c, p) PROVE Goal
  <2>1. hand' = hand /\ hand[c] = {}
    BY <1>8 DEF FindClosed, Polling, Running, writeVars
  <2>2. CASE d = c
    <3>1. todo'[c] = Held(c) \ {p} /\ rx'[c] = [rx[c] EXCEPT ![p] = NoReceiver]
      BY <1>8 DEF FindClosed, TypeOK
    <3> QED BY <2>1, <2>2, <3>1 DEF Held, TypeOK
  <2>3. CASE d # c
    BY <1>1, <1>8, <2>1, <2>3 DEF FindClosed, Held, TypeOK
  <2> QED BY <2>2, <2>3
<1>9. ASSUME NEW c \in Conns, NEW p \in Projects, Deliver(c, p) PROVE Goal
  BY <1>1, <1>9 DEF Deliver, Held, TypeOK
<1>10. ASSUME NEW c \in Conns, TaskEnds(c) PROVE Goal
  BY <1>1, <1>10 DEF TaskEnds, TypeOK, Held
<1>11. ASSUME NEW c \in Conns, Eof(c) \/ DeliverFails(c) \/ RespondFails(c) PROVE Goal
  BY <1>10, <1>11 DEF Eof, DeliverFails, RespondFails
<1>12. ASSUME NEW c \in Conns, Timer(c) PROVE Goal
  BY <1>1, <1>12 DEF Timer, writeVars, Held, TypeOK
<1>13. ASSUME NEW c \in Conns, Responds(c) PROVE Goal
  BY <1>1, <1>13 DEF Responds, Held, TypeOK
<1>14. CASE UNCHANGED vars
  BY <1>1, <1>14 DEF vars, Held
<1> QED
  BY <1>2, <1>3, <1>4, <1>5, <1>6, <1>7, <1>8, <1>9, <1>11, <1>12, <1>13, <1>14
  DEF Next, Client, Task, Poll, Write

-----------------------------------------------------------------------------
(* Nothing retained is lost. *)

(* There is nothing to lose before the first broadcast. *)
LEMMA InitLost == Init => LostOnlyToLag /\ PollsHeld
<1> SUFFICES ASSUME Init PROVE LostOnlyToLag /\ PollsHeld
  OBVIOUS
<1>1. ASSUME NEW c \in Conns PROVE todo[c] = {} /\ hand[c] = {}
  BY DEF Init
<1>2. ASSUME NEW c \in Conns, NEW p \in Projects PROVE rx[c][p].st = "none"
  BY DEF Init, NoReceiver
<1> QED BY <1>1, <1>2 DEF LostOnlyToLag, PollsHeld

(* Each step keeps it: a receiver passes over a broadcast only to have it  *)
(* written, or when the ring no longer has it.                             *)
LEMMA StepLost ==
  TypeOK /\ PollsHeld /\ LostOnlyToLag /\ [Next]_vars => LostOnlyToLag'
<1> SUFFICES ASSUME TypeOK, PollsHeld, LostOnlyToLag, [Next]_vars,
                    NEW c \in Conns, NEW p \in Projects, (rx[c][p].st # "none")',
                    NEW n \in (rx[c][p].from .. rx[c][p].next - 1)'
             PROVE  (\/ n \in got[c][p]
                     \/ p \in hand[c] /\ n = InHand(c, p)
                     \/ n <= End(c, p) - Capacity)'
  BY DEF LostOnlyToLag
<1> DEFINE r == rx[c][p]
<1>1. r \in Receiver /\ published[p] \in Nat /\ End(c, p) \in Nat /\ Capacity \in Nat
  BY EndType, CapacityAssumption DEF TypeOK
<1>2. ASSUME r.st # "none", n \in r.from .. r.next - 1
      PROVE  \/ n \in got[c][p]
             \/ p \in hand[c] /\ n = InHand(c, p)
             \/ n <= End(c, p) - Capacity
  BY <1>2 DEF LostOnlyToLag
<1>3. CASE published' = published /\ ReceiverStep(c, p)
  <2>1. CASE Untouched(c, p)
    <3>1. End(c, p)' = End(c, p) /\ InHand(c, p)' = InHand(c, p)
      BY <1>3, <2>1 DEF End, InHand, Untouched
    <3> QED BY <1>2, <2>1, <3>1 DEF Untouched
  <2>2. CASE rx'[c][p] = NoReceiver
    BY <2>2 DEF NoReceiver
  <2>3. CASE rx'[c][p] = FreshReceiver(p)
    BY <1>1, <2>3 DEF FreshReceiver
  <2>4. CASE /\ rx'[c][p] = SenderDropped(r, p) /\ got'[c][p] = got[c][p]
             /\ p \in hand'[c] <=> p \in hand[c]
    <3>1. /\ rx'[c][p].st # "none" => r.st # "none"
          /\ rx'[c][p].from = r.from /\ rx'[c][p].next = r.next
          /\ End(c, p)' = End(c, p) /\ InHand(c, p)' = InHand(c, p)
      BY <1>1, <1>3, <2>4 DEF SenderDropped, Receiver, End, InHand
    <3> QED BY <1>2, <2>4, <3>1
  <2>5. CASE /\ rx'[c][p] = [r EXCEPT !.next = r.next + 1] /\ p \notin hand[c]
             /\ got'[c][p] = got[c][p] /\ p \in hand'[c]
    <3>1. /\ rx'[c][p].st = r.st /\ rx'[c][p].from = r.from
          /\ rx'[c][p].next = r.next + 1 /\ End(c, p)' = End(c, p)
      BY <1>1, <1>3, <2>5 DEF Receiver, End
    <3>2. n \in r.from .. r.next - 1 \/ n = r.next
      BY <1>1, <3>1 DEF Receiver
    <3>3. InHand(c, p)' = r.next
      BY <1>1, <3>1 DEF InHand, Receiver
    <3> QED BY <1>2, <2>5, <3>1, <3>2, <3>3
  <2>6. CASE /\ Lags(c, p)
             /\ rx'[c][p] = [r EXCEPT !.next = End(c, p) - Capacity + 1]
    <3>1. /\ rx'[c][p].st = r.st /\ rx'[c][p].from = r.from
          /\ rx'[c][p].next = End(c, p) - Capacity + 1 /\ End(c, p)' = End(c, p)
      BY <1>1, <1>3, <2>6 DEF Receiver, End
    <3> QED BY <1>1, <3>1 DEF Receiver
  <2>7. CASE rx'[c][p] = r /\ got'[c][p] = got[c][p] \cup {InHand(c, p)}
    <3>1. End(c, p)' = End(c, p)
      BY <1>3, <2>7 DEF End
    <3> QED BY <1>2, <2>7, <3>1
  <2> QED BY <1>3, <2>1, <2>2, <2>3, <2>4, <2>5, <2>6, <2>7 DEF ReceiverStep
<1>4. CASE /\ rx' = rx /\ got' = got /\ hand' = hand
           /\ published'[p] \in {published[p], published[p] + 1}
  <2>1. End(c, p)' \in Nat /\ End(c, p)' >= End(c, p) /\ InHand(c, p)' = InHand(c, p)
    BY <1>1, <1>4 DEF End, Receiver, InHand
  <2> QED BY <1>1, <1>2, <1>4, <2>1
<1>5. CASE UNCHANGED vars
  BY <1>2, <1>5 DEF vars, End, InHand
<1> QED BY <1>3, <1>4, <1>5, ReceiverSteps

(* Capacity newest broadcasts are never lost: what a connection's task has *)
(* passed over without writing it had been overwritten in the ring.  It    *)
(* holds whatever clients and the event loop do.                           *)
THEOREM OnlyLagLoses == Spec => []LostOnlyToLag
<1>1. TypeOK /\ PollsHeld /\ LostOnlyToLag /\ [Next]_vars
        => (TypeOK /\ PollsHeld /\ LostOnlyToLag)'
  BY StepType, StepPolls, StepLost
<1> QED BY <1>1, InitType, InitLost, PTL DEF Spec

-----------------------------------------------------------------------------
(* Order. *)

(* What was written lies behind the receiver, and behind any later one;    *)
(* what is being written was broadcast, and lies behind what was written.  *)
GotBehind ==
  \A c \in Conns, p \in Projects :
    /\ rx[c][p].st = "closed" => rx[c][p].tail <= published[p]
    /\ \A n \in got[c][p] :
         n <= published[p] /\ (rx[c][p].st # "none" => n < rx[c][p].next)
    /\ p \in hand[c] =>
         /\ InHand(c, p) <= published[p]
         /\ \A n \in got[c][p] : n < InHand(c, p)

(* Nothing was written before the first broadcast. *)
LEMMA InitBehind == Init => GotBehind
<1> SUFFICES ASSUME Init, NEW c \in Conns, NEW p \in Projects
             PROVE  rx[c][p].st = "none" /\ got[c][p] = {} /\ hand[c] = {}
  BY DEF GotBehind
<1> QED BY DEF Init, NoReceiver

(* A step of a receiver keeps what was written behind it.                  *)
LEMMA StepBehind ==
  ASSUME TypeOK, PollsHeld, GotBehind, Next, NEW c \in Conns, NEW p \in Projects
  PROVE  /\ (rx[c][p].st = "closed" => rx[c][p].tail <= published[p])'
         /\ (\A n \in got[c][p] :
               n <= published[p] /\ (rx[c][p].st # "none" => n < rx[c][p].next))'
         /\ (p \in hand[c] => /\ InHand(c, p) <= published[p]
                              /\ \A n \in got[c][p] : n < InHand(c, p))'
<1> DEFINE r == rx[c][p]
<1>1. /\ r \in Receiver /\ published[p] \in Nat /\ End(c, p) \in Nat
      /\ Capacity \in Nat /\ got[c][p] \subseteq Int
  BY EndType, CapacityAssumption DEF TypeOK
<1>2. /\ r.st = "closed" => r.tail <= published[p]
      /\ \A n \in got[c][p] : n <= published[p] /\ (r.st # "none" => n < r.next)
      /\ p \in hand[c] => /\ InHand(c, p) <= published[p]
                          /\ \A n \in got[c][p] : n < InHand(c, p)
  BY DEF GotBehind
<1>h. InHand(c, p) = r.next - 1 /\ InHand(c, p)' = rx'[c][p].next - 1 /\ r.next \in Nat
  BY <1>1 DEF InHand, Receiver
<1>3. CASE published' = published /\ ReceiverStep(c, p)
  <2>1. CASE Untouched(c, p)
    BY <1>2, <1>3, <1>h, <2>1 DEF Untouched
  <2>2. CASE rx'[c][p] = NoReceiver /\ got'[c][p] \in {got[c][p], {}} /\ p \notin hand'[c]
    BY <1>2, <1>3, <2>2 DEF NoReceiver
  <2>3. CASE rx'[c][p] = FreshReceiver(p) /\ got'[c][p] = got[c][p] /\ p \notin hand'[c]
    BY <1>1, <1>2, <1>3, <2>3 DEF FreshReceiver
  <2>4. CASE /\ rx'[c][p] = SenderDropped(r, p) /\ got'[c][p] = got[c][p]
             /\ p \in hand'[c] <=> p \in hand[c]
    <3>1. /\ rx'[c][p].next = r.next
          /\ rx'[c][p].st # "none" => r.st # "none"
          /\ rx'[c][p].st = "closed" => rx'[c][p].tail <= published[p]
      BY <1>1, <1>2, <2>4 DEF SenderDropped, Receiver
    <3> QED BY <1>2, <1>3, <1>h, <2>4, <3>1
  <2>5. CASE /\ r.st # "none" /\ HasMessage(c, p)
             /\ rx'[c][p] = [r EXCEPT !.next = r.next + 1]
             /\ got'[c][p] = got[c][p]
    <3>1. r.next <= published[p]
      BY <1>1, <1>2, <2>5 DEF HasMessage, End, Receiver
    <3>2. /\ rx'[c][p].st = r.st /\ rx'[c][p].tail = r.tail /\ rx'[c][p].next = r.next + 1
          /\ InHand(c, p)' = r.next
      BY <1>1, <1>h, <2>5 DEF Receiver
    <3> QED BY <1>1, <1>2, <1>3, <1>h, <2>5, <3>1, <3>2
  <2>6. CASE /\ Lags(c, p) /\ p \notin hand'[c]
             /\ rx'[c][p] = [r EXCEPT !.next = End(c, p) - Capacity + 1]
             /\ got'[c][p] = got[c][p]
    <3>1. /\ rx'[c][p].st = r.st /\ rx'[c][p].tail = r.tail
          /\ rx'[c][p].next > r.next /\ rx'[c][p].next \in Int /\ r.next \in Nat
      BY <1>1, <2>6 DEF Receiver, Lags
    <3> QED BY <1>1, <1>2, <1>3, <2>6, <3>1
  <2>7. CASE /\ p \in hand[c] /\ rx'[c][p] = r /\ p \notin hand'[c]
             /\ got'[c][p] = got[c][p] \cup {InHand(c, p)}
    BY <1>1, <1>2, <1>3, <1>h, <2>7
  <2> QED BY <1>3, <2>1, <2>2, <2>3, <2>4, <2>5, <2>6, <2>7 DEF ReceiverStep
<1>4. CASE /\ rx' = rx /\ got' = got /\ hand' = hand
           /\ published'[p] \in {published[p], published[p] + 1}
  <2>1. r.tail \in Nat
    BY <1>1 DEF Receiver
  <2> QED BY <1>1, <1>2, <1>4, <1>h, <2>1
<1> QED BY <1>3, <1>4, ReceiverSteps

(* All of what was written lies behind, after any step.                    *)
LEMMA StepAllBehind ==
  TypeOK /\ PollsHeld /\ GotBehind /\ [Next]_vars => GotBehind'
<1> SUFFICES ASSUME TypeOK, PollsHeld, GotBehind, [Next]_vars PROVE GotBehind'
  OBVIOUS
<1>1. CASE Next
  BY <1>1, StepBehind DEF GotBehind
<1>2. CASE UNCHANGED vars
  BY <1>2 DEF vars, GotBehind, InHand
<1> QED BY <1>1, <1>2

(* Each connection's task writes a project's broadcasts in the order they  *)
(* were made and none twice, across re-subscriptions, lags and channels    *)
(* that are dropped and created again.                                     *)
THEOREM WrittenInOrder == Spec => InOrderOnce
<1> DEFINE Inv == TypeOK /\ PollsHeld /\ GotBehind
           Ordered == \A c \in Conns, p \in Projects :
                        Deliver(c, p) => \A m \in got[c][p] : m < InHand(c, p)
<1>1. Init => Inv
  BY InitType, InitLost, InitBehind
<1>2. Inv /\ [Next]_vars => Inv'
  BY StepType, StepPolls, StepAllBehind
<1>3. Inv => Ordered
  BY DEF Deliver, GotBehind
<1> QED BY <1>1, <1>2, <1>3, PTL DEF Spec, InOrderOnce

=============================================================================
