------------------------ MODULE SubscriptionsDiscipline ------------------------
(***************************************************************************)
(* What holds when every client unsubscribes only from what it subscribed  *)
(* to: the shared counts and channels then serve all of them correctly.    *)
(***************************************************************************)
EXTENDS SubscriptionsProofs

Holders(p) == {c \in Conns : rx[c][p].st = "open"}

(* Nobody holds a receiver of a dropped channel, and a client holds        *)
(* exactly the receivers it was told of.                                   *)
ToldIsHeld ==
  \A c \in Conns, p \in Projects :
    rx[c][p].st \in {"none", "open"} /\ (p \in told[c] <=> rx[c][p].st = "open")

Disciplined == ToldIsHeld /\ CountCoversReceivers

-----------------------------------------------------------------------------
(* Counting holders. *)

(* There are finitely many connections, so the holders of a receiver can   *)
(* be counted.                                                             *)
LEMMA HoldersFinite ==
  ASSUME NEW p \in Projects
  PROVE  IsFiniteSet(Holders(p)) /\ Cardinality(Holders(p)) \in Nat
<1>1. IsFiniteSet(Holders(p))
  BY ConnsAssumption, FS_Subset DEF Holders
<1> QED BY <1>1, FS_CardinalityType

(* With a count of one there is one holder. *)
LEMMA SoleHolder ==
  ASSUME TypeOK, CountCoversReceivers, NEW p \in Projects, counts[p] = 1,
         NEW c \in Holders(p), NEW d \in Holders(p)
  PROVE  c = d
<1> SUFFICES ASSUME c # d PROVE FALSE
  OBVIOUS
<1>1. IsFiniteSet({c}) /\ Cardinality({c}) = 1
  BY FS_Singleton
<1>2. IsFiniteSet({c} \cup {d}) /\ Cardinality({c} \cup {d}) = 2
  BY <1>1, FS_AddElement
<1>3. {c} \cup {d} \subseteq Holders(p)
  OBVIOUS
<1>4. Cardinality({c} \cup {d}) <= Cardinality(Holders(p))
  BY <1>3, HoldersFinite, FS_Subset
<1>5. Cardinality(Holders(p)) <= 1
  BY DEF CountCoversReceivers, Holders
<1> QED BY <1>2, <1>4, <1>5, HoldersFinite

(* While a connection holds a receiver of a project, its count is above zero. *)
LEMMA HolderIsCounted ==
  ASSUME TypeOK, CountCoversReceivers, NEW p \in Projects, NEW c \in Holders(p)
  PROVE  counts[p] > 0
<1>1. Cardinality(Holders(p)) # 0
  BY HoldersFinite, FS_EmptySet
<1>2. Cardinality(Holders(p)) <= counts[p] /\ counts[p] \in Int
  BY MaxCountAssumption DEF CountCoversReceivers, Holders, TypeOK, ManagerTypeOK
<1> QED BY <1>1, <1>2, HoldersFinite

(* The count may fall with its holders, or stay while they get fewer.      *)
LEMMA StillCovered ==
  ASSUME TypeOK, CountCoversReceivers, NEW p \in Projects, counts'[p] \in Int,
         \/ Holders(p)' \subseteq Holders(p) /\ counts'[p] >= counts[p]
         \/ \E c \in Conns : Holders(p)' \subseteq Holders(p) \cup {c} /\ counts'[p] = counts[p] + 1
         \/ \E c \in Holders(p) : Holders(p)' \subseteq Holders(p) \ {c} /\ counts'[p] = counts[p] - 1
  PROVE  Cardinality(Holders(p)') <= counts'[p]
<1>1. Cardinality(Holders(p)) <= counts[p] /\ counts[p] \in Int
  BY MaxCountAssumption DEF CountCoversReceivers, Holders, TypeOK, ManagerTypeOK
<1>2. CASE Holders(p)' \subseteq Holders(p) /\ counts'[p] >= counts[p]
  <2>1. Cardinality(Holders(p)') <= Cardinality(Holders(p)) /\ Cardinality(Holders(p)') \in Nat
    BY <1>2, HoldersFinite, FS_Subset, FS_CardinalityType
  <2> QED BY <1>1, <1>2, <2>1, HoldersFinite
<1>3. ASSUME NEW c \in Conns, Holders(p)' \subseteq Holders(p) \cup {c},
             counts'[p] = counts[p] + 1
      PROVE  Cardinality(Holders(p)') <= counts'[p]
  <2>1. /\ IsFiniteSet(Holders(p) \cup {c})
        /\ Cardinality(Holders(p) \cup {c}) <= Cardinality(Holders(p)) + 1
        /\ Cardinality(Holders(p) \cup {c}) \in Nat
    <3>1. Cardinality(Holders(p) \cup {c})
            = IF c \in Holders(p) THEN Cardinality(Holders(p)) ELSE Cardinality(Holders(p)) + 1
      BY HoldersFinite, FS_AddElement
    <3> QED BY <3>1, HoldersFinite, FS_AddElement
  <2>2. /\ Cardinality(Holders(p)') <= Cardinality(Holders(p) \cup {c})
        /\ Cardinality(Holders(p)') \in Nat
    BY <1>3, <2>1, FS_Subset, FS_CardinalityType
  <2> QED BY <1>1, <1>3, <2>1, <2>2, HoldersFinite
<1>4. ASSUME NEW c \in Holders(p), Holders(p)' \subseteq Holders(p) \ {c},
             counts'[p] = counts[p] - 1
      PROVE  Cardinality(Holders(p)') <= counts'[p]
  <2>1. /\ IsFiniteSet(Holders(p) \ {c})
        /\ Cardinality(Holders(p) \ {c}) = Cardinality(Holders(p)) - 1
    BY HoldersFinite, FS_RemoveElement
  <2>2. /\ Cardinality(Holders(p)') <= Cardinality(Holders(p) \ {c})
        /\ Cardinality(Holders(p)') \in Nat
    BY <1>4, <2>1, FS_Subset, FS_CardinalityType
  <2> QED BY <1>1, <1>4, <2>1, <2>2, HoldersFinite
<1> QED BY <1>2, <1>3, <1>4

-----------------------------------------------------------------------------
(* Steps. *)

(* No connection holds a receiver. *)
LEMMA InitDisciplined == Init => Disciplined
<1> SUFFICES ASSUME Init PROVE Disciplined
  OBVIOUS
<1>1. ASSUME NEW c \in Conns, NEW p \in Projects
      PROVE  rx[c][p].st = "none" /\ told[c] = {}
  BY DEF Init, NoReceiver
<1>2. ASSUME NEW p \in Projects PROVE Cardinality(Holders(p)) <= counts[p]
  <2>1. Holders(p) = {}
    BY <1>1 DEF Holders
  <2>2. counts[p] = 0
    BY DEF Init, ManagerInit
  <2> QED BY <2>1, <2>2, FS_EmptySet
<1> QED BY <1>1, <1>2 DEF Disciplined, ToldIsHeld, CountCoversReceivers, Holders

(* Nobody's receivers open or close. *)
LEMMA KeepsDiscipline ==
  ASSUME Disciplined, told' = told, counts' = counts,
         \A c \in Conns, p \in Projects : rx'[c][p].st = rx[c][p].st
  PROVE  Disciplined'
<1>1. ASSUME NEW p \in Projects PROVE Holders(p)' = Holders(p)
  BY DEF Holders
<1>2. CountCoversReceivers'
  BY <1>1 DEF Disciplined, CountCoversReceivers, Holders
<1> QED BY <1>2 DEF Disciplined, ToldIsHeld

(* A connection's task ends: it holds nothing any more.                    *)
LEMMA TaskEndsDisciplined ==
  ASSUME TypeOK, Disciplined, NEW c \in Conns, TaskEnds(c)
  PROVE  Disciplined'
<1>1. ASSUME NEW d \in Conns, NEW p \in Projects
      PROVE  IF d = c THEN rx'[d][p].st = "none" /\ told'[d] = {}
             ELSE rx'[d][p] = rx[d][p] /\ told'[d] = told[d]
  BY DEF TypeOK, TaskEnds, NoReceiver
<1>2. ASSUME NEW p \in Projects PROVE Cardinality(Holders(p)') <= counts'[p]
  <2>1. Holders(p)' \subseteq Holders(p)
    BY <1>1 DEF Holders
  <2>2. counts'[p] = counts[p] /\ counts[p] \in Int
    BY MaxCountAssumption DEF TaskEnds, TypeOK, ManagerTypeOK
  <2> QED BY <2>1, <2>2, StillCovered DEF Disciplined
<1> QED BY <1>1, <1>2 DEF Disciplined, ToldIsHeld, CountCoversReceivers, Holders

(* A connection keeps all but p of its receivers, or gains one on p.       *)
LEMMA AnsweredDisciplined ==
  ASSUME TypeOK, Disciplined, ManagerTypeOK', NEW c \in Conns, NEW p \in Projects,
         NEW x \in Receiver, NEW t \in SUBSET Projects,
         rx' = [rx EXCEPT ![c][p] = x],
         told' = [told EXCEPT ![c] = t],
         \A q \in Projects \ {p} : counts'[q] = counts[q],
         \/ x.st = "open" /\ t = told[c] \cup {p} /\ counts'[p] = counts[p] + 1
         \/ /\ x.st = "none" /\ t = told[c] \ {p}
            /\ c \in Holders(p) /\ counts'[p] = counts[p] - 1
  PROVE  Disciplined'
<1>1. ASSUME NEW d \in Conns, NEW q \in Projects
      PROVE  IF d = c /\ q = p THEN rx'[d][q] = x
             ELSE rx'[d][q] = rx[d][q] /\ (q \in told'[d] <=> q \in told[d])
  BY DEF TypeOK
<1>2. ToldIsHeld'
  <2> SUFFICES ASSUME NEW d \in Conns, NEW q \in Projects
               PROVE  rx'[d][q].st \in {"none", "open"} /\ (q \in told'[d] <=> rx'[d][q].st = "open")
    BY DEF ToldIsHeld
  <2>1. CASE d = c /\ q = p
    BY <1>1, <2>1 DEF TypeOK
  <2>2. CASE ~(d = c /\ q = p)
    BY <1>1, <2>2 DEF Disciplined, ToldIsHeld
  <2> QED BY <2>1, <2>2
<1>3. ASSUME NEW q \in Projects PROVE Cardinality(Holders(q)') <= counts'[q]
  <2>1. counts'[q] \in Int /\ counts[q] \in Int
    BY MaxCountAssumption DEF TypeOK, ManagerTypeOK
  <2>2. CASE q # p
    <3>1. Holders(q)' \subseteq Holders(q)
      BY <1>1, <2>2 DEF Holders
    <3> QED BY <2>1, <2>2, <3>1, StillCovered DEF Disciplined
  <2>3. CASE q = p /\ x.st = "open"
    <3>1. Holders(q)' \subseteq Holders(q) \cup {c}
      BY <1>1, <2>3 DEF Holders
    <3> QED BY <2>1, <2>3, <3>1, StillCovered DEF Disciplined
  <2>4. CASE q = p /\ x.st = "none"
    <3>1. Holders(q)' \subseteq Holders(q) \ {c}
      BY <1>1, <2>4 DEF Holders
    <3> QED BY <2>1, <2>4, <3>1, StillCovered DEF Disciplined
  <2> QED BY <2>2, <2>3, <2>4
<1> QED BY <1>2, <1>3 DEF Disciplined, CountCoversReceivers, Holders

(* An unsubscribe from what was subscribed to takes one from the count,    *)
(* and from no other.                                                      *)
LEMMA UnsubscribeCounts ==
  ASSUME TypeOK, Disciplined, NEW p \in Projects, NEW c \in Holders(p), ManagerUnsubscribe(p)
  PROVE  /\ counts'[p] = counts[p] - 1
         /\ \A q \in Projects \ {p} : counts'[q] = counts[q]
         /\ ManagerTypeOK'
<1>1. counts[p] > 0
  BY HolderIsCounted DEF Disciplined
<1>2. ManagerTypeOK'
  BY ManagerUnsubscribeType DEF TypeOK
<1> QED BY <1>1, <1>2 DEF ManagerUnsubscribe, TypeOK, ManagerTypeOK

(* Dropping a channel closes no other connection's receiver: the count of  *)
(* one was this client's own.                                              *)
LEMMA LastClosesNone ==
  ASSUME Undisciplined = {}, TypeOK, Disciplined,
         NEW c \in Conns, NEW p \in Projects, UnsubscribeLast(c, p)
  PROVE  p \in told[c] /\ rx' = [rx EXCEPT ![c][p] = NoReceiver]
<1>1. p \in told[c] /\ counts[p] = 1
  BY DEF UnsubscribeLast, MayUnsubscribe, DropsChannel
<1>2. c \in Holders(p)
  BY <1>1 DEF Disciplined, ToldIsHeld, Holders
<1>3. ASSUME NEW d \in Conns, d # c PROVE [rx[d] EXCEPT ![p] = SenderDropped(@, p)] = rx[d]
  <2>1. rx[d][p].st # "open"
    BY <1>1, <1>2, <1>3, SoleHolder DEF Disciplined, Holders
  <2>2. SenderDropped(rx[d][p], p) = rx[d][p]
    BY <2>1 DEF SenderDropped
  <2> QED BY <2>2 DEF TypeOK
<1>4. rx' = [rx EXCEPT ![c] = [rx[c] EXCEPT ![p] = NoReceiver]]
  <2>1. \A d \in Conns :
          rx'[d] = IF d = c THEN [rx[c] EXCEPT ![p] = NoReceiver] ELSE rx[d]
    BY <1>3 DEF UnsubscribeLast
  <2>2. rx' = [d \in Conns |-> rx'[d]]
    BY DEF UnsubscribeLast
  <2> QED BY <2>1, <2>2 DEF TypeOK
<1> QED BY <1>1, <1>4

(* Every step of clients, tasks and the event loop.                        *)
LEMMA StepDisciplined ==
  ASSUME Undisciplined = {}, TypeOK, PollsHeld, Disciplined, [Next]_vars
  PROVE  Disciplined'
<1>1. ASSUME NEW c \in Conns, Connect(c) \/ HangUp(c) \/ Drains(c) \/ Timer(c) \/ Responds(c)
      PROVE  Disciplined'
  <2>1. told' = told /\ counts' = counts /\ rx' = rx
    BY <1>1 DEF Connect, HangUp, Drains, Timer, Responds
  <2> QED BY <2>1, KeepsDiscipline
<1>2. ASSUME NEW c \in Conns, NEW p \in Projects, Subscribe(c, p) PROVE Disciplined'
  <2>1. ManagerTypeOK'
    BY <1>2, ManagerSubscribeType DEF TypeOK, Subscribe
  <2>2. counts'[p] = counts[p] + 1 /\ \A q \in Projects \ {p} : counts'[q] = counts[q]
    BY <1>2 DEF Subscribe, ManagerSubscribe, TypeOK, ManagerTypeOK
  <2>3. FreshReceiver(p).st = "open" /\ told[c] \cup {p} \in SUBSET Projects
    BY DEF FreshReceiver, TypeOK
  <2>4. /\ rx' = [rx EXCEPT ![c][p] = FreshReceiver(p)]
        /\ told' = [told EXCEPT ![c] = told[c] \cup {p}]
    BY <1>2 DEF Subscribe, Answers
  <2> QED BY <2>1, <2>2, <2>3, <2>4, FreshType, AnsweredDisciplined
<1>3. ASSUME NEW c \in Conns, NEW p \in Projects, p \in told[c], ManagerUnsubscribe(p),
             rx' = [rx EXCEPT ![c][p] = NoReceiver], Answers(c, told[c] \ {p})
      PROVE  Disciplined'
  <2>1. c \in Holders(p)
    BY <1>3 DEF Disciplined, ToldIsHeld, Holders
  <2>2. /\ counts'[p] = counts[p] - 1 /\ ManagerTypeOK'
        /\ \A q \in Projects \ {p} : counts'[q] = counts[q]
    BY <1>3, <2>1, UnsubscribeCounts
  <2>3. NoReceiver.st = "none" /\ NoReceiver \in Receiver
    BY NoReceiverType DEF NoReceiver
  <2>4. told[c] \ {p} \in SUBSET Projects /\ told' = [told EXCEPT ![c] = told[c] \ {p}]
    BY <1>3 DEF TypeOK, Answers
  <2> QED BY <1>3, <2>1, <2>2, <2>3, <2>4, AnsweredDisciplined
<1>4. ASSUME NEW c \in Conns, NEW p \in Projects, UnsubscribeShared(c, p) PROVE Disciplined'
  BY <1>3, <1>4, Undisciplined = {} DEF UnsubscribeShared, MayUnsubscribe
<1>5. ASSUME NEW c \in Conns, NEW p \in Projects, UnsubscribeLast(c, p) PROVE Disciplined'
  <2>1. ManagerUnsubscribe(p) /\ Answers(c, told[c] \ {p})
    BY <1>5 DEF UnsubscribeLast
  <2> QED BY <1>3, <1>5, <2>1, LastClosesNone
<1>6. ASSUME NEW p \in Projects, Broadcast(p) PROVE Disciplined'
  BY <1>6, KeepsDiscipline DEF Broadcast
<1>7. ASSUME NEW c \in Conns, NEW p \in Projects, Takes(c, p) PROVE Disciplined'
  <2>1. ASSUME NEW d \in Conns, NEW q \in Projects PROVE rx'[d][q].st = rx[d][q].st
    <3>1. CASE d = c /\ q = p
      <4>1. rx'[d][q] = [rx[c][p] EXCEPT !.next = rx[c][p].next + 1]
        BY <1>7, <3>1 DEF Takes, TypeOK
      <4>2. rx[c][p] \in Receiver
        BY DEF TypeOK
      <4> QED BY <3>1, <4>1, <4>2 DEF Receiver
    <3>2. CASE d # c \/ q # p
      BY <1>7, <3>2 DEF Takes, TypeOK
    <3> QED BY <3>1, <3>2
  <2> QED BY <1>7, <2>1, KeepsDiscipline DEF Takes
<1>8. ASSUME NEW c \in Conns, NEW p \in Projects, FindLagged(c, p) PROVE Disciplined'
  <2>1. ASSUME NEW d \in Conns, NEW q \in Projects PROVE rx'[d][q].st = rx[d][q].st
    <3>1. CASE d = c /\ q = p
      <4>1. rx'[d][q] = [rx[c][p] EXCEPT !.next = End(c, p) - Capacity + 1]
        BY <1>8, <3>1 DEF FindLagged, TypeOK
      <4> QED BY <3>1, <4>1 DEF TypeOK, Receiver
    <3>2. CASE d # c \/ q # p
      BY <1>8, <3>2 DEF FindLagged, TypeOK
    <3> QED BY <3>1, <3>2
  <2> QED BY <1>8, <2>1, KeepsDiscipline DEF FindLagged
<1>9. ASSUME NEW c \in Conns, NEW p \in Projects,
             FindEmpty(c, p) \/ Deliver(c, p) \/ Crosses(c, p)
      PROVE  Disciplined'
  <2>1. told' = told /\ counts' = counts /\ rx' = rx
    BY <1>9 DEF FindEmpty, Deliver, Crosses
  <2> QED BY <2>1, KeepsDiscipline
<1>10. ASSUME NEW c \in Conns, NEW p \in Projects, FindClosed(c, p) PROVE FALSE
  BY <1>10 DEF FindClosed, Disciplined, ToldIsHeld
<1>11. ASSUME NEW c \in Conns, Eof(c) \/ DeliverFails(c) \/ RespondFails(c)
       PROVE  Disciplined'
  BY <1>11, TaskEndsDisciplined DEF Eof, DeliverFails, RespondFails
<1>12. ASSUME NEW c \in Conns, WaitsBehind(c) PROVE Disciplined'
  BY <1>12, KeepsDiscipline DEF WaitsBehind
<1>13. CASE UNCHANGED vars
  BY <1>13, KeepsDiscipline DEF vars
<1> QED
  BY <1>1, <1>2, <1>4, <1>5, <1>6, <1>7, <1>8, <1>9, <1>10, <1>11, <1>12, <1>13
  DEF Next, Client, Task, Poll, Write

-----------------------------------------------------------------------------
(* The invariant the two theorems below are read off from. *)
LEMMA DisciplineHolds ==
  Undisciplined = {} => (Spec => [](TypeOK /\ ChannelIffCounted /\ Disciplined))
<1> DEFINE Inv ==
  Undisciplined = {} /\ TypeOK /\ PollsHeld /\ ChannelIffCounted /\ Disciplined
<1>1. Undisciplined = {} /\ Init => Inv
  BY InitType, InitLost, InitCounted, InitDisciplined
<1>2. Inv /\ [Next]_vars => Inv'
  BY StepType, StepPolls, StepCounted, StepDisciplined
<1>3. Inv => TypeOK /\ ChannelIffCounted /\ Disciplined
  OBVIOUS
<1> QED BY <1>1, <1>2, <1>3, PTL DEF Spec

(* With disciplined clients no unsubscribe drops a channel another client  *)
(* reads: the count of a project covers the receivers open on it.          *)
THEOREM CountsCover == Undisciplined = {} => (Spec => []CountCoversReceivers)
BY DisciplineHolds, PTL DEF Disciplined

(* ... so that every client that was told it is subscribed has a receiver  *)
(* on the project's live channel until it unsubscribes or goes away.       *)
THEOREM Attached == Undisciplined = {} => (Spec => []SubscribersAttached)
<1>1. TypeOK /\ ChannelIffCounted /\ Disciplined => SubscribersAttached
  <2> SUFFICES ASSUME TypeOK, ChannelIffCounted, Disciplined,
                      NEW c \in Conns, NEW p \in Projects, p \in told[c]
               PROVE  rx[c][p].st = "open" /\ p \in channel
    BY DEF SubscribersAttached
  <2>1. rx[c][p].st = "open"
    BY DEF Disciplined, ToldIsHeld
  <2>2. counts[p] > 0
    BY <2>1, HolderIsCounted DEF Holders, Disciplined
  <2> QED BY <2>1, <2>2 DEF ChannelIffCounted
<1> QED BY <1>1, DisciplineHolds, PTL

-----------------------------------------------------------------------------
(* Publish/subscribe: membership is what the client was told, a member's   *)
(* cursor the last broadcast its task has read and written.                *)

Cursor(c, p) ==
  IF p \notin told[c] THEN 0
  ELSE IF p \in hand[c] THEN rx[c][p].next - 2
  ELSE rx[c][p].next - 1

Cursors == [c \in Conns |-> [p \in Projects |-> Cursor(c, p)]]

(* Two steps' cursors agree but where a connection reads one project ...   *)
LEMMA OneCursorMoves ==
  ASSUME NEW c \in Conns, NEW p \in Projects, NEW v, Cursor(c, p)' = v,
         \A d \in Conns, q \in Projects : d # c \/ q # p => Cursor(d, q)' = Cursor(d, q)
  PROVE  Cursors' = [Cursors EXCEPT ![c][p] = v]
<1>2. Cursors' = [d \in Conns |-> [q \in Projects |-> Cursor(d, q)']]
  BY DEF Cursors
<1>3. [Cursors EXCEPT ![c][p] = v]
        = [d \in Conns |-> [q \in Projects |-> IF d = c /\ q = p THEN v ELSE Cursor(d, q)]]
  BY DEF Cursors
<1>4. ASSUME NEW d \in Conns
      PROVE  [q \in Projects |-> Cursor(d, q)']
               = [q \in Projects |-> IF d = c /\ q = p THEN v ELSE Cursor(d, q)]
  OBVIOUS
<1> HIDE DEF Cursor
<1> QED BY <1>2, <1>3, <1>4

(* ... or ends with all of its own at zero.                                *)
LEMMA CursorsOfOneGo ==
  ASSUME NEW c \in Conns, \A q \in Projects : Cursor(c, q)' = 0,
         \A d \in Conns \ {c}, q \in Projects : Cursor(d, q)' = Cursor(d, q)
  PROVE  Cursors' = [Cursors EXCEPT ![c] = [q \in Projects |-> 0]]
<1>1. ASSUME NEW d \in Conns
      PROVE  [q \in Projects |-> Cursor(d, q)']
               = [Cursors EXCEPT ![c] = [q \in Projects |-> 0]][d]
  BY DEF Cursors
<1>2. Cursors' = [d \in Conns |-> [q \in Projects |-> Cursor(d, q)']]
  BY DEF Cursors
<1> QED BY <1>1, <1>2 DEF Cursors

(* A task that returns takes its client out of every project.              *)
LEMMA EndIsGoAway ==
  ASSUME TypeOK, NEW c \in Conns, TaskEnds(c)
  PROVE  PS!GoAway(c)
<1>1. told' = [told EXCEPT ![c] = {}] /\ got' = [got EXCEPT ![c] = PS!Nothing]
  BY DEF TaskEnds, PS!Nothing
<1>2. \A q \in Projects : Cursor(c, q)' = 0
  BY <1>1 DEF Cursor, TypeOK
<1>3. ASSUME NEW d \in Conns \ {c}, NEW q \in Projects PROVE Cursor(d, q)' = Cursor(d, q)
  <2>1. told'[d] = told[d] /\ hand'[d] = hand[d] /\ rx'[d] = rx[d]
    BY DEF TaskEnds, TypeOK
  <2> QED BY <2>1 DEF Cursor
<1>4. Cursors' = [Cursors EXCEPT ![c] = [q \in Projects |-> 0]]
  BY <1>2, <1>3, CursorsOfOneGo
<1> QED BY <1>1, <1>4 DEF PS!GoAway, Cursors, Cursor, TaskEnds

(* A request on one project: its answer makes the client a member of the   *)
(* project or ends its membership.                                         *)
LEMMA RequestMaps ==
  ASSUME TypeOK, NEW c \in Conns, NEW p \in Projects, NEW x \in Receiver,
         NEW t \in SUBSET Projects, Waiting(c), Answers(c, t),
         rx' = [rx EXCEPT ![c][p] = x],
         \/ t = told[c] \cup {p} /\ x = FreshReceiver(p)
         \/ t = told[c] \ {p}
  PROVE  PS!Join(c, p) \/ PS!Leave(c, p)
<1>1. /\ published' = published /\ got' = got /\ hand' = hand /\ hand[c] = {}
      /\ told' = [told EXCEPT ![c] = t]
  BY DEF Answers, Waiting, Running
<1>2. /\ rx'[c][p] = x /\ told'[c] = t
      /\ \A d \in Conns, q \in Projects : d # c \/ q # p =>
           rx'[d][q] = rx[d][q] /\ (q \in told'[d] <=> q \in told[d])
  BY <1>1 DEF TypeOK
<1>3. \A d \in Conns, q \in Projects : d # c \/ q # p => Cursor(d, q)' = Cursor(d, q)
  BY <1>1, <1>2 DEF Cursor
<1>4. CASE t = told[c] \cup {p} /\ x = FreshReceiver(p)
  <2>1. published[p] \in Nat
    BY DEF TypeOK
  <2>2. Cursor(c, p)' = published[p]
    BY <1>1, <1>2, <1>4, <2>1 DEF Cursor, FreshReceiver
  <2>3. Cursors' = [Cursors EXCEPT ![c][p] = published[p]]
    BY <1>3, <2>2, OneCursorMoves
  <2>4. told' = [told EXCEPT ![c] = told[c] \cup {p}]
    BY <1>1, <1>4
  <2> QED BY <1>1, <2>3, <2>4 DEF PS!Join, Cursors, Cursor
<1>5. CASE t = told[c] \ {p}
  <2>1. Cursor(c, p)' = 0
    BY <1>2, <1>5 DEF Cursor
  <2>2. Cursors' = [Cursors EXCEPT ![c][p] = 0]
    BY <1>3, <2>1, OneCursorMoves
  <2>3. told' = [told EXCEPT ![c] = told[c] \ {p}]
    BY <1>1, <1>5
  <2> QED BY <1>1, <2>2, <2>3 DEF PS!Leave, Cursors, Cursor
<1> QED BY <1>4, <1>5

(* Taking a notification is not seen: the member receives it when it has   *)
(* been written.                                                           *)
LEMMA TakeIsUnseen ==
  ASSUME TypeOK, NEW c \in Conns, NEW p \in Projects, Takes(c, p)
  PROVE  UNCHANGED PS!pubsubVars
<1>1. /\ published' = published /\ told' = told /\ got' = got
      /\ hand[c] = {} /\ hand' = [hand EXCEPT ![c] = {p}]
  BY DEF Takes, Polling, Running, TypeOK
<1>2. rx[c][p] \in Receiver /\ rx[c][p].next \in Nat
  BY DEF TypeOK, Receiver
<1>3. rx'[c][p].next = rx[c][p].next + 1
  BY <1>2 DEF Takes, TypeOK, Receiver
<1>4. \A d \in Conns, q \in Projects : d # c \/ q # p =>
        rx'[d][q] = rx[d][q] /\ (q \in hand'[d] <=> q \in hand[d])
  BY <1>1 DEF Takes, TypeOK
<1>5. ASSUME NEW d \in Conns, NEW q \in Projects PROVE Cursor(d, q)' = Cursor(d, q)
  <2>1. CASE d # c \/ q # p
    BY <1>1, <1>4, <2>1 DEF Cursor
  <2>2. CASE d = c /\ q = p
    <3>1. p \in hand'[c] /\ p \notin hand[c]
      BY <1>1 DEF TypeOK
    <3> QED BY <1>1, <1>2, <1>3, <2>2, <3>1 DEF Cursor
  <2> QED BY <2>1, <2>2
<1>6. Cursors' = Cursors
  BY <1>5 DEF Cursors
<1> QED BY <1>1, <1>6 DEF PS!pubsubVars, Cursors, Cursor

(* What the task has written is what the member receives.                  *)
LEMMA DeliverMaps ==
  ASSUME TypeOK, GotBehind, NEW c \in Conns, NEW p \in Projects, p \in told[c],
         Deliver(c, p)
  PROVE  PS!Receive(c, p)
<1>1. rx[c][p].next \in Nat /\ published[p] \in Nat /\ InHand(c, p) = rx[c][p].next - 1
  BY DEF TypeOK, Receiver, InHand
<1>2. /\ published' = published /\ told' = told /\ rx' = rx /\ p \in hand[c]
      /\ \A d \in Conns, q \in Projects :
           q \in hand'[d] <=> q \in hand[d] /\ ~(d = c /\ q = p)
  BY DEF Deliver, TypeOK
<1>3. Cursors[c][p] = rx[c][p].next - 2 /\ Cursor(c, p)' = rx[c][p].next - 1
  BY <1>2 DEF Cursor, Cursors
<1>4. \A d \in Conns, q \in Projects : d # c \/ q # p => Cursor(d, q)' = Cursor(d, q)
  BY <1>2 DEF Cursor
<1>5. Cursor(c, p)' = Cursors[c][p] + 1
  BY <1>1, <1>3
<1>6. Cursors' = [Cursors EXCEPT ![c][p] = Cursors[c][p] + 1]
  BY <1>4, <1>5, OneCursorMoves
<1>7. Cursors[c][p] < published[p]
  <2>1. InHand(c, p) <= published[p]
    BY <1>2 DEF GotBehind
  <2> QED BY <1>1, <1>3, <2>1
<1>8. got' = [got EXCEPT ![c][p] = got[c][p] \cup {Cursors[c][p] + 1}]
  <2>1. Cursors[c][p] + 1 = InHand(c, p)
    BY <1>1, <1>3
  <2> QED BY <2>1 DEF Deliver
<1> QED BY <1>2, <1>6, <1>7, <1>8 DEF PS!Receive, Cursors, Cursor

(* A lag passes over what has been displaced.                              *)
LEMMA LagMaps ==
  ASSUME TypeOK, NEW c \in Conns, NEW p \in Projects, p \in told[c],
         rx[c][p].st = "open", FindLagged(c, p)
  PROVE  PS!Miss(c, p)
<1>1. /\ rx[c][p] \in Receiver /\ rx[c][p].next \in Nat /\ published[p] \in Nat
      /\ Capacity \in Nat /\ End(c, p) = published[p]
  BY CapacityAssumption DEF TypeOK, Receiver, End
<1>2. /\ published' = published /\ told' = told /\ got' = got /\ hand' = hand
      /\ hand[c] = {} /\ Lags(c, p)
      /\ rx' = [rx EXCEPT ![c][p].next = published[p] - Capacity + 1]
  BY <1>1 DEF FindLagged, Polling, Running, writeVars
<1>3. \A d \in Conns, q \in Projects : d # c \/ q # p => Cursor(d, q)' = Cursor(d, q)
  <2>1. \A d \in Conns, q \in Projects : d # c \/ q # p => rx'[d][q] = rx[d][q]
    BY <1>2 DEF TypeOK
  <2> QED BY <1>2, <2>1 DEF Cursor
<1>4. rx'[c][p].next = published[p] - Capacity + 1
  BY <1>1, <1>2 DEF TypeOK, Receiver
<1>5. Cursor(c, p)' = published[p] - Capacity /\ Cursors[c][p] = rx[c][p].next - 1
  BY <1>1, <1>2, <1>4 DEF Cursor, Cursors
<1>6. Cursors' = [Cursors EXCEPT ![c][p] = published[p] - Capacity]
  BY <1>3, <1>5, OneCursorMoves
<1>7. Cursors[c][p] < published[p] - Capacity
  BY <1>1, <1>2, <1>5 DEF Lags
<1> QED BY <1>2, <1>6, <1>7 DEF PS!Miss, Cursors, Cursor

(* Every step of the connection tasks is a step of publish/subscribe, or   *)
(* none that it sees.                                                      *)
LEMMA StepMaps ==
  ASSUME Undisciplined = {}, TypeOK, PollsHeld, GotBehind, Disciplined, [Next]_vars
  PROVE  [PS!Next]_(PS!pubsubVars)
<1>s. ASSUME UNCHANGED <<published, told, rx, hand, got>> PROVE UNCHANGED PS!pubsubVars
  BY <1>s DEF PS!pubsubVars
<1>p. ASSUME NEW c \in Conns, NEW p \in todo[c] \cup hand[c]
      PROVE  p \in told[c] /\ rx[c][p].st = "open"
  <2>1. p \in Projects /\ rx[c][p].st # "none"
    BY <1>p DEF PollsHeld, Held
  <2> QED BY <2>1 DEF Disciplined, ToldIsHeld
<1>1. ASSUME NEW c \in Conns, Connect(c) \/ HangUp(c) \/ Drains(c) \/ WaitsBehind(c)
                              \/ Timer(c) \/ Responds(c)
      PROVE  UNCHANGED PS!pubsubVars
  <2>1. UNCHANGED <<published, told, rx, hand, got>>
    BY <1>1 DEF Connect, HangUp, Drains, WaitsBehind, Timer, Responds, writeVars
  <2> QED BY <2>1, <1>s
<1>2. ASSUME NEW c \in Conns, NEW p \in Projects, Subscribe(c, p) PROVE PS!Next
  <2>1. told[c] \cup {p} \in SUBSET Projects /\ FreshReceiver(p) \in Receiver
    BY FreshType DEF TypeOK
  <2>2. PS!Join(c, p) \/ PS!Leave(c, p)
    BY <1>2, <2>1, RequestMaps DEF Subscribe
  <2> QED BY <2>2 DEF PS!Next
<1>3. ASSUME NEW c \in Conns, NEW p \in Projects, Waiting(c), Answers(c, told[c] \ {p}),
             rx' = [rx EXCEPT ![c][p] = NoReceiver]
      PROVE  PS!Next
  <2>1. told[c] \ {p} \in SUBSET Projects /\ NoReceiver \in Receiver
    BY NoReceiverType DEF TypeOK
  <2>2. PS!Join(c, p) \/ PS!Leave(c, p)
    BY <1>3, <2>1, RequestMaps
  <2> QED BY <2>2 DEF PS!Next
<1>4. ASSUME NEW c \in Conns, NEW p \in Projects,
             UnsubscribeShared(c, p) \/ UnsubscribeLast(c, p)
      PROVE  PS!Next
  <2>1. CASE UnsubscribeShared(c, p)
    BY <1>3, <2>1 DEF UnsubscribeShared
  <2>2. CASE UnsubscribeLast(c, p)
    <3>1. Waiting(c) /\ Answers(c, told[c] \ {p})
      BY <2>2 DEF UnsubscribeLast
    <3> QED BY <1>3, <2>2, <3>1, LastClosesNone
  <2> QED BY <1>4, <2>1, <2>2
<1>5. ASSUME NEW p \in Projects, Broadcast(p) PROVE PS!Next
  <2>1. PS!Publish(p)
    BY <1>5 DEF Broadcast, writeVars, PS!Publish
  <2> QED BY <2>1 DEF PS!Next
<1>6. ASSUME NEW c \in Conns, NEW p \in Projects, Deliver(c, p) \/ FindLagged(c, p)
      PROVE  PS!Next
  <2>1. p \in told[c] /\ rx[c][p].st = "open"
    BY <1>6, <1>p DEF Deliver, FindLagged, Polling
  <2>2. PS!Receive(c, p) \/ PS!Miss(c, p)
    BY <1>6, <2>1, DeliverMaps, LagMaps
  <2> QED BY <2>2 DEF PS!Next
<1>7. ASSUME NEW c \in Conns, NEW p \in Projects,
             FindEmpty(c, p) \/ Takes(c, p) \/ Crosses(c, p)
      PROVE  UNCHANGED PS!pubsubVars
  <2>1. CASE FindEmpty(c, p) \/ Crosses(c, p)
    <3>1. UNCHANGED <<published, told, rx, hand, got>>
      BY <2>1 DEF FindEmpty, Crosses, writeVars
    <3> QED BY <3>1, <1>s
  <2> QED BY <1>7, <2>1, TakeIsUnseen
<1>8. ASSUME NEW c \in Conns, NEW p \in Projects, FindClosed(c, p) PROVE FALSE
  BY <1>8 DEF FindClosed, Disciplined, ToldIsHeld
<1>9. ASSUME NEW c \in Conns, Eof(c) \/ DeliverFails(c) \/ RespondFails(c)
      PROVE  PS!Next
  <2>1. PS!GoAway(c)
    BY <1>9, EndIsGoAway DEF Eof, DeliverFails, RespondFails
  <2> QED BY <2>1 DEF PS!Next
<1>10. CASE UNCHANGED vars
  BY <1>10, <1>s DEF vars
<1> QED
  BY <1>1, <1>2, <1>4, <1>5, <1>6, <1>7, <1>8, <1>9, <1>10
  DEF Next, Client, Task, Poll, Write

(* With disciplined clients, connection tasks, receivers, ring buffers and *)
(* shared counts implement publish/subscribe, for any number of clients,   *)
(* projects and broadcasts and any ring: the safety half of ServesMembers. *)
THEOREM ImplementsPubSub == Undisciplined = {} => (Spec => PS!Spec)
<1> DEFINE Inv == Undisciplined = {} /\ TypeOK /\ PollsHeld /\ GotBehind /\ Disciplined
<1>1. Init => PS!Init
  <2> SUFFICES ASSUME Init PROVE PS!Init
    OBVIOUS
  <2>1. \A c \in Conns, p \in Projects : Cursor(c, p) = 0
    BY DEF Init, Cursor
  <2>2. Cursors = [c \in Conns |-> [p \in Projects |-> 0]]
    BY <2>1 DEF Cursors
  <2> QED BY <2>2 DEF Init, PS!Init, PS!Nothing, Cursors, Cursor
<1>2. Undisciplined = {} /\ Init => Inv
  BY InitType, InitLost, InitBehind, InitDisciplined
<1>3. Inv /\ [Next]_vars => Inv'
  BY StepType, StepPolls, StepAllBehind, StepDisciplined
<1>4. Inv /\ [Next]_vars => [PS!Next]_(PS!pubsubVars)
  BY StepMaps
<1> QED BY <1>1, <1>2, <1>3, <1>4, PTL DEF Spec, PS!Spec

=============================================================================
