----------------------- MODULE SubscriptionLocksProofs -----------------------
(***************************************************************************)
(* For any connections and projects: under the two RwLocks each call of    *)
(* SubscriptionManager is one step to the others.                          *)
(***************************************************************************)
EXTENDS SubscriptionLocks, SequenceTheorems, TLAPS

-----------------------------------------------------------------------------
(* The locks. *)

(* A request goes to the back of the queue. *)
LEMMA AsksAtTheBack ==
  ASSUME NEW lock \in Seq(Request), NEW t \in Tasks, NEW m \in {"read", "write"}
  PROVE  /\ Asks(lock, t, m) \in Seq(Request)
         /\ lock # <<>> => Asks(lock, t, m)[1] = lock[1]
         /\ \A i \in 1 .. Len(Asks(lock, t, m)) :
              Asks(lock, t, m)[i] = [task |-> t, mode |-> m]
              \/ \E j \in 1 .. Len(lock) : Asks(lock, t, m)[i] = lock[j]
         /\ Asks(lock, t, m) # <<>>
         /\ lock = <<>> => Asks(lock, t, m)[1].task = t
<1> DEFINE r == [task |-> t, mode |-> m]
<1>1. r \in Request
  BY DEF Request
<1>2. /\ Append(lock, r) \in Seq(Request) /\ Append(lock, r) # <<>>
      /\ Len(Append(lock, r)) = Len(lock) + 1 /\ Len(lock) \in Nat
      /\ \A i \in 1 .. Len(lock) : Append(lock, r)[i] = lock[i]
      /\ Append(lock, r)[Len(lock) + 1] = r
  BY <1>1, AppendProperties, LenProperties
<1>3. lock # <<>> => Len(lock) >= 1
  BY <1>2, EmptySeq
<1>4. lock = <<>> => Len(lock) = 0
  OBVIOUS
<1> QED
  BY <1>2, <1>3, <1>4 DEF Asks

(* A release takes one request of the task out of the queue. *)
LEMMA ReleasesOne ==
  ASSUME NEW lock \in Seq(Request), NEW t, \E j \in 1 .. Len(lock) : lock[j].task = t
  PROVE  /\ Released(lock, t) \in Seq(Request)
         /\ \A i \in 1 .. Len(Released(lock, t)) :
              \E j \in 1 .. Len(lock) : Released(lock, t)[i] = lock[j]
<1> DEFINE k == CHOOSE j \in 1 .. Len(lock) : lock[j].task = t
           front == SubSeq(lock, 1, k - 1)
           back == SubSeq(lock, k + 1, Len(lock))
<1>1. k \in 1 .. Len(lock) /\ Len(lock) \in Nat
  BY LenProperties
<1>2. Released(lock, t) = front \o back
  BY DEF Released
<1> HIDE DEF k
<1>3. \A i \in 1 .. Len(lock) : lock[i] \in Request
  BY ElementOfSeq
<1>4. /\ front \in Seq(Request) /\ Len(front) = k - 1
      /\ \A i \in 1 .. k - 1 : front[i] = lock[i]
  <2>1. \A i \in 1 .. k - 1 : lock[i] \in Request
    BY <1>1, <1>3
  <2>2. /\ front \in Seq(Request) /\ Len(front) = IF 1 <= k - 1 THEN k - 1 - 1 + 1 ELSE 0
        /\ \A i \in 1 .. k - 1 - 1 + 1 : front[i] = lock[1 + i - 1]
    BY <1>1, <2>1, SubSeqProperties
  <2> QED
    BY <1>1, <2>2
<1>5. /\ back \in Seq(Request) /\ Len(back) = Len(lock) - k
      /\ \A i \in 1 .. Len(lock) - k : back[i] = lock[k + i]
  <2>1. \A i \in k + 1 .. Len(lock) : lock[i] \in Request
    BY <1>1, <1>3
  <2>2. /\ back \in Seq(Request)
        /\ Len(back) = IF k + 1 <= Len(lock) THEN Len(lock) - (k + 1) + 1 ELSE 0
        /\ \A i \in 1 .. Len(lock) - (k + 1) + 1 : back[i] = lock[k + 1 + i - 1]
    BY <1>1, <2>1, SubSeqProperties
  <2> QED
    BY <1>1, <2>2
<1> HIDE DEF front, back
<1>6. /\ front \o back \in Seq(Request) /\ Len(front \o back) = Len(front) + Len(back)
      /\ \A i \in 1 .. Len(front) + Len(back) :
           (front \o back)[i] = IF i <= Len(front) THEN front[i] ELSE back[i - Len(front)]
  BY <1>4, <1>5, ConcatProperties
<1>7. ASSUME NEW i \in 1 .. Len(front \o back)
      PROVE  \E j \in 1 .. Len(lock) : (front \o back)[i] = lock[j]
  <2>1. CASE i <= k - 1
    BY <1>1, <1>4, <1>5, <1>6, <2>1
  <2>2. CASE i > k - 1
    <3>1. i - (k - 1) \in 1 .. Len(lock) - k /\ (front \o back)[i] = back[i - (k - 1)]
      BY <1>1, <1>4, <1>5, <1>6, <2>2
    <3>2. k + (i - (k - 1)) \in 1 .. Len(lock)
      BY <1>1, <3>1
    <3> QED
      BY <1>5, <3>1, <3>2
  <2> QED
    BY <1>1, <2>1, <2>2, <1>6
<1> QED
  BY <1>2, <1>6, <1>7

(* Who is granted a lock has a request at it. *)
LEMMA GrantedAsked ==
  ASSUME NEW lock, NEW t, Granted(lock, t)
  PROVE  \E j \in 1 .. Len(lock) : lock[j].task = t
  BY DEF Granted

-----------------------------------------------------------------------------
(* Types. *)

(* No task holds or asks for a lock. *)
LEMMA TypesInit == Init => TypeOK
<1> SUFFICES ASSUME Init PROVE TypeOK
  OBVIOUS
<1>1. counts \in [Projects -> 0 .. MaxCount]
  BY MaxCountAssumption DEF Init, ManagerInit
<1> QED
  BY <1>1 DEF Init, ManagerInit, TypeOK, ManagerTypeOK, Places

(* What a call does to the two maps keeps their types. *)
LEMMA ManagerTypes ==
  ASSUME ManagerTypeOK, NEW p \in Projects, ManagerSubscribe(p) \/ ManagerUnsubscribe(p)
  PROVE  ManagerTypeOK'
  BY MaxCountAssumption DEF ManagerTypeOK, ManagerSubscribe, ManagerUnsubscribe

(* A task goes to its next place, and no other task moves. *)
LEMMA GotoType ==
  ASSUME TypeOK, NEW t \in Tasks, NEW place \in Places, Goto(t, place)
  PROVE  /\ pc' \in [Tasks -> Places]
         /\ pc'[t] = place
         /\ \A u \in Tasks \ {t} : pc'[u] = pc[u]
  BY DEF TypeOK, Goto

-----------------------------------------------------------------------------
(* The counts lock is held by one task: every request at it is a write.    *)
(* unsubscribe holds it from the removal of the count to the removal of    *)
(* the channel.                                                            *)
CountsHeld ==
  /\ \A i \in 1 .. Len(countsLock) : countsLock[i].mode = "write"
  /\ \A t \in Conns : pc[t] = "unsubProjects" =>
       countsLock # <<>> /\ countsLock[1].task = t /\ counts[arg[t]] = 0
  /\ pc[Publisher] \in {"idle", "castProjects"}

(* A granted request at the counts lock is the oldest. *)
LEMMA OnlyTheOldest ==
  ASSUME TypeOK, CountsHeld, NEW t, Granted(countsLock, t)
  PROVE  /\ countsLock # <<>> /\ countsLock[1].task = t
         /\ \A u \in Conns : pc[u] = "unsubProjects" => u = t
<1>1. PICK i \in 1 .. Len(countsLock) :
        /\ countsLock[i].task = t
        /\ i = 1 \/ \A j \in 1 .. i : countsLock[j].mode = "read"
  BY DEF Granted
<1>2. i = 1
  BY <1>1 DEF CountsHeld
<1>3. countsLock # <<>>
  BY <1>1, <1>2
<1> QED
  BY <1>1, <1>2, <1>3 DEF CountsHeld

(* While one task removes a channel no other holds the counts. *)
LEMMA OneRemoves ==
  ASSUME CountsHeld, NEW t \in Conns, NEW u \in Conns,
         pc[t] = "unsubProjects", pc[u] = "unsubProjects"
  PROVE  t = u
  BY DEF CountsHeld

(* The projects lock: only the event loop reads, and subscribe holds it    *)
(* while it waits for the counts.                                          *)
ProjectsHeld ==
  /\ \A i \in 1 .. Len(projectsLock) : projectsLock[i].task \in Conns => projectsLock[i].mode = "write"
  /\ \A t \in Conns : pc[t] = "subCounts" => projectsLock # <<>> /\ projectsLock[1].task = t

(* Who is granted the projects lock finds no other subscriber with it; a   *)
(* connection that is granted it has the oldest request.                   *)
LEMMA OnlyHolder ==
  ASSUME TypeOK, ProjectsHeld, NEW t, Granted(projectsLock, t)
  PROVE  /\ \A u \in Conns : pc[u] = "subCounts" => u = t
         /\ t \in Conns => projectsLock # <<>> /\ projectsLock[1].task = t
<1>1. PICK i \in 1 .. Len(projectsLock) :
        /\ projectsLock[i].task = t
        /\ i = 1 \/ \A j \in 1 .. i : projectsLock[j].mode = "read"
  BY DEF Granted
<1>2. projectsLock # <<>> /\ 1 \in 1 .. Len(projectsLock) /\ i \in 1 .. i /\ 1 \in 1 .. i
  BY <1>1
<1>3. t \in Conns => i = 1
  BY <1>1, <1>2 DEF ProjectsHeld
<1>4. \A u \in Conns : pc[u] = "subCounts" => i = 1
  BY <1>1, <1>2 DEF ProjectsHeld
<1> QED
  BY <1>1, <1>2, <1>3, <1>4 DEF ProjectsHeld

(* What a task does between two lock awaits keeps the types. *)
LEMMA ProceedTypes ==
  ASSUME TypeOK, CountsHeld, ProjectsHeld, NEW t \in Tasks, Proceed(t)
  PROVE  TypeOK'
<1>1. arg[t] \in Projects
  BY DEF TypeOK
<1>2. Granted(projectsLock, t) => Released(projectsLock, t) \in Seq(Request)
  BY ReleasesOne, GrantedAsked DEF TypeOK
<1>3. Granted(countsLock, t) => Released(countsLock, t) \in Seq(Request)
  BY ReleasesOne, GrantedAsked DEF TypeOK
<1>4. /\ Asks(countsLock, t, "write") \in Seq(Request)
      /\ Asks(projectsLock, t, "write") \in Seq(Request)
  BY AsksAtTheBack DEF TypeOK
<1>5. Places = {"idle", "subProjects", "subCounts", "unsubCounts", "unsubProjects", "castProjects"}
  BY DEF Places
<1>6. pc' \in [Tasks -> Places]
  BY <1>5, GotoType DEF Proceed, SubscribeHasProjects, SubscribeHasBoth, UnsubscribeKeepsChannel,
       UnsubscribeRemovesCount, UnsubscribeRemovesChannel, BroadcastSends
<1>7. CASE SubscribeHasProjects(t)
  <2>1. UNCHANGED <<channel, counts, projectsLock, arg>> /\ countsLock' \in Seq(Request)
    BY <1>4, <1>7 DEF SubscribeHasProjects
  <2> QED
    BY <1>6, <2>1 DEF TypeOK, ManagerTypeOK
<1>8. CASE SubscribeHasBoth(t)
  <2>1. ManagerTypeOK'
    BY <1>1, <1>8, ManagerTypes DEF SubscribeHasBoth, TypeOK
  <2>2. projectsLock' \in Seq(Request)
    <3>1. t \in Conns /\ pc[t] = "subCounts"
      BY <1>8 DEF SubscribeHasBoth, Tasks, CountsHeld
    <3>2. Len(projectsLock) >= 1 /\ projectsLock[1].task = t
      BY <3>1, EmptySeq DEF ProjectsHeld, TypeOK
    <3> QED
      BY <1>8, <3>2, ReleasesOne DEF SubscribeHasBoth, TypeOK
  <2> QED
    BY <1>3, <1>6, <1>8, <2>1, <2>2 DEF SubscribeHasBoth, TypeOK
<1>9. CASE UnsubscribeKeepsChannel(t)
  BY <1>1, <1>3, <1>6, <1>9, ManagerTypes DEF UnsubscribeKeepsChannel, TypeOK
<1>10. CASE UnsubscribeRemovesCount(t)
  <2>1. counts' \in [Projects -> 0 .. MaxCount]
    BY <1>1, <1>10, MaxCountAssumption DEF UnsubscribeRemovesCount, TypeOK, ManagerTypeOK
  <2> QED
    BY <1>4, <1>6, <1>10, <2>1 DEF UnsubscribeRemovesCount, TypeOK, ManagerTypeOK
<1>11. CASE UnsubscribeRemovesChannel(t)
  <2>1. t \in Conns /\ pc[t] = "unsubProjects"
    BY <1>11 DEF UnsubscribeRemovesChannel, Tasks, CountsHeld
  <2>2. Len(countsLock) >= 1 /\ countsLock[1].task = t
    BY <2>1, EmptySeq DEF CountsHeld, TypeOK
  <2>3. Released(countsLock, t) \in Seq(Request)
    BY <2>2, ReleasesOne DEF TypeOK
  <2> QED
    BY <1>2, <1>6, <1>11, <2>3 DEF UnsubscribeRemovesChannel, TypeOK, ManagerTypeOK
<1>12. CASE BroadcastSends(t)
  BY <1>2, <1>6, <1>12 DEF BroadcastSends, TypeOK, ManagerTypeOK
<1> QED
  BY <1>7, <1>8, <1>9, <1>10, <1>11, <1>12 DEF Proceed

(* Every step of a task and of the two lock queues keeps the types. *)
LEMMA TypesStep == TypeOK /\ CountsHeld /\ ProjectsHeld /\ [Next]_vars => TypeOK'
<1> SUFFICES ASSUME TypeOK, CountsHeld, ProjectsHeld, [Next]_vars PROVE TypeOK'
  OBVIOUS
<1>1. ASSUME NEW t \in Tasks, NEW p \in Projects, NEW place \in Places, Goto(t, place),
             arg' = [arg EXCEPT ![t] = p],
             projectsLock' \in Seq(Request), countsLock' \in Seq(Request),
             UNCHANGED <<channel, counts>>
      PROVE  TypeOK'
  <2>1. pc' \in [Tasks -> Places]
    BY <1>1, GotoType
  <2> QED
    BY <1>1, <2>1 DEF TypeOK, ManagerTypeOK
<1>2. Publisher \in Tasks /\ Conns \subseteq Tasks /\ Unsubscribers \subseteq Tasks
  BY TasksAssumption DEF Tasks
<1>3. \A t \in Tasks, m \in {"read", "write"} :
        Asks(projectsLock, t, m) \in Seq(Request) /\ Asks(countsLock, t, m) \in Seq(Request)
  BY AsksAtTheBack DEF TypeOK
<1>4. {"castProjects", "subProjects", "unsubCounts"} \subseteq Places
  BY DEF Places
<1>5. ASSUME NEW p \in Projects, BroadcastCalled(p) PROVE TypeOK'
  BY <1>1, <1>2, <1>3, <1>4, <1>5 DEF BroadcastCalled, TypeOK
<1>6. ASSUME NEW p \in Projects, NEW t \in Conns, SubscribeCalled(t, p) PROVE TypeOK'
  BY <1>1, <1>2, <1>3, <1>4, <1>6 DEF SubscribeCalled, TypeOK
<1>7. ASSUME NEW p \in Projects, NEW t \in Unsubscribers, UnsubscribeCalled(t, p) PROVE TypeOK'
  BY <1>1, <1>2, <1>3, <1>4, <1>7 DEF UnsubscribeCalled, TypeOK
<1>8. ASSUME NEW t \in Tasks, Proceed(t) PROVE TypeOK'
  BY <1>8, ProceedTypes
<1>9. CASE UNCHANGED vars
  BY <1>9 DEF vars, TypeOK, ManagerTypeOK
<1> QED
  BY <1>5, <1>6, <1>7, <1>8, <1>9 DEF Next

(* No lock is held. *)
LEMMA HeldInit == Init => CountsHeld /\ ProjectsHeld
  BY TasksAssumption DEF Init, CountsHeld, ProjectsHeld, Tasks

(* A request at the back does not displace the task that removes a channel. *)
LEMMA AskingKeepsHeld ==
  ASSUME TypeOK, NEW t \in Tasks
  PROVE  /\ (\A i \in 1 .. Len(countsLock) : countsLock[i].mode = "write") =>
              \A i \in 1 .. Len(Asks(countsLock, t, "write")) :
                Asks(countsLock, t, "write")[i].mode = "write"
         /\ countsLock # <<>> => /\ Asks(countsLock, t, "write") # <<>>
                                 /\ Asks(countsLock, t, "write")[1] = countsLock[1]
<1> DEFINE asked == Asks(countsLock, t, "write")
<1>1. /\ countsLock # <<>> => asked[1] = countsLock[1]
      /\ \A i \in 1 .. Len(asked) :
           asked[i] = [task |-> t, mode |-> "write"] \/ \E j \in 1 .. Len(countsLock) : asked[i] = countsLock[j]
      /\ asked # <<>>
  BY AsksAtTheBack DEF TypeOK
<1> HIDE DEF asked
<1>2. [task |-> t, mode |-> "write"].mode = "write"
  OBVIOUS
<1>3. (\A i \in 1 .. Len(countsLock) : countsLock[i].mode = "write") =>
        \A i \in 1 .. Len(asked) : asked[i].mode = "write"
  BY <1>1, <1>2
<1> QED
  BY <1>1, <1>3 DEF asked

(* Each step keeps it: nobody asks for the counts lock but to write, and   *)
(* an unsubscribe keeps it until its channel is gone.                      *)
LEMMA HeldStep == TypeOK /\ CountsHeld /\ [Next]_vars => CountsHeld'
<1> SUFFICES ASSUME TypeOK, CountsHeld, [Next]_vars PROVE CountsHeld'
  OBVIOUS
<1> DEFINE writes(lock) == \A i \in 1 .. Len(lock) : lock[i].mode = "write"
<1>0. Publisher \in Tasks /\ Conns \subseteq Tasks /\ Unsubscribers \subseteq Conns /\ Publisher \notin Conns
  BY TasksAssumption DEF Tasks
<1>1. ASSUME NEW t \in Tasks, NEW place \in Places \ {"unsubProjects"}, Goto(t, place),
             pc[t] # "unsubProjects",
             \A u \in Conns : u # t => arg'[u] = arg[u],
             UNCHANGED counts,
             \/ UNCHANGED countsLock
             \/ countsLock' = Asks(countsLock, t, "write"),
             t = Publisher => place \in {"idle", "castProjects"}
      PROVE  CountsHeld'
  <2>1. pc'[t] = place /\ \A u \in Tasks \ {t} : pc'[u] = pc[u]
    BY <1>1, GotoType
  <2>2. writes(countsLock') /\ (countsLock # <<>> => countsLock' # <<>> /\ countsLock'[1] = countsLock[1])
    BY <1>1, AskingKeepsHeld DEF CountsHeld
  <2>3. \A u \in Conns : pc'[u] = "unsubProjects" =>
          countsLock' # <<>> /\ countsLock'[1].task = u /\ counts'[arg'[u]] = 0
    BY <1>0, <1>1, <2>1, <2>2 DEF CountsHeld
  <2>4. pc'[Publisher] \in {"idle", "castProjects"}
    BY <1>0, <1>1, <2>1 DEF CountsHeld
  <2> QED
    BY <2>2, <2>3, <2>4 DEF CountsHeld
<1>2. ASSUME NEW t \in Conns, Goto(t, "idle"),
             countsLock # <<>>, countsLock[1].task = t,
             \A u \in Conns : pc[u] = "unsubProjects" => u = t,
             countsLock' = Released(countsLock, t)
      PROVE  CountsHeld'
  <2>1. pc'[t] = "idle" /\ \A u \in Tasks \ {t} : pc'[u] = pc[u]
    BY <1>0, <1>2, GotoType DEF Places
  <2>2. Len(countsLock) >= 1
    BY <1>2, EmptySeq DEF TypeOK
  <2>3. \A i \in 1 .. Len(Released(countsLock, t)) :
          \E j \in 1 .. Len(countsLock) : Released(countsLock, t)[i] = countsLock[j]
    BY <1>2, <2>2, ReleasesOne DEF TypeOK
  <2>4. writes(countsLock')
    BY <1>2, <2>3 DEF CountsHeld
  <2>5. \A u \in Conns : pc'[u] # "unsubProjects"
    BY <1>0, <1>2, <2>1
  <2> QED
    BY <1>0, <2>1, <2>4, <2>5 DEF CountsHeld
<1>3. Places = {"idle", "subProjects", "subCounts", "unsubCounts", "unsubProjects", "castProjects"}
  BY DEF Places
<1>4. ASSUME NEW p \in Projects, BroadcastCalled(p) PROVE CountsHeld'
  BY <1>0, <1>1, <1>3, <1>4 DEF BroadcastCalled, TypeOK
<1>5. ASSUME NEW p \in Projects, NEW t \in Conns, SubscribeCalled(t, p) PROVE CountsHeld'
  BY <1>0, <1>1, <1>3, <1>5 DEF SubscribeCalled, TypeOK
<1>6. ASSUME NEW p \in Projects, NEW t \in Unsubscribers, UnsubscribeCalled(t, p) PROVE CountsHeld'
  BY <1>0, <1>1, <1>3, <1>6 DEF UnsubscribeCalled, TypeOK
<1>7. ASSUME NEW t \in Tasks, Proceed(t) PROVE CountsHeld'
  <2>1. CASE SubscribeHasProjects(t)
    BY <1>0, <1>1, <1>3, <2>1 DEF SubscribeHasProjects, CountsHeld
  <2>2. CASE BroadcastSends(t)
    BY <1>0, <1>1, <1>3, <2>2 DEF BroadcastSends
  <2>3. CASE SubscribeHasBoth(t) \/ UnsubscribeKeepsChannel(t)
    <3>1. t \in Conns /\ Granted(countsLock, t)
      BY <2>3 DEF SubscribeHasBoth, UnsubscribeKeepsChannel, Tasks, CountsHeld
    <3>2. /\ countsLock # <<>> /\ countsLock[1].task = t
          /\ \A u \in Conns : pc[u] = "unsubProjects" => u = t
      BY <3>1, OnlyTheOldest
    <3> QED
      BY <1>2, <2>3, <3>1, <3>2 DEF SubscribeHasBoth, UnsubscribeKeepsChannel
  <2>4. CASE UnsubscribeRemovesChannel(t)
    <3>1. t \in Conns /\ pc[t] = "unsubProjects"
      BY <2>4 DEF UnsubscribeRemovesChannel, Tasks, CountsHeld
    <3>2. /\ countsLock # <<>> /\ countsLock[1].task = t
          /\ \A u \in Conns : pc[u] = "unsubProjects" => u = t
      BY <3>1, OneRemoves DEF CountsHeld
    <3> QED
      BY <1>2, <2>4, <3>1, <3>2 DEF UnsubscribeRemovesChannel
  <2>5. CASE UnsubscribeRemovesCount(t)
    <3>1. t \in Conns /\ Granted(countsLock, t)
      BY <2>5 DEF UnsubscribeRemovesCount, Tasks, CountsHeld
    <3>2. /\ countsLock # <<>> /\ countsLock[1].task = t
          /\ \A u \in Conns : pc[u] = "unsubProjects" => u = t
      BY <3>1, OnlyTheOldest
    <3>3. pc'[t] = "unsubProjects" /\ \A u \in Tasks \ {t} : pc'[u] = pc[u]
      BY <1>3, <2>5, GotoType DEF UnsubscribeRemovesCount
    <3>4. counts'[arg[t]] = 0 /\ UNCHANGED <<countsLock, arg>>
      BY <2>5 DEF UnsubscribeRemovesCount, TypeOK, ManagerTypeOK
    <3> QED
      BY <1>0, <3>1, <3>2, <3>3, <3>4 DEF CountsHeld
  <2> QED
    BY <1>7, <2>1, <2>2, <2>3, <2>4, <2>5 DEF Proceed
<1>8. CASE UNCHANGED vars
  BY <1>8 DEF vars, CountsHeld
<1> QED
  BY <1>4, <1>5, <1>6, <1>7, <1>8 DEF Next

(* The same for the projects lock, which subscribe keeps while it waits    *)
(* for the counts.                                                         *)
LEMMA ProjectsHeldStep == TypeOK /\ CountsHeld /\ ProjectsHeld /\ [Next]_vars => ProjectsHeld'
<1> SUFFICES ASSUME TypeOK, CountsHeld, ProjectsHeld, [Next]_vars PROVE ProjectsHeld'
  OBVIOUS
<1> DEFINE writes(lock) == \A i \in 1 .. Len(lock) : lock[i].task \in Conns => lock[i].mode = "write"
<1>0. Publisher \in Tasks /\ Conns \subseteq Tasks /\ Unsubscribers \subseteq Conns /\ Publisher \notin Conns
  BY TasksAssumption DEF Tasks
<1>1. Places = {"idle", "subProjects", "subCounts", "unsubCounts", "unsubProjects", "castProjects"}
  BY DEF Places
<1>2. ASSUME NEW t \in Tasks, NEW place \in Places \ {"subCounts"}, Goto(t, place),
             \/ UNCHANGED projectsLock
             \/ \E m \in {"read", "write"} :
                  /\ t \in Conns => m = "write"
                  /\ projectsLock' = Asks(projectsLock, t, m)
      PROVE  ProjectsHeld'
  <2>1. pc'[t] = place /\ \A u \in Tasks \ {t} : pc'[u] = pc[u]
    BY <1>2, GotoType
  <2>2. writes(projectsLock') /\ (projectsLock # <<>> => projectsLock' # <<>> /\ projectsLock'[1] = projectsLock[1])
    <3>1. CASE UNCHANGED projectsLock
      BY <3>1 DEF ProjectsHeld
    <3>2. ASSUME NEW m \in {"read", "write"}, t \in Conns => m = "write",
                 projectsLock' = Asks(projectsLock, t, m)
          PROVE  /\ writes(projectsLock')
                 /\ projectsLock # <<>> => projectsLock' # <<>> /\ projectsLock'[1] = projectsLock[1]
      <4> DEFINE asked == Asks(projectsLock, t, m)
      <4>5. /\ asked # <<>>
            /\ projectsLock # <<>> => asked[1] = projectsLock[1]
            /\ \A i \in 1 .. Len(asked) :
                 asked[i] = [task |-> t, mode |-> m]
                 \/ \E j \in 1 .. Len(projectsLock) : asked[i] = projectsLock[j]
        <5>1. projectsLock \in Seq(Request)
          BY DEF TypeOK
        <5> QED
          BY <5>1, AsksAtTheBack, Zenon
      <4>6. projectsLock' = asked
        BY <3>2
      <4> HIDE DEF asked
      <4>1. /\ projectsLock' # <<>>
            /\ projectsLock # <<>> => projectsLock'[1] = projectsLock[1]
            /\ \A i \in 1 .. Len(projectsLock') :
                 projectsLock'[i] = [task |-> t, mode |-> m]
                 \/ \E j \in 1 .. Len(projectsLock) : projectsLock'[i] = projectsLock[j]
        BY <4>5, <4>6
      <4>2. [task |-> t, mode |-> m].mode = m /\ [task |-> t, mode |-> m].task = t
        OBVIOUS
      <4>3. writes(projectsLock')
        BY <3>2, <4>1, <4>2 DEF ProjectsHeld
      <4> QED
        BY <4>1, <4>3
    <3> QED
      BY <1>2, <3>1, <3>2
  <2> QED
    BY <1>0, <1>2, <2>1, <2>2 DEF ProjectsHeld
<1>3. ASSUME NEW t \in Tasks, Goto(t, "idle"),
             \E j \in 1 .. Len(projectsLock) : projectsLock[j].task = t,
             \A u \in Conns : pc[u] = "subCounts" => u = t,
             projectsLock' = Released(projectsLock, t)
      PROVE  ProjectsHeld'
  <2>1. pc'[t] = "idle" /\ \A u \in Tasks \ {t} : pc'[u] = pc[u]
    BY <1>1, <1>3, GotoType
  <2>2. \A i \in 1 .. Len(projectsLock') :
          \E j \in 1 .. Len(projectsLock) : projectsLock'[i] = projectsLock[j]
    BY <1>3, ReleasesOne DEF TypeOK
  <2>3. writes(projectsLock')
    BY <2>2 DEF ProjectsHeld
  <2>4. \A u \in Conns : pc'[u] # "subCounts"
    BY <1>0, <1>3, <2>1
  <2> QED
    BY <2>3, <2>4 DEF ProjectsHeld
<1>4. ASSUME NEW p \in Projects, BroadcastCalled(p) PROVE ProjectsHeld'
  BY <1>0, <1>1, <1>2, <1>4 DEF BroadcastCalled
<1>5. ASSUME NEW p \in Projects, NEW t \in Conns, SubscribeCalled(t, p) PROVE ProjectsHeld'
  BY <1>0, <1>1, <1>2, <1>5 DEF SubscribeCalled
<1>6. ASSUME NEW p \in Projects, NEW t \in Unsubscribers, UnsubscribeCalled(t, p) PROVE ProjectsHeld'
  BY <1>0, <1>1, <1>2, <1>6 DEF UnsubscribeCalled
<1>7. ASSUME NEW t \in Tasks, Proceed(t) PROVE ProjectsHeld'
  <2>1. CASE UnsubscribeKeepsChannel(t) \/ UnsubscribeRemovesCount(t)
    BY <1>1, <1>2, <2>1 DEF UnsubscribeKeepsChannel, UnsubscribeRemovesCount
  <2>2. CASE UnsubscribeRemovesChannel(t) \/ BroadcastSends(t)
    <3>1. Granted(projectsLock, t)
      BY <2>2 DEF UnsubscribeRemovesChannel, BroadcastSends
    <3> QED
      BY <1>3, <2>2, <3>1, GrantedAsked, OnlyHolder DEF UnsubscribeRemovesChannel, BroadcastSends
  <2>3. CASE SubscribeHasBoth(t)
    <3>1. t \in Conns /\ pc[t] = "subCounts"
      BY <2>3 DEF SubscribeHasBoth, Tasks, CountsHeld
    <3>2. Len(projectsLock) >= 1 /\ projectsLock[1].task = t
      BY <3>1, EmptySeq DEF ProjectsHeld, TypeOK
    <3>3. \A u \in Conns : pc[u] = "subCounts" => u = t
      BY <3>2 DEF ProjectsHeld
    <3> QED
      BY <1>3, <2>3, <3>2, <3>3 DEF SubscribeHasBoth
  <2>4. CASE SubscribeHasProjects(t)
    <3>1. t \in Conns
      BY <2>4 DEF SubscribeHasProjects, Tasks, CountsHeld
    <3>2. projectsLock # <<>> /\ projectsLock[1].task = t /\ \A u \in Conns : pc[u] = "subCounts" => u = t
      BY <2>4, <3>1, OnlyHolder DEF SubscribeHasProjects
    <3>3. \A u \in Tasks \ {t} : pc'[u] = pc[u]
      BY <1>1, <2>4, GotoType DEF SubscribeHasProjects
    <3> QED
      BY <1>0, <2>4, <3>2, <3>3 DEF SubscribeHasProjects, ProjectsHeld
  <2> QED
    BY <1>7, <2>1, <2>2, <2>3, <2>4 DEF Proceed
<1>8. CASE UNCHANGED vars
  BY <1>8 DEF vars, ProjectsHeld
<1> QED
  BY <1>4, <1>5, <1>6, <1>7, <1>8 DEF Next

-----------------------------------------------------------------------------
(* The refinement. *)

LockInv == TypeOK /\ CountsHeld /\ ProjectsHeld

(* The types, and who holds the two locks at which place of a call, hold   *)
(* throughout.                                                             *)
LEMMA LockInvariant == Spec => []LockInv
<1>1. Init => LockInv
  BY TypesInit, HeldInit DEF LockInv
<1>2. LockInv /\ [Next]_vars => LockInv'
  BY TypesStep, HeldStep, ProjectsHeldStep DEF LockInv
<1> QED
  BY <1>1, <1>2, PTL DEF Spec

(* The state the calls show: the count that unsubscribe has removed under  *)
(* its lock is still there for the others.                                 *)
shown == [p \in Projects |-> IF Removing(p) THEN 1 ELSE counts[p]]

(* A step that changes neither the maps nor who removes what is not seen.  *)
LEMMA Unseen ==
  ASSUME UNCHANGED <<channel, counts>>, \A p \in Projects : Removing(p)' <=> Removing(p)
  PROVE  channel' = channel /\ shown' = shown
  BY DEF shown

(* What the calls have done starts as the empty maps. *)
LEMMA ShownInit == Init => Atomic!ManagerInit
<1> SUFFICES ASSUME Init PROVE Atomic!ManagerInit
  OBVIOUS
<1>1. \A p \in Projects : ~Removing(p)
  BY TasksAssumption DEF Init, Removing, Tasks
<1> QED
  BY <1>1 DEF Init, ManagerInit, Atomic!ManagerInit

(* A step changes what the calls have done to the maps by one subscribe or *)
(* unsubscribe, or not at all.                                             *)
LEMMA ShownStep ==
  ASSUME LockInv, [Next]_vars
  PROVE  [Atomic!ManagerNext]_(Atomic!managerVars)
<1> USE DEF LockInv
<1>0. Publisher \in Tasks /\ Conns \subseteq Tasks /\ Unsubscribers \subseteq Conns /\ Publisher \notin Conns
  BY TasksAssumption DEF Tasks
<1>1. SUFFICES (channel' = channel /\ shown' = shown) \/ Atomic!ManagerNext
  BY <1>1 DEF Atomic!managerVars, shown
<1>2. ASSUME NEW t \in Tasks, NEW place \in Places \ {"unsubProjects"}, Goto(t, place),
             pc[t] # "unsubProjects", \A u \in Conns : u # t => arg'[u] = arg[u],
             UNCHANGED <<channel, counts>>
      PROVE  channel' = channel /\ shown' = shown
  <2>1. pc'[t] = place /\ \A u \in Tasks \ {t} : pc'[u] = pc[u]
    BY <1>2, GotoType
  <2>2. \A p \in Projects : Removing(p)' <=> Removing(p)
    BY <1>0, <1>2, <2>1 DEF Removing
  <2> QED
    BY <1>2, <2>2, Unseen
<1>3. Places = {"idle", "subProjects", "subCounts", "unsubCounts", "unsubProjects", "castProjects"}
  BY DEF Places
<1>4. ASSUME NEW p \in Projects, BroadcastCalled(p) PROVE channel' = channel /\ shown' = shown
  BY <1>0, <1>2, <1>3, <1>4 DEF BroadcastCalled, TypeOK
<1>5. ASSUME NEW p \in Projects, NEW t \in Conns, SubscribeCalled(t, p)
      PROVE  channel' = channel /\ shown' = shown
  BY <1>0, <1>2, <1>3, <1>5 DEF SubscribeCalled, TypeOK
<1>6. ASSUME NEW p \in Projects, NEW t \in Unsubscribers, UnsubscribeCalled(t, p)
      PROVE  channel' = channel /\ shown' = shown
  BY <1>0, <1>2, <1>3, <1>6 DEF UnsubscribeCalled, TypeOK
<1>7. ASSUME NEW t \in Tasks, SubscribeHasProjects(t) \/ BroadcastSends(t)
      PROVE  channel' = channel /\ shown' = shown
  BY <1>2, <1>3, <1>7 DEF SubscribeHasProjects, BroadcastSends
<1>8. ASSUME NEW t \in Tasks, SubscribeHasBoth(t) \/ UnsubscribeKeepsChannel(t)
      PROVE  Atomic!ManagerNext
  <2>1. t \in Conns /\ Granted(countsLock, t) /\ pc[t] # "unsubProjects"
    BY <1>8 DEF SubscribeHasBoth, UnsubscribeKeepsChannel, Tasks, CountsHeld
  <2>2. \A u \in Conns : pc[u] # "unsubProjects"
    BY <2>1, OnlyTheOldest
  <2>3. pc'[t] = "idle" /\ \A u \in Tasks \ {t} : pc'[u] = pc[u]
    BY <1>3, <1>8, GotoType DEF SubscribeHasBoth, UnsubscribeKeepsChannel
  <2>4. \A p \in Projects : ~Removing(p) /\ ~Removing(p)'
    BY <1>0, <2>2, <2>3 DEF Removing
  <2>5. PICK p \in Projects : p = arg[t]
    BY DEF TypeOK
  <2>6. shown = counts
    BY <2>4 DEF shown, TypeOK, ManagerTypeOK
  <2>7. shown' = counts'
    BY <1>8, <2>4, <2>5 DEF shown, SubscribeHasBoth, UnsubscribeKeepsChannel, ManagerSubscribe,
                           ManagerUnsubscribe, TypeOK, ManagerTypeOK
  <2>8. ManagerSubscribe(p) \/ ManagerUnsubscribe(p)
    BY <1>8, <2>5 DEF SubscribeHasBoth, UnsubscribeKeepsChannel
  <2>9. Atomic!ManagerSubscribe(p) \/ Atomic!ManagerUnsubscribe(p)
    BY <2>6, <2>7, <2>8 DEF shown, ManagerSubscribe, ManagerUnsubscribe, DropsChannel,
       Atomic!ManagerSubscribe, Atomic!ManagerUnsubscribe, Atomic!DropsChannel
  <2> QED
    BY <2>9 DEF Atomic!ManagerNext
<1>9. ASSUME NEW t \in Tasks, UnsubscribeRemovesCount(t)
      PROVE  channel' = channel /\ shown' = shown
  <2>1. t \in Conns /\ Granted(countsLock, t) /\ pc[t] # "unsubProjects"
    BY <1>9 DEF UnsubscribeRemovesCount, Tasks, CountsHeld
  <2>2. \A u \in Conns : pc[u] # "unsubProjects"
    BY <2>1, OnlyTheOldest
  <2>3. pc'[t] = "unsubProjects" /\ \A u \in Tasks \ {t} : pc'[u] = pc[u]
    BY <1>3, <1>9, GotoType DEF UnsubscribeRemovesCount
  <2>4. PICK p \in Projects : p = arg[t] /\ counts[p] = 1
    BY <1>9 DEF UnsubscribeRemovesCount, DropsChannel, TypeOK
  <2>5. /\ \A q \in Projects : ~Removing(q)
        /\ \A q \in Projects : Removing(q)' <=> q = p
    BY <1>0, <1>9, <2>1, <2>2, <2>3, <2>4 DEF Removing, UnsubscribeRemovesCount
  <2>6. \A q \in Projects : q # p => counts'[q] = counts[q]
    BY <1>9, <2>4 DEF UnsubscribeRemovesCount, TypeOK, ManagerTypeOK
  <2>7. \A q \in Projects : (IF Removing(q)' THEN 1 ELSE counts'[q]) = IF Removing(q) THEN 1 ELSE counts[q]
    BY <2>4, <2>5, <2>6
  <2>8. channel' = channel
    BY <1>9 DEF UnsubscribeRemovesCount
  <2> QED
    BY <2>7, <2>8 DEF shown
<1>10. ASSUME NEW t \in Tasks, UnsubscribeRemovesChannel(t)
       PROVE  Atomic!ManagerNext
  <2>1. t \in Conns /\ pc[t] = "unsubProjects"
    BY <1>10 DEF UnsubscribeRemovesChannel, Tasks, CountsHeld
  <2>2. \A u \in Conns : pc[u] = "unsubProjects" => u = t
    BY <2>1, OneRemoves
  <2>3. pc'[t] = "idle" /\ \A u \in Tasks \ {t} : pc'[u] = pc[u]
    BY <1>3, <1>10, GotoType DEF UnsubscribeRemovesChannel
  <2>4. PICK p \in Projects : p = arg[t] /\ counts[p] = 0
    BY <2>1 DEF CountsHeld, TypeOK
  <2>5. /\ \A q \in Projects : Removing(q) <=> q = p
        /\ \A q \in Projects : ~Removing(q)'
    BY <1>0, <2>1, <2>2, <2>3, <2>4 DEF Removing
  <2>6. UNCHANGED counts /\ channel' = channel \ {p}
    BY <1>10, <2>4 DEF UnsubscribeRemovesChannel
  <2>7. shown[p] = 1 /\ shown' = [shown EXCEPT ![p] = 0]
    BY <2>4, <2>5, <2>6 DEF shown
  <2>8. Atomic!ManagerUnsubscribe(p) <=>
          /\ shown' = [shown EXCEPT ![p] = IF shown[p] > 0 THEN shown[p] - 1 ELSE 0]
          /\ channel' = IF shown[p] = 1 THEN channel \ {p} ELSE channel
    BY DEF shown, Atomic!ManagerUnsubscribe, Atomic!DropsChannel
  <2>9. Atomic!ManagerUnsubscribe(p)
    BY <2>6, <2>7, <2>8
  <2> QED
    BY <2>9 DEF Atomic!ManagerNext
<1>11. CASE UNCHANGED vars
  <2>1. \A p \in Projects : Removing(p)' <=> Removing(p)
    BY <1>11 DEF vars, Removing
  <2> QED
    BY <1>11, <2>1, Unseen DEF vars
<1> QED
  BY <1>4, <1>5, <1>6, <1>7, <1>8, <1>9, <1>10, <1>11 DEF Next, Proceed

(* SubscriptionLocks implements SubscriptionManager: seen from outside the *)
(* two RwLocks, subscribe and unsubscribe of any number of connections     *)
(* are the atomic calls the other modules take them to be, although one    *)
(* removes the count before it waits for the lock of the channels.         *)
THEOREM LocksMakeCallsAtomic == Spec => CallsAreAtomic
<1>1. LockInv /\ [Next]_vars => [Atomic!ManagerNext]_(Atomic!managerVars)
  BY ShownStep
<1> QED
  BY <1>1, ShownInit, LockInvariant, PTL DEF Spec, CallsAreAtomic, Atomic!ManagerSpec

=============================================================================
