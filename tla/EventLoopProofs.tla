--------------------------- MODULE EventLoopProofs ---------------------------
(***************************************************************************)
(* For any files, projects, queries and number of events: what was seen is *)
(* stored, catching up misses nothing, and patches rebuild the tree.       *)
(***************************************************************************)
EXTENDS EventLoop, SequenceTheorems, TLAPS

(* Where the loop is, by the name of its step. *)
LEMMA Places ==
  ASSUME TypeOK
  PROVE  /\ pos \in Nat /\ pos <= 7
         /\ \A s \in {"remap", "attribute", "persist", "publish", "tree", "announce", "schedule"} :
              At(s) => pos > 0 /\ life # "exited"
         /\ At("remap") => pos = 1
         /\ At("attribute") => pos = 2
         /\ At("persist") => pos = 3
         /\ At("publish") => pos = 4
         /\ At("tree") => pos = 5
         /\ At("announce") => pos = 6
         /\ At("schedule") => pos = 7
         /\ pos \in 1..4 => Before("publish")
<1>1. Len(Steps) = 7 /\ pos \in 0..7
  BY DEF TypeOK, Steps
<1>2. pos \in {0, 1, 2, 3, 4, 5, 6, 7}
  BY <1>1
<1>3. /\ Steps[1] = "remap" /\ Steps[2] = "attribute" /\ Steps[3] = "persist"
      /\ Steps[4] = "publish" /\ Steps[5] = "tree" /\ Steps[6] = "announce"
      /\ Steps[7] = "schedule"
  BY DEF Steps
<1>4. pos \in 1..4 => Before("publish")
  BY <1>1, <1>3 DEF Before
<1> QED
  BY <1>1, <1>2, <1>3, <1>4 DEF At

(* The loop's next place. *)
LEMMA OnwardGoes ==
  ASSUME TypeOK, Onward
  PROVE  pos' = IF pos = 7 THEN 0 ELSE pos + 1
  BY DEF Onward, Steps

(* An event in hand is one event. *)
LEMMA InHand ==
  ASSUME TypeOK, pos > 0
  PROVE  cur = <<cur[1]>> /\ cur[1] \in Event
<1>1. cur \in Seq(Event) /\ Len(cur) = 1
  BY DEF TypeOK
<1>2. cur[1] \in Event
  BY <1>1
<1>3. <<cur[1]>> \in Seq(Event) /\ Len(<<cur[1]>>) = 1 /\ <<cur[1]>>[1] = cur[1]
  BY <1>2
<1>4. \A i \in 1..Len(cur) : cur[i] = <<cur[1]>>[i]
  BY <1>1, <1>3
<1> QED
  BY <1>1, <1>2, <1>3, <1>4, SeqEqual, Zenon

(* What the watcher's callback makes of a path is an event. *)
LEMMA MadeType ==
  ASSUME TypeOK, NEW i \in {1, 2}, NEW kind \in {"Create", "Modify", "Remove"},
         NEW f \in Files, made + i <= MaxEvents
  PROVE  Made(i, kind, f) \in Event
  BY DEF TypeOK, Made, EventTypeOf, Event, Pids

(* The number of events is a natural: the counter is bounded by it. *)
LEMMA MadeIsBounded ==
  ASSUME TypeOK
  PROVE  made \in Nat /\ made <= MaxEvents
  BY DEF TypeOK

(* What a state change outside the loop leaves in place. *)
LEMMA CastType ==
  ASSUME TypeOK, NEW k \in Pids, NEW notice \in Notification, Cast(k, notice)
  PROVE  /\ wires' \in [Pids -> Seq(Notification)]
         /\ wires[k] \in Seq(Notification) /\ Len(wires[k]) \in Nat
         /\ wires'[k] = Append(wires[k], notice)
         /\ Len(wires'[k]) = Len(wires[k]) + 1
         /\ wires'[k][Len(wires[k]) + 1] = notice
         /\ \A i \in 1 .. Len(wires[k]) : wires'[k][i] = wires[k][i]
         /\ \A o \in Pids \ {k} : wires'[o] = wires[o]
<1>1. wires \in [Pids -> Seq(Notification)]
  BY DEF TypeOK
<1>2. wires'[k] = Append(wires[k], notice) /\ \A o \in Pids \ {k} : wires'[o] = wires[o]
  BY <1>1 DEF Cast
<1>3. wires[k] \in Seq(Notification) /\ Append(wires[k], notice) \in Seq(Notification)
  BY <1>1, AppendProperties
<1>4. wires' \in [Pids -> Seq(Notification)]
  BY <1>1, <1>3 DEF Cast
<1> QED
  BY <1>2, <1>3, <1>4, AppendProperties, LenProperties

(* The event is a row of the store. *)
Row(e) == \E i \in 1 .. Len(rows) : rows[i] = e

(* An insert adds its row and keeps the others. *)
LEMMA AppendedRow ==
  ASSUME TypeOK, NEW e \in Event, rows' = Append(rows, e)
  PROVE  /\ rows' \in Seq(Event)
         /\ Row(e)'
         /\ \A x : Row(x)' <=> Row(x) \/ x = e
<1>1. /\ rows \in Seq(Event) /\ Len(rows) \in Nat
      /\ rows' \in Seq(Event) /\ Len(rows') = Len(rows) + 1
      /\ \A i \in 1 .. Len(rows) : rows'[i] = rows[i]
      /\ rows'[Len(rows) + 1] = e
  BY AppendProperties, LenProperties DEF TypeOK
<1> QED
  BY <1>1 DEF Row

(* A store step of the loop or of an attribute request ends with the event *)
(* in the table or among the failed ones, and forgets nothing.             *)
LEMMA StoredOrFailed ==
  ASSUME TypeOK, NEW e \in Event, Inserts(e) \/ InsertFails(e)
  PROVE  /\ rows' \in Seq(Event) /\ failed' \subseteq Event
         /\ (e \in failed \/ Row(e))'
         /\ \A x : Row(x) => Row(x)'
         /\ \A x : Row(x)' => Row(x) \/ x = e
         /\ failed \subseteq failed'
<1>1. CASE Inserts(e)
  BY <1>1, AppendedRow DEF Inserts, TypeOK
<1>2. CASE InsertFails(e)
  BY <1>2 DEF InsertFails, TypeOK, Row
<1> QED
  BY <1>1, <1>2

-----------------------------------------------------------------------------
(* The shapes of what the steps of the loop produce. *)

(* What the loop sends of an event is a notification of that event. *)
LEMMA NoticeType ==
  ASSUME NEW e \in Event
  PROVE  /\ EventNotice(e) \in Notification
         /\ EventNotice(e).is = "event" /\ EventNotice(e).of = e
  BY DEF EventNotice, Notification

(* The patch of an event is none, the addition of an absent node, or the   *)
(* removal of a present one: exactly what turns the tree into TreeAfter.   *)
LEMMA PatchIsDifference ==
  ASSUME NEW tree \in SUBSET Names, NEW e \in Event
  PROVE  /\ PatchOf(tree, e) \in Seq(Notification) /\ Len(PatchOf(tree, e)) <= 1
         /\ TreeAfter(tree, e) \in SUBSET Names
         /\ PatchOf(tree, e) = <<>> => TreeAfter(tree, e) = tree
         /\ PatchOf(tree, e) # <<>> =>
              /\ Len(PatchOf(tree, e)) = 1
              /\ PatchOf(tree, e)[1].is \in {"add", "remove"}
              /\ PatchOf(tree, e)[1].of \in Names
              /\ PatchOf(tree, e)[1].is = "add" <=> PatchOf(tree, e)[1].of \notin tree
              /\ TreeAfter(tree, e) =
                   IF PatchOf(tree, e)[1].is = "add"
                   THEN tree \cup {PatchOf(tree, e)[1].of}
                   ELSE tree \ {PatchOf(tree, e)[1].of}
<1> DEFINE name == <<"event", e.file>>
           add == [is |-> "add", of |-> name]
           remove == [is |-> "remove", of |-> name]
<1>1. name \in Names /\ e.type \in {"created", "modified", "deleted"}
  BY DEF Names, Event
<1>2. add \in Notification /\ remove \in Notification
  BY <1>1 DEF Notification
<1>3. CASE e.type = "created" /\ name \notin tree
  <2>1. PatchOf(tree, e) = <<add>> /\ TreeAfter(tree, e) = tree \cup {name}
    BY <1>3 DEF PatchOf, TreeAfter
  <2>2. /\ <<add>> \in Seq(Notification) /\ Len(<<add>>) = 1 /\ <<add>>[1] = add /\ <<add>> # <<>>
        /\ add.is = "add" /\ add.of = name
    BY <1>2
  <2> HIDE DEF add, name
  <2> QED
    BY <1>1, <1>3, <2>1, <2>2
<1>4. CASE e.type = "deleted" /\ name \in tree
  <2>1. PatchOf(tree, e) = <<remove>> /\ TreeAfter(tree, e) = tree \ {name}
    BY <1>4 DEF PatchOf, TreeAfter
  <2>2. /\ <<remove>> \in Seq(Notification) /\ Len(<<remove>>) = 1 /\ <<remove>>[1] = remove /\ <<remove>> # <<>>
        /\ remove.is = "remove" /\ remove.of = name
    BY <1>2
  <2> HIDE DEF remove, name
  <2> QED
    BY <1>1, <1>4, <2>1, <2>2
<1>5. CASE /\ ~(e.type = "created" /\ name \notin tree)
           /\ ~(e.type = "deleted" /\ name \in tree)
  <2>1. PatchOf(tree, e) = <<>>
    BY <1>5 DEF PatchOf
  <2>2. TreeAfter(tree, e) = tree
    BY <1>1, <1>5 DEF TreeAfter
  <2> QED
    BY <2>1, <2>2
<1> QED
  BY <1>3, <1>4, <1>5

(* Init and every step respect the types. *)
LEMMA InitTypes == Init => TypeOK
<1> SUFFICES ASSUME Init PROVE TypeOK
  OBVIOUS
<1>1. trees \in [Restored -> SUBSET Names]
  BY DEF Init, Names
<1>2. wires \in [Pids -> Seq(Notification)]
  BY DEF Init
<1>3. registered \subseteq Keys
  BY KeysAssumption DEF Init
<1>4. MaxEvents \in Nat
  BY MaxEventsAssumption
<1> QED
  BY <1>1, <1>2, <1>3, <1>4 DEF Init, TypeOK, Unjoined, Steps

(* Every step of loop, handlers, watcher and client keeps the types. *)
LEMMA StepTypes == TypeOK /\ [Next]_vars => TypeOK'
<1> SUFFICES ASSUME TypeOK, [Next]_vars PROVE TypeOK'
  OBVIOUS
<1> USE MaxEventsAssumption
<1>1. ASSUME NEW es \in Seq(Event), Reports(es), Len(es) \in Nat, disk' \subseteq Files
      PROVE  TypeOK'
  <2>1. queue' \in Seq(Event)
    BY <1>1, ConcatProperties DEF Reports, TypeOK
  <2>2. made' \in 0 .. MaxEvents
    BY <1>1 DEF Reports, TypeOK
  <2> QED
    BY <1>1, <2>1, <2>2 DEF Reports, TypeOK, loop, server, out
<1>2. ASSUME NEW f \in Files, Creates(f) \/ Writes(f) \/ Removes(f) PROVE TypeOK'
  <2>1. ASSUME NEW kind \in {"Create", "Modify", "Remove"}, Reports(<<Made(1, kind, f)>>)
        PROVE  /\ <<Made(1, kind, f)>> \in Seq(Event)
               /\ Len(<<Made(1, kind, f)>>) \in Nat
    <3>1. Len(<<Made(1, kind, f)>>) = 1
      OBVIOUS
    <3>2. Made(1, kind, f) \in Event
      BY <2>1, <3>1, MadeType DEF Reports
    <3> QED
      BY <3>1, <3>2
  <2>2. disk' \subseteq Files
    BY <1>2 DEF Creates, Writes, Removes, TypeOK
  <2>3. PICK kind \in {"Create", "Modify", "Remove"} : Reports(<<Made(1, kind, f)>>)
    BY <1>2 DEF Creates, Writes, Removes
  <2> QED
    BY <1>1, <2>1, <2>2, <2>3
<1>3. ASSUME NEW f \in Files, NEW g \in Files, Renames(f, g) PROVE TypeOK'
  <2> DEFINE es == <<Made(1, "Modify", f), Made(2, "Modify", g)>>
  <2>1. Len(es) = 2 /\ Reports(es)
    BY <1>3 DEF Renames
  <2>2. made + 2 <= MaxEvents /\ made \in Nat
    BY <2>1 DEF Reports, TypeOK
  <2>3. Made(1, "Modify", f) \in Event /\ Made(2, "Modify", g) \in Event
    BY <2>2, MadeType
  <2>4. es \in Seq(Event)
    BY <2>3
  <2>5. disk' \subseteq Files
    BY <1>3 DEF Renames, TypeOK
  <2> QED
    BY <1>1, <2>1, <2>4, <2>5
<1>4. CASE Loop
  <2>1. CASE Receives
    <3>1. Head(queue) \in Event /\ Tail(queue) \in Seq(Event)
      BY <2>1, HeadTailProperties DEF Receives, TypeOK
    <3>2. cur' \in Seq(Event) /\ Len(cur') = 1
      BY <2>1, <3>1 DEF Receives
    <3> QED
      BY <2>1, <3>1, <3>2 DEF Receives, TypeOK, server, out, Steps
  <2>2. ASSUME Onward, pos > 0
        PROVE  pos' \in 0 .. Len(Steps) /\ cur = <<cur[1]>> /\ cur[1] \in Event /\ Len(cur) = 1
    <3>1. Len(Steps) = 7 /\ pos \in 0..7
      BY DEF Steps, TypeOK
    <3> QED
      BY <2>2, <3>1, OnwardGoes, InHand DEF TypeOK
  <2>3. ASSUME NEW step \in {"remap", "attribute", "persist", "publish", "tree", "announce", "schedule"},
               At(step)
        PROVE  pos > 0
    BY <2>3, Places
  <2>4. CASE Remaps
    <3>1. \A k \in registered : [cur[1] EXCEPT !.key = k] \in Event
      BY <2>2, <2>3, <2>4 DEF Remaps, Event, TypeOK, Pids
    <3>2. cur' \in Seq(Event) /\ Len(cur') = 1
      <4>1. CASE UNCHANGED cur
        BY <2>2, <2>3, <2>4, <4>1 DEF Remaps, TypeOK
      <4>2. CASE \E k \in registered : cur' = <<[cur[1] EXCEPT !.key = k]>>
        BY <3>1, <4>2
      <4> QED
        BY <2>4, <4>1, <4>2 DEF Remaps
    <3> QED
      BY <2>2, <2>3, <2>4, <3>2 DEF Remaps, TypeOK, server, out, disks
  <2>5. CASE Attributes
    <3>1. [cur[1] EXCEPT !.src = IF cur[1].file \in active THEN "agent" ELSE @] \in Event
      BY <2>2, <2>3, <2>5 DEF Attributes, Event
    <3>2. cur' \in Seq(Event) /\ Len(cur') = 1
      BY <2>5, <3>1 DEF Attributes
    <3> QED
      BY <2>2, <2>3, <2>5, <3>2 DEF Attributes, TypeOK, server, out, disks
  <2>6. CASE Persists
    <3>1. rows' \in Seq(Event) /\ failed' \subseteq Event
      <4>1. cur[1] \in Event
        BY <2>2, <2>3, <2>6 DEF Persists
      <4> QED
        BY <2>6, <4>1, StoredOrFailed DEF Persists
    <3> QED
      BY <2>2, <2>3, <2>6, <3>1 DEF Persists, TypeOK, server, disks
  <2>7. CASE Publishes
    <3>1. cur[1] \in Event /\ cur[1].key \in Pids
      BY <2>2, <2>3, <2>7 DEF Publishes, Event
    <3>2. wires' \in [Pids -> Seq(Notification)]
      BY <2>7, <3>1, CastType, NoticeType DEF Publishes
    <3> QED
      BY <2>2, <2>3, <2>7, <3>2 DEF Publishes, TypeOK, server, disks
  <2>8. CASE AppliesToTree
    <3>1. cur[1] \in Event
      BY <2>2, <2>3, <2>8 DEF AppliesToTree
    <3>2. /\ trees' \in [Restored -> SUBSET Names]
          /\ patch' \in Seq(Notification) /\ Len(patch') <= 1
      <4>1. CASE cur[1].key \in Restored
        <5>1. trees[cur[1].key] \in SUBSET Names /\ trees \in [Restored -> SUBSET Names]
          BY <4>1 DEF TypeOK
        <5>2. TreeAfter(trees[cur[1].key], cur[1]) \in SUBSET Names
          BY <3>1, <5>1, PatchIsDifference
        <5>3. trees' \in [Restored -> SUBSET Names]
          BY <2>8, <4>1, <5>1, <5>2 DEF AppliesToTree
        <5>4. patch' = PatchOf(trees[cur[1].key], cur[1])
          BY <2>8, <4>1 DEF AppliesToTree
        <5> QED
          BY <3>1, <5>1, <5>3, <5>4, PatchIsDifference
      <4>2. CASE cur[1].key \notin Restored
        BY <2>8, <4>2 DEF AppliesToTree, TypeOK
      <4> QED
        BY <4>1, <4>2
    <3> QED
      BY <2>2, <2>3, <2>8, <3>2 DEF AppliesToTree, TypeOK, server, disks
  <2>9. CASE Announces
    <3>1. cur[1] \in Event /\ cur[1].key \in Pids
      BY <2>2, <2>3, <2>9 DEF Announces, Event
    <3>2. patch # <<>> => patch[1] \in Notification
      BY DEF TypeOK
    <3>3. wires' \in [Pids -> Seq(Notification)]
      BY <2>9, <3>1, <3>2, CastType DEF Announces, TypeOK
    <3>4. patch' \in Seq(Notification) /\ Len(patch') = 0
      BY <2>9 DEF Announces
    <3> QED
      BY <2>2, <2>3, <2>9, <3>3, <3>4 DEF Announces, TypeOK, server, disks
  <2>10. CASE Schedules
    <3>1. analysed' \subseteq Event
      BY <2>2, <2>3, <2>10 DEF Schedules, TypeOK
    <3> QED
      BY <2>2, <2>3, <2>10, <3>1 DEF Schedules, TypeOK, server, disks
  <2> QED
    BY <1>4, <2>1, <2>4, <2>5, <2>6, <2>7, <2>8, <2>9, <2>10 DEF Loop
<1>5. CASE AttributeCall
  <2>1. ASSUME NEW f \in Files, AttributeStored(f, Subscribed) PROVE TypeOK'
    <3> DEFINE e == [n |-> made + 1, file |-> f, type |-> "modified", key |-> Subscribed,
                     src |-> "stated"]
    <3>1. made' \in 0 .. MaxEvents /\ made + 1 \in 1 .. MaxEvents
      BY <2>1 DEF AttributeStored, TypeOK
    <3>2. e \in Event
      BY <3>1, KeysAssumption DEF Event, Pids
    <3>3. \/ Inserts(e) /\ attributing' = attributing \cup {e}
          \/ InsertFails(e) /\ UNCHANGED attributing
      BY <2>1 DEF AttributeStored
    <3>4. rows' \in Seq(Event) /\ failed' \subseteq Event /\ attributing' \subseteq Event
      <4>1. rows' \in Seq(Event) /\ failed' \subseteq Event
        BY <3>2, <3>3, StoredOrFailed
      <4> QED
        BY <3>2, <3>3, <4>1 DEF TypeOK
    <3> QED
      BY <2>1, <3>1, <3>4 DEF AttributeStored, TypeOK, loop
  <2>2. ASSUME NEW e \in attributing, AttributePublished(e) PROVE TypeOK'
    <3>1. e \in Event /\ e.key \in Pids
      BY DEF TypeOK, Event
    <3>2. wires' \in [Pids -> Seq(Notification)]
      BY <2>2, <3>1, CastType, NoticeType DEF AttributePublished
    <3> QED
      BY <2>2, <3>1, <3>2 DEF AttributePublished, TypeOK, disks, loop
  <2> QED
    BY <1>5, <2>1, <2>2 DEF AttributeCall
<1>6. ASSUME NEW k \in Keys, Registers(k) \/ Unregisters(k) PROVE TypeOK'
  BY <1>6 DEF Registers, Unregisters, TypeOK, disks, loop, out
<1>7. ASSUME NEW f \in AgentFiles, AgentStarts(f) \/ AgentDone(f) PROVE TypeOK'
  BY <1>7 DEF AgentStarts, AgentDone, TypeOK, disks, loop, out
<1>8. CASE ClientSubscribes \/ HistoryCall \/ QueriesTree
  <2>1. /\ Len(wires[Subscribed]) \in Nat /\ trees[Subscribed] \subseteq Names
    BY KeysAssumption, LenProperties DEF TypeOK, Pids
  <2>2. RowsOf(Subscribed) \subseteq Event
    BY ElementOfSeq DEF RowsOf, TypeOK
  <2>3. client' \in [from: Nat, asked: SUBSET {"events", "failed", "tree"}, history: SUBSET Event,
                     picture: SUBSET Names, joined: BOOLEAN]
    BY <1>8, <2>1, <2>2
    DEF ClientSubscribes, HistoryCall, QueriesEvents, QueryFails, QueriesTree, TypeOK
  <2>4. UNCHANGED <<disks, life, loop, server, out>>
    BY <1>8 DEF ClientSubscribes, HistoryCall, QueriesEvents, QueryFails, QueriesTree
  <2> QED
    BY <2>3, <2>4 DEF TypeOK, disks, loop, server, out
<1>9. CASE StopsRunning \/ StopsWatcher
  BY <1>9 DEF StopsRunning, StopsWatcher, TypeOK, disks, loop, server, out
<1>10. CASE Exits
  <2>1. rows' \in Seq(Event)
    <3>1. CASE UNCHANGED rows
      BY <3>1 DEF TypeOK
    <3>2. CASE At("persist") /\ rows' = Append(rows, cur[1])
      BY <3>2, Places, InHand, AppendedRow
    <3> QED
      BY <1>10, <3>1, <3>2 DEF Exits
  <2> QED
    BY <1>10, <2>1 DEF Exits, TypeOK, disks, loop, server
<1>11. CASE UNCHANGED vars
  BY <1>11 DEF vars, TypeOK, disks, loop, server, out
<1>12. CASE Crosses
  BY <1>12 DEF Crosses, TypeOK, disks, loop, out
<1> QED
  BY <1>2, <1>3, <1>4, <1>5, <1>6, <1>7, <1>8, <1>9, <1>10, <1>11, <1>12 DEF Next

(* The store, the wires, the trees and what the loop carries keep their    *)
(* shapes: an event or a patch is never half made between two steps.       *)
THEOREM Types == Spec => []TypeOK
  BY InitTypes, StepTypes, PTL DEF Spec

-----------------------------------------------------------------------------
(* What was seen is stored.                                                *)

(* The steps that touch neither the loop, the store, the wires nor the     *)
(* client: the disk's, those of the projects map and of the agents, and    *)
(* the crossing of the subscription manager's locks.                       *)
LEMMA OtherSteps ==
  ASSUME Next
  PROVE  \/ UNCHANGED <<life, loop, attributing, out, client>>
         \/ Loop \/ AttributeCall
         \/ ClientSubscribes \/ HistoryCall \/ QueriesTree
         \/ StopsRunning \/ StopsWatcher \/ Exits
<1>1. ASSUME NEW f \in Files, Creates(f) \/ Writes(f) \/ Removes(f)
      PROVE  UNCHANGED <<life, loop, attributing, out, client>>
  BY <1>1 DEF Creates, Writes, Removes, Reports, server
<1>2. ASSUME NEW f \in Files, NEW g \in Files, Renames(f, g)
      PROVE  UNCHANGED <<life, loop, attributing, out, client>>
  BY <1>2 DEF Renames, Reports, server
<1>3. ASSUME NEW k \in Keys, Registers(k) \/ Unregisters(k)
      PROVE  UNCHANGED <<life, loop, attributing, out, client>>
  BY <1>3 DEF Registers, Unregisters
<1>4. ASSUME NEW f \in AgentFiles, AgentStarts(f) \/ AgentDone(f)
      PROVE  UNCHANGED <<life, loop, attributing, out, client>>
  BY <1>4 DEF AgentStarts, AgentDone
<1>5. CASE Crosses
  BY <1>5 DEF Crosses
<1> QED
  BY <1>1, <1>2, <1>3, <1>4, <1>5 DEF Next

(* The event of an attribute request, made when its row is inserted.       *)
LEMMA AttributeStores ==
  ASSUME TypeOK, NEW f \in Files, AttributeStored(f, Subscribed)
  PROVE  \E e \in Event :
           /\ \/ Inserts(e) /\ attributing' = attributing \cup {e}
              \/ InsertFails(e) /\ UNCHANGED attributing
           /\ Inserts(e) \/ InsertFails(e)
<1> DEFINE e == [n |-> made + 1, file |-> f, type |-> "modified", key |-> Subscribed,
                 src |-> "stated"]
<1>1. made + 1 \in 1 .. MaxEvents
  BY MaxEventsAssumption DEF AttributeStored, TypeOK
<1>2. e \in Event
  BY <1>1, KeysAssumption DEF Event, Pids
<1>3. \/ Inserts(e) /\ attributing' = attributing \cup {e}
      \/ InsertFails(e) /\ UNCHANGED attributing
  BY DEF AttributeStored
<1> QED
  BY <1>2, <1>3

Kept(e) == e \in failed \/ Row(e)

(* No step deletes a row or forgets a failure: pruning is Storage's, and   *)
(* takes only rows past the retention.                                     *)
LEMMA KeptStays ==
  ASSUME TypeOK, [Next]_vars
  PROVE  \A e : (Kept(e) => Kept(e)') /\ (Row(e) => Row(e)')
<1>1. ASSUME UNCHANGED <<rows, failed>> PROVE \A e : (Kept(e) => Kept(e)') /\ (Row(e) => Row(e)')
  BY <1>1 DEF Kept, Row
<1>2. CASE Loop
  <2>1. CASE Persists
    <3>1. cur[1] \in Event
      BY <2>1, Places, InHand DEF Persists
    <3> QED
      BY <2>1, <3>1, StoredOrFailed DEF Persists, Kept
  <2>2. CASE ~Persists
    <3>1. UNCHANGED <<rows, failed>>
      BY <1>2, <2>2 DEF Loop, Receives, Remaps, Attributes, Publishes, AppliesToTree, Announces, Schedules, out
    <3> QED
      BY <1>1, <3>1
  <2> QED
    BY <2>1, <2>2
<1>3. CASE AttributeCall
  <2>1. ASSUME NEW f \in Files, AttributeStored(f, Subscribed)
        PROVE  \A e : (Kept(e) => Kept(e)') /\ (Row(e) => Row(e)')
    BY <2>1, AttributeStores, StoredOrFailed DEF Kept
  <2>2. ASSUME NEW e \in attributing, AttributePublished(e) PROVE UNCHANGED <<rows, failed>>
    BY <2>2 DEF AttributePublished
  <2> QED
    BY <1>1, <1>3, <2>1, <2>2 DEF AttributeCall
<1>4. CASE Exits
  <2>1. CASE UNCHANGED rows
    BY <1>1, <1>4, <2>1 DEF Exits
  <2>2. CASE At("persist") /\ rows' = Append(rows, cur[1])
    BY <1>4, <2>2, Places, InHand, AppendedRow DEF Exits, Kept
  <2> QED
    BY <1>4, <2>1, <2>2 DEF Exits
<1>5. CASE \/ UNCHANGED vars \/ UNCHANGED <<life, loop, attributing, out, client>>
           \/ ClientSubscribes \/ HistoryCall \/ QueriesTree \/ StopsRunning \/ StopsWatcher
  <2>1. UNCHANGED <<rows, failed>>
    BY <1>5 DEF vars, out, ClientSubscribes, HistoryCall, QueriesEvents, QueryFails, QueriesTree,
                StopsRunning, StopsWatcher
  <2> QED
    BY <1>1, <2>1
<1> QED
  BY <1>2, <1>3, <1>4, <1>5, OtherSteps

Told == UNION {WireEvents(k) : k \in Pids}

(* A broadcast tells of its own event and of no other. *)
LEMMA CastTells ==
  ASSUME TypeOK, NEW k \in Pids, NEW notice \in Notification, Cast(k, notice)
  PROVE  \A e \in Told' : e \in Told \/ (notice.is = "event" /\ e = notice.of)
<1>1. ASSUME NEW e \in Told' PROVE e \in Told \/ (notice.is = "event" /\ e = notice.of)
  <2>1. PICK o \in Pids : e \in WireEvents(o)'
    BY <1>1 DEF Told
  <2>2. PICK i \in 1 .. Len(wires'[o]) : wires'[o][i].is = "event" /\ e = wires'[o][i].of
    BY <2>1 DEF WireEvents
  <2>3. CASE o = k
    <3>1. CASE i = Len(wires[k]) + 1
      BY <2>2, <2>3, <3>1, CastType
    <3>2. CASE i # Len(wires[k]) + 1
      <4>1. i \in 1 .. Len(wires[k]) /\ wires'[k][i] = wires[k][i]
        BY <2>3, <3>2, CastType
      <4>2. e \in WireEvents(k)
        BY <2>2, <2>3, <4>1 DEF WireEvents
      <4> QED
        BY <4>2 DEF Told
    <3> QED
      BY <3>1, <3>2
  <2>4. CASE o # k
    <3>1. wires'[o] = wires[o]
      BY <2>4, CastType
    <3>2. e \in WireEvents(o)
      BY <2>2, <3>1 DEF WireEvents
    <3> QED
      BY <3>2 DEF Told
  <2> QED
    BY <2>3, <2>4
<1> QED
  BY <1>1

(* Whatever is about to be announced is in the store already: the event in *)
(* the loop's hand from its fourth step on, and that of every attribute    *)
(* request; the tree's patches announce no event.                          *)
DurableInv ==
  /\ \A e \in analysed \cup Told : Kept(e)
  /\ pos \in 4 .. 7 => Kept(cur[1])
  /\ \A e \in attributing : Kept(e)
  /\ patch # <<>> => patch[1].is \in {"add", "remove"}

(* A daemon that has started has told nobody of anything. *)
LEMMA DurableInit == Init => DurableInv
<1> SUFFICES ASSUME Init PROVE DurableInv
  OBVIOUS
<1>1. Told = {}
  <2>1. \A k \in Pids : Len(wires[k]) = 0
    BY DEF Init
  <2>2. \A k \in Pids : WireEvents(k) = {}
    BY <2>1 DEF WireEvents
  <2> QED
    BY <2>2 DEF Told
<1> QED
  BY <1>1 DEF Init, DurableInv

(* Each step keeps it: the loop and attribute insert an event before they  *)
(* announce it.                                                            *)
LEMMA DurableStep == TypeOK /\ DurableInv /\ [Next]_vars => DurableInv'
<1> SUFFICES ASSUME TypeOK, DurableInv, [Next]_vars PROVE DurableInv'
  OBVIOUS
<1>0. \A e : Kept(e) => Kept(e)'
  BY KeptStays
<1>1. ASSUME UNCHANGED <<pos, cur, patch, attributing, wires, analysed>> PROVE DurableInv'
  <2>1. Told' = Told
    BY <1>1 DEF Told, WireEvents
  <2> QED
    BY <1>0, <1>1, <2>1 DEF DurableInv
<1>2. ASSUME UNCHANGED wires PROVE Told' = Told
  BY <1>2 DEF Told, WireEvents
<1>3. CASE Loop
  <2>1. CASE Receives
    <3>1. UNCHANGED <<patch, attributing, wires, analysed>> /\ pos' \in {0, 1}
      BY <2>1 DEF Receives, server, out
    <3> QED
      BY <1>0, <1>2, <3>1 DEF DurableInv
  <2>2. CASE Remaps \/ Attributes
    <3>1. UNCHANGED <<patch, attributing, wires, analysed>> /\ pos' \in {2, 3}
      BY <2>2, Places, OnwardGoes DEF Remaps, Attributes, server, out
    <3> QED
      BY <1>0, <1>2, <3>1 DEF DurableInv
  <2>3. CASE Persists
    <3>1. cur[1] \in Event /\ UNCHANGED <<cur, patch, attributing, wires, analysed>>
      BY <2>3, Places, InHand DEF Persists, server
    <3>2. Kept(cur[1])'
      BY <2>3, <3>1, StoredOrFailed DEF Persists, Kept
    <3> QED
      BY <1>0, <1>2, <3>1, <3>2 DEF DurableInv
  <2>4. CASE Publishes
    <3>1. pos = 4 /\ cur[1] \in Event /\ cur[1].key \in Pids
      BY <2>4, Places, InHand DEF Publishes, Event
    <3>2. \A e \in Told' : e \in Told \/ e = cur[1]
      BY <2>4, <3>1, CastTells, NoticeType DEF Publishes
    <3>3. UNCHANGED <<cur, patch, attributing, analysed>>
      BY <2>4 DEF Publishes, server
    <3> QED
      BY <1>0, <3>1, <3>2, <3>3 DEF DurableInv
  <2>5. CASE AppliesToTree
    <3>1. pos = 5 /\ UNCHANGED <<cur, attributing, wires, analysed>>
      BY <2>5, Places DEF AppliesToTree, server
    <3>2. patch' # <<>> => patch'[1].is \in {"add", "remove"}
      <4>1. CASE cur[1].key \in Restored
        <5>1. cur[1] \in Event /\ trees[cur[1].key] \in SUBSET Names
          BY <3>1, <4>1, InHand DEF TypeOK
        <5> QED
          BY <2>5, <4>1, <5>1, PatchIsDifference DEF AppliesToTree
      <4>2. CASE cur[1].key \notin Restored
        BY <2>5, <4>2 DEF AppliesToTree, DurableInv
      <4> QED
        BY <4>1, <4>2
    <3> QED
      BY <1>0, <1>2, <3>1, <3>2 DEF DurableInv
  <2>6. CASE Announces
    <3>1. pos = 6 /\ cur[1] \in Event /\ cur[1].key \in Pids
      BY <2>6, Places, InHand DEF Announces, Event
    <3>2. UNCHANGED <<cur, attributing, analysed>> /\ patch' = <<>>
      BY <2>6 DEF Announces, server
    <3>3. Told' \subseteq Told
      <4>1. CASE patch # <<>>
        <5>1. patch[1] \in Notification /\ patch[1].is # "event"
          BY <4>1 DEF TypeOK, DurableInv
        <5> QED
          BY <2>6, <3>1, <4>1, <5>1, CastTells DEF Announces
      <4>2. CASE patch = <<>>
        BY <1>2, <2>6, <4>2 DEF Announces
      <4> QED
        BY <4>1, <4>2
    <3> QED
      BY <1>0, <3>1, <3>2, <3>3 DEF DurableInv
  <2>7. CASE Schedules
    <3>1. pos = 7 /\ pos' = 0 /\ UNCHANGED <<cur, patch, attributing, wires>>
      BY <2>7, Places, OnwardGoes DEF Schedules, server
    <3>2. analysed' \subseteq analysed \cup {cur[1]}
      BY <2>7 DEF Schedules
    <3> QED
      BY <1>0, <1>2, <3>1, <3>2 DEF DurableInv
  <2> QED
    BY <1>3, <2>1, <2>2, <2>3, <2>4, <2>5, <2>6, <2>7 DEF Loop
<1>4. CASE AttributeCall
  <2>1. ASSUME NEW f \in Files, AttributeStored(f, Subscribed) PROVE DurableInv'
    <3>1. UNCHANGED <<pos, cur, patch, wires, analysed>>
      BY <2>1 DEF AttributeStored, loop
    <3>2. \A e \in attributing' : e \in attributing \/ Kept(e)'
      BY <2>1, AttributeStores, StoredOrFailed DEF Kept
    <3> QED
      BY <1>0, <1>2, <3>1, <3>2 DEF DurableInv
  <2>2. ASSUME NEW e \in attributing, AttributePublished(e) PROVE DurableInv'
    <3>1. e \in Event /\ e.key \in Pids
      BY DEF TypeOK, Event
    <3>2. UNCHANGED <<pos, cur, patch, analysed>> /\ attributing' \subseteq attributing
      BY <2>2 DEF AttributePublished, loop
    <3>3. \A x \in Told' : x \in Told \/ x = e
      BY <2>2, <3>1, CastTells, NoticeType DEF AttributePublished
    <3> QED
      BY <1>0, <3>2, <3>3 DEF DurableInv
  <2> QED
    BY <1>4, <2>1, <2>2 DEF AttributeCall
<1>5. CASE \/ UNCHANGED vars \/ UNCHANGED <<life, loop, attributing, out, client>>
           \/ ClientSubscribes \/ HistoryCall \/ QueriesTree \/ StopsRunning \/ StopsWatcher
           \/ Exits
  <2>1. UNCHANGED <<pos, cur, patch, attributing, wires, analysed>>
    BY <1>5 DEF vars, loop, server, out, ClientSubscribes, HistoryCall, QueriesEvents, QueryFails,
                QueriesTree, StopsRunning, StopsWatcher, Exits
  <2> QED
    BY <1>1, <2>1
<1> QED
  BY <1>3, <1>4, <1>5, OtherSteps

(* What a subscriber was told, or the analysis was given, is in the store  *)
(* exactly as announced unless its insert failed, whatever the loop, the   *)
(* attribute requests and the shutdown interleave, for any number of       *)
(* files, projects and events.                                             *)
THEOREM SeenIsStored == Spec => []SeenIsDurable
<1>1. DurableInv => SeenIsDurable
  BY DEF DurableInv, SeenIsDurable, Told, Kept, Row
<1> QED
  BY <1>1, InitTypes, StepTypes, DurableInit, DurableStep, PTL DEF Spec

-----------------------------------------------------------------------------
(* Catching up.                                                            *)

(* The client hears this notification on the wire of its project. *)
Hears(notice) ==
  \E i \in client.from + 1 .. Len(wires[Subscribed]) : wires[Subscribed][i] = notice

(* A stored event on its way to the wire: in the loop's hand at the step   *)
(* that broadcasts, or an attribute request's.                             *)
OnItsWay(e) == e \in attributing \/ (cur = <<e>> /\ pos = 4)

CatchUpInv ==
  /\ client.from \in Nat /\ client.from <= Len(wires[Subscribed])
  /\ client.asked # {} => client.joined
  /\ "events" \in client.asked /\ life # "exited" =>
       \A e : Row(e) /\ e.key = Subscribed => e \in client.history \/ Hears(EventNotice(e)) \/ OnItsWay(e)

(* The client's own connection carries notifications. *)
LEMMA WireOfTheClient ==
  ASSUME TypeOK
  PROVE  /\ Subscribed \in Pids /\ wires[Subscribed] \in Seq(Notification)
         /\ Len(wires[Subscribed]) \in Nat
  BY KeysAssumption, LenProperties DEF TypeOK, Pids

(* A broadcast is heard by who listens to that wire; nothing heard before  *)
(* is lost.                                                                *)
LEMMA CastIsHeard ==
  ASSUME TypeOK, CatchUpInv, UNCHANGED client,
         NEW k \in Pids, NEW notice \in Notification, Cast(k, notice)
  PROVE  /\ client'.from \in Nat /\ client'.from <= Len(wires'[Subscribed])
         /\ \A n : Hears(n) => Hears(n)'
         /\ k = Subscribed => Hears(notice)'
<1>1. client.from \in Nat /\ client.from <= Len(wires[Subscribed]) /\ Len(wires[Subscribed]) \in Nat
  BY WireOfTheClient DEF CatchUpInv
<1>2. CASE k = Subscribed
  <2>1. /\ Len(wires'[Subscribed]) = Len(wires[Subscribed]) + 1
        /\ wires'[Subscribed][Len(wires[Subscribed]) + 1] = notice
        /\ \A i \in 1 .. Len(wires[Subscribed]) : wires'[Subscribed][i] = wires[Subscribed][i]
    BY <1>2, CastType
  <2> QED
    BY <1>1, <2>1 DEF Hears
<1>3. CASE k # Subscribed
  <2>1. wires'[Subscribed] = wires[Subscribed]
    BY <1>3, CastType, WireOfTheClient
  <2> QED
    BY <1>1, <1>3, <2>1 DEF Hears
<1> QED
  BY <1>2, <1>3

(* Before the subscription nothing is owed. *)
LEMMA CatchUpInit == Init => CatchUpInv
<1> SUFFICES ASSUME Init PROVE CatchUpInv
  OBVIOUS
<1>1. Len(wires[Subscribed]) = 0
  BY KeysAssumption DEF Init, Pids
<1> QED
  BY <1>1 DEF Init, CatchUpInv, Unjoined

(* Each step keeps it: what is stored after the subscription is sent on    *)
(* the channel it holds.                                                   *)
LEMMA CatchUpStep == TypeOK /\ CatchUpInv /\ [Next]_vars => CatchUpInv'
<1> SUFFICES ASSUME TypeOK, CatchUpInv, [Next]_vars PROVE CatchUpInv'
  OBVIOUS
<1>0. life' # "exited" => life # "exited"
  BY DEF Next, vars, Creates, Writes, Removes, Renames, Reports, Loop, Receives, Remaps, Attributes,
         Persists, Publishes, AppliesToTree, Announces, Schedules, AttributeCall, AttributeStored,
         AttributePublished, Registers, Unregisters, AgentStarts, AgentDone, Crosses, ClientSubscribes,
         HistoryCall, QueriesEvents, QueryFails, QueriesTree, StopsRunning, StopsWatcher, Exits
<1>1. ASSUME UNCHANGED <<wires, client>>,
             \A e : Row(e)' => Row(e) \/ OnItsWay(e)',
             \A e : OnItsWay(e) => OnItsWay(e)'
      PROVE  CatchUpInv'
  BY <1>0, <1>1 DEF CatchUpInv, Hears
<1>2. ASSUME UNCHANGED rows PROVE \A e : Row(e)' => Row(e)
  BY <1>2 DEF Row
<1>3. CASE Loop
  <2>1. CASE Receives \/ Remaps \/ Attributes \/ AppliesToTree \/ Schedules
    <3>1. UNCHANGED <<wires, client, rows, attributing>> /\ pos # 4
      BY <2>1, Places DEF Receives, Remaps, Attributes, AppliesToTree, Schedules, server, out
    <3> QED
      BY <1>1, <1>2, <3>1 DEF OnItsWay
  <2>2. CASE Persists
    <3>1. cur[1] \in Event /\ cur = <<cur[1]>> /\ pos = 3 /\ pos' = 4
      BY <2>2, Places, InHand, OnwardGoes DEF Persists
    <3>2. UNCHANGED <<wires, client, cur, attributing>>
      BY <2>2 DEF Persists, server
    <3>3. \A e : Row(e)' => Row(e) \/ e = cur[1]
      BY <2>2, <3>1, StoredOrFailed DEF Persists
    <3> QED
      BY <1>1, <3>1, <3>2, <3>3 DEF OnItsWay
  <2>3. CASE Publishes
    <3>1. cur[1] \in Event /\ cur[1].key \in Pids
      BY <2>3, Places, InHand DEF Publishes, Event
    <3>2. UNCHANGED <<client, rows, cur, attributing>> /\ Cast(cur[1].key, EventNotice(cur[1]))
      BY <2>3 DEF Publishes, server
    <3>3. /\ client'.from \in Nat /\ client'.from <= Len(wires'[Subscribed])
          /\ \A n : Hears(n) => Hears(n)'
          /\ cur[1].key = Subscribed => Hears(EventNotice(cur[1]))'
      BY <3>1, <3>2, CastIsHeard, NoticeType
    <3>4. \A e : OnItsWay(e) => OnItsWay(e)' \/ e = cur[1]
      BY <3>2 DEF OnItsWay
    <3>5. EventNotice(cur[1])' = EventNotice(cur[1])
      BY <3>2 DEF EventNotice
    <3>6. \A e : EventNotice(e)' = EventNotice(e)
      BY DEF EventNotice
    <3> QED
      BY <1>0, <1>2, <3>2, <3>3, <3>4, <3>5, <3>6 DEF CatchUpInv
  <2>4. CASE Announces
    <3>1. cur[1] \in Event /\ cur[1].key \in Pids /\ pos = 6
      BY <2>4, Places, InHand DEF Announces, Event
    <3>2. UNCHANGED <<client, rows, cur, attributing>>
      BY <2>4 DEF Announces, server
    <3>3. CASE patch # <<>>
      <4>1. patch[1] \in Notification /\ Cast(cur[1].key, patch[1])
        BY <2>4, <3>3 DEF Announces, TypeOK
      <4>2. /\ client'.from \in Nat /\ client'.from <= Len(wires'[Subscribed])
            /\ \A n : Hears(n) => Hears(n)'
        BY <3>1, <3>2, <4>1, CastIsHeard
      <4> QED
        BY <1>0, <1>2, <3>1, <3>2, <4>2 DEF CatchUpInv, OnItsWay, EventNotice
    <3>4. CASE patch = <<>>
      <4>1. UNCHANGED wires
        BY <2>4, <3>4 DEF Announces
      <4> QED
        BY <1>1, <1>2, <3>1, <3>2, <4>1 DEF OnItsWay
    <3> QED
      BY <3>3, <3>4
  <2> QED
    BY <1>3, <2>1, <2>2, <2>3, <2>4 DEF Loop
<1>4. CASE AttributeCall
  <2>1. ASSUME NEW f \in Files, AttributeStored(f, Subscribed) PROVE CatchUpInv'
    <3>1. UNCHANGED <<pos, cur, wires, client>>
      BY <2>1 DEF AttributeStored, loop
    <3>2. PICK e \in Event :
            /\ \/ Inserts(e) /\ attributing' = attributing \cup {e}
               \/ InsertFails(e) /\ UNCHANGED attributing
            /\ Inserts(e) \/ InsertFails(e)
      BY <2>1, AttributeStores
    <3>3. \A x : Row(x)' => Row(x) \/ x \in attributing'
      <4>1. CASE Inserts(e) /\ attributing' = attributing \cup {e}
        BY <4>1, StoredOrFailed
      <4>2. CASE InsertFails(e) /\ UNCHANGED attributing
        BY <4>2, <1>2 DEF InsertFails
      <4> QED
        BY <3>2, <4>1, <4>2
    <3> QED
      BY <1>1, <3>1, <3>2, <3>3 DEF OnItsWay
  <2>2. ASSUME NEW e \in attributing, AttributePublished(e) PROVE CatchUpInv'
    <3>1. e \in Event /\ e.key \in Pids
      BY DEF TypeOK, Event
    <3>2. UNCHANGED <<client, rows, cur, pos>> /\ Cast(e.key, EventNotice(e))
      BY <2>2 DEF AttributePublished, loop
    <3>3. /\ client'.from \in Nat /\ client'.from <= Len(wires'[Subscribed])
          /\ \A n : Hears(n) => Hears(n)'
          /\ e.key = Subscribed => Hears(EventNotice(e))'
      BY <3>1, <3>2, CastIsHeard, NoticeType
    <3>4. \A x : OnItsWay(x) => OnItsWay(x)' \/ x = e
      BY <2>2, <3>2 DEF OnItsWay, AttributePublished
    <3>5. \A x : EventNotice(x)' = EventNotice(x)
      BY DEF EventNotice
    <3> QED
      BY <1>0, <1>2, <3>2, <3>3, <3>4, <3>5 DEF CatchUpInv
  <2> QED
    BY <1>4, <2>1, <2>2 DEF AttributeCall
<1>5. CASE ClientSubscribes
  <2>1. /\ client'.from = Len(wires[Subscribed]) /\ client'.joined
        /\ client'.asked = client.asked /\ client.asked = {}
        /\ UNCHANGED wires
    BY <1>5 DEF ClientSubscribes, CatchUpInv, TypeOK, out
  <2> QED
    BY <2>1, WireOfTheClient DEF CatchUpInv
<1>6. CASE HistoryCall \/ QueriesTree
  <2>1. /\ client'.from = client.from /\ client'.joined = client.joined /\ client.joined
        /\ UNCHANGED <<wires, rows, cur, pos, attributing>>
    BY <1>6 DEF HistoryCall, QueriesEvents, QueryFails, QueriesTree, TypeOK, out, loop, server
  <2>2. "events" \in client'.asked =>
          \/ client'.history = RowsOf(Subscribed)
          \/ "events" \in client.asked /\ client'.history = client.history
    <3>1. CASE QueriesEvents
      BY <3>1 DEF QueriesEvents, TypeOK
    <3>2. CASE QueryFails \/ QueriesTree
      <4>1. client'.history = client.history
        BY <3>2 DEF QueryFails, QueriesTree, TypeOK
      <4>2. client'.asked \subseteq client.asked \cup {"failed", "tree"}
        BY <3>2 DEF QueryFails, QueriesTree, TypeOK
      <4> QED
        BY <4>1, <4>2
    <3> QED
      BY <1>6, <3>1, <3>2 DEF HistoryCall
  <2>3. \A e : Row(e) /\ e.key = Subscribed => e \in RowsOf(Subscribed)
    BY DEF Row, RowsOf
  <2>4. \A n : Hears(n)' <=> Hears(n)
    BY <2>1 DEF Hears
  <2>5. \A e : (OnItsWay(e)' <=> OnItsWay(e)) /\ (Row(e)' <=> Row(e)) /\ EventNotice(e)' = EventNotice(e)
    BY <2>1 DEF OnItsWay, Row, EventNotice
  <2>6. /\ client'.from \in Nat /\ client'.from <= Len(wires'[Subscribed])
        /\ client'.asked # {} => client'.joined
    BY <2>1 DEF CatchUpInv
  <2> QED
    BY <1>0, <2>2, <2>3, <2>4, <2>5, <2>6 DEF CatchUpInv
<1>7. CASE Exits
  <2>1. UNCHANGED <<wires, client>> /\ life' = "exited"
    BY <1>7 DEF Exits
  <2> QED
    BY <2>1 DEF CatchUpInv
<1>8. CASE \/ UNCHANGED vars \/ UNCHANGED <<life, loop, attributing, out, client>>
           \/ StopsRunning \/ StopsWatcher
  <2>1. UNCHANGED <<pos, cur, attributing, wires, rows, client>>
    BY <1>8 DEF vars, loop, server, out, StopsRunning, StopsWatcher
  <2> QED
    BY <1>1, <1>2, <2>1 DEF OnItsWay
<1> QED
  BY <1>3, <1>4, <1>5, <1>6, <1>7, <1>8, OtherSteps

(* A client that subscribes and then asks for the history misses nothing:  *)
(* a stored event of its project is in the answer, was or will be heard,   *)
(* whichever of the loop and the attribute requests stored it.             *)
THEOREM CatchUpMissesNothing == Spec => []CatchUpComplete
<1>1. TypeOK /\ CatchUpInv => CatchUpComplete
  <2> SUFFICES ASSUME TypeOK, CatchUpInv, "events" \in client.asked, life # "exited",
                      NEW e \in RowsOf(Subscribed)
               PROVE  \/ e \in client.history
                      \/ Hears(EventNotice(e))
                      \/ e \in attributing
                      \/ cur = <<e>> /\ Before("publish")
    BY DEF CatchUpComplete, Hears
  <2>1. Row(e) /\ e.key = Subscribed
    BY DEF RowsOf, Row
  <2> QED
    BY <2>1, Places DEF CatchUpInv, OnItsWay
<1> QED
  BY <1>1, InitTypes, StepTypes, CatchUpInit, CatchUpStep, PTL DEF Spec

-----------------------------------------------------------------------------
(* The tree a client rebuilds from patches.                                *)

(* The patches about a node the client has heard, and what the last says.  *)
About(x) == {i \in Heard : wires[Subscribed][i].of = x}
LastIsAdd(x) ==
  \E i \in About(x) : wires[Subscribed][i].is = "add" /\ \A j \in About(x) : j <= i

(* A patch is under way that this client will hear. *)
Pending == patch # <<>> /\ cur[1].key = Subscribed

(* The node is in the tree as the patches already broadcast leave it. *)
Announced(x) ==
  IF Pending /\ patch[1].of = x THEN patch[1].is = "remove" ELSE x \in trees[Subscribed]

(* What the heard patches say of a node is what the announced tree has,    *)
(* and where they say nothing, the picture the client was given has it.    *)
PatchInv ==
  /\ client.from \in Nat /\ client.from <= Len(wires[Subscribed])
  /\ client.asked # {} => client.joined
  /\ patch # <<>> => pos = 6 /\ patch[1].is \in {"add", "remove"}
  /\ Pending => (patch[1].is = "add" <=> patch[1].of \in trees[Subscribed])
  /\ client.joined =>
       \A x \in Names : About(x) # {} => (LastIsAdd(x) <=> Announced(x))
  /\ "tree" \in client.asked =>
       \A x \in Names : About(x) = {} => (x \in client.picture <=> Announced(x))

(* A broadcast is heard as a patch of its node, if it is one and of the    *)
(* client's project, and changes nothing else of what was heard.           *)
LEMMA CastAboutNodes ==
  ASSUME TypeOK, PatchInv, UNCHANGED client,
         NEW k \in Pids, NEW notice \in Notification, Cast(k, notice)
  PROVE  /\ client'.from \in Nat /\ client'.from <= Len(wires'[Subscribed])
         /\ \A x : k # Subscribed \/ notice.is = "event" \/ notice.of # x
                     => About(x)' = About(x) /\ (LastIsAdd(x)' <=> LastIsAdd(x))
         /\ k = Subscribed /\ notice.is \in {"add", "remove"} =>
              About(notice.of)' # {} /\ (LastIsAdd(notice.of)' <=> notice.is = "add")
<1> DEFINE w == wires[Subscribed]
           n == Len(wires[Subscribed])
<1>1. client.from \in Nat /\ client.from <= n /\ n \in Nat
  BY WireOfTheClient DEF PatchInv
<1>2. CASE k # Subscribed
  <2>1. wires'[Subscribed] = wires[Subscribed]
    BY <1>2, CastType, WireOfTheClient
  <2> QED
    BY <1>1, <1>2, <2>1 DEF About, Heard, LastIsAdd
<1>3. CASE k = Subscribed
  <2>1. /\ Len(wires'[Subscribed]) = n + 1
        /\ wires'[Subscribed][n + 1] = notice
        /\ \A i \in 1 .. n : wires'[Subscribed][i] = w[i]
    BY <1>3, CastType
  <2>2. Heard' = Heard \cup (IF notice.is \in {"add", "remove"} THEN {n + 1} ELSE {})
    BY <1>1, <2>1 DEF Heard
  <2>3. Heard \subseteq 1 .. n
    BY <1>1 DEF Heard
  <2>4. ASSUME NEW x, notice.is = "event" \/ notice.of # x PROVE About(x)' = About(x)
    BY <2>1, <2>2, <2>3, <2>4 DEF About
  <2>5. ASSUME NEW x, notice.is = "event" \/ notice.of # x PROVE LastIsAdd(x)' <=> LastIsAdd(x)
    <3>1. About(x)' = About(x) /\ About(x) \subseteq 1 .. n
      BY <2>3, <2>4, <2>5 DEF About
    <3> QED
      BY <2>1, <3>1 DEF LastIsAdd
  <2>6. ASSUME notice.is \in {"add", "remove"}
        PROVE  About(notice.of)' # {} /\ (LastIsAdd(notice.of)' <=> notice.is = "add")
    <3>1. About(notice.of)' \subseteq 1 .. n + 1 /\ n + 1 \in About(notice.of)'
      <4>1. Heard' = Heard \cup {n + 1}
        BY <2>2, <2>6
      <4>2. n + 1 \in About(notice.of)'
        BY <2>1, <4>1 DEF About
      <4>3. Heard' \subseteq 1 .. n + 1
        <5>1. 1 .. n \subseteq 1 .. n + 1 /\ n + 1 \in 1 .. n + 1
          BY <1>1
        <5> HIDE DEF n
        <5> QED
          BY <2>3, <4>1, <5>1
      <4> QED
        BY <4>2, <4>3 DEF About
    <3>2. \A i \in About(notice.of)' : (\A j \in About(notice.of)' : j <= i) <=> i = n + 1
      BY <1>1, <3>1
    <3> QED
      BY <2>1, <3>1, <3>2 DEF LastIsAdd
  <2> QED
    BY <1>1, <1>3, <2>1, <2>4, <2>5, <2>6
<1> QED
  BY <1>2, <1>3

(* At the start there is no tree and no client that has one. *)
LEMMA PatchInit == Init => PatchInv
<1> SUFFICES ASSUME Init PROVE PatchInv
  OBVIOUS
<1>1. Len(wires[Subscribed]) = 0
  BY KeysAssumption DEF Init, Pids
<1> QED
  BY <1>1 DEF Init, PatchInv, Unjoined, Pending

(* Each step keeps it: a tree changes only together with the patch that    *)
(* goes to the wires.                                                      *)
LEMMA PatchStep == TypeOK /\ PatchInv /\ [Next]_vars => PatchInv'
<1> SUFFICES ASSUME TypeOK, PatchInv, [Next]_vars PROVE PatchInv'
  OBVIOUS
<1>1. ASSUME UNCHANGED <<wires, client>>
      PROVE  \A x : About(x)' = About(x) /\ (LastIsAdd(x)' <=> LastIsAdd(x))
  BY <1>1 DEF About, Heard, LastIsAdd
<1>2. ASSUME UNCHANGED <<wires, client, patch, trees>>, patch = <<>>
      PROVE  PatchInv'
  <2>1. \A x : Announced(x)' <=> Announced(x)
    BY <1>2 DEF Announced, Pending
  <2>2. ~Pending'
    BY <1>2 DEF Pending
  <2> QED
    BY <1>1, <1>2, <2>1, <2>2 DEF PatchInv
<1>3. ASSUME UNCHANGED <<wires, client, patch, trees, cur, pos>>
      PROVE  PatchInv'
  <2>1. \A x : Announced(x)' <=> Announced(x)
    BY <1>3 DEF Announced, Pending
  <2>2. Pending' <=> Pending
    BY <1>3 DEF Pending
  <2> QED
    BY <1>1, <1>3, <2>1, <2>2 DEF PatchInv
<1>4. ASSUME NEW k \in Pids, NEW e \in Event, Cast(k, EventNotice(e)),
             UNCHANGED <<client, patch, trees, cur>>,
             patch # <<>> => UNCHANGED pos
      PROVE  PatchInv'
  <2>1. /\ client'.from \in Nat /\ client'.from <= Len(wires'[Subscribed])
        /\ \A x : About(x)' = About(x) /\ (LastIsAdd(x)' <=> LastIsAdd(x))
    BY <1>4, CastAboutNodes, NoticeType
  <2>2. (Pending' <=> Pending) /\ \A x : Announced(x)' <=> Announced(x)
    BY <1>4 DEF Announced, Pending
  <2> QED
    BY <1>4, <2>1, <2>2 DEF PatchInv
<1>5. CASE Loop
  <2>1. CASE Receives \/ Remaps \/ Attributes \/ Persists \/ Schedules
    <3>1. UNCHANGED <<wires, client, patch, trees>> /\ pos # 6
      BY <2>1, Places DEF Receives, Remaps, Attributes, Persists, Schedules, server, out
    <3>2. patch = <<>>
      BY <3>1 DEF PatchInv
    <3> QED
      BY <1>2, <3>1, <3>2
  <2>2. CASE Publishes
    <3>1. pos = 4 /\ cur[1] \in Event /\ cur[1].key \in Pids
      BY <2>2, Places, InHand DEF Publishes, Event
    <3>2. patch = <<>>
      BY <3>1 DEF PatchInv
    <3> QED
      BY <1>4, <2>2, <3>1, <3>2 DEF Publishes
  <2>3. CASE AppliesToTree
    <3>1. pos = 5 /\ pos' = 6 /\ cur[1] \in Event /\ patch = <<>>
      BY <2>3, Places, InHand, OnwardGoes DEF AppliesToTree, PatchInv
    <3>2. UNCHANGED <<wires, client, cur>>
      BY <2>3 DEF AppliesToTree
    <3>3. ~Pending /\ \A x : Announced(x) <=> x \in trees[Subscribed]
      BY <3>1 DEF Pending, Announced
    <3>4. CASE cur[1].key = Subscribed
      <4> DEFINE tree == trees[Subscribed]
      <4>1. tree \in SUBSET Names /\ trees'[Subscribed] = TreeAfter(tree, cur[1])
        BY <2>3, <3>4, KeysAssumption DEF AppliesToTree, TypeOK
      <4>2. patch' = PatchOf(tree, cur[1])
        BY <2>3, <3>4, KeysAssumption DEF AppliesToTree
      <4> HIDE DEF tree
      <4>3. patch' # <<>> => /\ patch'[1].is \in {"add", "remove"}
                             /\ patch'[1].is = "add" <=> patch'[1].of \notin tree
                             /\ trees'[Subscribed] = IF patch'[1].is = "add"
                                                     THEN tree \cup {patch'[1].of}
                                                     ELSE tree \ {patch'[1].of}
        BY <3>1, <4>1, <4>2, PatchIsDifference
      <4>4. patch' = <<>> => trees'[Subscribed] = tree
        BY <3>1, <4>1, <4>2, PatchIsDifference
      <4>5. Pending' <=> patch' # <<>>
        BY <3>2, <3>4 DEF Pending
      <4>6. \A x : Announced(x)' <=> x \in tree
        BY <4>3, <4>4, <4>5 DEF Announced
      <4>7. Pending' => (patch'[1].is = "add" <=> patch'[1].of \in trees'[Subscribed])
        BY <4>3, <4>5
      <4> QED
        BY <1>1, <3>1, <3>2, <3>3, <4>3, <4>6, <4>7 DEF PatchInv, tree
    <3>5. CASE cur[1].key # Subscribed
      <4>1. trees'[Subscribed] = trees[Subscribed]
        BY <2>3, <3>5, KeysAssumption DEF AppliesToTree, TypeOK
      <4>2. ~Pending'
        BY <3>2, <3>5 DEF Pending
      <4>3. \A x : Announced(x)' <=> Announced(x)
        BY <3>3, <4>1, <4>2 DEF Announced
      <4>4. patch' # <<>> => patch'[1].is \in {"add", "remove"}
        <5>1. CASE cur[1].key \in Restored
          <6>1. trees[cur[1].key] \in SUBSET Names
            BY <5>1 DEF TypeOK
          <6> QED
            BY <2>3, <3>1, <5>1, <6>1, PatchIsDifference DEF AppliesToTree
        <5>2. CASE cur[1].key \notin Restored
          BY <2>3, <3>1, <5>2 DEF AppliesToTree
        <5> QED
          BY <5>1, <5>2
      <4> QED
        BY <1>1, <3>1, <3>2, <4>2, <4>3, <4>4 DEF PatchInv
    <3> QED
      BY <3>4, <3>5
  <2>4. CASE Announces
    <3>1. pos = 6 /\ cur[1] \in Event /\ cur[1].key \in Pids
      BY <2>4, Places, InHand DEF Announces, Event
    <3>2. UNCHANGED <<client, cur, trees>> /\ patch' = <<>>
      BY <2>4 DEF Announces
    <3>3. ~Pending' /\ \A x : Announced(x)' <=> x \in trees[Subscribed]
      BY <3>2 DEF Pending, Announced
    <3>4. CASE patch = <<>>
      <4>1. UNCHANGED wires /\ patch' = patch
        BY <2>4, <3>2, <3>4 DEF Announces
      <4> QED
        BY <1>2, <3>2, <3>4, <4>1
    <3>5. CASE patch # <<>>
      <4>1. PICK notice \in Notification, k \in Pids : notice = patch[1] /\ k = cur[1].key
        BY <3>1, <3>5 DEF TypeOK
      <4>2. /\ Cast(k, notice) /\ notice.is \in {"add", "remove"}
            /\ (Pending <=> k = Subscribed)
            /\ k = Subscribed => (notice.is = "add" <=> notice.of \in trees[Subscribed])
        BY <2>4, <3>5, <4>1 DEF Announces, Pending, PatchInv
      <4>3. /\ client'.from \in Nat /\ client'.from <= Len(wires'[Subscribed])
            /\ \A x : k # Subscribed \/ notice.of # x
                        => About(x)' = About(x) /\ (LastIsAdd(x)' <=> LastIsAdd(x))
            /\ k = Subscribed =>
                 About(notice.of)' # {} /\ (LastIsAdd(notice.of)' <=> notice.is = "add")
        BY <3>2, <4>2, CastAboutNodes
      <4>4. \A x : ~(k = Subscribed /\ notice.of = x) =>
              (Announced(x)' <=> Announced(x)) /\ About(x)' = About(x) /\ (LastIsAdd(x)' <=> LastIsAdd(x))
        <5>1. \A x : ~(k = Subscribed /\ notice.of = x) => (Announced(x) <=> x \in trees[Subscribed])
          BY <4>1, <4>2 DEF Announced
        <5> QED
          BY <3>3, <4>3, <5>1
      <4>5. k = Subscribed => /\ About(notice.of)' # {}
                              /\ LastIsAdd(notice.of)' <=> Announced(notice.of)'
        BY <3>3, <4>2, <4>3
      <4>6. \A x \in Names : client'.joined /\ About(x)' # {} => (LastIsAdd(x)' <=> Announced(x)')
        BY <3>2, <4>4, <4>5 DEF PatchInv
      <4>7. \A x \in Names : "tree" \in client'.asked /\ About(x)' = {}
              => (x \in client'.picture <=> Announced(x)')
        BY <3>2, <4>4, <4>5 DEF PatchInv
      <4> QED
        BY <3>2, <3>3, <4>3, <4>6, <4>7 DEF PatchInv
    <3> QED
      BY <3>4, <3>5
  <2> QED
    BY <1>5, <2>1, <2>2, <2>3, <2>4 DEF Loop
<1>6. CASE AttributeCall
  <2>1. ASSUME NEW f \in Files, AttributeStored(f, Subscribed) PROVE PatchInv'
    <3>1. UNCHANGED <<wires, client, patch, trees, cur, pos>>
      BY <2>1 DEF AttributeStored, loop
    <3> QED
      BY <1>3, <3>1
  <2>2. ASSUME NEW e \in attributing, AttributePublished(e) PROVE PatchInv'
    <3>1. e \in Event /\ e.key \in Pids
      BY DEF TypeOK, Event
    <3> QED
      BY <1>4, <2>2, <3>1 DEF AttributePublished, loop
  <2> QED
    BY <1>6, <2>1, <2>2 DEF AttributeCall
<1>7. CASE ClientSubscribes
  <2>1. /\ client'.from = Len(wires[Subscribed])
        /\ client'.asked = {} /\ client.asked = {}
        /\ UNCHANGED <<wires, patch, trees, cur, pos>>
    BY <1>7 DEF ClientSubscribes, PatchInv, TypeOK, out, loop
  <2>2. \A x : About(x)' = {}
    BY <2>1, WireOfTheClient DEF About, Heard
  <2>3. Pending' <=> Pending
    BY <2>1 DEF Pending
  <2> QED
    BY <2>1, <2>2, <2>3, WireOfTheClient DEF PatchInv
<1>8. CASE HistoryCall \/ QueriesTree
  <2>1. /\ client'.from = client.from /\ client'.joined = client.joined /\ client.joined
        /\ UNCHANGED <<wires, patch, trees, cur, pos>>
    BY <1>8 DEF HistoryCall, QueriesEvents, QueryFails, QueriesTree, TypeOK, out, loop
  <2>2. "tree" \in client'.asked =>
          \/ "tree" \in client.asked /\ client'.picture = client.picture
          \/ patch = <<>> /\ client'.picture = trees[Subscribed]
    <3>1. CASE HistoryCall
      <4>1. client'.picture = client.picture
        BY <3>1 DEF HistoryCall, QueriesEvents, QueryFails, TypeOK
      <4>2. client'.asked \subseteq client.asked \cup {"failed", "events"}
        <5>1. CASE QueriesEvents
          BY <5>1 DEF QueriesEvents, TypeOK
        <5>2. CASE QueryFails
          BY <5>2 DEF QueryFails, TypeOK
        <5> QED
          BY <3>1, <5>1, <5>2 DEF HistoryCall
      <4> QED
        BY <4>1, <4>2
    <3>2. CASE QueriesTree
      BY <3>2 DEF QueriesTree, TypeOK
    <3> QED
      BY <1>8, <3>1, <3>2
  <2>3. Heard' = Heard
    BY <2>1 DEF Heard
  <2>4. \A x : About(x)' = About(x) /\ (LastIsAdd(x)' <=> LastIsAdd(x))
    BY <2>1, <2>3 DEF About, LastIsAdd
  <2>5. (Pending' <=> Pending) /\ \A x : Announced(x)' <=> Announced(x)
    BY <2>1 DEF Announced, Pending
  <2>6. patch = <<>> => \A x : Announced(x) <=> x \in trees[Subscribed]
    BY DEF Announced, Pending
  <2> QED
    BY <2>1, <2>2, <2>4, <2>5, <2>6 DEF PatchInv
<1>9. CASE \/ UNCHANGED vars \/ UNCHANGED <<life, loop, attributing, out, client>>
           \/ StopsRunning \/ StopsWatcher \/ Exits
  <2>1. UNCHANGED <<wires, client, patch, trees, cur, pos>>
    BY <1>9 DEF vars, loop, out, StopsRunning, StopsWatcher, Exits
  <2> QED
    BY <1>3, <2>1
<1> QED
  BY <1>5, <1>6, <1>7, <1>8, <1>9, OtherSteps

(* A client that asks for the tree after it subscribed, and applies every  *)
(* patch it hears, also those its picture already contains, has the        *)
(* daemon's own tree whenever no patch is under way: the trees lock, held  *)
(* from apply_event to the broadcast, is what makes the order right.       *)
THEOREM PatchesSuffice == Spec => []PatchesRebuildTree
<1>1. TypeOK /\ PatchInv => PatchesRebuildTree
  <2> SUFFICES ASSUME TypeOK, PatchInv, "tree" \in client.asked, patch = <<>>
               PROVE  Shown = trees[Subscribed]
    BY DEF PatchesRebuildTree
  <2>1. \A x : Announced(x) <=> x \in trees[Subscribed]
    BY DEF Announced, Pending
  <2>2. client.joined
    BY DEF PatchInv
  <2>3. \A x \in Names : x \in Shown <=> x \in trees[Subscribed]
    <3> SUFFICES ASSUME NEW x \in Names PROVE x \in Shown <=> x \in trees[Subscribed]
      OBVIOUS
    <3>1. x \in Shown <=> IF About(x) = {} THEN x \in client.picture ELSE LastIsAdd(x)
      BY Zenon DEF Shown, About, LastIsAdd
    <3> QED
      BY <2>1, <2>2, <3>1 DEF PatchInv
  <2>4. trees[Subscribed] \subseteq Names
    BY KeysAssumption DEF TypeOK
  <2>5. Shown \subseteq Names
    BY DEF Shown
  <2> QED
    BY <2>3, <2>4, <2>5
<1> QED
  BY <1>1, InitTypes, StepTypes, PatchInit, PatchStep, PTL DEF Spec

=============================================================================
