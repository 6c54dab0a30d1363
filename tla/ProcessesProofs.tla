-------------------------- MODULE ProcessesProofs --------------------------
(***************************************************************************)
(* What lives outside one daemon, for any machines, connections, starts    *)
(* and projects: daemon processes, the gateway, the Tauri plugin, the      *)
(* clients' transports and cross-machine sync.                             *)
(***************************************************************************)
EXTENDS MCProcesses, ClientTransports, FiniteSetTheorems, SequenceTheorems, TLAPS

-----------------------------------------------------------------------------
(* Processes of `ambient-fsd start`. *)

Past == {"written", "ready", "serving", "closing"}

(* A PID in the file is that of a process that has written it. *)
PidWritten == pidFile \in Processes => stage[pidFile] \in Past \cup {"dead"}

(* Whoever has written its PID and lives still has it in the file. *)
PidStays == ~contended => \A d \in Processes : stage[d] \in Past => pidFile = d

Starting == {"checked", "writing"}

(* Who has passed the check is alone, and the file names nobody alive. *)
CheckHolds ==
  ~contended => \A d \in Processes : stage[d] \in Starting =>
    /\ ~IsRunning
    /\ \A x \in Processes : stage[x] \in Starting => x = d

(* The socket path leads to who serves. *)
SocketStays ==
  ~contended => \A d \in Processes : stage[d] \in {"serving", "closing"} => socketAt = d

ProcessInv == ProcessTypeOK /\ PidWritten /\ PidStays /\ CheckHolds /\ SocketStays

(* No process runs: no file is written, and every variable has its type. *)
LEMMA ProcessInitially == ProcessInit => ProcessInv
  BY ProcessAssumption
  DEF ProcessInit, ProcessInv, ProcessTypeOK, Stages, PidWritten, PidStays, CheckHolds,
      SocketStays, Past, Starting, IsRunning

(* The variables keep their types through every step of a process or of    *)
(* `ambient-fsd stop`.                                                     *)
LEMMA ProcessTypeStep == ProcessTypeOK /\ [ProcessNext]_processVars => ProcessTypeOK'
<1> SUFFICES ASSUME ProcessTypeOK, [ProcessNext]_processVars PROVE ProcessTypeOK'
  OBVIOUS
<1> USE ProcessAssumption DEF ProcessTypeOK, Stages, Becomes
<1>1. CASE Stops
  BY <1>1 DEF Stops, IsRunning
<1>2. ASSUME NEW d \in Processes,
             \/ Forks(d) \/ Checks(d) \/ Refused(d) \/ TruncatesPid(d) \/ WritesPid(d)
             \/ HandlesSigterm(d) \/ Redirects(d) \/ Serves(d) \/ Fails(d) \/ Crashes(d)
             \/ Leaves(d) \/ RemovesPid(d) \/ Ends(d)
      PROVE  ProcessTypeOK'
  BY <1>2 DEF Forks, Checks, Refused, TruncatesPid, WritesPid, HandlesSigterm, Redirects, Serves,
              Binds, Fails, Crashes, Leaves, RemovesPid, Ends
<1>3. CASE UNCHANGED processVars
  BY <1>3 DEF processVars
<1> QED
  BY <1>1, <1>2, <1>3 DEF ProcessNext

(* Each step keeps the PID file with the one process that may hold it.     *)
LEMMA ProcessStep == ProcessInv /\ [ProcessNext]_processVars => ProcessInv'
<1> SUFFICES ASSUME ProcessInv, [ProcessNext]_processVars PROVE ProcessInv'
  OBVIOUS
<1> DEFINE Others == PidWritten' /\ PidStays' /\ CheckHolds' /\ SocketStays'
<1>t. ProcessTypeOK /\ ProcessTypeOK'
  BY ProcessTypeStep DEF ProcessInv
<1> USE ProcessAssumption DEF ProcessTypeOK, PidWritten, PidStays, CheckHolds,
                              SocketStays, Past, Starting, Becomes, IsRunning, Lives, ProcessInv
<1>1. CASE Stops
  BY <1>t, <1>1 DEF Stops
<1>2. ASSUME NEW d \in Processes, Forks(d) PROVE Others
  BY <1>t, <1>2 DEF Forks
<1>3. ASSUME NEW d \in Processes, Checks(d) PROVE Others
  BY <1>t, <1>3 DEF Checks
<1>4. ASSUME NEW d \in Processes, Refused(d) PROVE Others
  BY <1>t, <1>4 DEF Refused
<1>5. ASSUME NEW d \in Processes, TruncatesPid(d) \/ WritesPid(d) PROVE Others
  BY <1>t, <1>5 DEF TruncatesPid, WritesPid
<1>6. ASSUME NEW d \in Processes, HandlesSigterm(d) PROVE Others
  BY <1>t, <1>6 DEF HandlesSigterm
<1>7. ASSUME NEW d \in Processes, Redirects(d) PROVE Others
  BY <1>t, <1>7 DEF Redirects
<1>8. ASSUME NEW d \in Processes, Serves(d) PROVE Others
  BY <1>t, <1>8 DEF Serves, Binds
<1>9. ASSUME NEW d \in Processes, Fails(d) \/ Crashes(d) PROVE Others
  BY <1>t, <1>9 DEF Fails, Crashes
<1>10. ASSUME NEW d \in Processes, Leaves(d) PROVE Others
  BY <1>t, <1>10 DEF Leaves
<1>11. ASSUME NEW d \in Processes, RemovesPid(d) \/ Ends(d) PROVE Others
  BY <1>t, <1>11 DEF RemovesPid, Ends
<1>12. CASE UNCHANGED processVars
  BY <1>12 DEF processVars
<1> QED
  BY <1>t, <1>1, <1>2, <1>3, <1>4, <1>5, <1>6, <1>7, <1>8, <1>9, <1>10, <1>11, <1>12
  DEF ProcessNext

(* Daemon::start, PidFile and SocketServer::bind: a daemon that serves is  *)
(* the one both files lead to, as long as no two starts were between check *)
(* and write at once.                                                      *)
THEOREM OneDaemonServes == ProcessSpec => []OneDaemon
<1>1. ProcessInv => OneDaemon
  BY DEF ProcessInv, OneDaemon, PidStays, SocketStays, Past
<1> QED
  BY ProcessInitially, ProcessStep, <1>1, PTL DEF ProcessSpec

-----------------------------------------------------------------------------
(* The gateway. *)

(* GatewayState::new: nobody is connected. *)
LEMMA GatewayTypesInit == GatewayInit => GatewayTypeOK
<1> SUFFICES ASSUME GatewayInit PROVE GatewayTypeOK
  OBVIOUS
<1>1. /\ \A g \in GwProjects : buffer[g] = <<>> /\ Len(buffer[g]) = 0
      /\ DOMAIN relay = {} /\ <<>> \in Seq(GwMachines)
  BY EmptySeq DEF GatewayInit
<1> QED
  BY <1>1, GatewayAssumption DEF GatewayInit, GatewayTypeOK

(* buffer_event keeps the buffer within its bound. *)
LEMMA BufferBounded ==
  ASSUME GatewayTypeOK, NEW g \in GwProjects, NEW m \in GwMachines
  PROVE  Buffered(g, m) \in Seq(GwMachines) /\ Len(Buffered(g, m)) <= MaxBuffer
<1>1. buffer[g] \in Seq(GwMachines) /\ Len(buffer[g]) <= MaxBuffer
  BY DEF GatewayTypeOK
<1>2. /\ \A b \in Seq(GwMachines) : b \o <<m>> \in Seq(GwMachines) /\ Len(b \o <<m>>) = Len(b) + 1
      /\ Len(buffer[g]) \in Nat
  BY <1>1, ConcatProperties
<1>3. CASE Len(buffer[g]) >= MaxBuffer
  <2>1. buffer[g] # <<>>
    BY <1>3, GatewayAssumption
  <2>2. Tail(buffer[g]) \in Seq(GwMachines) /\ Len(Tail(buffer[g])) = Len(buffer[g]) - 1
    BY <1>1, <2>1, HeadTailProperties
  <2> QED
    BY <1>1, <1>2, <1>3, <2>2, GatewayAssumption DEF Buffered
<1>4. CASE ~(Len(buffer[g]) >= MaxBuffer)
  BY <1>1, <1>2, <1>4, GatewayAssumption DEF Buffered
<1> QED
  BY <1>3, <1>4

(* Registrations, relayed events and reaps keep the types. *)
LEMMA GatewayTypesStep == GatewayTypeOK /\ [GatewayNext]_gatewayVars => GatewayTypeOK'
<1> SUFFICES ASSUME GatewayTypeOK, [GatewayNext]_gatewayVars PROVE GatewayTypeOK'
  OBVIOUS
<1>1. CASE TimePasses
  BY <1>1, GatewayAssumption DEF TimePasses, GatewayTypeOK
<1>2. CASE Reaps
  BY <1>2 DEF Reaps, GatewayTypeOK
<1>3. ASSUME NEW g \in GwProjects, NEW m \in GwMachines, Registers(g, m) PROVE GatewayTypeOK'
  <2>1. <<g, m>> \in Identity
    BY DEF Identity
  <2> QED
    BY <1>3, <2>1 DEF Registers, GatewayTypeOK
<1>4. ASSUME NEW g \in GwProjects, NEW m \in GwMachines, NEW s \in DOMAIN relay,
             RelaysEvent(s, g, m)
      PROVE  GatewayTypeOK'
  <2>1. <<g, m>> \in Identity
    BY DEF Identity
  <2>2. DOMAIN relay' = DOMAIN relay /\ \A x \in DOMAIN relay : relay'[x] \in {relay[x], <<g, m>>}
    BY <1>4 DEF RelaysEvent
  <2>3. connections' \in [GwProjects -> SUBSET [machine: GwMachines, seen: 0..MaxTicks]]
    <3>1. connections[g] \in SUBSET [machine: GwMachines, seen: 0..MaxTicks] /\ ticks \in 0..MaxTicks
      BY DEF GatewayTypeOK
    <3>2. {IF c.machine = m THEN [c EXCEPT !.seen = ticks] ELSE c : c \in connections[g]}
            \in SUBSET [machine: GwMachines, seen: 0..MaxTicks]
      BY <3>1
    <3>3. connections' = [connections EXCEPT ![g] =
            {IF c.machine = m THEN [c EXCEPT !.seen = ticks] ELSE c : c \in connections[g]}]
      BY <1>4 DEF RelaysEvent, SenderSeen
    <3> QED
      BY <3>2, <3>3 DEF GatewayTypeOK
  <2>4. heard' \in [Identity -> {Never} \cup 0..MaxTicks] /\ ended' \subseteq Identity
    BY <1>4, <2>1 DEF RelaysEvent, GatewayTypeOK
  <2>5. /\ buffer' = [buffer EXCEPT ![g] = Buffered(g, m)]
        /\ UNCHANGED ticks
    BY <1>4 DEF RelaysEvent
  <2>6. buffer' \in [GwProjects -> Seq(GwMachines)] /\ \A h \in GwProjects : Len(buffer'[h]) <= MaxBuffer
    BY <2>5, BufferBounded DEF GatewayTypeOK
  <2> QED
    BY <2>1, <2>2, <2>3, <2>4, <2>5, <2>6 DEF GatewayTypeOK
<1>5. ASSUME NEW s \in Relays, RelayOpens(s) PROVE GatewayTypeOK'
  BY <1>5 DEF RelayOpens, GatewayTypeOK
<1>6. ASSUME NEW s \in Relays, RelayEnds(s) PROVE GatewayTypeOK'
  <2>1. CASE relay[s] = Fresh
    BY <1>6, <2>1 DEF RelayEnds, GatewayTypeOK
  <2>2. CASE relay[s] # Fresh
    <3>1. PICK g \in GwProjects, m \in GwMachines : relay[s] = <<g, m>>
      BY <1>6, <2>2 DEF RelayEnds, GatewayTypeOK, Identity
    <3>2. /\ connections' = [connections EXCEPT ![g] = {c \in connections[g] : c.machine # m}]
          /\ ended' = ended \cup {<<g, m>>} /\ <<g, m>> \in Identity
          /\ relay' = [x \in DOMAIN relay \ {s} |-> relay[x]]
          /\ UNCHANGED <<ticks, buffer, heard>>
      BY <1>6, <2>2, <3>1 DEF RelayEnds, Identity
    <3>3. connections' \in [GwProjects -> SUBSET [machine: GwMachines, seen: 0..MaxTicks]]
      BY <3>2 DEF GatewayTypeOK
    <3> QED
      BY <3>2, <3>3 DEF GatewayTypeOK
  <2> QED
    BY <2>1, <2>2
<1>7. CASE UNCHANGED gatewayVars
  BY <1>7 DEF gatewayVars, GatewayTypeOK
<1> QED
  BY <1>1, <1>2, <1>3, <1>4, <1>5, <1>6, <1>7 DEF GatewayNext

(* Whoever was heard from has an entry seen no earlier, unless a stream of *)
(* its name has ended.                                                     *)
Routed ==
  \A g \in GwProjects, m \in GwMachines : <<g, m>> \notin ended /\ heard[<<g, m>>] # Never =>
    \E c \in connections[g] : c.machine = m /\ c.seen >= heard[<<g, m>>]

(* Each step keeps it: the cleanup task and the end of a stream take only  *)
(* what is of their silence or name.                                       *)
LEMMA RoutedStep == GatewayTypeOK /\ Routed /\ [GatewayNext]_gatewayVars => Routed'
<1> SUFFICES ASSUME GatewayTypeOK, Routed, [GatewayNext]_gatewayVars PROVE Routed'
  OBVIOUS
<1>0. /\ \A g \in GwProjects, m \in GwMachines : <<g, m>> \in Identity
      /\ ticks \in Int /\ \A i \in Identity : heard[i] \in Int
      /\ \A g \in GwProjects : \A c \in connections[g] :
           c \in [machine: GwMachines, seen: 0..MaxTicks] /\ c.seen \in Int
  BY GatewayAssumption DEF Identity, GatewayTypeOK, Never
<1>1. CASE UNCHANGED <<connections, heard, ended>>
  BY <1>1 DEF Routed
<1>2. CASE Reaps
  <2> SUFFICES ASSUME NEW g \in GwProjects, NEW m \in GwMachines,
                      <<g, m>> \notin ended', heard'[<<g, m>>] # Never
               PROVE  \E c \in connections'[g] : c.machine = m /\ c.seen >= heard'[<<g, m>>]
    BY DEF Routed
  <2>1. <<g, m>> \notin ended /\ heard'[<<g, m>>] = heard[<<g, m>>] /\ ticks - heard[<<g, m>>] <= Silence
    BY <1>0, <1>2, GatewayAssumption DEF Reaps
  <2>2. PICK c \in connections[g] : c.machine = m /\ c.seen >= heard[<<g, m>>]
    BY <2>1 DEF Routed
  <2>3. c \in connections'[g]
    BY <1>0, <1>2, <2>1, <2>2, GatewayAssumption DEF Reaps
  <2> QED
    BY <2>1, <2>2, <2>3
<1>3. ASSUME NEW g \in GwProjects, NEW m \in GwMachines, Registers(g, m) PROVE Routed'
  <2>1. /\ heard'[<<g, m>>] = ticks
        /\ \A i \in Identity \ {<<g, m>>} : heard'[i] = heard[i] /\ (i \in ended => i \in ended')
        /\ \A h \in GwProjects : connections[h] \subseteq connections'[h]
        /\ [machine |-> m, seen |-> ticks] \in connections'[g]
    BY <1>0, <1>3 DEF Registers, GatewayTypeOK
  <2>2. \E c \in connections'[g] : c.machine = m /\ c.seen >= ticks
    BY <1>0, <2>1
  <2> QED
    BY <1>0, <2>1, <2>2 DEF Routed
<1>4. ASSUME NEW g \in GwProjects, NEW m \in GwMachines, NEW s \in DOMAIN relay,
             RelaysEvent(s, g, m)
      PROVE  Routed'
  <2>1. /\ connections'[g] = {IF c.machine = m THEN [c EXCEPT !.seen = ticks] ELSE c :
                                c \in connections[g]}
        /\ \A h \in GwProjects \ {g} : connections'[h] = connections[h]
    BY <1>4 DEF RelaysEvent, SenderSeen, GatewayTypeOK
  <2>2. /\ heard[<<g, m>>] = Never => heard'[<<g, m>>] = Never
        /\ heard[<<g, m>>] # Never => heard'[<<g, m>>] = ticks
        /\ \A i \in Identity \ {<<g, m>>} : heard'[i] = heard[i]
        /\ UNCHANGED ended
    BY <1>0, <1>4 DEF RelaysEvent, GatewayTypeOK
  <2> SUFFICES ASSUME NEW h \in GwProjects, NEW k \in GwMachines,
                      <<h, k>> \notin ended', heard'[<<h, k>>] # Never
               PROVE  \E c \in connections'[h] : c.machine = k /\ c.seen >= heard'[<<h, k>>]
    BY DEF Routed
  <2>3. <<h, k>> \notin ended /\ heard[<<h, k>>] # Never
    BY <1>0, <2>2
  <2>4. PICK c \in connections[h] : c.machine = k /\ c.seen >= heard[<<h, k>>]
    BY <2>3 DEF Routed
  <2>5. CASE h = g /\ k = m
    <3>1. PICK d : d = [c EXCEPT !.seen = ticks]
      OBVIOUS
    <3>2. d \in connections'[g] /\ d.machine = m /\ d.seen = ticks
      BY <1>0, <2>1, <2>4, <2>5, <3>1
    <3> QED
      BY <1>0, <2>2, <2>3, <2>5, <3>2
  <2>6. CASE ~(h = g /\ k = m)
    <3>1. c \in connections'[h]
      BY <2>1, <2>4, <2>6
    <3>2. heard'[<<h, k>>] = heard[<<h, k>>]
      BY <1>0, <2>2, <2>6
    <3> QED
      BY <2>4, <3>1, <3>2
  <2> QED
    BY <2>5, <2>6
<1>5. ASSUME NEW s \in Relays, RelayEnds(s), relay[s] # Fresh PROVE Routed'
  <2>1. PICK g \in GwProjects, m \in GwMachines : relay[s] = <<g, m>>
    BY <1>5 DEF RelayEnds, GatewayTypeOK, Identity
  <2>2. /\ connections'[g] = {c \in connections[g] : c.machine # m}
        /\ \A h \in GwProjects \ {g} : connections'[h] = connections[h]
        /\ ended' = ended \cup {<<g, m>>} /\ UNCHANGED heard
    BY <1>0, <1>5, <2>1 DEF RelayEnds, GatewayTypeOK
  <2> SUFFICES ASSUME NEW h \in GwProjects, NEW k \in GwMachines,
                      <<h, k>> \notin ended', heard'[<<h, k>>] # Never
               PROVE  \E c \in connections'[h] : c.machine = k /\ c.seen >= heard'[<<h, k>>]
    BY DEF Routed
  <2>3. ~(h = g /\ k = m) /\ <<h, k>> \notin ended /\ heard'[<<h, k>>] = heard[<<h, k>>]
    BY <1>0, <2>2
  <2>4. PICK c \in connections[h] : c.machine = k /\ c.seen >= heard[<<h, k>>]
    BY <2>3 DEF Routed
  <2> QED
    BY <2>2, <2>3, <2>4
<1> QED
  BY <1>1, <1>2, <1>3, <1>4, <1>5
     DEF GatewayNext, TimePasses, RelayOpens, RelayEnds, gatewayVars

(* register, forward_event, the end of a relay and the reaper under one    *)
(* lock: who was heard from within Silence seconds is in the routing       *)
(* table, unless a stream named after it has ended since it registered.    *)
THEOREM ActiveStaysRouted == GatewaySpec => []ActiveIsRouted
<1>1. GatewayInit => Routed
  BY DEF GatewayInit, Routed, Identity
<1>2. Routed => ActiveIsRouted
  BY DEF Routed, ActiveIsRouted
<1> QED
  BY GatewayTypesInit, GatewayTypesStep, RoutedStep, <1>1, <1>2, PTL DEF GatewaySpec

-----------------------------------------------------------------------------
(* The Tauri plugin. *)

(* The loop and the commands keep the types. *)
LEMMA PluginTypesInit == PluginInit => PluginTypeOK
<1> SUFFICES ASSUME PluginInit PROVE PluginTypeOK
  OBVIOUS
<1>1. command \in [Commands -> [kind: {"none", "subscribe", "unsubscribe"},
                               topic: {{}} \cup {{t} : t \in Topics}]]
  BY DEF PluginInit, Resting
<1> QED
  BY <1>1 DEF PluginInit, PluginTypeOK

(* Every step of the plugin's loops and commands keeps the types. *)
LEMMA PluginTypesStep == PluginTypeOK /\ [PluginNext]_pluginVars => PluginTypeOK'
<1> SUFFICES ASSUME PluginTypeOK, [PluginNext]_pluginVars PROVE PluginTypeOK'
  OBVIOUS
<1> USE DEF PluginTypeOK
<1>1. CASE Connects \/ CopiesTracked \/ TakesClient \/ EndsResubscribing
  BY <1>1 DEF Connects, CopiesTracked, TakesClient, EndsResubscribing
<1>2. CASE ReceivesNotification \/ SeesClosed \/ DaemonCloses
  BY <1>2 DEF ReceivesNotification, SeesClosed, DaemonCloses
<1>3. ASSUME NEW t \in Topics, NEW ok \in BOOLEAN, Resubscribes(t, ok) PROVE PluginTypeOK'
  BY <1>3 DEF Resubscribes, CallsSubscribe
<1>4. ASSUME NEW k \in Commands, NEW t \in Topics, StartsSubscribe(k, t) PROVE PluginTypeOK'
  BY <1>4 DEF StartsSubscribe
<1>5. ASSUME NEW k \in Commands, NEW t \in Topics, StartsUnsubscribe(k, t) PROVE PluginTypeOK'
  BY <1>5 DEF StartsUnsubscribe
<1>6. ASSUME NEW k \in Commands, NEW t \in Topics, NEW ok \in BOOLEAN, EndsUnsubscribe(k, t, ok)
      PROVE  PluginTypeOK'
  BY <1>6 DEF EndsUnsubscribe, Resting
<1>7. ASSUME NEW k \in Commands, NEW t \in Topics, NEW ok \in BOOLEAN, EndsSubscribe(k, t, ok)
      PROVE  PluginTypeOK'
  BY <1>7 DEF EndsSubscribe, CallsSubscribe, Resting
<1>8. CASE UNCHANGED pluginVars
  BY <1>8 DEF pluginVars
<1> QED
  BY <1>1, <1>2, <1>3, <1>4, <1>5, <1>6, <1>7, <1>8 DEF PluginNext, LoopSteps

(* A subscribe command has tracked its project and not yet told the daemon. *)
OnTheWay(t) == \E k \in Commands : command[k] = [kind |-> "subscribe", topic |-> {t}]

(* From the copy on, what is tracked is subscribed, refused, left to the   *)
(* loop or to a command; a command that unsubscribes has untracked; and    *)
(* the client is there once the loop has made it.                          *)
TrackedCovered ==
  alive /\ loop \in {"copied", "resubscribing", "between", "receiving"} =>
    \A t \in tracked :
      \/ t \in served \cup refused \/ OnTheWay(t)
      \/ loop \in {"copied", "resubscribing"} /\ t \in again

Untracked ==
  \A k \in Commands, t \in Topics :
    command[k] = [kind |-> "unsubscribe", topic |-> {t}] => t \notin tracked

PluginInv ==
  /\ PluginTypeOK /\ TrackedCovered /\ Untracked
  /\ client <=> loop # "trying"

(* Steps of connection_loop and resubscribe_all. *)
LEMMA LoopStep ==
  ASSUME PluginInv, LoopSteps \/ DaemonCloses
  PROVE  TrackedCovered' /\ Untracked' /\ (client <=> loop # "trying")'
<1>1. CASE Connects \/ SeesClosed \/ DaemonCloses
  BY <1>1 DEF Connects, SeesClosed, DaemonCloses, PluginInv, TrackedCovered, Untracked
<1>2. CASE CopiesTracked
  BY <1>2 DEF CopiesTracked, PluginInv, TrackedCovered, Untracked
<1>3. CASE TakesClient
  BY <1>3 DEF TakesClient, PluginInv, TrackedCovered, Untracked, OnTheWay
<1>4. CASE EndsResubscribing
  BY <1>4 DEF EndsResubscribing, PluginInv, TrackedCovered, Untracked, OnTheWay
<1>5. CASE ReceivesNotification
  BY <1>5 DEF ReceivesNotification, PluginInv, TrackedCovered, Untracked, OnTheWay
<1>6. ASSUME NEW t \in Topics, NEW ok \in BOOLEAN, Resubscribes(t, ok)
      PROVE  TrackedCovered' /\ Untracked' /\ (client <=> loop # "trying")'
  BY <1>6 DEF Resubscribes, CallsSubscribe, PluginInv, TrackedCovered, Untracked, OnTheWay
<1> QED
  BY <1>1, <1>2, <1>3, <1>4, <1>5, <1>6 DEF LoopSteps

(* Steps of the subscribe and unsubscribe commands. *)
LEMMA CommandStep ==
  ASSUME PluginInv, NEW k \in Commands, NEW t \in Topics,
         \/ StartsSubscribe(k, t) \/ StartsUnsubscribe(k, t)
         \/ \E ok \in BOOLEAN : EndsSubscribe(k, t, ok) \/ EndsUnsubscribe(k, t, ok)
  PROVE  TrackedCovered' /\ Untracked' /\ (client <=> loop # "trying")'
<1> DEFINE sub(u) == [kind |-> "subscribe", topic |-> {u}]
           unsub(u) == [kind |-> "unsubscribe", topic |-> {u}]
<1>0. /\ \A u, v : sub(u) = sub(v) => u = v
      /\ \A u, v : unsub(u) = unsub(v) => u = v
      /\ \A u, v : sub(u) # unsub(v)
      /\ \A u : sub(u) # Resting /\ unsub(u) # Resting
  <2>1. \A u : /\ sub(u).topic = {u} /\ sub(u).kind = "subscribe"
               /\ unsub(u).topic = {u} /\ unsub(u).kind = "unsubscribe"
    OBVIOUS
  <2>2. Resting.kind = "none"
    BY DEF Resting
  <2>3. \A u, v : {u} = {v} => u = v
    OBVIOUS
  <2>4. "subscribe" # "none" /\ "unsubscribe" # "none" /\ "subscribe" # "unsubscribe"
    OBVIOUS
  <2> HIDE DEF sub, unsub
  <2>5. ASSUME NEW u, NEW v, sub(u) = sub(v) PROVE u = v
    <3>1. {u} = {v}
      BY <2>1, <2>5
    <3> QED
      BY <3>1
  <2>6. ASSUME NEW u, NEW v, unsub(u) = unsub(v) PROVE u = v
    <3>1. {u} = {v}
      BY <2>1, <2>6
    <3> QED
      BY <3>1
  <2>7. ASSUME NEW u, NEW v PROVE sub(u) # unsub(v)
    BY <2>1, <2>4
  <2>8. ASSUME NEW u PROVE sub(u) # Resting /\ unsub(u) # Resting
    BY <2>1, <2>2, <2>4
  <2> QED
    BY <2>5, <2>6, <2>7, <2>8
<1>1. CASE StartsSubscribe(k, t)
  <2>1. /\ command[k] = Resting /\ command'[k] = sub(t) /\ tracked' = tracked \cup {t}
        /\ \A j \in Commands \ {k} : command'[j] = command[j]
        /\ UNCHANGED <<loop, client, alive, again, served, refused>>
    BY <1>1 DEF StartsSubscribe, PluginInv, PluginTypeOK
  <2>2. \A j \in Commands : command'[j].kind # "unsubscribe"
    BY <1>1, <2>1 DEF StartsSubscribe, TrackedIsFree
  <2>3. Untracked'
    BY <2>2 DEF Untracked
  <2>4. OnTheWay(t)' /\ \A u : OnTheWay(u) => OnTheWay(u)'
    BY <1>0, <2>1 DEF OnTheWay
  <2> QED
    BY <2>1, <2>3, <2>4 DEF PluginInv, TrackedCovered
<1>2. CASE StartsUnsubscribe(k, t)
  <2>1. /\ command[k] = Resting /\ command'[k] = unsub(t) /\ tracked' = tracked \ {t}
        /\ \A j \in Commands \ {k} : command'[j] = command[j]
        /\ UNCHANGED <<loop, client, alive, again, served, refused>>
    BY <1>2 DEF StartsUnsubscribe, PluginInv, PluginTypeOK
  <2>2. \A u : OnTheWay(u) => OnTheWay(u)'
    BY <1>0, <2>1 DEF OnTheWay
  <2>3. Untracked'
    BY <1>0, <2>1 DEF PluginInv, Untracked
  <2> QED
    BY <2>1, <2>2, <2>3 DEF PluginInv, TrackedCovered
<1>3. ASSUME NEW ok \in BOOLEAN, EndsUnsubscribe(k, t, ok)
      PROVE  TrackedCovered' /\ Untracked' /\ (client <=> loop # "trying")'
  <2>1. /\ command[k] = unsub(t) /\ command'[k] = Resting /\ served \ {t} \subseteq served'
        /\ \A j \in Commands \ {k} : command'[j] = command[j]
        /\ UNCHANGED <<loop, client, alive, tracked, again, refused>>
    BY <1>3 DEF EndsUnsubscribe, PluginInv, PluginTypeOK
  <2>2. \A u : OnTheWay(u) => OnTheWay(u)'
    BY <1>0, <2>1 DEF OnTheWay
  <2>3. t \notin tracked
    BY <2>1 DEF PluginInv, Untracked
  <2>4. Untracked'
    BY <1>0, <2>1 DEF PluginInv, Untracked
  <2> QED
    BY <2>1, <2>2, <2>3, <2>4 DEF PluginInv, TrackedCovered
<1>4. ASSUME NEW ok \in BOOLEAN, EndsSubscribe(k, t, ok)
      PROVE  TrackedCovered' /\ Untracked' /\ (client <=> loop # "trying")'
  <2>1. /\ command[k] = sub(t) /\ command'[k] = Resting
        /\ \A j \in Commands \ {k} : command'[j] = command[j]
        /\ UNCHANGED <<loop, client, alive, tracked, again>>
    BY <1>4 DEF EndsSubscribe, PluginInv, PluginTypeOK
  <2>2. \A u : u # t /\ OnTheWay(u) => OnTheWay(u)'
    BY <1>0, <2>1 DEF OnTheWay
  <2>3. client => t \in served' \cup refused' /\ served \cup refused \subseteq served' \cup refused'
    BY <1>4 DEF EndsSubscribe, CallsSubscribe
  <2>4. Untracked'
    BY <1>0, <2>1 DEF PluginInv, Untracked
  <2>5. TrackedCovered'
    BY <2>1, <2>2, <2>3 DEF PluginInv, TrackedCovered
  <2> QED
    BY <2>1, <2>4, <2>5 DEF PluginInv
<1> QED
  BY <1>1, <1>2, <1>3, <1>4

(* connection_loop copies the tracked projects and resubscribes them while *)
(* commands come and go: once it is done, every project the application    *)
(* subscribed to is subscribed, was refused, or its command is on the way. *)
THEOREM TrackedStaysSubscribed == PluginSpec => []TrackedIsSubscribed
<1>1. PluginInit => PluginInv
  BY PluginTypesInit DEF PluginInit, PluginInv, TrackedCovered, Untracked, Resting
<1>2. PluginInv /\ [PluginNext]_pluginVars => PluginInv'
  <2> SUFFICES ASSUME PluginInv, [PluginNext]_pluginVars PROVE PluginInv'
    OBVIOUS
  <2>1. PluginTypeOK'
    BY PluginTypesStep DEF PluginInv
  <2>2. CASE UNCHANGED pluginVars
    BY <2>1, <2>2 DEF pluginVars, PluginInv, TrackedCovered, Untracked, OnTheWay
  <2> QED
    BY <2>1, <2>2, LoopStep, CommandStep DEF PluginNext, PluginInv
<1>3. PluginInv => TrackedIsSubscribed
  BY DEF PluginInv, TrackedCovered, OnTheWay, TrackedIsSubscribed
<1> QED
  BY <1>1, <1>2, <1>3, PTL DEF PluginSpec

-----------------------------------------------------------------------------
(* The clients' transports. *)

Outcomes == [is: {"unsent", "registered", "waiting", "failed", "left", "answered"},
             by: Calls \cup {Note}]

USE DEF rustVars

(* A new connection of any of the three. *)
LEMMA ClientTypesInit == ClientInit => ClientTypeOK
<1> SUFFICES ASSUME ClientInit PROVE ClientTypeOK
  OBVIOUS
<1>1. requests \in Seq(Calls) /\ lines \in Seq(Calls \cup {Note})
  BY EmptySeq DEF ClientInit
<1>2. notes \in 0..NoteBuffer /\ pushed \in 0..MaxNotes
  BY ClientAssumption DEF ClientInit
<1>3. /\ slipped \in BOOLEAN /\ listening \in BOOLEAN /\ silent \in BOOLEAN
      /\ torn \in BOOLEAN
  BY DEF ClientInit
<1> QED
  BY <1>1, <1>2, <1>3 DEF ClientInit, ClientTypeOK

(* What a call ends with, and what a line is. *)
LEMMA OutcomeTyped ==
  ASSUME ClientTypeOK
  PROVE  /\ \A i \in Calls, how \in {"registered", "waiting", "failed", "left"} :
              Settles(i, how) => outcome' \in [Calls -> Outcomes]
         /\ \A i, id \in Calls : Answered(i, id) => outcome' \in [Calls -> Outcomes]
         /\ \A those : FailsAll(those) => outcome' \in [Calls -> Outcomes]
<1>1. outcome \in [Calls -> Outcomes]
  BY DEF ClientTypeOK, Outcomes
<1>2. ASSUME NEW i \in Calls, NEW how \in {"registered", "waiting", "failed", "left"},
             Settles(i, how)
      PROVE  outcome' \in [Calls -> Outcomes]
  BY <1>1, <1>2 DEF Settles, Outcomes
<1>3. ASSUME NEW i \in Calls, NEW id \in Calls, Answered(i, id)
      PROVE  outcome' \in [Calls -> Outcomes]
  BY <1>1, <1>3 DEF Answered, Outcomes
<1>4. ASSUME NEW those, FailsAll(those) PROVE outcome' \in [Calls -> Outcomes]
  BY <1>1, <1>4 DEF FailsAll, Outcomes
<1> QED
  BY <1>2, <1>3, <1>4

(* What the two ends of a connection take and put on it are requests,      *)
(* answers and notifications.                                              *)
LEMMA LinesTyped ==
  ASSUME ClientTypeOK
  PROVE  /\ requests # <<>> => Head(requests) \in Calls /\ Tail(requests) \in Seq(Calls)
         /\ lines # <<>> => /\ Head(lines) \in Calls \cup {Note}
                            /\ Tail(lines) \in Seq(Calls \cup {Note})
         /\ \A i \in Calls : Append(requests, i) \in Seq(Calls)
         /\ \A x \in Calls \cup {Note} : Append(lines, x) \in Seq(Calls \cup {Note})
         /\ Note \notin Calls /\ <<>> \in Seq(Calls) /\ <<>> \in Seq(Calls \cup {Note})
<1>1. requests \in Seq(Calls) /\ lines \in Seq(Calls \cup {Note})
  BY DEF ClientTypeOK
<1>2. Note \notin Calls
  BY DEF Note, Calls
<1> QED
  BY <1>1, <1>2, HeadTailProperties, AppendProperties, EmptySeq

(* The daemon's task and the three transports keep the types. *)
LEMMA ClientTypesStep == ClientTypeOK /\ [ClientNext]_clientVars => ClientTypeOK'
<1> SUFFICES ASSUME ClientTypeOK, [ClientNext]_clientVars PROVE ClientTypeOK'
  OBVIOUS
<1>0. Note \notin Calls /\ <<>> \in Seq(Calls) /\ <<>> \in Seq(Calls \cup {Note})
  BY LinesTyped
<1>1. CASE Answers \/ Pushes
  <2>1. CASE Answers
    BY <2>1, LinesTyped DEF Answers, ClientTypeOK
  <2>2. CASE Pushes
    <3>1. pushed' \in 0..MaxNotes
      BY <2>2, ClientAssumption DEF Pushes, ClientTypeOK
    <3> QED
      BY <2>2, <3>1, LinesTyped DEF Pushes, ClientTypeOK
  <2> QED
    BY <1>1, <2>1, <2>2
<1>2. CASE HangsUp \/ FallsSilent \/ RustSeesEnd
  BY <1>0, <1>2 DEF HangsUp, FallsSilent, RustSeesEnd, ClientTypeOK
<1>3. CASE RustReads
  <2>1. notes' \in 0..NoteBuffer
    BY <1>3, ClientAssumption DEF RustReads, Held, ClientTypeOK
  <2>2. outcome' \in [Calls -> Outcomes]
    BY <1>3, LinesTyped, OutcomeTyped DEF RustReads, ClientTypeOK, Outcomes
  <2> QED
    BY <1>3, <2>1, <2>2, LinesTyped DEF RustReads, ClientTypeOK, Outcomes
<1>4. CASE RustDrains \/ NodeCloses
  <2>1. outcome' \in [Calls -> Outcomes]
    BY <1>4, OutcomeTyped DEF RustDrains, NodeCloses
  <2> QED
    BY <1>0, <1>4, <2>1 DEF RustDrains, NodeCloses, ClientTypeOK, Outcomes
<1>5. CASE RustReceives \/ RustStopsListening
  <2>1. notes' \in 0..NoteBuffer
    BY <1>5, ClientAssumption DEF RustReceives, RustStopsListening, ClientTypeOK
  <2>2. listening' \in BOOLEAN
    BY <1>5 DEF RustReceives, RustStopsListening, ClientTypeOK
  <2> QED
    BY <1>5, <2>1, <2>2 DEF RustReceives, RustStopsListening, ClientTypeOK
<1>6. CASE NodeReads
  <2>1. outcome' \in [Calls -> Outcomes]
    BY <1>6, OutcomeTyped DEF NodeReads, ClientTypeOK, Outcomes
  <2> QED
    BY <1>6, <2>1, LinesTyped DEF NodeReads, ClientTypeOK, Outcomes
<1>7. ASSUME NEW i \in Calls, RustCalls(i) \/ NodeCalls(i) \/ PythonCalls(i) PROVE ClientTypeOK'
  <2>1. outcome' \in [Calls -> Outcomes]
    BY <1>7, OutcomeTyped DEF RustCalls, NodeCalls, PythonCalls
  <2> QED
    BY <1>7, <2>1, LinesTyped DEF RustCalls, NodeCalls, PythonCalls, ClientTypeOK, Outcomes
<1>8. ASSUME NEW i \in Calls,
             \/ RustWriteFails(i) \/ RustLeaves(i)
             \/ NodeTimesOut(i) \/ PythonSeesEnd(i) \/ PythonGivesUp(i)
      PROVE  ClientTypeOK'
  <2>1. outcome' \in [Calls -> Outcomes]
    BY <1>8, OutcomeTyped DEF RustWriteFails, RustLeaves, NodeTimesOut, PythonSeesEnd,
                              PythonGivesUp
  <2>2. torn' \in BOOLEAN
    BY <1>8 DEF RustWriteFails, RustLeaves, NodeTimesOut, PythonSeesEnd, PythonGivesUp,
                ClientTypeOK
  <2> QED
    BY <1>8, <2>1, <2>2 DEF RustWriteFails, RustLeaves, NodeTimesOut, PythonSeesEnd,
                            PythonGivesUp, ClientTypeOK, Outcomes
<1>9. ASSUME NEW i \in Calls, PythonReads(i) PROVE ClientTypeOK'
  <2>1. outcome' \in [Calls -> Outcomes]
    BY <1>9, OutcomeTyped, LinesTyped DEF PythonReads
  <2> QED
    BY <1>9, <2>1, LinesTyped DEF PythonReads, ClientTypeOK, Outcomes
<1>10. ASSUME NEW i \in Calls, RustWrites(i) PROVE ClientTypeOK'
  <2>1. outcome' \in [Calls -> Outcomes]
    BY <1>10, OutcomeTyped DEF RustWrites
  <2>2. requests' \in Seq(Calls)
    BY <1>10, LinesTyped DEF RustWrites, ClientTypeOK
  <2> QED
    BY <1>10, <2>1, <2>2 DEF RustWrites, ClientTypeOK, Outcomes
<1>11. CASE UNCHANGED clientVars
  BY <1>11 DEF clientVars, ClientTypeOK
<1> QED
  BY <1>1, <1>2, <1>3, <1>4, <1>5, <1>6, <1>7, <1>8, <1>9, <1>10, <1>11 DEF ClientNext

(* Until a Python call lets go of the lock too early, one call waits at    *)
(* most, one id is under way at most, and it is of the call that waits.    *)
OneUnderWay ==
  lang = "python" /\ ~slipped =>
    /\ \A i, j \in Calls : Waiting(i) /\ Waiting(j) => i = j
    /\ \A k \in 1 .. Len(requests) : Waiting(requests[k]) /\ k = 1
    /\ \A k \in 1 .. Len(lines) : lines[k] # Note => Waiting(lines[k]) /\ Len(requests) = 0
    /\ \A j, k \in 1 .. Len(lines) : lines[j] # Note /\ lines[k] # Note => j = k

(* A daemon that hung up reads no more requests. *)
NothingAsked == link # "open" => Len(requests) = 0

ClientInv == ClientTypeOK /\ OneUnderWay /\ NothingAsked /\ OwnAnswer

(* Each step keeps it: what was asked is lost with the connection, and no  *)
(* call writes to one that is not open.                                    *)
LEMMA NothingAskedStep ==
  ASSUME ClientTypeOK, NothingAsked, [ClientNext]_clientVars
  PROVE  NothingAsked'
<1>1. Len(<<>>) = 0
  OBVIOUS
<1>2. \/ requests' = <<>>
      \/ link' = "open"
      \/ UNCHANGED <<link, requests>>
  BY DEF ClientNext, clientVars, Answers, FallsSilent, Pushes, HangsUp, RustReads, RustSeesEnd,
         RustDrains, RustReceives, RustStopsListening, NodeReads, NodeCloses, RustCalls,
         RustWrites, RustWriteFails, RustLeaves, NodeCalls, NodeTimesOut, PythonCalls,
         PythonReads, PythonSeesEnd, PythonGivesUp
<1> QED
  BY <1>1, <1>2 DEF NothingAsked

(* The first line, and what is left behind it. *)
LEMMA FirstLine ==
  ASSUME ClientTypeOK
  PROVE  /\ Len(requests) \in Nat /\ Len(lines) \in Nat
         /\ \A k \in 1 .. Len(requests) : requests[k] \in Calls
         /\ \A k \in 1 .. Len(lines) : lines[k] \in Calls \cup {Note}
         /\ requests # <<>> => /\ Head(requests) = requests[1] /\ Len(requests) >= 1
                               /\ Len(Tail(requests)) = Len(requests) - 1
         /\ lines # <<>> => /\ Head(lines) = lines[1] /\ Len(lines) >= 1
                            /\ Len(Tail(lines)) = Len(lines) - 1
                            /\ \A k \in 1 .. Len(Tail(lines)) : Tail(lines)[k] = lines[k + 1]
         /\ \A x \in Calls \cup {Note} :
              /\ Len(Append(lines, x)) = Len(lines) + 1
              /\ Append(lines, x)[Len(lines) + 1] = x
              /\ \A k \in 1 .. Len(lines) : Append(lines, x)[k] = lines[k]
         /\ \A i \in Calls :
              /\ Len(Append(requests, i)) = Len(requests) + 1
              /\ Append(requests, i)[Len(requests) + 1] = i
<1>1. requests \in Seq(Calls) /\ lines \in Seq(Calls \cup {Note})
  BY DEF ClientTypeOK
<1>2. /\ Len(requests) \in Nat /\ Len(lines) \in Nat
      /\ \A k \in 1 .. Len(requests) : requests[k] \in Calls
      /\ \A k \in 1 .. Len(lines) : lines[k] \in Calls \cup {Note}
  BY <1>1
<1>3. requests # <<>> => /\ Head(requests) = requests[1] /\ Len(requests) >= 1
                         /\ Len(Tail(requests)) = Len(requests) - 1
  BY <1>1, HeadTailProperties, EmptySeq
<1>4. lines # <<>> => /\ Head(lines) = lines[1] /\ Len(lines) >= 1
                      /\ Len(Tail(lines)) = Len(lines) - 1
                      /\ \A k \in 1 .. Len(Tail(lines)) : Tail(lines)[k] = lines[k + 1]
  BY <1>1, HeadTailProperties, EmptySeq
<1>5. \A x \in Calls \cup {Note} :
        /\ Len(Append(lines, x)) = Len(lines) + 1
        /\ Append(lines, x)[Len(lines) + 1] = x
        /\ \A k \in 1 .. Len(lines) : Append(lines, x)[k] = lines[k]
  BY <1>1, AppendProperties
<1>6. \A i \in Calls : /\ Len(Append(requests, i)) = Len(requests) + 1
                       /\ Append(requests, i)[Len(requests) + 1] = i
  BY <1>1, AppendProperties
<1> QED
  BY <1>2, <1>3, <1>4, <1>5, <1>6

(* A line read under the lock is the one of the call that holds it. *)
LEMMA OwnLine ==
  ASSUME ClientTypeOK, OneUnderWay, ~slipped, lang = "python",
         NEW i \in Calls, Waiting(i), lines # <<>>, Head(lines) # Note
  PROVE  Head(lines) = i /\ \A k \in 1 .. Len(Tail(lines)) : Tail(lines)[k] = Note
<1>1. lines[1] # Note /\ 1 \in 1 .. Len(lines) /\ Len(lines) \in Nat
  BY FirstLine
<1>2. Waiting(lines[1]) /\ lines[1] \in Calls
  BY <1>1, FirstLine DEF OneUnderWay
<1>3. lines[1] = i
  BY <1>2 DEF OneUnderWay
<1>4. ASSUME NEW k \in 1 .. Len(Tail(lines)) PROVE Tail(lines)[k] = Note
  <2>1. k + 1 \in 1 .. Len(lines) /\ k + 1 # 1 /\ Tail(lines)[k] = lines[k + 1]
    BY <1>1, FirstLine
  <2> QED
    BY <1>1, <2>1 DEF OneUnderWay
<1> QED
  BY <1>3, <1>4, FirstLine

(* Every answer a call returns is its own. *)
LEMMA OwnAnswerStep ==
  ASSUME ClientTypeOK, OneUnderWay, OwnAnswer, [ClientNext]_clientVars
  PROVE  OwnAnswer'
<1>1. slipped => slipped'
  BY DEF ClientNext, clientVars, Answers, FallsSilent, Pushes, HangsUp, RustReads, RustSeesEnd,
         RustDrains, RustReceives, RustStopsListening, NodeReads, NodeCloses, RustCalls,
         RustWrites, RustWriteFails, RustLeaves, NodeCalls, NodeTimesOut, PythonCalls,
         PythonReads, PythonSeesEnd, PythonGivesUp
<1> SUFFICES ASSUME ~slipped, NEW i \in Calls, outcome'[i].is = "answered"
             PROVE  outcome'[i].by = i
  BY <1>1 DEF OwnAnswer
<1>2. ASSUME outcome'[i] = outcome[i] PROVE outcome'[i].by = i
  BY <1>2 DEF OwnAnswer
<1>3. ASSUME NEW j \in Calls, NEW how \in {"registered", "waiting", "failed", "left"},
             Settles(j, how)
      PROVE  outcome'[i].by = i
  BY <1>2, <1>3 DEF Settles, ClientTypeOK
<1>4. ASSUME NEW j \in Calls, Answered(j, j) PROVE outcome'[i].by = i
  BY <1>2, <1>4 DEF Answered, ClientTypeOK
<1>5. ASSUME NEW those, FailsAll(those) PROVE outcome'[i].by = i
  BY <1>2, <1>5 DEF FailsAll, ClientTypeOK
<1>6. CASE UNCHANGED outcome
  BY <1>2, <1>6
<1>7. CASE RustReads \/ NodeReads
  <2>1. lines # <<>> => Head(lines) \in Calls \cup {Note}
    BY LinesTyped
  <2> QED
    BY <1>4, <1>6, <1>7, <2>1 DEF RustReads, NodeReads, ClientTypeOK
<1>8. CASE RustDrains \/ NodeCloses
  BY <1>5, <1>8 DEF RustDrains, NodeCloses
<1>9. ASSUME NEW j \in Calls,
             \/ RustCalls(j) \/ RustWrites(j) \/ RustWriteFails(j) \/ RustLeaves(j)
             \/ NodeCalls(j) \/ NodeTimesOut(j)
             \/ PythonCalls(j) \/ PythonSeesEnd(j) \/ PythonGivesUp(j)
      PROVE  outcome'[i].by = i
  BY <1>3, <1>9 DEF RustCalls, RustWrites, RustWriteFails, RustLeaves, NodeCalls, NodeTimesOut,
                    PythonCalls, PythonSeesEnd, PythonGivesUp
<1>10. ASSUME NEW j \in Calls, PythonReads(j) PROVE outcome'[i].by = i
  <2>1. CASE Head(lines) = Note
    BY <1>3, <1>10, <2>1 DEF PythonReads
  <2>2. CASE Head(lines) # Note
    <3>1. Head(lines) = j
      BY <1>10, <2>2, OwnLine DEF PythonReads
    <3> QED
      BY <1>4, <1>10, <2>2, <3>1 DEF PythonReads
  <2> QED
    BY <2>1, <2>2
<1> QED
  BY <1>6, <1>7, <1>8, <1>9, <1>10
     DEF ClientNext, clientVars, Answers, FallsSilent, Pushes, HangsUp, RustSeesEnd,
         RustReceives, RustStopsListening

(* The lock of the Python client keeps one id under way. *)
LEMMA OneUnderWayStep ==
  ASSUME ClientTypeOK, OneUnderWay, NothingAsked, [ClientNext]_clientVars
  PROVE  OneUnderWay'
<1>0. lang' = lang /\ (slipped => slipped')
  BY DEF ClientNext, clientVars, Answers, FallsSilent, Pushes, HangsUp, RustReads, RustSeesEnd,
         RustDrains, RustReceives, RustStopsListening, NodeReads, NodeCloses, RustCalls,
         RustWrites, RustWriteFails, RustLeaves, NodeCalls, NodeTimesOut, PythonCalls,
         PythonReads, PythonSeesEnd, PythonGivesUp
<1> SUFFICES ASSUME lang = "python", ~slipped, ~slipped' PROVE OneUnderWay'
  BY <1>0 DEF OneUnderWay
<1>1. CASE UNCHANGED <<outcome, requests, lines>>
  BY <1>1 DEF OneUnderWay, Waiting
<1>2. CASE Answers
  <2>1. /\ requests # <<>> /\ lines' = Append(lines, requests[1]) /\ UNCHANGED outcome
        /\ Len(requests') = Len(requests) - 1 /\ Len(requests) >= 1
    BY <1>2, FirstLine DEF Answers
  <2>2. Waiting(requests[1]) /\ requests[1] \in Calls /\ Len(requests) = 1
    BY <2>1, FirstLine DEF OneUnderWay
  <2>3. \A k \in 1 .. Len(lines) : lines[k] = Note
    BY <2>2 DEF OneUnderWay
  <2>4. /\ Len(lines') = Len(lines) + 1 /\ lines'[Len(lines) + 1] = requests[1]
        /\ \A k \in 1 .. Len(lines) : lines'[k] = Note
    BY <2>1, <2>2, <2>3, FirstLine
  <2>5. Len(requests') = 0 /\ Len(lines) \in Nat
    BY <2>1, <2>2, FirstLine
  <2>6. \A k \in 1 .. Len(lines') : lines'[k] # Note => k = Len(lines) + 1
    BY <2>4, <2>5
  <2> QED
    BY <2>1, <2>2, <2>4, <2>5, <2>6 DEF OneUnderWay, Waiting
<1>3. CASE Pushes
  <2>1. /\ Len(lines') = Len(lines) + 1 /\ lines'[Len(lines) + 1] = Note
        /\ \A k \in 1 .. Len(lines) : lines'[k] = lines[k]
        /\ UNCHANGED <<outcome, requests>> /\ Len(lines) \in Nat
    BY <1>3, FirstLine DEF Pushes
  <2>2. \A k \in 1 .. Len(lines') : lines'[k] # Note => k \in 1 .. Len(lines) /\ lines'[k] = lines[k]
    BY <2>1
  <2> QED
    BY <2>1, <2>2 DEF OneUnderWay, Waiting
<1>4. CASE HangsUp
  <2>1. Len(requests') = 0 /\ UNCHANGED <<outcome, lines>>
    BY <1>4 DEF HangsUp
  <2> QED
    BY <2>1 DEF OneUnderWay, Waiting
<1>5. ASSUME NEW i \in Calls, PythonCalls(i) PROVE OneUnderWay'
  <2>1. /\ \A j \in Calls : ~Waiting(j)
        /\ UNCHANGED lines
        /\ \/ requests' = Append(requests, i) /\ Settles(i, "waiting")
           \/ requests' = requests /\ Settles(i, "failed")
    BY <1>5 DEF PythonCalls, NoneUnderWay
  <2>2. /\ Len(requests) = 0
        /\ \A k \in 1 .. Len(lines) : lines[k] = Note
    BY <2>1, FirstLine DEF OneUnderWay
  <2>3. CASE requests' = Append(requests, i) /\ Settles(i, "waiting")
    <3>1. outcome'[i].is = "waiting" /\ \A j \in Calls \ {i} : outcome'[j] = outcome[j]
      BY <2>3 DEF Settles, ClientTypeOK
    <3>2. Len(requests') = 1 /\ requests'[1] = i
      BY <2>2, <2>3, FirstLine
    <3> QED
      BY <2>1, <2>2, <3>1, <3>2 DEF OneUnderWay, Waiting
  <2>4. CASE requests' = requests /\ Settles(i, "failed")
    <3>1. \A j \in Calls : ~Waiting(j)'
      BY <2>1, <2>4 DEF Settles, Waiting, ClientTypeOK
    <3> QED
      BY <2>1, <2>2, <2>4, <3>1 DEF OneUnderWay
  <2> QED
    BY <2>1, <2>3, <2>4
<1>6. ASSUME NEW i \in Calls, PythonReads(i) PROVE OneUnderWay'
  <2>1. /\ Waiting(i) /\ lines # <<>> /\ lines' = Tail(lines) /\ UNCHANGED requests
        /\ Head(lines) # Note /\ Answered(i, Head(lines))
    BY <1>6 DEF PythonReads
  <2>2. \A k \in 1 .. Len(lines') : lines'[k] = Note
    BY <2>1, OwnLine
  <2>3. Len(requests) = 0
    BY <2>1, FirstLine DEF OneUnderWay
  <2>4. \A j \in Calls : ~Waiting(j)'
    BY <2>1 DEF OneUnderWay, Answered, Waiting, ClientTypeOK
  <2> QED
    BY <2>1, <2>2, <2>3, <2>4 DEF OneUnderWay
<1>7. ASSUME NEW i \in Calls, PythonSeesEnd(i) PROVE OneUnderWay'
  <2>1. /\ Waiting(i) /\ Len(lines) = 0 /\ Len(requests) = 0 /\ Settles(i, "failed")
        /\ UNCHANGED <<requests, lines>>
    BY <1>7 DEF PythonSeesEnd, NothingAsked
  <2>2. \A j \in Calls : ~Waiting(j)'
    BY <2>1 DEF OneUnderWay, Settles, Waiting, ClientTypeOK
  <2> QED
    BY <2>1, <2>2 DEF OneUnderWay
<1>8. ~\E i \in Calls : PythonGivesUp(i)
  BY DEF PythonGivesUp
<1> QED
  BY <1>1, <1>2, <1>3, <1>4, <1>5, <1>6, <1>7, <1>8
     DEF ClientNext, clientVars, FallsSilent, RustReads, RustSeesEnd, RustDrains, RustReceives,
         RustStopsListening, NodeReads, NodeCloses, RustCalls, RustWrites, RustWriteFails,
         RustLeaves, NodeCalls, NodeTimesOut

(* Calls, lines and the reader of a connection of any client have their    *)
(* types, however its calls are cancelled and whenever the daemon stops.   *)
THEOREM ClientTypes == ClientSpec => []ClientTypeOK
  BY ClientTypesInit, ClientTypesStep, PTL DEF ClientSpec

(* send_request and the reader of the Rust client, call and handleData of  *)
(* the Node client, call of the Python client: an answer a call returns is *)
(* its own, on a Python connection until a call lets go of its lock early. *)
THEOREM AnswersAreOwn == ClientSpec => []OwnAnswer
<1>1. ClientInit => ClientInv
  <2> SUFFICES ASSUME ClientInit PROVE ClientInv
    OBVIOUS
  <2>1. Len(requests) = 0 /\ Len(lines) = 0 /\ \A i \in Calls : outcome[i].is = "unsent"
    BY DEF ClientInit
  <2> QED
    BY <2>1, ClientTypesInit DEF ClientInv, OneUnderWay, NothingAsked, OwnAnswer, Waiting
<1>2. ClientInv /\ [ClientNext]_clientVars => ClientInv'
  BY ClientTypesStep, OneUnderWayStep, NothingAskedStep, OwnAnswerStep DEF ClientInv
<1>3. ClientInv => OwnAnswer
  BY DEF ClientInv
<1> QED
  BY <1>1, <1>2, <1>3, PTL DEF ClientSpec

-----------------------------------------------------------------------------
(* Cross-machine sync. *)

(* A sync has another machine for its peer. *)
LEMMA PeerIsOther == \A p \in Machines : Peer(p) \in Machines /\ Peer(p) # p
  BY SyncAssumption DEF Peer

(* Both machines start with empty stores and no sync. *)
LEMMA SyncTypesInit == SyncInit => SyncTypeOK
  BY SyncAssumption DEF SyncInit, SyncTypeOK, NoPull, Pull, Unborn

(* What is converted or queried is a row again. *)
LEMMA RowsTyped ==
  ASSUME SyncTypeOK, NEW p \in Machines
  PROVE  /\ \A row \in Row : Converted(row, p) \in Row
         /\ History(p) \in SUBSET Row
         /\ NoPull \in Pull
<1>1. \A row \in Row : Converted(row, p) \in Row
  BY DEF Converted, Row
<1>2. History(p) \in SUBSET Row
  BY PeerIsOther DEF History, SyncTypeOK
<1>3. NoPull \in Pull
  BY DEF NoPull, Pull
<1> QED
  BY <1>1, <1>2, <1>3

(* The event loop, sync_peer and sync_events keep the types. *)
LEMMA SyncTypesStep == SyncTypeOK /\ [SyncNext]_syncVars => SyncTypeOK'
<1> SUFFICES ASSUME SyncTypeOK, [SyncNext]_syncVars PROVE SyncTypeOK'
  OBVIOUS
<1> USE DEF SyncTypeOK
<1>1. CASE SecondPasses
  BY <1>1, SyncAssumption DEF SecondPasses
<1>2. ASSUME NEW e \in SyncEvents, Happens(e) PROVE SyncTypeOK'
  <2>1. PICK row \in Row : row = [event |-> e, label |-> Home[e], whole |-> FALSE]
    BY SyncAssumption DEF Row
  <2>2. /\ store' = [store EXCEPT ![Home[e]] = @ \cup {row}]
        /\ unpublished' = [unpublished EXCEPT ![Home[e]] = @ \cup {row}]
        /\ born' = [born EXCEPT ![e] = now]
        /\ UNCHANGED <<now, lastSync, pull, acknowledged, gap>>
    BY <1>2, <2>1 DEF Happens
  <2>3. now \in 0..Unborn
    BY SyncAssumption DEF Unborn
  <2> QED
    BY <2>2, <2>3
<1>3. ASSUME NEW m \in Machines, NEW row \in unpublished[m], Publishes(m, row) PROVE SyncTypeOK'
  <2>1. unpublished' = [unpublished EXCEPT ![m] = @ \ {row}] /\ row \in Row
        /\ UNCHANGED <<now, born, store, lastSync, acknowledged>>
    BY <1>3 DEF Publishes
  <2>2. pull' \in [Machines -> Pull]
    <3>1. \/ pull' = pull
          \/ pull' = [pull EXCEPT ![Peer(m)].inbox = @ \cup {row}, ![Peer(m)].sent = @ \cup {row}]
      BY <1>3 DEF Publishes
    <3>2. pull[Peer(m)] \in Pull
      BY PeerIsOther
    <3>3. [pull[Peer(m)] EXCEPT !.inbox = @ \cup {row}, !.sent = @ \cup {row}] \in Pull
      BY <2>1, <3>2 DEF Pull
    <3> QED
      BY <3>1, <3>3
  <2>3. gap' \in [Machines -> SUBSET Row]
    BY <1>3, <2>1 DEF Publishes
  <2> QED
    BY <2>1, <2>2, <2>3
<1>4. ASSUME NEW p \in Machines, Asks(p) PROVE SyncTypeOK'
  <2>1. [NoPull EXCEPT !.at = "replay", !.sent = History(p)] \in Pull
    BY RowsTyped DEF NoPull, Pull
  <2> QED
    BY <1>4, <2>1 DEF Asks
<1>5. ASSUME NEW p \in Machines, Replayed(p) \/ BridgeEnds(p) PROVE SyncTypeOK'
  <2>1. pull[p] \in Pull
    OBVIOUS
  <2>2. [pull[p] EXCEPT !.at = "streaming", !.inbox = pull[p].sent, !.live = TRUE] \in Pull
        /\ [pull[p] EXCEPT !.live = FALSE] \in Pull
    BY <2>1 DEF Pull
  <2> QED
    BY <1>5, <2>2 DEF Replayed, BridgeEnds
<1>6. ASSUME NEW p \in Machines, Finishes(p) \/ Drops(p) PROVE SyncTypeOK'
  <2>1. pull[p] \in Pull /\ pull[p].batch \in SUBSET Row /\ pull[p].sent \in SUBSET Row
    BY DEF Pull
  <2> QED
    BY <1>6, <2>1, RowsTyped DEF Finishes, Drops
<1>7. ASSUME NEW p \in Machines, NEW row \in pull[p].inbox, Reads(p, row) PROVE SyncTypeOK'
  <2>1. pull[p] \in Pull /\ row \in Row
    BY DEF Pull
  <2>2. Converted(row, p) \in Row
    BY <2>1, RowsTyped
  <2>3. \A b \in SUBSET Row : [pull[p] EXCEPT !.inbox = @ \ {row}, !.batch = b] \in Pull
    BY <2>1 DEF Pull
  <2>4. PICK b \in SUBSET Row : pull' = [pull EXCEPT ![p].inbox = @ \ {row}, ![p].batch = b]
    BY <1>7, <2>1, <2>2 DEF Reads, Pull
  <2> QED
    BY <1>7, <2>3, <2>4 DEF Reads
<1>8. CASE UNCHANGED syncVars
  BY <1>8 DEF syncVars
<1> QED
  BY <1>1, <1>2, <1>3, <1>4, <1>5, <1>6, <1>7, <1>8 DEF SyncNext

(* Rows are of events that have happened; a store has rows under its own   *)
(* label only, and what comes from a peer is under another; and a message  *)
(* once sent is on its way, in the store or in the batch, and in the store *)
(* for good when the sync has ended Ok.                                    *)
RowsAt(p) ==
  store[p] \cup unpublished[p] \cup acknowledged[p]
    \cup pull[p].sent \cup pull[p].inbox \cup pull[p].batch

RowsBorn == \A p \in Machines : \A r \in RowsAt(p) : born[r.event] # Unborn

RowsLabelled ==
  \A p \in Machines :
    /\ \A r \in store[p] \cup unpublished[p] \cup pull[p].batch : r.label = p
    /\ \A r \in pull[p].sent \cup pull[p].inbox : r.label # p

SentIsKept ==
  \A p \in Machines : pull[p].at = "streaming" =>
    \A r \in pull[p].sent :
      \/ r \in pull[p].inbox
      \/ Exists(p, Converted(r, p))
      \/ \E b \in pull[p].batch : SameEvent(Converted(r, p), b)

AcknowledgedFound ==
  \A p \in Machines : \A r \in acknowledged[p] : Exists(p, Converted(r, p))

SyncInv == SyncTypeOK /\ RowsBorn /\ RowsLabelled /\ SentIsKept /\ AcknowledgedFound

(* What a step does to one sync and to the store it is for. *)
LEMMA StoresGrow ==
  ASSUME SyncTypeOK, [SyncNext]_syncVars
  PROVE  /\ \A p \in Machines : store[p] \subseteq store'[p]
         /\ \A e \in SyncEvents : born[e] # Unborn => born'[e] = born[e]
<1>1. ASSUME NEW e \in SyncEvents, Happens(e)
      PROVE  /\ \A p \in Machines : store[p] \subseteq store'[p]
             /\ \A x \in SyncEvents : born[x] # Unborn => born'[x] = born[x]
  BY <1>1 DEF Happens, SyncTypeOK
<1>2. ASSUME NEW p \in Machines, Finishes(p)
      PROVE  UNCHANGED born /\ \A q \in Machines : store[q] \subseteq store'[q]
  BY <1>2 DEF Finishes, SyncTypeOK
<1>3. \/ UNCHANGED <<born, store>>
      \/ \E e \in SyncEvents : Happens(e)
      \/ \E p \in Machines : Finishes(p)
  BY DEF SyncNext, syncVars, SecondPasses, Publishes, Asks, Replayed, Reads, BridgeEnds, Drops
<1> QED
  BY <1>1, <1>2, <1>3

(* Being the same event, and having it, does not pass. *)
LEMMA SameStays ==
  ASSUME SyncTypeOK, [SyncNext]_syncVars, NEW r \in Row, NEW s \in Row,
         born[r.event] # Unborn, born[s.event] # Unborn, SameEvent(r, s)
  PROVE  SameEvent(r, s)'
<1>1. r.event \in SyncEvents /\ s.event \in SyncEvents
  BY DEF Row
<1>2. born'[r.event] = born[r.event] /\ born'[s.event] = born[s.event]
  BY <1>1, StoresGrow
<1> QED
  BY <1>2 DEF SameEvent

(* event_exists once true stays true: a sync and its service only add rows. *)
LEMMA ExistsStays ==
  ASSUME SyncTypeOK, RowsBorn, [SyncNext]_syncVars, NEW p \in Machines, NEW r \in Row,
         born[r.event] # Unborn, Exists(p, Converted(r, p))
  PROVE  Exists(p, Converted(r, p))'
<1>1. PICK s \in store[p] : SameEvent(Converted(r, p), s)
  BY DEF Exists
<1>2. s \in Row /\ born[s.event] # Unborn
  BY DEF SyncTypeOK, RowsBorn, RowsAt
<1>3. Converted(r, p) \in Row /\ Converted(r, p).event = r.event
  BY RowsTyped DEF Converted
<1>4. PICK c \in Row : c = Converted(r, p)
  BY <1>3
<1>5. SameEvent(c, s)'
  BY <1>1, <1>2, <1>3, <1>4, SameStays
<1>6. s \in store'[p]
  BY <1>1, StoresGrow
<1>7. Converted(r, p)' = c
  BY <1>4 DEF Converted
<1> QED
  BY <1>4, <1>5, <1>6, <1>7 DEF Exists, Converted, SameEvent

(* No row is made but of an event that happens. *)
LEMMA RowsBornStep ==
  ASSUME SyncTypeOK, RowsBorn, [SyncNext]_syncVars
  PROVE  RowsBorn'
<1>1. \A p \in Machines : RowsAt(p) \subseteq Row
  BY DEF RowsAt, SyncTypeOK, Pull
<1>2. \A r \in Row : born[r.event] # Unborn => born'[r.event] # Unborn
  BY StoresGrow DEF Row
<1>4. ASSUME NEW e \in SyncEvents, Happens(e) PROVE RowsBorn'
  <2>1. PICK row \in Row : row = [event |-> e, label |-> Home[e], whole |-> FALSE]
    BY SyncAssumption DEF Row
  <2>2. \A p \in Machines : RowsAt(p)' \subseteq RowsAt(p) \cup {row}
    BY <1>4, <2>1 DEF Happens, RowsAt, SyncTypeOK
  <2>3. born'[row.event] # Unborn
    BY <1>4, <2>1, SyncAssumption DEF Happens, SyncTypeOK, Unborn
  <2> QED
    BY <1>1, <1>2, <2>2, <2>3 DEF RowsBorn
<1>5. ASSUME NEW m \in Machines, NEW row \in unpublished[m], Publishes(m, row) PROVE RowsBorn'
  <2>1. row \in RowsAt(m) /\ pull[Peer(m)] \in Pull /\ Peer(m) \in Machines
    BY PeerIsOther DEF RowsAt, SyncTypeOK
  <2>2. \A p \in Machines : RowsAt(p)' \subseteq RowsAt(p) \cup {row}
    <3>1. \A p \in Machines : /\ pull'[p].batch = pull[p].batch
                              /\ pull'[p].sent \subseteq pull[p].sent \cup {row}
                              /\ pull'[p].inbox \subseteq pull[p].inbox \cup {row}
                              /\ unpublished'[p] \subseteq unpublished[p]
      BY <1>5, <2>1 DEF Publishes, SyncTypeOK, Pull
    <3> QED
      BY <1>5, <3>1 DEF Publishes, RowsAt
  <2> QED
    BY <1>1, <1>2, <2>1, <2>2 DEF RowsBorn
<1>6. ASSUME NEW p \in Machines, Asks(p) PROVE RowsBorn'
  <2>1. pull'[p] = [NoPull EXCEPT !.at = "replay", !.sent = History(p)]
        /\ \A q \in Machines \ {p} : pull'[q] = pull[q]
    BY <1>6 DEF Asks, SyncTypeOK
  <2>2. pull'[p].sent \subseteq store[Peer(p)] /\ pull'[p].inbox = {} /\ pull'[p].batch = {}
    BY <2>1 DEF NoPull, History
  <2>3. UNCHANGED <<born, store, unpublished, acknowledged>>
    BY <1>6 DEF Asks
  <2> QED
    BY <2>1, <2>2, <2>3, PeerIsOther DEF RowsBorn, RowsAt
<1>7. ASSUME NEW p \in Machines, Replayed(p) \/ BridgeEnds(p) PROVE RowsBorn'
  <2>1. \A q \in Machines : pull'[q].inbox \subseteq pull[q].inbox \cup pull[q].sent
                            /\ pull'[q].sent = pull[q].sent /\ pull'[q].batch = pull[q].batch
    BY <1>7 DEF Replayed, BridgeEnds, SyncTypeOK, Pull
  <2>2. UNCHANGED <<born, store, unpublished, acknowledged>>
    BY <1>7 DEF Replayed, BridgeEnds
  <2> QED
    BY <2>1, <2>2 DEF RowsBorn, RowsAt
<1>8. ASSUME NEW p \in Machines, Finishes(p) \/ Drops(p) PROVE RowsBorn'
  <2>1. UNCHANGED born /\ \A q \in Machines : RowsAt(q)' \subseteq RowsAt(q)
    BY <1>8 DEF Finishes, Drops, RowsAt, SyncTypeOK, NoPull
  <2> QED
    BY <2>1 DEF RowsBorn
<1>9. ASSUME NEW p \in Machines, NEW row \in pull[p].inbox, Reads(p, row) PROVE RowsBorn'
  <2>1. \A q \in Machines : RowsAt(q)' \subseteq RowsAt(q) \cup {Converted(row, p)}
    BY <1>9 DEF Reads, RowsAt, SyncTypeOK, Pull
  <2>2. Converted(row, p).event = row.event /\ row \in RowsAt(p) /\ UNCHANGED born
    BY <1>9 DEF Converted, RowsAt, Reads
  <2> QED
    BY <2>1, <2>2 DEF RowsBorn
<1>10. CASE UNCHANGED syncVars \/ SecondPasses
  BY <1>10 DEF syncVars, SecondPasses, RowsBorn, RowsAt, Unborn
<1> QED
  BY <1>4, <1>5, <1>6, <1>7, <1>8, <1>9, <1>10 DEF SyncNext

(* Rows change machines and labels together. *)
LEMMA RowsLabelledStep ==
  ASSUME SyncTypeOK, RowsLabelled, [SyncNext]_syncVars
  PROVE  RowsLabelled'
<1>1. ASSUME NEW e \in SyncEvents, Happens(e) PROVE RowsLabelled'
  <2>1. PICK row \in Row : row = [event |-> e, label |-> Home[e], whole |-> FALSE]
    BY SyncAssumption DEF Row
  <2>2. /\ \A p \in Machines \ {Home[e]} : store'[p] = store[p] /\ unpublished'[p] = unpublished[p]
        /\ store'[Home[e]] = store[Home[e]] \cup {row}
        /\ unpublished'[Home[e]] = unpublished[Home[e]] \cup {row}
        /\ row.label = Home[e] /\ UNCHANGED pull
    BY <1>1, <2>1, SyncAssumption DEF Happens, SyncTypeOK
  <2> QED
    BY <2>2 DEF RowsLabelled
<1>2. ASSUME NEW m \in Machines, NEW row \in unpublished[m], Publishes(m, row) PROVE RowsLabelled'
  <2>1. row.label = m /\ Peer(m) # m /\ Peer(m) \in Machines /\ pull[Peer(m)] \in Pull
    BY PeerIsOther DEF RowsLabelled, SyncTypeOK
  <2>2. /\ \A p \in Machines : /\ pull'[p].batch = pull[p].batch
                               /\ unpublished'[p] \subseteq unpublished[p]
        /\ pull'[Peer(m)].inbox \subseteq pull[Peer(m)].inbox \cup {row}
        /\ pull'[Peer(m)].sent \subseteq pull[Peer(m)].sent \cup {row}
        /\ \A p \in Machines \ {Peer(m)} : pull'[p].inbox = pull[p].inbox
                                          /\ pull'[p].sent = pull[p].sent
        /\ UNCHANGED store
    BY <1>2, <2>1 DEF Publishes, SyncTypeOK, Pull
  <2> QED
    BY <2>1, <2>2 DEF RowsLabelled
<1>3. ASSUME NEW p \in Machines, Asks(p) PROVE RowsLabelled'
  <2>1. pull'[p] = [NoPull EXCEPT !.at = "replay", !.sent = History(p)]
        /\ \A q \in Machines \ {p} : pull'[q] = pull[q]
    BY <1>3 DEF Asks, SyncTypeOK
  <2>2. pull'[p].sent \subseteq store[Peer(p)] /\ pull'[p].inbox = {} /\ pull'[p].batch = {}
    BY <2>1 DEF NoPull, History
  <2>3. UNCHANGED <<store, unpublished>>
    BY <1>3 DEF Asks
  <2>4. \A r \in pull'[p].sent : r.label # p
    BY <2>2, PeerIsOther DEF RowsLabelled
  <2> QED
    BY <2>1, <2>2, <2>3, <2>4 DEF RowsLabelled
<1>4. ASSUME NEW p \in Machines, Replayed(p) \/ BridgeEnds(p) PROVE RowsLabelled'
  <2>1. \A q \in Machines : pull'[q].inbox \subseteq pull[q].inbox \cup pull[q].sent
                            /\ pull'[q].sent = pull[q].sent /\ pull'[q].batch = pull[q].batch
    BY <1>4 DEF Replayed, BridgeEnds, SyncTypeOK, Pull
  <2>2. UNCHANGED <<store, unpublished>>
    BY <1>4 DEF Replayed, BridgeEnds
  <2> QED
    BY <2>1, <2>2 DEF RowsLabelled
<1>5. ASSUME NEW p \in Machines, Finishes(p) \/ Drops(p) PROVE RowsLabelled'
  <2>1. \A q \in Machines : /\ store'[q] \subseteq store[q] \cup pull[q].batch
                            /\ unpublished'[q] \subseteq unpublished[q] \cup pull[q].batch
                            /\ pull'[q] = pull[q] \/ pull'[q] = NoPull
    BY <1>5 DEF Finishes, Drops, SyncTypeOK
  <2>2. NoPull.sent = {} /\ NoPull.inbox = {} /\ NoPull.batch = {}
    BY DEF NoPull
  <2> QED
    BY <2>1, <2>2 DEF RowsLabelled
<1>6. ASSUME NEW p \in Machines, NEW row \in pull[p].inbox, Reads(p, row) PROVE RowsLabelled'
  <2>1. /\ \A q \in Machines : pull'[q].sent = pull[q].sent
                               /\ pull'[q].inbox \subseteq pull[q].inbox
        /\ \A q \in Machines \ {p} : pull'[q].batch = pull[q].batch
        /\ pull'[p].batch \subseteq pull[p].batch \cup {Converted(row, p)}
        /\ UNCHANGED <<store, unpublished>>
    BY <1>6 DEF Reads, SyncTypeOK, Pull
  <2>2. Converted(row, p).label = p
    BY DEF Converted
  <2> QED
    BY <2>1, <2>2 DEF RowsLabelled
<1>7. CASE UNCHANGED syncVars \/ SecondPasses
  BY <1>7 DEF syncVars, SecondPasses, RowsLabelled
<1> QED
  BY <1>1, <1>2, <1>3, <1>4, <1>5, <1>6, <1>7 DEF SyncNext

(* What a sync was sent stays on its way through its loop. *)
LEMMA SentIsKeptStep ==
  ASSUME SyncTypeOK, RowsBorn, RowsLabelled, SentIsKept, [SyncNext]_syncVars
  PROVE  SentIsKept'
<1> SUFFICES ASSUME NEW p \in Machines, pull'[p].at = "streaming", NEW r \in pull'[p].sent,
                    r \notin pull'[p].inbox
             PROVE  \/ Exists(p, Converted(r, p))'
                    \/ \E b \in pull'[p].batch : SameEvent(Converted(r, p), b)'
  BY DEF SentIsKept
<1>0. pull[p] \in Pull /\ NoPull.at = "idle"
  BY DEF SyncTypeOK, NoPull
<1>1. ASSUME pull[p].at = "streaming", r \in pull[p].sent, r \notin pull[p].inbox,
             pull[p].batch \subseteq pull'[p].batch
      PROVE  \/ Exists(p, Converted(r, p))'
             \/ \E b \in pull'[p].batch : SameEvent(Converted(r, p), b)'
  <2>1. r \in Row /\ born[r.event] # Unborn
    BY <1>0, <1>1 DEF Pull, RowsBorn, RowsAt
  <2>2. CASE Exists(p, Converted(r, p))
    BY <2>1, <2>2, ExistsStays
  <2>3. ASSUME NEW b \in pull[p].batch, SameEvent(Converted(r, p), b)
        PROVE  \E c \in pull'[p].batch : SameEvent(Converted(r, p), c)'
    <3>1. b \in Row /\ born[b.event] # Unborn
      BY <1>0 DEF Pull, RowsBorn, RowsAt
    <3>2. PICK c \in Row : c = Converted(r, p)
      BY <2>1, RowsTyped
    <3>3. born[c.event] # Unborn
      BY <2>1, <3>2 DEF Converted
    <3>4. SameEvent(c, b)'
      BY <2>3, <3>1, <3>2, <3>3, SameStays
    <3> QED
      BY <1>1, <3>2, <3>4 DEF Converted
  <2> QED
    BY <1>1, <2>2, <2>3 DEF SentIsKept
<1>2. CASE pull'[p] = pull[p]
  BY <1>1, <1>2
<1>3. ASSUME NEW m \in Machines, NEW row \in unpublished[m], Publishes(m, row)
      PROVE  pull[p].at = "streaming" /\ r \in pull[p].sent /\ r \notin pull[p].inbox
             /\ pull[p].batch \subseteq pull'[p].batch
  BY <1>0, <1>3, PeerIsOther DEF Publishes, SyncTypeOK, Pull
<1>4. ASSUME NEW q \in Machines, Asks(q) PROVE pull'[p] = pull[p]
  BY <1>4 DEF Asks, SyncTypeOK, NoPull
<1>5. ASSUME NEW q \in Machines, Finishes(q) \/ Drops(q) PROVE pull'[p] = pull[p]
  BY <1>0, <1>5 DEF Finishes, Drops, SyncTypeOK
<1>6. ASSUME NEW q \in Machines, Replayed(q) PROVE pull'[p] = pull[p]
  BY <1>0, <1>6 DEF Replayed, SyncTypeOK, Pull
<1>7. ASSUME NEW q \in Machines, BridgeEnds(q)
      PROVE  pull[p].at = "streaming" /\ r \in pull[p].sent /\ r \notin pull[p].inbox
             /\ pull[p].batch \subseteq pull'[p].batch
  BY <1>0, <1>7 DEF BridgeEnds, SyncTypeOK, Pull
<1>8. ASSUME NEW row \in pull[p].inbox, Reads(p, row)
      PROVE  \/ Exists(p, Converted(r, p))'
             \/ \E b \in pull'[p].batch : SameEvent(Converted(r, p), b)'
  <2>1. /\ pull[p].at = "streaming" /\ pull'[p].sent = pull[p].sent
        /\ pull'[p].inbox = pull[p].inbox \ {row}
        /\ pull[p].batch \subseteq pull'[p].batch
        /\ row.label = p \/ Exists(p, Converted(row, p)) \/ Converted(row, p) \in pull'[p].batch
        /\ row \in Row
    BY <1>0, <1>8 DEF Reads, SyncTypeOK, Pull
  <2>2. CASE r # row
    BY <1>1, <2>1, <2>2
  <2>3. CASE r = row
    <3>1. row.label # p /\ born[row.event] # Unborn
      BY DEF RowsLabelled, RowsBorn, RowsAt
    <3>2. CASE Exists(p, Converted(row, p))
      BY <2>1, <2>3, <3>1, <3>2, ExistsStays
    <3>3. CASE Converted(row, p) \in pull'[p].batch
      <4>1. SameEvent(Converted(row, p), Converted(row, p))'
        BY DEF SameEvent, Converted
      <4> QED
        BY <2>3, <3>3, <4>1 DEF Converted
    <3> QED
      BY <2>1, <3>1, <3>2, <3>3
  <2> QED
    BY <2>2, <2>3
<1>9. ASSUME NEW q \in Machines \ {p}, NEW row \in pull[q].inbox, Reads(q, row)
      PROVE  pull'[p] = pull[p]
  BY <1>9 DEF Reads, SyncTypeOK
<1>10. SecondPasses \/ UNCHANGED syncVars \/ (\E e \in SyncEvents : Happens(e)) => pull'[p] = pull[p]
  BY DEF SecondPasses, syncVars, Happens
<1> QED
  BY <1>1, <1>2, <1>3, <1>4, <1>5, <1>6, <1>7, <1>8, <1>9, <1>10 DEF SyncNext

(* A sync that ends Ok has stored what it was sent. *)
LEMMA CleanSyncStep ==
  ASSUME SyncInv, [SyncNext]_syncVars
  PROVE  AcknowledgedFound'
<1> SUFFICES ASSUME NEW p \in Machines, NEW r \in acknowledged'[p]
             PROVE  Exists(p, Converted(r, p))'
  BY DEF AcknowledgedFound
<1>1. CASE r \in acknowledged[p]
  <2>1. r \in Row /\ born[r.event] # Unborn /\ Exists(p, Converted(r, p))
    BY <1>1 DEF SyncInv, SyncTypeOK, RowsBorn, RowsAt, AcknowledgedFound
  <2> QED
    BY <2>1, ExistsStays DEF SyncInv
<1>2. ASSUME NEW q \in Machines, Finishes(q), r \notin acknowledged[p]
      PROVE  Exists(p, Converted(r, p))'
  <2>1. /\ p = q /\ r \in pull[p].sent /\ pull[p].at = "streaming" /\ pull[p].inbox = {}
        /\ store'[p] = store[p] \cup pull[p].batch /\ UNCHANGED born
    BY <1>2 DEF Finishes, SyncInv, SyncTypeOK
  <2>2. \/ Exists(p, Converted(r, p))
        \/ \E b \in pull[p].batch : SameEvent(Converted(r, p), b)
    BY <2>1 DEF SyncInv, SentIsKept
  <2>3. PICK s \in store'[p] : SameEvent(Converted(r, p), s)
    BY <2>1, <2>2 DEF Exists
  <2>4. SameEvent(Converted(r, p), s)'
    BY <2>1, <2>3 DEF SameEvent, Converted
  <2> QED
    BY <2>4 DEF Exists
<1>3. r \in acknowledged[p] \/ \E q \in Machines : Finishes(q)
  BY DEF SyncNext, syncVars, SecondPasses, Happens, Publishes, Asks, Replayed, Reads, BridgeEnds,
         Drops
<1> QED
  BY <1>1, <1>2, <1>3

(* What event_exists finds is the row itself, or that of another event of  *)
(* the file in the same second.                                            *)
LEMMA FoundIsStored ==
  ASSUME SyncInv
  PROVE  CleanSyncComplete
<1> SUFFICES ASSUME NEW p \in Machines, NEW r \in acknowledged[p], Converted(r, p) \notin store[p]
             PROVE  \E e \in SyncEvents \ {r.event} :
                      /\ PathOf[e] = PathOf[r.event] /\ born[e] = born[r.event]
                      /\ [event |-> e, label |-> p, whole |-> TRUE] \in store[p]
  BY DEF CleanSyncComplete
<1>1. PICK s \in store[p] : SameEvent(Converted(r, p), s)
  BY DEF SyncInv, AcknowledgedFound, Exists
<1>2. /\ s.label = p /\ s.whole = TRUE
      /\ PathOf[s.event] = PathOf[r.event] /\ born[s.event] = born[r.event]
  BY <1>1 DEF SameEvent, Converted
<1>3. s \in Row
  BY DEF SyncInv, SyncTypeOK
<1>4. s = [event |-> s.event, label |-> p, whole |-> TRUE] /\ s.event \in SyncEvents
  BY <1>2, <1>3 DEF Row
<1>5. s.event # r.event
  BY <1>4 DEF Converted
<1> QED
  BY <1>2, <1>4, <1>5

(* sync_peer and sync_events: what the peer sent to a sync that ended      *)
(* without an error, and will not be asked for again, is in the store but  *)
(* for an event whose file had another in the same second, which is there  *)
(* instead; skipped duplicates, the batch at the end and the new last_sync *)
(* lose nothing else of it.                                                *)
THEOREM CleanSyncsComplete == SyncSpec => []CleanSyncComplete
<1>1. SyncInit => SyncInv
  <2> SUFFICES ASSUME SyncInit PROVE SyncInv
    OBVIOUS
  <2>1. \A p \in Machines : /\ RowsAt(p) = {} /\ pull[p].at = "idle" /\ acknowledged[p] = {}
                            /\ store[p] = {} /\ unpublished[p] = {} /\ pull[p].batch = {}
                            /\ pull[p].sent = {} /\ pull[p].inbox = {}
    BY DEF SyncInit, NoPull, RowsAt
  <2> QED
    BY <2>1, SyncTypesInit DEF SyncInv, RowsBorn, RowsLabelled, SentIsKept, AcknowledgedFound
<1>2. SyncInv /\ [SyncNext]_syncVars => SyncInv'
  BY SyncTypesStep, RowsBornStep, RowsLabelledStep, SentIsKeptStep, CleanSyncStep DEF SyncInv
<1>3. SyncInv => CleanSyncComplete
  BY FoundIsStored
<1> QED
  BY <1>1, <1>2, <1>3, PTL DEF SyncSpec

-----------------------------------------------------------------------------
(* All of them. *)

(* Every value that the processes, the gateway, the plugin and the syncs   *)
(* keep has its type.                                                      *)
THEOREM ProcessesTypes == ProcessesSpec => []ProcessesTypeOK
<1>1. ProcessesInit => ProcessesTypeOK
  BY SyncTypesInit, GatewayTypesInit, ProcessInitially, PluginTypesInit
     DEF ProcessesInit, ProcessesTypeOK, ProcessInv
<1>2. ProcessesTypeOK /\ [ProcessesNext]_partVars => ProcessesTypeOK'
  <2> SUFFICES ASSUME ProcessesTypeOK, [ProcessesNext]_partVars PROVE ProcessesTypeOK'
    OBVIOUS
  <2>1. [SyncNext]_syncVars /\ [GatewayNext]_gatewayVars
    BY DEF ProcessesNext, partVars
  <2>2. [ProcessNext]_processVars /\ [PluginNext]_pluginVars
    BY DEF ProcessesNext, partVars
  <2> QED
    BY <2>1, <2>2, SyncTypesStep, GatewayTypesStep, ProcessTypeStep, PluginTypesStep
       DEF ProcessesTypeOK
<1> QED
  BY <1>1, <1>2, PTL DEF ProcessesSpec

=============================================================================
