------------------------------ MODULE Gateway ------------------------------
(***************************************************************************)
(* The gateway that relays events between daemons: a routing table filled  *)
(* by `register`, streams of events taken by `relay`, a task that removes  *)
(* silent connections, a short buffer.  One lock covers the table and the  *)
(* buffer, and every action but RelayOpens holds it throughout.            *)
(*                                                                         *)
(* `register` drops the receiver of the channel it puts into the table, so *)
(* every try_send fails: nothing is ever forwarded, and the table matters  *)
(* for who is counted as connected.  Equal registrations are one entry.    *)
(***************************************************************************)
EXTENDS Integers, Sequences

CONSTANTS
  GwProjects, GwMachines,
  Relays,      \* relay streams
  Silence,     \* seconds after which a connection is stale, 300 in the code
  MaxBuffer,   \* events kept per project, 3000 in the code
  MaxTicks     \* bound: time

ASSUME GatewayAssumption == Silence \in Nat /\ MaxBuffer \in Nat \ {0} /\ MaxTicks \in Nat

VARIABLES
  ticks,        \* seconds, as coarse as Silence allows
  connections,  \* project -> the machines connected and when they were last seen
  buffer,       \* project -> senders of the buffered events, oldest first
  relay,        \* stream -> whom its first event was from; Fresh before it
  heard,        \* history: when a project's machine last registered or, once registered, sent;
                \* Never again once it is reaped for silence
  ended         \* history: whose name a stream had that ended since they last registered

gatewayVars == <<ticks, connections, buffer, relay, heard, ended>>

Fresh == <<>>
Never == -1
Identity == GwProjects \X GwMachines

GatewayTypeOK ==
  /\ ticks \in 0..MaxTicks
  /\ connections \in [GwProjects -> SUBSET [machine: GwMachines, seen: 0..MaxTicks]]
  /\ buffer \in [GwProjects -> Seq(GwMachines)]
  /\ \A g \in GwProjects : Len(buffer[g]) <= MaxBuffer
  /\ \A s \in DOMAIN relay : s \in Relays /\ relay[s] \in Identity \cup {Fresh}
  /\ heard \in [Identity -> {Never} \cup 0..MaxTicks] /\ ended \subseteq Identity

GatewayInit ==
  /\ ticks = 0
  /\ connections = [g \in GwProjects |-> {}] /\ buffer = [g \in GwProjects |-> <<>>]
  /\ relay = <<>>
  /\ heard = [i \in Identity |-> Never] /\ ended = {}

TimePasses ==
  /\ ticks < MaxTicks
  /\ ticks' = ticks + 1
  /\ UNCHANGED <<connections, buffer, relay, heard, ended>>

(* register: one more entry for the project, whatever it has already. *)
Registers(g, m) ==
  /\ connections' = [connections EXCEPT ![g] = @ \cup {[machine |-> m, seen |-> ticks]}]
  /\ heard' = [heard EXCEPT ![<<g, m>>] = ticks] /\ ended' = ended \ {<<g, m>>}
  /\ UNCHANGED <<ticks, buffer, relay>>

RelayOpens(s) ==
  /\ s \notin DOMAIN relay
  /\ relay' = [x \in DOMAIN relay \cup {s} |-> IF x = s THEN Fresh ELSE relay[x]]
  /\ UNCHANGED <<ticks, connections, buffer, heard, ended>>

(* Seeded fault: forward_event leaves last_seen of the sender as it was. *)
SenderNotSeen(g, m) == connections

(* forward_event updates last_seen of every connection of the sender. *)
SenderSeen(g, m) ==
  [connections EXCEPT ![g] =
     {IF c.machine = m THEN [c EXCEPT !.seen = ticks] ELSE c : c \in @}]

(* Seeded fault: a full buffer is not emptied by one before the next event. *)
NeverEvicted(g, m) == Append(buffer[g], m)

(* buffer_event evicts the oldest when full. *)
Buffered(g, m) == (IF Len(buffer[g]) >= MaxBuffer THEN Tail(buffer[g]) ELSE buffer[g]) \o <<m>>

(* One inbound event of a relay, which may name any project and machine;   *)
(* the first one names the stream.                                         *)
RelaysEvent(s, g, m) ==
  /\ s \in DOMAIN relay
  /\ relay' = IF relay[s] = Fresh THEN [relay EXCEPT ![s] = <<g, m>>] ELSE relay
  /\ connections' = SenderSeen(g, m)
  /\ buffer' = [buffer EXCEPT ![g] = Buffered(g, m)]
  /\ heard' = IF heard[<<g, m>>] = Never THEN heard ELSE [heard EXCEPT ![<<g, m>>] = ticks]
  /\ UNCHANGED <<ticks, ended>>

(* The stream ends: all connections of its first event's machine go, those *)
(* of a stream or a registration still in use included.                    *)
RelayEnds(s) ==
  /\ s \in DOMAIN relay
  /\ IF relay[s] = Fresh THEN UNCHANGED <<connections, ended>>
     ELSE LET g == relay[s][1]  m == relay[s][2]
          IN  /\ connections' = [connections EXCEPT ![g] = {c \in @ : c.machine # m}]
              /\ ended' = ended \cup {relay[s]}
  /\ relay' = [x \in DOMAIN relay \ {s} |-> relay[x]]
  /\ UNCHANGED <<ticks, buffer, heard>>

(* cleanup_stale_connections, every minute. *)
Reaps ==
  /\ connections' = [g \in GwProjects |-> {c \in connections[g] : ticks - c.seen <= Silence}]
  /\ heard' = [i \in Identity |-> IF ticks - heard[i] > Silence THEN Never ELSE heard[i]]
  /\ UNCHANGED <<ticks, buffer, relay, ended>>

GatewayNext ==
  \/ TimePasses \/ Reaps
  \/ \E g \in GwProjects, m \in GwMachines :
       \/ Registers(g, m)
       \/ \E s \in DOMAIN relay : RelaysEvent(s, g, m)
  \/ \E s \in Relays : RelayOpens(s) \/ RelayEnds(s)

GatewaySpec == GatewayInit /\ [][GatewayNext]_gatewayVars

-----------------------------------------------------------------------------
(* Neither silence reaped too early nor another machine's stream takes a   *)
(* route: a machine that registered or, once registered, sent within the   *)
(* last Silence seconds is in the routing table, through time, events and  *)
(* the ends of the others' streams.  The end of a stream of its own name   *)
(* does take it, a late one from under a machine that has registered       *)
(* again: such a machine is excepted until its next registration, and one  *)
(* reaped is connected again only by registering.                          *)
ActiveIsRouted ==
  \A g \in GwProjects, m \in GwMachines :
    /\ <<g, m>> \notin ended
    /\ heard[<<g, m>>] # Never /\ ticks - heard[<<g, m>>] <= Silence
    => \E c \in connections[g] : c.machine = m

=============================================================================
