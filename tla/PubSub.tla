------------------------------- MODULE PubSub --------------------------------
(***************************************************************************)
(* What the server promises a subscriber, without channels, counts, tasks  *)
(* or polling: while a client is a member of a project it is sent that     *)
(* project's broadcasts made after it joined, in order and once each, and  *)
(* may miss only what Capacity later broadcasts have displaced (what was   *)
(* displaced while it was on its way may still arrive).  It stops being a  *)
(* member by its own request or because it went away.                      *)
(***************************************************************************)
EXTENDS Integers

CONSTANTS Conns, Projects, Capacity

VARIABLES
  published,  \* [Projects -> Nat], broadcasts made so far
  member,     \* [Conns -> SUBSET Projects]
  cursor,     \* the last broadcast passed, 0 for a non-member
  got         \* the broadcasts the client received

pubsubVars == <<published, member, cursor, got>>

Nothing == [p \in Projects |-> {}]

Init ==
  /\ published = [p \in Projects |-> 0]
  /\ member = [c \in Conns |-> {}]
  /\ cursor = [c \in Conns |-> [p \in Projects |-> 0]]
  /\ got = [c \in Conns |-> Nothing]

Publish(p) ==
  /\ published' = [published EXCEPT ![p] = @ + 1]
  /\ UNCHANGED <<member, cursor, got>>

Join(c, p) ==
  /\ member' = [member EXCEPT ![c] = @ \cup {p}]
  /\ cursor' = [cursor EXCEPT ![c][p] = published[p]]
  /\ UNCHANGED <<published, got>>

Leave(c, p) ==
  /\ member' = [member EXCEPT ![c] = @ \ {p}]
  /\ cursor' = [cursor EXCEPT ![c][p] = 0]
  /\ UNCHANGED <<published, got>>

GoAway(c) ==
  /\ member' = [member EXCEPT ![c] = {}]
  /\ cursor' = [cursor EXCEPT ![c] = [p \in Projects |-> 0]]
  /\ got' = [got EXCEPT ![c] = Nothing]
  /\ UNCHANGED published

(* The next broadcast in order. *)
Receive(c, p) ==
  /\ p \in member[c] /\ cursor[c][p] < published[p]
  /\ got' = [got EXCEPT ![c][p] = @ \cup {cursor[c][p] + 1}]
  /\ cursor' = [cursor EXCEPT ![c][p] = @ + 1]
  /\ UNCHANGED <<published, member>>

(* Passing over exactly what has been displaced. *)
Miss(c, p) ==
  /\ p \in member[c]
  /\ cursor[c][p] < published[p] - Capacity
  /\ cursor' = [cursor EXCEPT ![c][p] = published[p] - Capacity]
  /\ UNCHANGED <<published, member, got>>

Next ==
  \/ \E p \in Projects : Publish(p)
  \/ \E c \in Conns : GoAway(c)
  \/ \E c \in Conns, p \in Projects :
       Join(c, p) \/ Leave(c, p) \/ Receive(c, p) \/ Miss(c, p)

Spec == Init /\ [][Next]_pubsubVars

(* Member c of p does not stay behind for ever. *)
Serves(c, p) == WF_pubsubVars(Receive(c, p) \/ Miss(c, p))

=============================================================================
