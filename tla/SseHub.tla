------------------------------- MODULE SseHub --------------------------------
(***************************************************************************)
(* portal/sse.py: the registry of open event streams.  One hub serves the  *)
(* streams of every kind; it refuses a stream when all places, or the      *)
(* places of its kind, are taken, and counts the streams per kind beside   *)
(* the table of connections.                                               *)
(***************************************************************************)
EXTENDS Naturals, FiniteSets

CONSTANTS Kinds,           \* KINDS
          MaxConnections,  \* MAX_CONNECTIONS
          KindCap          \* KIND_CAPS, one number for every kind

ASSUME HubAssumption == MaxConnections \in Nat /\ KindCap \in Nat

VARIABLES conns,           \* SseHub._conns: <<connection, kind>>
          byKind           \* SseHub._by_kind

hubVars == <<conns, byKind>>

HubInit == conns = {} /\ byKind = [k \in Kinds |-> 0]

HubFits(kind) == Cardinality(conns) < MaxConnections /\ byKind[kind] < KindCap

HubAdd(c, kind) ==
  /\ HubFits(kind)
  /\ conns' = conns \cup {<<c, kind>>}
  /\ byKind' = [byKind EXCEPT ![kind] = @ + 1]

\* Slip: the count is reduced although the connection is not listed.
HubRemoveTwice(c) ==
  /\ conns' = {x \in conns : x[1] # c}
  /\ \E kind \in Kinds :
       byKind' = [byKind EXCEPT ![kind] = IF @ > 0 THEN @ - 1 ELSE 0]

\* Idempotent: a handler may come here without having been listed.
HubRemove(c) ==
  LET listed == {x \in conns : x[1] = c} IN
  /\ conns' = conns \ listed
  /\ byKind' = [k \in Kinds |-> byKind[k] - Cardinality({x \in listed : x[2] = k})]

\* Another stream of the kind, of another page, opens or closes.
HubOther(c, kind) ==
  IF <<c, kind>> \in conns THEN HubRemove(c) ELSE HubAdd(c, kind)

HubExact ==
  /\ \A k \in Kinds : byKind[k] = Cardinality({x \in conns : x[2] = k}) /\ byKind[k] <= KindCap
  /\ Cardinality(conns) <= MaxConnections
=============================================================================
