---------------------------- MODULE MCSteadyLoad ----------------------------
(* TransportScheduler under a steady load: two foreground clients and one  *)
(* background client of the busy device, and a background client of        *)
(* another device, each asking again whenever it has given its lease back. *)
EXTENDS TransportScheduler

CONSTANTS fg1, fg2, bg, bgElsewhere, busy, elsewhere

Clients == {fg1, fg2, bg, bgElsewhere}
Boards == {busy, elsewhere}

Role(c) ==
  [device   |-> IF c = bgElsewhere THEN elsewhere ELSE busy,
   workload |-> IF c \in {fg1, fg2} THEN Foreground ELSE Background]

SteadyNext == Next /\ \A c \in Calls : req'[c] \in {NoRequest, Role(c)}
SteadySpec == Init /\ [][SteadyNext]_vars /\ Fairness
=============================================================================
