------------------------------ MODULE MCPortal -------------------------------
(***************************************************************************)
(* The server, the log centre and the two small registries, each checked   *)
(* by itself in one run of TLC: a behaviour belongs to one of them, chosen *)
(* at its start, and the others stay as they are initially.                *)
(***************************************************************************)
EXTENDS HttpServer, LogCentre, GroupStore, KeyStore

VARIABLE part

portalVars == <<part, vars, logVars, groupVars, keyVars>>

PortalInit ==
  /\ part \in {"http", "logs", "groups", "keys"}
  /\ Init /\ LogInit /\ GroupInit /\ KeyInit

HttpMoves == part = "http" /\ Next /\ UNCHANGED <<part, logVars, groupVars, keyVars>>
LogsMove == part = "logs" /\ LogNext /\ UNCHANGED <<part, vars, groupVars, keyVars>>
GroupsMove == part = "groups" /\ GroupNext /\ UNCHANGED <<part, vars, logVars, keyVars>>
KeysMove == part = "keys" /\ KeyNext /\ UNCHANGED <<part, vars, logVars, groupVars>>

PortalNext == HttpMoves \/ LogsMove \/ GroupsMove \/ KeysMove

\* The fairness of the parts, for the one that moves.
PortalFairness ==
  /\ \A w \in Workers : /\ WF_vars(part = "http" /\ Get(w))
                       /\ WF_vars(part = "http" /\ LookAtClosing(w))
                       /\ WF_vars(part = "http" /\ CountDown(w))
                       /\ WF_vars(part = "http" /\ ReleaseSlot(w))
  /\ \A f \in Followers : /\ WF_logVars(part = "logs" /\ FollowerStep(f))
                         /\ WF_logVars(part = "logs" /\ StopKills(f))

PortalSpec == PortalInit /\ [][PortalNext]_portalVars /\ PortalFairness
=============================================================================
