---------------------------- MODULE MCBackground -----------------------------
(***************************************************************************)
(* The two threads the portal runs beside its requests, the writer of the  *)
(* audit log and the search for boards, each checked by itself in one run  *)
(* of TLC: a behaviour belongs to one of them, chosen at its start, and    *)
(* the other stays as it is initially.                                     *)
(***************************************************************************)
EXTENDS AuditRecorder, Discovery

VARIABLE thread

backVars == <<thread, vars, discVars>>

\* Where the recorder stays as it is, all events are of the first day.
BackInit ==
  /\ thread \in {"audit", "discovery"} /\ Init /\ DiscInit
  /\ thread = "discovery" => day = [e \in Events |-> 1]

AuditMoves == thread = "audit" /\ Next /\ UNCHANGED <<thread, discVars>>
DiscoveryMoves == thread = "discovery" /\ DiscNext /\ UNCHANGED <<thread, vars>>

BackNext == AuditMoves \/ DiscoveryMoves

\* The fairness of the two, for the one that moves.
BackFairness ==
  /\ WF_vars(thread = "audit" /\ Take) /\ WF_vars(thread = "audit" /\ WriterExits)
  /\ \A e \in Events : /\ WF_vars(thread = "audit" /\ Enqueue(e))
                       /\ WF_vars(thread = "audit" /\ Overflow(e))
                       /\ SF_vars(thread = "audit" /\ Lock(e))
                       /\ WF_vars(thread = "audit" /\ Written(e))
                       /\ WF_vars(thread = "audit" /\ FinishPending(e))
  /\ WF_discVars(thread = "discovery" /\ LoopWakes)
  /\ WF_discVars(thread = "discovery" /\ SaveRules)
  /\ \A c \in Callers \cup {Loop} : WF_discVars(thread = "discovery" /\ Refresh(c))

BackSpec == BackInit /\ [][BackNext]_backVars /\ BackFairness
=============================================================================
