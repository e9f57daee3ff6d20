----------------------------- MODULE KnownHosts ------------------------------
(***************************************************************************)
(* host/transport/ssh_known_hosts.py and tools/pin_ssh_host.py: an         *)
(* operator confirms a host's key by its fingerprint and a tool adds it to *)
(* a private file.  Nothing keeps two runs of the tool apart: each reads   *)
(* the file, looks into it once more for the host, and puts a new file in  *)
(* its place.                                                              *)
(***************************************************************************)
EXTENDS Naturals, FiniteSets

CONSTANTS Pinners,    \* runs of the tool
          Hosts,
          KeyData,    \* public keys
          KeyTypes,
          NoFile,
          MaxLines    \* stands for the limit of 1 MiB

Lines == [host : Hosts, type : KeyTypes, data : KeyData]

ASSUME KnownAssumption == \A file \in SUBSET Lines : NoFile # file

VARIABLES
  known,      \* the file: NoFile or its lines
  pins,       \* the runs
  raced       \* history: a run replaced a file other than the one it had read

knownVars == <<known, pins, raced>>

Candidates == [type : KeyTypes, data : KeyData]
LinesOf(file) == IF file = NoFile THEN {} ELSE file
NewPin == [at |-> "idle", line |-> NoFile, existing |-> NoFile]

KnownInit ==
  /\ known = NoFile
  /\ pins = [p \in Pinners |-> NewPin]
  /\ raced = FALSE

SetPin(p, v) == pins' = [pins EXCEPT ![p] = v]
PinElse == UNCHANGED <<known, raced>>

-----------------------------------------------------------------------------
(* Two keys have different fingerprints, so the operator's fingerprint     *)
(* stands for one key: `confirmed'.  A key that is offered with two types  *)
(* gives two candidates.                                                   *)

Matches(offered, confirmed) == {c \in offered : c.data = confirmed}

\* discover and the choice of exactly one candidate.
Discover(p) ==
  /\ pins[p].at = "idle"
  /\ \E host \in Hosts, offered \in SUBSET Candidates, confirmed \in KeyData :
       IF Cardinality(Matches(offered, confirmed)) = 1
       THEN \E c \in Matches(offered, confirmed) :
              SetPin(p, [NewPin EXCEPT !.at = "read",
                                       !.line = [host |-> host, type |-> c.type, data |-> c.data]])
       ELSE SetPin(p, [NewPin EXCEPT !.at = "refused"])
  /\ PinElse

\* pin_key: the file is read, unless it is not there or too long.
ReadKnown(p) ==
  /\ pins[p].at = "read"
  /\ SetPin(p, [pins[p] EXCEPT !.existing = known,
       !.at = CASE known = NoFile -> "write"
                [] Cardinality(LinesOf(known)) > MaxLines -> "refused"
                [] OTHER -> "look"])
  /\ PinElse

\* Slip: only the same line counts as pinned.
HasHostLine(file, line) == line \in LinesOf(file)

\* has_host opens the file again.
HasHost(file, line) == \E l \in LinesOf(file) : l.host = line.host

\* A host that is there is either pinned to this key, by the file as it was
\* read, or the run is refused.
LookForHost(p) ==
  /\ pins[p].at = "look"
  /\ SetPin(p, [pins[p] EXCEPT
       !.at = CASE ~HasHost(known, pins[p].line) -> "write"
                [] pins[p].line \in LinesOf(pins[p].existing) -> "already"
                [] OTHER -> "refused"])
  /\ PinElse

\* Slip: the new line alone is written.
ReplaceForgets(p) ==
  /\ pins[p].at = "replace"
  /\ known' = {pins[p].line}
  /\ raced' = (raced \/ known # pins[p].existing)
  /\ SetPin(p, [pins[p] EXCEPT !.at = "pinned"])

\* The temporary file is complete and on the disk, or writing it failed.
WriteTemp(p) ==
  /\ pins[p].at = "write"
  /\ \E next \in {"replace", "refused"} : SetPin(p, [pins[p] EXCEPT !.at = next])
  /\ PinElse

\* os.replace: what was read and the new line.
Replace(p) ==
  /\ pins[p].at = "replace"
  /\ known' = LinesOf(pins[p].existing) \cup {pins[p].line}
  /\ raced' = (raced \/ known # pins[p].existing)
  /\ SetPin(p, [pins[p] EXCEPT !.at = "pinned"])

\* A run is killed; the file is as it was.
KillPin(p) ==
  /\ pins[p].at \in {"read", "look", "write", "replace"}
  /\ SetPin(p, [pins[p] EXCEPT !.at = "refused"])
  /\ PinElse

-----------------------------------------------------------------------------
KnownNext ==
  \E p \in Pinners :
    Discover(p) \/ ReadKnown(p) \/ LookForHost(p) \/ WriteTemp(p) \/ Replace(p) \/ KillPin(p)

KnownSpec == KnownInit /\ [][KnownNext]_knownVars

-----------------------------------------------------------------------------
(* Properties.                                                             *)

\* As long as no two runs overlapped in reading and replacing, a host has
\* one key and every key a run reported as pinned, or as already pinned, is
\* in the file, whichever runs were killed (ssh_known_hosts.py:109-147,
\* pin_ssh_host.py:38-47).
PinsKept ==
  ~raced => /\ \A l, m \in LinesOf(known) : l.host = m.host => l = m
            /\ \A p \in Pinners : pins[p].at \in {"pinned", "already"} =>
                                    pins[p].line \in LinesOf(known)

\* Not true (instance of Board.cfg): what a run reported as pinned stays in
\* the file.
PinnedStays ==
  \A p \in Pinners : pins[p].at \in {"pinned", "already"} => pins[p].line \in LinesOf(known)
=============================================================================
