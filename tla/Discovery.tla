------------------------------ MODULE Discovery ------------------------------
(***************************************************************************)
(* portal/portal.py (RulesStore, DiscoverCache, _import_discovered) and    *)
(* host/discovery.py: the search for boards on the network.  A thread      *)
(* refreshes the cached result at intervals, requests read it or refresh   *)
(* it themselves; several refreshes may run at once, each reads the rules  *)
(* at its start and stores its result at its end.  A page imports found    *)
(* addresses as boards.  A change of the rules takes effect in memory      *)
(* before it is saved, and saving may fail; the process may die at any     *)
(* time and start again from the file.                                     *)
(*                                                                         *)
(* A result is the set of addresses that answered and that the rules let   *)
(* pass, with the number of the rules it was made by.                      *)
(***************************************************************************)
EXTENDS Naturals, FiniteSets, Sequences

CONSTANTS Addresses,
          Neighbours,   \* addresses ARP, ~/.ssh/config and known_hosts give
          Callers,      \* requests
          Loop,         \* the thread rkss-discover
          MaxRules,     \* changes of the rules (bound of the model)
          MaxFaults,    \* failing refreshes and saves, restarts (bound of the model)
          MaxByHand     \* boards of one address added by hand (bound of the model)

ASSUME DiscoveryAssumption ==
  /\ Neighbours \subseteq Addresses /\ Loop \notin Callers
  /\ {MaxRules, MaxFaults, MaxByHand} \subseteq Nat

VARIABLES
  rules,      \* RulesStore._rules: the addresses they hide, and their number
  rulesFile,  \* discovery-rules.json
  saving,     \* RulesStore._lock is held by a change that is being saved
  discResult, \* DiscoverCache.result
  boardsOf,   \* DeviceStore: the number of SSH boards of an address
  ask,        \* the loop and the requests
  discStop,   \* DiscoverCache._stop
  imported,   \* ghost: how many of boardsOf were added by an import
  overlap,    \* ghost: two imports have run at once
  unsaved,    \* ghost: the last save has failed
  faults

rulesVars == <<rules, rulesFile, saving, unsaved>>
boardVars == <<boardsOf, imported, overlap>>
discVars == <<rulesVars, boardVars, discResult, ask, discStop, faults>>

Waiting == [at |-> "idle", ver |-> 0, hide |-> {}, devices |-> {}, floor |-> 0,
            items |-> <<>>, known |-> {}, got |-> {}, by |-> 0]

\* The first refresh has been made.
DiscInit ==
  /\ rules = [ver |-> 0, hide |-> {}] /\ rulesFile = rules
  /\ saving = FALSE /\ unsaved = FALSE
  /\ discResult = [ver |-> 0, hosts |-> Neighbours, saved |-> {}]
  /\ boardsOf = [h \in Addresses |-> 0] /\ imported = boardsOf
  /\ ask = [c \in Callers \cup {Loop} |-> Waiting]
  /\ discStop = FALSE /\ overlap = FALSE /\ faults = 0

-----------------------------------------------------------------------------
(* host/discovery.py.                                                      *)

\* A device is taken into account when it is a dictionary of type ssh.
SshCandidates(devices) ==
  {d.host : d \in {x \in devices : x.dict /\ x.type = "ssh"}} \cup Neighbours

\* What probe_ssh finds is what answers; the rules hide what they match.
DiscoverSsh(devices, hide) == SshCandidates(devices) \ hide

\* DiscoverCache._ssh_hosts gives the addresses of the boards, as text.
SshHosts == {[dict |-> FALSE, type |-> "", host |-> h] : h \in {x \in Addresses : boardsOf[x] > 0}}

-----------------------------------------------------------------------------
(* The rules.                                                              *)

\* PUT /api/discover/rules; a list with an empty entry is refused.  Under the
\* lock the new rules are in force, and then they are saved.
SetRules ==
  /\ rules.ver < MaxRules /\ ~saving
  /\ \E hide \in SUBSET Neighbours : rules' = [ver |-> rules.ver + 1, hide |-> hide]
  /\ saving' = TRUE
  /\ UNCHANGED <<rulesFile, unsaved, discResult, boardVars, ask, discStop, faults>>

\* save: the temporary file replaces the other, or something raises before;
\* the request is answered with an error then, the rules stay in force.
SaveRules ==
  /\ saving
  /\ saving' = FALSE
  /\ \/ rulesFile' = rules /\ unsaved' = FALSE /\ UNCHANGED faults
     \/ /\ faults < MaxFaults /\ faults' = faults + 1
        /\ unsaved' = TRUE /\ UNCHANGED rulesFile
  /\ UNCHANGED <<rules, discResult, boardVars, ask, discStop>>

\* The process dies, starts again from its files and has made its first
\* refresh.
RestartPortal ==
  /\ faults < MaxFaults /\ faults' = faults + 1
  /\ rules' = rulesFile /\ saving' = FALSE /\ unsaved' = FALSE
  /\ discResult' = [ver |-> rulesFile.ver, hosts |-> Neighbours \ rulesFile.hide, saved |-> {}]
  /\ ask' = [c \in Callers \cup {Loop} |-> Waiting]
  /\ discStop' = FALSE
  /\ UNCHANGED <<rulesFile, boardVars>>

-----------------------------------------------------------------------------
(* refresh, of the loop and of requests.                                   *)

Moves(c, r) ==
  /\ ask' = [ask EXCEPT ![c] = r]
  /\ UNCHANGED <<rulesVars, boardVars, discStop>>

\* Slip: the number and the list are those of the cached result.
RefreshReadsOld(c) ==
  /\ ask[c].at = "refresh"
  /\ Moves(c, [ask[c] EXCEPT !.at = "probe", !.ver = discResult.ver, !.hide = {}, !.devices = SshHosts])
  /\ UNCHANGED <<discResult, faults>>

\* rules_store.get() waits for a change that is being saved.
RefreshReads(c) ==
  /\ ask[c].at = "refresh" /\ ~saving
  /\ Moves(c, [ask[c] EXCEPT !.at = "probe", !.ver = rules.ver, !.hide = rules.hide,
                             !.devices = SshHosts])
  /\ UNCHANGED <<discResult, faults>>

\* Slip: only the first result is kept.
RefreshStoresOnce(c) ==
  LET found == DiscoverSsh(ask[c].devices, ask[c].hide) IN
  /\ ask[c].at = "probe"
  /\ Moves(c, [Waiting EXCEPT !.got = found, !.by = ask[c].ver, !.floor = ask[c].floor])
  /\ UNCHANGED <<discResult, faults>>

\* The result replaces the cached one, be that newer; a failing search
\* leaves it and the request answers with what is cached.
RefreshStores(c) ==
  LET found == DiscoverSsh(ask[c].devices, ask[c].hide)
      saved == {d.host : d \in ask[c].devices}
      answer(r) == IF c = Loop THEN Waiting
                   ELSE [Waiting EXCEPT !.at = "done", !.got = r.hosts, !.by = r.ver, !.floor = ask[c].floor]
  IN  /\ ask[c].at = "probe"
      /\ \/ /\ discResult' = [ver |-> ask[c].ver, hosts |-> found, saved |-> saved \ ask[c].hide]
            /\ Moves(c, answer(discResult'))
            /\ UNCHANGED faults
         \/ /\ faults < MaxFaults /\ faults' = faults + 1
            /\ Moves(c, [answer(discResult) EXCEPT !.floor = 0])
            /\ UNCHANGED discResult

\* DISCOVER_INTERVAL is over.
LoopWakes ==
  /\ ask[Loop].at = "idle" /\ ~discStop
  /\ Moves(Loop, [Waiting EXCEPT !.at = "refresh"])
  /\ UNCHANGED <<discResult, faults>>

StopDiscovery ==
  /\ ~discStop
  /\ discStop' = TRUE
  /\ UNCHANGED <<rulesVars, boardVars, discResult, ask, faults>>

\* GET /api/discover: the cached result while it is young, a refresh when it
\* is old or the request insists.
AskForce(c) ==
  /\ ask[c].at = "idle"
  /\ Moves(c, [Waiting EXCEPT !.at = "refresh", !.floor = rules.ver])
  /\ UNCHANGED <<discResult, faults>>

AskCached(c) ==
  /\ ask[c].at = "idle"
  /\ \/ Moves(c, [Waiting EXCEPT !.at = "done", !.got = discResult.hosts, !.by = discResult.ver])
     \/ Moves(c, [Waiting EXCEPT !.at = "refresh"])
  /\ UNCHANGED <<discResult, faults>>

-----------------------------------------------------------------------------
(* _import_discovered.                                                     *)

Importing(c) == ask[c].at = "import"

\* The boards are listed once; the addresses may repeat.
ImportStarts(c) ==
  /\ ask[c].at = "done" /\ ask[c].got # {}
  /\ \E a, b \in ask[c].got :
       ask' = [ask EXCEPT ![c] = [Waiting EXCEPT !.at = "import", !.items = <<a, b>>,
                                     !.known = {h \in Addresses : boardsOf[h] > 0}]]
  /\ overlap' = (overlap \/ \E d \in Callers : Importing(d))
  /\ UNCHANGED <<rulesVars, discResult, boardsOf, imported, discStop, faults>>

\* Slip: an imported address is not remembered for the rest of the list.
ImportItemForgets(c) ==
  LET h == Head(ask[c].items) IN
  /\ Importing(c) /\ ask[c].items # <<>>
  /\ ask' = [ask EXCEPT ![c].items = Tail(@)]
  /\ h \notin ask[c].known
  /\ boardsOf' = [boardsOf EXCEPT ![h] = @ + 1] /\ imported' = [imported EXCEPT ![h] = @ + 1]
  /\ UNCHANGED <<rulesVars, discResult, discStop, overlap, faults>>

\* An address that was listed, or imported by this request, is skipped; an
\* addition may be refused.
ImportItem(c) ==
  LET h == Head(ask[c].items) IN
  /\ Importing(c) /\ ask[c].items # <<>>
  /\ \/ /\ h \notin ask[c].known
        /\ boardsOf' = [boardsOf EXCEPT ![h] = @ + 1]
        /\ imported' = [imported EXCEPT ![h] = @ + 1]
        /\ ask' = [ask EXCEPT ![c] = [ask[c] EXCEPT !.items = Tail(@), !.known = @ \cup {h}]]
     \/ /\ ask' = [ask EXCEPT ![c] = [ask[c] EXCEPT !.items = Tail(@)]]
        /\ UNCHANGED <<boardsOf, imported>>
  /\ UNCHANGED <<rulesVars, discResult, discStop, overlap, faults>>

ImportEnds(c) ==
  /\ Importing(c) /\ ask[c].items = <<>>
  /\ Moves(c, [Waiting EXCEPT !.at = "over"])
  /\ UNCHANGED <<discResult, faults>>

\* A board is added by hand, also at an address that has one already.
AddBoard ==
  /\ \E h \in Addresses : /\ boardsOf[h] < imported[h] + MaxByHand
                          /\ boardsOf' = [boardsOf EXCEPT ![h] = @ + 1]
  /\ UNCHANGED <<rulesVars, discResult, imported, overlap, ask, discStop, faults>>

-----------------------------------------------------------------------------
Refresh(c) == RefreshReads(c) \/ RefreshStores(c)

DiscNext ==
  \/ SetRules \/ SaveRules \/ RestartPortal
  \/ LoopWakes \/ StopDiscovery \/ AddBoard
  \/ \E c \in Callers \cup {Loop} : Refresh(c)
  \/ \E c \in Callers : \/ AskForce(c) \/ AskCached(c)
                        \/ ImportStarts(c) \/ ImportItem(c) \/ ImportEnds(c)

\* The thread is never held up for ever: every command and probe of a search
\* has a time limit, and so has the request that runs one; saving is local.
DiscFairness ==
  /\ WF_discVars(LoopWakes) /\ WF_discVars(SaveRules)
  /\ \A c \in Callers \cup {Loop} : WF_discVars(Refresh(c))

DiscSpec == DiscInit /\ [][DiscNext]_discVars /\ DiscFairness

-----------------------------------------------------------------------------
(* Properties.                                                             *)

\* A request that insists on a search is answered by the rules in force when
\* it came, or later ones, unless the search failed.  The file holds the
\* rules in force except while they are being saved and from a failing save
\* to the next one that succeeds.  Imports that do not overlap give an
\* address one board at most, and none that had one when the import began,
\* although an address may repeat in one list and boards are added by hand
\* meanwhile (portal.py:133-147, 181-204, 207-258).
DiscoveryConsistent ==
  /\ \A c \in Callers : ask[c].at = "done" => ask[c].by >= ask[c].floor
  /\ ~saving /\ ~unsaved => rulesFile = rules
  /\ ~overlap => \A h \in Addresses : imported[h] <= 1

\* While the thread runs, the cached result is in the end made by the rules
\* in force, although a search that began under older rules may end later
\* and replace it (portal.py:164-188).
ResultCatchesUp == <>[](discStop \/ discResult.ver = rules.ver)

\* README.md:93-96: saved devices are candidates of the search.  Not what
\* the code does (portal.py:174-179, discovery.py:174-180).
SavedDevicesProbed == discResult.saved \subseteq discResult.hosts

\* Not true (instance of Background.cfg): an address is imported once.
ImportedOnce == \A h \in Addresses : imported[h] <= 1

\* Not true either: a change that was answered with an error is not in force.
RefusedRulesUnused == ~saving => rules = rulesFile
=============================================================================
