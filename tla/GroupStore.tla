----------------------------- MODULE GroupStore ------------------------------
(***************************************************************************)
(* host/device/groups.py and host/api/handlers/groups.py: groups of boards *)
(* in memory and in groups.json.  A save writes groups.json.tmp and        *)
(* renames it.  Create, update and delete save under the store's lock;     *)
(* remove_device, called when a board is deleted, saves after it has given *)
(* the lock back, so two saves may use the temporary file at once: the     *)
(* second open truncates the same file, a rename moves it under the        *)
(* other's feet.                                                           *)
(*                                                                         *)
(* Files are numbered by inode; a process may crash and restart at any     *)
(* point.                                                                  *)
(***************************************************************************)
EXTENDS Naturals, FiniteSets

CONSTANTS Groups, Boards, Editors, Absent, Torn, Nil,
          MaxInodes,   \* files created (bound of the model)
          MaxEdits     \* requests (bound of the model)

\* What the store may hold: the boards of each group, or that there is none.
GroupMaps == [Groups -> {Absent} \cup SUBSET Boards]

ASSUME GroupAssumption ==
  /\ MaxInodes \in Nat \ {0} /\ MaxEdits \in Nat
  /\ Torn # Nil
  /\ Torn \notin GroupMaps /\ Nil \notin GroupMaps \cup 1..MaxInodes

VARIABLES
  boards,     \* the boards of DeviceStore
  groups,     \* GroupStore._groups: the boards of a group, or Absent
  gLock,      \* GroupStore._lock: its holder
  ed,         \* the requests
  gFile,      \* the inode of groups.json
  gTmp,       \* the inode of groups.json.tmp, or Nil
  inode,      \* what is in the files
  acked,      \* ghost: groups after the last answered request
  trust,      \* ghost: no two saves have overlapped and none has failed
              \* since the last save that ran alone
  edits

groupVars == <<boards, groups, gLock, ed, gFile, gTmp, inode, acked, trust, edits>>

Idle == [at |-> "idle", op |-> "none", group |-> Nil, ids |-> {}, fh |-> Nil, alone |-> FALSE]
NoGroups == [g \in Groups |-> Absent]

GroupInit ==
  /\ boards = Boards /\ groups = NoGroups /\ acked = NoGroups
  /\ gLock = Nil /\ gTmp = Nil /\ gFile = 1
  /\ inode = [i \in 1..MaxInodes |-> IF i = 1 THEN NoGroups ELSE Nil]
  /\ ed = [p \in Editors |-> Idle]
  /\ trust = TRUE /\ edits = 0

Saving(p) == ed[p].at \in {"open", "write", "rename"}

\* The groups have changed and are about to be saved; ghost: with whom.
BeginsSave(p) ==
  LET alone == \A q \in Editors : ~Saving(q) IN
  /\ ed' = [q \in Editors |->
              IF q = p THEN [ed[p] EXCEPT !.at = "open", !.alone = alone]
              ELSE [ed[q] EXCEPT !.alone = FALSE]]
  /\ trust' = (trust /\ alone)

-----------------------------------------------------------------------------
(* Requests.                                                               *)

\* A create or an update is received and its boards looked up; a board may
\* be deleted from then on (_existing_ids).
EditArrives(p) ==
  /\ ed[p].at = "idle" /\ edits < MaxEdits
  /\ edits' = edits + 1
  /\ \E g \in Groups, op \in {"create", "update", "delete"}, ids \in SUBSET Boards :
       /\ op = "delete" => ids = {}
       /\ ed' = [ed EXCEPT ![p] = [Idle EXCEPT !.at = "checked", !.op = op, !.group = g,
                                               !.ids = ids \cap boards]]
  /\ UNCHANGED <<boards, groups, gLock, gFile, gTmp, inode, acked, trust>>

Edited(p) ==
  LET e == ed[p] IN
  [groups EXCEPT ![e.group] = IF e.op = "delete" THEN Absent ELSE e.ids]

Allowed(p) == (groups[ed[p].group] = Absent) = (ed[p].op = "create")

\* Under the lock: the group changes and its save begins; a group that is
\* there twice or not at all is refused.
EditLocks(p) ==
  /\ ed[p].at = "checked" /\ gLock = Nil
  /\ \/ /\ ~Allowed(p)
        /\ ed' = [ed EXCEPT ![p] = Idle]
        /\ UNCHANGED <<groups, gLock, trust>>
     \/ /\ Allowed(p)
        /\ groups' = Edited(p)
        /\ gLock' = p
        /\ BeginsSave(p)
  /\ UNCHANGED <<boards, gFile, gTmp, inode, acked, edits>>

\* devices_delete: the board leaves the registry ...
BoardGoes(p) ==
  /\ ed[p].at = "idle" /\ edits < MaxEdits
  /\ edits' = edits + 1
  /\ \E d \in boards :
       /\ boards' = boards \ {d}
       /\ ed' = [ed EXCEPT ![p] = [Idle EXCEPT !.at = "gone", !.op = "remove", !.ids = {d}]]
  /\ UNCHANGED <<groups, gLock, gFile, gTmp, inode, acked, trust>>

\* ... and then every group, under the lock; the save comes after it.
RemoveFromGroups(p) ==
  LET member == {g \in Groups : groups[g] # Absent /\ groups[g] \cap ed[p].ids # {}} IN
  /\ ed[p].at = "gone" /\ gLock = Nil
  /\ groups' = [g \in Groups |-> IF g \in member THEN groups[g] \ ed[p].ids ELSE groups[g]]
  /\ IF member = {} THEN ed' = [ed EXCEPT ![p] = Idle] /\ UNCHANGED trust ELSE BeginsSave(p)
  /\ UNCHANGED <<boards, gLock, gFile, gTmp, inode, acked, edits>>

-----------------------------------------------------------------------------
(* _save.                                                                  *)

\* Slip: groups.json itself is opened for writing.
SaveOpensInPlace(p) ==
  /\ ed[p].at = "open"
  /\ inode' = [inode EXCEPT ![gFile] = Torn]
  /\ ed' = [ed EXCEPT ![p].at = "write", ![p].fh = gFile]
  /\ UNCHANGED <<boards, groups, gLock, gFile, gTmp, acked, trust, edits>>

\* open(tmp, "w"): the temporary file is created, or truncated when another
\* save has it open.
SaveOpens(p) ==
  /\ ed[p].at = "open"
  /\ \E i \in IF gTmp # Nil THEN {gTmp} ELSE {x \in 1..MaxInodes : inode[x] = Nil} :
       /\ (gTmp = Nil) => \A x \in 1..MaxInodes : inode[x] = Nil => i <= x
       /\ gTmp' = i
       /\ inode' = [inode EXCEPT ![i] = Torn]
       /\ ed' = [ed EXCEPT ![p].at = "write", ![p].fh = i]
  /\ UNCHANGED <<boards, groups, gLock, gFile, acked, trust, edits>>

\* json.dump: the groups as they are now.  Over what another save has
\* written to the same file the result may be a mixture.  A dictionary that
\* changes meanwhile, or a full disk, ends the save with an exception.
SaveWrites(p) ==
  LET i == ed[p].fh IN
  /\ ed[p].at = "write"
  /\ \/ /\ inode' \in {[inode EXCEPT ![i] = x] :
                         x \in {groups} \cup IF inode[i] = Torn THEN {} ELSE {Torn}}
        /\ ed' = [ed EXCEPT ![p].at = "rename"]
        /\ UNCHANGED <<gLock, trust, acked>>
     \/ /\ ed' = [ed EXCEPT ![p] = Idle]
        /\ gLock' = IF gLock = p THEN Nil ELSE gLock
        /\ trust' = FALSE /\ acked' = groups
        /\ UNCHANGED inode
  /\ UNCHANGED <<boards, groups, gFile, gTmp, edits>>

\* os.replace, then the lock is given back and the request answered.  Only a
\* save that was alone from open to rename is trusted again.
SaveRenames(p) ==
  /\ ed[p].at = "rename"
  /\ ed' = [ed EXCEPT ![p] = Idle]
  /\ gLock' = IF gLock = p THEN Nil ELSE gLock
  /\ acked' = groups
  /\ \/ /\ gTmp # Nil
        /\ gFile' = gTmp /\ gTmp' = Nil
        /\ inode' = [inode EXCEPT ![gFile] = IF \E q \in Editors : ed[q].fh = gFile THEN @ ELSE Nil]
        /\ trust' = (trust \/ ed[p].alone)
     \/ /\ gTmp = Nil
        /\ trust' = FALSE
        /\ UNCHANGED <<gFile, gTmp, inode>>
  /\ UNCHANGED <<boards, groups, edits>>

\* The process ends at any point; the next one loads the file, and knows no
\* group when it cannot be read.
CrashGroups ==
  LET loaded == IF inode[gFile] \in {Torn, Nil} THEN NoGroups ELSE inode[gFile] IN
  /\ \E p \in Editors : ed[p].at # "idle"
  /\ ed' = [p \in Editors |-> Idle]
  /\ gLock' = Nil
  /\ groups' = loaded /\ acked' = loaded
  /\ trust' = (inode[gFile] \notin {Torn, Nil})
  /\ inode' = [i \in 1..MaxInodes |-> IF i \in {gFile, gTmp} THEN inode[i] ELSE Nil]
  /\ UNCHANGED <<boards, gFile, gTmp, edits>>

GroupNext ==
  \/ \E p \in Editors : \/ EditArrives(p) \/ EditLocks(p) \/ BoardGoes(p) \/ RemoveFromGroups(p)
                        \/ SaveOpens(p) \/ SaveWrites(p) \/ SaveRenames(p)
  \/ CrashGroups

GroupSpec == GroupInit /\ [][GroupNext]_groupVars

-----------------------------------------------------------------------------
(* Properties.                                                             *)

\* With saves that do not overlap, groups.json can always be read, and holds
\* what the last answered request left, or what a request in progress is
\* about to answer: a crash at any point loses no answered change
\* (groups.py:59-64, 80-120).
GroupsSaved ==
  trust => /\ (\A p \in Editors : ~Saving(p)) => inode[gFile] = groups
           /\ inode[gFile] \in {acked, groups}

\* Not true (instance of Portal.cfg): groups.json can be read whenever no save
\* has failed.
NeverTorn == inode[gFile] # Torn

\* Not true (instance of Portal.cfg): with no request in progress the boards
\* of every group exist.
GroupBoardsExist ==
  (\A p \in Editors : ed[p].at = "idle") =>
    \A g \in Groups : groups[g] # Absent => groups[g] \subseteq boards
=============================================================================
