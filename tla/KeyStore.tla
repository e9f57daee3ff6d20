------------------------------ MODULE KeyStore -------------------------------
(***************************************************************************)
(* host/device/keys.py and host/api/handlers/keys.py: SSH keys made by     *)
(* ssh-keygen, one directory each, listed in keys.json.  Generate and      *)
(* delete run under the store's lock, except that a deleted key's files    *)
(* are removed after it.  A board refers to a key by its id                *)
(* (host/device/store.py); the handler collects these references before    *)
(* it asks the store to delete.  The process may crash at any point.       *)
(***************************************************************************)
EXTENDS Naturals, FiniteSets

CONSTANTS Keys, KBoards, Clerks, NoKey,
          MaxJobs   \* requests (bound of the model)

ASSUME KeyAssumption == NoKey \notin Keys \cup Clerks /\ MaxJobs \in Nat

VARIABLES
  keyMem,    \* KeyStore._keys
  keyFile,   \* keys.json
  keyDirs,   \* directories with both files of the key
  keyLock,   \* KeyStore._lock: its holder
  ck,        \* the requests
  keyRef,    \* key_ref of the boards
  raced,     \* ghost: a board took a key while a request deleted it
  jobs

keyVars == <<keyMem, keyFile, keyDirs, keyLock, ck, keyRef, raced, jobs>>

Free == [at |-> "free", key |-> NoKey, board |-> NoKey, refs |-> {}]

KeyInit ==
  /\ keyMem = {} /\ keyFile = {} /\ keyDirs = {}
  /\ keyLock = NoKey
  /\ ck = [p \in Clerks |-> Free]
  /\ keyRef = [d \in KBoards |-> NoKey]
  /\ raced = FALSE /\ jobs = 0

Arrives(p, request) ==
  /\ ck[p] = Free /\ jobs < MaxJobs
  /\ jobs' = jobs + 1
  /\ ck' = [ck EXCEPT ![p] = request]
  /\ UNCHANGED <<keyMem, keyFile, keyDirs, keyRef, raced>>

Step(p, at) == ck' = [ck EXCEPT ![p].at = at] /\ UNCHANGED <<keyRef, raced, jobs>>
Answer(p) == ck' = [ck EXCEPT ![p] = Free] /\ UNCHANGED <<keyRef, raced, jobs>>

-----------------------------------------------------------------------------
(* generate.                                                               *)

\* A random id, taken never to repeat (gen_id draws 32 bits; the code compares
\* it with the listed keys only).  ssh-keygen makes the files, or fails and
\* leaves the directory.
Generate(p) ==
  /\ keyLock = NoKey
  /\ \E k \in Keys \ (keyMem \cup keyFile \cup keyDirs) : Arrives(p, [Free EXCEPT !.at = "keygen", !.key = k])
  /\ keyLock' = p

\* Slip: the key is listed, and keys.json saved, before the files exist.
KeygenListsFirst(p) ==
  /\ ck[p].at = "keygen"
  /\ keyMem' = keyMem \cup {ck[p].key} /\ keyFile' = keyMem \cup {ck[p].key}
  /\ Step(p, "listed")
  /\ UNCHANGED <<keyDirs, keyLock>>

Keygen(p) ==
  /\ ck[p].at = "keygen"
  /\ \/ keyDirs' = keyDirs \cup {ck[p].key} /\ Step(p, "made") /\ UNCHANGED keyLock
     \/ Answer(p) /\ keyLock' = NoKey /\ UNCHANGED keyDirs
  /\ UNCHANGED <<keyMem, keyFile>>

ListKey(p) ==
  /\ ck[p].at = "made"
  /\ keyMem' = keyMem \cup {ck[p].key}
  /\ Step(p, "listed")
  /\ UNCHANGED <<keyFile, keyDirs, keyLock>>

\* keys.json is written under the lock and renamed; a failing save leaves the
\* key in memory.
SaveListed(p) ==
  /\ ck[p].at = "listed"
  /\ keyFile' \in {keyMem, keyFile}
  /\ keyLock' = NoKey
  /\ Answer(p)
  /\ UNCHANGED <<keyMem, keyDirs>>

-----------------------------------------------------------------------------
(* delete.                                                                 *)

\* keys_delete: the references first ...
CollectRefs(p) ==
  /\ \E k \in Keys : Arrives(p, [Free EXCEPT !.at = "delete", !.key = k,
                                             !.refs = {keyRef[d] : d \in KBoards}])
  /\ UNCHANGED keyLock

\* Slip: the references are not looked at.
DeleteUnasked(p) ==
  /\ ck[p].at = "delete" /\ keyLock = NoKey
  /\ ck[p].key \in keyMem
  /\ keyMem' = keyMem \ {ck[p].key} /\ keyLock' = p /\ Step(p, "unlisted")
  /\ UNCHANGED <<keyFile, keyDirs>>

\* ... then the lock: an unknown key and one in the references are refused.
Delete(p) ==
  LET k == ck[p].key IN
  /\ ck[p].at = "delete" /\ keyLock = NoKey
  /\ IF k \notin keyMem \/ k \in ck[p].refs
     THEN Answer(p) /\ UNCHANGED <<keyMem, keyLock>>
     ELSE keyMem' = keyMem \ {k} /\ keyLock' = p /\ Step(p, "unlisted")
  /\ UNCHANGED <<keyFile, keyDirs>>

\* A failing save ends the request before the files are removed.
SaveUnlisted(p) ==
  /\ ck[p].at = "unlisted"
  /\ keyLock' = NoKey
  /\ \/ keyFile' = keyMem /\ Step(p, "unlink")
     \/ UNCHANGED keyFile /\ Answer(p)
  /\ UNCHANGED <<keyMem, keyDirs>>

\* rmtree, after the lock.
RemoveFiles(p) ==
  /\ ck[p].at = "unlink"
  /\ keyDirs' = keyDirs \ {ck[p].key}
  /\ Answer(p)
  /\ UNCHANGED <<keyMem, keyFile, keyLock>>

-----------------------------------------------------------------------------
(* Boards.                                                                 *)

\* DeviceStore.update finds the key ...
FindKey(p) ==
  /\ keyLock = NoKey
  /\ \E k \in keyMem, d \in KBoards : Arrives(p, [Free EXCEPT !.at = "found", !.key = k, !.board = d])
  /\ UNCHANGED keyLock

\* ... and the board refers to it from now on.
ReferToKey(p) ==
  LET k == ck[p].key IN
  /\ ck[p].at = "found"
  /\ keyRef' = [keyRef EXCEPT ![ck[p].board] = k]
  /\ raced' = (raced \/ k \notin keyMem \/ \E q \in Clerks : ck[q].at = "delete" /\ ck[q].key = k)
  /\ ck' = [ck EXCEPT ![p] = Free]
  /\ UNCHANGED <<keyMem, keyFile, keyDirs, keyLock, jobs>>

CrashKeys ==
  /\ \E p \in Clerks : ck[p] # Free
  /\ ck' = [p \in Clerks |-> Free]
  /\ keyMem' = keyFile /\ keyLock' = NoKey
  /\ UNCHANGED <<keyFile, keyDirs, keyRef, raced, jobs>>

KeyNext ==
  \/ \E p \in Clerks : \/ Generate(p) \/ Keygen(p) \/ ListKey(p) \/ SaveListed(p)
                       \/ CollectRefs(p) \/ Delete(p) \/ SaveUnlisted(p) \/ RemoveFiles(p)
                       \/ FindKey(p) \/ ReferToKey(p)
  \/ CrashKeys

KeySpec == KeyInit /\ [][KeyNext]_keyVars

-----------------------------------------------------------------------------
(* Properties.                                                             *)

\* Every key that is listed, in memory or in the file a restart loads, has
\* its files, at whatever point a request failed or the process crashed; and
\* a board refers to a key whose files are gone only when it took the key
\* while a request deleted it (keys.py:49-92, 127-138, handlers/keys.py:57-75).
KeysUsable ==
  /\ keyMem \cup keyFile \subseteq keyDirs
  /\ ~raced => \A d \in KBoards : keyRef[d] = NoKey \/ keyRef[d] \in keyDirs

\* Not true (instance of Portal.cfg): no board refers to a deleted key.
NoDanglingKey == \A d \in KBoards : keyRef[d] \in keyMem \cup {NoKey}
=============================================================================
