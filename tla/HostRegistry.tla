---------------------------- MODULE HostRegistry ----------------------------
(***************************************************************************)
(* The boards of one portal and what hangs on each of them: DeviceStore of *)
(* host/device/store.py with its file devices.json, the exec stores and    *)
(* the cleanup callbacks of HostApi (host/api/handlers/legacy.py), and the *)
(* samplers of MonitorService (host/service/monitor.py).                   *)
(*                                                                         *)
(* Every HTTP request is one handler thread.  Store operations run under   *)
(* the store's lock and are one step each, with the save they end in; the  *)
(* handlers that use several locks (delete, monitor) have one step per     *)
(* lock.  Requests may still run while the main thread closes the host:    *)
(* its drain of the server gives up after five seconds.  The process may   *)
(* die at any point and is started again from devices.json.  Groups and    *)
(* keys, jobs inside an exec store and the samples are not part of this    *)
(* module.                                                                 *)
(***************************************************************************)
EXTENDS Integers

CONSTANTS
  Devices,     \* ids of boards
  Requests,    \* HTTP requests, each handled once
  Nobody,      \* no board, no exec store, no sampler
  Unknown,     \* see agreed
  Changes,     \* bodies of PUT requests: see Update
  OldFiles,    \* what devices.json may hold at the first start
  MaxRestarts  \* bound on restarts of the process

(* A board.  A password given over HTTP is text; _load leaves the bytes    *)
(* that b64decode returns.  kind "bad" is a type _validate refuses.        *)
Boards == [pw: {"none", "text", "bytes"}, addr: {1, 2}, kind: {"ssh", "bad"}]
Records == [pw: {"none", "b64"}, addr: {1, 2}, kind: {"ssh", "bad"}]

ASSUME RegistryAssumption ==
  /\ OldFiles \subseteq [Devices -> Records \cup {Nobody}]
  /\ Nobody \notin Devices \cup Requests \cup Boards \cup Records
  /\ Unknown \notin Records \cup {Nobody}
  /\ MaxRestarts \in Nat
  /\ Changes \subseteq [pw: {"keep", "none", "text"}, addr: {0, 1, 2},
                        kind: {"keep", "ssh", "bad"}, key: {"found", "lost"}]

VARIABLES
  devices,    \* _devices
  file,       \* devices.json
  agreed,     \* history: what the last change of a board, if it was
              \* answered with success, left in the file; else Unknown
  exec,       \* exec_stores: for a board, the request that made its store
  store,      \* the store a request made: its state and transport address
  samplers,   \* _samplers: for a board, the request that made its sampler
  thread,     \* the thread of the sampler a request made
  service,    \* MonitorService: not made yet, open or _closed
  registered, \* its callbacks are in _cleanup_callbacks
  req,        \* the requests
  main,       \* where main's close of the host is
  restarts    \* number of restarts

storeVars == <<devices, file, agreed>>
execVars == <<exec, store>>
monitorVars == <<samplers, thread, service, registered>>
vars == <<storeVars, execVars, monitorVars, req, main, restarts>>

(* A request: what it does, on which board, how far its handler is, how it *)
(* was answered, and the exec store a deletion has taken out of the table. *)
Handler(op, dev, pc, ans, popped) ==
  [op |-> op, dev |-> dev, pc |-> pc, ans |-> ans, popped |-> popped]

Idle == Handler("idle", Nobody, "idle", 0, Nobody)

NoStore == [state |-> "none", addr |-> 0]

(* What save writes for a board, and what _load makes of it. *)
Saved(b) ==
  IF b = Nobody THEN Nobody
  ELSE [pw |-> IF b.pw = "text" THEN "b64" ELSE "none", addr |-> b.addr, kind |-> b.kind]

(* A fault: passwords are not read back. *)
LoadedWithoutPassword(x) ==
  IF x = Nobody THEN Nobody ELSE [x EXCEPT !.pw = "none"]

Loaded(x) ==
  IF x = Nobody THEN Nobody
  ELSE [pw |-> IF x.pw = "b64" THEN "bytes" ELSE "none", addr |-> x.addr, kind |-> x.kind]

(* The portal starts with the boards an earlier process has saved.         *)
Init ==
  /\ file \in OldFiles
  /\ devices = [d \in Devices |-> Loaded(file[d])]
  /\ agreed = file
  /\ exec = [d \in Devices |-> Nobody]
  /\ store = [r \in Requests |-> NoStore]
  /\ samplers = [d \in Devices |-> Nobody]
  /\ thread = [r \in Requests |-> "none"]
  /\ service = "none"
  /\ registered = FALSE
  /\ req = [r \in Requests |-> Idle]
  /\ main = "serving"
  /\ restarts = 0

(* _closed, which close sets before it calls anything back. *)
Closed == main # "serving"

(* Request r on board d is answered. *)
Answer(r, op, d, code) ==
  req' = [req EXCEPT ![r] = Handler(op, d, "done", code, Nobody)]

(* Request r on board d goes on at pc. *)
GoOn(r, op, d, pc) ==
  req' = [req EXCEPT ![r] = Handler(op, d, pc, 0, Nobody)]

-----------------------------------------------------------------------------
(* save encodes the password with str.encode, which bytes do not have: one *)
(* board with a loaded password makes it raise.                            *)
CanSave(m) == \A d \in Devices : m[d] # Nobody => m[d].pw # "bytes"

(* The end of add, update and delete: memory m is in place, save runs.     *)
Commit(d, m) ==
  /\ devices' = m
  /\ IF CanSave(m)
     THEN /\ file' = [x \in Devices |-> Saved(m[x])]
          /\ agreed' = [agreed EXCEPT ![d] = Saved(m[d])]
     ELSE /\ agreed' = [agreed EXCEPT ![d] = Unknown]
          /\ UNCHANGED file

(* The answer to a change of the store: an error save raises is a 500. *)
Code(m, good) == IF CanSave(m) THEN good ELSE 500

(* devices_add.  The caller may name the id, and replaces a board that has *)
(* it.                                                                     *)
Add(r, d, pw) ==
  LET m == [devices EXCEPT ![d] = [pw |-> pw, addr |-> 1, kind |-> "ssh"]]
  IN  /\ req[r].op = "idle"
      /\ Commit(d, m)
      /\ Answer(r, "add", d, Code(m, 201))
      /\ UNCHANGED <<execVars, monitorVars, main, restarts>>

(* A body _validate or the look-up of the key refuses: nothing is stored. *)
AddRefused(r, d) ==
  /\ req[r].op = "idle"
  /\ Answer(r, "add", d, 400)
  /\ UNCHANGED <<storeVars, execVars, monitorVars, main, restarts>>

Merged(b, c) ==
  [pw   |-> IF c.pw = "keep" THEN b.pw ELSE c.pw,
   addr |-> IF c.addr = 0 THEN b.addr ELSE c.addr,
   kind |-> IF c.kind = "keep" THEN b.kind ELSE c.kind]

(* devices_update.  The board in memory is changed before its key and its  *)
(* type are looked at: a refused update leaves it changed and unsaved.     *)
Update(r, d, c) ==
  LET m == [devices EXCEPT ![d] = Merged(devices[d], c)]
  IN  /\ req[r].op = "idle"
      /\ IF devices[d] = Nobody
         THEN Answer(r, "update", d, 404) /\ UNCHANGED storeVars
         ELSE IF c.key = "lost" \/ m[d].kind = "bad"
         THEN /\ devices' = m
              /\ agreed' = [agreed EXCEPT ![d] = Unknown]
              /\ Answer(r, "update", d, 400)
              /\ UNCHANGED file
         ELSE Commit(d, m) /\ Answer(r, "update", d, Code(m, 200))
      /\ UNCHANGED <<execVars, monitorVars, main, restarts>>

-----------------------------------------------------------------------------
(* devices_delete, first the store.  The groups come next, in another lock *)
(* and with their errors swallowed: nothing of this module changes there.  *)
Delete(r, d) ==
  LET m == [devices EXCEPT ![d] = Nobody]
  IN  /\ req[r].op = "idle"
      /\ IF devices[d] = Nobody
         THEN Answer(r, "delete", d, 404) /\ UNCHANGED storeVars
         ELSE /\ Commit(d, m)
              /\ IF CanSave(m) THEN GoOn(r, "delete", d, "pop")
                               ELSE Answer(r, "delete", d, 500)
      /\ UNCHANGED <<execVars, monitorVars, main, restarts>>

(* A fault: the exec store is closed and stays in exec_stores. *)
DeletePeeks(r) ==
  /\ req[r].op = "delete" /\ req[r].pc = "pop"
  /\ req' = [req EXCEPT ![r] = Handler("delete", req[r].dev, "close", 0, exec[req[r].dev])]
  /\ UNCHANGED <<storeVars, execVars, monitorVars, main, restarts>>

(* exec_stores.pop under _exec_stores_lock. *)
DeletePops(r) ==
  LET d == req[r].dev
  IN  /\ req[r].op = "delete" /\ req[r].pc = "pop"
      /\ exec' = [exec EXCEPT ![d] = Nobody]
      /\ req' = [req EXCEPT ![r] = Handler("delete", d, "close", 0, exec[d])]
      /\ UNCHANGED <<storeVars, store, monitorVars, main, restarts>>

(* ExecJobStore.close of store x. *)
Shut(x) == [state |-> "closed", addr |-> x.addr]

(* The store is closed outside the lock. *)
DeleteCloses(r) ==
  LET s == req[r].popped
  IN  /\ req[r].op = "delete" /\ req[r].pc = "close"
      /\ store' = IF s = Nobody THEN store
                  ELSE [store EXCEPT ![s] = Shut(store[s])]
      /\ GoOn(r, "delete", req[r].dev, "clean")
      /\ UNCHANGED <<storeVars, exec, monitorVars, main, restarts>>

(* stop of the samplers of requests S: the thread sees it before its next  *)
(* collection.                                                             *)
Stopped(S) ==
  [r \in Requests |-> IF r \in S /\ thread[r] = "running" THEN "stopping"
                      ELSE thread[r]]

(* _cleanup_device: MonitorService.remove_device, if it is registered. *)
DeleteCleans(r) ==
  LET d == req[r].dev
  IN  /\ req[r].op = "delete" /\ req[r].pc = "clean"
      /\ IF registered
         THEN /\ samplers' = [samplers EXCEPT ![d] = Nobody]
              /\ thread' = Stopped({samplers[d]})
         ELSE UNCHANGED <<samplers, thread>>
      /\ Answer(r, "delete", d, 200)
      /\ UNCHANGED <<storeVars, execVars, service, registered, main, restarts>>

-----------------------------------------------------------------------------
(* _exec_store, under _exec_stores_lock, as exec_run, exec_poll, exec_kill *)
(* and exec_running call it.  A board of an unknown type has no transport. *)
Exec(r, d) ==
  /\ req[r].op = "idle"
  /\ IF Closed THEN Answer(r, "exec", d, 500) /\ UNCHANGED execVars
     ELSE IF exec[d] # Nobody THEN Answer(r, "exec", d, 200) /\ UNCHANGED execVars
     ELSE IF devices[d] = Nobody THEN Answer(r, "exec", d, 404) /\ UNCHANGED execVars
     ELSE IF devices[d].kind = "bad" THEN Answer(r, "exec", d, 500) /\ UNCHANGED execVars
     ELSE /\ exec' = [exec EXCEPT ![d] = r]
          /\ store' = [store EXCEPT ![r] = [state |-> "open", addr |-> devices[d].addr]]
          /\ Answer(r, "exec", d, 200)
  /\ UNCHANGED <<storeVars, monitorVars, main, restarts>>

-----------------------------------------------------------------------------
(* The monitor's handlers: _check_device, then the service of this host is *)
(* made if there is none.                                                  *)
Monitor(r, d, op) ==
  /\ req[r].op = "idle"
  /\ IF devices[d] = Nobody
     THEN Answer(r, op, d, 404) /\ UNCHANGED service
     ELSE /\ service' = IF service = "none" THEN "open" ELSE service
          /\ GoOn(r, op, d, "register")
  /\ UNCHANGED <<storeVars, execVars, samplers, thread, registered, main, restarts>>

(* MonitorService.close. *)
CloseService ==
  /\ service' = "closed"
  /\ samplers' = [d \in Devices |-> Nobody]
  /\ thread' = Stopped({samplers[d] : d \in Devices})

(* A fault: register_cleanup does not look at _closed. *)
RegisterAlways(r) ==
  /\ req[r].pc = "register"
  /\ registered' = TRUE
  /\ GoOn(r, req[r].op, req[r].dev, "work")
  /\ UNCHANGED <<storeVars, execVars, samplers, thread, service, main, restarts>>

(* register_cleanup: after close has begun it closes the service itself. *)
Register(r) ==
  /\ req[r].pc = "register"
  /\ IF Closed THEN CloseService /\ UNCHANGED registered
     ELSE registered' = TRUE /\ UNCHANGED <<service, samplers, thread>>
  /\ GoOn(r, req[r].op, req[r].dev, "work")
  /\ UNCHANGED <<storeVars, execVars, main, restarts>>

(* get_or_start.  start of a sampler whose thread is alive does nothing,   *)
(* not even if that thread has been told to stop.                          *)
Enable(r) ==
  LET d == req[r].dev
      s == IF samplers[d] = Nobody THEN r ELSE samplers[d]
  IN  /\ req[r].op = "enable" /\ req[r].pc = "work"
      /\ IF service = "closed" THEN UNCHANGED <<samplers, thread>>
         ELSE /\ samplers' = [samplers EXCEPT ![d] = s]
              /\ thread' = IF thread[s] \in {"running", "stopping"} THEN thread
                           ELSE [thread EXCEPT ![s] = "running"]
      /\ Answer(r, "enable", d, 200)
      /\ UNCHANGED <<storeVars, execVars, service, registered, main, restarts>>

(* disable keeps the sampler, and its samples. *)
Disable(r) ==
  LET d == req[r].dev
  IN  /\ req[r].op = "disable" /\ req[r].pc = "work"
      /\ thread' = Stopped({samplers[d]})
      /\ Answer(r, "disable", d, 200)
      /\ UNCHANGED <<storeVars, execVars, samplers, service, registered, main, restarts>>

(* The thread of a sampler that was told to stop leaves its loop. *)
SamplerEnds(r) ==
  /\ thread[r] = "stopping"
  /\ thread' = [thread EXCEPT ![r] = "ended"]
  /\ UNCHANGED <<storeVars, execVars, samplers, service, registered, req, main, restarts>>

(* A fault: a collection that has no transport does not count as failed.   *)
SamplerForgives(r) ==
  /\ thread[r] = "running" /\ devices[req[r].dev] = Nobody
  /\ UNCHANGED vars

(* _run gives up after collections have failed for _STOP_AFTER seconds:    *)
(* the board is gone from the store, and _transport raises each time ...   *)
SamplerStarves(r) ==
  /\ thread[r] = "running" /\ devices[req[r].dev] = Nobody
  /\ thread' = [thread EXCEPT ![r] = "ended"]
  /\ UNCHANGED <<storeVars, execVars, samplers, service, registered, req, main, restarts>>

(* ... or it does not answer. *)
SamplerGivesUp(r) ==
  /\ thread[r] = "running" /\ devices[req[r].dev] # Nobody
  /\ thread' = [thread EXCEPT ![r] = "ended"]
  /\ UNCHANGED <<storeVars, execVars, samplers, service, registered, req, main, restarts>>

-----------------------------------------------------------------------------
(* HostApi.close: _closed is set and the callbacks are copied, ...         *)
CloseBegins ==
  /\ main = "serving"
  /\ main' = IF registered THEN "services" ELSE "stores"
  /\ UNCHANGED <<storeVars, execVars, monitorVars, req, restarts>>

(* ... the service, registered last, is closed first, ...                  *)
CloseServices ==
  /\ main = "services"
  /\ CloseService
  /\ main' = "stores"
  /\ UNCHANGED <<storeVars, execVars, registered, req, restarts>>

(* ... and the exec stores last but for the audit.                         *)
CloseStores ==
  /\ main = "stores"
  /\ store' = [r \in Requests |->
                 IF \E d \in Devices : exec[d] = r
                 THEN Shut(store[r]) ELSE store[r]]
  /\ main' = "closed"
  /\ UNCHANGED <<storeVars, exec, monitorVars, req, restarts>>

(* The process ends or dies, and is started again. *)
Restart ==
  /\ restarts < MaxRestarts
  /\ restarts' = restarts + 1
  /\ devices' = [d \in Devices |-> Loaded(file[d])]
  /\ exec' = [d \in Devices |-> Nobody]
  /\ store' = [r \in Requests |-> NoStore]
  /\ samplers' = [d \in Devices |-> Nobody]
  /\ thread' = [r \in Requests |-> "none"]
  /\ service' = "none"
  /\ registered' = FALSE
  /\ req' = [r \in Requests |->
               IF req[r].op = "idle" THEN Idle
               ELSE Handler(req[r].op, req[r].dev, "done", req[r].ans, Nobody)]
  /\ main' = "serving"
  /\ UNCHANGED <<file, agreed>>

Next ==
  \/ \E r \in Requests :
       \/ \E d \in Devices :
            \/ \E pw \in {"none", "text"} : Add(r, d, pw)
            \/ AddRefused(r, d)
            \/ \E c \in Changes : Update(r, d, c)
            \/ Delete(r, d)
            \/ Exec(r, d)
            \/ \E op \in {"enable", "disable"} : Monitor(r, d, op)
       \/ DeletePops(r) \/ DeleteCloses(r) \/ DeleteCleans(r)
       \/ Register(r) \/ Enable(r) \/ Disable(r)
       \/ SamplerEnds(r) \/ SamplerStarves(r) \/ SamplerGivesUp(r)
  \/ CloseBegins \/ CloseServices \/ CloseStores
  \/ Restart

Spec == Init /\ [][Next]_vars

(* A sampler's thread wakes up after every interval and its collections    *)
(* are bounded by a time limit: it sees that its board is gone.            *)
FairSpec == Spec /\ \A r \in Requests : WF_vars(SamplerStarves(r))

-----------------------------------------------------------------------------
RegistryTypeOK ==
  /\ devices \in [Devices -> Boards \cup {Nobody}]
  /\ file \in [Devices -> Records \cup {Nobody}]
  /\ exec \in [Devices -> Requests \cup {Nobody}]
  /\ samplers \in [Devices -> Requests \cup {Nobody}]
  /\ thread \in [Requests -> {"none", "running", "stopping", "ended"}]
  /\ service \in {"none", "open", "closed"}
  /\ registered => service # "none"

(* A deletion of board d has still to take the exec store out of the       *)
(* table, or has stopped short of it because save raised.                  *)
DeletionPending(d) ==
  \/ \E r \in Requests : req[r].dev = d /\ req[r].op = "delete" /\ req[r].pc = "pop"
  \/ agreed[d] = Unknown

(* A deletion has taken the store of request s out and will close it.      *)
BeingClosed(s) == \E r \in Requests : req[r].popped = s

(* devices_delete and _exec_store race for exec_stores in different locks: *)
(* no exec store is left for a board that is gone, and a store that is     *)
(* open is in the table, where the next deletion or close finds it, or a   *)
(* deletion is about to close it.                                          *)
StoresAccountedFor ==
  /\ RegistryTypeOK
  /\ \A d \in Devices :
       exec[d] # Nobody /\ devices[d] = Nobody => DeletionPending(d)
  /\ \A r \in Requests :
       store[r].state = "open" => exec[req[r].dev] = r \/ BeingClosed(r)

(* A change of a board that was answered with success is in devices.json,  *)
(* and in memory, until the board is changed again: whatever happens to    *)
(* other boards, and across restarts and failing saves.                    *)
ChangesSurvive ==
  \A d \in Devices : agreed[d] # Unknown =>
    /\ file[d] = agreed[d]
    /\ devices[d] = Nobody <=> file[d] = Nobody
    /\ devices[d] # Nobody => /\ devices[d].addr = file[d].addr
                              /\ devices[d].kind = file[d].kind
                              /\ devices[d].pw = "none" <=> file[d].pw = "none"

(* When close has returned, no exec store and no sampler goes on, although *)
(* requests may still be running that wanted to start one.                 *)
CloseStopsAll ==
  main = "closed" =>
    /\ \A r \in Requests : thread[r] # "running"
    /\ \A r \in Requests : store[r].state = "open" => BeingClosed(r)

(* The sampler of a board that was deleted between the check and the start *)
(* of a monitor request is stopped by nobody; it stops by itself.          *)
OrphanSamplerStops ==
  \A r \in Requests :
    (thread[r] = "running" /\ devices[req[r].dev] = Nobody)
      ~> (thread[r] # "running" \/ devices[req[r].dev] # Nobody)

(* The tests change and delete a board that has a password, and expect     *)
(* success: no change fails for want of a save.                            *)
ChangeSucceeds ==
  \A r \in Requests :
    req[r].op \in {"add", "update", "delete"} => req[r].ans # 500

(* Commands of a board go to the address the store has for it. *)
ExecAddressCurrent ==
  \A d \in Devices : exec[d] # Nobody /\ devices[d] # Nobody =>
    store[exec[d]].addr = devices[d].addr
============================================================================
