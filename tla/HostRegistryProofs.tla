------------------------- MODULE HostRegistryProofs -------------------------
(***************************************************************************)
(* The safety properties of HostRegistry, for every number of boards,      *)
(* requests and restarts.  IInv is about memory and devices.json; OInv is  *)
(* about who owns exec stores and samplers.                                *)
(***************************************************************************)
EXTENDS HostRegistry, TLAPS

(* The types of the variables ChangesSurvive is about. *)
StoreTypeOK ==
  /\ devices \in [Devices -> Boards \cup {Nobody}]
  /\ file \in [Devices -> Records \cup {Nobody}]
  /\ agreed \in [Devices -> Records \cup {Nobody, Unknown}]

(* Memory b and record x are the same board, or both are none. *)
Agree(b, x) ==
  /\ b = Nobody <=> x = Nobody
  /\ b # Nobody => /\ b.addr = x.addr
                   /\ b.kind = x.kind
                   /\ b.pw = "none" <=> x.pw = "none"

IInv == StoreTypeOK /\ ChangesSurvive

(* save writes a record that agrees with the board. *)
LEMMA SavedAgrees ==
  ASSUME NEW b \in Boards \cup {Nobody}
  PROVE  /\ Saved(b) \in Records \cup {Nobody}
         /\ (b # Nobody => b.pw # "bytes") => Agree(b, Saved(b))
BY RegistryAssumption DEF Saved, Agree, Boards, Records

(* _load makes a board that agrees with the record. *)
LEMMA LoadedAgrees ==
  ASSUME NEW x \in Records \cup {Nobody}
  PROVE  /\ Loaded(x) \in Boards \cup {Nobody}
         /\ Agree(Loaded(x), x)
BY RegistryAssumption DEF Loaded, Agree, Boards, Records

(* A board in memory that agrees with a record is saved as that record.    *)
LEMMA SavedBack ==
  ASSUME NEW b \in Boards \cup {Nobody}, NEW x \in Records \cup {Nobody},
         Agree(b, x), b # Nobody => b.pw # "bytes"
  PROVE  Saved(b) = x
BY RegistryAssumption DEF Saved, Agree, Boards, Records

(* The part of the invariant that is about one board. *)
LEMMA Pointwise ==
  ChangesSurvive <=> \A d \in Devices : agreed[d] # Unknown =>
                       file[d] = agreed[d] /\ Agree(devices[d], file[d])
BY DEF ChangesSurvive, Agree

(* Saving memory m after a change of board d keeps the invariant.          *)
LEMMA CommitKeeps ==
  ASSUME IInv, NEW d \in Devices, NEW m \in [Devices -> Boards \cup {Nobody}],
         \A x \in Devices \ {d} : m[x] = devices[x], Commit(d, m)
  PROVE  IInv'
<1> USE DEF IInv, StoreTypeOK
<1>1. CASE CanSave(m)
  <2>1. /\ devices' = m
        /\ file' = [x \in Devices |-> Saved(m[x])]
        /\ agreed' = [agreed EXCEPT ![d] = Saved(m[d])]
    BY <1>1 DEF Commit
  <2>2. \A x \in Devices : Saved(m[x]) \in Records \cup {Nobody} /\ Agree(m[x], Saved(m[x]))
    BY <1>1, SavedAgrees DEF CanSave
  <2>3. \A x \in Devices \ {d} : agreed[x] # Unknown => Saved(m[x]) = agreed[x]
    <3> SUFFICES ASSUME NEW x \in Devices \ {d}, agreed[x] # Unknown
                 PROVE  Saved(m[x]) = agreed[x]
      OBVIOUS
    <3>1. file[x] = agreed[x] /\ Agree(devices[x], file[x])
      BY Pointwise
    <3> QED
      BY <3>1, <1>1, SavedBack DEF CanSave
  <2>4. StoreTypeOK'
    BY <2>1, <2>2
  <2>5. \A x \in Devices : agreed'[x] # Unknown =>
          file'[x] = agreed'[x] /\ Agree(devices'[x], file'[x])
    BY <2>1, <2>2, <2>3
  <2> QED
    BY <2>4, <2>5 DEF ChangesSurvive, Agree
<1>2. CASE ~CanSave(m)
  <2>1. devices' = m /\ file' = file /\ agreed' = [agreed EXCEPT ![d] = Unknown]
    BY <1>2 DEF Commit
  <2> QED
    BY <2>1 DEF ChangesSurvive
<1> QED
  BY <1>1, <1>2

(* A board changed by the body of a PUT request is a board. *)
LEMMA MergedType ==
  ASSUME NEW b \in Boards, NEW c \in Changes
  PROVE  Merged(b, c) \in Boards
BY RegistryAssumption DEF Merged, Boards

(* Steps that leave the store alone leave the invariant alone. *)
LEMMA StoreUntouched ==
  ASSUME IInv, UNCHANGED storeVars
  PROVE  IInv'
BY DEF IInv, StoreTypeOK, ChangesSurvive, storeVars

(* Memory is what _load made of the file. *)
LEMMA InitEstablishes == Init => IInv
<1> SUFFICES ASSUME Init PROVE IInv
  OBVIOUS
<1>1. file \in [Devices -> Records \cup {Nobody}] /\ agreed = file
  BY RegistryAssumption DEF Init
<1>2. devices = [d \in Devices |-> Loaded(file[d])]
  BY DEF Init
<1>3. \A d \in Devices : /\ devices[d] \in Boards \cup {Nobody}
                         /\ Agree(devices[d], file[d])
  BY <1>1, <1>2, LoadedAgrees
<1>4. StoreTypeOK
  BY <1>1, <1>2, <1>3 DEF StoreTypeOK
<1> QED
  BY <1>1, <1>3, <1>4, Pointwise DEF IInv

(* devices_add, with the save that may raise. *)
LEMMA AddKeeps ==
  ASSUME IInv, NEW r \in Requests, NEW d \in Devices, NEW pw \in {"none", "text"},
         Add(r, d, pw)
  PROVE  IInv'
<1> DEFINE b == [pw |-> pw, addr |-> 1, kind |-> "ssh"]
           m == [devices EXCEPT ![d] = b]
<1>1. b \in Boards
  BY DEF Boards
<1>2. m \in [Devices -> Boards \cup {Nobody}] /\ \A x \in Devices \ {d} : m[x] = devices[x]
  BY <1>1 DEF IInv, StoreTypeOK
<1>3. Commit(d, m)
  BY DEF Add
<1> QED
  BY <1>2, <1>3, CommitKeeps

(* devices_update: no such board, refused after the change, or saved. *)
LEMMA UpdateKeeps ==
  ASSUME IInv, NEW r \in Requests, NEW d \in Devices, NEW c \in Changes,
         Update(r, d, c)
  PROVE  IInv'
<1> DEFINE m == [devices EXCEPT ![d] = Merged(devices[d], c)]
<1>1. CASE devices[d] = Nobody
  BY <1>1, StoreUntouched DEF Update
<1>2. CASE devices[d] # Nobody
  <2>1. Merged(devices[d], c) \in Boards
    BY <1>2, MergedType DEF IInv, StoreTypeOK
  <2>2. m \in [Devices -> Boards \cup {Nobody}] /\ \A x \in Devices \ {d} : m[x] = devices[x]
    BY <2>1 DEF IInv, StoreTypeOK
  <2>3. CASE c.key = "lost" \/ m[d].kind = "bad"
    <3>1. devices' = m /\ file' = file /\ agreed' = [agreed EXCEPT ![d] = Unknown]
      BY <1>2, <2>3 DEF Update
    <3> QED
      BY <2>2, <3>1 DEF IInv, StoreTypeOK, ChangesSurvive
  <2>4. CASE ~(c.key = "lost" \/ m[d].kind = "bad")
    <3>1. Commit(d, m)
      BY <1>2, <2>4 DEF Update
    <3> QED
      BY <2>2, <3>1, CommitKeeps
  <2> QED
    BY <2>3, <2>4
<1> QED
  BY <1>1, <1>2

(* The first step of devices_delete. *)
LEMMA DeleteKeeps ==
  ASSUME IInv, NEW r \in Requests, NEW d \in Devices, Delete(r, d)
  PROVE  IInv'
<1> DEFINE m == [devices EXCEPT ![d] = Nobody]
<1>1. CASE devices[d] = Nobody
  BY <1>1, StoreUntouched DEF Delete
<1>2. CASE devices[d] # Nobody
  <2>1. m \in [Devices -> Boards \cup {Nobody}] /\ \A x \in Devices \ {d} : m[x] = devices[x]
    BY DEF IInv, StoreTypeOK
  <2>2. Commit(d, m)
    BY <1>2 DEF Delete
  <2> QED
    BY <2>1, <2>2, CommitKeeps
<1> QED
  BY <1>1, <1>2

(* A restart reads back what agreed says was saved. *)
LEMMA RestartKeeps ==
  ASSUME IInv, Restart
  PROVE  IInv'
<1>1. /\ devices' = [d \in Devices |-> Loaded(file[d])]
      /\ file' = file /\ agreed' = agreed
  BY DEF Restart
<1>2. \A d \in Devices : /\ devices'[d] \in Boards \cup {Nobody}
                         /\ Agree(devices'[d], file[d])
  BY <1>1, LoadedAgrees DEF IInv, StoreTypeOK
<1>3. StoreTypeOK'
  BY <1>1, <1>2 DEF IInv, StoreTypeOK
<1> QED
  BY <1>1, <1>2, <1>3, Pointwise DEF IInv, ChangesSurvive, Agree

(* Every step keeps memory and file in agreement. *)
LEMMA NextKeeps == IInv /\ [Next]_vars => IInv'
<1> SUFFICES ASSUME IInv, [Next]_vars PROVE IInv'
  OBVIOUS
<1>1. ASSUME NEW r \in Requests, NEW d \in Devices, NEW pw \in {"none", "text"},
             Add(r, d, pw)
      PROVE  IInv'
  BY <1>1, AddKeeps
<1>2. ASSUME NEW r \in Requests, NEW d \in Devices, NEW c \in Changes, Update(r, d, c)
      PROVE  IInv'
  BY <1>2, UpdateKeeps
<1>3. ASSUME NEW r \in Requests, NEW d \in Devices, Delete(r, d)
      PROVE  IInv'
  BY <1>3, DeleteKeeps
<1>4. ASSUME NEW r \in Requests, NEW d \in Devices,
             \/ AddRefused(r, d) \/ Exec(r, d)
             \/ \E op \in {"enable", "disable"} : Monitor(r, d, op)
      PROVE  IInv'
  BY <1>4, StoreUntouched DEF AddRefused, Exec, Monitor
<1>5. ASSUME NEW r \in Requests,
             \/ DeletePops(r) \/ DeleteCloses(r) \/ DeleteCleans(r)
             \/ Register(r) \/ Enable(r) \/ Disable(r)
             \/ SamplerEnds(r) \/ SamplerStarves(r) \/ SamplerGivesUp(r)
      PROVE  IInv'
  BY <1>5, StoreUntouched DEF DeletePops, DeleteCloses, DeleteCleans, Register,
       Enable, Disable, SamplerEnds, SamplerStarves, SamplerGivesUp
<1>6. CASE CloseBegins \/ CloseServices \/ CloseStores
  BY <1>6, StoreUntouched DEF CloseBegins, CloseServices, CloseStores
<1>7. CASE Restart
  BY <1>7, RestartKeeps
<1>8. CASE UNCHANGED vars
  BY <1>8, StoreUntouched DEF vars
<1> QED
  BY <1>1, <1>2, <1>3, <1>4, <1>5, <1>6, <1>7, <1>8 DEF Next

(* A change of a board that the portal has confirmed is in devices.json,   *)
(* and memory agrees with it, until that board is changed again: for every *)
(* number of boards, requests and restarts, and however saves fail.        *)
THEOREM ConfirmedChangesSurvive == Spec => []ChangesSurvive
<1>1. IInv => ChangesSurvive
  BY DEF IInv
<1> QED
  BY <1>1, InitEstablishes, NextKeeps, PTL DEF Spec

-----------------------------------------------------------------------------
Operations == {"idle", "add", "update", "delete", "exec", "enable", "disable"}

RequestRecords ==
  [op: Operations, dev: Devices \cup {Nobody},
   pc: {"idle", "pop", "close", "clean", "register", "work", "done"},
   ans: Nat, popped: Requests \cup {Nobody}]

(* The types of everything but the store of boards. *)
ObjectTypeOK ==
  /\ exec \in [Devices -> Requests \cup {Nobody}]
  /\ store \in [Requests -> [state: {"none", "open", "closed"}, addr: {0, 1, 2}]]
  /\ samplers \in [Devices -> Requests \cup {Nobody}]
  /\ thread \in [Requests -> {"none", "running", "stopping", "ended"}]
  /\ service \in {"none", "open", "closed"}
  /\ registered \in BOOLEAN
  /\ req \in [Requests -> RequestRecords]
  /\ main \in {"serving", "services", "stores", "closed"}

(* Requests that have begun have a board, others own nothing; only a       *)
(* deletion between its two steps holds a store, made by an exec request.  *)
RequestsOK ==
  \A r \in Requests :
    /\ req[r].op # "idle" => req[r].dev \in Devices
    /\ req[r].op = "idle" => store[r].state = "none" /\ thread[r] = "none"
    /\ req[r].pc # "idle" => req[r].op # "idle"
    /\ req[r].popped # Nobody => /\ req[r].op = "delete" /\ req[r].pc = "close"
                                 /\ req[req[r].popped].op = "exec"

(* A store in the table was made by a request for that board. *)
ExecOwners ==
  \A d \in Devices : exec[d] # Nobody =>
    /\ req[exec[d]].dev = d
    /\ req[exec[d]].op = "exec"

OpenStoresFound ==
  \A r \in Requests :
    store[r].state = "open" => exec[req[r].dev] = r \/ BeingClosed(r)

StoresHaveBoards ==
  \A d \in Devices :
    exec[d] # Nobody /\ devices[d] = Nobody => DeletionPending(d)

ClosedStores ==
  main = "closed" =>
    \A d \in Devices : exec[d] # Nobody => store[exec[d]].state = "closed"

(* A sampler that runs is in the table of samplers under its board.        *)
RunningListed ==
  \A r \in Requests : thread[r] = "running" => samplers[req[r].dev] = r

(* Nobody gets to start a sampler before close knows of the service.       *)
ServiceKnown ==
  /\ registered => service # "none"
  /\ \A r \in Requests : req[r].pc = "register" => service # "none"
  /\ (\E r \in Requests : req[r].pc = "work") \/ (\E d \in Devices : samplers[d] # Nobody)
       => registered \/ service = "closed"
  /\ main \in {"stores", "closed"} /\ registered => service = "closed"
  /\ service = "closed" => \A d \in Devices : samplers[d] = Nobody

SamplerOwners ==
  \A d \in Devices : samplers[d] # Nobody =>
    req[samplers[d]].dev = d /\ req[samplers[d]].op = "enable"

OInv ==
  /\ ObjectTypeOK /\ RequestsOK
  /\ ExecOwners /\ OpenStoresFound /\ StoresHaveBoards /\ ClosedStores
  /\ RunningListed /\ ServiceKnown /\ SamplerOwners

(* Nothing is owned when the process starts. *)
LEMMA OwnersInit == Init => OInv
<1> SUFFICES ASSUME Init PROVE OInv
  OBVIOUS
<1>1. Idle \in RequestRecords
  BY DEF Idle, Handler, RequestRecords, Operations
<1>2. ObjectTypeOK
  BY <1>1 DEF Init, ObjectTypeOK, NoStore
<1>3. RequestsOK
  BY DEF Init, RequestsOK, Idle, Handler, NoStore
<1>4. ExecOwners /\ OpenStoresFound /\ StoresHaveBoards /\ ClosedStores
  BY DEF Init, ExecOwners, OpenStoresFound, StoresHaveBoards, ClosedStores, NoStore
<1>5. RunningListed /\ ServiceKnown /\ SamplerOwners
  BY DEF Init, RunningListed, ServiceKnown, SamplerOwners, Idle, Handler
<1> QED
  BY <1>2, <1>3, <1>4, <1>5 DEF OInv

(* An idle request begins, or is answered at once, and no object changes.  *)
LEMMA BeginKeeps ==
  ASSUME OInv, NEW r \in Requests, req[r].op = "idle",
         NEW d \in Devices, NEW op \in Operations \ {"idle"},
         NEW pc \in {"done", "pop", "register"}, NEW ans \in Nat,
         req' = [req EXCEPT ![r] = Handler(op, d, pc, ans, Nobody)],
         UNCHANGED <<exec, store, samplers, thread, registered, main>>,
         service' = service \/ (service = "none" /\ service' = "open"),
         pc = "register" => service' # "none",
         StoresHaveBoards'
  PROVE  OInv'
<1> DEFINE h == Handler(op, d, pc, ans, Nobody)
<1>1. /\ h \in RequestRecords
      /\ h.op = op /\ h.dev = d /\ h.pc = pc /\ h.popped = Nobody
  BY DEF Handler, RequestRecords
<1>2. /\ req' \in [Requests -> RequestRecords]
      /\ req'[r] = h
      /\ \A x \in Requests \ {r} : req'[x] = req[x]
  BY <1>1 DEF OInv, ObjectTypeOK
<1>3. req[r].popped = Nobody /\ req[r].pc = "idle" /\ store[r].state = "none" /\ thread[r] = "none"
  BY DEF OInv, RequestsOK
<1>4. ObjectTypeOK'
  BY <1>2 DEF OInv, ObjectTypeOK
<1>5. RequestsOK'
  BY <1>1, <1>2, <1>3 DEF OInv, RequestsOK
<1>6. \A x \in Devices : exec[x] # r /\ samplers[x] # r
  BY RegistryAssumption DEF OInv, ExecOwners, SamplerOwners
<1>7. ExecOwners' /\ SamplerOwners'
  BY <1>2, <1>6 DEF OInv, ObjectTypeOK, ExecOwners, SamplerOwners
<1>8. OpenStoresFound'
  BY <1>2, <1>3, RegistryAssumption DEF OInv, OpenStoresFound, BeingClosed
<1>9. ClosedStores' /\ RunningListed'
  BY <1>2, <1>3 DEF OInv, ClosedStores, RunningListed
<1>10. ServiceKnown'
  BY <1>1, <1>2 DEF OInv, ServiceKnown
<1> QED
  BY <1>4, <1>5, <1>7, <1>8, <1>9, <1>10 DEF OInv

(* A deletion takes the exec store out of the table. *)
LEMMA OwnersPop ==
  ASSUME OInv, NEW r \in Requests, DeletePops(r)
  PROVE  OInv'
BY RegistryAssumption DEF DeletePops, OInv, ObjectTypeOK, RequestsOK, ExecOwners, OpenStoresFound,
   StoresHaveBoards, ClosedStores, RunningListed, ServiceKnown, SamplerOwners,
   RequestRecords, Operations, Handler, DeletionPending, BeingClosed, storeVars, execVars, monitorVars

(* A deletion that is pending stays so while another request begins.       *)
LEMMA PendingKept ==
  ASSUME OInv, NEW r \in Requests, req[r].op = "idle", NEW h,
         req' = [req EXCEPT ![r] = h],
         NEW x \in Devices, agreed'[x] = agreed[x], DeletionPending(x)
  PROVE  DeletionPending(x)'
<1>1. \A y \in Requests \ {r} : req'[y] = req[y]
  BY DEF OInv, ObjectTypeOK
<1> QED
  BY <1>1 DEF DeletionPending

(* A request changes board d, or is refused, with the store left as Commit *)
(* or a refused update leaves it.                                          *)
LEMMA ChangeKeeps ==
  ASSUME OInv, IInv, NEW r \in Requests, req[r].op = "idle", NEW d \in Devices,
         NEW op \in {"add", "update", "delete"}, NEW pc \in {"done", "pop"}, NEW ans \in Nat,
         req' = [req EXCEPT ![r] = Handler(op, d, pc, ans, Nobody)],
         UNCHANGED <<execVars, monitorVars, main>>,
         \A x \in Devices \ {d} : devices'[x] = devices[x] /\ agreed'[x] = agreed[x],
         \/ devices'[d] # Nobody
         \/ agreed'[d] = Unknown
         \/ pc = "pop" /\ op = "delete"
         \/ devices'[d] = devices[d] /\ agreed'[d] = agreed[d]
  PROVE  OInv'
<1>1. ASSUME NEW x \in Devices, exec'[x] # Nobody, devices'[x] = Nobody
      PROVE  DeletionPending(x)'
  <2>1. exec[x] # Nobody
    BY <1>1 DEF execVars
  <2>2. CASE devices'[x] = devices[x] /\ agreed'[x] = agreed[x]
    <3>1. DeletionPending(x)
      BY <1>1, <2>1, <2>2 DEF OInv, StoresHaveBoards
    <3> QED
      BY <3>1, <2>2, PendingKept
  <2>3. CASE agreed'[x] = Unknown
    BY <2>3 DEF DeletionPending
  <2>4. CASE x = d /\ pc = "pop" /\ op = "delete"
    <3>1. req'[r] = Handler(op, d, pc, ans, Nobody)
      BY DEF OInv, ObjectTypeOK
    <3> QED
      BY <3>1, <2>4 DEF DeletionPending, Handler
  <2> QED
    BY <1>1, <2>2, <2>3, <2>4
<1>2. StoresHaveBoards'
  BY <1>1 DEF StoresHaveBoards
<1>3. UNCHANGED <<exec, store, samplers, thread, registered, main, service>>
  BY DEF execVars, monitorVars
<1>4. op \in Operations \ {"idle"}
  BY DEF Operations
<1> QED
  BY <1>2, <1>3, <1>4, BeginKeeps

(* devices_add owns nothing. *)
LEMMA OwnersAdd ==
  ASSUME OInv, IInv, NEW r \in Requests, NEW d \in Devices, NEW pw \in {"none", "text"},
         Add(r, d, pw)
  PROVE  OInv'
<1> DEFINE b == [pw |-> pw, addr |-> 1, kind |-> "ssh"]
           m == [devices EXCEPT ![d] = b]
<1>1. b # Nobody
  BY RegistryAssumption DEF Boards
<1>2. m[d] = b /\ \A x \in Devices \ {d} : m[x] = devices[x]
  BY DEF IInv, StoreTypeOK
<1>3. devices' = m /\ \A x \in Devices \ {d} : agreed'[x] = agreed[x]
  BY DEF Add, Commit, IInv, StoreTypeOK
<1>4. PICK ans \in Nat : req' = [req EXCEPT ![r] = Handler("add", d, "done", ans, Nobody)]
  <2>1. Code(m, 201) \in Nat
    BY DEF Code
  <2>2. req' = [req EXCEPT ![r] = Handler("add", d, "done", Code(m, 201), Nobody)]
    BY DEF Add, Answer
  <2> QED
    BY <2>1, <2>2
<1>5. req[r].op = "idle" /\ UNCHANGED <<execVars, monitorVars, main>>
  BY DEF Add
<1>6. \A x \in Devices \ {d} : devices'[x] = devices[x] /\ agreed'[x] = agreed[x]
  BY <1>2, <1>3
<1>7. devices'[d] # Nobody
  BY <1>1, <1>2, <1>3
<1> HIDE DEF m, b
<1> QED
  BY <1>4, <1>5, <1>6, <1>7, ChangeKeeps

(* devices_update owns nothing. *)
LEMMA OwnersUpdate ==
  ASSUME OInv, IInv, NEW r \in Requests, NEW d \in Devices, NEW c \in Changes,
         Update(r, d, c)
  PROVE  OInv'
<1> DEFINE m == [devices EXCEPT ![d] = Merged(devices[d], c)]
<1>1. req[r].op = "idle" /\ UNCHANGED <<execVars, monitorVars, main>>
  BY DEF Update
<1>2. CASE devices[d] = Nobody
  <2>1. PICK ans \in Nat : req' = [req EXCEPT ![r] = Handler("update", d, "done", ans, Nobody)]
    BY <1>2 DEF Update, Answer
  <2>2. \A x \in Devices : devices'[x] = devices[x] /\ agreed'[x] = agreed[x]
    BY <1>2 DEF Update, storeVars
  <2> QED
    BY <1>1, <2>1, <2>2, ChangeKeeps
<1>3. CASE devices[d] # Nobody
  <2>1. Merged(devices[d], c) # Nobody
    BY <1>3, MergedType, RegistryAssumption DEF IInv, StoreTypeOK
  <2>2. m[d] # Nobody /\ \A x \in Devices \ {d} : m[x] = devices[x]
    BY <2>1 DEF IInv, StoreTypeOK
  <2>3. devices' = m /\ \A x \in Devices \ {d} : agreed'[x] = agreed[x]
    BY <1>3 DEF Update, Commit, IInv, StoreTypeOK
  <2>4. PICK ans \in Nat : req' = [req EXCEPT ![r] = Handler("update", d, "done", ans, Nobody)]
    BY <1>3 DEF Update, Answer, Code
  <2>5. /\ \A x \in Devices \ {d} : devices'[x] = devices[x] /\ agreed'[x] = agreed[x]
        /\ devices'[d] # Nobody
    BY <2>2, <2>3
  <2> HIDE DEF m
  <2> QED
    BY <1>1, <2>4, <2>5, ChangeKeeps
<1> QED
  BY <1>2, <1>3

(* The board goes before its exec store: the deletion is pending. *)
LEMMA OwnersDelete ==
  ASSUME OInv, IInv, NEW r \in Requests, NEW d \in Devices, Delete(r, d)
  PROVE  OInv'
<1> DEFINE m == [devices EXCEPT ![d] = Nobody]
<1>1. req[r].op = "idle" /\ UNCHANGED <<execVars, monitorVars, main>>
  BY DEF Delete
<1>2. CASE devices[d] = Nobody
  <2>1. PICK ans \in Nat : req' = [req EXCEPT ![r] = Handler("delete", d, "done", ans, Nobody)]
    BY <1>2 DEF Delete, Answer
  <2>2. \A x \in Devices : devices'[x] = devices[x] /\ agreed'[x] = agreed[x]
    BY <1>2 DEF Delete, storeVars
  <2> QED
    BY <1>1, <2>1, <2>2, ChangeKeeps
<1>3. CASE devices[d] # Nobody
  <2>1. \A x \in Devices \ {d} : m[x] = devices[x]
    BY DEF IInv, StoreTypeOK
  <2>2. devices' = m /\ \A x \in Devices \ {d} : agreed'[x] = agreed[x]
    BY <1>3 DEF Delete, Commit, IInv, StoreTypeOK
  <2>3. CASE CanSave(m)
    <3>1. req' = [req EXCEPT ![r] = Handler("delete", d, "pop", 0, Nobody)]
      BY <1>3, <2>3 DEF Delete, GoOn
    <3> HIDE DEF m
    <3> QED
      BY <1>1, <2>1, <2>2, <3>1, ChangeKeeps
  <2>4. CASE ~CanSave(m)
    <3>1. PICK ans \in Nat : req' = [req EXCEPT ![r] = Handler("delete", d, "done", ans, Nobody)]
      BY <1>3, <2>4 DEF Delete, Answer
    <3>2. agreed'[d] = Unknown
      BY <1>3, <2>4 DEF Delete, Commit, IInv, StoreTypeOK
    <3> HIDE DEF m
    <3> QED
      BY <1>1, <2>1, <2>2, <3>1, <3>2, ChangeKeeps
  <2> QED
    BY <2>3, <2>4
<1> QED
  BY <1>2, <1>3

(* A request that leaves the store of boards alone begins. *)
LEMMA QuietBegin ==
  ASSUME OInv, NEW r \in Requests, req[r].op = "idle",
         NEW d \in Devices, NEW op \in Operations \ {"idle"},
         NEW pc \in {"done", "register"}, NEW ans \in Nat,
         req' = [req EXCEPT ![r] = Handler(op, d, pc, ans, Nobody)],
         UNCHANGED <<storeVars, exec, store, samplers, thread, registered, main>>,
         service' = service \/ (service = "none" /\ service' = "open"),
         pc = "register" => service' # "none"
  PROVE  OInv'
<1>1. \A x \in Devices : DeletionPending(x) => DeletionPending(x)'
  BY PendingKept DEF storeVars
<1>2. StoresHaveBoards'
  BY <1>1 DEF OInv, StoresHaveBoards, storeVars
<1> QED
  BY <1>2, BeginKeeps

(* A monitor request looks its board up. *)
LEMMA OwnersMonitor ==
  ASSUME OInv, NEW r \in Requests, NEW d \in Devices, NEW op \in {"enable", "disable"},
         Monitor(r, d, op)
  PROVE  OInv'
<1>1. PICK pc \in {"done", "register"}, ans \in Nat :
        /\ req' = [req EXCEPT ![r] = Handler(op, d, pc, ans, Nobody)]
        /\ pc = "register" => service' # "none"
  BY DEF Monitor, Answer, GoOn
<1>2. /\ req[r].op = "idle" /\ op \in Operations \ {"idle"}
      /\ UNCHANGED <<storeVars, exec, store, samplers, thread, registered, main>>
      /\ service' = service \/ (service = "none" /\ service' = "open")
  BY DEF Monitor, execVars, Operations
<1> QED
  BY <1>1, <1>2, QuietBegin

(* A refused add changes nothing. *)
LEMMA OwnersAddRefused ==
  ASSUME OInv, NEW r \in Requests, NEW d \in Devices, AddRefused(r, d)
  PROVE  OInv'
<1>1. PICK ans \in Nat : req' = [req EXCEPT ![r] = Handler("add", d, "done", ans, Nobody)]
  <2>1. req' = [req EXCEPT ![r] = Handler("add", d, "done", 400, Nobody)]
    BY DEF AddRefused, Answer
  <2>2. 400 \in Nat
    OBVIOUS
  <2> QED
    BY <2>1, <2>2
<1>2. /\ req[r].op = "idle" /\ "add" \in Operations \ {"idle"}
      /\ UNCHANGED <<storeVars, exec, store, samplers, thread, registered, main, service>>
  BY DEF AddRefused, execVars, monitorVars, Operations
<1> QED
  BY <1>1, <1>2, QuietBegin

(* _exec_store makes a store only for a board that is there. *)
LEMMA OwnersExec ==
  ASSUME OInv, IInv, NEW r \in Requests, NEW d \in Devices, Exec(r, d)
  PROVE  OInv'
<1>1. /\ req[r].op = "idle" /\ "exec" \in Operations \ {"idle"}
      /\ UNCHANGED <<storeVars, samplers, thread, registered, main, service>>
  BY DEF Exec, monitorVars, Operations
<1>2. PICK ans \in Nat : req' = [req EXCEPT ![r] = Handler("exec", d, "done", ans, Nobody)]
  BY DEF Exec, Answer
<1>3. CASE UNCHANGED execVars
  BY <1>1, <1>2, <1>3, QuietBegin DEF execVars
<1>4. CASE ~UNCHANGED execVars
  <2>1. /\ main = "serving" /\ exec[d] = Nobody /\ devices[d] # Nobody
        /\ exec' = [exec EXCEPT ![d] = r]
        /\ store' = [store EXCEPT ![r] = [state |-> "open", addr |-> devices[d].addr]]
    BY <1>4 DEF Exec, Closed
  <2>2. [state |-> "open", addr |-> devices[d].addr]
          \in [state: {"none", "open", "closed"}, addr: {0, 1, 2}]
    BY <2>1 DEF IInv, StoreTypeOK, Boards
  <2>3. Handler("exec", d, "done", ans, Nobody) \in RequestRecords
    BY DEF Handler, RequestRecords, Operations
  <2>4. /\ req'[r] = Handler("exec", d, "done", ans, Nobody)
        /\ req' \in [Requests -> RequestRecords]
        /\ \A x \in Requests \ {r} : req'[x] = req[x]
    BY <1>2, <2>3 DEF OInv, ObjectTypeOK
  <2>5. /\ req'[r].op = "exec" /\ req'[r].dev = d /\ req'[r].pc = "done"
        /\ req'[r].popped = Nobody
    BY <2>4 DEF Handler
  <2>6. /\ store'[r].state = "open" /\ exec'[d] = r
        /\ \A x \in Requests \ {r} : store'[x] = store[x]
        /\ \A x \in Devices \ {d} : exec'[x] = exec[x]
    BY <2>1 DEF OInv, ObjectTypeOK
  <2>7. ObjectTypeOK'
    BY <1>1, <2>1, <2>2, <2>4 DEF OInv, ObjectTypeOK
  <2>8. RequestsOK'
    <3> SUFFICES ASSUME NEW x \in Requests
                 PROVE  /\ req'[x].op # "idle" => req'[x].dev \in Devices
                        /\ req'[x].op = "idle" => store'[x].state = "none" /\ thread'[x] = "none"
                        /\ req'[x].pc # "idle" => req'[x].op # "idle"
                        /\ req'[x].popped # Nobody => /\ req'[x].op = "delete" /\ req'[x].pc = "close"
                                                      /\ req'[req'[x].popped].op = "exec"
      BY DEF RequestsOK
    <3>1. req[x].popped # Nobody => req[x].popped \in Requests
      BY DEF OInv, ObjectTypeOK, RequestRecords
    <3>2. CASE x = r
      BY <2>5, <3>2
    <3>3. CASE x # r
      <4>1. req'[x] = req[x] /\ store'[x] = store[x] /\ thread'[x] = thread[x]
        BY <1>1, <2>4, <2>6, <3>3
      <4>2. req[x].popped # Nobody => req'[req[x].popped].op = "exec"
        BY <2>4, <2>5, <3>1 DEF OInv, RequestsOK
      <4> QED
        BY <4>1, <4>2 DEF OInv, RequestsOK
    <3> QED
      BY <3>2, <3>3
  <2>9. \A x \in Devices : exec[x] # r /\ samplers[x] # r
    BY <1>1, RegistryAssumption DEF OInv, ExecOwners, SamplerOwners
  <2>10. ExecOwners' /\ SamplerOwners'
    BY <1>1, <2>4, <2>5, <2>6, <2>9 DEF OInv, ObjectTypeOK, ExecOwners, SamplerOwners
  <2>11. req[r].popped = Nobody
    BY <1>1, RegistryAssumption DEF OInv, RequestsOK
  <2>12. ASSUME NEW x \in Requests, store'[x].state = "open"
         PROVE  exec'[req'[x].dev] = x \/ BeingClosed(x)'
    <3>1. CASE x = r
      BY <3>1, <2>5, <2>6
    <3>2. CASE x # r
      <4>1. store[x].state = "open" /\ req'[x] = req[x] /\ req[x].dev \in Devices
        BY <2>4, <2>6, <2>12, <3>2 DEF OInv, RequestsOK
      <4>2. CASE exec[req[x].dev] = x
        BY <2>1, <2>6, <4>1, <4>2, RegistryAssumption
      <4>3. CASE BeingClosed(x)
        BY <2>4, <2>11, <4>3, RegistryAssumption DEF BeingClosed
      <4> QED
        BY <4>1, <4>2, <4>3 DEF OInv, OpenStoresFound
    <3> QED
      BY <3>1, <3>2
  <2>13. StoresHaveBoards'
    <3>1. \A x \in Devices : DeletionPending(x) => DeletionPending(x)'
      BY <1>1, <1>2, PendingKept DEF storeVars
    <3> QED
      BY <1>1, <2>1, <2>6, <3>1 DEF OInv, StoresHaveBoards, storeVars
  <2>14. ClosedStores' /\ RunningListed'
    BY <1>1, <2>1, <2>4, <2>5 DEF OInv, RequestsOK, ClosedStores, RunningListed
  <2>15. ServiceKnown'
    BY <1>1, <2>4, <2>5 DEF OInv, ServiceKnown
  <2> QED
    BY <2>7, <2>8, <2>10, <2>12, <2>13, <2>14, <2>15 DEF OInv, OpenStoresFound
<1> QED
  BY <1>3, <1>4

(* A request under way goes on at pc; only a deletion held a store.        *)
LEMMA GoesOn ==
  ASSUME OInv, NEW r \in Requests, req[r].op # "idle",
         NEW pc \in {"clean", "work", "done"}, NEW ans \in Nat,
         req' = [req EXCEPT ![r] = Handler(req[r].op, req[r].dev, pc, ans, Nobody)]
  PROVE  /\ req' \in [Requests -> RequestRecords]
         /\ req'[r].pc = pc /\ req'[r].popped = Nobody
         /\ \A x \in Requests : req'[x].op = req[x].op /\ req'[x].dev = req[x].dev
         /\ \A x \in Requests \ {r} : req'[x] = req[x]
<1> DEFINE h == Handler(req[r].op, req[r].dev, pc, ans, Nobody)
<1>1. req[r] \in RequestRecords
  BY DEF OInv, ObjectTypeOK
<1>2. h \in RequestRecords
  BY <1>1 DEF Handler, RequestRecords
<1>3. h.op = req[r].op /\ h.dev = req[r].dev /\ h.pc = pc /\ h.popped = Nobody
  BY DEF Handler
<1>4. req'[r] = h /\ \A x \in Requests \ {r} : req'[x] = req[x]
  BY DEF OInv, ObjectTypeOK
<1>5. req' \in [Requests -> RequestRecords]
  BY <1>2 DEF OInv, ObjectTypeOK
<1> HIDE DEF h
<1> QED
  BY <1>3, <1>4, <1>5

(* The store that was taken out is closed. *)
LEMMA OwnersDeleteCloses ==
  ASSUME OInv, NEW r \in Requests, DeleteCloses(r)
  PROVE  OInv'
<1> DEFINE s == req[r].popped
<1>1. /\ req[r].op = "delete" /\ req[r].pc = "close"
      /\ store' = IF s = Nobody THEN store ELSE [store EXCEPT ![s] = Shut(store[s])]
      /\ UNCHANGED <<devices, agreed, exec, samplers, thread, service, registered, main>>
  BY DEF DeleteCloses, storeVars, monitorVars
<1>2. \E ans \in Nat : req' = [req EXCEPT ![r] = Handler(req[r].op, req[r].dev, "clean", ans, Nobody)]
  BY <1>1 DEF DeleteCloses, GoOn
<1>3. /\ req' \in [Requests -> RequestRecords]
      /\ req'[r].pc = "clean" /\ req'[r].popped = Nobody
      /\ \A x \in Requests : req'[x].op = req[x].op /\ req'[x].dev = req[x].dev
      /\ \A x \in Requests \ {r} : req'[x] = req[x]
  BY <1>1, <1>2, GoesOn
<1>4. s \in Requests \cup {Nobody} /\ (s # Nobody => req[s].op = "exec")
  BY DEF OInv, ObjectTypeOK, RequestRecords, RequestsOK
<1>5. /\ store' \in [Requests -> [state: {"none", "open", "closed"}, addr: {0, 1, 2}]]
      /\ s # Nobody => store'[s].state = "closed"
      /\ \A x \in Requests : x # s => store'[x] = store[x]
  BY <1>1, <1>4 DEF OInv, ObjectTypeOK, Shut
<1> HIDE DEF s
<1>7. ObjectTypeOK'
  BY <1>1, <1>3, <1>5 DEF OInv, ObjectTypeOK
<1>8. RequestsOK'
  <2> SUFFICES ASSUME NEW x \in Requests
               PROVE  /\ req'[x].op # "idle" => req'[x].dev \in Devices
                      /\ req'[x].op = "idle" => store'[x].state = "none" /\ thread'[x] = "none"
                      /\ req'[x].pc # "idle" => req'[x].op # "idle"
                      /\ req'[x].popped # Nobody => /\ req'[x].op = "delete" /\ req'[x].pc = "close"
                                                    /\ req'[req'[x].popped].op = "exec"
    BY DEF RequestsOK
  <2>1. req'[x].popped # Nobody => x # r /\ req[x].popped \in Requests
    BY <1>3 DEF OInv, ObjectTypeOK, RequestRecords
  <2> QED
    BY <1>1, <1>3, <1>4, <1>5, <2>1 DEF OInv, RequestsOK
<1>9. \A d \in Devices : /\ exec[d] # Nobody => exec[d] \in Requests
                         /\ samplers[d] # Nobody => samplers[d] \in Requests
  BY DEF OInv, ObjectTypeOK
<1>10. ExecOwners' /\ SamplerOwners'
  BY <1>1, <1>3, <1>9 DEF OInv, ExecOwners, SamplerOwners
<1>11. OpenStoresFound'
  <2> SUFFICES ASSUME NEW x \in Requests, store'[x].state = "open"
               PROVE  exec[req[x].dev] = x \/ \E y \in Requests : req'[y].popped = x
    BY <1>1, <1>3 DEF OpenStoresFound, BeingClosed
  <2>1. x # s /\ store[x].state = "open"
    BY <1>5, RegistryAssumption
  <2> QED
    BY <1>3, <2>1 DEF OInv, OpenStoresFound, BeingClosed, s
<1>12. StoresHaveBoards'
  BY <1>1, <1>3 DEF OInv, StoresHaveBoards, DeletionPending
<1>13. ClosedStores'
  BY <1>1, <1>5, <1>9 DEF OInv, ClosedStores
<1>14. RunningListed'
  BY <1>1, <1>3 DEF OInv, RunningListed
<1>15. ServiceKnown'
  BY <1>1, <1>3 DEF OInv, ServiceKnown
<1> QED
  BY <1>7, <1>8, <1>10, <1>11, <1>12, <1>13, <1>14, <1>15 DEF OInv

(* What GoesOn gives for a step that changes no exec store.                *)
LEMMA GoesOnQuietly ==
  ASSUME OInv, NEW r \in Requests, req[r].op # "idle", req[r].pc \notin {"pop", "close"},
         NEW pc \in {"work", "done"}, NEW ans \in Nat,
         req' = [req EXCEPT ![r] = Handler(req[r].op, req[r].dev, pc, ans, Nobody)],
         UNCHANGED <<devices, agreed, exec, store>>, main' = main,
         \A x \in Requests : thread[x] = "none" => thread'[x] = "none" \/ req[x].op # "idle"
  PROVE  /\ RequestsOK' /\ ExecOwners' /\ OpenStoresFound' /\ StoresHaveBoards' /\ ClosedStores'
         /\ req' \in [Requests -> RequestRecords]
         /\ req'[r].pc = pc
         /\ \A x \in Requests : req'[x].op = req[x].op /\ req'[x].dev = req[x].dev
         /\ \A x \in Requests \ {r} : req'[x] = req[x]
<1>1. /\ req' \in [Requests -> RequestRecords]
      /\ req'[r].pc = pc /\ req'[r].popped = Nobody
      /\ \A x \in Requests : req'[x].op = req[x].op /\ req'[x].dev = req[x].dev
      /\ \A x \in Requests \ {r} : req'[x] = req[x]
  BY GoesOn
<1>2. req[r].popped = Nobody
  BY DEF OInv, RequestsOK
<1>3. \A x \in Requests : req'[x].popped = req[x].popped
  BY <1>1, <1>2
<1>4. \A x \in Requests : req[x].popped # Nobody => req[x].popped \in Requests
  BY DEF OInv, ObjectTypeOK, RequestRecords
<1>5. RequestsOK'
  <2> SUFFICES ASSUME NEW x \in Requests
               PROVE  /\ req'[x].op # "idle" => req'[x].dev \in Devices
                      /\ req'[x].op = "idle" => store'[x].state = "none" /\ thread'[x] = "none"
                      /\ req'[x].pc # "idle" => req'[x].op # "idle"
                      /\ req'[x].popped # Nobody => /\ req'[x].op = "delete" /\ req'[x].pc = "close"
                                                    /\ req'[req'[x].popped].op = "exec"
    BY DEF RequestsOK
  <2> QED
    BY <1>1, <1>2, <1>3, <1>4 DEF OInv, RequestsOK
<1>6. ExecOwners'
  <2>1. \A d \in Devices : exec[d] # Nobody => exec[d] \in Requests
    BY DEF OInv, ObjectTypeOK
  <2> QED
    BY <1>1, <2>1 DEF OInv, ExecOwners
<1>7. OpenStoresFound'
  BY <1>1, <1>3 DEF OInv, OpenStoresFound, BeingClosed
<1>8. StoresHaveBoards'
  BY <1>1 DEF OInv, StoresHaveBoards, DeletionPending
<1>9. ClosedStores'
  BY DEF OInv, ClosedStores
<1> QED
  BY <1>1, <1>5, <1>6, <1>7, <1>8, <1>9

(* A step that leaves samplers and boards of requests alone keeps what is   *)
(* known about the owners of samplers.                                      *)
LEMMA SamplersStay ==
  ASSUME OInv, UNCHANGED <<samplers, thread>>,
         \A x \in Requests : req'[x].op = req[x].op /\ req'[x].dev = req[x].dev
  PROVE  RunningListed' /\ SamplerOwners'
<1>1. ASSUME NEW x \in Requests, thread'[x] = "running"
      PROVE  samplers'[req'[x].dev] = x
  <2>1. samplers[req[x].dev] = x
    BY <1>1 DEF OInv, RunningListed
  <2>2. samplers' = samplers /\ req'[x].dev = req[x].dev
    OBVIOUS
  <2> QED BY <2>1, <2>2
<1>2. ASSUME NEW d \in Devices, samplers'[d] # Nobody
      PROVE  req'[samplers'[d]].dev = d /\ req'[samplers'[d]].op = "enable"
  <2> DEFINE x == samplers[d]
  <2>1. samplers'[d] = x /\ x # Nobody
    BY <1>2
  <2>2. x \in Requests
    BY <2>1 DEF OInv, ObjectTypeOK
  <2>3. req[x].dev = d /\ req[x].op = "enable"
    BY <2>1 DEF OInv, SamplerOwners
  <2> HIDE DEF x
  <2> QED BY <2>1, <2>2, <2>3
<1> QED BY <1>1, <1>2 DEF RunningListed, SamplerOwners

(* The callbacks of a deletion stop the sampler. *)
LEMMA OwnersDeleteCleans ==
  ASSUME OInv, NEW r \in Requests, DeleteCleans(r)
  PROVE  OInv'
<1> DEFINE d == req[r].dev
<1>1. /\ req[r].op = "delete" /\ req[r].pc = "clean"
      /\ UNCHANGED <<devices, agreed, exec, store, service, registered, main>>
      /\ \/ /\ samplers' = [samplers EXCEPT ![d] = Nobody]
            /\ thread' = Stopped({samplers[d]})
         \/ UNCHANGED <<samplers, thread>>
  BY DEF DeleteCleans, storeVars, execVars
<1>2. PICK ans \in Nat : req' = [req EXCEPT ![r] = Handler(req[r].op, req[r].dev, "done", ans, Nobody)]
  <2>1. req' = [req EXCEPT ![r] = Handler(req[r].op, req[r].dev, "done", 200, Nobody)]
    BY <1>1 DEF DeleteCleans, Answer
  <2>2. 200 \in Nat
    OBVIOUS
  <2> QED BY <2>1, <2>2, Zenon
<1>3. d \in Devices
  BY <1>1 DEF OInv, RequestsOK
<1>4. /\ thread' \in [Requests -> {"none", "running", "stopping", "ended"}]
      /\ samplers' \in [Devices -> Requests \cup {Nobody}]
      /\ \A x \in Requests : thread[x] = "none" => thread'[x] = "none"
      /\ \A x \in Requests : thread'[x] = "running" =>
           thread[x] = "running" /\ samplers'[req[x].dev] = samplers[req[x].dev]
      /\ \A x \in Devices : samplers'[x] \in {samplers[x], Nobody}
  <2>1. CASE UNCHANGED <<samplers, thread>>
    BY <2>1 DEF OInv, ObjectTypeOK
  <2>2. CASE samplers' = [samplers EXCEPT ![d] = Nobody] /\ thread' = Stopped({samplers[d]})
    <3>1. /\ \A x \in Devices \ {d} : samplers'[x] = samplers[x]
          /\ samplers'[d] = Nobody /\ samplers' \in [Devices -> Requests \cup {Nobody}]
      BY <1>3, <2>2 DEF OInv, ObjectTypeOK
    <3>2. /\ thread' \in [Requests -> {"none", "running", "stopping", "ended"}]
          /\ \A x \in Requests : thread[x] = "none" => thread'[x] = "none"
          /\ \A x \in Requests : thread'[x] = "running" => thread[x] = "running" /\ x # samplers[d]
      BY <2>2 DEF OInv, ObjectTypeOK, Stopped
    <3>3. \A x \in Requests : thread[x] = "running" => req[x].dev \in Devices /\ samplers[req[x].dev] = x
      BY DEF OInv, RequestsOK, RunningListed
    <3> QED
      BY <3>1, <3>2, <3>3
  <2> QED
    BY <1>1, <2>1, <2>2
<1>5. /\ RequestsOK' /\ ExecOwners' /\ OpenStoresFound' /\ StoresHaveBoards' /\ ClosedStores'
      /\ req' \in [Requests -> RequestRecords]
      /\ req'[r].pc = "done"
      /\ \A x \in Requests : req'[x].op = req[x].op /\ req'[x].dev = req[x].dev
      /\ \A x \in Requests \ {r} : req'[x] = req[x]
  BY <1>1, <1>2, <1>4, GoesOnQuietly
<1> HIDE DEF d
<1>6. ObjectTypeOK'
  BY <1>1, <1>4, <1>5 DEF OInv, ObjectTypeOK
<1>7. RunningListed'
  BY <1>4, <1>5 DEF OInv, RunningListed
<1>8. ServiceKnown'
  BY <1>1, <1>4, <1>5 DEF OInv, ServiceKnown
<1>9. SamplerOwners'
  BY <1>4, <1>5 DEF OInv, ObjectTypeOK, SamplerOwners
<1> QED
  BY <1>5, <1>6, <1>7, <1>8, <1>9 DEF OInv

(* MonitorService.close stops every sampler that runs: all are listed.     *)
LEMMA ServiceCloses ==
  ASSUME OInv, CloseService
  PROVE  /\ thread' \in [Requests -> {"none", "running", "stopping", "ended"}]
         /\ samplers' \in [Devices -> Requests \cup {Nobody}]
         /\ service' = "closed"
         /\ \A x \in Requests : thread'[x] # "running" /\ (thread[x] = "none" => thread'[x] = "none")
         /\ \A x \in Devices : samplers'[x] = Nobody
<1>1. \A x \in Requests : thread[x] = "running" => x \in {samplers[d] : d \in Devices}
  BY DEF OInv, RequestsOK, RunningListed
<1>2. thread' = [x \in Requests |-> IF x \in {samplers[d] : d \in Devices} /\ thread[x] = "running"
                                   THEN "stopping" ELSE thread[x]]
  BY DEF CloseService, Stopped
<1> QED
  BY <1>1, <1>2 DEF CloseService, OInv, ObjectTypeOK

(* register_cleanup, before and after close has begun. *)
LEMMA OwnersRegister ==
  ASSUME OInv, NEW r \in Requests, Register(r)
  PROVE  OInv'
<1>1. /\ req[r].pc = "register"
      /\ UNCHANGED <<devices, agreed, exec, store, main>>
      /\ \/ Closed /\ CloseService /\ registered' = registered
         \/ ~Closed /\ registered' = TRUE /\ UNCHANGED <<service, samplers, thread>>
  BY DEF Register, storeVars, execVars
<1>2. PICK ans \in Nat : req' = [req EXCEPT ![r] = Handler(req[r].op, req[r].dev, "work", ans, Nobody)]
  BY DEF Register, GoOn
<1>3. req[r].op # "idle"
  BY <1>1 DEF OInv, RequestsOK
<1>4. \A x \in Requests : thread[x] = "none" => thread'[x] = "none"
  BY <1>1, ServiceCloses
<1>5. /\ RequestsOK' /\ ExecOwners' /\ OpenStoresFound' /\ StoresHaveBoards' /\ ClosedStores'
      /\ req' \in [Requests -> RequestRecords]
      /\ req'[r].pc = "work"
      /\ \A x \in Requests : req'[x].op = req[x].op /\ req'[x].dev = req[x].dev
      /\ \A x \in Requests \ {r} : req'[x] = req[x]
  BY <1>1, <1>2, <1>3, <1>4, GoesOnQuietly
<1>6. CASE Closed /\ CloseService /\ registered' = registered
  <2>1. ObjectTypeOK'
    BY <1>1, <1>5, <1>6, ServiceCloses DEF OInv, ObjectTypeOK
  <2>2. RunningListed' /\ SamplerOwners'
    BY <1>6, ServiceCloses DEF RunningListed, SamplerOwners
  <2>3. ServiceKnown'
    BY <1>6, ServiceCloses DEF ServiceKnown
  <2> QED
    BY <1>5, <2>1, <2>2, <2>3 DEF OInv
<1>7. CASE ~Closed /\ registered' = TRUE /\ UNCHANGED <<service, samplers, thread>>
  <2>1. ObjectTypeOK'
    BY <1>1, <1>5, <1>7 DEF OInv, ObjectTypeOK
  <2>2. RunningListed' /\ SamplerOwners'
    BY <1>5, <1>7, SamplersStay
  <2>3. ServiceKnown'
    BY <1>1, <1>5, <1>7 DEF OInv, ServiceKnown, Closed
  <2> QED
    BY <1>5, <2>1, <2>2, <2>3 DEF OInv
<1> QED
  BY <1>1, <1>6, <1>7

(* get_or_start makes or restarts a sampler unless the service is closed. *)
LEMMA OwnersEnable ==
  ASSUME OInv, NEW r \in Requests, Enable(r)
  PROVE  OInv'
<1> DEFINE d == req[r].dev
           s == IF samplers[d] = Nobody THEN r ELSE samplers[d]
<1>1. /\ req[r].op = "enable" /\ req[r].pc = "work"
      /\ UNCHANGED <<devices, agreed, exec, store, service, registered, main>>
      /\ \/ UNCHANGED <<samplers, thread>>
         \/ /\ service # "closed"
            /\ samplers' = [samplers EXCEPT ![d] = s]
            /\ thread' = thread \/ thread' = [thread EXCEPT ![s] = "running"]
  BY DEF Enable, storeVars, execVars
<1>2. PICK ans \in Nat : req' = [req EXCEPT ![r] = Handler(req[r].op, req[r].dev, "done", ans, Nobody)]
  <2>1. req' = [req EXCEPT ![r] = Handler(req[r].op, req[r].dev, "done", 200, Nobody)]
    BY <1>1 DEF Enable, Answer
  <2>2. 200 \in Nat
    OBVIOUS
  <2> QED BY <2>1, <2>2, Zenon
<1>3. d \in Devices
  BY <1>1 DEF OInv, RequestsOK
<1>4. s \in Requests /\ req[s].op = "enable" /\ req[s].dev = d
  BY <1>1, <1>3 DEF OInv, ObjectTypeOK, SamplerOwners
<1> HIDE DEF s
<1>5. \A x \in Requests : thread[x] = "none" => thread'[x] = "none" \/ req[x].op # "idle"
  BY <1>1, <1>4 DEF OInv, ObjectTypeOK
<1>6. /\ RequestsOK' /\ ExecOwners' /\ OpenStoresFound' /\ StoresHaveBoards' /\ ClosedStores'
      /\ req' \in [Requests -> RequestRecords]
      /\ req'[r].pc = "done"
      /\ \A x \in Requests : req'[x].op = req[x].op /\ req'[x].dev = req[x].dev
      /\ \A x \in Requests \ {r} : req'[x] = req[x]
  BY <1>1, <1>2, <1>5, GoesOnQuietly
<1> HIDE DEF d
<1>7. CASE UNCHANGED <<samplers, thread>>
  <2>1. ObjectTypeOK'
    BY <1>1, <1>6, <1>7 DEF OInv, ObjectTypeOK
  <2>2. RunningListed' /\ SamplerOwners'
    BY <1>6, <1>7, SamplersStay
  <2>3. ServiceKnown'
    BY <1>1, <1>6, <1>7 DEF OInv, ServiceKnown
  <2> QED
    BY <1>6, <2>1, <2>2, <2>3 DEF OInv
<1>8. CASE /\ service # "closed"
           /\ samplers' = [samplers EXCEPT ![d] = s]
           /\ thread' = thread \/ thread' = [thread EXCEPT ![s] = "running"]
  <2>1. /\ samplers'[d] = s /\ \A x \in Devices \ {d} : samplers'[x] = samplers[x]
        /\ samplers' \in [Devices -> Requests \cup {Nobody}]
    BY <1>3, <1>4, <1>8 DEF OInv, ObjectTypeOK
  <2>2. /\ thread' \in [Requests -> {"none", "running", "stopping", "ended"}]
        /\ \A x \in Requests \ {s} : thread'[x] = thread[x]
    BY <1>4, <1>8 DEF OInv, ObjectTypeOK
  <2>3. ObjectTypeOK'
    BY <1>1, <1>6, <2>1, <2>2 DEF OInv, ObjectTypeOK
  <2>4. \A x \in Requests : thread[x] = "running" => req[x].dev \in Devices /\ samplers[req[x].dev] = x
    BY DEF OInv, RequestsOK, RunningListed
  <2>5. \A x \in Requests : thread[x] = "running" /\ req[x].dev = d => x = s
    BY <2>4, RegistryAssumption DEF s
  <2>6. RunningListed'
    BY <1>4, <1>6, <2>1, <2>2, <2>4, <2>5 DEF RunningListed
  <2>7. SamplerOwners'
    BY <1>4, <1>6, <2>1 DEF OInv, ObjectTypeOK, SamplerOwners
  <2>8. ServiceKnown'
    BY <1>1, <1>6, <1>8 DEF OInv, ServiceKnown
  <2> QED
    BY <1>6, <2>3, <2>6, <2>7, <2>8 DEF OInv
<1> QED
  BY <1>1, <1>7, <1>8

(* Steps of threads that start nothing. *)
LEMMA ThreadsEnd ==
  ASSUME OInv, thread' \in [Requests -> {"none", "running", "stopping", "ended"}],
         \A x \in Requests : /\ thread'[x] = "running" => thread[x] = "running"
                             /\ thread[x] = "none" => thread'[x] = "none",
         UNCHANGED <<devices, agreed, exec, store, samplers, service, registered, req, main>>
  PROVE  OInv'
<1>1. ObjectTypeOK' /\ RequestsOK'
  BY DEF OInv, ObjectTypeOK, RequestsOK
<1>2. ExecOwners' /\ SamplerOwners' /\ OpenStoresFound' /\ ClosedStores'
  BY DEF OInv, ExecOwners, SamplerOwners, OpenStoresFound, BeingClosed, ClosedStores
<1>3. StoresHaveBoards' /\ RunningListed' /\ ServiceKnown'
  BY DEF OInv, StoresHaveBoards, DeletionPending, RunningListed, ServiceKnown
<1> QED
  BY <1>1, <1>2, <1>3 DEF OInv

(* A sampler thread ends, in any of the three ways. *)
LEMMA OwnersSampler ==
  ASSUME OInv, NEW r \in Requests, SamplerEnds(r) \/ SamplerStarves(r) \/ SamplerGivesUp(r)
  PROVE  OInv'
<1>1. /\ thread' = [thread EXCEPT ![r] = "ended"] /\ thread[r] # "none"
      /\ UNCHANGED <<devices, agreed, exec, store, samplers, service, registered, req, main>>
  BY DEF SamplerEnds, SamplerStarves, SamplerGivesUp, storeVars, execVars
<1>2. /\ thread' \in [Requests -> {"none", "running", "stopping", "ended"}]
      /\ \A x \in Requests : /\ thread'[x] = "running" => thread[x] = "running"
                             /\ thread[x] = "none" => thread'[x] = "none"
  BY <1>1 DEF OInv, ObjectTypeOK
<1> QED
  BY <1>1, <1>2, ThreadsEnd

(* disable stops the thread and keeps the sampler. *)
LEMMA OwnersDisable ==
  ASSUME OInv, NEW r \in Requests, Disable(r)
  PROVE  OInv'
<1>1. /\ req[r].op = "disable" /\ req[r].pc = "work"
      /\ UNCHANGED <<devices, agreed, exec, store, samplers, service, registered, main>>
      /\ thread' = Stopped({samplers[req[r].dev]})
  BY DEF Disable, storeVars, execVars
<1>2. PICK ans \in Nat : req' = [req EXCEPT ![r] = Handler(req[r].op, req[r].dev, "done", ans, Nobody)]
  <2>1. req' = [req EXCEPT ![r] = Handler(req[r].op, req[r].dev, "done", 200, Nobody)]
    BY <1>1 DEF Disable, Answer
  <2>2. 200 \in Nat
    OBVIOUS
  <2> QED BY <2>1, <2>2, Zenon
<1>3. /\ thread' \in [Requests -> {"none", "running", "stopping", "ended"}]
      /\ \A x \in Requests : /\ thread'[x] = "running" => thread[x] = "running"
                             /\ thread[x] = "none" => thread'[x] = "none"
  BY <1>1 DEF OInv, ObjectTypeOK, Stopped
<1>4. /\ RequestsOK' /\ ExecOwners' /\ OpenStoresFound' /\ StoresHaveBoards' /\ ClosedStores'
      /\ req' \in [Requests -> RequestRecords]
      /\ req'[r].pc = "done"
      /\ \A x \in Requests : req'[x].op = req[x].op /\ req'[x].dev = req[x].dev
      /\ \A x \in Requests \ {r} : req'[x] = req[x]
  BY <1>1, <1>2, <1>3, GoesOnQuietly
<1>5. ObjectTypeOK'
  BY <1>1, <1>3, <1>4 DEF OInv, ObjectTypeOK
<1>6. RunningListed'
  <2>1. ASSUME NEW x \in Requests, thread'[x] = "running"
        PROVE  samplers'[req'[x].dev] = x
    <3>1. thread[x] = "running"
      BY <1>3, <2>1
    <3>2. samplers[req[x].dev] = x
      BY <3>1 DEF OInv, RunningListed
    <3>3. samplers' = samplers /\ req'[x].dev = req[x].dev
      BY <1>1, <1>4
    <3> QED BY <3>2, <3>3
  <2> QED BY <2>1 DEF RunningListed
<1>8. SamplerOwners'
  <2>1. \A d \in Devices : samplers[d] # Nobody => samplers[d] \in Requests
    BY DEF OInv, ObjectTypeOK
  <2> QED
    BY <1>1, <1>4, <2>1 DEF OInv, SamplerOwners
<1>7. ServiceKnown'
  BY <1>1, <1>4 DEF OInv, ServiceKnown
<1> QED
  BY <1>4, <1>5, <1>6, <1>7, <1>8 DEF OInv

(* close copies the callbacks: a service that is open is among them. *)
LEMMA OwnersCloseBegins ==
  ASSUME OInv, CloseBegins
  PROVE  OInv'
<1>1. /\ main' = (IF registered THEN "services" ELSE "stores")
      /\ UNCHANGED <<devices, agreed, exec, store, samplers, thread, service, registered, req>>
  BY DEF CloseBegins, storeVars, execVars, monitorVars
<1>2. ObjectTypeOK' /\ RequestsOK'
  BY <1>1 DEF OInv, ObjectTypeOK, RequestsOK
<1>3. ExecOwners' /\ SamplerOwners' /\ OpenStoresFound' /\ ClosedStores'
  BY <1>1 DEF OInv, ExecOwners, SamplerOwners, OpenStoresFound, BeingClosed, ClosedStores
<1>4. StoresHaveBoards' /\ RunningListed'
  BY <1>1 DEF OInv, StoresHaveBoards, DeletionPending, RunningListed
<1>5. ServiceKnown'
  BY <1>1 DEF OInv, ServiceKnown
<1> QED
  BY <1>2, <1>3, <1>4, <1>5 DEF OInv

(* close stops every sampler. *)
LEMMA OwnersCloseServices ==
  ASSUME OInv, CloseServices
  PROVE  OInv'
<1>1. /\ main' = "stores" /\ CloseService
      /\ UNCHANGED <<devices, agreed, exec, store, registered, req>>
  BY DEF CloseServices, storeVars, execVars
<1>2. ObjectTypeOK' /\ RequestsOK'
  BY <1>1, ServiceCloses DEF OInv, ObjectTypeOK, RequestsOK
<1>3. ExecOwners' /\ SamplerOwners' /\ OpenStoresFound' /\ ClosedStores'
  BY <1>1, ServiceCloses DEF OInv, ExecOwners, SamplerOwners, OpenStoresFound, BeingClosed, ClosedStores
<1>4. StoresHaveBoards' /\ RunningListed'
  BY <1>1, ServiceCloses DEF OInv, StoresHaveBoards, DeletionPending, RunningListed
<1>5. ServiceKnown'
  BY <1>1, ServiceCloses DEF OInv, ServiceKnown
<1> QED
  BY <1>2, <1>3, <1>4, <1>5 DEF OInv

(* close shuts every store that is in the table. *)
LEMMA OwnersCloseStores ==
  ASSUME OInv, CloseStores
  PROVE  OInv'
<1>1. /\ main = "stores" /\ main' = "closed"
      /\ store' = [r \in Requests |-> IF \E d \in Devices : exec[d] = r
                                      THEN Shut(store[r]) ELSE store[r]]
      /\ UNCHANGED <<devices, agreed, exec, samplers, thread, service, registered, req>>
  BY DEF CloseStores, storeVars, monitorVars
<1>2. /\ store' \in [Requests -> [state: {"none", "open", "closed"}, addr: {0, 1, 2}]]
      /\ \A r \in Requests : store'[r] = store[r] \/ (store'[r].state = "closed" /\ \E d \in Devices : exec[d] = r)
      /\ \A d \in Devices : exec[d] # Nobody => store'[exec[d]].state = "closed"
  BY <1>1 DEF OInv, ObjectTypeOK, Shut
<1>3. ObjectTypeOK'
  BY <1>1, <1>2 DEF OInv, ObjectTypeOK
<1>4. RequestsOK'
  <2>1. \A r \in Requests : (\E d \in Devices : exec[d] = r) => req[r].op = "exec"
    BY RegistryAssumption DEF OInv, ExecOwners
  <2> QED
    BY <1>1, <1>2, <2>1 DEF OInv, RequestsOK
<1>5. ExecOwners' /\ SamplerOwners' /\ OpenStoresFound' /\ ClosedStores'
  BY <1>1, <1>2 DEF OInv, ExecOwners, SamplerOwners, OpenStoresFound, BeingClosed, ClosedStores
<1>6. StoresHaveBoards' /\ RunningListed' /\ ServiceKnown'
  BY <1>1 DEF OInv, StoresHaveBoards, DeletionPending, RunningListed, ServiceKnown
<1> QED
  BY <1>3, <1>4, <1>5, <1>6 DEF OInv

(* A restart leaves no store and no sampler. *)
LEMMA OwnersRestart ==
  ASSUME OInv, Restart
  PROVE  OInv'
<1>1. /\ exec' = [d \in Devices |-> Nobody] /\ samplers' = [d \in Devices |-> Nobody]
      /\ store' = [r \in Requests |-> NoStore] /\ thread' = [r \in Requests |-> "none"]
      /\ service' = "none" /\ registered' = FALSE /\ main' = "serving"
      /\ req' = [r \in Requests |-> IF req[r].op = "idle" THEN Idle
                    ELSE Handler(req[r].op, req[r].dev, "done", req[r].ans, Nobody)]
  BY DEF Restart
<1>2. ASSUME NEW r \in Requests
      PROVE  /\ req'[r] \in RequestRecords /\ req'[r].popped = Nobody
             /\ req'[r].pc \in {"idle", "done"}
             /\ req'[r].op # "idle" => req'[r].dev \in Devices
             /\ req'[r].pc # "idle" => req'[r].op # "idle"
  <2>1. req[r] \in RequestRecords /\ (req[r].op # "idle" => req[r].dev \in Devices)
    BY DEF OInv, ObjectTypeOK, RequestsOK
  <2>2. CASE req[r].op = "idle"
    BY <1>1, <2>2 DEF Idle, Handler, RequestRecords, Operations
  <2>3. CASE req[r].op # "idle"
    BY <1>1, <2>1, <2>3 DEF Handler, RequestRecords
  <2> QED
    BY <2>2, <2>3
<1>3. req' \in [Requests -> RequestRecords]
  BY <1>1, <1>2
<1>4. ObjectTypeOK'
  BY <1>1, <1>3 DEF ObjectTypeOK, NoStore
<1>5. RequestsOK'
  BY <1>1, <1>2 DEF RequestsOK, NoStore
<1>6. ExecOwners' /\ OpenStoresFound' /\ StoresHaveBoards' /\ ClosedStores'
  BY <1>1 DEF ExecOwners, OpenStoresFound, StoresHaveBoards, ClosedStores, NoStore
<1>7. RunningListed' /\ ServiceKnown' /\ SamplerOwners'
  BY <1>1, <1>2 DEF RunningListed, ServiceKnown, SamplerOwners
<1> QED
  BY <1>4, <1>5, <1>6, <1>7 DEF OInv

(* A stuttering step. *)
LEMMA OwnersStutter ==
  ASSUME OInv, UNCHANGED vars
  PROVE  OInv'
BY ThreadsEnd DEF vars, storeVars, execVars, monitorVars, OInv, ObjectTypeOK

(* Every step keeps the ownership, given that memory and file are typed. *)
LEMMA OwnersNext == OInv /\ IInv /\ [Next]_vars => OInv'
<1> SUFFICES ASSUME OInv, IInv, [Next]_vars PROVE OInv'
  OBVIOUS
<1>1. ASSUME NEW r \in Requests, NEW d \in Devices,
             \/ \E pw \in {"none", "text"} : Add(r, d, pw)
             \/ AddRefused(r, d)
             \/ \E c \in Changes : Update(r, d, c)
             \/ Delete(r, d)
             \/ Exec(r, d)
             \/ \E op \in {"enable", "disable"} : Monitor(r, d, op)
      PROVE  OInv'
  BY <1>1, OwnersAdd, OwnersAddRefused, OwnersUpdate, OwnersDelete, OwnersExec, OwnersMonitor
<1>2. ASSUME NEW r \in Requests,
             \/ DeletePops(r) \/ DeleteCloses(r) \/ DeleteCleans(r)
             \/ Register(r) \/ Enable(r) \/ Disable(r)
             \/ SamplerEnds(r) \/ SamplerStarves(r) \/ SamplerGivesUp(r)
      PROVE  OInv'
  BY <1>2, OwnersPop, OwnersDeleteCloses, OwnersDeleteCleans, OwnersRegister, OwnersEnable,
     OwnersDisable, OwnersSampler
<1>3. CASE CloseBegins \/ CloseServices \/ CloseStores \/ Restart
  BY <1>3, OwnersCloseBegins, OwnersCloseServices, OwnersCloseStores, OwnersRestart
<1>4. CASE UNCHANGED vars
  BY <1>4, OwnersStutter
<1> QED
  BY <1>1, <1>2, <1>3, <1>4 DEF Next

(* No exec store is left for a board that was deleted, and every open one  *)
(* can be found by the next deletion or by close: for every number of      *)
(* boards and requests.                                                    *)
THEOREM NoStoreLost == Spec => []StoresAccountedFor
<1>1. IInv /\ OInv => StoresAccountedFor
  BY DEF IInv, OInv, StoresAccountedFor, RegistryTypeOK, StoreTypeOK, ObjectTypeOK, ServiceKnown,
     StoresHaveBoards, OpenStoresFound
<1> QED
  BY <1>1, InitEstablishes, NextKeeps, OwnersInit, OwnersNext, PTL DEF Spec

(* After close has returned no sampler runs and no exec store is open that *)
(* a deletion is not about to close, whatever the requests still do.       *)
THEOREM NothingOutlivesClose == Spec => []CloseStopsAll
<1>1. OInv => CloseStopsAll
  <2> SUFFICES ASSUME OInv, main = "closed", NEW r \in Requests
               PROVE  /\ thread[r] # "running"
                      /\ store[r].state = "open" => BeingClosed(r)
    BY DEF CloseStopsAll
  <2>1. thread[r] = "running" => req[r].dev \in Devices /\ samplers[req[r].dev] = r
    BY DEF OInv, RequestsOK, RunningListed
  <2>2. \A d \in Devices : samplers[d] = Nobody
    BY DEF OInv, ServiceKnown
  <2>3. store[r].state = "open" => req[r].dev \in Devices
    BY DEF OInv, RequestsOK
  <2>4. store[r].state = "open" => exec[req[r].dev] # r
    BY <2>3, RegistryAssumption DEF OInv, ClosedStores
  <2> QED
    BY <2>1, <2>2, <2>4, RegistryAssumption DEF OInv, OpenStoresFound
<1> QED
  BY <1>1, InitEstablishes, NextKeeps, OwnersInit, OwnersNext, PTL DEF Spec
============================================================================
