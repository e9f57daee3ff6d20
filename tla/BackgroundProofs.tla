-------------------------- MODULE BackgroundProofs --------------------------
(***************************************************************************)
(* The services that work in the background, for every number of events,   *)
(* requests and addresses: the discovery of boards and the audit recorder. *)
(***************************************************************************)
EXTENDS AuditRecorder, Discovery, SequenceTheorems, DataLemmas

-----------------------------------------------------------------------------
(***************************************************************************)
(* Discovery (Discovery).  Versions order what was read, stored and        *)
(* answered; what an import takes was offered to it.                       *)
(***************************************************************************)

Askers == Callers \cup {Loop}
AskPlaces == {"idle", "refresh", "probe", "done", "import", "over"}
Plain == [dict : {FALSE}, type : {""}, host : Addresses]
AskType == [at : AskPlaces, ver : Nat, hide : SUBSET Addresses, devices : SUBSET Plain, floor : Nat,
            items : Seq(Neighbours), known : SUBSET Addresses, got : SUBSET Neighbours, by : Nat]

RulesType == [ver : Nat, hide : SUBSET Addresses]

DiscTyped ==
  /\ rules \in RulesType /\ rulesFile \in RulesType
  /\ discResult.ver \in Nat /\ discResult.hosts \in SUBSET Neighbours
  /\ boardsOf \in [Addresses -> Nat] /\ imported \in [Addresses -> Nat]
  /\ ask \in [Askers -> AskType]

\* While the process lives the rules only grow newer; what is asked for is
\* not newer than they are.
VersionsOK(a) ==
  /\ a.floor <= rules.ver
  /\ a.at = "probe" => a.floor <= a.ver
  /\ a.at = "done" => a.floor <= a.by

\* Memory and file differ from a change to its save, and after a save that failed.
RulesOK == ~saving /\ ~unsaved => rulesFile = rules

\* An import that runs alone knows every neighbour that an import has made a
\* board, and those were counted among the boards when it began.
ImportsOK ==
  ~overlap =>
    /\ \A c, d \in Callers : Importing(c) /\ Importing(d) => c = d
    /\ \A c \in Callers : Importing(c) => \A h \in Neighbours : imported[h] > 0 => h \in ask[c].known
    /\ \A h \in Addresses : imported[h] <= 1

ImportsCounted == \A h \in Addresses : imported[h] <= boardsOf[h]

DiscInv ==
  /\ DiscTyped
  /\ RulesOK /\ ImportsCounted
  /\ \A c \in Askers : VersionsOK(ask[c])
  /\ ImportsOK

-----------------------------------------------------------------------------
\* What the invariant says about the cache and about imports.
LEMMA DiscImplies == DiscInv => DiscoveryConsistent
<1> SUFFICES ASSUME DiscInv PROVE DiscoveryConsistent
  OBVIOUS
<1>1. ASSUME NEW c \in Callers, ask[c].at = "done" PROVE ask[c].by >= ask[c].floor
  <2>1. c \in Askers /\ VersionsOK(ask[c]) /\ ask[c].by \in Nat /\ ask[c].floor \in Nat
    BY DEF DiscInv, DiscTyped, Askers, AskType
  <2> QED BY <1>1, <2>1 DEF VersionsOK
<1> QED BY <1>1 DEF DiscInv, RulesOK, ImportsOK, DiscoveryConsistent

\* An asker that is not under way.
LEMMA WaitingTyped ==
  /\ Waiting \in AskType /\ Waiting.at = "idle" /\ Waiting.floor = 0
  BY DEF Waiting, AskType, AskPlaces

\* No cache and no asker.
LEMMA DiscInitOK == DiscInit => DiscInv
<1> SUFFICES ASSUME DiscInit PROVE DiscInv
  OBVIOUS
<1>0. Neighbours \subseteq Addresses
  BY DiscoveryAssumption
<1>1. DiscTyped
  <2>1. rules \in RulesType /\ rulesFile = rules
    BY DEF DiscInit, RulesType
  <2>2. discResult.ver \in Nat /\ discResult.hosts \in SUBSET Neighbours
    BY DEF DiscInit
  <2>3. boardsOf \in [Addresses -> Nat] /\ imported = boardsOf
    BY DEF DiscInit
  <2>4. ask \in [Askers -> AskType]
    BY WaitingTyped DEF DiscInit, Askers
  <2> QED BY <2>1, <2>2, <2>3, <2>4 DEF DiscTyped
<1>2. \A c \in Askers : ask[c] = Waiting
  BY DEF DiscInit, Askers
<1>3. \A c \in Askers : VersionsOK(ask[c])
  BY <1>2, WaitingTyped DEF VersionsOK, DiscInit
<1>4. ImportsOK
  <2>1. \A c \in Callers : ~Importing(c)
    BY <1>2, WaitingTyped DEF Importing, Askers
  <2> QED BY <2>1 DEF ImportsOK, DiscInit
<1>5. RulesOK /\ ImportsCounted
  BY DEF RulesOK, ImportsCounted, DiscInit
<1> QED BY <1>1, <1>3, <1>4, <1>5 DEF DiscInv

\* Asker c goes on to r, which imports nothing; no board is added.
LEMMA DiscMoves ==
  ASSUME DiscInv, NEW c \in Askers, NEW r \in AskType, r.at # "import", VersionsOK(r), Moves(c, r),
         discResult'.ver \in Nat, discResult'.hosts \in SUBSET Neighbours
  PROVE  DiscInv'
<1>1. ask'[c] = r /\ \A d \in Askers \ {c} : ask'[d] = ask[d]
  BY DEF Moves, DiscInv, DiscTyped
<1>0. UNCHANGED <<rules, rulesFile, saving, unsaved, boardsOf, imported, overlap>>
  BY DEF Moves, rulesVars, boardVars
<1>2. DiscTyped' /\ RulesOK' /\ ImportsCounted' /\ rules' = rules
  BY <1>0 DEF Moves, DiscInv, DiscTyped, RulesOK, ImportsCounted
<1>3. ASSUME NEW d \in Askers PROVE VersionsOK(ask[d])'
  <2>1. CASE d = c
    BY <1>1, <1>2, <2>1 DEF VersionsOK
  <2>2. CASE d # c
    <3>1. ask'[d] = ask[d] /\ VersionsOK(ask[d])
      BY <1>1, <2>2 DEF DiscInv
    <3> QED BY <1>2, <3>1 DEF VersionsOK
  <2> QED BY <2>1, <2>2
<1>4. ImportsOK'
  <2>1. \A d \in Callers : Importing(d)' => Importing(d) /\ ask'[d] = ask[d]
    BY <1>1 DEF Importing, Askers
  <2> QED BY <1>0, <2>1 DEF DiscInv, ImportsOK
<1> QED BY <1>2, <1>3, <1>4 DEF DiscInv

\* The devices that the cache hands to the search are texts, of which it
\* takes none.
LEMMA NeighboursOnly ==
  ASSUME NEW devices \in SUBSET Plain, NEW hide
  PROVE  DiscoverSsh(devices, hide) \in SUBSET Neighbours
<1>1. {x \in devices : x.dict /\ x.type = "ssh"} = {}
  <2>1. \A x \in devices : x.type = ""
    BY DEF Plain
  <2> QED BY <2>1
<1> QED BY <1>1 DEF DiscoverSsh, SshCandidates

\* The table of neighbours is read.
LEMMA DiscReads ==
  ASSUME DiscInv, NEW c \in Askers, RefreshReads(c)
  PROVE  DiscInv'
<1> DEFINE s == SshHosts
           r == [ask[c] EXCEPT !.at = "probe", !.ver = rules.ver, !.hide = rules.hide, !.devices = s]
<1>1. s \in SUBSET Plain
  <2> SUFFICES ASSUME NEW x \in SshHosts PROVE x \in Plain
    OBVIOUS
  <2>1. PICK h \in Addresses : x = [dict |-> FALSE, type |-> "", host |-> h]
    BY DEF SshHosts
  <2> QED BY <2>1 DEF Plain
<1> HIDE DEF s
<1>2. ask[c] \in AskType /\ rules.ver \in Nat /\ rules.hide \in SUBSET Addresses /\ VersionsOK(ask[c])
  BY DEF DiscInv, DiscTyped, RulesType
<1>3. r \in AskType
  BY <1>1, <1>2 DEF AskType, AskPlaces
<1>4. r.at = "probe" /\ r.ver = rules.ver /\ r.floor = ask[c].floor
  BY <1>2 DEF AskType
<1>5. Moves(c, r) /\ UNCHANGED discResult
  BY Zenon DEF RefreshReads, s
<1> HIDE DEF r
<1>6. VersionsOK(r)
  BY <1>2, <1>4 DEF VersionsOK
<1> QED BY <1>3, <1>4, <1>5, <1>6, DiscMoves DEF DiscInv, DiscTyped

\* What an asker is answered with.
Answer(got, by, floor) == [Waiting EXCEPT !.at = "done", !.got = got, !.by = by, !.floor = floor]

\* An answer.
LEMMA AnswerTyped ==
  ASSUME NEW got \in SUBSET Neighbours, NEW by \in Nat, NEW floor \in Nat
  PROVE  /\ Answer(got, by, floor) \in AskType /\ Answer(got, by, floor).at = "done"
         /\ Answer(got, by, floor).by = by /\ Answer(got, by, floor).floor = floor
  BY WaitingTyped DEF Answer, AskType, AskPlaces

\* A request for neighbours, from the cache or with a refresh.
LEMMA DiscAsks ==
  ASSUME DiscInv, NEW c \in Callers, AskForce(c) \/ AskCached(c)
  PROVE  DiscInv'
<1>0. /\ rules.ver \in Nat /\ discResult.ver \in Nat /\ discResult.hosts \in SUBSET Neighbours
      /\ UNCHANGED discResult /\ c \in Askers
  BY DEF DiscInv, DiscTyped, RulesType, AskForce, AskCached, Askers
<1>1. CASE Moves(c, [Waiting EXCEPT !.at = "refresh", !.floor = rules.ver])
  <2> DEFINE r == [Waiting EXCEPT !.at = "refresh", !.floor = rules.ver]
  <2>1. r \in AskType /\ r.at = "refresh" /\ r.floor = rules.ver
    BY <1>0, WaitingTyped DEF AskType, AskPlaces
  <2>2. Moves(c, r)
    BY <1>1
  <2> HIDE DEF r
  <2>3. VersionsOK(r)
    BY <1>0, <2>1 DEF VersionsOK
  <2> QED BY <1>0, <2>1, <2>2, <2>3, DiscMoves
<1>2. CASE Moves(c, [Waiting EXCEPT !.at = "refresh"])
  <2> DEFINE r == [Waiting EXCEPT !.at = "refresh"]
  <2>1. r \in AskType /\ r.at = "refresh" /\ r.floor = 0
    BY <1>0, WaitingTyped DEF AskType, AskPlaces
  <2>2. Moves(c, r)
    BY <1>2
  <2> HIDE DEF r
  <2>3. VersionsOK(r)
    BY <1>0, <2>1 DEF VersionsOK
  <2> QED BY <1>0, <2>1, <2>2, <2>3, DiscMoves
<1>3. CASE Moves(c, [Waiting EXCEPT !.at = "done", !.got = discResult.hosts, !.by = discResult.ver])
  <2> DEFINE r == [Waiting EXCEPT !.at = "done", !.got = discResult.hosts, !.by = discResult.ver]
  <2>1. r \in AskType /\ r.at = "done" /\ r.floor = 0 /\ r.by = discResult.ver
    BY <1>0, WaitingTyped DEF AskType, AskPlaces
  <2>2. Moves(c, r)
    BY <1>3
  <2> HIDE DEF r
  <2>3. VersionsOK(r)
    BY <1>0, <2>1 DEF VersionsOK
  <2> QED BY <1>0, <2>1, <2>2, <2>3, DiscMoves
<1> QED BY <1>1, <1>2, <1>3 DEF AskForce, AskCached

\* A refresh stores what it found.
LEMMA DiscStores ==
  ASSUME DiscInv, NEW c \in Askers, RefreshStores(c)
  PROVE  DiscInv'
<1> DEFINE found == DiscoverSsh(ask[c].devices, ask[c].hide)
           saved == {d.host : d \in ask[c].devices}
           got == discResult'.hosts
           by == discResult'.ver
           answer(f) == Answer(got, by, f)
<1>0. /\ ask[c].at = "probe" /\ ask[c].floor \in Nat /\ ask[c].ver \in Nat /\ ask[c].devices \in SUBSET Plain
      /\ ask[c].floor <= ask[c].ver /\ ask[c].floor <= rules.ver /\ rules.ver \in Nat
      /\ discResult.ver \in Nat /\ discResult.hosts \in SUBSET Neighbours
  BY DEF DiscInv, DiscTyped, RulesType, AskType, VersionsOK, RefreshStores
<1>1. found \in SUBSET Neighbours
  BY <1>0, NeighboursOnly
<1> HIDE DEF found
<1>2. /\ \/ /\ discResult' = [ver |-> ask[c].ver, hosts |-> found, saved |-> saved \ ask[c].hide]
            /\ Moves(c, IF c = Loop THEN Waiting ELSE answer(ask[c].floor))
         \/ /\ discResult' = discResult
            /\ Moves(c, [IF c = Loop THEN Waiting
                         ELSE Answer(discResult.hosts, discResult.ver, ask[c].floor)
                         EXCEPT !.floor = 0])
  BY Zenon DEF RefreshStores, found, Answer
<1>3. CASE /\ discResult' = [ver |-> ask[c].ver, hosts |-> found, saved |-> saved \ ask[c].hide]
           /\ Moves(c, IF c = Loop THEN Waiting ELSE answer(ask[c].floor))
  <2>1. by = ask[c].ver /\ got = found
    BY <1>3
  <2> HIDE DEF by, got
  <2>2. by \in Nat /\ got \in SUBSET Neighbours
    BY <1>0, <1>1, <2>1
  <2> DEFINE r == IF c = Loop THEN Waiting ELSE answer(ask[c].floor)
  <2>3. r \in AskType /\ r.at # "import" /\ VersionsOK(r)
    <3>1. CASE c = Loop
      BY <1>0, <3>1, WaitingTyped DEF VersionsOK
    <3>2. CASE c # Loop
      <4>1. /\ answer(ask[c].floor) \in AskType /\ answer(ask[c].floor).at = "done"
            /\ answer(ask[c].floor).by = by /\ answer(ask[c].floor).floor = ask[c].floor
        BY <1>0, <2>2, AnswerTyped
      <4> HIDE DEF answer
      <4> QED BY <1>0, <2>1, <3>2, <4>1 DEF VersionsOK
    <3> QED BY <3>1, <3>2
  <2>4. Moves(c, r)
    BY <1>3
  <2> HIDE DEF r
  <2> QED BY <2>2, <2>3, <2>4, DiscMoves DEF by, got
<1>4. CASE /\ discResult' = discResult
           /\ Moves(c, [IF c = Loop THEN Waiting
                        ELSE Answer(discResult.hosts, discResult.ver, ask[c].floor)
                        EXCEPT !.floor = 0])
  <2> DEFINE a == Answer(discResult.hosts, discResult.ver, ask[c].floor)
             b == IF c = Loop THEN Waiting ELSE a
             r == [b EXCEPT !.floor = 0]
  <2>1. a \in AskType /\ a.at = "done"
    BY <1>0, AnswerTyped
  <2> HIDE DEF a
  <2>2. b \in AskType /\ b.at # "import" /\ b.at # "probe"
    BY <2>1, WaitingTyped
  <2>3. Moves(c, r)
    BY <1>4 DEF a
  <2> HIDE DEF b
  <2>4. r \in AskType /\ r.at = b.at /\ r.floor = 0 /\ r.by \in Nat
    BY <2>2 DEF AskType
  <2> HIDE DEF r
  <2>5. VersionsOK(r)
    BY <1>0, <2>2, <2>4 DEF VersionsOK
  <2> QED BY <1>0, <1>4, <2>2, <2>3, <2>4, <2>5, DiscMoves
<1> QED BY <1>2, <1>3, <1>4

\* The background loop wakes up.
LEMMA DiscLoop ==
  ASSUME DiscInv, LoopWakes
  PROVE  DiscInv'
<1> DEFINE r == [Waiting EXCEPT !.at = "refresh"]
<1>1. r \in AskType /\ r.at = "refresh" /\ r.floor = 0
  BY WaitingTyped DEF AskType, AskPlaces
<1>2. Moves(Loop, r) /\ UNCHANGED discResult /\ Loop \in Askers
  BY DEF LoopWakes, Askers
<1>3. rules.ver \in Nat /\ discResult'.ver \in Nat /\ discResult'.hosts \in SUBSET Neighbours
  BY <1>2 DEF DiscInv, DiscTyped, RulesType
<1> HIDE DEF r
<1>4. VersionsOK(r)
  BY <1>1, <1>3 DEF VersionsOK
<1> QED BY <1>1, <1>2, <1>3, <1>4, DiscMoves

\* The rules are replaced in memory.
LEMMA DiscRules ==
  ASSUME DiscInv, SetRules
  PROVE  DiscInv'
<1>1. PICK hide \in SUBSET Neighbours : rules' = [ver |-> rules.ver + 1, hide |-> hide]
  BY DEF SetRules
<1>2. rules.ver \in Nat /\ hide \in SUBSET Addresses
  BY DiscoveryAssumption DEF DiscInv, DiscTyped, RulesType
<1>3. rules' \in RulesType /\ rules'.ver = rules.ver + 1
  BY <1>1, <1>2 DEF RulesType
<1>4. UNCHANGED <<rulesFile, discResult, boardsOf, imported, ask, overlap>> /\ saving' = TRUE
  BY DEF SetRules, boardVars
<1>5. ASSUME NEW c \in Askers PROVE VersionsOK(ask[c])'
  <2>1. VersionsOK(ask[c]) /\ ask[c].floor \in Nat
    BY DEF DiscInv, DiscTyped, AskType
  <2> QED BY <1>2, <1>3, <1>4, <2>1 DEF VersionsOK
<1>6. ImportsOK' /\ DiscTyped' /\ RulesOK' /\ ImportsCounted'
  BY <1>3, <1>4 DEF DiscInv, ImportsOK, Importing, DiscTyped, RulesOK, ImportsCounted
<1> QED BY <1>5, <1>6 DEF DiscInv

\* They are saved, or saving raises.
LEMMA DiscSaves ==
  ASSUME DiscInv, SaveRules
  PROVE  DiscInv'
<1>1. UNCHANGED <<rules, discResult, boardsOf, imported, ask, overlap>>
  BY DEF SaveRules, boardVars
<1>2. \/ rulesFile' = rules
      \/ unsaved' = TRUE /\ rulesFile' = rulesFile
  BY DEF SaveRules
<1>3. DiscTyped' /\ RulesOK' /\ ImportsCounted'
  BY <1>1, <1>2 DEF DiscInv, DiscTyped, RulesOK, ImportsCounted
<1>4. ImportsOK' /\ \A c \in Askers : VersionsOK(ask[c])'
  BY <1>1 DEF DiscInv, ImportsOK, Importing, VersionsOK
<1> QED BY <1>3, <1>4 DEF DiscInv

\* The process starts again from the file; nobody asks.
LEMMA DiscRestart ==
  ASSUME DiscInv, RestartPortal
  PROVE  DiscInv'
<1>1. /\ rules' = rulesFile /\ ask' = [c \in Askers |-> Waiting]
      /\ discResult' = [ver |-> rulesFile.ver, hosts |-> Neighbours \ rulesFile.hide, saved |-> {}]
      /\ UNCHANGED <<rulesFile, boardsOf, imported, overlap>>
  BY DEF RestartPortal, boardVars, Askers
<1>2. rulesFile \in RulesType /\ rulesFile.ver \in Nat
  BY DEF DiscInv, DiscTyped, RulesType
<1>3. \A c \in Askers : ask'[c] = Waiting
  BY <1>1
<1>4. DiscTyped'
  BY <1>1, <1>2, WaitingTyped DEF DiscInv, DiscTyped
<1>5. \A c \in Askers : VersionsOK(ask[c])'
  BY <1>1, <1>2, <1>3, WaitingTyped DEF VersionsOK
<1>6. ImportsOK'
  <2>1. \A c \in Callers : ~Importing(c)'
    BY <1>3, WaitingTyped DEF Importing, Askers
  <2> QED BY <1>1, <2>1 DEF DiscInv, ImportsOK
<1> QED BY <1>1, <1>4, <1>5, <1>6 DEF DiscInv, RulesOK, ImportsCounted

\* A step that neither asks, stores nor adds anything.
LEMMA DiscStop ==
  ASSUME DiscInv, UNCHANGED <<rulesVars, discResult, boardVars, ask>>
  PROVE  DiscInv'
  BY DEF DiscInv, DiscTyped, RulesOK, VersionsOK, ImportsOK, ImportsCounted, Importing, rulesVars, boardVars

\* A board is added by hand.
LEMMA DiscAdd ==
  ASSUME DiscInv, AddBoard
  PROVE  DiscInv'
<1>1. PICK h \in Addresses : boardsOf' = [boardsOf EXCEPT ![h] = @ + 1]
  BY DEF AddBoard
<1>2. /\ boardsOf' \in [Addresses -> Nat] /\ \A g \in Addresses : boardsOf[g] \in Nat /\ imported[g] \in Nat
      /\ boardsOf'[h] = boardsOf[h] + 1 /\ \A g \in Addresses \ {h} : boardsOf'[g] = boardsOf[g]
  BY <1>1 DEF DiscInv, DiscTyped
<1>3. UNCHANGED <<rules, rulesFile, saving, unsaved, discResult, imported, overlap, ask>>
  BY DEF AddBoard, rulesVars
<1>4. DiscTyped' /\ RulesOK' /\ ImportsOK' /\ \A c \in Askers : VersionsOK(ask[c])'
  BY <1>2, <1>3 DEF DiscInv, DiscTyped, RulesOK, ImportsOK, Importing, VersionsOK
<1>5. ImportsCounted'
  BY <1>2, <1>3 DEF DiscInv, ImportsCounted
<1> QED BY <1>4, <1>5 DEF DiscInv

\* Asker c becomes r, or goes on importing as r: what is left to show.
LEMMA DiscImporting ==
  ASSUME DiscInv, NEW c \in Callers, NEW r \in AskType, r.at = "import", r.floor <= rules.ver,
         ask' = [ask EXCEPT ![c] = r],
         boardsOf' \in [Addresses -> Nat], imported' \in [Addresses -> Nat],
         UNCHANGED <<rulesVars, discResult>>, ImportsCounted', ImportsOK'
  PROVE  DiscInv'
<1>0. c \in Askers
  BY DEF Askers
<1>1. ask'[c] = r /\ \A d \in Askers \ {c} : ask'[d] = ask[d]
  BY <1>0 DEF DiscInv, DiscTyped
<1>4. UNCHANGED <<rules, rulesFile, saving, unsaved>>
  BY DEF rulesVars
<1>2. DiscTyped' /\ RulesOK'
  BY <1>0, <1>4 DEF DiscInv, DiscTyped, RulesOK
<1>3. ASSUME NEW d \in Askers PROVE VersionsOK(ask[d])'
  <2>1. CASE d = c
    BY <1>1, <1>4, <2>1 DEF VersionsOK
  <2>2. CASE d # c
    <3>1. ask'[d] = ask[d] /\ VersionsOK(ask[d])
      BY <1>1, <2>2 DEF DiscInv
    <3> QED BY <1>4, <3>1 DEF VersionsOK
  <2> QED BY <2>1, <2>2
<1> QED BY <1>2, <1>3 DEF DiscInv

\* An import begins.
LEMMA DiscImportStarts ==
  ASSUME DiscInv, NEW c \in Callers, ImportStarts(c)
  PROVE  DiscInv'
<1> DEFINE k == {h \in Addresses : boardsOf[h] > 0}
<1>1. PICK a, b \in ask[c].got :
        ask' = [ask EXCEPT ![c] = [Waiting EXCEPT !.at = "import", !.items = <<a, b>>, !.known = k]]
  BY Zenon DEF ImportStarts
<1>2. /\ ask[c].at = "done" /\ UNCHANGED <<rulesVars, discResult, boardsOf, imported>>
      /\ overlap' = (overlap \/ \E d \in Callers : Importing(d))
  BY Zenon DEF ImportStarts
<1>3. k \in SUBSET Addresses /\ c \in Askers
  BY DEF Askers
<1>4. a \in Neighbours /\ b \in Neighbours /\ rules.ver \in Nat
  BY <1>3 DEF DiscInv, DiscTyped, RulesType, AskType
<1> DEFINE s == <<a, b>>
           r == [Waiting EXCEPT !.at = "import", !.items = s, !.known = k]
<1>5. s \in Seq(Neighbours)
  BY <1>4
<1>6. ask' = [ask EXCEPT ![c] = r]
  BY <1>1
<1>7. \A h \in Neighbours : imported[h] > 0 => h \in k
  BY DiscoveryAssumption DEF DiscInv, DiscTyped, ImportsCounted
<1> HIDE DEF s, k
<1>8. r \in AskType /\ r.at = "import" /\ r.floor = 0 /\ r.known = k
  BY <1>3, <1>5, WaitingTyped DEF AskType, AskPlaces
<1> HIDE DEF r
<1>9. ask'[c] = r /\ \A d \in Callers \ {c} : ask'[d] = ask[d]
  BY <1>3, <1>6 DEF DiscInv, DiscTyped, Askers
<1>10. ImportsOK'
  <2> SUFFICES ASSUME ~overlap'
               PROVE  /\ \A d, e \in Callers : Importing(d)' /\ Importing(e)' => d = e
                      /\ \A d \in Callers : Importing(d)' =>
                           \A h \in Neighbours : imported'[h] > 0 => h \in ask'[d].known
                      /\ \A h \in Addresses : imported'[h] <= 1
    BY DEF ImportsOK
  <2>1. ~overlap /\ \A d \in Callers : ~Importing(d)
    BY <1>2, Zenon
  <2>2. \A d \in Callers : Importing(d)' => d = c
    BY <1>9, <2>1 DEF Importing
  <2>3. \A h \in Addresses : imported[h] <= 1
    BY <2>1 DEF DiscInv, ImportsOK
  <2> QED BY <1>2, <1>7, <1>8, <1>9, <2>2, <2>3
<1>11. /\ boardsOf' \in [Addresses -> Nat] /\ imported' \in [Addresses -> Nat] /\ ImportsCounted'
       /\ r.floor <= rules.ver
  BY <1>2, <1>4, <1>8 DEF DiscInv, DiscTyped, ImportsCounted
<1> QED BY <1>2, <1>6, <1>8, <1>10, <1>11, DiscImporting

\* An import adds a board, or leaves one out.
LEMMA DiscImportItem ==
  ASSUME DiscInv, NEW c \in Callers, ImportItem(c)
  PROVE  DiscInv'
<1> DEFINE h == Head(ask[c].items)
           t == Tail(ask[c].items)
<1>0. /\ ask[c] \in AskType /\ Importing(c) /\ ask[c].at = "import" /\ ask[c].items # <<>> /\ c \in Askers
      /\ UNCHANGED <<rulesVars, discResult, overlap>> /\ ask[c].floor <= rules.ver
  BY DEF DiscInv, DiscTyped, ImportItem, Importing, Askers, VersionsOK
<1>1. h \in Neighbours /\ t \in Seq(Neighbours) /\ h \in Addresses
  <2>1. ask[c].items \in Seq(Neighbours)
    BY <1>0 DEF AskType
  <2> QED BY <1>0, <2>1, DiscoveryAssumption
<1>2. CASE /\ h \notin ask[c].known /\ boardsOf' = [boardsOf EXCEPT ![h] = @ + 1]
           /\ imported' = [imported EXCEPT ![h] = @ + 1]
           /\ ask' = [ask EXCEPT ![c] = [ask[c] EXCEPT !.items = Tail(@), !.known = @ \cup {h}]]
  <2> DEFINE k == ask[c].known \cup {h}
             r == [ask[c] EXCEPT !.items = t, !.known = k]
  <2>1. ask' = [ask EXCEPT ![c] = r]
    BY <1>2
  <2>2. k \in SUBSET Addresses
    BY <1>0, <1>1 DEF AskType
  <2>3. /\ \A g \in Addresses : imported[g] \in Nat
        /\ imported'[h] = imported[h] + 1 /\ imported' \in [Addresses -> Nat]
        /\ \A g \in Addresses \ {h} : imported'[g] = imported[g]
    BY <1>1, <1>2 DEF DiscInv, DiscTyped
  <2>8. /\ \A g \in Addresses : boardsOf[g] \in Nat
        /\ boardsOf'[h] = boardsOf[h] + 1 /\ boardsOf' \in [Addresses -> Nat]
        /\ \A g \in Addresses \ {h} : boardsOf'[g] = boardsOf[g]
    BY <1>1, <1>2 DEF DiscInv, DiscTyped
  <2>4. ask[c].known \subseteq k /\ h \in k
    OBVIOUS
  <2> HIDE DEF k, t, h
  <2>5. r \in AskType /\ r.at = "import" /\ r.floor = ask[c].floor /\ r.known = k
    BY <1>0, <1>1, <2>2 DEF AskType
  <2> HIDE DEF r
  <2>6. ask'[c] = r /\ \A d \in Callers \ {c} : ask'[d] = ask[d]
    BY <1>0, <2>1 DEF DiscInv, DiscTyped, Askers
  <2>7. ImportsOK'
    <3> SUFFICES ASSUME ~overlap
                 PROVE  /\ \A d, e \in Callers : Importing(d)' /\ Importing(e)' => d = e
                        /\ \A d \in Callers : Importing(d)' =>
                             \A g \in Neighbours : imported'[g] > 0 => g \in ask'[d].known
                        /\ \A g \in Addresses : imported'[g] <= 1
      BY <1>0 DEF ImportsOK
    <3>1. \A d \in Callers : Importing(d)' => d = c
      BY <1>0, <2>6 DEF Importing, DiscInv, ImportsOK
    <3>2. /\ \A g \in Neighbours : imported[g] > 0 => g \in ask[c].known
          /\ \A g \in Addresses : imported[g] <= 1
      BY <1>0 DEF DiscInv, ImportsOK
    <3>3. imported[h] = 0
      BY <1>1, <1>2, <2>3, <3>2 DEF h
    <3>4. \A g \in Addresses : imported'[g] <= 1
      BY <2>3, <3>2, <3>3
    <3>5. \A g \in Neighbours : imported'[g] > 0 => g \in k
      BY <2>3, <2>4, <3>2, DiscoveryAssumption
    <3> QED BY <2>5, <2>6, <3>1, <3>4, <3>5
  <2>9. ImportsCounted'
    BY <2>3, <2>8 DEF DiscInv, ImportsCounted
  <2> QED BY <1>0, <2>1, <2>3, <2>5, <2>7, <2>8, <2>9, DiscImporting
<1>3. CASE ask' = [ask EXCEPT ![c] = [ask[c] EXCEPT !.items = Tail(@)]] /\ UNCHANGED <<boardsOf, imported>>
  <2> DEFINE r == [ask[c] EXCEPT !.items = t]
  <2>1. ask' = [ask EXCEPT ![c] = r]
    BY <1>3
  <2> HIDE DEF t
  <2>2. r \in AskType /\ r.at = "import" /\ r.floor = ask[c].floor /\ r.known = ask[c].known
    BY <1>0, <1>1 DEF AskType
  <2> HIDE DEF r
  <2>3. ask'[c] = r /\ \A d \in Callers \ {c} : ask'[d] = ask[d]
    BY <1>0, <2>1 DEF DiscInv, DiscTyped, Askers
  <2>4. \A d \in Callers : (Importing(d)' <=> Importing(d)) /\ ask'[d].known = ask[d].known
    BY <1>0, <2>2, <2>3 DEF Importing
  <2>5. ImportsOK' /\ ImportsCounted' /\ boardsOf' \in [Addresses -> Nat] /\ imported' \in [Addresses -> Nat]
    BY <1>0, <1>3, <2>4 DEF DiscInv, DiscTyped, ImportsOK, ImportsCounted
  <2> QED BY <1>0, <2>1, <2>2, <2>5, DiscImporting
<1> QED BY <1>2, <1>3 DEF ImportItem

\* An import is over.
LEMMA DiscImportEnds ==
  ASSUME DiscInv, NEW c \in Callers, ImportEnds(c)
  PROVE  DiscInv'
<1> DEFINE r == [Waiting EXCEPT !.at = "over"]
<1>1. r \in AskType /\ r.at = "over" /\ r.floor = 0
  BY WaitingTyped DEF AskType, AskPlaces
<1>2. Moves(c, r) /\ UNCHANGED discResult /\ c \in Askers
  BY DEF ImportEnds, Askers
<1>3. rules.ver \in Nat /\ discResult'.ver \in Nat /\ discResult'.hosts \in SUBSET Neighbours
  BY <1>2 DEF DiscInv, DiscTyped, RulesType
<1> HIDE DEF r
<1>4. VersionsOK(r)
  BY <1>1, <1>3 DEF VersionsOK
<1> QED BY <1>1, <1>2, <1>3, <1>4, DiscMoves

\* Every step keeps the invariant.
LEMMA DiscNextKeeps == DiscInv /\ [DiscNext]_discVars => DiscInv'
<1> SUFFICES ASSUME DiscInv, [DiscNext]_discVars PROVE DiscInv'
  OBVIOUS
<1>1. CASE UNCHANGED discVars
  BY <1>1, DiscStop DEF discVars
<1>2. CASE SetRules \/ SaveRules \/ RestartPortal
  BY <1>2, DiscRules, DiscSaves, DiscRestart
<1>5. CASE LoopWakes \/ StopDiscovery \/ AddBoard
  BY <1>5, DiscLoop, DiscStop, DiscAdd DEF StopDiscovery
<1>3. ASSUME NEW c \in Askers, Refresh(c) PROVE DiscInv'
  BY <1>3, DiscReads, DiscStores DEF Refresh
<1>4. ASSUME NEW c \in Callers, \/ AskForce(c) \/ AskCached(c)
                                \/ ImportStarts(c) \/ ImportItem(c) \/ ImportEnds(c)
      PROVE  DiscInv'
  BY <1>4, DiscAsks, DiscImportStarts, DiscImportItem, DiscImportEnds
<1> QED BY <1>1, <1>2, <1>3, <1>4, <1>5 DEF DiscNext, Askers

\* For any set of addresses, any number of requests and however the refreshes
\* overlap: a request that insists on a search is answered by the rules that
\* were in force when it came, or by later ones, unless its search failed; the
\* rules in force are on disk except while they are being saved and after a
\* save that failed, whenever the process dies; and imports that do not overlap
\* make at most one board of an address, boards added by hand meanwhile or not
\* (portal.py:121-147, 181-204, 207-258).
THEOREM DiscoveryAlwaysConsistent == DiscSpec => []DiscoveryConsistent
<1>1. DiscInit /\ [][DiscNext]_discVars => []DiscInv
  BY DiscInitOK, DiscNextKeeps, PTL
<1>2. DiscSpec => DiscInit /\ [][DiscNext]_discVars
  BY DEF DiscSpec
<1> QED BY <1>1, <1>2, DiscImplies, PTL

-----------------------------------------------------------------------------
(***************************************************************************)
(* The audit recorder (AuditRecorder).  The count is that of the events on *)
(* their way, and the queue holds some of them; the file has a line        *)
(* without its end only where a write is under way.                        *)
(***************************************************************************)

\* The events that close() has to wait for.
Flying == {e \in Events : stage[e] \in InFlight}

FileLines == [event : Events, whole : BOOLEAN]

\* The shard f has a line of event e that can be parsed.
ReadableIn(f, e) ==
  \E i \in 1 .. Len(f) : f[i].whole /\ (i = 1 \/ f[i - 1].whole) /\ f[i].event = e

AuditTyped ==
  /\ stage \in [Events -> Stages]
  /\ result \in [Events -> {"none", "true", "false"}]
  /\ writer \in Events \cup {None, Dead}
  /\ writeLock \in Events \cup {None}
  /\ unpersisted \in Nat
  /\ closing \in Closings

AuditFlags == accepting \in BOOLEAN /\ stop \in BOOLEAN /\ begun \in BOOLEAN

AuditRing == ring \in Seq(Events) /\ Len(ring) <= MaxRing

\* An event is in the queue at most once, and still to be taken.
AuditQueue ==
  /\ queue \in Seq(Events) /\ Len(queue) <= QueueSize
  /\ \A i \in 1 .. Len(queue) : stage[queue[i]] = "queued"
  /\ \A i, j \in 1 .. Len(queue) : queue[i] = queue[j] => i = j

AuditPending == IsFiniteSet(Flying) /\ pending = Cardinality(Flying)

\* What close() has seen stays so: once nothing is pending and nothing more is
\* accepted, no event is on its way.
AuditClose ==
  /\ closing # "open" => ~accepting
  /\ stop => ~accepting /\ Flying = {}
  /\ closing = "joining" => stop
  /\ closing = "clean" => stop /\ writer = Dead /\ unpersisted = 0

AuditLock == writeLock # None => stage[writeLock] \in {"taken", "overflow"}

\* The shard f ends with the head of a line.
EndsInHead(f) == Len(f) > 0 /\ ~f[Len(f)].whole

\* Only the write under way has the head of a line, at the end of its shard.
AuditFile ==
  /\ today \in Days /\ day \in [Events -> Days]
  /\ file \in [Days -> Seq(FileLines)]
  /\ begun => writeLock # None /\ EndsInHead(file[day[writeLock]])

\* Unless writes tear, there is no other, and an event whose write is over is
\* on disk or counted as unpersisted.
AuditDisk ==
  /\ \A d \in Days : \A i \in 1 .. Len(file[d]) :
        file[d][i].whole \/ (begun /\ d = day[writeLock] /\ i = Len(file[d]))
  /\ \A e \in Events : stage[e] \in {"settled", "finished"} =>
        ReadableIn(file[day[e]], e) \/ (result[e] = "false" /\ unpersisted > 0)

\* The inductive invariant.
AuditInv ==
  /\ AuditTyped /\ AuditFlags /\ AuditRing /\ AuditQueue /\ AuditPending
  /\ AuditClose /\ AuditLock /\ AuditFile /\ (~MayTear => AuditDisk)

\* One event moves.
Becomes(e, s) == stage' = [stage EXCEPT ![e] = s]

-----------------------------------------------------------------------------
\* An event can be read back from its shard, and from the next one.
LEMMA ReadableFact ==
  ASSUME AuditFile, day' = day, file' \in [Days -> Seq(FileLines)], NEW e \in Events
  PROVE  (OnDisk(e) <=> ReadableIn(file[day[e]], e)) /\ (OnDisk(e)' <=> ReadableIn(file'[day[e]], e))
<1>1. day[e] \in Days /\ file[day[e]] \in Seq(FileLines) /\ file'[day[e]] \in Seq(FileLines)
  BY DEF AuditFile
<1>2. DOMAIN file[day[e]] = 1 .. Len(file[day[e]]) /\ DOMAIN file'[day[e]] = 1 .. Len(file'[day[e]])
  BY <1>1
<1>3. QED BY <1>2 DEF OnDisk, Parses, ReadableIn

\* What can be read back from a shard can be read back from one that keeps all
\* of it but lines that have no end.
LEMMA ReadableStays ==
  ASSUME NEW f \in Seq(FileLines), NEW g \in Seq(FileLines), NEW n \in Nat,
         n <= Len(f), n <= Len(g), \A i \in 1 .. n : g[i] = f[i],
         \A i \in n + 1 .. Len(f) : ~f[i].whole,
         NEW e, ReadableIn(f, e)
  PROVE  ReadableIn(g, e)
<1>1. PICK i \in 1 .. Len(f) : f[i].whole /\ (i = 1 \/ f[i - 1].whole) /\ f[i].event = e
  BY DEF ReadableIn
<1>2. Len(f) \in Nat /\ Len(g) \in Nat /\ i \in Nat
  OBVIOUS
<1>3. i \in 1 .. n
  BY <1>1, <1>2
<1>4. i \in 1 .. Len(g) /\ g[i] = f[i] /\ (i # 1 => g[i - 1] = f[i - 1])
  BY <1>2, <1>3
<1>5. QED BY <1>1, <1>4 DEF ReadableIn

\* The count follows an event that enters the recorder, moves in it or leaves it.
LEMMA PendingFollows ==
  ASSUME AuditTyped, AuditPending, NEW e \in Events, NEW s \in Stages, Becomes(e, s),
         \/ (stage[e] \in InFlight <=> s \in InFlight) /\ pending' = pending
         \/ stage[e] \notin InFlight /\ s \in InFlight /\ pending' = pending + 1
         \/ stage[e] \in InFlight /\ s \notin InFlight /\ pending' = pending - 1
  PROVE  AuditPending' /\ pending' \in Nat
<1>1. stage \in [Events -> Stages] /\ stage' = [stage EXCEPT ![e] = s]
  BY DEF AuditTyped, Becomes
<1>2. IsFiniteSet(Flying) /\ pending = Cardinality(Flying) /\ pending \in Nat
  BY FS_CardinalityType DEF AuditPending
<1>3. CASE (stage[e] \in InFlight <=> s \in InFlight) /\ pending' = pending
  <2>1. Flying' = Flying
    BY <1>1, <1>3 DEF Flying
  <2>2. QED BY <1>2, <1>3, <2>1 DEF AuditPending
<1>4. CASE stage[e] \notin InFlight /\ s \in InFlight /\ pending' = pending + 1
  <2>1. Flying' = Flying \cup {e} /\ e \notin Flying
    BY <1>1, <1>4 DEF Flying
  <2>2. IsFiniteSet(Flying \cup {e}) /\ Cardinality(Flying \cup {e}) = Cardinality(Flying) + 1
    BY <1>2, <2>1, FS_AddElement
  <2>3. QED BY <1>2, <1>4, <2>1, <2>2 DEF AuditPending
<1>5. CASE stage[e] \in InFlight /\ s \notin InFlight /\ pending' = pending - 1
  <2>1. Flying' = Flying \ {e} /\ e \in Flying
    BY <1>1, <1>5 DEF Flying
  <2>2. IsFiniteSet(Flying \ {e}) /\ Cardinality(Flying \ {e}) = Cardinality(Flying) - 1
    BY <1>2, <2>1, FS_RemoveElement
  <2>3. Cardinality(Flying \ {e}) \in Nat
    BY <2>2, FS_CardinalityType
  <2>4. QED BY <1>2, <1>5, <2>1, <2>2, <2>3 DEF AuditPending
<1>6. QED BY <1>3, <1>4, <1>5

\* Nothing is recorded.
LEMMA AuditInitOK == Init => AuditInv
<1> SUFFICES ASSUME Init PROVE AuditInv
  OBVIOUS
<1>1. AuditTyped
  BY DEF Init, AuditTyped, Stages, Closings
<1>2. AuditFlags
  BY DEF Init, AuditFlags
<1>3. AuditRing
  BY RecorderAssumption DEF Init, AuditRing
<1>4. AuditQueue
  BY RecorderAssumption DEF Init, AuditQueue
<1>5. Flying = {}
  BY DEF Init, Flying, InFlight
<1>6. AuditPending
  BY <1>5, FS_EmptySet DEF Init, AuditPending
<1>7. AuditClose
  BY <1>5 DEF Init, AuditClose
<1>8. AuditLock
  BY DEF Init, AuditLock
<1>9. AuditFile
  <2>1. today \in Days
    BY RecorderAssumption DEF Init, Days
  <2>2. QED BY <2>1 DEF Init, AuditFile
<1>10. AuditDisk
  BY DEF Init, AuditDisk
<1>11. QED BY <1>1, <1>2, <1>3, <1>4, <1>6, <1>7, <1>8, <1>9, <1>10 DEF AuditInv

-----------------------------------------------------------------------------
\* The part of the invariant that a step of the file's readers and writers
\* leaves alone when an event that is not at its write moves.
LEMMA AuditMoves ==
  ASSUME AuditInv, NEW e \in Events, NEW s \in Stages, Becomes(e, s),
         stage[e] \notin {"taken", "overflow"},
         s \in {"settled", "finished"} => stage[e] \in {"settled", "finished"},
         result' \in [Events -> {"none", "true", "false"}],
         \A d \in Events \ {e} : result'[d] = result[d],
         s \in {"settled", "finished"} => result'[e] = result[e],
         UNCHANGED <<writeLock, begun, file, unpersisted, today, day>>
  PROVE  AuditLock' /\ AuditFile' /\ (~MayTear => AuditDisk')
<1>1. stage \in [Events -> Stages] /\ stage' = [stage EXCEPT ![e] = s]
  BY DEF AuditInv, AuditTyped, Becomes
<1>2. AuditLock'
  BY <1>1 DEF AuditInv, AuditLock, AuditTyped
<1>3. AuditFile'
  BY DEF AuditInv, AuditFile
<1>4. ASSUME ~MayTear PROVE AuditDisk'
  <2>1. AuditDisk
    BY <1>4 DEF AuditInv
  <2>2. \A d \in Days : \A i \in 1 .. Len(file'[d]) :
           file'[d][i].whole \/ (begun' /\ d = day'[writeLock'] /\ i = Len(file'[d]))
    BY <2>1 DEF AuditDisk
  <2>3. ASSUME NEW d \in Events, stage'[d] \in {"settled", "finished"}
        PROVE  ReadableIn(file'[day'[d]], d) \/ (result'[d] = "false" /\ unpersisted' > 0)
    <3>1. stage[d] \in {"settled", "finished"} /\ result'[d] = result[d]
      BY <1>1, <2>3
    <3>2. ReadableIn(file[day[d]], d) \/ (result[d] = "false" /\ unpersisted > 0)
      BY <2>1, <3>1 DEF AuditDisk
    <3>3. QED BY <3>1, <3>2
  <2>4. QED BY <2>2, <2>3 DEF AuditDisk
<1>5. QED BY <1>2, <1>3, <1>4

\* The queue when an event that is not in it moves.
LEMMA QueueStays ==
  ASSUME AuditTyped, AuditQueue, NEW e \in Events, NEW s \in Stages, Becomes(e, s),
         stage[e] # "queued", queue' = queue
  PROVE  AuditQueue'
<1>1. stage \in [Events -> Stages] /\ stage' = [stage EXCEPT ![e] = s]
  BY DEF AuditTyped, Becomes
<1>2. \A i \in 1 .. Len(queue) : stage'[queue[i]] = "queued"
  BY <1>1 DEF AuditQueue
<1>3. QED BY <1>2 DEF AuditQueue

\* What close() relies on when an event moves: none enters while nothing is
\* accepted, and with none on its way nothing else happens.
LEMMA CloseStays ==
  ASSUME AuditTyped, AuditClose, NEW e \in Events, NEW s \in Stages, Becomes(e, s),
         UNCHANGED <<accepting, stop, closing>>,
         s \in InFlight => accepting \/ stage[e] \in InFlight,
         UNCHANGED <<writer, unpersisted>> \/ stage[e] \in InFlight
  PROVE  AuditClose'
<1>1. stage \in [Events -> Stages] /\ stage' = [stage EXCEPT ![e] = s]
  BY DEF AuditTyped, Becomes
<1>2. CASE stop
  <2>1. ~accepting /\ Flying = {}
    BY <1>2 DEF AuditClose
  <2>2. stage[e] \notin InFlight /\ s \notin InFlight
    BY <2>1 DEF Flying
  <2>3. Flying' = {}
    BY <1>1, <2>1, <2>2 DEF Flying
  <2>4. QED BY <1>2, <2>1, <2>2, <2>3 DEF AuditClose
<1>3. CASE ~stop
  BY <1>3 DEF AuditClose
<1>4. QED BY <1>2, <1>3

-----------------------------------------------------------------------------
\* record refuses an event.
LEMMA AuditRefuse ==
  ASSUME AuditInv, NEW e \in Events, Refuse(e)
  PROVE  AuditInv'
<1>1. AuditTyped /\ AuditFlags /\ AuditRing /\ AuditQueue /\ AuditPending /\ AuditClose
  BY DEF AuditInv
<1>2. Becomes(e, "refused") /\ stage[e] = "new" /\ "refused" \in Stages
  BY DEF Refuse, Becomes, Stages
<1>3. "refused" \notin InFlight /\ "new" \notin InFlight
  BY DEF InFlight
<1>4. UNCHANGED <<ring, queue, pending, writer, writeLock, begun, file, failures, unpersisted, today, day,
                  accepting, stop, closing>>
  BY DEF Refuse, writeVars, closeVars, worldVars
<1>5. result' \in [Events -> {"none", "true", "false"}] /\ \A d \in Events \ {e} : result'[d] = result[d]
  BY <1>1 DEF Refuse, AuditTyped
<1>6. AuditTyped'
  BY <1>1, <1>2, <1>4, <1>5 DEF AuditTyped, Becomes
<1>7. AuditFlags' /\ AuditRing'
  BY <1>1, <1>4 DEF AuditFlags, AuditRing
<1>8. AuditQueue'
  BY <1>1, <1>2, <1>4, QueueStays
<1>9. AuditPending'
  BY <1>1, <1>2, <1>3, <1>4, PendingFollows
<1>10. AuditClose'
  BY <1>1, <1>2, <1>3, <1>4, CloseStays
<1>11. AuditLock' /\ AuditFile' /\ (~MayTear => AuditDisk')
  BY <1>2, <1>4, <1>5, AuditMoves
<1>12. QED BY <1>6, <1>7, <1>8, <1>9, <1>10, <1>11 DEF AuditInv

\* record counts an event and puts it into the ring.
LEMMA AuditAccept ==
  ASSUME AuditInv, NEW e \in Events, Accept(e)
  PROVE  AuditInv'
<1>1. AuditTyped /\ AuditFlags /\ AuditRing /\ AuditQueue /\ AuditPending /\ AuditClose
  BY DEF AuditInv
<1>2. Becomes(e, "counted") /\ stage[e] = "new" /\ "counted" \in Stages /\ accepting
  BY DEF Accept, Becomes, Stages
<1>3. "counted" \in InFlight /\ "new" \notin InFlight
  BY DEF InFlight
<1>4. UNCHANGED <<result, queue, writer, writeLock, begun, file, failures, unpersisted, today, day,
                  accepting, stop, closing>> /\ pending' = pending + 1
  BY DEF Accept, writeVars, closeVars, worldVars
<1>5. result' \in [Events -> {"none", "true", "false"}] /\ \A d \in Events \ {e} : result'[d] = result[d]
  BY <1>1, <1>4 DEF AuditTyped
<1>6. AuditTyped'
  BY <1>1, <1>2, <1>4, <1>5 DEF AuditTyped, Becomes
<1>7. AuditFlags'
  BY <1>1, <1>4 DEF AuditFlags
<1>8. AuditRing'
  <2>1. ring \in Seq(Events) /\ Len(ring) \in Nat /\ Len(ring) <= MaxRing /\ MaxRing \in Nat \ {0}
    BY <1>1, RecorderAssumption DEF AuditRing
  <2>2. CASE Len(ring) < MaxRing
    <3>1. ring' = Append(ring, e)
      BY <2>2 DEF Accept
    <3>2. QED BY <2>1, <2>2, <3>1 DEF AuditRing
  <2>3. CASE ~(Len(ring) < MaxRing)
    <3>1. ring' = Append(Tail(ring), e) /\ ring # <<>>
      BY <2>1, <2>3 DEF Accept
    <3>2. Tail(ring) \in Seq(Events) /\ Len(Tail(ring)) = Len(ring) - 1
      BY <2>1, <3>1
    <3>3. QED BY <2>1, <3>1, <3>2 DEF AuditRing
  <2>4. QED BY <2>2, <2>3
<1>9. AuditQueue'
  BY <1>1, <1>2, <1>4, QueueStays
<1>10. AuditPending'
  BY <1>1, <1>2, <1>3, <1>4, PendingFollows
<1>11. AuditClose'
  BY <1>1, <1>2, <1>3, <1>4, CloseStays
<1>12. AuditLock' /\ AuditFile' /\ (~MayTear => AuditDisk')
  BY <1>2, <1>4, <1>5, AuditMoves
<1>13. QED BY <1>6, <1>7, <1>8, <1>9, <1>10, <1>11, <1>12 DEF AuditInv

\* record puts an event into the queue.
LEMMA AuditEnqueue ==
  ASSUME AuditInv, NEW e \in Events, Enqueue(e)
  PROVE  AuditInv'
<1>1. AuditTyped /\ AuditFlags /\ AuditRing /\ AuditQueue /\ AuditPending /\ AuditClose
  BY DEF AuditInv
<1>2. Becomes(e, "queued") /\ stage[e] = "counted" /\ "queued" \in Stages
  BY DEF Enqueue, Becomes, Stages
<1>3. "queued" \in InFlight /\ "counted" \in InFlight
  BY DEF InFlight
<1>4. UNCHANGED <<ring, pending, writer, writeLock, begun, file, failures, unpersisted, today, day,
                  accepting, stop, closing>>
  BY DEF Enqueue, writeVars, closeVars, worldVars
<1>5. result' \in [Events -> {"none", "true", "false"}] /\ \A d \in Events \ {e} : result'[d] = result[d]
  BY <1>1 DEF Enqueue, AuditTyped
<1>6. AuditTyped'
  BY <1>1, <1>2, <1>4, <1>5 DEF AuditTyped, Becomes
<1>7. AuditFlags' /\ AuditRing'
  BY <1>1, <1>4 DEF AuditFlags, AuditRing
<1>8. AuditQueue'
  <2>1. queue \in Seq(Events) /\ Len(queue) \in Nat /\ Len(queue) < QueueSize /\ QueueSize \in Nat
    BY <1>1, RecorderAssumption DEF AuditQueue, Enqueue
  <2>2. queue' = Append(queue, e) /\ stage' = [stage EXCEPT ![e] = "queued"] /\ stage \in [Events -> Stages]
    BY <1>1 DEF Enqueue, AuditTyped
  <2>3. /\ queue' \in Seq(Events) /\ Len(queue') = Len(queue) + 1
        /\ queue'[Len(queue) + 1] = e /\ \A i \in 1 .. Len(queue) : queue'[i] = queue[i]
    BY <2>1, <2>2
  <2>4. \A i \in 1 .. Len(queue) : queue[i] # e /\ queue[i] \in Events /\ stage[queue[i]] = "queued"
    BY <1>1, <1>2, <2>1 DEF AuditQueue
  <2>5. \A i \in 1 .. Len(queue') : i \in 1 .. Len(queue) \/ i = Len(queue) + 1
    BY <2>1, <2>3
  <2>6. \A i \in 1 .. Len(queue') : stage'[queue'[i]] = "queued"
    BY <2>2, <2>3, <2>4, <2>5
  <2>7. \A i, j \in 1 .. Len(queue') : queue'[i] = queue'[j] => i = j
    BY <1>1, <2>3, <2>4, <2>5 DEF AuditQueue
  <2>8. Len(queue') <= QueueSize
    BY <2>1, <2>3
  <2>9. QED BY <2>3, <2>6, <2>7, <2>8 DEF AuditQueue
<1>9. AuditPending'
  BY <1>1, <1>2, <1>3, <1>4, PendingFollows
<1>10. AuditClose'
  BY <1>1, <1>2, <1>3, <1>4, CloseStays
<1>11. AuditLock' /\ AuditFile' /\ (~MayTear => AuditDisk')
  BY <1>2, <1>4, <1>5, AuditMoves
<1>12. QED BY <1>6, <1>7, <1>8, <1>9, <1>10, <1>11 DEF AuditInv

\* record finds the queue full.
LEMMA AuditOverflow ==
  ASSUME AuditInv, NEW e \in Events, Overflow(e)
  PROVE  AuditInv'
<1>1. AuditTyped /\ AuditFlags /\ AuditRing /\ AuditQueue /\ AuditPending /\ AuditClose
  BY DEF AuditInv
<1>2. Becomes(e, "overflow") /\ stage[e] = "counted" /\ "overflow" \in Stages
  BY DEF Overflow, Becomes, Stages
<1>3. "overflow" \in InFlight /\ "counted" \in InFlight
  BY DEF InFlight
<1>4. UNCHANGED <<result, ring, queue, pending, writer, writeLock, begun, file, failures,
                  unpersisted, today, day, accepting, stop, closing>>
  BY DEF Overflow, writeVars, closeVars, worldVars
<1>5. result' \in [Events -> {"none", "true", "false"}] /\ \A d \in Events \ {e} : result'[d] = result[d]
  BY <1>1, <1>4 DEF AuditTyped
<1>6. AuditTyped'
  BY <1>1, <1>2, <1>4, <1>5 DEF AuditTyped, Becomes
<1>7. AuditFlags' /\ AuditRing'
  BY <1>1, <1>4 DEF AuditFlags, AuditRing
<1>8. AuditQueue'
  BY <1>1, <1>2, <1>4, QueueStays
<1>9. AuditPending'
  BY <1>1, <1>2, <1>3, <1>4, PendingFollows
<1>10. AuditClose'
  BY <1>1, <1>2, <1>3, <1>4, CloseStays
<1>11. AuditLock' /\ AuditFile' /\ (~MayTear => AuditDisk')
  BY <1>2, <1>4, <1>5, AuditMoves
<1>12. QED BY <1>6, <1>7, <1>8, <1>9, <1>10, <1>11 DEF AuditInv

\* The writer takes an event from the queue.
LEMMA AuditTake ==
  ASSUME AuditInv, Take
  PROVE  AuditInv'
<1>1. AuditTyped /\ AuditFlags /\ AuditRing /\ AuditQueue /\ AuditPending /\ AuditClose
  BY DEF AuditInv
<1> DEFINE e == Head(queue)
<1>2. queue \in Seq(Events) /\ Len(queue) \in Nat /\ Len(queue) >= 1 /\ queue[1] = e /\ e \in Events
  BY <1>1 DEF Take, AuditQueue
<1>3. Becomes(e, "taken") /\ stage[e] = "queued" /\ "taken" \in Stages
  BY <1>1, <1>2 DEF Take, Becomes, Stages, AuditQueue
<1>4. queue' = Tail(queue) /\ writer' = e
  BY DEF Take
<1> HIDE DEF e
<1>5. "taken" \in InFlight /\ "queued" \in InFlight
  BY DEF InFlight
<1>6. UNCHANGED <<result, ring, pending, writeLock, begun, file, failures,
                  unpersisted, today, day, accepting, stop, closing>>
  BY DEF Take, closeVars, worldVars
<1>7. result' \in [Events -> {"none", "true", "false"}] /\ \A d \in Events \ {e} : result'[d] = result[d]
  BY <1>1, <1>6 DEF AuditTyped
<1>8. AuditTyped'
  BY <1>1, <1>2, <1>3, <1>4, <1>6, <1>7 DEF AuditTyped, Becomes
<1>9. AuditFlags' /\ AuditRing'
  BY <1>1, <1>6 DEF AuditFlags, AuditRing
<1>10. AuditQueue'
  <2>1. /\ queue' \in Seq(Events) /\ Len(queue') = Len(queue) - 1
        /\ \A i \in 1 .. Len(queue') : queue'[i] = queue[i + 1] /\ i + 1 \in 1 .. Len(queue)
    BY <1>2, <1>4
  <2>2. Len(queue') <= QueueSize
    BY <1>1, <1>2, <2>1, RecorderAssumption DEF AuditQueue
  <2>3. \A i \in 1 .. Len(queue') : queue'[i] # e /\ queue'[i] \in Events /\ stage[queue'[i]] = "queued"
    BY <1>1, <1>2, <2>1 DEF AuditQueue
  <2>4. \A i \in 1 .. Len(queue') : stage'[queue'[i]] = "queued"
    BY <1>1, <1>3, <2>3 DEF Becomes, AuditTyped
  <2>5. ASSUME NEW i \in 1 .. Len(queue'), NEW j \in 1 .. Len(queue'), queue'[i] = queue'[j]
        PROVE  i = j
    <3>1. i + 1 \in 1 .. Len(queue) /\ j + 1 \in 1 .. Len(queue) /\ queue[i + 1] = queue[j + 1]
      BY <2>1, <2>5
    <3>2. \A x, y \in 1 .. Len(queue) : queue[x] = queue[y] => x = y
      BY <1>1 DEF AuditQueue
    <3>3. i + 1 = j + 1
      BY <3>1, <3>2, Zenon
    <3>4. QED BY <3>3
  <2>6. QED BY <2>1, <2>2, <2>4, <2>5 DEF AuditQueue
<1>11. AuditPending'
  BY <1>1, <1>2, <1>3, <1>5, <1>6, PendingFollows
<1>12. AuditClose'
  BY <1>1, <1>2, <1>3, <1>5, <1>6, CloseStays
<1>13. AuditLock' /\ AuditFile' /\ (~MayTear => AuditDisk')
  BY <1>2, <1>3, <1>6, <1>7, AuditMoves
<1>14. QED BY <1>8, <1>9, <1>10, <1>11, <1>12, <1>13 DEF AuditInv

\* _finish_pending.
LEMMA AuditFinish ==
  ASSUME AuditInv, NEW e \in Events, FinishPending(e)
  PROVE  AuditInv'
<1>1. AuditTyped /\ AuditFlags /\ AuditRing /\ AuditQueue /\ AuditPending /\ AuditClose
  BY DEF AuditInv
<1>2. Becomes(e, "finished") /\ stage[e] = "settled" /\ "finished" \in Stages
  BY DEF FinishPending, Becomes, Stages
<1>3. "finished" \notin InFlight /\ "settled" \in InFlight
  BY DEF InFlight
<1>4. UNCHANGED <<result, ring, queue, writeLock, begun, file, failures,
                  unpersisted, today, day, accepting, stop, closing>> /\ pending' = pending - 1
  BY DEF FinishPending, closeVars, worldVars
<1>5. result' \in [Events -> {"none", "true", "false"}] /\ \A d \in Events : result'[d] = result[d]
  BY <1>1, <1>4 DEF AuditTyped
<1>6. AuditTyped'
  <2>1. writer' \in Events \cup {None, Dead}
    BY <1>1 DEF AuditTyped, FinishPending
  <2>2. QED BY <1>1, <1>2, <1>4, <1>5, <2>1 DEF AuditTyped, Becomes
<1>7. AuditFlags' /\ AuditRing'
  BY <1>1, <1>4 DEF AuditFlags, AuditRing
<1>8. AuditQueue'
  BY <1>1, <1>2, <1>4, QueueStays
<1>9. AuditPending'
  BY <1>1, <1>2, <1>3, <1>4, PendingFollows
<1>10. AuditClose'
  BY <1>1, <1>2, <1>3, <1>4, CloseStays
<1>11. AuditLock' /\ AuditFile' /\ (~MayTear => AuditDisk')
  BY <1>2, <1>4, <1>5, AuditMoves
<1>12. QED BY <1>6, <1>7, <1>8, <1>9, <1>10, <1>11 DEF AuditInv

-----------------------------------------------------------------------------
\* The shard f with the line of event e completed.
Ended(f, e) == Append(Before(f), [event |-> e, whole |-> TRUE])

\* The n lines before a head of the line stay where they are.
Replaces(f, e, n) ==
  /\ n = (IF begun THEN Len(f) - 1 ELSE Len(f)) /\ n <= Len(f)
  /\ Ended(f, e) \in Seq(FileLines) /\ Len(Ended(f, e)) = n + 1
  /\ \A i \in 1 .. n : Ended(f, e)[i] = f[i]
  /\ Ended(f, e)[n + 1] = [event |-> e, whole |-> TRUE]
  /\ \A i \in n + 1 .. Len(f) : ~f[i].whole

\* A head of the line is replaced, and what was whole before stays where it is.
LEMMA CompletedFact ==
  ASSUME NEW f \in Seq(FileLines), begun \in BOOLEAN, begun => EndsInHead(f), NEW e \in Events
  PROVE  \E n \in Nat : Replaces(f, e, n)
<1>1. f \in Seq(FileLines) /\ Len(f) \in Nat
  OBVIOUS
<1>2. [event |-> e, whole |-> TRUE] \in FileLines
  BY DEF FileLines
<1> DEFINE line == [event |-> e, whole |-> TRUE]
<1>3. CASE begun
  <2>1. Len(f) > 0 /\ ~f[Len(f)].whole
    BY <1>3 DEF EndsInHead
  <2> DEFINE n == Len(f) - 1
  <2> DEFINE head == SubSeq(f, 1, n)
  <2>2. n \in Nat /\ n + 1 = Len(f) /\ n <= Len(f)
    BY <1>1, <2>1
  <2>3. head \in Seq(FileLines) /\ Len(head) = n /\ \A i \in 1 .. n : head[i] = f[i]
    BY <1>1, <2>2
  <2>4. Ended(f, e) = Append(head, line)
    BY <1>3 DEF Ended, Before
  <2>5a. line \in FileLines
    BY <1>2
  <2> HIDE DEF head, line, n
  <2>5. /\ Append(head, line) \in Seq(FileLines) /\ Len(Append(head, line)) = n + 1
        /\ \A i \in 1 .. n : Append(head, line)[i] = head[i]
        /\ Append(head, line)[n + 1] = line
    BY <2>2, <2>3, <2>5a
  <2>6. \A i \in n + 1 .. Len(f) : ~f[i].whole
    BY <2>1, <2>2
  <2>7. QED BY <1>3, <2>2, <2>3, <2>4, <2>5, <2>6 DEF line, n, Replaces
<1>4. CASE ~begun
  <2>1. Ended(f, e) = Append(f, line)
    BY <1>4 DEF Ended, Before
  <2> HIDE DEF line
  <2>2. /\ Append(f, line) \in Seq(FileLines) /\ Len(Append(f, line)) = Len(f) + 1
        /\ \A i \in 1 .. Len(f) : Append(f, line)[i] = f[i]
        /\ Append(f, line)[Len(f) + 1] = line
    BY <1>1, <1>2 DEF line
  <2>3. \A i \in Len(f) + 1 .. Len(f) : ~f[i].whole
    BY <1>1
  <2>4. QED BY <1>1, <1>4, <2>1, <2>2, <2>3 DEF line, Replaces
<1>5. QED BY <1>3, <1>4

\* What can be read back from the shards can be read back from the next ones.
NothingSpoilt ==
  /\ file' \in [Days -> Seq(FileLines)]
  /\ \A d \in Days : \A e : ReadableIn(file[d], e) => ReadableIn(file'[d], e)

\* Nothing is spoilt where one shard changes, if nothing is spoilt in it.
LEMMA OneShard ==
  ASSUME AuditFile, NEW d \in Days, NEW g \in Seq(FileLines), file' = [file EXCEPT ![d] = g],
         \A e : ReadableIn(file[d], e) => ReadableIn(g, e)
  PROVE  NothingSpoilt /\ file'[d] = g /\ \A c \in Days \ {d} : file'[c] = file[c]
<1>1. file \in [Days -> Seq(FileLines)]
  BY DEF AuditFile
<1>2. file' \in [Days -> Seq(FileLines)] /\ file'[d] = g /\ \A c \in Days \ {d} : file'[c] = file[c]
  BY <1>1
<1>3. \A c \in Days : c = d \/ c \in Days \ {d}
  OBVIOUS
<1>4. QED BY <1>2, <1>3 DEF NothingSpoilt

\* The head of a line is appended: nothing on disk is spoilt.
LEMMA ShortFact ==
  ASSUME AuditTyped, AuditFile, ShortWrite
  PROVE  LET d == day[writeLock] IN
         /\ d \in Days /\ NothingSpoilt
         /\ Len(file'[d]) = Len(file[d]) + 1 /\ Len(file[d]) \in Nat
         /\ \A i \in 1 .. Len(file[d]) : file'[d][i] = file[d][i]
         /\ file'[d][Len(file'[d])].whole = FALSE
         /\ \A c \in Days \ {d} : file'[c] = file[c]
<1> DEFINE line == [event |-> writeLock, whole |-> FALSE]
<1> DEFINE d == day[writeLock]
<1> DEFINE f == file[d]
<1> DEFINE g == Append(f, line)
<1>0. writeLock \in Events /\ writeLock # None
  BY DEF AuditTyped, ShortWrite
<1>1. d \in Days /\ f \in Seq(FileLines) /\ Len(f) \in Nat
  BY <1>0 DEF AuditFile
<1>2. line \in FileLines /\ line.whole = FALSE
  BY <1>0 DEF FileLines
<1>3. file' = [file EXCEPT ![d] = g]
  BY DEF ShortWrite
<1> HIDE DEF line
<1>4. /\ g \in Seq(FileLines) /\ Len(g) = Len(f) + 1
      /\ \A i \in 1 .. Len(f) : g[i] = f[i]
      /\ g[Len(f) + 1] = line
  BY <1>1, <1>2
<1> HIDE DEF g
<1>5. ASSUME NEW e, ReadableIn(f, e) PROVE ReadableIn(g, e)
  <2>1. \A i \in Len(f) + 1 .. Len(f) : ~f[i].whole
    BY <1>1
  <2>2. Len(f) <= Len(f) /\ Len(f) <= Len(g)
    BY <1>1, <1>4
  <2> HIDE DEF f
  <2>3. QED BY <1>1, <1>4, <1>5, <2>1, <2>2, ReadableStays
<1> HIDE DEF d
<1>6. NothingSpoilt /\ file'[d] = g /\ \A c \in Days \ {d} : file'[c] = file[c]
  BY <1>1, <1>3, <1>4, <1>5, OneShard
<1>7. QED BY <1>1, <1>2, <1>4, <1>6 DEF d

\* A line is completed: nothing on disk is spoilt.
LEMMA WrittenFact ==
  ASSUME AuditFile, begun \in BOOLEAN, NEW e \in Events, Written(e)
  PROVE  /\ day[e] \in Days /\ file[day[e]] \in Seq(FileLines) /\ NothingSpoilt
         /\ begun => EndsInHead(file[day[e]])
         /\ file'[day[e]] = Ended(file[day[e]], e)
         /\ \A c \in Days \ {day[e]} : file'[c] = file[c]
<1> DEFINE d == day[e]
<1> DEFINE f == file[d]
<1> DEFINE g == Ended(f, e)
<1>1. /\ file' = [file EXCEPT ![d] = g] /\ d \in Days /\ f \in Seq(FileLines)
      /\ begun => EndsInHead(f)
  BY DEF Written, Completed, Ended, AuditFile
<1> HIDE DEF f, d
<1>2a. PICK n \in Nat : Replaces(f, e, n)
  BY <1>1, CompletedFact
<1>2. /\ n = (IF begun THEN Len(f) - 1 ELSE Len(f)) /\ n <= Len(f)
      /\ Ended(f, e) \in Seq(FileLines) /\ Len(Ended(f, e)) = n + 1
      /\ \A i \in 1 .. n : Ended(f, e)[i] = f[i]
      /\ Ended(f, e)[n + 1] = [event |-> e, whole |-> TRUE]
      /\ \A i \in n + 1 .. Len(f) : ~f[i].whole
  BY <1>2a DEF Replaces
<1>3. n <= Len(g) /\ g \in Seq(FileLines)
  BY <1>2
<1> HIDE DEF g
<1>4. \A x : ReadableIn(f, x) => ReadableIn(g, x)
  BY <1>1, <1>2, <1>3, ReadableStays DEF g
<1>5. NothingSpoilt /\ file'[d] = g /\ \A c \in Days \ {d} : file'[c] = file[c]
  BY <1>1, <1>3, <1>4, OneShard DEF f
<1>6. QED BY <1>1, <1>5 DEF d, f, g

\* A crash removes a head of a line at most.
LEMMA CrashFact ==
  ASSUME AuditTyped, AuditFile, begun \in BOOLEAN, Crash
  PROVE  /\ NothingSpoilt
         /\ \A d \in Days : \A i \in 1 .. Len(file'[d]) : file'[d][i] = file[d][i] /\ i \in 1 .. Len(file[d])
         /\ ~MayTear /\ begun =>
              \A i \in 1 .. Len(file'[day[writeLock]]) : i # Len(file[day[writeLock]])
<1>1. file \in [Days -> Seq(FileLines)]
  BY DEF AuditFile
<1>2. CASE begun /\ ~MayTear
  <2> DEFINE d == day[writeLock]
  <2> DEFINE f == file[d]
  <2> DEFINE n == Len(f) - 1
  <2> DEFINE g == SubSeq(f, 1, n)
  <2>0. writeLock \in Events /\ d \in Days /\ f \in Seq(FileLines) /\ Len(f) \in Nat
    <3>1. writeLock \in Events
      BY <1>2 DEF AuditTyped, AuditFile
    <3>2. QED BY <3>1 DEF AuditFile
  <2>1. n \in Nat /\ n + 1 = Len(f) /\ n <= Len(f) /\ ~f[Len(f)].whole
    BY <1>2, <2>0 DEF AuditFile, EndsInHead
  <2>2. file' = [file EXCEPT ![d] = g]
    BY <1>2 DEF Crash, Before
  <2> HIDE DEF f, d
  <2>3. g \in Seq(FileLines) /\ Len(g) = n /\ \A i \in 1 .. n : g[i] = f[i]
    BY <2>0, <2>1
  <2> HIDE DEF g
  <2> HIDE DEF n
  <2>4. \A i \in n + 1 .. Len(f) : ~f[i].whole
    BY <2>1
  <2>5. \A x : ReadableIn(f, x) => ReadableIn(g, x)
    <3>1. n <= Len(g)
      BY <2>1, <2>3
    <3>2. QED BY <2>0, <2>1, <2>3, <2>4, <3>1, ReadableStays
  <2>6. \A i \in 1 .. Len(g) : i # Len(f) /\ i \in 1 .. Len(f)
    BY <2>1, <2>3
  <2>7. NothingSpoilt /\ file'[d] = g /\ \A c \in Days \ {d} : file'[c] = file[c]
    BY <2>0, <2>2, <2>3, <2>5, OneShard DEF f
  <2>8. \A c \in Days : c = d \/ c \in Days \ {d}
    OBVIOUS
  <2>9. ASSUME NEW c \in Days, NEW i \in 1 .. Len(file'[c])
        PROVE  file'[c][i] = file[c][i] /\ i \in 1 .. Len(file[c])
    <3>1. CASE c = d
      BY <2>3, <2>6, <2>7, <3>1 DEF f
    <3>2. CASE c # d
      BY <2>7, <3>2
    <3>3. QED BY <3>1, <3>2
  <2>10. QED BY <2>6, <2>7, <2>9 DEF d, f
<1>3. CASE ~(begun /\ ~MayTear)
  <2>1. file' = file
    BY <1>3 DEF Crash
  <2>2. QED BY <1>1, <1>3, <2>1 DEF NothingSpoilt
<1>4. QED BY <1>2, <1>3

-----------------------------------------------------------------------------
\* A write gets _write_lock.
LEMMA AuditLocks ==
  ASSUME AuditInv, NEW e \in Events, Lock(e)
  PROVE  AuditInv'
<1>1. AuditTyped /\ AuditFlags /\ AuditFile
  BY DEF AuditInv
<1>2. UNCHANGED <<stage, result, ring, queue, pending, writer, file, unpersisted, accepting, stop, closing,
                  today, day>>
  BY DEF Lock, recordVars, closeVars, worldVars
<1>3. writeLock = None /\ writeLock' = e /\ begun' = FALSE /\ begun = FALSE
       /\ stage[e] \in {"taken", "overflow"}
  BY <1>1 DEF Lock, AuditFile, AuditFlags
<1>4. AuditTyped' /\ AuditLock'
  BY <1>1, <1>2, <1>3 DEF AuditTyped, AuditLock
<1>5. AuditFlags' /\ AuditFile'
  BY <1>1, <1>2, <1>3 DEF AuditFlags, AuditFile
<1>6. AuditRing' /\ AuditQueue'
  BY <1>2 DEF AuditInv, AuditRing, AuditQueue
<1>7. AuditPending' /\ AuditClose'
  BY <1>2 DEF AuditInv, AuditPending, AuditClose, Flying
<1>8. ~MayTear => AuditDisk'
  BY <1>2, <1>3 DEF AuditInv, AuditDisk
<1>9. QED BY <1>4, <1>5, <1>6, <1>7, <1>8 DEF AuditInv

\* A write has appended the head of its line.
LEMMA AuditShort ==
  ASSUME AuditInv, ShortWrite
  PROVE  AuditInv'
<1>1. AuditTyped /\ AuditFlags /\ AuditFile
  BY DEF AuditInv
<1>2. UNCHANGED <<stage, result, ring, queue, pending, writer, writeLock, unpersisted, accepting, stop, closing,
                  today, day>>
  BY DEF ShortWrite, recordVars, closeVars, worldVars
<1>3. writeLock # None /\ begun = FALSE /\ begun' = TRUE
  BY <1>1 DEF ShortWrite, AuditFlags
<1> DEFINE d == day[writeLock]
<1>4. /\ d \in Days /\ NothingSpoilt
      /\ Len(file'[d]) = Len(file[d]) + 1 /\ Len(file[d]) \in Nat
      /\ \A i \in 1 .. Len(file[d]) : file'[d][i] = file[d][i]
      /\ file'[d][Len(file'[d])].whole = FALSE
      /\ \A c \in Days \ {d} : file'[c] = file[c]
  BY <1>1, ShortFact
<1>5. AuditTyped' /\ AuditLock'
  BY <1>1, <1>2 DEF AuditInv, AuditTyped, AuditLock
<1>6. AuditFlags'
  BY <1>1, <1>2, <1>3 DEF AuditFlags
<1>7. AuditFile'
  <2>1. EndsInHead(file'[d])
    BY <1>4 DEF EndsInHead
  <2>2. QED BY <1>1, <1>2, <1>3, <1>4, <2>1 DEF AuditFile, NothingSpoilt
<1>8. AuditRing' /\ AuditQueue'
  BY <1>2 DEF AuditInv, AuditRing, AuditQueue
<1>9. AuditPending' /\ AuditClose'
  BY <1>2 DEF AuditInv, AuditPending, AuditClose, Flying
<1>10. ASSUME ~MayTear PROVE AuditDisk'
  <2>1. AuditDisk
    BY <1>10 DEF AuditInv
  <2>2. \A c \in Days : \A i \in 1 .. Len(file[c]) : file[c][i].whole
    BY <1>3, <2>1 DEF AuditDisk
  <2>3. ASSUME NEW c \in Days, NEW i \in 1 .. Len(file'[c])
        PROVE  file'[c][i].whole \/ (begun' /\ c = day'[writeLock'] /\ i = Len(file'[c]))
    <3>1. CASE c = d
      <4>1. i \in 1 .. Len(file[d]) \/ i = Len(file'[d])
        BY <1>4, <3>1
      <4>2. i \in 1 .. Len(file[d]) => file'[c][i].whole
        BY <1>4, <2>2, <3>1
      <4>3. QED BY <1>2, <1>3, <3>1, <4>1, <4>2
    <3>2. CASE c # d
      <4>1. file'[c] = file[c]
        BY <1>4, <3>2
      <4>2. QED BY <2>2, <4>1
    <3>3. QED BY <3>1, <3>2
  <2>4. ASSUME NEW e \in Events, stage'[e] \in {"settled", "finished"}
        PROVE  ReadableIn(file'[day'[e]], e) \/ (result'[e] = "false" /\ unpersisted' > 0)
    <3>1. ReadableIn(file[day[e]], e) \/ (result[e] = "false" /\ unpersisted > 0)
      BY <1>2, <2>1, <2>4 DEF AuditDisk
    <3>2. day[e] \in Days
      BY <1>1 DEF AuditFile
    <3>3. QED BY <1>2, <1>4, <3>1, <3>2 DEF NothingSpoilt
  <2>5. QED BY <2>3, <2>4 DEF AuditDisk
<1>11. QED BY <1>5, <1>6, <1>7, <1>8, <1>9, <1>10 DEF AuditInv

\* A write has completed its line.
LEMMA AuditWritten ==
  ASSUME AuditInv, NEW e \in Events, Written(e)
  PROVE  AuditInv'
<1>1. AuditTyped /\ AuditFlags /\ AuditRing /\ AuditQueue /\ AuditPending /\ AuditClose /\ AuditLock /\ AuditFile
  BY DEF AuditInv
<1>2. writeLock = e /\ e # None /\ stage[e] \in {"taken", "overflow"}
  BY <1>1, RecorderAssumption DEF Written, AuditLock
<1>3. Becomes(e, "settled") /\ "settled" \in Stages /\ "settled" \in InFlight /\ stage[e] \in InFlight
  BY <1>2 DEF Written, Becomes, Stages, InFlight
<1>4. UNCHANGED <<ring, queue, pending, writer, unpersisted, accepting, stop, closing, today, day>>
       /\ writeLock' = None /\ begun' = FALSE
  BY DEF Written, closeVars, worldVars
<1>5. result' \in [Events -> {"none", "true", "false"}] /\ \A d \in Events \ {e} : result'[d] = result[d]
  BY <1>1 DEF Written, AuditTyped
<1>6. AuditTyped'
  BY <1>1, <1>3, <1>4, <1>5 DEF AuditTyped, Becomes
<1>7. AuditFlags' /\ AuditRing' /\ AuditLock'
  BY <1>1, <1>4 DEF AuditFlags, AuditRing, AuditLock
<1>8. AuditQueue'
  BY <1>1, <1>2, <1>3, <1>4, QueueStays
<1>9. AuditPending'
  BY <1>1, <1>3, <1>4, PendingFollows
<1>10. AuditClose'
  BY <1>1, <1>3, <1>4, CloseStays
<1> DEFINE f == file[day[e]]
<1> DEFINE g == file'[day[e]]
<1>11. /\ day[e] \in Days /\ f \in Seq(FileLines) /\ NothingSpoilt /\ (begun => EndsInHead(f))
       /\ g = Ended(f, e) /\ \A c \in Days \ {day[e]} : file'[c] = file[c]
  BY <1>1, WrittenFact DEF AuditFlags
<1>12. AuditFile'
  BY <1>1, <1>4, <1>11 DEF AuditFile, NothingSpoilt
<1>13. ASSUME ~MayTear PROVE AuditDisk'
  <2>1. AuditDisk
    BY <1>13 DEF AuditInv
  <2>0. writeLock = e
    BY <1>2
  <2>2a. begun \in BOOLEAN /\ Len(f) \in Nat
    BY <1>1, <1>11 DEF AuditFlags
  <2>1a. \A i \in 1 .. Len(f) : f[i].whole \/ (begun /\ i = Len(f))
    BY <1>11, <2>1 DEF AuditDisk
  <2>1b. \A c \in Days \ {day[e]} : \A i \in 1 .. Len(file[c]) : file[c][i].whole
    BY <2>0, <2>1 DEF AuditDisk
  <2>3a. g = Ended(f, e)
    BY <1>11
  <2>3b. f \in Seq(FileLines) /\ (begun => EndsInHead(f))
    BY <1>11
  <2> HIDE DEF f, g
  <2>2b. PICK n \in Nat : Replaces(f, e, n)
    BY <2>2a, <2>3b, CompletedFact
  <2>2. /\ n = (IF begun THEN Len(f) - 1 ELSE Len(f)) /\ n <= Len(f)
        /\ Ended(f, e) \in Seq(FileLines) /\ Len(Ended(f, e)) = n + 1
        /\ \A i \in 1 .. n : Ended(f, e)[i] = f[i]
        /\ Ended(f, e)[n + 1] = [event |-> e, whole |-> TRUE]
        /\ \A i \in n + 1 .. Len(f) : ~f[i].whole
    BY <2>2b DEF Replaces
  <2>4. \A i \in 1 .. n : g[i].whole
    <3>1. ASSUME NEW i \in 1 .. n PROVE g[i].whole
      <4>1. i \in 1 .. Len(f) /\ ~(begun /\ i = Len(f))
        BY <2>2, <2>2a
      <4>2. f[i].whole
        BY <2>1a, <4>1
      <4>3. QED BY <2>2, <2>3a, <4>2
    <3>2. QED BY <3>1
  <2>5. g[n + 1].whole /\ g[n + 1].event = e /\ Len(g) = n + 1
    BY <2>2, <2>3a
  <2>6. ASSUME NEW c \in Days, NEW i \in 1 .. Len(file'[c]) PROVE file'[c][i].whole
    <3>1. CASE c = day[e]
      <4>1. i \in 1 .. Len(g)
        BY <3>1 DEF g
      <4>2. i \in 1 .. n \/ i = n + 1
        BY <2>5, <4>1
      <4>3. QED BY <2>4, <2>5, <3>1, <4>2 DEF g
    <3>2. CASE c # day[e]
      <4>1. file'[c] = file[c]
        BY <1>11, <3>2
      <4>2. QED BY <2>1b, <3>2, <4>1
    <3>3. QED BY <3>1, <3>2
  <2>7. ReadableIn(g, e)
    <3>1. n + 1 \in 1 .. Len(g) /\ (n + 1 = 1 \/ g[(n + 1) - 1].whole)
      BY <2>4, <2>5
    <3>2. QED BY <2>5, <3>1 DEF ReadableIn
  <2>8. ASSUME NEW d \in Events, stage'[d] \in {"settled", "finished"}
        PROVE  ReadableIn(file'[day'[d]], d) \/ (result'[d] = "false" /\ unpersisted' > 0)
    <3>1. CASE d = e
      BY <1>4, <2>7, <3>1 DEF g
    <3>2. CASE d # e
      <4>1. stage[d] = stage'[d] /\ result'[d] = result[d]
        BY <1>1, <1>3, <1>5, <3>2 DEF Becomes, AuditTyped
      <4>2. ReadableIn(file[day[d]], d) \/ (result[d] = "false" /\ unpersisted > 0)
        BY <2>1, <2>8, <4>1 DEF AuditDisk
      <4>3. day[d] \in Days
        BY <1>1 DEF AuditFile
      <4>4. QED BY <1>4, <1>11, <4>1, <4>2, <4>3 DEF NothingSpoilt
    <3>3. QED BY <3>1, <3>2
  <2>9. QED BY <2>6, <2>8 DEF AuditDisk
<1>14. QED BY <1>6, <1>7, <1>8, <1>9, <1>10, <1>12, <1>13 DEF AuditInv

\* A write fails, the writer's or that of a request thread.
LEMMA AuditFails ==
  ASSUME AuditInv, NEW e \in Events, WriteFails(e)
  PROVE  AuditInv'
<1>1. AuditTyped /\ AuditFlags /\ AuditRing /\ AuditQueue /\ AuditPending /\ AuditClose /\ AuditLock /\ AuditFile
  BY DEF AuditInv
<1>2. writeLock = e /\ e # None /\ stage[e] \in {"taken", "overflow"}
  BY <1>1, RecorderAssumption DEF WriteFails, AuditLock
<1>3. UNCHANGED <<ring, queue, pending, writer, file, accepting, stop, closing, today, day>>
       /\ writeLock' = None /\ begun' = FALSE /\ (begun => MayTear)
  BY DEF WriteFails, closeVars, worldVars
<1>4. AuditFlags' /\ AuditRing' /\ AuditLock' /\ AuditFile'
  BY <1>1, <1>3 DEF AuditFlags, AuditRing, AuditLock, AuditFile
<1>5. CASE stage[e] = "taken" /\ UNCHANGED <<stage, result, unpersisted>>
  <2>1. AuditTyped'
    BY <1>1, <1>3, <1>5 DEF AuditTyped
  <2>2. AuditQueue'
    BY <1>1, <1>3, <1>5 DEF AuditQueue
  <2>3. AuditPending' /\ AuditClose'
    BY <1>1, <1>3, <1>5 DEF AuditPending, AuditClose, Flying
  <2>4. ~MayTear => AuditDisk'
    BY <1>3, <1>5 DEF AuditInv, AuditDisk
  <2>5. QED BY <1>4, <2>1, <2>2, <2>3, <2>4 DEF AuditInv
<1>6. CASE stage[e] = "overflow" /\ stage' = [stage EXCEPT ![e] = "settled"]
           /\ result' = [result EXCEPT ![e] = "false"] /\ unpersisted' = unpersisted + 1
  <2>1. Becomes(e, "settled") /\ "settled" \in Stages /\ "settled" \in InFlight /\ stage[e] \in InFlight
    BY <1>6 DEF Becomes, Stages, InFlight
  <2>2. result' \in [Events -> {"none", "true", "false"}] /\ result'[e] = "false"
         /\ \A d \in Events \ {e} : result'[d] = result[d]
    BY <1>1, <1>6 DEF AuditTyped
  <2>3. unpersisted \in Nat /\ unpersisted' \in Nat /\ unpersisted' > 0
    BY <1>1, <1>6 DEF AuditTyped
  <2>4. AuditTyped'
    BY <1>1, <1>3, <2>1, <2>2, <2>3 DEF AuditTyped, Becomes
  <2>5. AuditQueue'
    BY <1>1, <1>3, <1>6, <2>1, QueueStays
  <2>6. AuditPending'
    BY <1>1, <1>3, <2>1, PendingFollows
  <2>7. AuditClose'
    BY <1>1, <1>3, <2>1, CloseStays
  <2>8. ASSUME ~MayTear PROVE AuditDisk'
    <3>1. AuditDisk
      BY <2>8 DEF AuditInv
    <3>2. \A d \in Days : \A i \in 1 .. Len(file'[d]) : file'[d][i].whole
      BY <1>3, <2>8, <3>1 DEF AuditDisk
    <3>3. ASSUME NEW d \in Events, stage'[d] \in {"settled", "finished"}
          PROVE  ReadableIn(file'[day'[d]], d) \/ (result'[d] = "false" /\ unpersisted' > 0)
      <4>1. CASE d = e
        BY <2>2, <2>3, <4>1
      <4>2. CASE d # e
        <5>1. stage[d] = stage'[d] /\ result'[d] = result[d]
          BY <1>1, <2>1, <2>2, <4>2 DEF Becomes, AuditTyped
        <5>2. ReadableIn(file[day[d]], d) \/ (result[d] = "false" /\ unpersisted > 0)
          BY <3>1, <3>3, <5>1 DEF AuditDisk
        <5>3. QED BY <1>3, <2>3, <5>1, <5>2
      <4>3. QED BY <4>1, <4>2
    <3>4. QED BY <3>2, <3>3 DEF AuditDisk
  <2>9. QED BY <1>4, <2>4, <2>5, <2>6, <2>7, <2>8 DEF AuditInv
<1>7. QED BY <1>5, <1>6 DEF WriteFails

\* The writer ends, and the steps of close(): no event moves.
LEMMA AuditCloses ==
  ASSUME AuditInv, WriterExits \/ CloseBegins \/ CloseDrained \/ CloseTimesOut \/ CloseReturns
  PROVE  AuditInv'
<1>1. AuditTyped /\ AuditFlags /\ AuditPending /\ AuditClose
  BY DEF AuditInv
<1>2. UNCHANGED <<stage, result, ring, queue, pending, writeLock, begun, file, unpersisted, today, day>>
  BY DEF WriterExits, CloseBegins, CloseDrained, CloseTimesOut, CloseReturns, recordVars, writeVars, worldVars
<1>3. AuditTyped'
  BY <1>1, <1>2 DEF AuditTyped, WriterExits, CloseBegins, CloseDrained, CloseTimesOut, CloseReturns,
       closeVars, writeVars, Closings
<1>4. AuditFlags'
  BY <1>1, <1>2 DEF AuditFlags, WriterExits, CloseBegins, CloseDrained, CloseTimesOut, CloseReturns,
       closeVars
<1>5. AuditRing' /\ AuditQueue' /\ AuditLock' /\ AuditFile'
  BY <1>2 DEF AuditInv, AuditRing, AuditQueue, AuditLock, AuditFile
<1>6. AuditPending' /\ Flying' = Flying
  BY <1>1, <1>2 DEF AuditPending, Flying
<1>7. ~MayTear => AuditDisk'
  BY <1>2 DEF AuditInv, AuditDisk
<1>8. AuditClose'
  <2>1. CASE WriterExits
    BY <1>1, <1>2, <1>6, <2>1 DEF AuditClose, WriterExits, closeVars
  <2>2. CASE CloseBegins
    BY <1>1, <1>2, <1>6, <2>2 DEF AuditClose, CloseBegins
  <2>3. CASE CloseDrained
    <3>1. Flying = {}
      BY <1>1, <2>3, FS_EmptySet DEF AuditPending, CloseDrained
    <3>2. QED BY <1>1, <1>2, <1>6, <2>3, <3>1 DEF AuditClose, CloseDrained
  <2>4. CASE CloseTimesOut
    BY <1>1, <1>2, <1>6, <2>4 DEF AuditClose, CloseTimesOut
  <2>5. CASE CloseReturns
    BY <1>1, <1>2, <1>6, <2>5 DEF AuditClose, CloseReturns, writeVars
  <2>6. QED BY <2>1, <2>2, <2>3, <2>4, <2>5
<1>9. QED BY <1>3, <1>4, <1>5, <1>6, <1>7, <1>8 DEF AuditInv

\* A crash and the next start.
LEMMA AuditCrash ==
  ASSUME AuditInv, Crash
  PROVE  AuditInv'
<1>1. AuditTyped /\ AuditFlags /\ AuditFile
  BY DEF AuditInv
<1>2. /\ ring' = <<>> /\ queue' = <<>> /\ pending' = 0 /\ accepting' = TRUE /\ stop' = FALSE
      /\ writer' = None /\ writeLock' = None /\ begun' = FALSE /\ unpersisted' = 0
      /\ closing' = "open" /\ result' = result /\ UNCHANGED <<today, day>>
  BY DEF Crash
<1>3. /\ NothingSpoilt
      /\ \A d \in Days : \A i \in 1 .. Len(file'[d]) : file'[d][i] = file[d][i] /\ i \in 1 .. Len(file[d])
      /\ ~MayTear /\ begun =>
           \A i \in 1 .. Len(file'[day[writeLock]]) : i # Len(file[day[writeLock]])
  BY <1>1, CrashFact DEF AuditFlags
<1>4. \A e \in Events :
        stage'[e] = IF stage[e] \in InFlight \/ (stage[e] = "finished" /\ result[e] = "false")
                    THEN "lost" ELSE stage[e]
  BY DEF Crash
<1>5. AuditTyped'
  <2>1. stage' \in [Events -> Stages]
    BY <1>1 DEF Crash, AuditTyped, Stages
  <2>2. QED BY <1>1, <1>2, <2>1 DEF AuditTyped, Closings
<1>6. AuditFlags' /\ AuditRing' /\ AuditQueue' /\ AuditLock'
  <2>1. AuditFlags' /\ AuditLock'
    BY <1>2 DEF AuditFlags, AuditLock
  <2>2. AuditRing'
    BY <1>2, RecorderAssumption DEF AuditRing
  <2>3. AuditQueue'
    BY <1>2, RecorderAssumption DEF AuditQueue
  <2>4. QED BY <2>1, <2>2, <2>3
<1>7. Flying' = {}
  <2>1. \A e \in Events : stage'[e] \notin InFlight
    BY <1>4 DEF InFlight
  <2>2. QED BY <2>1 DEF Flying
<1>8. AuditPending' /\ AuditClose'
  BY <1>2, <1>7, FS_EmptySet DEF AuditPending, AuditClose
<1>9. AuditFile'
  BY <1>1, <1>2, <1>3 DEF AuditFile, NothingSpoilt
<1>10. ASSUME ~MayTear PROVE AuditDisk'
  <2>1. AuditDisk
    BY <1>10 DEF AuditInv
  <2>2. ASSUME NEW d \in Days, NEW i \in 1 .. Len(file'[d]) PROVE file'[d][i].whole
    <3>1. file'[d][i] = file[d][i] /\ i \in 1 .. Len(file[d])
      BY <1>3
    <3>2. ~(begun /\ d = day[writeLock] /\ i = Len(file[d]))
      BY <1>3, <1>10
    <3>3. QED BY <2>1, <3>1, <3>2 DEF AuditDisk
  <2>3. ASSUME NEW d \in Events, stage'[d] \in {"settled", "finished"}
        PROVE  ReadableIn(file'[day'[d]], d)
    <3>1. stage[d] = "finished" /\ result[d] # "false"
      BY <1>4, <2>3 DEF InFlight
    <3>2. ReadableIn(file[day[d]], d) /\ day[d] \in Days
      BY <1>1, <2>1, <3>1 DEF AuditDisk, AuditFile
    <3>3. QED BY <1>2, <1>3, <3>2 DEF NothingSpoilt
  <2>4. QED BY <2>2, <2>3 DEF AuditDisk
<1>11. QED BY <1>5, <1>6, <1>8, <1>9, <1>10 DEF AuditInv

\* The date changes.
LEMMA AuditMidnight ==
  ASSUME AuditInv, Midnight
  PROVE  AuditInv'
<1>1. AuditFile /\ today < MaxDays
  BY DEF AuditInv, Midnight
<1>2. today' \in Days
  BY <1>1, RecorderAssumption DEF AuditFile, Days, Midnight
<1>3. UNCHANGED <<recordVars, writeVars, closeVars, day>>
  BY DEF Midnight
<1>4. QED BY <1>2, <1>3 DEF recordVars, writeVars, closeVars, AuditInv, AuditTyped, AuditFlags, AuditRing,
       AuditQueue, AuditPending, AuditClose, AuditLock, AuditFile, AuditDisk, Flying

\* Every step keeps the invariant.
LEMMA AuditNextKeeps == AuditInv /\ [Next]_vars => AuditInv'
<1> SUFFICES ASSUME AuditInv, [Next]_vars PROVE AuditInv'
  OBVIOUS
<1>1. CASE UNCHANGED vars
  BY <1>1 DEF vars, recordVars, writeVars, closeVars, worldVars, AuditInv, AuditTyped, AuditFlags, AuditRing,
       AuditQueue, AuditPending, AuditClose, AuditLock, AuditFile, AuditDisk, Flying
<1>2. CASE Next
  <2>1. ASSUME NEW e \in Events, \/ Refuse(e) \/ Accept(e) \/ Enqueue(e) \/ Overflow(e)
                                 \/ Lock(e) \/ Written(e) \/ WriteFails(e) \/ FinishPending(e)
        PROVE  AuditInv'
    BY <2>1, AuditRefuse, AuditAccept, AuditEnqueue, AuditOverflow, AuditLocks, AuditWritten,
       AuditFails, AuditFinish
  <2>2. QED BY <1>2, <2>1, AuditTake, AuditShort, AuditCloses, AuditCrash, AuditMidnight DEF Next
<1>3. QED BY <1>1, <1>2

\* What the invariant says about close(), if writes do not tear.
LEMMA AuditImplies == ~MayTear /\ AuditInv => CleanClose
<1> SUFFICES ASSUME ~MayTear, AuditInv PROVE CleanClose
  OBVIOUS
<1>1. /\ AuditTyped /\ AuditFlags /\ AuditRing /\ AuditQueue /\ AuditPending
      /\ AuditClose /\ AuditLock /\ AuditFile /\ AuditDisk
  BY DEF AuditInv
<1>2. pending \in Nat
  BY <1>1, FS_CardinalityType DEF AuditPending
<1>3. TypeOK
  BY <1>1, <1>2 DEF TypeOK, AuditTyped, AuditFlags, AuditRing, AuditQueue, AuditLock, AuditFile, FileLines
<1>4. PendingExact
  BY <1>1 DEF PendingExact, AuditPending, Flying
<1>5. ASSUME closing = "clean" PROVE stop /\ Flying = {} /\ writer = Dead /\ unpersisted = 0
  BY <1>1, <1>5 DEF AuditClose
<1>6. CleanCloseKeepsAll
  <2>1. ASSUME closing = "clean", NEW e \in Events, stage[e] = "finished" PROVE OnDisk(e)
    <3>1. unpersisted = 0
      BY <1>5, <2>1
    <3>2. ReadableIn(file[day[e]], e)
      BY <1>1, <2>1, <3>1 DEF AuditDisk
    <3>3. day[e] \in Days /\ file[day[e]] \in Seq(FileLines)
      BY <1>1 DEF AuditFile
    <3>3a. DOMAIN file[day[e]] = 1 .. Len(file[day[e]])
      BY <3>3
    <3>4. QED BY <3>2, <3>3a DEF OnDisk, Parses, ReadableIn
  <2>2. QED BY <2>1 DEF CleanCloseKeepsAll
<1>7. CleanCloseIsFinal
  <2>1. SUFFICES ASSUME closing = "clean"
                 PROVE  /\ \A e \in Events : stage[e] \notin InFlight
                        /\ queue = <<>> /\ writeLock = None /\ writer = Dead
    BY DEF CleanCloseIsFinal
  <2>2. \A e \in Events : stage[e] \notin InFlight
    BY <1>5, <2>1 DEF Flying
  <2>3. queue = <<>>
    <3>1. SUFFICES ASSUME queue # <<>> PROVE FALSE
      OBVIOUS
    <3>2. 1 \in 1 .. Len(queue) /\ queue[1] \in Events
      BY <1>1, <3>1 DEF AuditQueue
    <3>3. stage[queue[1]] = "queued"
      BY <1>1, <3>2 DEF AuditQueue
    <3>4. QED BY <2>2, <3>2, <3>3 DEF InFlight
  <2>4. writeLock = None
    BY <1>1, <2>2 DEF AuditLock, AuditTyped, InFlight
  <2>5. QED BY <1>5, <2>1, <2>2, <2>3, <2>4
<1>8. QED BY <1>3, <1>4, <1>6, <1>7 DEF CleanClose

\* For any number of events and any sizes of queue and ring, with writes that
\* fail and crashes at any point, as long as a write that fails leaves nothing
\* behind: when close() has returned True, every event that was accepted is on
\* disk and no thread will write (recorder.py:117-146, 186-271).
THEOREM CleanCloseKeepsEvents == ~MayTear => (Spec => []CleanClose)
<1> SUFFICES ASSUME ~MayTear PROVE Spec => []CleanClose
  OBVIOUS
<1>1. AuditInv => CleanClose
  BY AuditImplies
<1>2. QED BY <1>1, AuditInitOK, AuditNextKeeps, PTL DEF Spec

\* No step spoils an event that can be read back, be it a write that fails half
\* way or a crash (recorder.py:163-184, 378-393).
LEMMA DiskStep == AuditInv /\ [Next]_vars => [\A e \in Events : OnDisk(e) => OnDisk(e)']_vars
<1> SUFFICES ASSUME AuditInv, Next PROVE \A e \in Events : OnDisk(e) => OnDisk(e)'
  OBVIOUS
<1>1. AuditTyped /\ AuditFlags /\ AuditFile
  BY DEF AuditInv
<1>2. NothingSpoilt
  <2>1. CASE file' = file
    BY <1>1, <2>1 DEF AuditFile, NothingSpoilt
  <2>2. CASE ShortWrite
    BY <1>1, <2>2, ShortFact
  <2>3. ASSUME NEW e \in Events, Written(e) PROVE NothingSpoilt
    BY <1>1, <2>3, WrittenFact DEF AuditFlags
  <2>4. CASE Crash
    BY <1>1, <2>4, CrashFact DEF AuditFlags
  <2>5. file' = file \/ ShortWrite \/ (\E e \in Events : Written(e)) \/ Crash
    BY DEF Next, Refuse, Accept, Enqueue, Overflow, Lock, WriteFails, FinishPending, Take, WriterExits,
       CloseBegins, CloseDrained, CloseTimesOut, CloseReturns, Midnight, writeVars
  <2>6. QED BY <2>1, <2>2, <2>3, <2>4, <2>5
<1>3. day' = day
  BY DEF Next, Refuse, Accept, Enqueue, Overflow, Lock, Written, WriteFails, FinishPending, Take, ShortWrite,
     WriterExits, CloseBegins, CloseDrained, CloseTimesOut, CloseReturns, Crash, Midnight, worldVars
<1>4. \A e \in Events : day[e] \in Days
  BY <1>1 DEF AuditFile
<1>5. QED BY <1>1, <1>2, <1>3, <1>4, ReadableFact DEF NothingSpoilt

\* For any constants, also where writes tear: an event that can be read back
\* stays so, whatever is written, fails or crashes later
\* (recorder.py:163-184, 378-393).
THEOREM DiskAlwaysKept == Spec => DiskKept
<1>1. QED BY AuditInitOK, AuditNextKeeps, DiskStep, PTL DEF Spec, DiskKept
-----------------------------------------------------------------------------
(* What a query gives: the events of the ring, and then those of the file  *)
(* that the answer has room for.                                           *)

\* An answer gives each event once and no more than the ring can hold.
Answers ==
  {s \in Seq(Events) : Len(s) <= MaxRing /\ \A i, j \in 1 .. Len(s) : s[i] = s[j] => i = j}

\* The answer s gives event e.
Holds(s, e) == \E i \in 1 .. Len(s) : s[i] = e

\* t gives what s gives, and perhaps more.
Extends(s, t) == t \in Answers /\ Len(s) <= Len(t) /\ \A e : Holds(s, e) => Holds(t, e)

\* What an answer gives is its range.
LEMMA HoldsRange ==
  ASSUME NEW X, NEW s \in Seq(X), NEW e
  PROVE  e \in Range(s) <=> Holds(s, e)
BY DEF Range, Holds

\* One event more.
LEMMA YieldFacts ==
  ASSUME NEW s \in Answers, NEW e \in Events \cup {None}, NEW w
  PROVE  /\ Extends(s, Yield(s, e, w))
         /\ e \in Events /\ day[e] \in w => Holds(Yield(s, e, w), e) \/ Len(Yield(s, e, w)) = MaxRing
<1>1. s \in Seq(Events) /\ Len(s) \in Nat /\ Len(s) <= MaxRing /\ MaxRing \in Nat
  BY RecorderAssumption DEF Answers
<1>2. e \in Range(s) <=> Holds(s, e)
  BY <1>1, HoldsRange
<1>3. CASE e = None \/ Len(s) = MaxRing \/ Holds(s, e) \/ day[e] \notin w
  <2>1. Yield(s, e, w) = s
    BY <1>2, <1>3 DEF Yield
  <2>2. QED BY <1>1, <1>3, <2>1, RecorderAssumption DEF Extends
<1>4. CASE e # None /\ Len(s) # MaxRing /\ ~Holds(s, e) /\ day[e] \in w
  <2> DEFINE t == Append(s, e)
  <2>1. Yield(s, e, w) = t
    BY <1>2, <1>4 DEF Yield
  <2>2. /\ t \in Seq(Events) /\ Len(t) = Len(s) + 1 /\ t[Len(s) + 1] = e
        /\ \A i \in 1 .. Len(s) : t[i] = s[i]
    BY <1>1, <1>4
  <2> HIDE DEF t
  <2>3. \A i \in 1 .. Len(t) : i \in 1 .. Len(s) \/ i = Len(s) + 1
    BY <1>1, <2>2
  <2>4. \A i \in 1 .. Len(s) : s[i] # e
    BY <1>4 DEF Holds
  <2>5. \A i, j \in 1 .. Len(t) : t[i] = t[j] => i = j
    BY <2>2, <2>3, <2>4 DEF Answers
  <2>6. t \in Answers
    BY <1>1, <1>4, <2>2, <2>5 DEF Answers
  <2>7. 1 .. Len(s) \subseteq 1 .. Len(t) /\ Len(s) + 1 \in 1 .. Len(t) /\ Len(s) <= Len(t)
    BY <1>1, <2>2
  <2>8. Holds(t, e) /\ \A d : Holds(s, d) => Holds(t, d)
    BY <2>2, <2>7 DEF Holds
  <2>9. QED BY <2>1, <2>6, <2>7, <2>8 DEF Extends
<1>5. QED BY <1>3, <1>4

\* g[k] is the answer after the last k events of src.
Yields(g, given, src, w) ==
  /\ \A k \in 0 .. Len(src) : g[k] \in Answers
  /\ g[0] = given /\ YieldAll(given, src, w) = g[Len(src)]
  /\ \A k \in 1 .. Len(src) : g[k] = Yield(g[k - 1], src[Len(src) - k + 1], w)

\* The recursive function of YieldAll is defined for every source.
LEMMA YieldAllRec ==
  ASSUME NEW given \in Answers, NEW src \in Seq(Events \cup {None}), NEW w
  PROVE  \E g : Yields(g, given, src, w)
<1> DEFINE n == Len(src)
<1> DEFINE next == [i \in 1 .. n |-> [s \in Answers |-> Yield(s, src[n - i + 1], w)]]
<1> DEFINE f(g) == [k \in 0 .. n |-> IF k = 0 THEN given ELSE Yield(g[k - 1], src[n - k + 1], w)]
<1>1. n \in Nat /\ \A i \in 1 .. n : src[n - i + 1] \in Events \cup {None}
  <2>1. n \in Nat /\ \A i \in 1 .. n : src[i] \in Events \cup {None}
    OBVIOUS
  <2>2. \A i \in 1 .. n : n - i + 1 \in 1 .. n
    BY <2>1
  <2>3. QED BY <2>1, <2>2
<1> HIDE DEF n
<1>2. \A i \in 1 .. n : \A s \in Answers : Yield(s, src[n - i + 1], w) \in Answers
  BY <1>1, YieldFacts DEF Extends
<1>3. next \in Steps(n, Answers)
  BY <1>2 DEF Steps
<1> HIDE DEF next
<1>4. PICK g : Iterates(g, n, Answers, given, next)
  BY <1>1, <1>3, Iteration
<1>5. g \in [0 .. n -> Answers] /\ g[0] = given /\ \A i \in 1 .. n : g[i] = next[i][g[i - 1]]
  BY <1>4 DEF Iterates
<1>6. \A i \in 1 .. n : g[i] = Yield(g[i - 1], src[n - i + 1], w)
  <2>0. \A i \in 1 .. n : i - 1 \in 0 .. n
    BY <1>1
  <2>1. \A i \in 1 .. n : g[i - 1] \in Answers
    BY <1>5, <2>0, Zenon
  <2>2. QED BY <1>5, <2>1 DEF next
<1>7. g = f(g)
  <2>1. \A k \in 0 .. n : g[k] = IF k = 0 THEN given ELSE Yield(g[k - 1], src[n - k + 1], w)
    <3>1. \A k \in 0 .. n : k = 0 \/ (k # 0 /\ k \in 1 .. n)
      BY <1>1
    <3>2. QED BY <1>5, <1>6, <3>1, Zenon
  <2>2. g = [k \in 0 .. n |-> g[k]]
    BY <1>5
  <2>3. QED BY <2>1, <2>2, Zenon
<1> DEFINE after == CHOOSE h : h = f(h)
<1>8. after = f(after)
  BY <1>7
<1>9. YieldAll(given, src, w) = after[n]
  BY DEF YieldAll, n
<1> HIDE DEF after
<1>10. \A k \in 0 .. n : after[k] = IF k = 0 THEN given ELSE Yield(after[k - 1], src[n - k + 1], w)
  BY <1>8, Zenon
<1>11. after[0] = given /\ \A k \in 1 .. n : after[k] = Yield(after[k - 1], src[n - k + 1], w)
  BY <1>1, <1>10
<1> HIDE DEF f
<1> DEFINE S == {k \in Nat : k <= n => after[k] \in Answers}
<1>12. 0 \in S
  BY <1>11
<1>13. ASSUME NEW k \in Nat, k \in S PROVE k + 1 \in S
  <2>1. SUFFICES ASSUME k + 1 <= n PROVE after[k + 1] \in Answers
    OBVIOUS
  <2>2. k + 1 \in 1 .. n /\ (k + 1) - 1 = k /\ after[k] \in Answers
    BY <1>1, <1>13, <2>1
  <2>3. after[k + 1] = Yield(after[k], src[n - (k + 1) + 1], w)
    BY <1>11, <2>2
  <2>4. QED BY <1>2, <2>2, <2>3
<1> HIDE DEF S
<1>14. \A k \in Nat : k \in S
  BY <1>12, <1>13, SetInduction
<1>15. \A k \in 0 .. n : after[k] \in Answers
  BY <1>1, <1>14 DEF S
<1>16. Yields(after, given, src, w)
  BY <1>9, <1>11, <1>15 DEF Yields, n
<1>17. QED BY <1>16

\* Every event of src is given, unless the answer is full.
LEMMA YieldAllFacts ==
  ASSUME NEW given \in Answers, NEW src \in Seq(Events \cup {None}), NEW w
  PROVE  /\ Extends(given, YieldAll(given, src, w))
         /\ \A i \in 1 .. Len(src) : src[i] \in Events /\ day[src[i]] \in w =>
              Holds(YieldAll(given, src, w), src[i]) \/ Len(YieldAll(given, src, w)) = MaxRing
<1> DEFINE n == Len(src)
<1>1. n \in Nat /\ \A i \in 1 .. n : src[i] \in Events \cup {None}
  OBVIOUS
<1>2. PICK g : Yields(g, given, src, w)
  BY YieldAllRec
<1>3. /\ \A k \in 0 .. n : g[k] \in Answers
      /\ g[0] = given /\ YieldAll(given, src, w) = g[n]
      /\ \A k \in 1 .. n : g[k] = Yield(g[k - 1], src[n - k + 1], w)
  BY <1>2 DEF Yields
<1> HIDE DEF n
<1> DEFINE Done(k) ==
     \A i \in 1 .. n : i > n - k /\ src[i] \in Events /\ day[src[i]] \in w =>
                       Holds(g[k], src[i]) \/ Len(g[k]) = MaxRing
<1> DEFINE S == {k \in Nat : k <= n => Extends(given, g[k]) /\ Done(k)}
<1>4. \A k \in 0 .. n : Len(g[k]) \in Nat /\ Len(g[k]) <= MaxRing /\ g[k] \in Seq(Events)
  BY <1>3 DEF Answers
<1>5. 0 \in S
  <2>1. Extends(given, g[0])
    BY <1>1, <1>3, <1>4 DEF Extends
  <2>2. Done(0)
    BY <1>1
  <2>3. QED BY <2>1, <2>2
<1>6. ASSUME NEW k \in Nat, k \in S PROVE k + 1 \in S
  <2>1. SUFFICES ASSUME k + 1 <= n PROVE Extends(given, g[k + 1]) /\ Done(k + 1)
    OBVIOUS
  <2>2. /\ k + 1 \in 1 .. n /\ k \in 0 .. n /\ k + 1 \in 0 .. n /\ (k + 1) - 1 = k
        /\ Extends(given, g[k]) /\ Done(k)
    BY <1>1, <1>6, <2>1
  <2> DEFINE e == src[n - (k + 1) + 1]
  <2>3. g[k + 1] = Yield(g[k], e, w) /\ g[k] \in Answers
    BY <1>3, <2>2
  <2>4. n - (k + 1) + 1 \in 1 .. n /\ n - (k + 1) + 1 = n - k
    BY <1>1, <2>2
  <2>5. e \in Events \cup {None}
    BY <1>1, <2>4
  <2>6. /\ Extends(g[k], g[k + 1])
        /\ e \in Events /\ day[e] \in w => Holds(g[k + 1], e) \/ Len(g[k + 1]) = MaxRing
    BY <2>3, <2>5, YieldFacts
  <2>7. Len(g[k]) \in Nat /\ Len(g[k + 1]) \in Nat /\ Len(g[k + 1]) <= MaxRing /\ MaxRing \in Nat
    BY <1>4, <2>2, RecorderAssumption
  <2>8. Extends(given, g[k + 1])
    <3>1. Len(given) \in Nat
      BY DEF Answers
    <3>2. QED BY <2>2, <2>6, <2>7, <3>1 DEF Extends
  <2>9. Done(k + 1)
    <3> SUFFICES ASSUME NEW i \in 1 .. n, i > n - (k + 1), src[i] \in Events, day[src[i]] \in w
                 PROVE  Holds(g[k + 1], src[i]) \/ Len(g[k + 1]) = MaxRing
      OBVIOUS
    <3>1. CASE i = n - k
      BY <2>4, <2>6, <3>1
    <3>2. CASE i # n - k
      <4>1. i > n - k
        BY <1>1, <3>2
      <4>2. Holds(g[k], src[i]) \/ Len(g[k]) = MaxRing
        BY <2>2, <4>1
      <4>3. QED BY <2>6, <2>7, <4>2 DEF Extends
    <3>3. QED BY <3>1, <3>2
  <2>10. QED BY <2>8, <2>9
<1> HIDE DEF S
<1>7. n \in S
  BY <1>1, <1>5, <1>6, SetInduction
<1>8. Extends(given, g[n]) /\ Done(n)
  BY <1>1, <1>7 DEF S
<1>9. \A i \in 1 .. n : i > n - n
  BY <1>1
<1>10. QED BY <1>3, <1>8, <1>9 DEF n
\* The ring is given as it is, from its end.
LEMMA YieldRing ==
  ASSUME NEW src \in Answers, NEW w, \A i \in 1 .. Len(src) : day[src[i]] \in w
  PROVE  Len(YieldAll(<<>>, src, w)) = Len(src)
<1> DEFINE n == Len(src)
<1>1. /\ src \in Seq(Events) /\ n \in Nat /\ n <= MaxRing /\ MaxRing \in Nat
      /\ \A i, j \in 1 .. n : src[i] = src[j] => i = j
  BY RecorderAssumption DEF Answers
<1>2. src \in Seq(Events \cup {None}) /\ <<>> \in Answers /\ \A i \in 1 .. n : src[i] \in Events
  <2>1. <<>> \in Seq(Events) /\ Len(<<>>) = 0
    OBVIOUS
  <2>2. <<>> \in Answers
    BY <1>1, <2>1 DEF Answers
  <2>3. QED BY <1>1, <2>2
<1>2a. \A i \in 1 .. n : day[src[i]] \in w
  OBVIOUS
<1>3. PICK g : Yields(g, <<>>, src, w)
  BY <1>2, YieldAllRec
<1>4. /\ \A k \in 0 .. n : g[k] \in Answers
      /\ g[0] = <<>> /\ YieldAll(<<>>, src, w) = g[n]
      /\ \A k \in 1 .. n : g[k] = Yield(g[k - 1], src[n - k + 1], w)
  BY <1>3 DEF Yields
<1> HIDE DEF n
<1> DEFINE Same(k) == Len(g[k]) = k /\ \A i \in 1 .. k : g[k][i] = src[n - i + 1]
<1> DEFINE S == {k \in Nat : k <= n => Same(k)}
<1>5. 0 \in S
  BY <1>4
<1>6. ASSUME NEW k \in Nat, k \in S PROVE k + 1 \in S
  <2>1. SUFFICES ASSUME k + 1 <= n PROVE Same(k + 1)
    OBVIOUS
  <2>2. k + 1 \in 1 .. n /\ k \in 0 .. n /\ (k + 1) - 1 = k /\ Same(k)
    BY <1>1, <1>6, <2>1
  <2> DEFINE m == n - (k + 1) + 1
  <2>3. g[k + 1] = Yield(g[k], src[m], w) /\ g[k] \in Seq(Events)
    BY <1>4, <2>2 DEF Answers
  <2>4. m \in 1 .. n /\ \A i \in 1 .. k : n - i + 1 \in 1 .. n /\ n - i + 1 # m
    BY <1>1, <2>2
  <2>5. src[m] \in Events /\ src[m] # None /\ Len(g[k]) # MaxRing /\ day[src[m]] \in w
    BY <1>1, <1>2, <1>2a, <2>1, <2>2, <2>4, RecorderAssumption
  <2>6. ~Holds(g[k], src[m])
    <3>1. \A i \in 1 .. k : g[k][i] # src[m]
      BY <1>1, <2>2, <2>4
    <3>2. QED BY <2>2, <3>1 DEF Holds
  <2>7. g[k + 1] = Append(g[k], src[m])
    BY <2>3, <2>5, <2>6, HoldsRange DEF Yield
  <2>8. Len(g[k + 1]) = k + 1 /\ g[k + 1][k + 1] = src[m] /\ \A i \in 1 .. k : g[k + 1][i] = g[k][i]
    BY <2>2, <2>3, <2>5, <2>7
  <2>9. ASSUME NEW i \in 1 .. k + 1 PROVE g[k + 1][i] = src[n - i + 1]
    <3>1. CASE i = k + 1
      BY <2>8, <3>1
    <3>2. CASE i # k + 1
      <4>1. i \in 1 .. k
        BY <3>2
      <4>2. QED BY <2>2, <2>8, <4>1
    <3>3. QED BY <3>1, <3>2
  <2>10. QED BY <2>8, <2>9
<1> HIDE DEF S
<1>7. n \in S
  BY <1>1, <1>5, <1>6, SetInduction
<1>8. QED BY <1>1, <1>4, <1>7 DEF S, n

\* g[k] is the answer after the first k of the shards.
Shards(g, given, dates, w) ==
  /\ \A k \in 0 .. Len(dates) : g[k] \in Answers
  /\ g[0] = given /\ YieldShards(given, dates, w) = g[Len(dates)]
  /\ \A k \in 1 .. Len(dates) : g[k] = YieldAll(g[k - 1], ReadFile(dates[k]), w)

\* What a shard holds.
LEMMA ReadFact ==
  ASSUME AuditFile, NEW d \in Days
  PROVE  /\ ReadFile(d) \in Seq(Events \cup {None}) /\ Len(ReadFile(d)) = Len(file[d])
         /\ \A i \in 1 .. Len(file[d]) : ReadFile(d)[i] = IF Parses(file[d], i) THEN file[d][i].event ELSE None
<1> DEFINE f == file[d]
<1>1. f \in Seq(FileLines) /\ Len(f) \in Nat /\ \A i \in 1 .. Len(f) : f[i] \in FileLines
  BY DEF AuditFile
<1>2. \A i \in 1 .. Len(f) : f[i].event \in Events
  BY <1>1 DEF FileLines
<1>3. \A i \in 1 .. Len(f) : (IF Parses(f, i) THEN f[i].event ELSE None) \in Events \cup {None}
  BY <1>2
<1>4. ReadFile(d) = [i \in 1 .. Len(f) |-> IF Parses(f, i) THEN f[i].event ELSE None]
  BY DEF ReadFile
<1> HIDE DEF f
<1>5. QED BY <1>1, <1>3, <1>4 DEF f

\* The recursive function of YieldShards is defined for any dates.
LEMMA YieldShardsRec ==
  ASSUME AuditFile, NEW given \in Answers, NEW dates \in Seq(Days), NEW w
  PROVE  \E g : Shards(g, given, dates, w)
<1> DEFINE n == Len(dates)
<1> DEFINE src(i) == ReadFile(dates[i])
<1> DEFINE next == [i \in 1 .. n |-> [s \in Answers |-> YieldAll(s, src(i), w)]]
<1> DEFINE f(g) == [k \in 0 .. n |-> IF k = 0 THEN given ELSE YieldAll(g[k - 1], src(k), w)]
<1>1. n \in Nat /\ \A i \in 1 .. n : src(i) \in Seq(Events \cup {None})
  <2>1. n \in Nat /\ \A i \in 1 .. n : dates[i] \in Days
    OBVIOUS
  <2>2. QED BY <2>1, ReadFact
<1>0. YieldShards(given, dates, w) = (CHOOSE h : h = f(h))[n]
  BY DEF YieldShards
<1> HIDE DEF n, src
<1>2. \A i \in 1 .. n : \A s \in Answers : YieldAll(s, src(i), w) \in Answers
  BY <1>1, YieldAllFacts DEF Extends
<1>3. next \in Steps(n, Answers)
  BY <1>2 DEF Steps
<1> HIDE DEF next
<1>4. PICK g : Iterates(g, n, Answers, given, next)
  BY <1>1, <1>3, Iteration
<1>5. g \in [0 .. n -> Answers] /\ g[0] = given /\ \A i \in 1 .. n : g[i] = next[i][g[i - 1]]
  BY <1>4 DEF Iterates
<1>6. \A i \in 1 .. n : g[i] = YieldAll(g[i - 1], src(i), w)
  <2>0. \A i \in 1 .. n : i - 1 \in 0 .. n
    BY <1>1
  <2>1. \A i \in 1 .. n : g[i - 1] \in Answers
    BY <1>5, <2>0, Zenon
  <2>2. QED BY <1>5, <2>1 DEF next
<1>7. g = f(g)
  <2>1. \A k \in 0 .. n : g[k] = IF k = 0 THEN given ELSE YieldAll(g[k - 1], src(k), w)
    <3>1. \A k \in 0 .. n : k = 0 \/ (k # 0 /\ k \in 1 .. n)
      BY <1>1
    <3>2. QED BY <1>5, <1>6, <3>1, Zenon
  <2>2. g = [k \in 0 .. n |-> g[k]]
    BY <1>5
  <2>3. QED BY <2>1, <2>2, Zenon
<1> DEFINE after == CHOOSE h : h = f(h)
<1>8. after = f(after)
  BY <1>7
<1>9. YieldShards(given, dates, w) = after[n]
  BY <1>0
<1> HIDE DEF after
<1>10. \A k \in 0 .. n : after[k] = IF k = 0 THEN given ELSE YieldAll(after[k - 1], src(k), w)
  BY <1>8, Zenon
<1>11. after[0] = given /\ \A k \in 1 .. n : after[k] = YieldAll(after[k - 1], src(k), w)
  BY <1>1, <1>10
<1> HIDE DEF f
<1> DEFINE S == {k \in Nat : k <= n => after[k] \in Answers}
<1>12. 0 \in S
  BY <1>11
<1>13. ASSUME NEW k \in Nat, k \in S PROVE k + 1 \in S
  <2>1. SUFFICES ASSUME k + 1 <= n PROVE after[k + 1] \in Answers
    OBVIOUS
  <2>2. k + 1 \in 1 .. n /\ (k + 1) - 1 = k /\ after[k] \in Answers
    BY <1>1, <1>13, <2>1
  <2>3. after[k + 1] = YieldAll(after[k], src(k + 1), w)
    BY <1>11, <2>2
  <2>4. QED BY <1>2, <2>2, <2>3
<1> HIDE DEF S
<1>14. \A k \in Nat : k \in S
  BY <1>12, <1>13, SetInduction
<1>15. \A k \in 0 .. n : after[k] \in Answers
  BY <1>1, <1>14 DEF S
<1>16. Shards(after, given, dates, w)
  BY <1>9, <1>11, <1>15 DEF Shards, n, src
<1>17. QED BY <1>16

\* Every event of the shards is given, unless the answer is full.
LEMMA YieldShardsFacts ==
  ASSUME AuditFile, NEW given \in Answers, NEW dates \in Seq(Days), NEW w
  PROVE  /\ Extends(given, YieldShards(given, dates, w))
         /\ \A j \in 1 .. Len(dates) : \A e \in Events :
              ReadableIn(file[dates[j]], e) /\ day[e] \in w =>
                Holds(YieldShards(given, dates, w), e) \/ Len(YieldShards(given, dates, w)) = MaxRing
<1> DEFINE n == Len(dates)
<1>1. n \in Nat /\ \A j \in 1 .. n : dates[j] \in Days
  OBVIOUS
<1>2. PICK g : Shards(g, given, dates, w)
  BY YieldShardsRec
<1>3. /\ \A k \in 0 .. n : g[k] \in Answers
      /\ g[0] = given /\ YieldShards(given, dates, w) = g[n]
      /\ \A k \in 1 .. n : g[k] = YieldAll(g[k - 1], ReadFile(dates[k]), w)
  BY <1>2 DEF Shards
<1> HIDE DEF n
<1> DEFINE Done(k) ==
     \A j \in 1 .. n : \A e \in Events : j <= k /\ ReadableIn(file[dates[j]], e) /\ day[e] \in w =>
                       Holds(g[k], e) \/ Len(g[k]) = MaxRing
<1> DEFINE S == {k \in Nat : k <= n => Extends(given, g[k]) /\ Done(k)}
<1>4. \A k \in 0 .. n : Len(g[k]) \in Nat /\ Len(g[k]) <= MaxRing /\ g[k] \in Seq(Events)
  BY <1>3 DEF Answers
<1>5. 0 \in S
  <2>1. Extends(given, g[0])
    BY <1>1, <1>3, <1>4 DEF Extends
  <2>2. Done(0)
    BY <1>1
  <2>3. QED BY <2>1, <2>2
<1>6. ASSUME NEW k \in Nat, k \in S PROVE k + 1 \in S
  <2>1. SUFFICES ASSUME k + 1 <= n PROVE Extends(given, g[k + 1]) /\ Done(k + 1)
    OBVIOUS
  <2>2. /\ k + 1 \in 1 .. n /\ k \in 0 .. n /\ k + 1 \in 0 .. n /\ (k + 1) - 1 = k
        /\ Extends(given, g[k]) /\ Done(k)
    BY <1>1, <1>6, <2>1
  <2> DEFINE d == dates[k + 1]
  <2> DEFINE src == ReadFile(d)
  <2>3. g[k + 1] = YieldAll(g[k], src, w) /\ g[k] \in Answers
    BY <1>3, <2>2
  <2>4. d \in Days
    BY <1>1, <2>2
  <2>5. /\ src \in Seq(Events \cup {None}) /\ Len(src) = Len(file[d])
        /\ \A i \in 1 .. Len(file[d]) : src[i] = IF Parses(file[d], i) THEN file[d][i].event ELSE None
    BY <2>4, ReadFact
  <2> HIDE DEF src, d
  <2>6. /\ Extends(g[k], g[k + 1])
        /\ \A i \in 1 .. Len(src) : src[i] \in Events /\ day[src[i]] \in w =>
             Holds(g[k + 1], src[i]) \/ Len(g[k + 1]) = MaxRing
    BY <2>3, <2>5, YieldAllFacts
  <2>7. Len(g[k]) \in Nat /\ Len(g[k + 1]) \in Nat /\ Len(g[k + 1]) <= MaxRing /\ MaxRing \in Nat
    BY <1>4, <2>2, RecorderAssumption
  <2>8. Extends(given, g[k + 1])
    <3>1. Len(given) \in Nat
      BY DEF Answers
    <3>2. QED BY <2>2, <2>6, <2>7, <3>1 DEF Extends
  <2>9. ASSUME NEW j \in 1 .. n, NEW e \in Events, j <= k + 1, ReadableIn(file[dates[j]], e), day[e] \in w
        PROVE  Holds(g[k + 1], e) \/ Len(g[k + 1]) = MaxRing
    <3>1. CASE j = k + 1
      <4>1. PICK i \in 1 .. Len(file[d]) : Parses(file[d], i) /\ file[d][i].event = e
        BY <2>9, <3>1 DEF ReadableIn, Parses, d
      <4>2. src[i] = e /\ i \in 1 .. Len(src)
        BY <2>5, <4>1
      <4>3. QED BY <2>6, <2>9, <4>2
    <3>2. CASE j # k + 1
      <4>1. j <= k
        BY <1>1, <2>9, <3>2
      <4>2. Holds(g[k], e) \/ Len(g[k]) = MaxRing
        BY <2>2, <2>9, <4>1
      <4>3. QED BY <2>6, <2>7, <4>2 DEF Extends
    <3>3. QED BY <3>1, <3>2
  <2>10. QED BY <2>8, <2>9
<1> HIDE DEF S
<1>7. n \in S
  BY <1>1, <1>5, <1>6, SetInduction
<1>8. Extends(given, g[n]) /\ Done(n)
  BY <1>1, <1>7 DEF S
<1>9. \A j \in 1 .. n : j <= n
  BY <1>1
<1>10. QED BY <1>3, <1>8, <1>9 DEF n

\* The ring holds each event once, and all that are on their way, unless it
\* has had to drop some.
RingInv ==
  /\ ring \in Answers /\ \A i \in 1 .. Len(ring) : stage[ring[i]] # "new"
  /\ \A e \in Events : stage[e] \in InFlight => Holds(ring, e) \/ Len(ring) = MaxRing
  /\ \A e \in Events : /\ stage[e] = "new" => result[e] = "none"
                       /\ stage[e] = "refused" => result[e] = "false"

\* The inductive invariant of queries.
QueryInv == AuditInv /\ RingInv

\* The events of the window that are in the ring, and those that are in the
\* shards of the dates, are given unless the answer is full.
LEMMA QueryFact ==
  ASSUME AuditFile, ring \in Answers, NEW dates \in Seq(Days), NEW w
  PROVE  /\ IterEvents(w, dates) \in Answers
         /\ \A e \in Events : /\ day[e] \in w
                              /\ \/ Holds(ring, e)
                                 \/ \E j \in 1 .. Len(dates) : ReadableIn(file[dates[j]], e)
                              => Holds(IterEvents(w, dates), e) \/ Len(IterEvents(w, dates)) = MaxRing
         /\ Len(ring) = MaxRing /\ (\A e \in Events : day[e] \in w) => Len(IterEvents(w, dates)) = MaxRing
<1> DEFINE first == YieldAll(<<>>, ring, w)
<1> DEFINE given == IterEvents(w, dates)
<1>1. /\ ring \in Seq(Events) /\ ring \in Seq(Events \cup {None}) /\ <<>> \in Answers
      /\ Len(ring) \in Nat /\ MaxRing \in Nat /\ \A i \in 1 .. Len(ring) : ring[i] \in Events
  <2>1. ring \in Seq(Events) /\ <<>> \in Seq(Events) /\ Len(<<>>) = 0 /\ MaxRing \in Nat
    BY RecorderAssumption DEF Answers
  <2>2. <<>> \in Answers
    BY <2>1 DEF Answers
  <2>3. QED BY <2>1, <2>2
<1>2. /\ first \in Answers
      /\ \A i \in 1 .. Len(ring) : day[ring[i]] \in w => Holds(first, ring[i]) \/ Len(first) = MaxRing
  BY <1>1, YieldAllFacts DEF Extends
<1>3. (\A e \in Events : day[e] \in w) => Len(first) = Len(ring)
  BY <1>1, YieldRing
<1>3a. given = YieldShards(first, dates, w)
  BY DEF IterEvents
<1> HIDE DEF first, given
<1>4. /\ given \in Answers /\ Len(first) <= Len(given) /\ (\A e : Holds(first, e) => Holds(given, e))
      /\ \A j \in 1 .. Len(dates) : \A e \in Events :
           ReadableIn(file[dates[j]], e) /\ day[e] \in w => Holds(given, e) \/ Len(given) = MaxRing
  BY <1>2, <1>3a, YieldShardsFacts DEF Extends
<1>5. Len(given) \in Nat /\ Len(given) <= MaxRing /\ Len(first) \in Nat
  BY <1>2, <1>4 DEF Answers
<1>6. ASSUME NEW e \in Events, day[e] \in w, Holds(ring, e)
      PROVE  Holds(given, e) \/ Len(given) = MaxRing
  <2>1. Holds(first, e) \/ Len(first) = MaxRing
    BY <1>2, <1>6 DEF Holds
  <2>2. QED BY <1>1, <1>4, <1>5, <2>1
<1>7. Len(ring) = MaxRing /\ (\A e \in Events : day[e] \in w) => Len(given) = MaxRing
  BY <1>1, <1>3, <1>4, <1>5
<1>8. QED BY <1>4, <1>6, <1>7 DEF given

\* An answer that gives what is wanted.
LEMMA CompleteFact ==
  ASSUME NEW s \in Answers, NEW W \in SUBSET Events, \A e \in W : Holds(s, e) \/ Len(s) = MaxRing
  PROVE  Complete(s, W)
<1>1. s \in Seq(Events) /\ DOMAIN s = 1 .. Len(s) /\ \A i, j \in 1 .. Len(s) : s[i] = s[j] => i = j
  BY DEF Answers
<1>2. IsInjective(s)
  BY <1>1 DEF IsInjective
<1>3. \A e : e \in Range(s) <=> Holds(s, e)
  BY <1>1, HoldsRange
<1>4. QED BY <1>2, <1>3 DEF Complete

\* What the invariant says about the answers to queries: what is on its way is
\* in the ring, what was written is in the shard of its day.
LEMMA QueryImplies == ~MayTear /\ QueryInv => QueryAnswers
<1> SUFFICES ASSUME ~MayTear, QueryInv PROVE QueryAnswers
  OBVIOUS
<1>1. AuditTyped /\ AuditFile /\ AuditDisk /\ RingInv /\ ring \in Answers
  BY DEF QueryInv, AuditInv, RingInv
<1>2. \A e \in Events : day[e] \in Days
  BY <1>1 DEF AuditFile
<1>3. ASSUME NEW e \in Events, result[e] = "true", stage[e] \in {"settled", "finished"}
      PROVE  ReadableIn(file[day[e]], e)
  BY <1>1, <1>3 DEF AuditDisk
<1>4. \A e : e \in Range(ring) <=> Holds(ring, e)
  BY <1>1, HoldsRange DEF Answers
<1> DEFINE found == {e \in Recorded : e \in Range(ring) \/ stage[e] \in {"settled", "finished"}}
<1>5. ASSUME NEW from \in Days, NEW to \in Days, from <= to
      PROVE  Complete(Within(from, to), {e \in found : day[e] \in from .. to})
  <2> DEFINE dates == DatesInWindow(from, to)
  <2> DEFINE given == Within(from, to)
  <2>1. from \in Nat /\ to \in Nat /\ from >= 1 /\ to <= MaxDays /\ MaxDays \in Nat /\ to - from + 1 \in Nat
    BY <1>5, RecorderAssumption DEF Days
  <2>2. dates \in Seq(Days) /\ Len(dates) = to - from + 1
        /\ \A j \in 1 .. to - from + 1 : dates[j] = from + j - 1
    <3>1. \A j \in 1 .. to - from + 1 : from + j - 1 \in Days
      BY <2>1 DEF Days
    <3>2. dates = [j \in 1 .. to - from + 1 |-> from + j - 1]
      BY DEF DatesInWindow
    <3> HIDE DEF dates
    <3>3. QED BY <2>1, <3>1, <3>2
  <2>3. given = IterEvents(from .. to, dates)
    BY DEF Within
  <2> HIDE DEF dates, given
  <2>4. given \in Answers
    BY <1>1, <2>2, <2>3, QueryFact
  <2>5. ASSUME NEW e \in found, day[e] \in from .. to
        PROVE  Holds(given, e) \/ Len(given) = MaxRing
    <3>1. e \in Events /\ (Holds(ring, e) \/ stage[e] \in {"settled", "finished"}) /\ result[e] = "true"
      BY <1>4, <2>5 DEF Recorded
    <3>2. CASE Holds(ring, e)
      BY <1>1, <2>2, <2>3, <2>5, <3>1, <3>2, QueryFact
    <3>3. CASE stage[e] \in {"settled", "finished"}
      <4>1. ReadableIn(file[day[e]], e)
        BY <1>3, <3>1, <3>3
      <4>2. day[e] - from + 1 \in 1 .. Len(dates) /\ dates[day[e] - from + 1] = day[e]
        <5>1. day[e] \in Nat /\ from <= day[e] /\ day[e] <= to
          BY <2>1, <2>5
        <5> DEFINE j == day[e] - from + 1
        <5>2. j \in 1 .. to - from + 1 /\ from + j - 1 = day[e]
          BY <2>1, <5>1
        <5> HIDE DEF j
        <5>3. j \in 1 .. Len(dates) /\ dates[j] = day[e]
          BY <2>2, <5>2
        <5>4. QED BY <5>3 DEF j
      <4>3. \E j \in 1 .. Len(dates) : ReadableIn(file[dates[j]], e)
        BY <4>1, <4>2
      <4>4. QED BY <1>1, <2>2, <2>3, <2>5, <3>1, <4>3, QueryFact
    <3>4. QED BY <3>1, <3>2, <3>3
  <2>6. {e \in found : day[e] \in from .. to} \in SUBSET Events
    BY DEF Recorded
  <2>7. QED BY <2>4, <2>5, <2>6, CompleteFact DEF given
<1>6. Complete(Recent, {e \in Recorded : day[e] = today \/ e \in Range(ring)})
  <2> DEFINE dates == <<today>>
  <2> DEFINE given == Recent
  <2>1. dates \in Seq(Days) /\ Len(dates) = 1 /\ dates[1] = today
    BY <1>1 DEF AuditFile
  <2>2. given = IterEvents(Days, dates)
    BY DEF Recent
  <2> HIDE DEF dates, given
  <2>3. /\ given \in Answers
        /\ \A e \in Events : Holds(ring, e) \/ (\E j \in 1 .. Len(dates) : ReadableIn(file[dates[j]], e))
                               => Holds(given, e) \/ Len(given) = MaxRing
        /\ Len(ring) = MaxRing => Len(given) = MaxRing
    BY <1>1, <1>2, <2>1, <2>2, QueryFact
  <2>4. ASSUME NEW e \in Recorded, day[e] = today \/ e \in Range(ring)
        PROVE  Holds(given, e) \/ Len(given) = MaxRing
    <3>1. e \in Events /\ result[e] = "true" /\ stage[e] # "lost" /\ (day[e] = today \/ Holds(ring, e))
      BY <1>4, <2>4 DEF Recorded
    <3>2. stage[e] \in InFlight \/ stage[e] \in {"settled", "finished"}
      BY <1>1, <3>1 DEF RingInv, AuditTyped, Stages, InFlight
    <3>3. CASE stage[e] \in InFlight
      <4>1. Holds(ring, e) \/ Len(ring) = MaxRing
        BY <1>1, <3>1, <3>3 DEF RingInv
      <4>2. QED BY <2>3, <3>1, <4>1
    <3>4. CASE stage[e] \in {"settled", "finished"} /\ day[e] = today
      <4>1. ReadableIn(file[today], e)
        BY <1>3, <3>1, <3>4
      <4>2. \E j \in 1 .. Len(dates) : ReadableIn(file[dates[j]], e)
        BY <2>1, <4>1
      <4>3. QED BY <2>3, <3>1, <4>2
    <3>5. CASE Holds(ring, e)
      BY <2>3, <3>1, <3>5
    <3>6. QED BY <3>1, <3>2, <3>3, <3>4, <3>5
  <2>5. {e \in Recorded : day[e] = today \/ e \in Range(ring)} \in SUBSET Events
    BY DEF Recorded
  <2>6. QED BY <2>3, <2>4, <2>5, CompleteFact DEF given
<1>7. QED BY <1>5, <1>6 DEF QueryAnswers

\* A step that leaves the ring alone and takes no event in.
LEMMA RingStays ==
  ASSUME RingInv, ring' = ring,
         \A e \in Events :
           /\ stage'[e] \in InFlight => stage[e] \in InFlight
           /\ stage'[e] = "new" => stage[e] = "new" /\ result'[e] = result[e]
           /\ stage'[e] = "refused" => result'[e] = "false" \/ (stage[e] = "refused" /\ result'[e] = result[e])
  PROVE  RingInv'
<1>1. \A i \in 1 .. Len(ring) : ring[i] \in Events
  BY DEF RingInv, Answers
<1>2. ring' \in Answers /\ \A i \in 1 .. Len(ring') : stage'[ring'[i]] # "new"
  BY <1>1 DEF RingInv
<1>3. \A e \in Events : stage'[e] \in InFlight => Holds(ring', e) \/ Len(ring') = MaxRing
  BY DEF RingInv
<1>4. \A e \in Events : /\ stage'[e] = "new" => result'[e] = "none"
                        /\ stage'[e] = "refused" => result'[e] = "false"
  BY DEF RingInv
<1>5. QED BY <1>2, <1>3, <1>4 DEF RingInv

\* record puts an event into the ring, which drops its oldest when it is full.
LEMMA RingAccept ==
  ASSUME QueryInv, NEW e \in Events, Accept(e)
  PROVE  RingInv'
<1>1. AuditTyped /\ RingInv
  BY DEF QueryInv, AuditInv
<1>2. /\ stage \in [Events -> Stages] /\ stage[e] = "new" /\ stage' = [stage EXCEPT ![e] = "counted"]
      /\ ring' = (IF Len(ring) < MaxRing THEN Append(ring, e) ELSE Append(Tail(ring), e))
      /\ UNCHANGED result
  BY <1>1 DEF Accept, AuditTyped
<1>3. /\ ring \in Seq(Events) /\ Len(ring) \in Nat /\ Len(ring) <= MaxRing /\ MaxRing \in Nat \ {0}
      /\ \A i, j \in 1 .. Len(ring) : ring[i] = ring[j] => i = j
      /\ \A i \in 1 .. Len(ring) : ring[i] \in Events /\ stage[ring[i]] # "new" /\ ring[i] # e
  BY <1>1, <1>2, RecorderAssumption DEF RingInv, Answers
<1>4. PICK old \in Seq(Events) :
        /\ ring' = Append(old, e) /\ Len(old) \in Nat /\ Len(old) + 1 <= MaxRing
        /\ \A i, j \in 1 .. Len(old) : old[i] = old[j] => i = j
        /\ \A i \in 1 .. Len(old) : stage[old[i]] # "new" /\ old[i] # e
        /\ \/ (\A d : Holds(ring, d) => Holds(old, d)) /\ Len(old) = Len(ring)
           \/ Len(old) + 1 = MaxRing
  <2>1. CASE Len(ring) < MaxRing
    BY <1>2, <1>3, <2>1
  <2>2. CASE ~(Len(ring) < MaxRing)
    <3> DEFINE t == Tail(ring)
    <3>1. ring # <<>> /\ Len(ring) = MaxRing
      BY <1>3, <2>2
    <3>2. t \in Seq(Events) /\ Len(t) = Len(ring) - 1 /\ \A i \in 1 .. Len(t) : t[i] = ring[i + 1]
      BY <1>3, <3>1
    <3> HIDE DEF t
    <3>3. Len(t) \in Nat /\ Len(t) + 1 = MaxRing /\ \A i \in 1 .. Len(t) : i + 1 \in 1 .. Len(ring)
      BY <1>3, <3>1, <3>2
    <3>4. \A i, j \in 1 .. Len(t) : t[i] = t[j] => i = j
      <4> TAKE i, j \in 1 .. Len(t)
      <4>1. t[i] = ring[i + 1] /\ t[j] = ring[j + 1] /\ i + 1 \in 1 .. Len(ring) /\ j + 1 \in 1 .. Len(ring)
        BY <3>2, <3>3
      <4>2. t[i] = t[j] => i + 1 = j + 1
        BY <1>3, <4>1
      <4>3. QED BY <4>2
    <3>5. \A i \in 1 .. Len(t) : stage[t[i]] # "new" /\ t[i] # e
      BY <1>3, <3>2, <3>3
    <3>6. ring' = Append(t, e) /\ Len(t) + 1 <= MaxRing
      BY <1>2, <1>3, <2>2, <3>3 DEF t
    <3>7. QED BY <3>2, <3>3, <3>4, <3>5, <3>6
  <2>3. QED BY <2>1, <2>2
<1>5. /\ ring' \in Seq(Events) /\ Len(ring') = Len(old) + 1 /\ ring'[Len(old) + 1] = e
      /\ \A i \in 1 .. Len(old) : ring'[i] = old[i] /\ old[i] \in Events
  BY <1>4
<1>6. \A i \in 1 .. Len(ring') : i \in 1 .. Len(old) \/ i = Len(old) + 1
  BY <1>4, <1>5
<1>7. \A i, j \in 1 .. Len(ring') : ring'[i] = ring'[j] => i = j
  BY <1>4, <1>5, <1>6
<1>8. ring' \in Answers
  BY <1>4, <1>5, <1>7 DEF Answers
<1>9. \A i \in 1 .. Len(ring') : stage'[ring'[i]] # "new"
  BY <1>2, <1>4, <1>5, <1>6
<1>10. 1 .. Len(old) \subseteq 1 .. Len(ring') /\ Len(old) + 1 \in 1 .. Len(ring')
  BY <1>4, <1>5
<1>11. Holds(ring', e) /\ \A d : Holds(old, d) => Holds(ring', d)
  BY <1>5, <1>10 DEF Holds
<1>12. ASSUME NEW d \in Events, stage'[d] \in InFlight PROVE Holds(ring', d) \/ Len(ring') = MaxRing
  <2>1. CASE d = e
    BY <1>11, <2>1
  <2>2. CASE d # e
    <3>1. stage[d] \in InFlight
      BY <1>2, <1>12, <2>2
    <3>2. Holds(ring, d) \/ Len(ring) = MaxRing
      BY <1>1, <3>1 DEF RingInv
    <3>3. CASE Len(old) + 1 = MaxRing
      BY <1>5, <3>3
    <3>4. CASE (\A x : Holds(ring, x) => Holds(old, x)) /\ Len(old) = Len(ring)
      <4>1. Len(ring) # MaxRing
        BY <1>3, <1>4, <3>4
      <4>2. QED BY <1>11, <3>2, <3>4, <4>1
    <3>5. QED BY <1>4, <3>3, <3>4
  <2>3. QED BY <2>1, <2>2
<1>13. \A d \in Events : /\ stage'[d] = "new" => result'[d] = "none"
                         /\ stage'[d] = "refused" => result'[d] = "false"
  BY <1>1, <1>2 DEF RingInv
<1>14. QED BY <1>8, <1>9, <1>12, <1>13 DEF RingInv

\* Every step keeps the invariant of the ring.
LEMMA RingNext ==
  ASSUME QueryInv, [Next]_vars
  PROVE  RingInv'
<1>1. AuditTyped /\ RingInv /\ AuditLock /\ AuditQueue
  BY DEF QueryInv, AuditInv
<1>2. stage \in [Events -> Stages] /\ result \in [Events -> {"none", "true", "false"}]
  BY <1>1 DEF AuditTyped
<1>3. ASSUME NEW e \in Events, NEW s \in Stages, Becomes(e, s), ring' = ring, s # "new",
             s \in InFlight => stage[e] \in InFlight,
             \A d \in Events \ {e} : result'[d] = result[d],
             s = "refused" => result'[e] = "false"
      PROVE  RingInv'
  <2>1. stage'[e] = s /\ \A d \in Events \ {e} : stage'[d] = stage[d]
    BY <1>2, <1>3 DEF Becomes
  <2>2. ASSUME NEW d \in Events
        PROVE  /\ stage'[d] \in InFlight => stage[d] \in InFlight
               /\ stage'[d] = "new" => stage[d] = "new" /\ result'[d] = result[d]
               /\ stage'[d] = "refused" => result'[d] = "false" \/ (stage[d] = "refused" /\ result'[d] = result[d])
    <3>1. CASE d = e
      BY <1>3, <2>1, <3>1
    <3>2. CASE d # e
      BY <1>3, <2>1, <3>2
    <3>3. QED BY <3>1, <3>2
  <2>3. QED BY <1>1, <1>3, <2>2, RingStays
<1>4. CASE UNCHANGED <<stage, result, ring>>
  BY <1>1, <1>4, RingStays
<1>5. ASSUME NEW e \in Events, Refuse(e) PROVE RingInv'
  <2>1. /\ Becomes(e, "refused") /\ ring' = ring /\ result' = [result EXCEPT ![e] = "false"]
        /\ "refused" \in Stages /\ "refused" \notin InFlight
    BY <1>5 DEF Refuse, Becomes, Stages, InFlight
  <2>2. QED BY <1>2, <1>3, <2>1
<1>6. ASSUME NEW e \in Events, Accept(e) PROVE RingInv'
  BY <1>6, RingAccept
<1>7. ASSUME NEW e \in Events, Enqueue(e) PROVE RingInv'
  <2>1. /\ Becomes(e, "queued") /\ ring' = ring /\ result' = [result EXCEPT ![e] = "true"]
        /\ "queued" \in Stages /\ stage[e] \in InFlight
    BY <1>7 DEF Enqueue, Becomes, Stages, InFlight
  <2>2. QED BY <1>2, <1>3, <2>1
<1>8. ASSUME NEW e \in Events, Overflow(e) PROVE RingInv'
  <2>1. /\ Becomes(e, "overflow") /\ ring' = ring /\ result' = result
        /\ "overflow" \in Stages /\ stage[e] \in InFlight
    BY <1>8 DEF Overflow, Becomes, Stages, InFlight
  <2>2. QED BY <1>3, <2>1
<1>9. ASSUME NEW e \in Events, Lock(e) PROVE RingInv'
  <2>1. UNCHANGED <<stage, result, ring>>
    BY <1>9 DEF Lock, recordVars
  <2>2. QED BY <1>4, <2>1
<1>10. ASSUME NEW e \in Events, Written(e) PROVE RingInv'
  <2>1. /\ Becomes(e, "settled") /\ ring' = ring /\ \A d \in Events \ {e} : result'[d] = result[d]
        /\ "settled" \in Stages /\ stage[e] \in InFlight
    <3>1. writeLock = e /\ writeLock # None
      BY <1>10, RecorderAssumption DEF Written
    <3>2. stage[e] \in InFlight
      BY <1>1, <3>1 DEF AuditLock, InFlight
    <3>3. QED BY <1>2, <1>10, <3>2 DEF Written, Becomes, Stages
  <2>2. QED BY <1>3, <2>1
<1>11. ASSUME NEW e \in Events, WriteFails(e) PROVE RingInv'
  <2>1. CASE UNCHANGED <<stage, result, ring>>
    BY <1>4, <2>1
  <2>2. CASE stage[e] = "overflow" /\ stage' = [stage EXCEPT ![e] = "settled"]
             /\ result' = [result EXCEPT ![e] = "false"]
    <3>1. /\ Becomes(e, "settled") /\ ring' = ring /\ \A d \in Events \ {e} : result'[d] = result[d]
          /\ "settled" \in Stages /\ stage[e] \in InFlight
      BY <1>2, <1>11, <2>2 DEF WriteFails, Becomes, Stages, InFlight
    <3>2. QED BY <1>3, <3>1
  <2>3. QED BY <1>11, <2>1, <2>2 DEF WriteFails
<1>12. ASSUME NEW e \in Events, FinishPending(e) PROVE RingInv'
  <2>1. /\ Becomes(e, "finished") /\ ring' = ring /\ result' = result
        /\ "finished" \in Stages /\ "finished" \notin InFlight
    BY <1>12 DEF FinishPending, Becomes, Stages, InFlight
  <2>2. QED BY <1>3, <2>1
<1>13. CASE Take
  <2>1. queue # <<>> /\ queue \in Seq(Events)
    BY <1>1, <1>13 DEF Take, AuditQueue
  <2>2. Head(queue) \in Events /\ stage[Head(queue)] = "queued"
    <3>1. 1 \in 1 .. Len(queue) /\ Head(queue) = queue[1]
      BY <2>1
    <3>2. QED BY <1>1, <2>1, <3>1 DEF AuditQueue
  <2>3. /\ Becomes(Head(queue), "taken") /\ ring' = ring /\ result' = result
        /\ "taken" \in Stages /\ stage[Head(queue)] \in InFlight
    BY <1>13, <2>2 DEF Take, Becomes, Stages, InFlight
  <2>4. QED BY <1>3, <2>2, <2>3
<1>14. CASE ShortWrite \/ WriterExits \/ CloseBegins \/ CloseDrained \/ CloseTimesOut \/ CloseReturns
  <2>1. UNCHANGED <<stage, result, ring>>
    BY <1>14 DEF ShortWrite, WriterExits, CloseBegins, CloseDrained, CloseTimesOut, CloseReturns, recordVars
  <2>2. QED BY <1>4, <2>1
<1>15. CASE Crash
  <2>1. /\ ring' = <<>> /\ result' = result
        /\ stage' = [e \in Events |->
                 IF \/ stage[e] \in InFlight
                    \/ stage[e] = "finished" /\ result[e] = "false"
                 THEN "lost" ELSE stage[e]]
    BY <1>15 DEF Crash
  <2>2. "lost" \notin InFlight
    BY DEF InFlight
  <2>3. <<>> \in Seq(Events) /\ Len(<<>>) = 0 /\ MaxRing \in Nat
    BY RecorderAssumption
  <2>4. ring' \in Answers /\ \A i \in 1 .. Len(ring') : stage'[ring'[i]] # "new"
    BY <2>1, <2>3 DEF Answers
  <2>5. \A e \in Events : stage'[e] \notin InFlight
    BY <2>1, <2>2
  <2>6. \A e \in Events : /\ stage'[e] = "new" => result'[e] = "none"
                          /\ stage'[e] = "refused" => result'[e] = "false"
    BY <1>1, <2>1 DEF RingInv
  <2>7. QED BY <2>4, <2>5, <2>6 DEF RingInv
<1>16. CASE Midnight \/ UNCHANGED vars
  <2>1. UNCHANGED <<stage, result, ring>>
    BY <1>16 DEF Midnight, vars, recordVars
  <2>2. QED BY <1>4, <2>1
<1>17. QED BY <1>5, <1>6, <1>7, <1>8, <1>9, <1>10, <1>11, <1>12, <1>13, <1>14, <1>15, <1>16 DEF Next

\* For any number of events and days and any size of ring and queue, as long
\* as a failing write leaves no torn line: a query gives each event once.  An
\* event for which record() returned True and that is in the ring or written,
\* on whatever day and also before a crash, is missing from the answer for a
\* window it falls in only when that is full of others; the answer without a
\* window misses no event of the ring or of today, except when it is full
\* (recorder.py:275-290, 330-375, 378-393).
THEOREM QueriesAlwaysAnswer == ~MayTear => (Spec => []QueryAnswers)
<1> SUFFICES ASSUME ~MayTear PROVE Spec => []QueryAnswers
  OBVIOUS
<1>1. Init => QueryInv
  <2> SUFFICES ASSUME Init PROVE QueryInv
    OBVIOUS
  <2>1. <<>> \in Seq(Events) /\ Len(<<>>) = 0 /\ MaxRing \in Nat
    BY RecorderAssumption
  <2>2. ring \in Answers /\ Len(ring) = 0
    BY <2>1 DEF Init, Answers
  <2>3. \A e \in Events : stage[e] = "new" /\ result[e] = "none"
    BY DEF Init
  <2>4. RingInv
    BY <2>2, <2>3 DEF RingInv, InFlight
  <2>5. QED BY <2>4, AuditInitOK DEF QueryInv
<1>2. QueryInv /\ [Next]_vars => QueryInv'
  BY AuditNextKeeps, RingNext DEF QueryInv
<1>3. QueryInv => QueryAnswers
  BY QueryImplies
<1>4. QED BY <1>1, <1>2, <1>3, PTL DEF Spec
=============================================================================
