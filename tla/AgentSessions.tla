---------------------------- MODULE AgentSessions ----------------------------
(***************************************************************************)
(* The assistant's sessions: host/api/handlers/agent.py (sessions, history *)
(* and the blocking chat), host/api/handlers/agent_stream.py (the same     *)
(* loop in a worker thread, its events sent to the browser) and the parts  *)
(* of host/service/llm.py and host/agent/tools.py that decide how a step   *)
(* of the loop ends.                                                       *)
(*                                                                         *)
(* A turn is one request with one user message.  Its handler thread holds  *)
(* the session's lock; the loop runs in the handler of a chat and in a     *)
(* worker of its own for a stream, and the handler of a stream lets the    *)
(* session go after ten seconds whether or not the worker has ended.  The  *)
(* history has no lock of its own: to trim it a turn reads a shorter one   *)
(* and assigns it later, over whatever was appended in between.  A         *)
(* message is its role, the turn it belongs to and a number: how many      *)
(* calls an "ask" (an assistant message with tool_calls) makes, which of   *)
(* them a "tool" message answers.                                          *)
(***************************************************************************)
EXTENDS Tables, FiniteSets, FiniteSetsExt

CONSTANTS Sessions, Chats, Streams, None,
          MaxSessions,  \* MAX_SESSIONS
          MaxMessages,  \* MAX_MESSAGES
          Budget,       \* history_budget, in messages
          MaxToolIter,  \* MAX_TOOL_ITER
          MaxCalls,     \* tool calls of one reply (bound of the model)
          Permits,      \* MAX_LLM_CONCURRENCY
          StreamCap     \* KIND_CAPS["agent"]

Turns == Chats \cup Streams

ASSUME AgentAssumption ==
  /\ Chats \cap Streams = {} /\ None \notin Turns
  /\ {MaxSessions, MaxMessages, Budget, MaxToolIter, MaxCalls, Permits, StreamCap}
        \subseteq Nat \ {0}

VARIABLES
  table,      \* _SESSIONS: session ids, least recently used first
  created,    \* ids handed out so far
  aged,       \* listed sessions not touched for TTL_SECONDS
  history,    \* sess["messages"]
  slice,      \* the shorter history a turn has read and not assigned yet
  lock,       \* sess["_lock"]: the turn that holds it
  at,         \* where the handler of a turn is
  of,         \* the session of a turn
  step,       \* where the loop of a turn is
  round,      \* tool rounds done
  todo,       \* calls of the current reply not answered yet
  permits,    \* LLM_CONCURRENCY_SEM: permits taken
  hub,        \* streams registered with HUB
  unaudited,  \* turns that ran a write tool not recorded yet
  cut         \* sessions with a stream that was cut short

agentVars == <<table, created, aged, history, slice, lock, at, of, step, round, todo,
               permits, hub, unaudited, cut>>

Message(role, t, n) == [role |-> role, turn |-> t, n |-> n]

AgentInit ==
  /\ table = <<>> /\ created = {} /\ aged = {} /\ cut = {}
  /\ history = [s \in Sessions |-> <<>>]
  /\ slice = [t \in Turns |-> <<>>]
  /\ lock = [s \in Sessions |-> None]
  /\ at = [t \in Turns |-> "new"]
  /\ of = [t \in Turns |-> None]
  /\ step = [t \in Turns |-> "idle"]
  /\ round = [t \in Turns |-> 0]
  /\ todo = [t \in Turns |-> 0]
  /\ permits = 0 /\ hub = {} /\ unaudited = {}

-----------------------------------------------------------------------------
(* The history of a session.                                               *)

\* Slip: messages are dropped one by one.
DropOldestMessage(msgs) == Tail(msgs)

\* Everything before the second user message goes, or one message where there
\* is no user message.  The list is read in one step.
DropOldestRound(msgs) ==
  LET users == {i \in DOMAIN msgs : msgs[i].role = "user"}
      later == users \ {Min(users)}
  IN  IF users = {} THEN Tail(msgs)
      ELSE IF later = {} THEN <<>>
      ELSE SubSeq(msgs, Min(later), Len(msgs))

\* Slip: a history may begin anywhere.
RoundStartsAnywhere(msgs) == {1} \cup DOMAIN msgs

\* Where the history may begin after _drop_oldest_round was applied any number
\* of times.
RoundStarts(msgs) ==
  LET users == {i \in DOMAIN msgs : msgs[i].role = "user"}
  IN  {1} \cup (IF users = {} THEN DOMAIN msgs ELSE users \ {Min(users)})

\* Rounds are dropped while there is too much, but never the last one.
\* Slip: the last round is not spared.
ShortenToNothing(msgs, limit) ==
  LET fits == {i \in RoundStarts(msgs) : Len(msgs) - i < limit}
  IN  SubSeq(msgs, IF fits = {} THEN Len(msgs) + 1 ELSE Min(fits), Len(msgs))

Shorten(msgs, limit) ==
  LET fits == {i \in RoundStarts(msgs) : Len(msgs) - i < limit}
  IN  SubSeq(msgs, IF fits = {} THEN Max(RoundStarts(msgs)) ELSE Min(fits), Len(msgs))

\* What is sent to the model: the system message (one message of the budget)
\* and what the budget leaves of the history.
TrimHistory(msgs) == Shorten(msgs, Budget - 1)

\* _touch: the session is fresh and, if it is still listed, the last to go.
Touched(tab, s) == IF s \in Listed(tab) THEN Append(Without(tab, {s}), s) ELSE tab

Put(t, m) ==
  /\ history' = [history EXCEPT ![of[t]] = Append(@, m)]
  /\ UNCHANGED <<table, aged>>

KeepHistory == UNCHANGED <<history, table, aged>>

-----------------------------------------------------------------------------
(* The session table.                                                      *)

Swept == Without(table, aged)

SessionsCreate ==
  \E s \in Sessions \ created :
    LET tab == Append(Swept, s)
        over == IF Len(tab) > MaxSessions THEN Len(tab) - MaxSessions ELSE 0
    IN  /\ created' = created \cup {s}
        /\ table' = SubSeq(tab, over + 1, Len(tab))
        /\ aged' = {}
        /\ UNCHANGED <<history, slice, lock, at, of, step, round, todo, permits,
                       hub, unaudited, cut>>

SessionsList ==
  /\ aged # {}
  /\ table' = Swept
  /\ aged' = {}
  /\ UNCHANGED <<created, history, slice, lock, at, of, step, round, todo,
                 permits, hub, unaudited, cut>>

SessionsDelete(s) ==
  /\ s \in Listed(table)
  /\ table' = Without(table, {s})
  /\ aged' = aged \ {s}
  /\ UNCHANGED <<created, history, slice, lock, at, of, step, round, todo,
                 permits, hub, unaudited, cut>>

\* Reading the messages moves the session to the end of the table.
Messages(s) ==
  /\ s \in Listed(table)
  /\ table' = Append(Without(table, {s}), s)
  /\ UNCHANGED <<created, aged, history, slice, lock, at, of, step, round, todo,
                 permits, hub, unaudited, cut>>

\* A day passes without a request for the session.
TimePasses(s) ==
  /\ s \in Listed(table)
  /\ \A t \in Turns : of[t] = s => at[t] = "done"
  /\ aged' = aged \cup {s}
  /\ UNCHANGED <<table, created, history, slice, lock, at, of, step, round, todo,
                 permits, hub, unaudited, cut>>

-----------------------------------------------------------------------------
(* A request finds its session and queues for the session's lock.          *)

Lookup(t, s) ==
  /\ at[t] = "new" /\ s \in Listed(table)
  /\ of' = [of EXCEPT ![t] = s]
  /\ at' = [at EXCEPT ![t] = "waiting"]
  /\ UNCHANGED <<table, created, aged, history, slice, lock, step, round, todo,
                 permits, hub, unaudited, cut>>

Chat(t, s) == t \in Chats /\ Lookup(t, s)

Stream(t, s) == t \in Streams /\ Lookup(t, s)

\* With the lock: sweep, look again (404 if the session is gone), append the
\* user's message.  The lock is kept unless the request ends here.
Enter(t) ==
  LET s == of[t] IN
  /\ at[t] = "waiting" /\ lock[s] = None
  /\ \/ /\ s \notin Listed(Swept)
        /\ at' = [at EXCEPT ![t] = "done"]
        /\ UNCHANGED <<history, lock, step>>
     \/ /\ s \in Listed(Swept)
        /\ history' = [history EXCEPT ![s] = Append(@, Message("user", t, 0))]
        /\ at' = [at EXCEPT ![t] = "entering"]
        /\ lock' = [lock EXCEPT ![s] = t]
        /\ step' = [step EXCEPT ![t] = "entered"]
  /\ table' = Swept /\ aged' = {}
  /\ UNCHANGED <<created, slice, of, round, todo, permits, hub, unaudited, cut>>

ChatLocked(t) == t \in Chats /\ Enter(t)

StreamLocked(t) == t \in Streams /\ Enter(t)

-----------------------------------------------------------------------------
(* The loop.  The end of the loop ends the handler of a chat; the handler  *)
(* of a stream finds out by itself.                                        *)

LoopEnds(t) ==
  /\ step' = [step EXCEPT ![t] = "end"]
  /\ IF t \in Chats
       THEN /\ at' = [at EXCEPT ![t] = "done"]
            /\ lock' = [lock EXCEPT ![of[t]] = None]
       ELSE UNCHANGED <<at, lock>>

LoopAt(t, where) ==
  /\ step' = [step EXCEPT ![t] = where]
  /\ UNCHANGED <<at, lock>>

\* After MaxToolIter rounds the loop answers for the model; a request that
\* finds no free permit is turned away at once.
Ask(t) ==
  /\ step[t] = "loop"
  /\ \/ /\ round[t] = MaxToolIter
        /\ Put(t, Message("answer", t, 0)) /\ LoopAt(t, "replied") /\ UNCHANGED permits
     \/ /\ round[t] < MaxToolIter /\ permits = Permits
        /\ KeepHistory /\ LoopEnds(t) /\ UNCHANGED permits
     \/ /\ round[t] < MaxToolIter /\ permits < Permits
        /\ KeepHistory /\ LoopAt(t, "model") /\ permits' = permits + 1
  /\ UNCHANGED <<created, slice, of, round, todo, hub, unaudited, cut>>

\* The worker of a stream announces the session and reads the configuration
\* before it asks; either may fail.
WorkerGivesUp(t) ==
  /\ t \in Streams /\ step[t] = "loop" /\ round[t] = 0
  /\ KeepHistory /\ LoopEnds(t)
  /\ UNCHANGED <<created, slice, of, round, todo, permits, hub, unaudited, cut>>

\* How a call of the model service ends: LLMClient.complete raises, answers,
\* or asks for n tool calls.
CompleteOutcomes ==
  {<<"raises", 0>>, <<"answers", 0>>} \cup {<<"calls", n>> : n \in 1..MaxCalls}

\* LLMClient.complete_stream ends the same ways, and is given up when a token
\* cannot be written to the browser.
CompleteStreamOutcomes == CompleteOutcomes \cup {<<"unwritten", 0>>}

\* Slip: the permit is kept when the model service raises.
ReplyLeaky(t, outcome) ==
  /\ step[t] = "model"
  /\ outcome[1] = "raises"
  /\ KeepHistory /\ LoopEnds(t)
  /\ UNCHANGED <<created, slice, of, round, todo, permits, hub, unaudited, cut>>

Reply(t, outcome) ==
  /\ step[t] = "model"
  /\ permits' = permits - 1
  /\ \/ /\ outcome[1] \in {"raises", "unwritten"}
        /\ KeepHistory /\ LoopEnds(t) /\ UNCHANGED todo
     \/ /\ outcome[1] = "answers"
        /\ Put(t, Message("answer", t, 0)) /\ LoopAt(t, "replied") /\ UNCHANGED todo
     \/ /\ outcome[1] = "calls"
        /\ Put(t, Message("ask", t, outcome[2]))
        /\ todo' = [todo EXCEPT ![t] = outcome[2]]
        /\ LoopAt(t, "tool")
  /\ UNCHANGED <<created, slice, of, round, hub, unaudited, cut>>

ChatReply(t) == t \in Chats /\ \E o \in CompleteOutcomes : Reply(t, o)

StreamReply(t) == t \in Streams /\ \E o \in CompleteStreamOutcomes : Reply(t, o)

\* The answer of a tool joins the history, numbered by the calls still open;
\* the last one of a reply ends the round.
PutToolAnswer(t) ==
  LET answer == Message("tool", t, todo[t]) IN
  /\ todo' = [todo EXCEPT ![t] = @ - 1]
  /\ Put(t, answer)
  /\ LoopAt(t, IF todo[t] = 1 THEN "rounded" ELSE "tool")

\* run_tool_call never raises: an unknown tool, bad arguments and an exception
\* of the tool are results.  Only a write tool has to be recorded.
RunTool(t) ==
  \E write \in BOOLEAN : unaudited' = IF write THEN unaudited \cup {t} ELSE unaudited

AuditTool(t) == unaudited' = unaudited \ {t}

\* In a chat nothing can end the turn between a tool and the record of it.
ChatTool(t) ==
  /\ t \in Chats /\ step[t] = "tool"
  /\ PutToolAnswer(t)
  /\ UNCHANGED <<created, slice, of, round, permits, hub, unaudited, cut>>

\* A stream stops where an event cannot be written.
StreamCut(t) ==
  /\ LoopEnds(t) /\ KeepHistory
  /\ cut' = cut \cup {of[t]}
  /\ UNCHANGED todo

\* The call is announced before the tool runs ...
StreamTool(t) ==
  /\ t \in Streams /\ step[t] = "tool"
  /\ \/ /\ RunTool(t) /\ LoopAt(t, "ran") /\ KeepHistory
        /\ UNCHANGED <<todo, cut>>
     \/ StreamCut(t) /\ UNCHANGED unaudited
  /\ UNCHANGED <<created, slice, of, round, permits, hub>>

\* ... and recorded before its result is sent, sent before it is remembered.
\* Slip: recorded only once the result has been sent.
StreamToolDoneLate(t) ==
  /\ t \in Streams /\ step[t] = "ran"
  /\ \/ AuditTool(t) /\ PutToolAnswer(t) /\ UNCHANGED cut
     \/ StreamCut(t) /\ UNCHANGED unaudited
  /\ UNCHANGED <<created, slice, of, round, permits, hub>>

StreamToolDone(t) ==
  /\ t \in Streams /\ step[t] = "ran"
  /\ AuditTool(t)
  /\ \/ PutToolAnswer(t) /\ UNCHANGED cut
     \/ StreamCut(t)
  /\ UNCHANGED <<created, slice, of, round, permits, hub>>

-----------------------------------------------------------------------------
(* _trim_session and _touch, after a question (entered), the answers of a  *)
(* round (rounded) or the last word of a turn (replied).                   *)

Trimming(t) == step[t] \in {"entered", "rounded", "replied"}

\* What remains to be cut off, <<>> when the loop of _trim_session is left.
ToTrim(msgs) == IF Len(msgs) > MaxMessages THEN DropOldestRound(msgs) ELSE <<>>

TrimReads(t) ==
  /\ Trimming(t) /\ slice[t] = <<>>
  /\ ToTrim(history[of[t]]) # <<>>
  /\ slice' = [slice EXCEPT ![t] = ToTrim(history[of[t]])]
  /\ UNCHANGED <<table, created, aged, history, lock, at, of, step, round, todo,
                 permits, hub, unaudited, cut>>

TrimAssigns(t) ==
  /\ slice[t] # <<>>
  /\ history' = [history EXCEPT ![of[t]] = slice[t]]
  /\ slice' = [slice EXCEPT ![t] = <<>>]
  /\ UNCHANGED <<table, created, aged, lock, at, of, step, round, todo,
                 permits, hub, unaudited, cut>>

\* The configuration of the model service is read anew for each turn, and may
\* be unreadable.
LoadLlmConf == BOOLEAN

\* After the question a chat goes on if it can read the configuration, a
\* stream if the hub is not full (503) and its response headers can be sent.
GoesOn(t) ==
  \E able \in LoadLlmConf :
    LET goesOn == able /\ (t \in Streams => Cardinality(hub) < StreamCap) IN
    /\ at' = [at EXCEPT ![t] = IF ~goesOn THEN "done" ELSE IF t \in Chats THEN "chatting" ELSE "pumping"]
    /\ lock' = [lock EXCEPT ![of[t]] = IF goesOn THEN t ELSE None]
    /\ step' = [step EXCEPT ![t] = IF goesOn THEN "loop" ELSE "idle"]
    /\ hub' = IF goesOn /\ t \in Streams THEN hub \cup {t} ELSE hub

Trimmed(t) ==
  /\ Trimming(t) /\ slice[t] = <<>>
  /\ ToTrim(history[of[t]]) = <<>>
  /\ \/ step[t] = "entered" /\ GoesOn(t) /\ UNCHANGED round
     \/ step[t] = "replied" /\ LoopEnds(t) /\ UNCHANGED <<round, hub>>
     \/ /\ step[t] = "rounded" /\ LoopAt(t, "loop")
        /\ round' = [round EXCEPT ![t] = @ + 1]
        /\ UNCHANGED hub
  /\ table' = Touched(table, of[t]) /\ aged' = aged \ {of[t]}
  /\ UNCHANGED <<created, history, slice, of, todo, permits, unaudited, cut>>

Trim(t) == TrimReads(t) \/ TrimAssigns(t) \/ Trimmed(t)

-----------------------------------------------------------------------------
(* The handler of a stream waits for the worker, the browser's departure   *)
(* or IDLE_TIMEOUT_S, then up to ten seconds for the worker.               *)

Pump(t) ==
  /\ at[t] = "pumping"
  /\ at' = [at EXCEPT ![t] = "joining"]
  /\ UNCHANGED <<table, created, aged, history, slice, lock, of, step, round, todo,
                 permits, hub, unaudited, cut>>

\* Slip: the worker is waited for without a limit.
StreamEndsWithWorker(t) ==
  /\ at[t] = "joining" /\ step[t] = "end"
  /\ at' = [at EXCEPT ![t] = "done"]
  /\ hub' = hub \ {t}
  /\ lock' = [lock EXCEPT ![of[t]] = None]
  /\ UNCHANGED <<table, created, aged, history, slice, of, step, round, todo, permits,
                 unaudited, cut>>

StreamEnds(t) ==
  /\ at[t] = "joining"
  /\ at' = [at EXCEPT ![t] = "done"]
  /\ hub' = hub \ {t}
  /\ lock' = [lock EXCEPT ![of[t]] = None]
  /\ cut' = IF step[t] = "end" THEN cut ELSE cut \cup {of[t]}
  /\ UNCHANGED <<table, created, aged, history, slice, of, step, round, todo, permits,
                 unaudited>>

-----------------------------------------------------------------------------
AgentTurn(t) ==
  \/ \E s \in Sessions : Chat(t, s) \/ Stream(t, s)
  \/ ChatLocked(t) \/ StreamLocked(t) \/ WorkerGivesUp(t)
  \/ Ask(t) \/ ChatReply(t) \/ StreamReply(t)
  \/ ChatTool(t) \/ StreamTool(t) \/ StreamToolDone(t)
  \/ Trim(t) \/ Pump(t) \/ StreamEnds(t)

AgentNext ==
  \/ SessionsCreate \/ SessionsList
  \/ \E s \in Sessions : SessionsDelete(s) \/ Messages(s) \/ TimePasses(s)
  \/ \E t \in Turns : AgentTurn(t)

\* Calls of the model service have time limits in a chat and the handler of a
\* stream has its own.  Nothing is assumed of the tools, one of which uploads
\* without a limit (tools.py:286-287), nor of a stream's worker, which may
\* stay in an endless reply or a stuck tool.
AgentSpec ==
  /\ AgentInit /\ [][AgentNext]_agentVars
  /\ \A t \in Turns : WF_agentVars(Trim(t))
  /\ \A t \in Chats : WF_agentVars(ChatLocked(t) \/ Ask(t) \/ ChatReply(t))
  /\ \A t \in Streams : WF_agentVars(StreamLocked(t) \/ Pump(t) \/ StreamEnds(t))

-----------------------------------------------------------------------------
(* Properties.                                                             *)

Active(t) == step[t] \in {"loop", "model", "tool", "ran", "rounded", "replied"}

\* The calls of an ask are answered right behind it, in order, and a tool's
\* answer stands nowhere else; only the turn at work may have calls open.
RoundsIntact(msgs) ==
  \A i \in DOMAIN msgs :
    LET m == msgs[i] IN
    /\ m.role = "ask" =>
         /\ \A j \in 1..m.n : i + j <= Len(msgs)
                                 => msgs[i + j] = Message("tool", m.turn, m.n - j + 1)
         /\ i + m.n > Len(msgs) =>
              step[m.turn] \in {"tool", "ran"} /\ i + m.n = Len(msgs) + todo[m.turn]
    /\ m.role = "tool" =>
         i > 1 /\ \/ msgs[i - 1] = Message("ask", m.turn, m.n)
                  \/ msgs[i - 1] = Message("tool", m.turn, m.n + 1)

\* However the history is trimmed, the question of the turn that holds the
\* session is in what is sent to the model, and that begins with a question
\* (agent.py:228-249: trimming stops at the last round), unless a worker was
\* left behind in the session, which may assign what it read before the
\* question came.
QuestionKept ==
  \A t \in Turns :
    (step[t] = "loop" /\ lock[of[t]] = t /\ of[t] \notin cut) =>
       LET sent == TrimHistory(history[of[t]]) IN
       /\ Message("user", t, 0) \in {sent[i] : i \in DOMAIN sent}
       /\ Head(sent).role = "user"

\* What the model service requires of a conversation survives concurrent
\* chats, streams, trimming and eviction: as long as no stream of a session
\* was cut short, its history begins with a question, its tool calls are
\* answered in place, what is sent holds the question, and a shorter history
\* that was read is still the one to assign (agent.py:211-251, 435-458,
\* agent_stream.py:87-92, 165-184).
HistoryWellFormed ==
  /\ \A s \in Sessions \ cut :
       /\ history[s] # <<>> => Head(history[s]).role = "user"
       /\ RoundsIntact(history[s])
  /\ QuestionKept
  /\ \A t \in Turns : slice[t] # <<>> /\ of[t] \notin cut => slice[t] = ToTrim(history[of[t]])

\* The counters agree with what they count: permits with loops at the model
\* service, the hub with streams in their handler, the lock with turns
\* between their lookup and their end; and a write tool that has run is
\* recorded before its turn does anything else, also when the browser is
\* gone (agent.py:21-27, 360-473, agent_stream.py:47-92, 177-180).
AgentConsistent ==
  /\ created \subseteq Sessions /\ Listed(table) \subseteq created
  /\ Cardinality(Listed(table)) = Len(table) /\ Len(table) <= MaxSessions
  /\ permits = Cardinality({t \in Turns : step[t] = "model"}) /\ permits <= Permits
  /\ hub = {t \in Streams : at[t] \in {"pumping", "joining"}}
  /\ Cardinality(hub) <= StreamCap
  /\ \A t \in Turns : at[t] \in {"entering", "chatting", "pumping", "joining"}
                        <=> \E s \in Sessions : lock[s] = t /\ of[t] = s
  /\ \A t \in Turns : at[t] = "entering" <=> step[t] = "entered"
  /\ \A t \in Chats : at[t] = "chatting" <=> Active(t)
  /\ \A t \in unaudited : step[t] = "ran"

\* In the end every request that found its session is answered, although the
\* worker of a stream before it may never end, unless a chat of that session,
\* this one or the one that holds the lock before it, stays in a tool
\* (agent.py:383-387, 453, agent_stream.py:87-92).
TurnsEnd ==
  <>[](\A t \in Turns : \/ at[t] \in {"new", "done"}
                       \/ \E c \in Chats : of[c] = of[t] /\ step[c] = "tool")

\* Not true (instance of Services.cfg): the same without the exception for
\* sessions whose stream was cut short.
HistoryAlwaysWellFormed == \A s \in Sessions : RoundsIntact(history[s])

\* Not true (instance of Services.cfg with a second chat): the question of a
\* turn is in its session's history when it begins to ask.  A worker left
\* behind assigns what it read before the question was appended.
QuestionAlwaysKept ==
  \A t \in Turns :
    (step[t] = "loop" /\ round[t] = 0 /\ lock[of[t]] = t) =>
       Message("user", t, 0) \in {history[of[t]][i] : i \in DOMAIN history[of[t]]}
=============================================================================
