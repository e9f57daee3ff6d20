------------------------------ MODULE LogCentre ------------------------------
(***************************************************************************)
(* host/service/logcenter.py and host/api/handlers/logcenter.py, for one   *)
(* board: a follower thread per log source polls a file (count the lines,  *)
(* then read from the first new one) or reads journalctl; it pushes lines  *)
(* into a bounded buffer, from which event streams read at their own pace. *)
(* A new follow replaces the follower of the board, also under a stream    *)
(* that still reads the old one's buffer.                                  *)
(*                                                                         *)
(* Lines of the board's log are numbered as they are written; the file     *)
(* holds the lines after `rotated'.  A line in a buffer is represented by  *)
(* the number of its push; `pushed' says which line of the log a push was, *)
(* as the same line may be pushed by two polls.  Every line has one byte   *)
(* and matches the filter.                                                 *)
(***************************************************************************)
EXTENDS SseHub, Sequences, FiniteSetsExt

CONSTANTS Followers, Readers, Nobody,
          Pollers,      \* the followers of a file; the others follow the journal
          BufLines,     \* MAX_LINES
          BufBytes,     \* MAX_BUF_BYTES
          MaxNew,       \* MAX_NEW_PER_TICK
          Backlog,      \* 200 in _stream
          MaxWritten,   \* lines the board writes (bound of the model)
          MaxFailures   \* failing reads (bound of the model)

ASSUME LogAssumption ==
  /\ {"logcenter", "agent"} \subseteq Kinds
  /\ {BufLines, BufBytes, MaxNew, Backlog} \subseteq Nat \ {0}

VARIABLES
  written, rotated,   \* the board's log
  fol,                \* the followers
  missed,             \* ghost: lines each follower may never push: a read
                      \* failed, skipped, or rotated away
  current,            \* LogCenter._followers of the board
  logClosed,          \* LogCenter._closed
  rd,                 \* the event streams
  failures

logVars == <<written, rotated, fol, missed, current, logClosed, rd,
             failures, conns, byKind>>

NewFollower ==
  [at |-> "new", stop |-> FALSE, toKill |-> FALSE, last |-> 0, total |-> 0, base |-> 0,
   child |-> "none", published |-> FALSE, heard |-> 0,
   buf |-> <<>>, bytes |-> 0, seq |-> 0, pushed |-> <<>>]

NewReader == [at |-> "new", fol |-> Nobody, cursor |-> 0, from |-> 0, got |-> <<>>]

LogInit ==
  /\ written = 0 /\ rotated = 0 /\ failures = 0
  /\ fol = [f \in Followers |-> NewFollower]
  /\ missed = [f \in Followers |-> {}]
  /\ current = Nobody /\ logClosed = FALSE
  /\ rd = [r \in Readers |-> NewReader]
  /\ HubInit

-----------------------------------------------------------------------------
(* The buffer of a follower.                                               *)

\* The deque drops its oldest line by itself when it is full; the bytes of
\* that line stay counted.  Then lines go while there are too many bytes.
Push(b) ==
  LET long == Append(b.buf, b.seq + 1)
      full == IF Len(long) > BufLines THEN Tail(long) ELSE long
      bytes == b.bytes + 1
      over == IF bytes > BufBytes THEN Min({bytes - BufBytes, Len(full) - 1}) ELSE 0
  IN  [b EXCEPT !.buf = SubSeq(full, over + 1, Len(full)),
                !.bytes = bytes - over, !.seq = @ + 1]

PushMany(b, n) ==
  LET after[k \in 0..n] == IF k = 0 THEN b ELSE Push(after[k - 1]) IN after[n]

\* Slip: the first line of the buffer is numbered one too low.
SinceShifted(b, seq) ==
  LET start == b.seq - Len(b.buf)
  IN  SubSeq(b.buf, Max({1, seq - start + 2}), Len(b.buf))

\* The buffered lines numbered after seq; the first one's number follows from
\* the number of pushes and the length of the buffer.
Since(b, seq) ==
  LET start == b.seq - Len(b.buf) + 1
  IN  SubSeq(b.buf, Max({1, seq - start + 2}), Len(b.buf))

-----------------------------------------------------------------------------
(* The board.                                                              *)

BoardWrites ==
  /\ written < MaxWritten
  /\ written' = written + 1
  /\ UNCHANGED <<rotated, fol, missed, current, logClosed, rd, failures, hubVars>>

BoardRotates ==
  /\ rotated = 0 /\ written > 0
  /\ rotated' = written
  /\ UNCHANGED <<written, fol, missed, current, logClosed, rd, failures, hubVars>>

-----------------------------------------------------------------------------
(* The thread of a follower.                                               *)

Thread(f, b) ==
  /\ fol' = [fol EXCEPT ![f] = b]
  /\ UNCHANGED <<written, rotated, current, logClosed, rd, hubVars>>

\* The lines with these numbers in the file as it is now.
Lines(i, j) == (rotated + i)..(rotated + j)

\* Ghost: the line of a push, and whether the round that pushed it had not
\* counted it: it was written, or the file rotated, since the count.
PushOf(b, line) == [line |-> line, ahead |-> rotated # b.base \/ line > b.base + b.total]

\* The lines of the file as it is now, from one of them to another.
Tailed(b, i, j) == [k \in 1..Max({0, j - i + 1}) |-> PushOf(b, rotated + i + k - 1)]

\* The thread pushes these lines.
PushAll(b, lines) == [PushMany(b, Len(lines)) EXCEPT !.pushed = @ \o lines]

Ends(f) ==
  /\ fol[f].at \in {"count", "read"} /\ fol[f].stop
  /\ Thread(f, [NewFollower EXCEPT !.at = "ended", !.stop = TRUE, !.toKill = fol[f].toKill,
                     !.buf = fol[f].buf, !.bytes = fol[f].bytes, !.seq = fol[f].seq,
                     !.pushed = fol[f].pushed])
  /\ missed' = [missed EXCEPT ![f] = {}]
  /\ UNCHANGED failures

\* wc -l: a shorter file was rotated and is read from its start; a rotation
\* the count does not show hides as many lines as were read before it.
PollCount(f) ==
  LET b == fol[f]
      total == written - rotated
      last == IF total < b.last THEN 0 ELSE b.last
      hidden == IF rotated = b.base THEN {} ELSE Lines(1, last)
  IN  /\ b.at = "count" /\ ~b.stop
      /\ total # b.last
      /\ Thread(f, [b EXCEPT !.last = last, !.total = total, !.base = rotated,
                             !.at = IF total > last THEN "tail" ELSE "count"])
      /\ missed' = [missed EXCEPT ![f] = @ \cup hidden]
      /\ UNCHANGED failures

\* Slip: the lines are taken to be those the file has now.
PollTailCountsAgain(f) ==
  LET b == fol[f] IN
  /\ b.at = "tail"
  /\ Thread(f, [PushAll(b, Tailed(b, b.last + 1, b.total)) EXCEPT !.last = written - rotated, !.at = "count"])
  /\ UNCHANGED <<missed, failures>>

\* tail -n +first: everything the file holds by now from the first new line,
\* at most MaxNew of the counted ones; the next round reads on from the
\* counted ones, so it pushes what was written since the count again.  A
\* failing command loses the counted lines, an exception leaves them for the
\* next round.
PollTail(f) ==
  LET b == fol[f]
      first == Max({b.last + 1, b.total - MaxNew + 1})
      skipped == (b.base + b.last + 1)..(b.base + first - 1)
      counted == (b.base + b.last + 1)..(b.base + b.total)
      failed == IF rotated = b.base THEN {} ELSE counted
  IN  /\ b.at = "tail"
      /\ \/ /\ Thread(f, [PushAll(b, Tailed(b, first, written - rotated)) EXCEPT !.last = b.total, !.at = "count"])
            /\ missed' = [missed EXCEPT ![f] = @ \cup skipped \cup failed]
            /\ UNCHANGED failures
         \/ /\ failures < MaxFailures /\ failures' = failures + 1
            /\ Thread(f, [b EXCEPT !.last = b.total, !.at = "count"])
            /\ missed' = [missed EXCEPT ![f] = @ \cup counted]
         \/ /\ failures < MaxFailures /\ failures' = failures + 1
            /\ Thread(f, [b EXCEPT !.at = "count"])
            /\ UNCHANGED missed

\* journalctl is started, then made known to stop().
JournalOpen(f) ==
  /\ fol[f].at = "open"
  /\ \E started \in BOOLEAN :
       Thread(f, IF started THEN [fol[f] EXCEPT !.at = "opened", !.child = "live", !.heard = written]
                            ELSE [fol[f] EXCEPT !.at = "ended"])
  /\ UNCHANGED <<missed, failures>>

\* Slip: the process is read without being made known.
JournalPublishNever(f) ==
  /\ fol[f].at = "opened"
  /\ Thread(f, [fol[f] EXCEPT !.at = "read"])
  /\ UNCHANGED <<missed, failures>>

JournalPublish(f) ==
  /\ fol[f].at = "opened"
  /\ Thread(f, [fol[f] EXCEPT !.at = "read", !.published = TRUE])
  /\ UNCHANGED <<missed, failures>>

\* The stop flag is looked at, then readline blocks ...
JournalBlocks(f) ==
  /\ fol[f].at = "read" /\ ~fol[f].stop
  /\ Thread(f, [fol[f] EXCEPT !.at = "blocked"])
  /\ UNCHANGED <<missed, failures>>

\* ... until a line arrives or the process has ended.
JournalReads(f) ==
  LET b == fol[f] IN
  /\ b.at = "blocked"
  /\ \/ /\ b.child = "live" /\ b.heard < written
        /\ Thread(f, [Push(b) EXCEPT !.heard = @ + 1, !.at = "read",
                                    !.pushed = Append(@, [line |-> b.heard + 1, ahead |-> FALSE])])
     \/ /\ b.child = "dead"
        /\ Thread(f, [b EXCEPT !.at = "read"])
  /\ UNCHANGED <<missed, failures>>

JournalDies(f) ==
  /\ fol[f].child = "live" /\ failures < MaxFailures
  /\ failures' = failures + 1
  /\ Thread(f, [fol[f] EXCEPT !.child = "dead"])
  /\ UNCHANGED missed

-----------------------------------------------------------------------------
(* The table of followers.                                                 *)

\* The service's lock is held while a follower is being stopped.
LogsUnlocked == \A f \in Followers : ~fol[f].toKill

\* _Follower.stop: the flag first, then the process, if it is known.
Stopped(old) ==
  [f \in Followers |-> IF f = old THEN [fol[f] EXCEPT !.stop = TRUE, !.toKill = TRUE]
                                  ELSE fol[f]]

Source(f) == IF f \in Pollers THEN "count" ELSE "open"

\* The thread is waited for, but not for ever; then follow starts its own.
StopKills(f) ==
  /\ fol[f].toKill
  /\ fol' = [g \in Followers |->
               IF g = f THEN [fol[f] EXCEPT !.toKill = FALSE,
                                            !.child = IF fol[f].published THEN "dead" ELSE @]
               ELSE IF fol[g].at = "start" THEN [fol[g] EXCEPT !.at = Source(g)]
               ELSE fol[g]]
  /\ UNCHANGED <<written, rotated, current, logClosed, rd, hubVars, missed, failures>>

\* LogCenter.follow: the follower of the board is stopped and replaced.
Replace(f) ==
  /\ ~logClosed /\ LogsUnlocked /\ fol[f].at = "new"
  /\ fol' = [Stopped(current) EXCEPT ![f].at = IF current = Nobody THEN Source(f) ELSE "start"]
  /\ current' = f

Follow ==
  /\ \E f \in Followers : Replace(f)
  /\ UNCHANGED <<written, rotated, missed, logClosed, rd, failures, hubVars>>

\* Also LogCenter.remove_device, when the board is deleted.
Unfollow ==
  /\ LogsUnlocked /\ current # Nobody
  /\ fol' = Stopped(current) /\ current' = Nobody
  /\ UNCHANGED <<written, rotated, missed, logClosed, rd, failures, hubVars>>

CloseLogs ==
  /\ ~logClosed /\ LogsUnlocked
  /\ logClosed' = TRUE
  /\ fol' = Stopped(current) /\ current' = Nobody
  /\ UNCHANGED <<written, rotated, missed, rd, failures, hubVars>>

-----------------------------------------------------------------------------
(* The event stream of a browser.                                          *)

Reads(r, s) ==
  /\ rd' = [rd EXCEPT ![r] = s]
  /\ UNCHANGED <<written, rotated, missed, logClosed, failures>>

StreamFollows(r) ==
  /\ rd[r].at = "new"
  /\ \E f \in Followers :
       /\ Replace(f)
       /\ Reads(r, [rd[r] EXCEPT !.at = "followed", !.fol = f])
  /\ UNCHANGED hubVars

\* The place in the hub comes after the follow; without one the follower
\* stays.  The backlog is the end of what the buffer holds.
StreamJoins(r) ==
  LET b == fol[rd[r].fol]
      rows == Since(b, 0)
      backlog == Min({Backlog, Len(rows)})
  IN  /\ rd[r].at = "followed" /\ fol[rd[r].fol].at # "start"
      /\ \/ /\ HubAdd(r, "logcenter")
            /\ Reads(r, [rd[r] EXCEPT !.at = "open", !.cursor = b.seq, !.from = b.seq - backlog,
                                     !.got = SubSeq(rows, Len(rows) - backlog + 1, Len(rows))])
         \/ /\ ~HubFits("logcenter")
            /\ Reads(r, [rd[r] EXCEPT !.at = "done"])
            /\ UNCHANGED hubVars
      /\ UNCHANGED <<fol, current>>

StreamPolls(r) ==
  LET b == fol[rd[r].fol]
      rows == Since(b, rd[r].cursor)
  IN  /\ rd[r].at = "open" /\ rd[r].cursor # b.seq
      /\ Reads(r, [rd[r] EXCEPT !.cursor = b.seq, !.got = @ \o rows])
      /\ UNCHANGED <<fol, current, hubVars>>

\* The browser is gone, a write failed or the stream is too old.
StreamCloses(r) ==
  /\ rd[r].at = "open"
  /\ Reads(r, [rd[r] EXCEPT !.at = "done"])
  /\ HubRemove(r)
  /\ UNCHANGED <<fol, current>>

OtherStream ==
  /\ HubOther(Nobody, "agent")
  /\ UNCHANGED <<written, rotated, fol, missed, current, logClosed, rd, failures>>

-----------------------------------------------------------------------------
FollowerStep(f) ==
  \/ Ends(f) \/ PollCount(f) \/ PollTail(f)
  \/ JournalOpen(f) \/ JournalPublish(f) \/ JournalBlocks(f) \/ JournalReads(f)

LogNext ==
  \/ BoardWrites \/ BoardRotates \/ Follow \/ Unfollow \/ CloseLogs \/ OtherStream
  \/ \E f \in Followers : FollowerStep(f) \/ JournalDies(f) \/ StopKills(f)
  \/ \E r \in Readers : StreamFollows(r) \/ StreamJoins(r) \/ StreamPolls(r) \/ StreamCloses(r)

\* Commands of a follower have a time limit and stop() runs to its end; a
\* line of the journal may never come.
LogFairness ==
  \A f \in Followers : WF_logVars(FollowerStep(f)) /\ WF_logVars(StopKills(f))

LogSpec == LogInit /\ [][LogNext]_logVars /\ LogFairness

-----------------------------------------------------------------------------
(* Properties.                                                             *)

\* Every line the follower takes as read was pushed, unless a read failed, it
\* was more than a round may bring, or a rotation hid it: a line that arrives
\* between the count and the read is never lost (logcenter.py:125-151).
CountedLinesPushed ==
  \A f \in Followers : fol[f].at = "count" =>
    \A line \in (fol[f].base + 1)..(fol[f].base + fol[f].last) :
      line \in missed[f] \/ \E i \in 1..Len(fol[f].pushed) : fol[f].pushed[i].line = line

\* A stream gets what its follower pushes after the backlog's first, in that
\* order, none of it again, and all of it as long as the buffer drops none.
\* Two pushes of it are the same line only if the first ran ahead of the
\* count of its round, and the second is of a round that counted the line:
\* no line comes three times (logcenter.py:59-66, 125-151,
\* handlers/logcenter.py:166-186).
StreamsInOrder ==
  \A r \in Readers : rd[r].fol # Nobody =>
    LET b == fol[rd[r].fol]
        got == rd[r].got
        Got(i) == b.pushed[got[i]]
    IN  /\ \A i \in 1..Len(got) : got[i] \in (rd[r].from + 1)..rd[r].cursor
        /\ \A i, j \in 1..Len(got) : i < j =>
             /\ got[i] < got[j]
             /\ Got(i).line = Got(j).line => Got(i).ahead /\ ~Got(j).ahead
        /\ Len(b.buf) = b.seq => Len(got) = rd[r].cursor - rd[r].from

\* A follower runs only while it is the board's or has been told to stop, and
\* none is left in the table after close (logcenter.py:295-333).
NoFollowerForgotten ==
  /\ \A f \in Followers : fol[f].at \notin {"new", "ended"} => (current = f \/ fol[f].stop)
  /\ logClosed => current = Nobody

LogsFaithful == CountedLinesPushed /\ StreamsInOrder /\ NoFollowerForgotten /\ HubExact

\* A follower that was told to stop ends and leaves no journalctl behind, at
\* whatever point of starting or reading it the request came; a request is
\* never taken back (logcenter.py:99-110, 153-192).
FollowersStop ==
  <>[](\A f \in Followers : fol[f].stop => fol[f].at = "ended" /\ fol[f].child # "live")

\* Not true (LogCentreBytes.cfg): the buffer holds the last BufLines lines
\* as long as they have room in BufBytes.
BufferHoldsTail ==
  \A f \in Followers : Len(fol[f].buf) = Min({fol[f].seq, BufLines})
=============================================================================
