---------------------------- MODULE OutputBuffer ----------------------------
(***************************************************************************)
(* The output of a command: OutputBuffer of host/task/output_buffer.py,    *)
(* filled by the reader thread of an exec job and polled by a client that  *)
(* sends back the cursor it got last (poll of host/task/execjob.py and     *)
(* exec_poll of host/api/handlers/legacy.py).                              *)
(*                                                                         *)
(* A byte is what UTF-8 makes of it: "a" stands alone, "l2", "l3" and "l4" *)
(* begin a character of that many bytes, "c" continues one.  written is    *)
(* everything the command has written; the buffer holds its bytes from     *)
(* base on, so _data needs no variable of its own.                         *)
(***************************************************************************)
EXTENDS Integers, Sequences, FiniteSets

CONSTANTS
  Limit,     \* limit
  MaxBytes,  \* bound on what the command writes
  MaxChunk,  \* bound on one read of the pipe
  Text       \* the command writes UTF-8 (TRUE) or any bytes (FALSE)

ASSUME BufferAssumption ==
  /\ Limit \in Nat \ {0}
  /\ MaxBytes \in Nat
  /\ MaxChunk \in Nat \ {0}
  /\ Text \in BOOLEAN

VARIABLES
  written,     \* the bytes of all append calls
  base,        \* _base_offset
  pendingLen,  \* _pending_len
  final,       \* the job is no longer running
  cursor,      \* the client's cursor, -1 for none
  answer       \* the last answer: the slice [from, to) of written, or an error

bufVars == <<written, base, pendingLen, final, cursor, answer>>

Bytes == {"a", "l2", "l3", "l4", "c"}
Width(b) == CASE b = "l2" -> 2 [] b = "l3" -> 3 [] b = "l4" -> 4 [] OTHER -> 1

(* _end_offset *)
End == Len(written)

(* The number of bytes at the end of s that begin a character and wait for *)
(* more: what the incremental decoder has not decided on.                  *)
Undecided(s) ==
  LET tails == {k \in 1 .. 3 : /\ k <= Len(s)
                               /\ Width(s[Len(s) - k + 1]) > k
                               /\ \A i \in Len(s) - k + 2 .. Len(s) : s[i] = "c"}
  IN IF tails = {} THEN 0 ELSE CHOOSE k \in tails : TRUE

(* s is UTF-8, but for a character at its end that is not complete.        *)
IsText(s) ==
  \A i \in DOMAIN s :
    /\ s[i] = "c" => \E k \in 1 .. 3 : /\ i - k >= 1
                                       /\ Width(s[i - k]) > k
                                       /\ \A n \in i - k + 1 .. i : s[n] = "c"
    /\ \A k \in 1 .. Width(s[i]) - 1 : i + k <= Len(s) => s[i + k] = "c"

BufInit ==
  /\ written = <<>>
  /\ base = 0
  /\ pendingLen = 0
  /\ final = FALSE
  /\ cursor = -1
  /\ answer = [kind |-> "none"]

-----------------------------------------------------------------------------
(* Fault: the head of the ring is left where the limit puts it.            *)
CutAtLimit(w, from) == from

(* The first position at or after from that does not continue a character. *)
Cut(w, from) ==
  CHOOSE n \in from .. Len(w) :
    /\ n = Len(w) \/ w[n + 1] # "c"
    /\ \A i \in from .. n - 1 : w[i + 1] = "c"

(* Fault: nothing is withheld. *)
WithholdNothing(s) == 0

(* The pending length: the decoder looks at the last four bytes retained.  *)
Withheld(s) == Undecided(SubSeq(s, IF Len(s) > 4 THEN Len(s) - 3 ELSE 1, Len(s)))

(* Fault: an overflow leaves the new chunk only.                           *)
ExtendKeepsChunk(chunk) ==
  LET w == written \o chunk
      b == IF Len(w) - base > Limit THEN Cut(w, End) ELSE base
  IN /\ written' = w
     /\ base' = b
     /\ pendingLen' = Withheld(SubSeq(w, b + 1, Len(w)))

(* append *)
Extend(chunk) ==
  LET w == written \o chunk
      b == IF Len(w) - base > Limit THEN Cut(w, Len(w) - Limit) ELSE base
  IN /\ written' = w
     /\ base' = b
     /\ pendingLen' = Withheld(SubSeq(w, b + 1, Len(w)))

(* The reader thread appends a chunk of the command's output.              *)
Read ==
  /\ ~final
  /\ \E n \in 1 .. MaxChunk : \E chunk \in [1 .. n -> Bytes] :
       /\ End + n <= MaxBytes
       /\ Text => IsText(written \o chunk)
       /\ Extend(chunk)
  /\ UNCHANGED <<final, cursor, answer>>

(* The command has ended, maybe within a character.                        *)
FinishOutput ==
  /\ ~final
  /\ final' = TRUE
  /\ UNCHANGED <<written, base, pendingLen, cursor, answer>>

(* Where the answer to a poll with this cursor begins.                     *)
StartOf(offset) == IF offset = -1 \/ offset < base THEN base ELSE offset

(* snapshot *)
Snapshot(offset) ==
  LET to == IF final THEN End ELSE End - pendingLen
      from == StartOf(offset)
  IN IF offset > to THEN [kind |-> "beyond"]
     ELSE IF from < to /\ written[from + 1] = "c" THEN [kind |-> "inside"]
     ELSE [kind |-> "text", from |-> from, to |-> to]

(* The client polls with its cursor, or without one, and keeps the cursor  *)
(* it gets.                                                                *)
Poll ==
  /\ \E offset \in {cursor, -1} : answer' = Snapshot(offset)
  /\ cursor' = IF answer'.kind = "text" THEN answer'.to ELSE cursor
  /\ UNCHANGED <<written, base, pendingLen, final>>

BufNext == Read \/ FinishOutput \/ Poll

BufSpec == BufInit /\ [][BufNext]_bufVars

-----------------------------------------------------------------------------
(* The type invariant. *)
BufTypeOK ==
  /\ written \in Seq(Bytes)
  /\ base \in 0 .. End /\ End - base <= Limit
  /\ pendingLen \in 0 .. 3 /\ pendingLen <= End - base
  /\ final \in BOOLEAN
  /\ cursor \in -1 .. End
  /\ answer.kind \in {"none", "beyond", "inside", "text"}

(* A position between two characters of a text, or before one that is not  *)
(* complete.                                                               *)
Boundary(n) == n = End \/ written[n + 1] # "c"

(* A client is never shown part of a character: each answer begins and     *)
(* ends between characters, wherever the pipe was read, the ring was cut   *)
(* or the cursor fell behind.                                              *)
WholeCharacters ==
  answer.kind = "text" => /\ Boundary(answer.from)
                          /\ answer.from <= answer.to
                          /\ Boundary(answer.to)

(* A poll without a cursor, or with one that snapshot returned before, is  *)
(* never refused, whatever was appended in between.                        *)
CursorAccepted == answer.kind \in {"none", "text"}

(* The ring gives up at most three bytes of its limit to stay between      *)
(* characters.                                                             *)
KeepsNewest ==
  End - base >= (IF End < Limit THEN End ELSE Limit) - 3

(* The types, how much the ring keeps, and what a polling client sees:     *)
(* whole characters and no refusal (output_buffer.py append, snapshot).    *)
BufferFaithful == BufTypeOK /\ KeepsNewest /\ WholeCharacters /\ CursorAccepted
=============================================================================
