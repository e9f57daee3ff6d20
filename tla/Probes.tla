------------------------------- MODULE Probes --------------------------------
(***************************************************************************)
(* host/service/diag.py and host/service/peripherals.py: reading a board's *)
(* hardware by commands, with fallbacks, behind a cache of ten seconds.    *)
(*                                                                         *)
(* The keys of the caches do not influence each other: a behaviour is      *)
(* about one key, whose kind is chosen at the start.  Time is kept as      *)
(* ages, which all grow together.                                          *)
(***************************************************************************)
EXTENDS Naturals

CONSTANTS Probers,        \* requests that read a board
          TTL,            \* _CACHE_TTL, in ticks
          MaxProbe        \* longest time one probe takes, its fallbacks included

ASSUME ProbesAssumption == TTL \in Nat \ {0} /\ MaxProbe \in Nat

VARIABLES
  kind,       \* what the key is about
  entry,      \* the cache under that key
  probes      \* the requests that read

probeVars == <<kind, entry, probes>>

ProbeKinds == {"video", "usb", "dmesg", "i2c", "gpio", "clk", "dma"}

NoEntry == [some |-> FALSE, age |-> 0, read |-> 0, what |-> "none"]
NewProbe == [at |-> "idle", src |-> 1, lasted |-> 0, read |-> 0, what |-> "none"]

ProbesInit ==
  /\ kind \in ProbeKinds
  /\ entry = NoEntry
  /\ probes = [p \in Probers |-> NewProbe]

-----------------------------------------------------------------------------
(* What a command gives and what each probe makes of it.  A command either *)
(* raises or ends with a code and an output: nothing, words that hold no   *)
(* data (a message), or data.  A probe's result is "fail" or what it       *)
(* answers with.                                                           *)

Raised == [raised |-> TRUE, ok |-> FALSE, out |-> "none"]
Results == {Raised} \cup [raised : {FALSE}, ok : BOOLEAN, out : {"none", "words", "data"}]

Video(r) == IF r.raised \/ (~r.ok /\ r.out = "none") THEN "fail" ELSE r.out
I2c(r) == IF r.raised \/ (~r.ok /\ r.out = "none") THEN "fail" ELSE r.out
Usb(r) == IF r.ok /\ r.out # "none" THEN r.out ELSE "fail"
DmesgRaw(r) == IF r.ok /\ r.out # "none" THEN r.out ELSE "fail"

\* The words are those of a shell that has no gpioinfo, or no chips.
GpioGpioinfo(r) == IF r.ok /\ r.out = "data" THEN "data" ELSE "fail"
GpioDebugfs(r) == IF r.ok /\ r.out = "data" THEN "data" ELSE "fail"

\* The code does not matter when a chip was listed.
GpioSysfs(r) == IF ~r.raised /\ r.out = "data" THEN "data" ELSE "fail"

\* A file that cannot be read is an answer, and kept like one.
Clk(r) == IF r.raised THEN "fail"
          ELSE IF r.ok /\ r.out # "none" THEN r.out ELSE "restricted"

\* One command shows two files.
Dma(r) == IF r.raised \/ (~r.ok /\ r.out = "none") THEN "fail"
          ELSE IF r.out = "words" THEN "restricted" ELSE r.out

\* The chain of fallbacks of a kind.
GpioChain(i, r) == CASE i = 1 -> GpioGpioinfo(r) [] i = 2 -> GpioDebugfs(r) [] i = 3 -> GpioSysfs(r)

Links == CASE kind = "gpio" -> 3 [] kind \in {"usb", "dmesg"} -> 2 [] OTHER -> 1

Reading(i, r) ==
  CASE kind = "video" -> Video(r) [] kind = "usb" -> Usb(r) [] kind = "dmesg" -> DmesgRaw(r)
    [] kind = "i2c" -> I2c(r) [] kind = "gpio" -> GpioChain(i, r)
    [] kind = "clk" -> Clk(r) [] kind = "dma" -> Dma(r)

-----------------------------------------------------------------------------
(* The cache.                                                              *)

SetProbe(p, v) == probes' = [probes EXCEPT ![p] = v]

\* Slip: any entry will do.
HitAlways(e) == e.some
Hit(e) == e.some /\ e.age < TTL

\* _cached, up to fn(): answered from the cache, or the probe begins.
\* dmesg has no cache.
Look(p) ==
  /\ probes[p].at \in {"idle", "answered", "failed"}
  /\ SetProbe(p, IF kind # "dmesg" /\ Hit(entry)
                 THEN [NewProbe EXCEPT !.at = "answered", !.read = entry.read, !.what = entry.what]
                 ELSE [NewProbe EXCEPT !.at = "probe"])
  /\ UNCHANGED <<kind, entry>>

\* The command of the chain's next link; the last failure is the probe's.
\* What it shows may be as old as the probe.
Run(p) ==
  /\ probes[p].at = "probe"
  /\ \E r \in Results : LET what == Reading(probes[p].src, r) IN
       SetProbe(p, [probes[p] EXCEPT
         !.src = IF what = "fail" /\ @ < Links THEN @ + 1 ELSE @,
         !.at = IF what # "fail" THEN "store" ELSE IF probes[p].src < Links THEN @ ELSE "failed",
         !.read = probes[p].lasted, !.what = what])
  /\ UNCHANGED <<kind, entry>>

\* Slip: an entry that is there keeps its data and gets a new time.
StoreKeepsWhat(p) ==
  /\ probes[p].at = "store"
  /\ SetProbe(p, [probes[p] EXCEPT !.at = "answered"])
  /\ entry' = IF entry.some THEN [entry EXCEPT !.age = 0] ELSE
              [some |-> TRUE, age |-> 0, read |-> probes[p].read, what |-> probes[p].what]
  /\ UNCHANGED kind

\* _cached, after fn(): the entry is replaced, whatever it holds by now.
Store(p) ==
  /\ probes[p].at = "store"
  /\ SetProbe(p, [probes[p] EXCEPT !.at = "answered"])
  /\ entry' = IF kind = "dmesg" THEN entry
              ELSE [some |-> TRUE, age |-> 0, read |-> probes[p].read, what |-> probes[p].what]
  /\ UNCHANGED kind

\* A tick.  Every command has a time limit, so a probe lasts at most
\* MaxProbe; ages beyond what any test looks at are not told apart.
Older(n) == IF n <= TTL + MaxProbe THEN n + 1 ELSE n
Under == {"probe", "store"}

Tick ==
  /\ \A p \in Probers : probes[p].at \in Under => probes[p].lasted < MaxProbe
  /\ probes' = [p \in Probers |->
       LET b == probes[p] IN
       IF b.at \in Under
       THEN [b EXCEPT !.lasted = @ + 1, !.read = IF b.at = "store" THEN @ + 1 ELSE @]
       ELSE b]
  /\ entry' = IF entry.some THEN [entry EXCEPT !.age = Older(@), !.read = Older(@)] ELSE entry
  /\ UNCHANGED kind

-----------------------------------------------------------------------------
ProbesNext ==
  \/ \E p \in Probers : Look(p) \/ Run(p) \/ Store(p)
  \/ Tick

ProbesSpec == ProbesInit /\ [][ProbesNext]_probeVars

-----------------------------------------------------------------------------
(* Properties.                                                             *)

\* What a request is answered with was read from the board no more than the
\* life of an entry and the length of a probe ago, in whichever order slow
\* and fast probes store; and the fallbacks end in data: a GPIO answer
\* always names chips, a USB or kernel-log answer is never empty, and a
\* failure never comes out of the cache (diag.py:17-26, 131-151, 207-228,
\* peripherals.py:23-32, 165-310).
ProbesFresh ==
  \A p \in Probers : probes[p].at = "answered" =>
    /\ probes[p].read < TTL + MaxProbe
    /\ probes[p].what # "fail"
    /\ kind = "gpio" => probes[p].what = "data"
    /\ kind \in {"usb", "dmesg"} => probes[p].what # "none"

\* Not true (instance of Board.cfg): a slow probe does not replace newer data.
NeverOlder ==
  [][\A p \in Probers : Store(p) /\ entry.some /\ kind # "dmesg" => entry'.read <= entry.read]_probeVars
=============================================================================
