----------------------------- MODULE CameraTests -----------------------------
(***************************************************************************)
(* stream_test of host/service/diag.py and its handler: a request streams  *)
(* thirty frames from a board's camera.  Two tests may run at once; a test *)
(* is refused while the board's capture service uses the camera.           *)
(***************************************************************************)
EXTENDS Naturals, FiniteSets

CONSTANTS Testers,        \* requests for a camera test
          StreamPermits   \* _STREAM_SEM

ASSUME CameraAssumption == StreamPermits \in Nat /\ IsFiniteSet(Testers)

VARIABLES
  permits,    \* free permits of _STREAM_SEM
  tests,      \* the camera tests
  capture     \* the board's capture service is running

cameraVars == <<permits, tests, capture>>

NewTest == [at |-> "idle", status |-> "none", audits |-> 0]

CameraInit ==
  /\ permits = StreamPermits
  /\ tests = [t \in Testers |-> NewTest]
  /\ capture \in BOOLEAN

-----------------------------------------------------------------------------
SetTest(t, v) == tests' = [tests EXCEPT ![t] = v]
TestsElse == UNCHANGED capture
Inside == {"occupied", "tools", "formats", "v4l2", "rk", "size", "leave"}

\* Arguments are refused before a permit is asked for; without one the
\* test is refused as busy.
StreamTest(t) ==
  /\ tests[t].at \in {"idle", "done"}
  /\ \/ SetTest(t, [NewTest EXCEPT !.at = "audit", !.status = "invalid"]) /\ UNCHANGED permits
     \/ /\ permits = 0
        /\ SetTest(t, [NewTest EXCEPT !.at = "audit", !.status = "busy"]) /\ UNCHANGED permits
     \/ /\ permits > 0
        /\ SetTest(t, [NewTest EXCEPT !.at = "occupied"]) /\ permits' = permits - 1
  /\ TestsElse

Goes(t, from, to) ==
  /\ tests[t].at = from
  /\ SetTest(t, [tests[t] EXCEPT !.at = to])
  /\ UNCHANGED permits /\ TestsElse

Ended(t, from, status) ==
  /\ tests[t].at = from
  /\ SetTest(t, [tests[t] EXCEPT !.at = "leave", !.status = status])
  /\ UNCHANGED permits /\ TestsElse

\* An error of the question counts as "not occupied".
Occupied(t) ==
  \/ capture /\ Ended(t, "occupied", "error")
  \/ Goes(t, "occupied", "tools")

ProbeTools(t) ==
  \/ Ended(t, "tools", "error")
  \/ Ended(t, "tools", "NOV4L2")
  \/ Goes(t, "tools", "formats")
  \/ Goes(t, "tools", "rk")

\* No such camera, no format to be found, or a stream to be started.
StreamFormats(t) ==
  \/ Ended(t, "formats", "error")
  \/ Goes(t, "formats", "v4l2")

Counts == {"thirty", "some", "unknown"}

Verdict(code, frames) ==
  CASE code = "killed" -> "TIMEOUT"
    [] code = "zero" /\ frames = "thirty" -> "STREAMOK"
    [] OTHER -> "STREAM_FAIL"

StreamV4l2(t) ==
  \/ Ended(t, "v4l2", "error")
  \/ \E code \in {"zero", "other", "killed"}, frames \in Counts :
       /\ tests[t].at = "v4l2"
       /\ SetTest(t, [tests[t] EXCEPT !.at = "size", !.status = Verdict(code, frames)])
       /\ UNCHANGED permits /\ TestsElse

\* The file's size is asked for; that this fails does not matter.
StatSize(t) == Goes(t, "size", "leave")

StreamRk(t) ==
  \/ Ended(t, "rk", "error")
  \/ \E status \in {"TIMEOUT", "STREAMOK", "STREAM_FAIL"} :
       /\ tests[t].at = "rk"
       /\ SetTest(t, [tests[t] EXCEPT !.at = "leave", !.status = status])
       /\ UNCHANGED permits /\ TestsElse

\* Slip: the permit is kept when the camera is occupied.
LeaveOnResult(t) ==
  /\ tests[t].at = "leave"
  /\ SetTest(t, [tests[t] EXCEPT !.at = "audit"])
  /\ permits' = IF tests[t].status = "error" THEN permits ELSE permits + 1
  /\ TestsElse

\* finally: the permit is given back.
Leave(t) ==
  /\ tests[t].at = "leave"
  /\ SetTest(t, [tests[t] EXCEPT !.at = "audit"])
  /\ permits' = permits + 1
  /\ TestsElse

\* The handler: one record, then the answer.
AuditTest(t) ==
  /\ tests[t].at = "audit"
  /\ SetTest(t, [tests[t] EXCEPT !.at = "done", !.audits = @ + 1])
  /\ UNCHANGED permits /\ TestsElse

\* The service on the board is started or stopped.
CaptureTurns ==
  /\ capture' = ~capture
  /\ UNCHANGED <<permits, tests>>

-----------------------------------------------------------------------------
TestStep(t) ==
  \/ Occupied(t) \/ ProbeTools(t) \/ StreamFormats(t) \/ StreamV4l2(t) \/ StatSize(t)
  \/ StreamRk(t) \/ Leave(t) \/ AuditTest(t)

CameraNext == CaptureTurns \/ \E t \in Testers : StreamTest(t) \/ TestStep(t)

CameraSpec == CameraInit /\ [][CameraNext]_cameraVars

-----------------------------------------------------------------------------
(* Properties.                                                             *)

\* The permits for camera tests are exact on every path through a test, and
\* a test is audited once, after it gave its permit back (diag.py:280-316,
\* handlers/diag.py:94-117).
StreamsAccounted ==
  /\ permits + Cardinality({t \in Testers : tests[t].at \in Inside}) = StreamPermits
  /\ \A t \in Testers : tests[t].audits = (IF tests[t].at = "done" THEN 1 ELSE 0)
                        /\ (tests[t].at = "done" => tests[t].status # "none")

\* Not true (instance of Board.cfg): no test streams from a camera the capture
\* service is using.
CameraNotShared == \A t \in Testers : tests[t].at \in {"v4l2", "rk"} => ~capture
=============================================================================
