------------------------------- MODULE Stream -------------------------------
(***************************************************************************)
(* The life cycle shared by the watch stream and the write stream          *)
(* (remote/stream.mm).  Every method runs on the worker queue, so a method *)
(* is a function from the stream's fields to its new fields; the modules   *)
(* that own a stream (WritePath, WatchPath) compose these functions in the *)
(* order in which the code calls them.                                     *)
(***************************************************************************)
EXTENDS Assertions, Integers

\* Stream::State (stream.h).
States == {"Initial", "Starting", "Open", "Error", "Backoff"}

(***************************************************************************)
(* The fields of a stream:                                                 *)
(*   state       state_                                                    *)
(*   closeCount  close_count_                                              *)
(*   timers      its delayed operations on the worker queue: "idle"        *)
(*               (idleness_timer_) and "backoff" (of backoff_)             *)
(*   requests    the GetToken calls that have not called back              *)
(*   failed      the assertions that failed                                *)
(***************************************************************************)
NewStream == [state      |-> "Initial",
              closeCount |-> 0,
              timers     |-> {},
              requests   |-> {},
              failed     |-> {}]

IsOpen(s) == s.state = "Open"

IsStarted(s) == s.state \in {"Starting", "Backoff", "Open"}

BackoffAndTryRestarting(s) ==
    [s EXCEPT !.state  = "Backoff",
              !.timers = @ \cup {"backoff"},
              !.failed = @ \cup HardAssert(s.state = "Error", "backoff without an error")]

\* Start.  A stream that failed waits first; otherwise RequestCredentials asks
\* the provider for a token and remembers the close count in the callback.
Start(s, request) ==
    IF s.state = "Error"
    THEN BackoffAndTryRestarting(s)
    ELSE [s EXCEPT !.state    = "Starting",
                   !.requests = @ \cup {request},
                   !.failed   = @ \cup HardAssert(s.state = "Initial", "already started")]

\* The operation that BackoffAndTryRestarting schedules.
BackoffElapsed(s, request) ==
    Start([s EXCEPT !.state  = "Initial",
                    !.timers = @ \ {"backoff"},
                    !.failed = @ \cup HardAssert(s.state = "Backoff", "not in backoff")],
          request)

\* The token callback checks the close count before it resumes the start.
CallbackIsStale(s, request) == request.closeCount # s.closeCount

\* ResumeStartWithCredentials with a token: GrpcStream::Start calls
\* OnStreamStart synchronously.
ResumeStartWithCredentials(s) ==
    [s EXCEPT !.state  = "Open",
              !.failed = @ \cup HardAssert(s.state = "Starting", "not starting")]

MarkIdle(s) == IF IsOpen(s) THEN [s EXCEPT !.timers = @ \cup {"idle"}] ELSE s

\* Mutant: a write leaves the idle timer running.
WriteKeepsIdle(s) ==
    [s EXCEPT !.failed = @ \cup HardAssert(IsOpen(s), "write to a stream that is not open")]

\* Write: cancels the idle timer.
WriteTo(s) ==
    [s EXCEPT !.timers = @ \ {"idle"},
              !.failed = @ \cup HardAssert(IsOpen(s), "write to a stream that is not open")]

InhibitBackoff(s) ==
    [s EXCEPT !.state  = "Initial",
              !.failed = @ \cup HardAssert(~IsStarted(s), "inhibit backoff of a started stream")]

\* Stop is a no-op on a stream that is not started.
StopIsNoOp(s) == ~IsStarted(s)

\* Close up to and including the state change of step 7; NotifyStreamClose is
\* the owner's.
Close(s, status) ==
    [s EXCEPT !.state      = IF status = "ok" THEN "Initial" ELSE "Error",
              !.closeCount = @ + 1,
              !.timers     = {},
              !.failed     = @ \cup HardAssert(IsStarted(s), "close of a stopped stream")]
=============================================================================
