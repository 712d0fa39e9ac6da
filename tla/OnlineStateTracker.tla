-------------------------- MODULE OnlineStateTracker --------------------------
(***************************************************************************)
(* What the client tells its listeners about the connection                *)
(* (remote/online_state_tracker.cc).  A method is a function from the      *)
(* tracker's fields to its new fields; the watch path calls them.          *)
(*   state      state_                                                     *)
(*   failures   watch_stream_failures_                                     *)
(*   timer      online_state_timer_ is set                                 *)
(*   failed     the assertions that failed                                 *)
(***************************************************************************)
EXTENDS Assertions, Integers

OnlineStates == {"Unknown", "Online", "Offline"}

NewTracker == [state |-> "Unknown", failures |-> 0, timer |-> FALSE, failed |-> {}]

HandleWatchStreamStart(o) ==
    IF o.failures # 0
    THEN o
    ELSE [o EXCEPT !.state  = "Unknown",
                   !.timer  = TRUE,
                   !.failed = @ \cup HardAssert(~o.timer, "online state timer already started")]

\* Mutant: the timer runs on after the connection was given up.
FailureKeepsTimer(o) ==
    IF o.state = "Online"
    THEN [o EXCEPT !.state = "Unknown"]
    ELSE [o EXCEPT !.state = "Offline", !.failures = @ + 1]

\* kMaxWatchStreamFailures is 1, so every failure before the first message ends
\* in Offline.
HandleWatchStreamFailure(o) ==
    IF o.state = "Online"
    THEN [o EXCEPT !.state  = "Unknown",
                   !.failed = @ \cup HardAssert(o.failures = 0, "failures while online")
                                \cup HardAssert(~o.timer, "timer set while online")]
    ELSE [o EXCEPT !.state = "Offline", !.failures = @ + 1, !.timer = FALSE]

UpdateState(o, new) ==
    [o EXCEPT !.state = new, !.failures = 0, !.timer = FALSE]

\* The operation that HandleWatchStreamStart schedules.
OnlineStateTimerElapsed(o) ==
    [o EXCEPT !.timer  = FALSE,
              !.state  = "Offline",
              !.failed = @ \cup HardAssert(o.state = "Unknown", "timer elapsed in another state")]
=============================================================================
