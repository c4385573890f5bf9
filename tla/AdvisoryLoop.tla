---------------------------- MODULE AdvisoryLoop ----------------------------
(***************************************************************************)
(* The ListAndWatch streaming loop of the CPU server (cpu_server.go,       *)
(* ListAndWatch and getAndPushAdvice). Each session is one ListAndWatch    *)
(* call of the QRM plugin on its own gRPC goroutine. The atomic flag       *)
(* hasListAndWatchLoop lets at most one of them run the loop; the winner   *)
(* dials the plugin, registers a heartbeat health check, arms a timer and  *)
(* on every timer fire runs one tick, until its stream context is done or  *)
(* the server's stopCh is closed. Its deferred calls then stop (and drain) *)
(* the timer, unregister the health check, close the connection and clear  *)
(* the flag, in that order.                                                *)
(*                                                                         *)
(* The timer channel has the buffered semantics of time.Timer: a fire      *)
(* leaves one value in timer.C until it is received.                       *)
(***************************************************************************)
EXTENDS Naturals

CONSTANTS
  Sessions,   \* ListAndWatch streams of the plugin
  MaxCalls,   \* bound on ListAndWatch calls per session
  PluginMayHang \* the plugin may accept GetCheckpoint or the stream's Send
                \* and never answer

ASSUME MaxCalls \in Nat /\ PluginMayHang \in BOOLEAN

VARIABLES
  flag,       \* hasListAndWatchLoop
  pc,         \* [Sessions -> PCs]: where each ListAndWatch call is
  timer,      \* [Sessions -> TimerStates]
  ctxDone,    \* [Sessions -> BOOLEAN]: server.Context().Done() is closed
  stopped,    \* cs.stopCh is closed
  health,     \* state of the cpu-server-lw heartbeat check
  calls       \* [Sessions -> 0..MaxCalls]

vars == <<flag, pc, timer, ctxDone, stopped, health, calls>>

\* "idle": no call in progress; "client": won the flag, dialling the plugin;
\* "loop": in the select loop; "tick": in getAndPushAdvice; "hung": in a
\* call to the plugin that will not answer; "drain": running the timer's
\* deferred stop; "unregister" and "clear": the remaining deferred calls.
PCs == {"idle", "client", "loop", "tick", "hung", "drain", "unregister", "clear"}

\* "armed": running; "fired": expired, value waiting in timer.C; "drained":
\* expired and its value received; "none": no timer.
TimerStates == {"none", "armed", "fired", "drained"}

HealthStates == {"unregistered", "notReady", "healthy", "unhealthy"}

-----------------------------------------------------------------------------
\* Fault variant: the deferred Store(false) registered before the Swap, so
\* the losing call clears the flag too.
ListAndWatchBusyReleasing(s) ==
  /\ pc[s] = "idle"
  /\ calls[s] < MaxCalls
  /\ flag
  /\ flag' = FALSE
  /\ calls' = [calls EXCEPT ![s] = @ + 1]
  /\ UNCHANGED <<pc, timer, ctxDone, stopped, health>>

\* Fault variant: the deferred Store(false) registered after createQRMClient.
CreateClientFailedNoRelease(s) ==
  /\ pc[s] = "client"
  /\ pc' = [pc EXCEPT ![s] = "idle"]
  /\ UNCHANGED <<flag, timer, ctxDone, stopped, health, calls>>

\* hasListAndWatchLoop.Swap(true) returns false: this call owns the loop.
ListAndWatchEnter(s) ==
  /\ pc[s] = "idle"
  /\ calls[s] < MaxCalls
  /\ ~flag
  /\ flag' = TRUE
  /\ pc' = [pc EXCEPT ![s] = "client"]
  /\ ctxDone' = [ctxDone EXCEPT ![s] = FALSE]
  /\ calls' = [calls EXCEPT ![s] = @ + 1]
  /\ UNCHANGED <<timer, stopped, health>>

\* Swap(true) returns true: "another ListAndWatch loop is running"; the
\* call returns before its deferred Store(false) is registered.
ListAndWatchBusy(s) ==
  /\ pc[s] = "idle"
  /\ calls[s] < MaxCalls
  /\ flag
  /\ calls' = [calls EXCEPT ![s] = @ + 1]
  /\ UNCHANGED <<flag, pc, timer, ctxDone, stopped, health>>

\* createQRMClient fails (socket missing or dial error): the deferred
\* Store(false) runs.
CreateClientFailed(s) ==
  /\ pc[s] = "client"
  /\ flag' = FALSE
  /\ pc' = [pc EXCEPT ![s] = "idle"]
  /\ UNCHANGED <<timer, ctxDone, stopped, health, calls>>

\* The client is created, the heartbeat check registered as not ready and
\* the timer armed.
CreateClientOK(s) ==
  /\ pc[s] = "client"
  /\ pc' = [pc EXCEPT ![s] = "loop"]
  /\ health' = "notReady"
  /\ timer' = [timer EXCEPT ![s] = "armed"]
  /\ UNCHANGED <<flag, ctxDone, stopped, calls>>

TimerFire(s) ==
  /\ timer[s] = "armed"
  /\ timer' = [timer EXCEPT ![s] = "fired"]
  /\ UNCHANGED <<flag, pc, ctxDone, stopped, health, calls>>

(* shouldTriggerAdvisorUpdate: the push is skipped, with a nil error,     *)
(* during the startup period or while the reserve pool is not cached.      *)
GateClosed == {"startingUp", "noReserve"}

(* What one getAndPushAdvice returns: the checkpoint fetch fails, the gate *)
(* skips the push, UpdateAndGetAdvice fails or returns another type,       *)
(* Send fails, or the advice is pushed.                                    *)
PushOutcomes ==
  {"checkpointFailed", "adviceFailed", "invalidType", "sendFailed", "pushed"}
    \cup GateClosed

\* The outcomes reported to the health check as an error.
PushFailed(o) == o \notin GateClosed \cup {"pushed"}

(* The select receives from timer.C and calls getAndPushAdvice, which     *)
(* blocks in GetCheckpoint, UpdateAndGetAdvice and Send; the select does   *)
(* not watch stopCh or the stream context meanwhile.                       *)
TickStart(s) ==
  /\ pc[s] = "loop"
  /\ timer[s] = "fired"
  /\ timer' = [timer EXCEPT ![s] = "drained"]
  /\ \E at \in IF PluginMayHang THEN {"tick", "hung"} ELSE {"tick"} :
       pc' = [pc EXCEPT ![s] = at]
  /\ UNCHANGED <<flag, ctxDone, stopped, health, calls>>

\* Fault variant: the calls made with context.Background(), never done.
CallCtxDoneBackground(s) == FALSE

(* GetCheckpoint and Send run under server.Context() (line 188), the       *)
(* stream's context: they return with its error once it is done.           *)
CallCtxDone(s) == ctxDone[s]

(* getAndPushAdvice returns; the health check records its error or nil,   *)
(* and the timer is reset.                                                 *)
\* Fault variant: timer.Reset omitted after a tick.
TimerNotReset(s) == [timer EXCEPT ![s] = "drained"]

TimerReset(s) == [timer EXCEPT ![s] = "armed"]

TickDone(s) ==
  /\ pc[s] = "tick"
  /\ \E o \in PushOutcomes :
       health' = IF PushFailed(o) THEN "unhealthy" ELSE "healthy"
  /\ timer' = TimerReset(s)
  /\ pc' = [pc EXCEPT ![s] = "loop"]
  /\ UNCHANGED <<flag, ctxDone, stopped, calls>>

\* The unanswered call fails with the context's error, reported as unhealthy.
TickCancelled(s) ==
  /\ pc[s] = "hung"
  /\ CallCtxDone(s)
  /\ health' = "unhealthy"
  /\ timer' = TimerReset(s)
  /\ pc' = [pc EXCEPT ![s] = "loop"]
  /\ UNCHANGED <<flag, ctxDone, stopped, calls>>

\* The plugin closes its stream.
CancelStream(s) ==
  /\ pc[s] \in {"client", "loop", "tick", "hung"}
  /\ ~ctxDone[s]
  /\ ctxDone' = [ctxDone EXCEPT ![s] = TRUE]
  /\ UNCHANGED <<flag, pc, timer, stopped, health, calls>>

\* The CPU server is stopped: stopCh is closed.
Stop ==
  /\ ~stopped
  /\ stopped' = TRUE
  /\ UNCHANGED <<flag, pc, timer, ctxDone, health, calls>>

\* The select takes the context or the stop channel and returns.
ExitLoop(s) ==
  /\ pc[s] = "loop"
  /\ ctxDone[s] \/ stopped
  /\ pc' = [pc EXCEPT ![s] = "drain"]
  /\ UNCHANGED <<flag, timer, ctxDone, stopped, health, calls>>

\* Fault variant: Store(false) deferred last, so that it runs first.
DeferNextFlagFirst == [drain |-> "clear", clear |-> "unregister", unregister |-> "idle"]

(* The deferred calls run last-registered first: the timer's stop (line   *)
(* 120), UnregisterTemporaryHeartbeatCheck (117), conn.Close (113), and    *)
(* hasListAndWatchLoop.Store(false) (105) last.                            *)
DeferNext == [drain |-> "unregister", unregister |-> "clear", clear |-> "idle"]

\* if !timer.Stop() { <-timer.C }: Stop succeeds on an armed timer; on an
\* expired one it fails and the receive takes the buffered value, or blocks
\* forever if that value was already received.
DrainTimer(s) ==
  /\ pc[s] = "drain"
  /\ timer[s] \in {"armed", "fired"}
  /\ timer' = [timer EXCEPT ![s] = "none"]
  /\ pc' = [pc EXCEPT ![s] = DeferNext.drain]
  /\ UNCHANGED <<flag, ctxDone, stopped, health, calls>>

\* UnregisterTemporaryHeartbeatCheck, then conn.Close (no state here).
Unregister(s) ==
  /\ pc[s] = "unregister"
  /\ health' = "unregistered"
  /\ pc' = [pc EXCEPT ![s] = DeferNext.unregister]
  /\ UNCHANGED <<flag, timer, ctxDone, stopped, calls>>

\* hasListAndWatchLoop.Store(false).
ClearFlag(s) ==
  /\ pc[s] = "clear"
  /\ flag' = FALSE
  /\ pc' = [pc EXCEPT ![s] = DeferNext.clear]
  /\ UNCHANGED <<timer, ctxDone, stopped, health, calls>>

-----------------------------------------------------------------------------
Init ==
  /\ flag = FALSE
  /\ pc = [s \in Sessions |-> "idle"]
  /\ timer = [s \in Sessions |-> "none"]
  /\ ctxDone = [s \in Sessions |-> FALSE]
  /\ stopped = FALSE
  /\ health = "unregistered"
  /\ calls = [s \in Sessions |-> 0]

SessionStep(s) ==
  \/ CreateClientFailed(s) \/ CreateClientOK(s) \/ TimerFire(s)
  \/ TickStart(s) \/ TickDone(s) \/ TickCancelled(s)
  \/ ExitLoop(s) \/ DrainTimer(s) \/ Unregister(s) \/ ClearFlag(s)

Next ==
  \/ \E s \in Sessions :
       \/ ListAndWatchEnter(s) \/ ListAndWatchBusy(s) \/ CancelStream(s)
       \/ SessionStep(s)
  \/ Stop

(* Goroutines are scheduled fairly, a timer armed for cs.period fires, and *)
(* a select with several ready cases picks each with equal probability, so *)
(* every step of a call in progress is weakly fair on its own, and the     *)
(* select's exit case, ready at every return to the select once the stream *)
(* or the server is done, is strongly fair. The plugin's calls, stream    *)
(* cancellation and Stop are the environment's.                            *)
Fairness ==
  \A s \in Sessions :
    /\ WF_vars(CreateClientFailed(s) \/ CreateClientOK(s))
    /\ WF_vars(TimerFire(s)) /\ WF_vars(TickStart(s)) /\ WF_vars(TickDone(s))
    /\ WF_vars(TickCancelled(s)) /\ SF_vars(ExitLoop(s))
    /\ WF_vars(DrainTimer(s)) /\ WF_vars(Unregister(s)) /\ WF_vars(ClearFlag(s))

Spec == Init /\ [][Next]_vars /\ Fairness

-----------------------------------------------------------------------------
(* Single flight: at most one ListAndWatch call is past the Swap and has   *)
(* not yet cleared the flag, whatever order the calls, failures and exits  *)
(* of several streams interleave in.                                       *)
SingleLoop ==
  \A s, t \in Sessions : (pc[s] # "idle" /\ pc[t] # "idle") => s = t

(* The flag is never left set without an owner: on every return path of   *)
(* the call that set it (dial failure, stream end, stop) it is cleared.    *)
FlagOwned ==
  flag => \E s \in Sessions : pc[s] # "idle"

(* The one heartbeat check, cpu-server-lw, is registered while a loop      *)
(* runs: a call leaving the loop unregisters it before it frees the flag,  *)
(* so it can never unregister the check of the next stream's loop.         *)
HealthTracksLoop ==
  \A s \in Sessions : pc[s] \in {"loop", "tick", "hung"} => health # "unregistered"

(* Once the server is stopped, every call returns and the flag is cleared. *)
StopReleases ==
  stopped ~> (~flag /\ \A s \in Sessions : pc[s] = "idle")

(* A call whose stream has ended returns, even when the plugin never       *)
(* answers the tick's GetCheckpoint or Send: the loop cannot be held by a  *)
(* dead stream, and the next stream can take the flag.                     *)
CancelReleases ==
  \A s \in Sessions : (ctxDone[s] /\ pc[s] # "idle") ~> pc[s] = "idle"

=============================================================================
