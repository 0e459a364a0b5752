------------------------------- MODULE Runner -------------------------------
(***************************************************************************)
(* One turn after the other as internal/turn runs them: the runner's       *)
(* goroutine (Loop.Run inside it), the silence watchdog's goroutine and    *)
(* its probes, and whoever calls Cancel - the operator or the watchdog -   *)
(* share the cancel function, the run id and the watchdog's flags, each    *)
(* under its own lock.  The Hermes gateway is the environment: it accepts  *)
(* runs, works on them, and may be out of reach.                           *)
(*                                                                         *)
(* Time passes in ticks of the watchdog's clock.  What a round is about is *)
(* left to Turn; here it is a POST, a wait and the calls it asks for.      *)
(***************************************************************************)
EXTENDS Integers, Sequences

CONSTANTS Timeout,    \* HERMES_HANDS_RESPONSE_TIMEOUT, in ticks; 0: no limit
          Interval,   \* HERMES_HANDS_WATCHDOG_INTERVAL, in ticks; 0: no probes
          Floor,      \* watchdogIntervalFloor
          ProbeTime,  \* how long a probe may take
          MaxTurns,   \* bound: turns
          MaxRuns,    \* bound: runs the gateway accepts
          MaxBatch    \* bound: calls of one envelope

ASSUME RunnerAssumption ==
  /\ Timeout \in Nat /\ Interval \in Nat
  /\ Floor \in Nat /\ ProbeTime \in Nat /\ ProbeTime < Floor
  /\ MaxTurns \in Nat /\ MaxRuns \in Nat /\ MaxBatch \in Nat \ {0}

Turns == 1..MaxTurns

\* the probe timer of a turn's watchdog
Every   == IF Interval < Floor THEN Floor ELSE Interval
Probing == Timeout > 0 /\ Interval > 0

VARIABLES
  \* the runner's goroutine
  turn,        \* the turn begun last; 0: none
  pc,          \* "idle" | "posting" | "awaiting" | "calls" | "returned" | "disarmed" | "released"
  left,        \* calls of the envelope not started yet
  call,        \* the call at work: "none" | "approval" | "running"
  run,         \* the run the client waits for; 0: none
  \* Runner, under mu
  cancellable, \* r.cancel # nil
  runID,       \* r.runID; 0: ""
  \* the turn's context
  done,        \* ctx.Err() # nil
  \* each turn's watchdog, under its own mu
  guard,       \* its goroutine: "none" | "starting" | "watching" | "firing" | "gone"
  armed, fired,
  deadline,    \* ticks to the running turn's deadline
  toProbe,     \* ticks to its next probe
  probe,       \* the probe in flight: the turn it was launched for, the run it asks about,
               \* and for how long
  \* the gateway
  gateway,     \* "up" | "down"
  runs,        \* the runs it accepted, in order
  stopAsked,   \* those at work POST /v1/runs/{id}/stop was sent for
  \* how each turn ended, as recorded
  result,      \* "none" | "ok" | "interrupted" | "timeout"
  \* history variables, read by no action
  pressed,     \* turns the operator cancelled while their cancel function was set
  well         \* ticks in a row the gateway answered and worked on the run waited for

runner   == <<turn, pc, left, call, run>>
shared   == <<cancellable, runID, done>>
watchdog == <<guard, armed, fired, deadline, toProbe, probe>>
server   == <<gateway, runs, stopAsked>>
vars     == <<runner, shared, watchdog, server, result, pressed, well>>

NoProbe == [turn |-> 0, rid |-> 0, age |-> 0]

Init ==
  /\ turn = 0 /\ pc = "idle" /\ left = 0 /\ call = "none" /\ run = 0
  /\ cancellable = FALSE /\ runID = 0 /\ done = FALSE
  /\ guard = [t \in Turns |-> "none"]
  /\ armed = [t \in Turns |-> FALSE] /\ fired = [t \in Turns |-> FALSE]
  /\ deadline = 0 /\ toProbe = 0 /\ probe = NoProbe
  /\ gateway = "up" /\ runs = <<>> /\ stopAsked = {}
  /\ result = [t \in Turns |-> "none"] /\ pressed = {} /\ well = 0

-----------------------------------------------------------------------------
(* bump: a sign of life, while the turn's watchdog is armed. *)
Watching == turn > 0 /\ armed[turn] /\ ~fired[turn]

Pushed == Timeout

Bump == deadline' = IF Watching THEN Pushed ELSE deadline

(* Run, up to Loop.Run: a new context, a new watchdog, its goroutine. *)
StartTurn ==
  /\ pc = "idle" /\ turn < MaxTurns
  /\ turn' = turn + 1 /\ pc' = "posting" /\ run' = 0
  /\ cancellable' = TRUE /\ runID' = 0 /\ done' = FALSE
  /\ guard' = [guard EXCEPT ![turn + 1] = "starting"]
  /\ UNCHANGED <<left, call, armed, fired, deadline, toProbe, probe, server, result, pressed>>
  /\ well' = 0

Returns == pc' = "returned" /\ left' = 0 /\ call' = "none"

(* The gateway takes the POST; the reply is on its way. *)
Accept ==
  /\ pc = "posting" /\ run = 0 /\ gateway = "up" /\ Len(runs) < MaxRuns
  /\ runs' = Append(runs, [turn |-> turn, status |-> "running"])
  /\ run' = Len(runs')
  /\ UNCHANGED <<turn, pc, left, call, shared, watchdog, gateway, stopAsked, result, pressed, well>>

(* submitRun has the run id: OnRunStart. *)
RunStarts ==
  /\ pc = "posting" /\ run # 0
  /\ pc' = "awaiting" /\ runID' = run
  /\ Bump
  /\ well' = 0
  /\ UNCHANGED <<turn, left, call, run, cancellable, done, guard, armed, fired, toProbe, probe,
                 server, result, pressed>>

(* The POST failed: the context is done, the gateway refused it, or did not
   answer in time - it may have taken the run all the same.                 *)
PostFails ==
  /\ pc = "posting"
  /\ Returns
  /\ UNCHANGED <<turn, run, shared, watchdog, server, result, pressed, well>>

(* A token, an event: Hermes is at work (OnDelta, OnEvent). *)
Delta ==
  /\ pc = "awaiting" /\ gateway = "up" /\ runs[run].status = "running"
  /\ Bump
  /\ UNCHANGED <<runner, shared, guard, armed, fired, toProbe, probe, server, result, pressed, well>>

(* The run's answer is read: an envelope - one that is to be sent again has
   nothing to run -, or the turn's end.                                     *)
Read ==
  /\ pc = "awaiting" /\ gateway = "up" /\ runs[run].status = "ended"
  /\ Bump
  /\ \/ pc' = "calls" /\ left' \in 0..MaxBatch /\ UNCHANGED call
     \/ Returns
  /\ UNCHANGED <<turn, run, shared, guard, armed, fired, toProbe, probe, server, result, pressed, well>>

(* The wait is given up: the context is done.  Out of reach the gateway may
   break the connection, or leave it open without a word.                   *)
WaitFails ==
  /\ pc = "awaiting" /\ (done \/ gateway = "down")
  /\ Returns
  /\ UNCHANGED <<turn, run, shared, watchdog, server, result, pressed, well>>

-----------------------------------------------------------------------------
(* runCall: shown - a sign of life -, then dispatched; some calls ask first. *)
StartCall ==
  /\ pc = "calls" /\ call = "none" /\ left > 0
  /\ left' = left - 1 /\ call' \in {"approval", "running"}
  /\ Bump
  /\ UNCHANGED <<turn, pc, run, shared, guard, armed, fired, toProbe, probe, server, result,
                 pressed, well>>

(* The operator answers the prompt: yes, no, or quit the turn. *)
Approve ==
  /\ pc = "calls" /\ call = "approval"
  /\ call' = "running"
  /\ UNCHANGED <<turn, pc, left, run, shared, watchdog, server, result, pressed, well>>

EndCall ==
  /\ pc = "calls" /\ call \in {"approval", "running"}
  /\ call' = "none"
  /\ Bump
  /\ UNCHANGED <<turn, pc, left, run, shared, guard, armed, fired, toProbe, probe, server,
                 result, pressed, well>>

Finish == call = "running" /\ EndCall
Deny   == call = "approval" /\ EndCall

QuitTurn ==
  /\ pc = "calls" /\ call = "approval"
  /\ Returns
  /\ Bump
  /\ UNCHANGED <<turn, run, shared, guard, armed, fired, toProbe, probe, server, result, pressed, well>>

(* Every call is answered: the results are the next request. *)
NextRound ==
  /\ pc = "calls" /\ call = "none" /\ left = 0
  /\ pc' = "posting" /\ run' = 0
  /\ UNCHANGED <<turn, left, call, shared, watchdog, server, result, pressed, well>>

-----------------------------------------------------------------------------
\* mutant of Disarmed: the watchdog stays armed
Disarmed_Armed == armed[turn]

Disarmed == FALSE

(* Loop.Run came back: close(stop), then disarm reads whether it fired. *)
Disarm ==
  /\ pc = "returned"
  /\ pc' = "disarmed" /\ armed' = [armed EXCEPT ![turn] = Disarmed]
  /\ result' = [result EXCEPT ![turn] = IF fired[turn] THEN "timeout" ELSE "ok"]
  /\ UNCHANGED <<turn, left, call, run, shared, guard, fired, deadline, toProbe, probe, server,
                 pressed, well>>

\* mutant of Released: the cancel function stays with the runner
Released_Kept == cancellable

Released == FALSE

Release ==
  /\ pc = "disarmed"
  /\ pc' = "released" /\ cancellable' = Released
  /\ UNCHANGED <<turn, left, call, run, runID, done, watchdog, server, result, pressed, well>>

(* The footer: a timeout before an interruption, an interruption before the
   answer.                                                                  *)
Record ==
  /\ pc = "released"
  /\ pc' = "idle" /\ run' = 0
  /\ result' = [result EXCEPT ![turn] = IF @ = "ok" /\ done THEN "interrupted" ELSE @]
  /\ UNCHANGED <<turn, left, call, shared, watchdog, server, pressed, well>>

(* The turn is over for everyone: nothing recorded changes any more. *)
Over(t) == t < turn \/ (t = turn /\ pc = "idle")

-----------------------------------------------------------------------------
(* Cancel: the context, the shell's child - the command at work Finishes - and,
   on its way, a stop for the run id at hand - the gateway ignores it if that
   run has ended.                                                           *)
Cancel ==
  /\ done' = (done \/ cancellable)
  /\ stopAsked' = IF runID # 0 /\ runs[runID].status = "running" THEN stopAsked \cup {runID} ELSE stopAsked

Press ==
  /\ turn > 0
  /\ Cancel
  /\ pressed' = IF cancellable THEN pressed \cup {turn} ELSE pressed
  /\ UNCHANGED <<runner, cancellable, runID, watchdog, gateway, runs, result, well>>

-----------------------------------------------------------------------------
(* guard, opening: armed, the deadline set, the probe timer started.  Without a
   limit it only waits for the turn's end.                                  *)
Arm(t) ==
  /\ guard[t] = "starting"
  /\ guard' = [guard EXCEPT ![t] = "watching"]
  /\ armed' = [armed EXCEPT ![t] = Timeout > 0]
  /\ IF t = turn THEN deadline' = Timeout /\ toProbe' = Every
                 ELSE UNCHANGED <<deadline, toProbe>>
  /\ UNCHANGED <<runner, shared, fired, probe, server, result, pressed, well>>

(* stop is closed once Loop.Run came back. *)
StopClosed(t) == t < turn \/ pc \in {"disarmed", "released", "idle"}

GuardStops(t) ==
  /\ guard[t] = "watching" /\ StopClosed(t)
  /\ guard' = [guard EXCEPT ![t] = "gone"]
  /\ armed' = [armed EXCEPT ![t] = FALSE]
  /\ UNCHANGED <<runner, shared, fired, deadline, toProbe, probe, server, result, pressed, well>>

(* The deadline passed: fired, under the lock; onFire comes after it. *)
Due(t) == guard[t] = "watching" /\ t = turn /\ armed[t] /\ ~fired[t] /\ deadline = 0

Fire(t) ==
  /\ Due(t)
  /\ fired' = [fired EXCEPT ![t] = TRUE]
  /\ guard' = [guard EXCEPT ![t] = "firing"]
  /\ UNCHANGED <<runner, shared, armed, deadline, toProbe, probe, server, result, pressed, well>>

OnFire(t) ==
  /\ guard[t] = "firing"
  /\ Cancel
  /\ guard' = [guard EXCEPT ![t] = "gone"]
  /\ armed' = [armed EXCEPT ![t] = FALSE]
  /\ UNCHANGED <<runner, cancellable, runID, fired, deadline, toProbe, probe, gateway, runs,
                 result, pressed, well>>

(* The probe timer: check reads the run id, then asks the gateway. *)
ProbeDue == Probing /\ turn > 0 /\ guard[turn] = "watching" /\ toProbe = 0

LaunchProbe ==
  /\ ProbeDue /\ probe = NoProbe
  /\ probe' = [turn |-> turn, rid |-> runID, age |-> 0] /\ toProbe' = Every
  /\ UNCHANGED <<runner, shared, guard, armed, fired, deadline, server, result, pressed, well>>

\* mutant of Alive: a run at work does not count
Alive_NoRun == probe.rid = 0

\* mutant of Alive: a gateway that cannot be asked counts as a sign of life
Alive_WhenDown == \/ probe.rid = 0
                  \/ gateway = "down"
                  \/ runs[probe.rid].status = "running"

Alive == \/ probe.rid = 0
         \/ gateway = "up" /\ runs[probe.rid].status = "running"

(* Its answer: a sign of life, if the turn it was launched for still runs. *)
AnswerProbe ==
  /\ probe # NoProbe
  /\ probe' = NoProbe
  /\ IF Alive /\ probe.turn = turn THEN Bump ELSE UNCHANGED deadline
  /\ UNCHANGED <<runner, shared, guard, armed, fired, toProbe, server, result, pressed, well>>

-----------------------------------------------------------------------------
(* Time.  A probe is answered or given up within its time, a deadline that
   passed is seen within a tick.                                            *)
AtWork == pc = "awaiting" /\ gateway = "up" /\ runs[run].status = "running"

Tick ==
  /\ pc # "idle" /\ guard[turn] = "watching"
  /\ probe = NoProbe \/ probe.age < ProbeTime
  /\ ~ProbeDue /\ ~Due(turn) /\ ~StopClosed(turn)
  /\ probe' = IF probe = NoProbe THEN probe ELSE [probe EXCEPT !.age = @ + 1]
  /\ deadline' = IF deadline > 0 THEN deadline - 1 ELSE 0
  /\ toProbe' = IF toProbe > 0 THEN toProbe - 1 ELSE 0
  /\ well' = IF ~AtWork THEN 0 ELSE IF well < Timeout THEN well + 1 ELSE well
  /\ UNCHANGED <<runner, shared, guard, armed, fired, server, result, pressed>>

(* The gateway: out of reach and back; a run ends by itself or stopped. *)
Outage ==
  /\ gateway' = IF gateway = "up" THEN "down" ELSE "up"
  /\ UNCHANGED <<runner, shared, watchdog, runs, stopAsked, result, pressed>>
  /\ well' = 0

RunEnds ==
  /\ \E r \in DOMAIN runs :
       /\ runs[r].status = "running"
       /\ runs' = [runs EXCEPT ![r].status = "ended"]
       /\ stopAsked' = stopAsked \ {r}
  /\ UNCHANGED <<runner, shared, watchdog, gateway, result, pressed, well>>

-----------------------------------------------------------------------------
(* The runner's own steps: each is bounded by the client's and the shell's
   timeouts.  An approval waits as long as the operator does.               *)
RunnerStep ==
  \/ RunStarts \/ PostFails \/ Read \/ (done /\ WaitFails)
  \/ StartCall \/ Finish \/ NextRound
  \/ Disarm \/ Release \/ Record

GuardStep ==
  \/ \E t \in Turns : Arm(t) \/ GuardStops(t) \/ Fire(t) \/ OnFire(t)
  \/ LaunchProbe \/ AnswerProbe

Next ==
  \/ StartTurn
  \/ RunnerStep
  \/ Accept \/ Delta \/ WaitFails
  \/ Approve \/ Deny \/ QuitTurn
  \/ Press
  \/ GuardStep
  \/ Tick \/ Outage \/ RunEnds

Spec == Init /\ [][Next]_vars

Fairness == WF_vars(RunnerStep) /\ WF_vars(GuardStep) /\ WF_vars(Tick)

FairSpec == Spec /\ Fairness

-----------------------------------------------------------------------------
(* Properties *)

Runs == [turn : Turns, status : {"running", "ended"}]

TypeOK ==
  /\ turn \in 0..MaxTurns /\ (turn = 0 => pc = "idle")
  /\ run \in 0..Len(runs) /\ left \in 0..MaxBatch
  /\ pc \in {"idle", "posting", "awaiting", "calls", "returned", "disarmed", "released"}
  /\ call \in {"none", "approval", "running"}
  /\ cancellable \in BOOLEAN /\ done \in BOOLEAN /\ runID \in 0..Len(runs)
  /\ guard \in [Turns -> {"none", "starting", "watching", "firing", "gone"}]
  /\ armed \in [Turns -> BOOLEAN] /\ fired \in [Turns -> BOOLEAN]
  /\ deadline \in 0..Timeout /\ toProbe \in 0..Every
  /\ probe \in [turn : 0..MaxTurns, rid : 0..Len(runs), age : 0..ProbeTime]
  /\ gateway \in {"up", "down"} /\ runs \in Seq(Runs) /\ stopAsked \subseteq DOMAIN runs
  /\ result \in [Turns -> {"none", "ok", "interrupted", "timeout"}]
  /\ pressed \subseteq Turns /\ well \in 0..Timeout

(* watchdog.go, disarm: "Either way the bool it returns is authoritative".  A
   turn is recorded as timed out exactly when its watchdog fired, however late
   the deadline's goroutine runs against the turn's end.                    *)
TimeoutAuthoritative ==
  \A t \in Turns : Over(t) => (fired[t] <=> result[t] = "timeout")

(* A Cancel the operator got in while the turn still held its cancel function
   is never reported as a normal end: neither between the loop's return and
   the footer nor into the next turn.                                       *)
InterruptionRecorded ==
  \A t \in pressed : Over(t) => result[t] \in {"interrupted", "timeout"}

(* README: the deadline is "pushed back by any token / tool round / a live
   server-run probe".  A run the gateway has worked on, in reach, for longer
   than it takes to ask - the interval, but the floor at least, and a probe's
   time - is not timed out.  Where the timeout itself is shorter than that, it
   is: its deadline passes before a probe can vouch for the run.            *)
LiveRunSpared ==
  [][Probing /\ Every + ProbeTime < Timeout =>
       \A t \in Turns : fired'[t] /\ ~fired[t] => well <= Every + ProbeTime]_vars

(* A gateway that went away for good, its connections left open, does not hold
   a turn: unless an approval waits for the operator, the turn ends.        *)
OutageEnds == <>[](gateway = "down") => []<>(pc = "idle" \/ call = "approval")

(* runner.go, watchdog: "between rounds: local dispatch is the holdup, not the
   brain".  Hermes' silence is not measured while the hands work or an approval
   waits.  The run id stays the last run's, which the probe finds completed.  *)
LocalWorkSpared ==
  [][\A t \in Turns : fired'[t] /\ ~fired[t] => pc # "calls"]_vars

(* runner.go, Cancel: "stops the running turn".  Once the turn is cancelled no
   call of it starts.                                                       *)
NothingStartsCancelled ==
  [][call' = "running" /\ call # "running" => ~done]_vars

-----------------------------------------------------------------------------
(* The inductive invariant behind the theorems of RunnerProofs. *)

Closed == pc \in {"disarmed", "released", "idle"}

Settling ==
  /\ cancellable => pc \notin {"released", "idle"}
  \* a turn not begun left no trace
  /\ \A t \in Turns : t > turn => guard[t] = "none" /\ ~armed[t] /\ ~fired[t] /\ result[t] = "none"
  /\ \A t \in Turns : armed[t] => Timeout > 0
  \* once disarmed, what disarm read stands
  /\ \A t \in Turns : t < turn \/ (t = turn /\ Closed) => (fired[t] <=> result[t] = "timeout")
  \* a goroutine that arms after the disarm finds the whole timeout ahead
  /\ turn > 0 /\ Closed /\ armed[turn] => deadline > 0
  /\ pc \in {"disarmed", "released"} => result[turn] \in {"ok", "timeout"}
  \* a cancelled turn keeps its context cancelled up to the footer
  /\ \A t \in pressed : /\ t <= turn
                        /\ (t = turn /\ pc # "idle") => done
                        /\ Over(t) => result[t] \in {"interrupted", "timeout"}

(* The turn's watchdog may fire. *)
OnWatch == turn > 0 /\ guard[turn] = "watching" /\ armed[turn] /\ ~fired[turn]

(* Ticks since the watchdog armed, or launched its last probe. *)
Since == Every - toProbe

(* A probe in flight asks about the run waited for, for the turn at work. *)
Ours == probe # NoProbe /\ probe.turn = turn /\ probe.rid = run

(* w ticks of work fit in s, or a sign of life came since; the deadline is ahead,
   or they fit in what a probe needs.                                       *)
Covered(w, d, s) == w <= s \/ d >= Timeout - s
InTime(w, d)     == d > 0 \/ w <= Every + ProbeTime \/ Timeout <= Every + ProbeTime

(* Behind LiveRunSpared: the gateway has worked on the run no longer than since
   the last probe, or that probe or a later sign of life pushed the deadline;
   while a probe that asks about it is in flight, that was so an interval ago.
   A probe that asks about another run or for another turn was launched before
   the run's first tick.                                                    *)
Sparing ==
  /\ pc = "awaiting" => runID = run /\ run > 0
  /\ turn > 0 /\ guard[turn] = "starting" => well = 0
  /\ Probing /\ turn > 0 /\ probe # NoProbe /\ probe.turn = turn /\ guard[turn] = "watching" =>
       probe.age = Since
  /\ turn > 0 /\ guard[turn] = "starting" /\ probe # NoProbe => probe.turn # turn
  /\ probe.turn <= turn
  /\ Probing /\ OnWatch /\ AtWork /\ ~Ours => Covered(well, deadline, Since)
  /\ Probing /\ OnWatch /\ AtWork /\ Ours => Covered(well, deadline, Every + Since)
  /\ Probing /\ OnWatch => InTime(well, deadline)
=============================================================================
