---------------------------- MODULE RunnerProofs ----------------------------
(***************************************************************************)
(* Theorems of Runner, for every timeout, interval, floor and bound.       *)
(***************************************************************************)
EXTENDS Runner, SequenceTheorems, TLAPS

LEMMA EveryType == Every \in Nat /\ Every > ProbeTime
BY RunnerAssumption DEF Every

(* A sign of life, or none, leaves a deadline of the watchdog's. *)
LEMMA BumpType ==
  ASSUME deadline \in 0..Timeout, Bump
  PROVE  deadline' \in 0..Timeout
BY RunnerAssumption DEF Bump, Pushed

(* The runs accepted so far keep their place. *)
LEMMA RunsAppend ==
  ASSUME NEW t \in Turns, runs \in Seq(Runs)
  PROVE  /\ Append(runs, [turn |-> t, status |-> "running"]) \in Seq(Runs)
         /\ Len(Append(runs, [turn |-> t, status |-> "running"])) = Len(runs) + 1
         /\ Len(runs) \in Nat
         /\ DOMAIN runs = 1..Len(runs)
<1>1. [turn |-> t, status |-> "running"] \in Runs
  BY DEF Runs
<1>2. QED
  BY <1>1, AppendProperties, LenProperties

LEMMA TypeInit == Init => TypeOK
<1> SUFFICES ASSUME Init PROVE TypeOK
  OBVIOUS
<1>1. runs \in Seq(Runs) /\ Len(runs) = 0 /\ DOMAIN runs = {}
  BY DEF Init
<1>2. /\ turn \in 0..MaxTurns /\ run \in 0..Len(runs) /\ left \in 0..MaxBatch /\ runID \in 0..Len(runs)
      /\ deadline \in 0..Timeout /\ toProbe \in 0..Every /\ well \in 0..Timeout
      /\ probe \in [turn : 0..MaxTurns, rid : 0..Len(runs), age : 0..ProbeTime]
  BY <1>1, RunnerAssumption, EveryType DEF Init, NoProbe
<1>3. cancellable \in BOOLEAN /\ done \in BOOLEAN
  BY Zenon DEF Init
<1>4. /\ pc = "idle" /\ call = "none" /\ gateway = "up"
      /\ guard \in [Turns -> {"none", "starting", "watching", "firing", "gone"}]
      /\ armed \in [Turns -> BOOLEAN] /\ fired \in [Turns -> BOOLEAN]
      /\ result \in [Turns -> {"none", "ok", "interrupted", "timeout"}]
      /\ stopAsked \subseteq DOMAIN runs /\ pressed \subseteq Turns
  BY DEF Init
<1>5. QED
  BY <1>1, <1>2, <1>3, <1>4, Zenon DEF TypeOK

(* The steps of the runner's goroutine. *)
LEMMA RunnerStepType ==
  TypeOK /\ (StartTurn \/ RunStarts \/ PostFails \/ Read \/ WaitFails \/ StartCall \/ Finish \/ NextRound
            \/ Disarm \/ Release \/ Record \/ Delta \/ Approve \/ Deny \/ QuitTurn) => TypeOK'
<1> SUFFICES ASSUME TypeOK,
                    StartTurn \/ RunStarts \/ PostFails \/ Read \/ WaitFails \/ StartCall \/ Finish
                    \/ NextRound \/ Disarm \/ Release \/ Record \/ Delta \/ Approve \/ Deny \/ QuitTurn
             PROVE  TypeOK'
  OBVIOUS
<1> USE RunnerAssumption
<1>0. Len(runs) \in Nat
  BY LenProperties DEF TypeOK
<1>1. CASE StartTurn
  <2>1. turn + 1 \in Turns /\ turn' \in 0..MaxTurns
    BY <1>1 DEF StartTurn, TypeOK, Turns
  <2>2. runID' \in 0..Len(runs) /\ run' \in 0..Len(runs) /\ well' \in 0..Timeout
    BY <1>0, <1>1 DEF StartTurn
  <2>3. cancellable' \in BOOLEAN /\ done' \in BOOLEAN
    BY <1>1, Zenon DEF StartTurn
  <2>4. guard' \in [Turns -> {"none", "starting", "watching", "firing", "gone"}] /\ pc' = "posting"
    BY <1>1 DEF StartTurn, TypeOK
  <2>5. QED
    BY <1>1, <2>1, <2>2, <2>3, <2>4 DEF StartTurn, server, TypeOK
<1>2. CASE RunStarts \/ Delta \/ Finish \/ Deny
  <2>1. deadline' \in 0..Timeout /\ well' \in 0..Timeout
    BY <1>2, BumpType DEF RunStarts, Delta, Finish, Deny, EndCall, TypeOK
  <2>2. CASE RunStarts
    BY <1>0, <2>1, <2>2 DEF RunStarts, Bump, TypeOK, server
  <2>3. CASE Delta
    BY <2>1, <2>3 DEF Delta, Bump, TypeOK, runner, shared, server
  <2>4. CASE Finish \/ Deny
    BY <2>1, <2>4 DEF Finish, Deny, EndCall, Bump, TypeOK, shared, server
  <2>5. QED
    BY <1>2, <2>2, <2>3, <2>4
<1>3. CASE PostFails \/ WaitFails
  <2>1. pc' = "returned" /\ left' \in 0..MaxBatch /\ call' = "none"
    BY <1>3 DEF PostFails, WaitFails, Returns
  <2>2. CASE PostFails
    BY <2>1, <2>2 DEF PostFails, TypeOK, shared, server, watchdog
  <2>3. CASE WaitFails
    BY <2>1, <2>3 DEF WaitFails, TypeOK, shared, server, watchdog
  <2>4. QED
    BY <1>3, <2>2, <2>3
<1>4. CASE Read
  <2>1. left' \in 0..MaxBatch /\ pc' \in {"calls", "returned"} /\ call' \in {call, "none"}
    BY <1>4 DEF Read, Returns
  <2>2. QED
    BY <1>4, <2>1, BumpType DEF Read, TypeOK, shared, server
<1>5. CASE StartCall \/ QuitTurn
  <2>1. deadline' \in 0..Timeout
    BY <1>5, BumpType DEF StartCall, QuitTurn, TypeOK
  <2>2. left' \in 0..MaxBatch /\ pc' \in {"calls", "returned"} /\ pc = "calls"
        /\ call' \in {"none", "approval", "running"}
    BY <1>5 DEF StartCall, QuitTurn, Returns, TypeOK
  <2>3. QED
    BY <1>5, <2>1, <2>2 DEF StartCall, QuitTurn, TypeOK, shared, server
<1>6. CASE NextRound \/ Approve
  <2>1. run' \in 0..Len(runs) /\ pc = "calls" /\ pc' \in {"calls", "posting"}
        /\ call' \in {"none", "running"} /\ left' = left /\ turn' = turn
    BY <1>6, <1>0 DEF NextRound, Approve, TypeOK
  <2>2. UNCHANGED <<shared, watchdog, server, result, pressed, well>>
    BY <1>6 DEF NextRound, Approve
  <2>3. QED
    BY <2>1, <2>2 DEF TypeOK, shared, server, watchdog
<1>7. CASE Disarm
  BY <1>7 DEF Disarm, Disarmed, TypeOK, shared, server
<1>8. CASE Release
  <2>1. cancellable' \in BOOLEAN
    BY <1>8, Zenon DEF Release, Released
  <2>2. QED
    BY <1>8, <2>1 DEF Release, TypeOK, watchdog, server
<1>9. CASE Record
  <2>1. result' \in [Turns -> {"none", "ok", "interrupted", "timeout"}]
    BY <1>9 DEF Record, TypeOK
  <2>2. QED
    BY <1>9, <1>0, <2>1 DEF Record, TypeOK, shared, watchdog, server
<1>10. QED
  BY <1>1, <1>2, <1>3, <1>4, <1>5, <1>6, <1>7, <1>8, <1>9

(* The watchdog, the clock, Cancel and the gateway. *)
LEMMA OthersType ==
  TypeOK /\ (Accept \/ Press \/ GuardStep \/ Tick \/ Outage \/ RunEnds \/ UNCHANGED vars) => TypeOK'
<1> SUFFICES ASSUME TypeOK, Accept \/ Press \/ GuardStep \/ Tick \/ Outage \/ RunEnds \/ UNCHANGED vars
             PROVE  TypeOK'
  OBVIOUS
<1> USE RunnerAssumption
<1>0. Len(runs) \in Nat /\ DOMAIN runs = 1..Len(runs)
  BY LenProperties DEF TypeOK
<1>1. CASE Accept
  <2>1. turn \in Turns \/ turn = 0
    BY DEF TypeOK, Turns
  <2>2. CASE turn \in Turns
    <3>1. runs' \in Seq(Runs) /\ Len(runs') = Len(runs) + 1 /\ DOMAIN runs' = 1..Len(runs')
      BY <1>1, <2>2, RunsAppend, LenProperties DEF Accept, TypeOK
    <3>2. stopAsked' \subseteq DOMAIN runs' /\ run' \in 0..Len(runs') /\ runID' \in 0..Len(runs')
          /\ probe' \in [turn : 0..MaxTurns, rid : 0..Len(runs'), age : 0..ProbeTime]
      BY <1>0, <1>1, <3>1 DEF Accept, TypeOK, shared, watchdog
    <3>3. QED
      BY <1>1, <3>1, <3>2 DEF Accept, TypeOK, shared, watchdog
  <2>3. QED
    BY <1>1, <2>1, <2>2 DEF Accept, TypeOK
<1>2. CASE Press
  <2>1. done' \in BOOLEAN
    BY <1>2 DEF Press, Cancel
  <2>2. stopAsked' \subseteq DOMAIN runs
    BY <1>0, <1>2 DEF Press, Cancel, TypeOK
  <2>3. pressed' \subseteq Turns
    BY <1>2 DEF Press, TypeOK, Turns
  <2>4. QED
    BY <1>2, <2>1, <2>2, <2>3 DEF Press, TypeOK, runner, watchdog
<1>3. ASSUME NEW t \in Turns, Arm(t) \/ GuardStops(t) \/ Fire(t)
      PROVE  TypeOK'
  <2>1. deadline' \in 0..Timeout /\ toProbe' \in 0..Every
    BY <1>3, EveryType DEF Arm, GuardStops, Fire, TypeOK
  <2>2. /\ guard' \in [Turns -> {"none", "starting", "watching", "firing", "gone"}]
        /\ armed' \in [Turns -> BOOLEAN] /\ fired' \in [Turns -> BOOLEAN]
    <3>1. CASE Arm(t)
      BY <3>1 DEF Arm, TypeOK
    <3>2. CASE GuardStops(t)
      BY <3>2 DEF GuardStops, TypeOK
    <3>3. CASE Fire(t)
      BY <3>3 DEF Fire, TypeOK
    <3>4. QED
      BY <1>3, <3>1, <3>2, <3>3
  <2>3. UNCHANGED <<runner, shared, server, result, pressed, well, probe>>
    BY <1>3 DEF Arm, GuardStops, Fire
  <2>4. QED
    BY <2>1, <2>2, <2>3 DEF TypeOK, runner, shared, server
<1>4. ASSUME NEW t \in Turns, OnFire(t)
      PROVE  TypeOK'
  <2>1. done' \in BOOLEAN
    BY <1>4 DEF OnFire, Cancel
  <2>2. stopAsked' \subseteq DOMAIN runs
    BY <1>0, <1>4 DEF OnFire, Cancel, TypeOK
  <2>3. QED
    BY <1>4, <2>1, <2>2 DEF OnFire, TypeOK, runner
<1>5. CASE LaunchProbe
  <2>1. toProbe' \in 0..Every
    BY <1>5, EveryType DEF LaunchProbe
  <2>2. probe' \in [turn : 0..MaxTurns, rid : 0..Len(runs), age : 0..ProbeTime]
    BY <1>0, <1>5 DEF LaunchProbe, TypeOK
  <2>3. QED
    BY <1>5, <2>1, <2>2 DEF LaunchProbe, TypeOK, runner, shared, server
<1>6. CASE AnswerProbe
  <2>1. deadline' \in 0..Timeout
    BY <1>6, BumpType DEF AnswerProbe, TypeOK
  <2>2. probe' \in [turn : 0..MaxTurns, rid : 0..Len(runs), age : 0..ProbeTime]
    BY <1>0, <1>6 DEF AnswerProbe, NoProbe, TypeOK
  <2>3. QED
    BY <1>6, <2>1, <2>2 DEF AnswerProbe, TypeOK, runner, shared, server
<1>7. CASE Tick
  <2>1. /\ deadline' = IF deadline > 0 THEN deadline - 1 ELSE 0
        /\ toProbe' = IF toProbe > 0 THEN toProbe - 1 ELSE 0
        /\ well' = IF ~AtWork THEN 0 ELSE IF well < Timeout THEN well + 1 ELSE well
        /\ probe' = IF probe = NoProbe THEN probe ELSE [probe EXCEPT !.age = probe.age + 1]
        /\ probe = NoProbe \/ probe.age < ProbeTime
        /\ UNCHANGED <<runner, shared, guard, armed, fired, server, result, pressed>>
    BY <1>7, Zenon DEF Tick
  <2>2. deadline \in 0..Timeout /\ toProbe \in 0..Every /\ well \in 0..Timeout
        /\ probe \in [turn : 0..MaxTurns, rid : 0..Len(runs), age : 0..ProbeTime]
    BY Zenon DEF TypeOK
  <2>3. deadline' \in 0..Timeout /\ toProbe' \in 0..Every
    <3>1. /\ deadline' = 0 \/ (deadline > 0 /\ deadline' = deadline - 1)
          /\ toProbe' = 0 \/ (toProbe > 0 /\ toProbe' = toProbe - 1)
      BY <2>1, Zenon
    <3>2. QED
      BY <2>2, <3>1, EveryType
  <2>4. well' \in 0..Timeout
    <3>1. well' = 0 \/ well' = well \/ (well < Timeout /\ well' = well + 1)
      BY <2>1, Zenon
    <3>2. QED
      BY <2>2, <3>1
  <2>5. probe' \in [turn : 0..MaxTurns, rid : 0..Len(runs), age : 0..ProbeTime]
    <3>1. CASE probe = NoProbe
      BY <2>1, <2>2, <3>1, Zenon
    <3>2. CASE probe # NoProbe
      <4>1. probe.age < ProbeTime /\ probe' = [probe EXCEPT !.age = probe.age + 1]
        BY <2>1, <3>2, Zenon
      <4>2. probe.age \in 0..ProbeTime
        BY <2>2, Zenon
      <4>3. probe.age + 1 \in 0..ProbeTime
        BY <4>1, <4>2
      <4>4. QED
        BY <2>2, <4>1, <4>3
    <3>3. QED
      BY <3>1, <3>2
  <2>6. QED
    BY <2>1, <2>3, <2>4, <2>5 DEF TypeOK, runner, shared, server
<1>8. CASE Outage
  BY <1>8 DEF Outage, TypeOK, runner, shared, watchdog
<1>9. CASE RunEnds
  <2>1. PICK r \in DOMAIN runs : runs' = [runs EXCEPT ![r].status = "ended"]
    BY <1>9 DEF RunEnds
  <2>2. runs' \in Seq(Runs) /\ Len(runs') = Len(runs) /\ DOMAIN runs' = DOMAIN runs
    <3>1. [runs[r] EXCEPT !.status = "ended"] \in Runs
      <4>1. runs[r] \in Runs
        BY <1>0, ElementOfSeq DEF TypeOK
      <4>2. QED
        BY <4>1 DEF Runs
    <3>2. runs' = [runs EXCEPT ![r] = [runs[r] EXCEPT !.status = "ended"]]
      BY <2>1
    <3>3. QED
      BY <1>0, <3>1, <3>2, ExceptSeq DEF TypeOK
  <2>3. QED
    BY <1>9, <2>2 DEF RunEnds, TypeOK, runner, shared, watchdog
<1>10. CASE UNCHANGED vars
  BY <1>10 DEF vars, TypeOK, runner, shared, watchdog, server
<1>11. QED
  BY <1>1, <1>2, <1>3, <1>4, <1>5, <1>6, <1>7, <1>8, <1>9, <1>10 DEF GuardStep

LEMMA TypeInductive == TypeOK /\ [Next]_vars => TypeOK'
BY RunnerStepType, OthersType DEF Next, RunnerStep

(* Every variable of the runner and its watchdog keeps its type. *)
THEOREM TypeCorrect == Spec => []TypeOK
BY TypeInit, TypeInductive, PTL DEF Spec

-----------------------------------------------------------------------------
(* What a turn records. *)

LEMMA SettlingInit == Init => Settling
BY RunnerAssumption DEF Init, Settling, Closed, Over, Turns

LEMMA SettlingInductive == TypeOK /\ Settling /\ [Next]_vars => Settling'
<1> SUFFICES ASSUME TypeOK, Settling, [Next]_vars PROVE Settling'
  OBVIOUS
<1> USE RunnerAssumption
<1>1. CASE StartTurn
  <2>1. turn \in Nat /\ turn' = turn + 1 /\ pc = "idle" /\ pc' = "posting"
    BY <1>1 DEF StartTurn, TypeOK
  <2>2. UNCHANGED <<armed, fired, result, pressed>>
    BY <1>1 DEF StartTurn
  <2>a. guard' = [guard EXCEPT ![turn + 1] = "starting"]
    BY <1>1 DEF StartTurn
  <2>3. \A t \in Turns : t \in Nat /\ (t < turn' <=> t < turn \/ t = turn)
    BY <2>1 DEF Turns
  <2>4. QED
    BY <2>1, <2>2, <2>3, <2>a DEF Settling, Closed, Over, TypeOK, Turns
\* steps that leave what is recorded, and the turn's end, alone
<1>2. ASSUME UNCHANGED <<turn, result, guard, fired, armed, cancellable, pressed, done>>,
             pc' = pc \/ (pc' \in {"awaiting", "calls", "posting", "returned"} /\ pc \notin {"disarmed", "released", "idle"}),
             deadline' = deadline \/ Bump
      PROVE  Settling'
  <2>1. turn > 0 /\ armed[turn] => deadline' = deadline \/ deadline' > 0
    BY <1>2 DEF Bump, Pushed, Watching, Settling, TypeOK, Turns
  <2>2. QED
    BY <1>2, <2>1 DEF Settling, Closed, Over
<1>3. CASE \/ RunStarts \/ PostFails \/ Read \/ WaitFails \/ StartCall \/ Finish \/ NextRound
           \/ Delta \/ Approve \/ Deny \/ QuitTurn \/ Accept
  <2>1. CASE RunStarts \/ Read
    BY <1>2, <2>1 DEF RunStarts, Read, Returns, shared
  <2>2. CASE PostFails \/ WaitFails \/ NextRound \/ Approve
    BY <1>2, <2>2 DEF PostFails, WaitFails, NextRound, Approve, Returns, shared, watchdog
  <2>3. CASE StartCall \/ Delta \/ QuitTurn
    BY <1>2, <2>3 DEF StartCall, Delta, QuitTurn, Returns, shared, runner
  <2>4. CASE Finish \/ Deny
    BY <1>2, <2>4 DEF Finish, Deny, EndCall, shared
  <2>5. CASE Accept
    BY <1>2, <2>5 DEF Accept, shared, watchdog
  <2>6. QED
    BY <1>3, <2>1, <2>2, <2>3, <2>4, <2>5
<1>4. CASE LaunchProbe \/ AnswerProbe \/ Outage \/ RunEnds \/ UNCHANGED vars
  <2>1. UNCHANGED <<turn, result, guard, fired, armed, cancellable, pressed, done, pc>>
    BY <1>4 DEF LaunchProbe, AnswerProbe, Outage, RunEnds, vars, runner, shared, watchdog
  <2>2. deadline' = deadline \/ Bump
    BY <1>4 DEF LaunchProbe, AnswerProbe, Outage, RunEnds, vars, watchdog
  <2>3. QED
    BY <1>2, <2>1, <2>2
<1>5. CASE Disarm
  <2>1. turn \in Turns /\ turn \in Nat /\ pc' = "disarmed" /\ turn' = turn /\ pc = "returned"
    BY <1>5 DEF Disarm, TypeOK, Turns
  <2>2. armed' = [armed EXCEPT ![turn] = FALSE] /\ UNCHANGED <<guard, fired, cancellable, pressed, done>>
    BY <1>5 DEF Disarm, Disarmed, shared
  <2>3. result' = [result EXCEPT ![turn] = IF fired[turn] THEN "timeout" ELSE "ok"]
    BY <1>5 DEF Disarm
  <2>4. QED
    BY <2>1, <2>2, <2>3 DEF Settling, Closed, Over, TypeOK, Turns
<1>6. CASE Release
  <2>1. pc = "disarmed" /\ pc' = "released" /\ ~cancellable'
    BY <1>6, Zenon DEF Release, Released
  <2>2. UNCHANGED <<turn, result, guard, fired, armed, pressed, done, deadline>>
    BY <1>6 DEF Release, watchdog
  <2>3. QED
    BY <2>1, <2>2 DEF Settling, Closed, Over
<1>7. CASE Record
  <2>1. pc = "released" /\ pc' = "idle" /\ UNCHANGED <<turn, guard, fired, armed, pressed, done, deadline, cancellable>>
    BY <1>7 DEF Record, shared, watchdog
  <2>2. turn \in Turns /\ turn \in Nat
    BY <2>1 DEF TypeOK, Turns
  <2>3. result' = [result EXCEPT ![turn] = IF result[turn] = "ok" /\ done THEN "interrupted" ELSE result[turn]]
    BY <1>7 DEF Record
  <2>4. \A t \in Turns : t # turn => result'[t] = result[t]
    BY <2>3 DEF TypeOK
  <2>5. result'[turn] = IF result[turn] = "ok" /\ done THEN "interrupted" ELSE result[turn]
    BY <2>2, <2>3 DEF TypeOK
  <2>6. QED
    BY <2>1, <2>2, <2>4, <2>5 DEF Settling, Closed, Over, TypeOK, Turns
<1>8. CASE Press
  <2>1. UNCHANGED <<turn, pc, result, guard, fired, armed, cancellable, deadline>>
    BY <1>8 DEF Press, runner, watchdog
  <2>2. done => done'
    BY <1>8 DEF Press, Cancel
  <2>3. cancellable => done'
    BY <1>8 DEF Press, Cancel
  <2>4. pressed' = pressed \/ (cancellable /\ pressed' = pressed \cup {turn})
    BY <1>8 DEF Press
  <2>5. QED
    BY <2>1, <2>2, <2>3, <2>4 DEF Settling, Closed, Over, TypeOK
<1>9. ASSUME NEW t \in Turns, Arm(t)
      PROVE  Settling'
  <2>1. UNCHANGED <<turn, pc, result, fired, cancellable, pressed, done>>
    BY <1>9 DEF Arm, runner, shared
  <2>2. guard[t] = "starting" /\ guard' = [guard EXCEPT ![t] = "watching"]
        /\ armed' = [armed EXCEPT ![t] = Timeout > 0]
    BY <1>9 DEF Arm
  <2>3. t <= turn
    BY <2>2 DEF Settling, TypeOK, Turns
  <2>4. IF t = turn THEN deadline' = Timeout ELSE deadline' = deadline
    BY <1>9 DEF Arm
  <2>5. QED
    BY <2>1, <2>2, <2>3, <2>4 DEF Settling, Closed, Over, TypeOK, Turns
<1>10. ASSUME NEW t \in Turns, GuardStops(t) \/ OnFire(t)
       PROVE  Settling'
  <2>1. UNCHANGED <<turn, pc, result, fired, cancellable, pressed, deadline>>
    BY <1>10 DEF GuardStops, OnFire, runner, shared
  <2>2. /\ guard[t] # "none" /\ guard' = [guard EXCEPT ![t] = "gone"]
        /\ armed' = [armed EXCEPT ![t] = FALSE]
    BY <1>10 DEF GuardStops, OnFire
  <2>3. done => done'
    <3>1. CASE GuardStops(t)
      BY <3>1 DEF GuardStops, shared
    <3>2. CASE OnFire(t)
      BY <3>2 DEF OnFire, Cancel
    <3>3. QED
      BY <1>10, <3>1, <3>2
  <2>4. QED
    BY <2>1, <2>2, <2>3 DEF Settling, Closed, Over, TypeOK, Turns
<1>11. ASSUME NEW t \in Turns, Fire(t)
       PROVE  Settling'
  <2>1. UNCHANGED <<turn, pc, result, armed, cancellable, pressed, done, deadline>>
    BY <1>11 DEF Fire, runner, shared
  <2>a. guard' = [guard EXCEPT ![t] = "firing"]
    BY <1>11 DEF Fire
  <2>2. t = turn /\ fired' = [fired EXCEPT ![t] = TRUE] /\ armed[turn] /\ deadline = 0
    BY <1>11 DEF Fire, Due
  <2>3. ~Closed
    BY <2>2 DEF Settling, Turns
  <2>4. QED
    BY <2>1, <2>2, <2>3, <2>a DEF Settling, Closed, Over, TypeOK, Turns
<1>12. CASE Tick
  <2>1. UNCHANGED <<turn, pc, result, guard, fired, armed, cancellable, pressed, done>>
    BY <1>12 DEF Tick, runner, shared
  <2>2. ~Closed
    BY <1>12 DEF Tick, StopClosed, Closed
  <2>3. QED
    BY <2>1, <2>2 DEF Settling, Closed, Over
<1>13. QED
  BY <1>1, <1>3, <1>4, <1>5, <1>6, <1>7, <1>8, <1>9, <1>10, <1>11, <1>12
     DEF Next, RunnerStep, GuardStep

(* What disarm reads is authoritative: timed out is recorded exactly when the
   watchdog fired.                                                          *)
THEOREM TimeoutIsAuthoritative == Spec => []TimeoutAuthoritative
<1>1. TypeOK /\ Settling => TimeoutAuthoritative
  BY DEF TypeOK, Settling, TimeoutAuthoritative, Over, Closed
<1>2. QED
  BY <1>1, TypeInit, TypeInductive, SettlingInit, SettlingInductive, PTL DEF Spec

(* A turn the operator cancelled is recorded as interrupted, or timed out. *)
THEOREM InterruptionIsRecorded == Spec => []InterruptionRecorded
<1>1. Settling => InterruptionRecorded
  BY DEF Settling, InterruptionRecorded
<1>2. QED
  BY <1>1, TypeInit, TypeInductive, SettlingInit, SettlingInductive, PTL DEF Spec

-----------------------------------------------------------------------------
(* Whom the watchdog spares. *)

LEMMA SparingInit == Init => Sparing
BY DEF Init, Sparing, OnWatch, AtWork, NoProbe

(* The ranges the arguments about time need. *)
LEMMA Ranges ==
  ASSUME TypeOK
  PROVE  /\ Timeout \in Nat /\ ProbeTime \in Nat /\ Every \in Nat
         /\ deadline \in 0..Timeout /\ toProbe \in 0..Every /\ well \in 0..Timeout
         /\ turn \in Nat /\ (turn > 0 => turn \in Turns) /\ Since \in 0..Every
         /\ Len(runs) \in Nat /\ DOMAIN runs = 1..Len(runs) /\ run \in 0..Len(runs)
<1>1. /\ deadline \in 0..Timeout /\ toProbe \in 0..Every /\ well \in 0..Timeout
      /\ turn \in 0..MaxTurns /\ run \in 0..Len(runs)
  BY DEF TypeOK
<1>2. Len(runs) \in Nat /\ DOMAIN runs = 1..Len(runs)
  BY LenProperties DEF TypeOK
<1>3. Since \in 0..Every
  BY <1>1, EveryType DEF Since
<1>4. QED
  BY <1>1, <1>2, <1>3, EveryType, RunnerAssumption DEF Turns

(* A sign of life covers any stretch, no work is covered by any, and what is
   covered stays so when the stretch grows or the deadline is put off.      *)
LEMMA CoveredPushed ==
  ASSUME NEW w \in Nat, NEW s \in Nat, Timeout \in Nat
  PROVE  Covered(w, Timeout, s)
BY DEF Covered

LEMMA CoveredIdle ==
  ASSUME NEW d, NEW s \in Nat
  PROVE  Covered(0, d, s)
BY DEF Covered

(* A tick of the watchdog's clock: one more of work, one less ahead, one
   more since the last probe.                                               *)
LEMMA CoveredTick ==
  ASSUME NEW w \in Nat, NEW v \in Nat, NEW d \in Nat, NEW s \in Nat, Timeout \in Nat,
         Covered(w, d, s), v <= w + 1
  PROVE  Covered(v, d - 1, s + 1)
BY DEF Covered

(* What is covered by no more than a probe needs is in time. *)
LEMMA CoveredInTime ==
  ASSUME NEW w \in Nat, NEW d \in Nat, NEW s \in Nat, Timeout \in Nat, Every \in Nat,
         ProbeTime \in Nat, s <= Every + ProbeTime, Covered(w, d, s)
  PROVE  InTime(w, d)
BY DEF Covered, InTime

LEMMA PushedInTime ==
  ASSUME NEW w \in 0..Timeout, Timeout \in Nat, Every \in Nat, ProbeTime \in Nat
  PROVE  InTime(w, Timeout)
BY DEF InTime

(* A step that leaves the watchdog as it was, or brings a sign of life, and
   after which no run is at work that was not before.                       *)
LEMMA SparingKept ==
  ASSUME TypeOK, Sparing,
         UNCHANGED <<turn, guard, armed, fired, toProbe, probe, well>>,
         deadline' = deadline \/ Bump,
         AtWork' => AtWork /\ run' = run,
         pc' = "awaiting" => runID' = run' /\ run' > 0
  PROVE  Sparing'
<1>0. /\ Timeout \in Nat /\ ProbeTime \in Nat /\ Every \in Nat /\ well \in 0..Timeout
      /\ well \in Nat /\ Since \in Nat /\ Every + Since \in Nat
  BY Ranges
<1>1. OnWatch' = OnWatch /\ Since' = Since
  BY DEF OnWatch, Since
<1>2. OnWatch => deadline' = deadline \/ deadline' = Timeout
  BY DEF OnWatch, Watching, Bump, Pushed
<1>3. AtWork' => Ours' = Ours
  BY DEF Ours
<1>4. Probing /\ OnWatch => InTime(well, deadline')
  BY <1>0, <1>2, PushedInTime DEF Sparing
<1>5. Probing /\ OnWatch /\ AtWork' /\ ~Ours => Covered(well, deadline', Since)
  BY <1>0, <1>2, CoveredPushed DEF Sparing
<1>6. Probing /\ OnWatch /\ AtWork' /\ Ours => Covered(well, deadline', Every + Since)
  BY <1>0, <1>2, CoveredPushed DEF Sparing
<1>7. Since' = Since /\ Every + Since' = Every + Since
  BY <1>1
<1>8. /\ Probing /\ OnWatch' /\ AtWork' /\ ~Ours' => Covered(well, deadline', Since)
      /\ Probing /\ OnWatch' /\ AtWork' /\ Ours' => Covered(well, deadline', Every + Since)
      /\ Probing /\ OnWatch' => InTime(well, deadline')
  BY <1>1, <1>3, <1>4, <1>5, <1>6
<1>9. /\ pc' = "awaiting" => runID' = run' /\ run' > 0
      /\ turn' > 0 /\ guard'[turn'] = "starting" => well' = 0
      /\ Probing /\ turn' > 0 /\ probe' # NoProbe /\ probe'.turn = turn' /\ guard'[turn'] = "watching" =>
           probe'.age = Since'
      /\ turn' > 0 /\ guard'[turn'] = "starting" /\ probe' # NoProbe => probe'.turn # turn'
      /\ probe'.turn <= turn'
  BY <1>7 DEF Sparing
<1>10. QED
  BY <1>7, <1>8, <1>9 DEF Sparing

LEMMA SparingInductive == TypeOK /\ Sparing /\ [Next]_vars => Sparing'
<1> SUFFICES ASSUME TypeOK, Sparing, [Next]_vars PROVE Sparing'
  OBVIOUS
<1>0. /\ Timeout \in Nat /\ ProbeTime \in Nat /\ Every \in Nat /\ Every > ProbeTime
      /\ deadline \in 0..Timeout /\ toProbe \in 0..Every /\ well \in 0..Timeout
      /\ turn \in Nat /\ (turn > 0 => turn \in Turns) /\ Since \in 0..Every
      /\ Len(runs) \in Nat /\ DOMAIN runs = 1..Len(runs) /\ run \in 0..Len(runs)
  BY Ranges, EveryType
<1>1. CASE StartTurn
  <2>1. /\ turn' = turn + 1 /\ pc' = "posting" /\ well' = 0 /\ probe' = probe
        /\ guard' = [guard EXCEPT ![turn + 1] = "starting"] /\ turn + 1 \in Turns
    <3>1. /\ turn' = turn + 1 /\ pc' = "posting" /\ well' = 0 /\ probe' = probe
          /\ guard' = [guard EXCEPT ![turn + 1] = "starting"] /\ turn < MaxTurns
      BY <1>1, Zenon DEF StartTurn
    <3>2. turn + 1 \in Turns
      BY <3>1, <1>0, RunnerAssumption DEF Turns
    <3>3. QED
      BY <3>1, <3>2
  <2>2. guard'[turn'] = "starting"
    BY <2>1 DEF TypeOK
  <2>3. probe'.turn < turn'
    <3>1. probe.turn \in 0..MaxTurns /\ probe.turn <= turn
      BY DEF Sparing, TypeOK
    <3>2. QED
      BY <3>1, <2>1, <1>0
  <2>4. probe'.turn # turn' /\ probe'.turn <= turn'
    BY <2>1, <2>3, <1>0 DEF TypeOK
  <2>5. ~OnWatch' /\ pc' # "awaiting"
    BY <2>1, <2>2 DEF OnWatch
  <2>6. QED
    BY <2>1, <2>4, <2>5 DEF Sparing
<1>2. CASE RunStarts
  <2>1. /\ well' = 0 /\ pc' = "awaiting" /\ runID' = run' /\ run' = run /\ run > 0
        /\ UNCHANGED <<turn, guard, armed, fired, toProbe, probe>> /\ Bump
    BY <1>0, <1>2 DEF RunStarts
  <2>2. OnWatch' = OnWatch /\ Since' = Since
    BY <2>1 DEF OnWatch, Since
  <2>3. \A s \in Nat : Covered(well', deadline', s)
    BY <2>1, CoveredIdle
  <2>4. Since' \in Nat /\ Every + Since' \in Nat
    BY <2>2, <1>0
  <2>5. InTime(well', deadline')
    BY <2>1, <1>0 DEF InTime
  <2>6. QED
    BY <2>1, <2>2, <2>3, <2>4, <2>5 DEF Sparing
<1>3. CASE \/ PostFails \/ Read \/ WaitFails \/ StartCall \/ Finish \/ NextRound
           \/ Approve \/ Deny \/ QuitTurn \/ Accept
  <2>1. pc' # "awaiting"
    BY <1>3 DEF PostFails, Read, WaitFails, StartCall, Finish, NextRound, Approve, Deny, QuitTurn,
                EndCall, Returns, Accept
  <2>2. UNCHANGED <<turn, guard, armed, fired, toProbe, probe, well>>
    <3>1. CASE PostFails \/ WaitFails \/ NextRound \/ Approve \/ Accept
      BY <3>1 DEF PostFails, WaitFails, NextRound, Approve, Accept, watchdog
    <3>2. CASE Read \/ StartCall \/ QuitTurn
      BY <3>2 DEF Read, StartCall, QuitTurn
    <3>3. CASE Finish \/ Deny
      BY <3>3 DEF Finish, Deny, EndCall
    <3>4. QED
      BY <1>3, <3>1, <3>2, <3>3
  <2>3. deadline' = deadline \/ Bump
    <3>1. CASE PostFails \/ WaitFails \/ NextRound \/ Approve \/ Accept
      BY <3>1 DEF PostFails, WaitFails, NextRound, Approve, Accept, watchdog
    <3>2. CASE Read \/ StartCall \/ QuitTurn \/ Finish \/ Deny
      BY <3>2 DEF Read, StartCall, QuitTurn, Finish, Deny, EndCall
    <3>3. QED
      BY <1>3, <3>1, <3>2
  <2>4. QED
    BY <2>1, <2>2, <2>3, SparingKept DEF AtWork
<1>4. CASE Delta \/ Press \/ Release \/ Record \/ UNCHANGED vars
  <2>1. UNCHANGED <<turn, guard, armed, fired, toProbe, probe, well>>
    BY <1>4 DEF Delta, Press, Release, Record, vars, runner, watchdog
  <2>2. deadline' = deadline \/ Bump
    BY <1>4 DEF Delta, Press, Release, Record, vars, watchdog
  <2>3. (pc' = pc /\ UNCHANGED <<run, runID, runs, gateway>>) \/ pc' \in {"released", "idle"}
    BY <1>4 DEF Delta, Press, Release, Record, vars, runner, shared, server
  <2>4. QED
    BY <2>1, <2>2, <2>3, SparingKept DEF AtWork, Sparing
<1>5. CASE Disarm
  <2>1. /\ pc' = "disarmed" /\ armed' = [armed EXCEPT ![turn] = FALSE] /\ turn > 0
        /\ UNCHANGED <<turn, guard, well, probe, toProbe>>
    BY <1>0, <1>5 DEF Disarm, Disarmed, TypeOK
  <2>2. ~armed'[turn]
    BY <1>0, <2>1 DEF TypeOK
  <2>3. Since' = Since /\ ~OnWatch' /\ ~AtWork'
    BY <2>1, <2>2 DEF Since, OnWatch, AtWork
  <2>4. QED
    BY <2>1, <2>3 DEF Sparing
<1>6. ASSUME NEW t \in Turns, Arm(t)
      PROVE  Sparing'
  <2>1. /\ guard[t] = "starting" /\ guard' = [guard EXCEPT ![t] = "watching"]
        /\ armed' = [armed EXCEPT ![t] = Timeout > 0]
        /\ UNCHANGED <<turn, pc, run, runID, runs, gateway, fired, probe, well>>
    BY <1>6 DEF Arm, runner, shared, server
  <2>2. AtWork' = AtWork /\ Ours' = Ours
    BY <2>1 DEF AtWork, Ours
  <2>3. CASE t = turn
    <3>1. well = 0 /\ deadline' = Timeout /\ toProbe' = Every /\ guard'[turn] = "watching"
          /\ (probe # NoProbe => probe.turn # turn)
      <4>1. turn > 0 /\ guard[turn] = "starting"
        BY <2>1, <2>3 DEF Turns
      <4>2. deadline' = Timeout /\ toProbe' = Every
        BY <1>6, <2>3, Zenon DEF Arm
      <4>3. guard'[turn] = "watching"
        BY <2>1, <2>3, Zenon DEF TypeOK
      <4>4. QED
        BY <4>1, <4>2, <4>3 DEF Sparing
    <3>2. \A s \in Nat : Covered(well', deadline', s)
      BY <2>1, <3>1, CoveredIdle
    <3>3. Since' \in Nat /\ Every + Since' \in Nat
      BY <3>1, <1>0 DEF Since
    <3>4. InTime(well', deadline')
      BY <2>1, <3>1, <1>0 DEF InTime
    <3>5. QED
      BY <2>1, <2>2, <3>1, <3>2, <3>3, <3>4 DEF Sparing
  <2>4. CASE t # turn
    <3>1. deadline' = deadline /\ toProbe' = toProbe /\ Since' = Since
      BY <1>6, <2>4 DEF Arm, Since
    <3>2. turn > 0 => guard'[turn] = guard[turn] /\ armed'[turn] = armed[turn]
      BY <1>0, <2>1, <2>4 DEF TypeOK
    <3>3. OnWatch' = OnWatch
      BY <2>1, <3>2 DEF OnWatch
    <3>4. QED
      BY <2>1, <2>2, <3>1, <3>2, <3>3 DEF Sparing
  <2>5. QED
    BY <2>3, <2>4
<1>7. ASSUME NEW t \in Turns, GuardStops(t) \/ Fire(t) \/ OnFire(t)
      PROVE  Sparing'
  <2>1. /\ UNCHANGED <<turn, pc, run, runID, runs, gateway, probe, well, deadline, toProbe>>
        /\ guard' = [guard EXCEPT ![t] = "gone"] \/ guard' = [guard EXCEPT ![t] = "firing"]
    BY <1>7 DEF GuardStops, Fire, OnFire, runner, shared, server
  <2>2. AtWork' = AtWork /\ Ours' = Ours /\ Since' = Since
    BY <2>1 DEF AtWork, Ours, Since
  <2>3. \A u \in Turns : guard'[u] \in {"starting", "watching"} => u # t /\ guard'[u] = guard[u]
    BY <2>1 DEF TypeOK
  <2>4. \A u \in Turns : u # t => armed'[u] = armed[u] /\ fired'[u] = fired[u]
    BY <1>7 DEF GuardStops, Fire, OnFire, TypeOK
  <2>5. OnWatch' => OnWatch
    BY <1>0, <2>1, <2>3, <2>4 DEF OnWatch
  <2>6. turn > 0 /\ guard'[turn] \in {"starting", "watching"} => guard'[turn] = guard[turn]
    BY <1>0, <2>3
  <2>7. QED
    BY <2>1, <2>2, <2>5, <2>6 DEF Sparing
<1>8. CASE LaunchProbe
  <2>1. /\ UNCHANGED <<turn, pc, run, runID, runs, gateway, guard, armed, fired, deadline, well>>
        /\ probe' = [turn |-> turn, rid |-> runID, age |-> 0] /\ turn > 0 /\ probe = NoProbe
        /\ toProbe = 0 /\ toProbe' = Every /\ guard[turn] = "watching"
    BY <1>8 DEF LaunchProbe, ProbeDue, runner, shared, server
  <2>2. AtWork' = AtWork /\ OnWatch' = OnWatch /\ probe' # NoProbe /\ ~Ours
    BY <2>1 DEF AtWork, OnWatch, NoProbe, Ours
  <2>3. AtWork => Ours'
    BY <2>1, <2>2 DEF AtWork, Sparing, Ours
  <2>4. Since = Every /\ Since' = 0 /\ Every + Since' = Every
    BY <2>1, <1>0 DEF Since
  <2>5. /\ probe'.age = Since' /\ probe'.turn = turn' /\ probe'.turn <= turn'
        /\ guard'[turn'] # "starting"
    BY <2>1, <2>4, <1>0
  <2>6. QED
    BY <2>1, <2>2, <2>3, <2>4, <2>5 DEF Sparing
<1>9. CASE AnswerProbe
  <2>1. /\ UNCHANGED <<turn, pc, run, runID, runs, gateway, guard, armed, fired, toProbe, well>>
        /\ probe' = NoProbe /\ probe # NoProbe
    BY <1>9 DEF AnswerProbe, runner, shared, server
  <2>2. AtWork' = AtWork /\ OnWatch' = OnWatch /\ Since' = Since /\ ~Ours'
    BY <2>1 DEF AtWork, OnWatch, Since, Ours
  <2>3. OnWatch => deadline' = deadline \/ deadline' = Timeout
    BY <1>9 DEF AnswerProbe, Bump, Pushed, OnWatch, Watching
  <2>4. Probing /\ OnWatch => InTime(well', deadline')
    BY <1>0, <2>1, <2>3, PushedInTime DEF Sparing
  <2>5. OnWatch /\ AtWork /\ Ours => deadline' = Timeout
    <3>1. AtWork /\ Ours => Alive /\ probe.turn = turn
      BY DEF AtWork, Alive, Ours
    <3>2. QED
      BY <1>9, <3>1 DEF AnswerProbe, Bump, Pushed, OnWatch, Watching
  <2>6. Since \in Nat /\ well \in Nat
    BY <1>0
  <2>7. Probing /\ OnWatch /\ AtWork => Covered(well', deadline', Since')
    BY <1>0, <2>1, <2>2, <2>3, <2>5, <2>6, CoveredPushed DEF Sparing
  <2>8. probe'.turn <= turn'
    BY <1>0, <2>1 DEF NoProbe
  <2>9. QED
    BY <2>1, <2>2, <2>4, <2>7, <2>8 DEF Sparing
<1>10. CASE Tick
  <2>1. /\ UNCHANGED <<turn, pc, run, runID, runs, gateway, guard, armed, fired>>
        /\ guard[turn] = "watching" /\ pc # "idle" /\ ~ProbeDue /\ ~Due(turn)
        /\ probe = NoProbe \/ probe.age < ProbeTime
        /\ probe' = IF probe = NoProbe THEN probe ELSE [probe EXCEPT !.age = @ + 1]
        /\ deadline' = IF deadline > 0 THEN deadline - 1 ELSE 0
        /\ toProbe' = IF toProbe > 0 THEN toProbe - 1 ELSE 0
        /\ well' = IF ~AtWork THEN 0 ELSE IF well < Timeout THEN well + 1 ELSE well
    BY <1>10, Zenon DEF Tick, runner, shared, server
  <2>2. AtWork' = AtWork /\ OnWatch' = OnWatch
    BY <2>1 DEF AtWork, OnWatch
  <2>3. turn > 0
    BY <2>1, <1>0 DEF TypeOK
  <2>4. probe \in [turn : 0..MaxTurns, rid : 0..Len(runs), age : 0..ProbeTime]
    BY DEF TypeOK
  <2>5. /\ (probe' = NoProbe) = (probe = NoProbe) /\ Ours' = Ours /\ probe'.turn = probe.turn
        /\ probe # NoProbe => probe'.age = probe.age + 1
    <3>1. CASE probe = NoProbe
      BY <2>1, <3>1 DEF Ours
    <3>2. CASE probe # NoProbe
      <4>1. probe' = [probe EXCEPT !.age = @ + 1]
        BY <2>1, <3>2
      <4>2. probe'.turn = probe.turn /\ probe'.rid = probe.rid /\ probe'.age = probe.age + 1
        BY <4>1, <2>4, Zenon
      <4>3. probe'.age # 0
        BY <4>2, <2>4
      <4>4. probe' # NoProbe
        BY <4>3 DEF NoProbe
      <4>5. QED
        BY <3>2, <4>2, <4>4, <2>1 DEF Ours
    <3>3. QED
      BY <3>1, <3>2
  <2>6. Probing => toProbe # 0
    BY <2>1, <2>3 DEF ProbeDue
  <2>7. Probing => Since' = Since + 1 /\ toProbe' = toProbe - 1 /\ Since' <= Every
    BY <2>1, <2>6, <1>0 DEF Since
  <2>8. Probing /\ turn > 0 /\ probe # NoProbe /\ probe.turn = turn => probe.age = Since
    BY <2>1 DEF Sparing
  <2>9. OnWatch => deadline # 0
    BY <2>1 DEF Due, OnWatch
  <2>10. OnWatch => deadline' = deadline - 1
    BY <2>1, <2>9, <1>0
  <2>11. well' \in Nat /\ well' <= well + 1 /\ well' \in 0..Timeout
    BY <2>1, <1>0
  <2>12. Since \in Nat /\ well \in Nat /\ deadline \in Nat /\ Every + Since \in Nat
    BY <1>0
  <2>13. Probing /\ OnWatch /\ AtWork /\ ~Ours => Covered(well', deadline', Since')
    BY <2>7, <2>10, <2>11, <2>12, <1>0, CoveredTick DEF Sparing
  <2>14. Probing /\ OnWatch /\ AtWork /\ Ours => Covered(well', deadline', Every + Since')
    <3>1. Probing => Every + Since' = (Every + Since) + 1
      BY <2>7, <1>0
    <3>2. Probing /\ OnWatch /\ AtWork /\ Ours => Covered(well, deadline, Every + Since)
      BY DEF Sparing
    <3>3. Probing /\ OnWatch /\ AtWork /\ Ours => Covered(well', deadline - 1, (Every + Since) + 1)
      BY <3>2, <2>11, <2>12, <1>0, CoveredTick
    <3>4. QED
      BY <3>1, <3>3, <2>10
  <2>15. Probing /\ OnWatch => InTime(well', deadline')
    <3>1. CASE ~AtWork
      BY <2>1, <3>1, <1>0 DEF InTime
    <3>2. CASE AtWork /\ ~Ours /\ Probing /\ OnWatch
      <4>1. Since' \in Nat /\ Since' <= Every + ProbeTime /\ deadline' \in Nat
        BY <2>7, <2>9, <2>10, <3>2, <1>0
      <4>2. QED
        BY <4>1, <2>11, <2>13, <3>2, <1>0, CoveredInTime
    <3>3. CASE AtWork /\ Ours /\ Probing /\ OnWatch
      <4>1. probe # NoProbe /\ probe.turn = turn
        BY <3>3 DEF Ours
      <4>2. Since < ProbeTime
        BY <3>3, <4>1, <2>1, <2>3, <2>8
      <4>3. /\ Every + Since' \in Nat /\ Every + Since' <= Every + ProbeTime /\ deadline' \in Nat
        BY <2>7, <2>9, <2>10, <3>3, <4>2, <1>0
      <4>4. QED
        BY <4>3, <2>11, <2>14, <3>3, <1>0, CoveredInTime
    <3>4. QED
      BY <3>1, <3>2, <3>3
  <2>16. QED
    BY <2>1, <2>2, <2>3, <2>5, <2>7, <2>8, <2>13, <2>14, <2>15 DEF Sparing
<1>11. CASE Outage
  <2>1. /\ well' = 0 /\ gateway' \in {"up", "down"}
        /\ UNCHANGED <<turn, pc, run, runID, guard, armed, fired, probe, toProbe, deadline>>
    BY <1>11 DEF Outage, runner, shared, watchdog
  <2>2. \A s \in Nat : Covered(well', deadline', s)
    BY <2>1, CoveredIdle
  <2>3. Since' = Since /\ Since \in Nat /\ Every + Since \in Nat /\ OnWatch' = OnWatch
    BY <2>1, <1>0 DEF Since, OnWatch
  <2>4. InTime(well', deadline')
    BY <2>1, <1>0 DEF InTime
  <2>5. QED
    BY <2>1, <2>2, <2>3, <2>4 DEF Sparing
<1>12. CASE RunEnds
  <2>1. PICK r \in DOMAIN runs : runs' = [runs EXCEPT ![r].status = "ended"]
    BY <1>12 DEF RunEnds
  <2>2. UNCHANGED <<turn, guard, armed, fired, toProbe, probe, well, deadline, pc, run, runID, gateway>>
    BY <1>12 DEF RunEnds, runner, shared, watchdog
  <2>3. AtWork' => AtWork
    <3>1. runs[r] \in Runs
      BY <1>0, ElementOfSeq DEF TypeOK
    <3>2. run \in DOMAIN runs /\ runs'[run].status = "running" => runs[run].status = "running"
      BY <2>1, <3>1 DEF Runs
    <3>3. pc = "awaiting" => run \in DOMAIN runs
      BY <1>0 DEF Sparing
    <3>4. QED
      BY <2>2, <3>2, <3>3 DEF AtWork
  <2>4. QED
    BY <2>2, <2>3, SparingKept DEF Sparing
<1>13. QED
  BY <1>1, <1>2, <1>3, <1>4, <1>5, <1>6, <1>7, <1>8, <1>9, <1>10, <1>11, <1>12
     DEF Next, RunnerStep, GuardStep

(* Only the watchdog of the turn at work fires, at its deadline. *)
LEMMA SparedStep ==
  ASSUME TypeOK, Sparing, [Next]_vars, Probing, Every + ProbeTime < Timeout,
         NEW t \in Turns, fired'[t], ~fired[t]
  PROVE  well <= Every + ProbeTime
<1>1. CASE \E u \in Turns : Fire(u)
  <2>1. PICK u \in Turns : Fire(u)
    BY <1>1
  <2>2. Due(u)
    BY <2>1 DEF Fire
  <2>3. OnWatch /\ deadline = 0
    BY <2>2, RunnerAssumption DEF Due, OnWatch, Turns
  <2>4. InTime(well, deadline)
    BY <2>3 DEF Sparing
  <2>5. QED
    BY <2>3, <2>4, Ranges DEF InTime
<1>2. CASE ~\E u \in Turns : Fire(u)
  <2>1. fired' = fired
    BY <1>2 DEF Next, RunnerStep, GuardStep, StartTurn, RunStarts, PostFails, Read, WaitFails, StartCall,
                Finish, Deny, EndCall, NextRound, Disarm, Release, Record, Accept, Delta, Approve,
                QuitTurn, Press, Arm, GuardStops, OnFire, LaunchProbe, AnswerProbe, Tick, Outage,
                RunEnds, vars, watchdog
  <2>2. QED
    BY <2>1
<1>3. QED
  BY <1>1, <1>2

(* For every timeout above the probe interval - floored - and a probe's time: a
   run the gateway has worked on, in reach, for longer than those two is not
   timed out.                                                               *)
THEOREM LiveRunsAreSpared == Spec => LiveRunSpared
<1>1. TypeOK /\ Sparing /\ [Next]_vars =>
        [Probing /\ Every + ProbeTime < Timeout =>
           \A t \in Turns : fired'[t] /\ ~fired[t] => well <= Every + ProbeTime]_vars
  BY SparedStep
<1>2. QED
  BY <1>1, TypeInit, TypeInductive, SparingInit, SparingInductive, PTL
     DEF Spec, LiveRunSpared
=============================================================================
