------------------------------- MODULE Shell --------------------------------
(***************************************************************************)
(* The persistent shell (internal/shell/shell.go): one bash kept alive     *)
(* over pipes.  A command is written to it and behind it a line that       *)
(* prints a mark with the exit status; what comes before the mark is the   *)
(* command's output.  Nothing to read for a while, or the end of the       *)
(* output, and the shell is killed and another one started.                *)
(*                                                                         *)
(* Run holds a lock: one at a time.  Kill does not: Ctrl-C calls it from   *)
(* another goroutine, at any moment, and reads the group and signals it in *)
(* two steps.  bash and what it runs go at their own pace: a command       *)
(* prints, never ends, leaves a process behind, reads the line that would  *)
(* have printed its mark, ends the shell.  The priming takes any time, but *)
(* reads no input and prints a line at most; a process that leaves the     *)
(* shell's group (setsid) is not modelled.                                 *)
(***************************************************************************)
EXTENDS Naturals, Sequences

CONSTANTS MaxOut,    \* lines of output kept of a command
          MaxPipe,   \* bound: lines in the pipe
          MaxRuns,   \* bound: calls of Run
          MaxShells, \* bound: shells started
          MaxKills   \* bound: calls of Kill

ASSUME ShellAssumption ==
  MaxOut \in Nat /\ MaxPipe \in Nat /\ MaxRuns \in Nat /\ MaxShells \in Nat /\ MaxKills \in Nat

VARIABLES
  \* Run
  pc,      \* "idle" | "starting" | "started" | "sending" | "reading" | "stopping"
  runs,    \* calls of Run so far
  todo,    \* what is still to be executed before Run returns
  got,     \* lines read for the item at hand: who wrote them
  answer,  \* of the last Run: how it ended, the exit code; its output is got
  \* Shell
  up, killPgid,
  \* the processes
  gen,     \* shells started so far; the last one is
  alive,   \* still there,
  input,   \* has yet to read this,
  at,      \* executes this,
  status,  \* had this exit status from the last one,
  pipe,    \* and wrote this, not read yet
  behind,  \* commands with a process left behind in its group
  reaped,  \* shells up to this one were waited for
  \* Kill
  kills, aim,
  \* history variables, read by no action
  began,   \* commands that bash began
  ended,   \* those that ended, with their exit status
  strays,  \* commands of this shell that left a process behind at some time
  left,    \* commands with a process at work in the group of a shell given up
  cancelled, \* Kill was called while this Run was reading
  stranger   \* Kill signalled a group that was reaped

run    == <<runs, todo, got, answer>>
shell  == <<up, killPgid>>
bash   == <<alive, input, at, status, pipe, behind>>
signal == <<kills, aim, stranger>>
past   == <<began, ended, strays, left>>
vars   == <<pc, run, shell, gen, bash, reaped, signal, past, cancelled>>

Prime(g)   == [what |-> "prime", n |-> g]
Cd(g)      == [what |-> "cd", n |-> g]
Command(n) == [what |-> "command", n |-> n]
Nothing    == [what |-> "none", n |-> 0]
NoAnswer     == [how |-> "none", exit |-> 0]
NotAvailable == [how |-> "not available", exit |-> 124]

Line(item)       == [mark |-> FALSE, of |-> item, exit |-> 0]
Mark(item, exit) == [mark |-> TRUE, of |-> item, exit |-> exit]

Init ==
  /\ pc = "idle" /\ runs = 0 /\ todo = <<>> /\ got = <<>> /\ answer = NoAnswer
  /\ up = FALSE /\ killPgid = 0
  /\ gen = 0 /\ alive = FALSE /\ input = <<>> /\ at = Nothing /\ status = 0 /\ pipe = <<>>
  /\ behind = {} /\ reaped = 0
  /\ kills = 0 /\ aim = 0 /\ stranger = FALSE
  /\ began = {} /\ ended = {} /\ strays = {} /\ left = {} /\ cancelled = FALSE

-----------------------------------------------------------------------------
(* Run *)
Priming(g) == <<Prime(g), Cd(g)>>

Run ==
  /\ pc = "idle" /\ runs < MaxRuns
  /\ runs' = runs + 1 /\ answer' = NoAnswer /\ got' = <<>>
  /\ IF up THEN pc' = "sending"  /\ todo' = <<Command(runs + 1)>>
           ELSE pc' = "starting" /\ todo' = Append(Priming(gen + 1), Command(runs + 1))
  /\ UNCHANGED <<shell, gen, bash, reaped, signal, past, cancelled>>

(* Run is over. *)
Returns == pc' = "idle" /\ todo' = <<>> /\ cancelled' = FALSE

Start ==
  /\ pc = "starting" /\ gen < MaxShells
  /\ pc' = "started" /\ gen' = gen + 1
  /\ alive' = TRUE /\ input' = <<>> /\ at' = Nothing /\ status' = 0 /\ pipe' = <<>> /\ behind' = {}
  /\ strays' = {}
  /\ UNCHANGED <<run, shell, reaped, signal, began, ended, left, cancelled>>

(* No bash can be started: the next Run tries again. *)
StartFails ==
  /\ pc = "starting"
  /\ Returns
  /\ answer' = IF answer.how = "none" THEN NotAvailable ELSE answer
  /\ UNCHANGED <<runs, got, shell, gen, bash, reaped, signal, past>>

\* mutant of Group: the group of the first shell only
Group_First == IF gen = 1 THEN gen ELSE 0

(* The group Kill is told of: the new shell's. *)
Group == gen

Store ==
  /\ pc = "started"
  /\ pc' = "sending" /\ up' = TRUE /\ killPgid' = Group
  /\ UNCHANGED <<run, gen, bash, reaped, signal, past, cancelled>>

(* After this the shell is not to be used again. *)
GivesUp(how) == how # "ok"

(* The item at hand. *)
Item == Head(todo)

(* An item is done with: priming whatever came of it, a command with its answer. *)
Done(result) ==
  IF Item.what # "command"
  THEN /\ UNCHANGED answer
       /\ IF Tail(todo) = <<>> THEN Returns
          ELSE pc' = "sending" /\ todo' = Tail(todo) /\ UNCHANGED cancelled
  ELSE /\ answer' = result
       /\ IF GivesUp(result.how) THEN pc' = "stopping" /\ UNCHANGED <<todo, cancelled>> ELSE Returns

Send ==
  /\ pc = "sending"
  /\ got' = <<>>
  /\ IF alive
     THEN /\ pc' = "reading"
          /\ input' = input \o <<Line(Item), Mark(Item, 0)>>
          /\ UNCHANGED <<todo, answer, cancelled>>
     ELSE Done(NotAvailable) /\ UNCHANGED input
  /\ UNCHANGED <<runs, shell, gen, alive, at, status, pipe, behind, reaped, signal, past>>

\* mutant of Marks: any mark will do
Marks_Any(line, item) == line.mark

Marks(line, item) == line.mark /\ line.of = item

ReadLine ==
  /\ pc = "reading" /\ pipe # <<>>
  /\ pipe' = Tail(pipe)
  /\ IF Marks(Head(pipe), Item)
     THEN Done([how |-> "ok", exit |-> Head(pipe).exit]) /\ UNCHANGED got
     ELSE /\ got' = IF Len(got) < MaxOut THEN Append(got, Head(pipe).of) ELSE got
          /\ UNCHANGED <<pc, todo, answer, cancelled>>
  /\ UNCHANGED <<runs, shell, gen, alive, input, at, status, behind, reaped, signal, past>>

(* Nothing to read for as long as the timeout, or nobody left to write. *)
ReadFails ==
  /\ pc = "reading" /\ pipe = <<>>
  /\ Done([how |-> "reset", exit |-> 124])
  /\ UNCHANGED <<runs, got, shell, gen, bash, reaped, signal, past>>

\* mutant of Killed: bash alone
Killed_Bash == {at}

(* What the signal to the group ends. *)
Killed == behind \cup {at}

Stopped ==
  /\ left' = left \cup (behind \ Killed)
  /\ alive' = FALSE /\ input' = <<>> /\ at' = Nothing /\ pipe' = <<>> /\ behind' = {}
  /\ up' = FALSE /\ killPgid' = 0 /\ reaped' = gen

(* stop, and a new shell at once. *)
Reset ==
  /\ pc = "stopping"
  /\ Stopped
  /\ pc' = "starting" /\ todo' = Priming(gen + 1)
  /\ UNCHANGED <<runs, got, answer, gen, status, signal, began, ended, strays, cancelled>>

(* The session ends, or another configuration is taken on. *)
Stop ==
  /\ pc = "idle" /\ up
  /\ Stopped
  /\ UNCHANGED <<pc, run, gen, status, signal, began, ended, strays, cancelled>>

-----------------------------------------------------------------------------
(* bash and what it runs *)
Bash == UNCHANGED <<pc, run, shell, gen, reaped, signal, left, cancelled>>

Writes(line) == pipe' = Append(pipe, line)

Begin ==
  /\ alive /\ at = Nothing /\ input # <<>>
  /\ input' = Tail(input)
  /\ IF Head(input).mark
     THEN Writes(Mark(Head(input).of, status)) /\ UNCHANGED <<at, began>>
     ELSE at' = Head(input).of /\ began' = began \cup {Head(input).of} /\ UNCHANGED pipe
  /\ Bash /\ UNCHANGED <<alive, status, behind, ended, strays>>

Finish(exit) ==
  /\ at # Nothing
  /\ at' = Nothing /\ status' = exit /\ ended' = ended \cup {Mark(at, exit)}
  /\ UNCHANGED pipe \/ (at.what = "prime" /\ Writes(Line(at)))
  /\ Bash /\ UNCHANGED <<alive, input, behind, began, strays>>

Talk ==
  /\ Len(pipe) < MaxPipe
  /\ \E item \in behind \cup {at} : item.what = "command" /\ Writes(Line(item))
  /\ Bash /\ UNCHANGED <<alive, input, at, status, behind, began, ended, strays>>

LeaveBehind ==
  /\ at.what = "command"
  /\ behind' = behind \cup {at} /\ strays' = strays \cup {at}
  /\ Bash /\ UNCHANGED <<alive, input, at, status, pipe, began, ended>>

ReadInput ==
  /\ at.what = "command" /\ input # <<>>
  /\ input' = Tail(input)
  /\ Bash /\ UNCHANGED <<alive, at, status, pipe, behind, began, ended, strays>>

Exit ==
  /\ at # Nothing
  /\ alive' = FALSE /\ at' = Nothing /\ input' = <<>>
  /\ Bash /\ UNCHANGED <<status, pipe, behind, began, ended, strays>>

-----------------------------------------------------------------------------
(* Kill *)
KillLoad ==
  /\ aim = 0 /\ kills < MaxKills
  /\ kills' = kills + 1 /\ aim' = killPgid
  /\ cancelled' = (cancelled \/ pc = "reading")
  /\ UNCHANGED <<pc, run, shell, gen, bash, reaped, stranger, past>>

KillSignal ==
  /\ aim > 0
  /\ aim' = 0
  /\ IF aim > reaped
     THEN /\ alive' = FALSE /\ at' = Nothing /\ input' = <<>> /\ behind' = {}
          /\ UNCHANGED stranger
     ELSE stranger' = TRUE /\ UNCHANGED <<alive, at, input, behind>>
  /\ UNCHANGED <<pc, run, shell, gen, status, pipe, reaped, kills, past, cancelled>>

RunStep == Start \/ StartFails \/ Store \/ Send \/ ReadLine \/ ReadFails \/ Reset

Next ==
  \/ Run \/ RunStep \/ Stop
  \/ Begin \/ (\E exit \in {0, 1} : Finish(exit)) \/ Talk \/ LeaveBehind \/ ReadInput \/ Exit
  \/ KillLoad \/ KillSignal

(* Run and Kill take their steps, a read ends when its time is up; bash and the
   commands owe nothing.                                                    *)
Spec == Init /\ [][Next]_vars /\ WF_vars(RunStep) /\ WF_vars(KillSignal)

-----------------------------------------------------------------------------
(* Properties *)

Items == [what : {"prime", "cd", "command"}, n : Nat \ {0}]
Lines == [mark : BOOLEAN, of : Items, exit : {0, 1}]

CountsOK ==
  /\ runs \in 0..MaxRuns /\ gen \in 0..MaxShells /\ reaped \in 0..gen /\ killPgid \in 0..gen
  /\ status \in {0, 1} /\ aim \in 0..gen /\ kills \in 0..MaxKills

FlagsOK ==
  /\ up \in BOOLEAN /\ alive \in BOOLEAN /\ cancelled \in BOOLEAN /\ stranger \in BOOLEAN

Answers == [how : {"none", "ok", "not available", "reset"}, exit : {0, 1, 124}]

RunOK ==
  /\ pc \in {"idle", "starting", "started", "sending", "reading", "stopping"}
  /\ todo \in Seq(Items) /\ got \in Seq(Items) /\ answer \in Answers

BashOK ==
  /\ input \in Seq(Lines) /\ pipe \in Seq(Lines) /\ at \in Items \cup {Nothing}
  /\ behind \subseteq Items /\ left \subseteq Items /\ strays \subseteq Items
  /\ began \subseteq Items /\ ended \subseteq Lines

TypeOK == CountsOK /\ FlagsOK /\ RunOK /\ BashOK

(* The exit code Hermes is given is that of the command it sent, which ran to
   its end - also when the shell was still busy with its priming -, and one
   that is "(shell not available)" did not run and can be sent again.       *)
AnswerIsItsOwn ==
  /\ answer.how = "ok" => Mark(Command(runs), answer.exit) \in ended
  /\ answer.how = "not available" => Command(runs) \notin began

(* shell.go: "Output discarded".  What Run returns was written by its command,
   by a process an earlier one left behind in the same shell, or by a priming
   that took too long; nothing of a command that was given up.              *)
OutputIsOwn ==
  pc = "reading" =>
    \A i \in DOMAIN got : got[i].what = "command" => got[i] \in {Command(runs)} \cup strays

(* A command that is given up is over when Run says so: neither it nor what it
   started works on beside the next one, and between Runs bash runs none.   *)
GivenUpIsOver ==
  pc = "idle" =>
    /\ answer.how = "reset" => Command(runs) \notin behind \cup left
    /\ at.what # "command"

(* Commands do not run into each other. *)
OneAtATime == OutputIsOwn /\ GivenUpIsOver

(* shell.go: Kill "unblocks an in-flight Run".  A Run that was reading when Kill
   was called returns, though its command never stops printing.             *)
KillUnblocks == cancelled ~> (pc = "idle")

(* shell.go: Kill is "safe to call from a signal handler without holding the
   lock".  It signals no group that was reaped.                             *)
KillIsSafe == ~stranger

-----------------------------------------------------------------------------
(* The inductive invariants behind the theorems of ShellProofs. *)

Mine       == Command(runs)
IsCommand(item) == item.what = "command"

(* The command at hand was sent, and its mark is waited for. *)
Waiting == pc = "reading" /\ IsCommand(Item)

(* A Run has its command left to do as long as it has no answer; then it is
   the last of what is left.                                                *)
Planned ==
  /\ pc = "idle" <=> todo = <<>>
  /\ \A i \in DOMAIN todo : IsCommand(todo[i]) => i = Len(todo) /\ todo[i] = Mine
  /\ answer.how = "none" /\ pc # "idle" => IsCommand(todo[Len(todo)])
  /\ answer.how # "none" /\ pc # "stopping" => \A i \in DOMAIN todo : ~IsCommand(todo[i])
  /\ pc = "stopping" => IsCommand(Item) /\ answer.how \in {"not available", "reset"}

(* A command that was not sent has left no trace. *)
Untouched ==
  answer.how \in {"none", "not available"} /\ ~Waiting =>
    /\ Mine \notin began /\ Mine # at /\ Mine \notin behind
    /\ \A i \in DOMAIN input : input[i].of # Mine
    /\ \A i \in DOMAIN pipe : pipe[i].of # Mine

(* bash has a command only while Run waits for it, and until it is stopped. *)
Calm ==
  ~Waiting /\ pc # "stopping" =>
    ~IsCommand(at) /\ \A i \in DOMAIN input : ~IsCommand(input[i].of)

(* What bash has to read is lines, each with its mark behind it; the first mark
   is that of what it executes, or executed last.  A command comes last.    *)
Paired ==
  /\ \A i \in DOMAIN input :
       /\ (input[i].mark /\ i > 1) => (~input[i - 1].mark /\ input[i - 1].of = input[i].of)
       /\ ~input[i].mark => (i < Len(input) /\ input[i + 1].mark /\ input[i + 1].of = input[i].of)
       /\ IsCommand(input[i].of) => (input[i].of = Mine /\ (input[i].mark => i = Len(input)))
  /\ (input # <<>> /\ input[1].mark) =>
       IF at = Nothing THEN Mark(input[1].of, status) \in ended ELSE input[1].of = at
  /\ IsCommand(at) => (at = Mine /\ Len(input) <= 1)

(* A mark that came out is of something that ended with that status; what comes
   out else is the command's own, before its mark, or a stray's.            *)
Piped ==
  \A i \in DOMAIN pipe :
    /\ pipe[i].mark => pipe[i] \in ended
    /\ IsCommand(pipe[i].of) =>
         \/ ~pipe[i].mark /\ pipe[i].of \in strays
         \/ /\ pipe[i].of = Mine /\ (Waiting \/ pc = "stopping")
            /\ \A j \in DOMAIN pipe : (pipe[j].mark /\ pipe[j].of = Mine) => i <= j
            /\ pipe[i].mark => (at # Mine /\ \A j \in DOMAIN input : input[j].of # Mine)

(* Commands are known by the number of their Run; what was left behind is
   stray, and none of it in a shell given up.                               *)
Behind ==
  /\ \A item \in behind \cup strays \cup began : IsCommand(item) => item.n <= runs
  /\ behind \subseteq strays
  /\ left = {}
  /\ answer.how = "reset" /\ pc # "stopping" => Mine \notin behind

IInv == /\ Planned /\ Untouched /\ Calm /\ Paired /\ Piped /\ Behind
        /\ AnswerIsItsOwn /\ OutputIsOwn
=============================================================================
