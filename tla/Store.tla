------------------------------- MODULE Store -------------------------------
(***************************************************************************)
(* The session store (internal/session) and what uses it: processes start, *)
(* prune what is past the retention window, open a session - two of them   *)
(* perhaps the same one - and write its event log, its outputs and its     *)
(* index record.  An append may be lost or torn, a record's write may      *)
(* fail, a process may die between any two writes, and the server may lose *)
(* the conversation.                                                       *)
(*                                                                         *)
(* A process runs once: starting the program again is another process.     *)
(* Left out: file modes, the log's texts, chat checkpoints (Keeper).       *)
(***************************************************************************)
EXTENDS Integers, Sequences, SequencesExt, FiniteSetsExt

CONSTANTS Procs, Sessions,
          None, Torn,  \* no file; a file that cannot be parsed
          MaxAge,    \* the retention window, in ticks of the clock
          MaxClock,  \* bound: ticks
          MaxSeq,    \* bound: events, turns and calls a session's log numbers
          MaxFaults  \* bound: appends and writes that fail

Records == [turns : {0, 1}, updated : 0..MaxClock]

Bounds ==
  /\ MaxAge \in Nat /\ MaxClock \in Nat /\ MaxSeq \in Nat /\ MaxFaults \in Nat
  /\ None \notin Sessions \cup Procs \cup Records /\ Torn \notin Records /\ None # Torn

ASSUME StoreAssumption == Bounds

VARIABLES
  \* on disk, by session
  dir,    \* its directory is there
  index,  \* session.json: None, Torn or a record
  tmp,    \* session.json.tmp
  log,    \* the readable events of events.jsonl
  tail,   \* its last line: "whole"; "torn": part of an event; "open": an event, no newline
  outs,   \* out/<ref>.txt, by ref: the process that wrote it, or None
  held,   \* the server has the conversation
  \* by process
  pc, open, rec, next, ref, turn, victims, note,
  clock, faults,
  \* history variables, by session
  shared, \* two processes had it open at once
  behind  \* a write of its record failed

files   == <<log, tail, outs>>
disk    == <<dir, index, tmp, files>>
own     == <<open, rec, next, ref, turn, victims, note>>
world   == <<clock, faults>>
history == <<shared, behind>>
vars    == <<disk, held, pc, own, world, history>>

Refs == 1..MaxSeq

Record(t) == [turns |-> 0, updated |-> t]
Bare      == Record(MaxClock)  \* load of a corrupt file: no time, and so never idle

Init ==
  /\ dir = [s \in Sessions |-> FALSE]
  /\ index = [s \in Sessions |-> None] /\ tmp = [s \in Sessions |-> None]
  /\ log = [s \in Sessions |-> <<>>] /\ tail = [s \in Sessions |-> "whole"]
  /\ outs = [s \in Sessions |-> [r \in Refs |-> None]] /\ held = [s \in Sessions |-> FALSE]
  /\ pc = [p \in Procs |-> "new"] /\ open = [p \in Procs |-> None]
  /\ rec = [p \in Procs |-> Bare] /\ next = [p \in Procs |-> 0]
  /\ ref = [p \in Procs |-> 0] /\ turn = [p \in Procs |-> 0]
  /\ victims = [p \in Procs |-> {}] /\ note = [p \in Procs |-> FALSE]
  /\ clock = 0 /\ faults = 0
  /\ shared = [s \in Sessions |-> FALSE] /\ behind = [s \in Sessions |-> FALSE]

Readable(s) == index[s] \notin {None, Torn}

Users(s) == {p \in Procs : open[p] = s /\ pc[p] # "dead"}

Fails == faults < MaxFaults /\ faults' = faults + 1

-----------------------------------------------------------------------------
(* A process starts: openStore lists the records, and prunes the sessions
   idle past the window. *)
Idle == {s \in Sessions : Readable(s) /\ clock - index[s].updated > MaxAge}

(* A directory without a record - a crash in New, a session pruned while open -
   goes when it has not changed for as long, which any may not have. *)
Orphans == {s \in Sessions : dir[s] /\ index[s] = None}

Start(p) ==
  /\ pc[p] = "new"
  /\ pc' = [pc EXCEPT ![p] = "prune"]
  /\ victims' = [victims EXCEPT ![p] = Idle]
  /\ UNCHANGED <<disk, held, open, rec, next, ref, turn, note, world, history>>

(* The listed ones go first, whatever was written to them since. *)
Delete(p, s) ==
  /\ pc[p] = "prune"
  /\ IF victims[p] # {} THEN s \in victims[p] ELSE s \in Orphans
  /\ victims' = [victims EXCEPT ![p] = @ \ {s}]
  /\ dir' = [dir EXCEPT ![s] = FALSE]
  /\ index' = [index EXCEPT ![s] = None] /\ tmp' = [tmp EXCEPT ![s] = None]
  /\ log' = [log EXCEPT ![s] = <<>>] /\ tail' = [tail EXCEPT ![s] = "whole"]
  /\ outs' = [outs EXCEPT ![s] = [r \in Refs |-> None]]
  /\ UNCHANGED <<held, pc, open, rec, next, ref, turn, note, world, history>>

Pruned(p) ==
  /\ pc[p] = "prune" /\ victims[p] = {}
  /\ pc' = [pc EXCEPT ![p] = "choose"]
  /\ UNCHANGED <<disk, held, own, world, history>>

-----------------------------------------------------------------------------
(* The record: written to a temporary file, which is then renamed.  Two
   processes with one session share the name of that file. *)

\* mutant of Begun: written in place
Begun_InPlace(s, r) ==
  /\ index' = [index EXCEPT ![s] = IF r = Torn THEN Torn ELSE @]
  /\ tmp' = [tmp EXCEPT ![s] = r]

Begun(s, r) == tmp' = [tmp EXCEPT ![s] = r] /\ UNCHANGED index

(* rec changes in memory either way.  A failed write is ignored, but in New
   it ends the process. *)
Write(p, s, r, then, orElse) ==
  /\ rec' = [rec EXCEPT ![p] = r]
  /\ dir' = [dir EXCEPT ![s] = TRUE]
  /\ \/ /\ Begun(s, r)
        /\ pc' = [pc EXCEPT ![p] = then]
        /\ UNCHANGED <<faults, behind>>
     \/ /\ Fails
        /\ Begun(s, Torn)
        /\ pc' = [pc EXCEPT ![p] = orElse]
        /\ behind' = [behind EXCEPT ![s] = TRUE]
  /\ UNCHANGED <<files, next, ref, turn, victims, clock, shared>>

Rename(p) ==
  LET s == open[p] IN
  /\ pc[p] \in {"created", "rename"}
  /\ IF tmp[s] = None
     THEN /\ UNCHANGED <<index, tmp>>  \* another process took it, or pruned it
          /\ pc' = [pc EXCEPT ![p] = IF @ = "rename" THEN "ran" ELSE "dead"]
     ELSE /\ index' = [index EXCEPT ![s] = tmp[s]]
          /\ tmp' = [tmp EXCEPT ![s] = None]
          /\ pc' = [pc EXCEPT ![p] = IF @ = "rename" THEN "ran" ELSE "open"]
  /\ UNCHANGED <<dir, files, held, own, world, history>>

New(p, s) ==
  /\ pc[p] = "choose" /\ ~dir[s] /\ Users(s) = {}  \* an id of its own
  /\ open' = [open EXCEPT ![p] = s]
  /\ Write(p, s, Record(clock), "created", "dead")
  /\ held' = [held EXCEPT ![s] = FALSE]
  /\ UNCHANGED note

(* load: a file that cannot be parsed makes a bare record. *)
Resolve(p, s) ==
  /\ pc[p] = "choose" /\ index[s] # None
  /\ open' = [open EXCEPT ![p] = s]
  /\ rec' = [rec EXCEPT ![p] = IF Readable(s) THEN index[s] ELSE Bare]
  /\ shared' = [shared EXCEPT ![s] = @ \/ Users(s) # {}]
  /\ pc' = [pc EXCEPT ![p] = "open"]
  /\ UNCHANGED <<disk, held, next, ref, turn, victims, note, world, behind>>

-----------------------------------------------------------------------------
(* OpenSession: the numbering goes on after the log, and when the server has
   lost the conversation the first turn carries a recap of it. *)
Highest(values) == Max({0} \cup values)

LastRef(evs)  == Highest({evs[i].ref : i \in DOMAIN evs})
LastTurn(evs) == Highest({evs[i].turn : i \in DOMAIN evs})

(* Not for a session without a run, nor when the server has the conversation -
   a server that cannot be asked has not.  Left out: a compacted session, which
   needs none (Keeper), and the turns before the last twenty. *)
Recap(p, has) ==
  rec[p].turns > 0 /\ ~has /\ \E i \in DOMAIN log[open[p]] : log[open[p]][i].kind = "user"

Unread == -1  \* next: the log's last number is not read yet

OpenSession(p) ==
  LET s == open[p] IN
  /\ pc[p] = "open"
  /\ ref' = [ref EXCEPT ![p] = LastRef(log[s])]
  /\ turn' = [turn EXCEPT ![p] = LastTurn(log[s])]
  /\ next' = [next EXCEPT ![p] = Unread]
  /\ \E has \in {held[s], FALSE} : note' = [note EXCEPT ![p] = Recap(p, has)]
  /\ pc' = [pc EXCEPT ![p] = "idle"]
  /\ UNCHANGED <<disk, held, open, rec, victims, world, history>>

\* mutant of LastSeq: the events are counted
LastSeq_Count(evs) == Len(evs)

LastSeq(evs) == IF evs = <<>> THEN 0 ELSE Last(evs).seq

Stamp(p, s) == (IF next[p] = Unread THEN LastSeq(log[s]) ELSE next[p]) + 1

(* An event put behind an unfinished line cannot be read, nor can that line. *)
Joined(s) == IF tail[s] = "open" THEN Front(log[s]) ELSE log[s]

(* AppendEvent: the log's last number is read once, and counted up whatever
   comes of the write. *)
Appended(p, kind, t, r) ==
  LET s == open[p]
      n == Stamp(p, s)
      e == [seq |-> n, turn |-> t, kind |-> kind, ref |-> r, by |-> p] IN
  /\ n <= MaxSeq
  /\ next' = [next EXCEPT ![p] = n]
  /\ dir' = [dir EXCEPT ![s] = TRUE]
  /\ \/ /\ log' = [log EXCEPT ![s] = IF tail[s] = "whole" THEN Append(@, e) ELSE Joined(s)]
        /\ tail' = [tail EXCEPT ![s] = "whole"]
        /\ UNCHANGED faults
     \/ Fails /\ UNCHANGED <<log, tail>>
     \/ /\ Fails
        /\ log' = [log EXCEPT ![s] = Joined(s)]
        /\ tail' = [tail EXCEPT ![s] = "torn"]
     \/ /\ Fails /\ tail[s] = "whole"
        /\ log' = [log EXCEPT ![s] = Append(@, e)]
        /\ tail' = [tail EXCEPT ![s] = "open"]
  /\ UNCHANGED <<index, tmp, outs, held, open, rec, victims, note, clock, history>>

-----------------------------------------------------------------------------
(* A turn: the message, the runs - each one's end goes into the record before
   its reply is looked at - the calls, and the answer. *)
BeginTurn(p) ==
  /\ pc[p] = "idle" /\ turn[p] < MaxSeq
  /\ turn' = [turn EXCEPT ![p] = @ + 1]
  /\ Appended(p, "user", turn[p] + 1, 0)
  /\ pc' = [pc EXCEPT ![p] = "asked"]
  /\ UNCHANGED ref

\* mutant of Bumped: only the time
Bumped_Time(r) == [r EXCEPT !.updated = clock]

Bumped(r) == [r EXCEPT !.turns = 1, !.updated = clock]

BumpTurn(p) ==
  LET s == open[p] IN
  /\ pc[p] \in {"asked", "ran"}
  /\ held' = [held EXCEPT ![s] = TRUE]
  /\ note' = [note EXCEPT ![p] = FALSE]
  /\ Write(p, s, Bumped(rec[p]), "rename", "ran")
  /\ UNCHANGED open

(* Save - for the context meter, a compaction, the title. *)
Save(p) ==
  /\ pc[p] = "ran"
  /\ Write(p, open[p], rec[p], "rename", "ran")
  /\ UNCHANGED <<held, open, note>>

(* A call is in the log before it runs. *)
Call(p) ==
  /\ pc[p] = "ran" /\ ref[p] < MaxSeq
  /\ ref' = [ref EXCEPT ![p] = @ + 1]
  /\ Appended(p, "call", turn[p], ref[p] + 1)
  /\ pc' = [pc EXCEPT ![p] = "called"]
  /\ UNCHANGED turn

Stored(p) == [outs EXCEPT ![open[p]][ref[p]] = p]

SaveOutput(p) ==
  /\ pc[p] = "called"
  /\ dir' = [dir EXCEPT ![open[p]] = TRUE]
  /\ \/ /\ outs' = Stored(p)
        /\ pc' = [pc EXCEPT ![p] = "saved"]
        /\ UNCHANGED faults
     \/ /\ Fails
        /\ pc' = [pc EXCEPT ![p] = "unsaved"]
        /\ UNCHANGED outs
  /\ UNCHANGED <<index, tmp, log, tail, held, own, clock, history>>

(* Its result; "bare": its output could not be stored. *)
Result(p) ==
  /\ pc[p] \in {"saved", "unsaved"}
  /\ Appended(p, IF pc[p] = "saved" THEN "result" ELSE "bare", turn[p], ref[p])
  /\ pc' = [pc EXCEPT ![p] = "ran"]
  /\ UNCHANGED <<ref, turn>>

(* The answer of a run; or the turn is interrupted, or its request failed. *)
EndTurn(p) ==
  /\ pc[p] \in {"asked", "ran"}
  /\ \E kind \in IF pc[p] = "ran" THEN {"answer", "turn_end"} ELSE {"turn_end"} :
       Appended(p, kind, turn[p], 0)
  /\ pc' = [pc EXCEPT ![p] = "idle"]
  /\ UNCHANGED <<ref, turn>>

-----------------------------------------------------------------------------
(* The process ends or dies; time passes; the server loses a conversation. *)
Crash(p) ==
  /\ pc[p] \notin {"new", "dead"}
  /\ pc' = [pc EXCEPT ![p] = "dead"]
  /\ open' = [open EXCEPT ![p] = None] /\ rec' = [rec EXCEPT ![p] = Bare]
  /\ next' = [next EXCEPT ![p] = 0] /\ ref' = [ref EXCEPT ![p] = 0] /\ turn' = [turn EXCEPT ![p] = 0]
  /\ victims' = [victims EXCEPT ![p] = {}] /\ note' = [note EXCEPT ![p] = FALSE]
  /\ UNCHANGED <<disk, held, world, history>>

Tick ==
  /\ clock < MaxClock
  /\ clock' = clock + 1
  /\ UNCHANGED <<disk, held, pc, own, faults, history>>

Lose(s) ==
  /\ held[s] /\ Users(s) = {}  \* it is asked only when one opens it
  /\ held' = [held EXCEPT ![s] = FALSE]
  /\ UNCHANGED <<disk, pc, own, world, history>>

Step(p) ==
  \/ Start(p) \/ Pruned(p) \/ Rename(p) \/ OpenSession(p)
  \/ \E s \in Sessions : Delete(p, s) \/ New(p, s) \/ Resolve(p, s)
  \/ BeginTurn(p) \/ BumpTurn(p) \/ Save(p) \/ Call(p) \/ SaveOutput(p) \/ Result(p) \/ EndTurn(p)
  \/ Crash(p)

Next == (\E p \in Procs : Step(p)) \/ Tick \/ \E s \in Sessions : Lose(s)

Spec == Init /\ [][Next]_vars

-----------------------------------------------------------------------------
Kinds  == {"user", "call", "result", "bare", "answer", "turn_end"}
Events == [seq : 1..MaxSeq, turn : 1..MaxSeq, kind : Kinds, ref : 0..MaxSeq, by : Procs]

\* Where a process is once it has chosen a session, and once it has read its log.
Writing == {"idle", "asked", "rename", "ran", "called", "saved", "unsaved"}
Opened  == {"created", "open"} \cup Writing

(* The state's types. *)
TypeOK ==
  /\ dir \in [Sessions -> BOOLEAN]
  /\ index \in [Sessions -> Records \cup {None, Torn}] /\ tmp \in [Sessions -> Records \cup {None, Torn}]
  /\ log \in [Sessions -> Seq(Events)] /\ tail \in [Sessions -> {"whole", "torn", "open"}]
  /\ outs \in [Sessions -> [Refs -> Procs \cup {None}]] /\ held \in [Sessions -> BOOLEAN]
  /\ pc \in [Procs -> {"new", "prune", "choose", "dead"} \cup Opened]
  /\ open \in [Procs -> Sessions \cup {None}] /\ rec \in [Procs -> Records]
  /\ next \in [Procs -> -1..MaxSeq] /\ ref \in [Procs -> 0..MaxSeq] /\ turn \in [Procs -> 0..MaxSeq]
  /\ victims \in [Procs -> SUBSET Sessions] /\ note \in [Procs -> BOOLEAN]
  /\ clock \in 0..MaxClock /\ faults \in 0..MaxFaults
  /\ shared \in [Sessions -> BOOLEAN] /\ behind \in [Sessions -> BOOLEAN]

(* A process's own events stand in the log in the order of their numbers; in a
   session no two processes had open at once all of them do, no two calls have
   one #ref and no two messages one turn - whatever was torn, lost, pruned
   under it or cut by a crash. *)
Numbered ==
  \A s \in Sessions : \A i, j \in DOMAIN log[s] :
    LET a == log[s][i] b == log[s][j] IN
    (i < j /\ (a.by = b.by \/ ~shared[s])) =>
       /\ a.seq < b.seq
       /\ a.turn <= b.turn
       /\ ~(a.kind = "call" /\ b.kind = "call" /\ a.ref = b.ref)
       /\ ~(a.kind = "user" /\ b.kind = "user" /\ a.turn = b.turn)

(* What local_output reads back for the #ref of a result in the log is that
   call's output and never another's, of an earlier process whose events were
   lost - or it is gone, pruned under the open session. *)
OutputsOwn ==
  \A s \in Sessions : ~shared[s] =>
    \A i \in DOMAIN log[s] : log[s][i].kind = "result" => outs[s][log[s][i].ref] \in {log[s][i].by, None}

(* The log of a session stands, and what it refers to. *)
LogStands == Numbered /\ OutputsOwn

(* A record is whole or not there, whenever a write of it fails or a process
   dies - unless two processes write the same one. *)
IndexWhole == \A s \in Sessions : index[s] = Torn => shared[s]

Readied(p) ==
  LET s == open[p] evs == log[s] IN
  (/\ \E i, j \in DOMAIN evs : evs[i].kind = "user" /\ evs[j].kind = "answer" /\ evs[i].turn = evs[j].turn
   /\ ~behind[s] /\ ~shared[s])
  => note'[p] \/ held[s]

(* Opening a session whose log has an answered message readies a recap of it,
   or the server still has the conversation - as long as no write of the
   record failed. *)
RecapWhenLost == [][\A p \in Procs : OpenSession(p) => Readied(p)]_vars

-----------------------------------------------------------------------------
(* What the properties rest on, by induction (SessionProofs). *)

(* A process past its choice has a session, and past its first message a turn. *)
Placed ==
  \A p \in Procs : /\ pc[p] \in Opened => open[p] \in Sessions
                   /\ pc[p] \in Writing \ {"idle"} => turn[p] # 0

(* A session that is not shared has no second process. *)
Alone ==
  \A p, q \in Procs :
    (p # q /\ pc[p] \in Opened /\ pc[q] \in Opened /\ open[p] = open[q]) => shared[open[p]]

(* What is about to be renamed is whole. *)
TmpWhole ==
  \A p \in Procs : (pc[p] \in {"created", "rename"} /\ ~shared[open[p]]) => tmp[open[p]] # Torn

(* A number that is still to be read was given to none of the process's events. *)
Fresh ==
  \A p \in Procs : (pc[p] \in {"new", "prune", "choose", "created", "open"} \/ next[p] = Unread) =>
    \A s \in Sessions : \A i \in DOMAIN log[s] : log[s][i].by # p

(* A process's counters are past its own events, and in a session that is not
   shared past all of them. *)
CountedPast ==
  \A p \in Procs : pc[p] \in Writing =>
    \A i \in DOMAIN log[open[p]] :
      LET e == log[open[p]][i] IN
      (e.by = p \/ ~shared[open[p]]) =>
        /\ e.turn <= turn[p] /\ e.ref <= ref[p]
        /\ next[p] # Unread => e.seq <= next[p]

(* A result names an output. *)
ResultsRefer == \A s \in Sessions : \A i \in DOMAIN log[s] : log[s][i].kind = "result" => log[s][i].ref \in Refs

(* The output a call is about to store, or has stored, is its own. *)
OutputNext ==
  \A p \in Procs : (pc[p] \in {"called", "saved", "unsaved"}) =>
    /\ ref[p] \in Refs
    /\ ~shared[open[p]] =>
         /\ pc[p] = "called" => \A i \in DOMAIN log[open[p]] :
              log[open[p]][i].kind = "result" => log[open[p]][i].ref # ref[p]
         /\ pc[p] = "saved" => outs[open[p]][ref[p]] \in {p, None}

Has(evs, kind, t) == \E i \in DOMAIN evs : evs[i].kind = kind /\ evs[i].turn = t

Answered(evs) == \E t \in 1..MaxSeq : Has(evs, "user", t) /\ Has(evs, "answer", t)

Ran(r) == r \in Records /\ r.turns = 1

(* No events without a directory. *)
NoLogYet == \A s \in Sessions : ~dir[s] => log[s] = <<>>

(* The record on disk says that a run was made. *)
RecordRan == \A s \in Sessions : (~shared[s] /\ ~behind[s] /\ Answered(log[s])) => Ran(index[s])

(* So does the one in the process's memory, from the first run of a turn on. *)
Worked == {"ran", "called", "saved", "unsaved"}

OwnRan(p) ==
  LET s == open[p] IN
  /\ pc[p] = "created" => log[s] = <<>>
  /\ (pc[p] = "open" /\ ~behind[s] /\ Answered(log[s])) => Ran(rec[p])
  /\ pc[p] \in {"rename"} \cup Worked => Ran(rec[p])
  /\ (pc[p] = "rename" /\ tmp[s] # None) => tmp[s] = rec[p]
  /\ (pc[p] = "rename" /\ tmp[s] = None) => ~Has(log[s], "user", turn[p])
  /\ (pc[p] \in Worked /\ ~behind[s] /\ Has(log[s], "user", turn[p])) => Ran(index[s])

(* An answered turn is in the record, and was in the one each process opened. *)
Recorded == /\ NoLogYet /\ RecordRan
            /\ \A p \in Procs : (pc[p] \in Opened /\ ~shared[open[p]]) => OwnRan(p)
=============================================================================
