------------------------------ MODULE Settings ------------------------------
(***************************************************************************)
(* The configuration: setup writes the config file and the secrets store   *)
(* (internal/setup, config/secrets.go), a start of the program resolves    *)
(* every setting through its layers (config.Load), and the running program *)
(* switches some of them (app/runtime.go).  Any process may die between    *)
(* two steps, setups and starts may overlap, the operator edits the config *)
(* file and may carry the home directory to another machine.               *)
(*                                                                         *)
(* Left out: settings resolved like those here, file modes, the uid (part  *)
(* of the machine), the .bashrc line (an environment is any).              *)
(***************************************************************************)
EXTENDS Quote

CONSTANTS Procs,
          None, Torn, Unset,  \* no file; a file half written; a key not set
          Machines, NoId,     \* machine ids; a machine that has none
          URLs, Secrets,      \* what an operator types at setup: values
          Examples,           \* placeholders, as an example file has them
          Worlds,             \* what it starts from: a config file, a plain secrets file the
                              \* operator wrote and what it says, an environment, a machine
          MaxSetups,          \* bound: setups
          MaxEdits            \* bound: edits, moves and switches

ASSUME SettingsAssumption == MaxSetups \in Nat /\ MaxEdits \in Nat

VARIABLES
  \* on disk
  config,  \* the assignments of the config file, or None
  keyseed, \* the seed of one setup, Torn or None
  enc,     \* secrets.enc: Torn, None, or what it was sealed with and holds
  plain,   \* secrets: the written text of each assignment, or None
  machine, env,
  yolo,    \* the operator starts it with --yolo
  setups, edits,
  \* by process
  pc,
  typed,   \* setup: what the operator typed, and how it is to be kept
  saw,     \* the config as read: by setup, by a start
  blob,    \* a start: secrets.enc as read
  cfg, src,\* the settings in effect, and the layer each came from
  mode,    \* the approver's
  start,   \* both as the program started: what its switches reset to
  \* history variables
  given,   \* what the operator last set in the config file
  crossed, \* he set it while a setup was between reading and writing the file
  mixed,   \* setups wrote the store at the same time
  good,    \* what the last setup stored, once finished with no other writing
  sure,    \* by process: good, all through its start
  switched \* by process: what was switched in the session that is open

disk    == <<config, keyseed, enc, plain>>
world   == <<machine, env, yolo, setups, edits>>
own     == <<pc, typed, saw, blob>>
app     == <<cfg, src, mode, start>>
history == <<given, crossed, mixed, good, sure, switched>>
vars    == <<disk, world, own, app, history>>

Creds   == {"url", "key"}
Runtime == {"approve", "debug"}
Keys    == Creds \cup Runtime
Default == [url |-> <<>>, key |-> <<>>, approve |-> "ask", debug |-> "0"]

Writing == {"ensure", "seed", "seeding", "seal", "sealing", "plain", "plaining"}
Store   == Writing \ {"ensure"}
Loading == {"load", "store", "open"}

LooksUnset(v) ==
  \/ v = <<>>
  \/ \E i \in DOMAIN v : v[i] = "REPLACE"
  \/ v[1] = "<" /\ v[Len(v)] = ">"

Init ==
  /\ \E w \in Worlds : /\ config = w.config /\ plain = w.plain /\ good = w.says
                      /\ env = w.env /\ machine = w.machine /\ yolo = w.yolo
  /\ keyseed = None /\ enc = None /\ setups = 0 /\ edits = 0
  /\ pc = [p \in Procs |-> "off"]
  /\ typed = [p \in Procs |-> None] /\ saw = [p \in Procs |-> None]
  /\ blob = [p \in Procs |-> None]
  /\ cfg = [p \in Procs |-> Default] /\ src = [p \in Procs |-> [k \in Keys |-> "default"]]
  /\ mode = [p \in Procs |-> "ask"]
  /\ start = [p \in Procs |-> [cfg |-> Default, src |-> [k \in Keys |-> "default"]]]
  /\ given = [k \in Keys |-> IF config = None THEN Unset ELSE config[k]]
  /\ crossed = {} /\ mixed = FALSE /\ sure = [p \in Procs |-> None]
  /\ switched = [p \in Procs |-> {}]

Go(p, to) == pc' = [pc EXCEPT ![p] = to]

-----------------------------------------------------------------------------
(* setup: the operator types both (or nothing is written), and EnsureConfig
   reads the config. *)
Setup(p, u, k, how) ==
  /\ pc[p] \in {"off", "running"} /\ setups < MaxSetups
  /\ u # <<>> /\ k # <<>>
  /\ setups' = setups + 1
  /\ typed' = [typed EXCEPT ![p] = [url |-> u, key |-> k, how |-> how,
                                    seed |-> setups + 1, from |-> pc[p]]]
  /\ saw' = [saw EXCEPT ![p] = config]
  /\ Go(p, "ensure")
  /\ UNCHANGED <<disk, machine, env, edits, yolo, blob, app, history>>

DefaultKeys == Runtime
SetsNothing(c) == \A k \in Keys : c[k] = Unset
Fresh == [k \in Keys |-> IF k \in DefaultKeys THEN Default[k] ELSE Unset]

\* mutant of Lacks: every default is appended
Lacks_All(c, k) == k \in DefaultKeys

Lacks(c, k) == k \in DefaultKeys /\ c[k] = Unset

(* EnsureConfig writes by what it read: a fresh file, never over an existing
   one; a fresh file over one that set nothing; the missing keys appended,
   where the last assignment of a key wins. *)
EnsureConfig(p) ==
  /\ pc[p] = "ensure"
  /\ IF saw[p] = None /\ config # None
     THEN Go(p, typed[p].from) /\ UNCHANGED <<config, mixed, good, sure>>
     ELSE /\ config' = IF saw[p] = None \/ SetsNothing(saw[p]) THEN Fresh
                       ELSE [k \in Keys |-> IF Lacks(saw[p], k) THEN Default[k] ELSE config[k]]
          /\ Go(p, IF typed[p].how = "plain" THEN "plain" ELSE "seed")
          /\ mixed' = \E q \in Procs \ {p} : pc[q] \in Store
          /\ good' = None
          /\ sure' = [q \in Procs |-> None]
  /\ UNCHANGED <<keyseed, enc, plain, world, typed, saw, blob, app, given, crossed, switched>>

(* A file is emptied, then written. *)
KeySeed(p) ==
  /\ \/ pc[p] = "seed" /\ keyseed' = Torn /\ Go(p, "seeding")
     \/ pc[p] = "seeding" /\ keyseed' = typed[p].seed /\ Go(p, "seal")
  /\ UNCHANGED <<config, enc, plain, world, typed, saw, blob, app, history>>

(* The store is whole again only if this setup wrote it alone. *)
Stored(p) ==
  /\ good' = IF mixed THEN None ELSE [url |-> typed[p].url, key |-> typed[p].key]
  /\ sure' = [q \in Procs |-> IF q = p THEN good' ELSE None]

(* setup runs a check then; /setup builds the app again.  Both load. *)
Finish(p) == Go(p, "load") /\ typed' = [typed EXCEPT ![p] = None]

Sealed(t) == [seed |-> t.seed, machine |-> machine, url |-> t.url, key |-> t.key]

SecretsEnc(p) ==
  /\ \/ /\ pc[p] = "seal" /\ enc' = Torn /\ Go(p, "sealing")
        /\ UNCHANGED <<typed, good, sure>>
     \/ /\ pc[p] = "sealing" /\ enc' = Sealed(typed[p])
        /\ Finish(p)
        /\ Stored(p)
  /\ UNCHANGED <<config, keyseed, plain, world, saw, blob, app, given, crossed, mixed, switched>>

(* --plaintext: what is kept is no secrets.enc, which a load prefers. *)
SecretsPlain(p) ==
  /\ \/ /\ pc[p] = "plain" /\ plain' = [k \in Creds |-> None] /\ Go(p, "plaining")
        /\ UNCHANGED <<typed, good, sure>>
     \/ /\ pc[p] = "plaining"
        /\ plain' = [url |-> Quoted(typed[p].url), key |-> Quoted(typed[p].key)]
        /\ Finish(p)
        /\ IF enc = None THEN Stored(p) ELSE UNCHANGED <<good, sure>>
  /\ UNCHANGED <<config, keyseed, enc, world, saw, blob, app, given, crossed, mixed, switched>>

-----------------------------------------------------------------------------
(* A start of the program: config.Load.  Each layer is laid over the weaker
   ones; a placeholder for a credential counts as unset in each. *)
Start(p) ==
  /\ pc[p] = "off"
  /\ Go(p, "load")
  /\ sure' = [sure EXCEPT ![p] = good]
  /\ UNCHANGED <<disk, world, typed, saw, blob, app, given, crossed, mixed, good, switched>>

Layer(values, name) ==
  [k \in Keys |-> IF values[k] = Unset \/ (k \in Creds /\ LooksUnset(values[k])) THEN Unset
                  ELSE [val |-> values[k], from |-> name]]

Over(low, high) == [k \in Keys |-> IF high[k] = Unset THEN low[k] ELSE high[k]]

Nothing  == [k \in Keys |-> Unset]
Flags == [Nothing EXCEPT !.approve = IF yolo THEN "auto" ELSE Unset]

Layered(p) ==
  LET file == Layer(IF config = None THEN Nothing ELSE config, "config")
  IN Over(Over(file, Layer(env, "env")), Layer(Flags, "flag"))

\* mutant of NeedsStore: asked only while both are missing
NeedsStore_Both(c) == \A k \in Creds : c[k] = <<>>

NeedsStore(c) == \E k \in Creds : c[k] = <<>>

(* The settings are complete: New builds the app with them. *)
Begin(p, c, s) ==
  /\ cfg' = [cfg EXCEPT ![p] = c] /\ src' = [src EXCEPT ![p] = s]
  /\ mode' = [mode EXCEPT ![p] = c.approve]
  /\ start' = [start EXCEPT ![p] = [cfg |-> c, src |-> s]]
  /\ switched' = [switched EXCEPT ![p] = {}]
  /\ Go(p, "running")

Load(p) ==
  LET m == Layered(p)
      c == [k \in Keys |-> IF m[k] = Unset THEN Default[k] ELSE m[k].val]
      s == [k \in Keys |-> IF m[k] = Unset THEN "default" ELSE m[k].from]
  IN /\ pc[p] = "load"
     /\ saw' = [saw EXCEPT ![p] = config]
     /\ IF NeedsStore(c)
        THEN /\ cfg' = [cfg EXCEPT ![p] = c] /\ src' = [src EXCEPT ![p] = s]
             /\ Go(p, "store")
             /\ UNCHANGED <<mode, start, switched>>
        ELSE Begin(p, c, s)
     /\ UNCHANGED <<disk, world, typed, blob, given, crossed, mixed, good, sure>>

(* The value of a credential that a store brought in. *)
From(p, c, name) == [k \in Keys |-> IF c[k] # cfg[p][k] THEN name ELSE src[p][k]]

(* Without a secrets.enc the plain file's assignments apply, over what the
   layers set. *)
Plain(p) ==
  LET read(k) == IF plain = None \/ plain[k] = None THEN Failed ELSE ParseValue(plain[k])
  IN [k \in Keys |-> IF k \in Creds /\ read(k) # Failed THEN read(k) ELSE cfg[p][k]]

ReadStore(p) ==
  /\ pc[p] = "store"
  /\ IF enc = None
     THEN Begin(p, Plain(p), From(p, Plain(p), "secrets")) /\ UNCHANGED blob
     ELSE /\ blob' = [blob EXCEPT ![p] = enc]
          /\ Go(p, "open")
          /\ UNCHANGED <<app, switched>>
  /\ UNCHANGED <<disk, world, typed, saw, given, crossed, mixed, good, sure>>

Opens(b, seed) == b # Torn /\ seed = b.seed /\ b.machine \in {NoId, machine}

Filled(p, b) == [k \in Keys |-> IF k \in Creds /\ cfg[p][k] = <<>> THEN b[k] ELSE cfg[p][k]]

(* One that does not open ends the program: it never falls through. *)
OpenStore(p) ==
  /\ pc[p] = "open"
  /\ IF Opens(blob[p], keyseed)
     THEN LET c == Filled(p, blob[p]) IN Begin(p, c, From(p, c, "secrets.enc"))
     ELSE Go(p, "failed") /\ UNCHANGED <<app, switched>>
  /\ blob' = [blob EXCEPT ![p] = None]
  /\ UNCHANGED <<disk, world, typed, saw, given, crossed, mixed, good, sure>>

-----------------------------------------------------------------------------
(* The running program's switches. *)
SwitchedSrc(p, k, v) == IF v = start[p].cfg[k] THEN start[p].src[k] ELSE "runtime"

Switch(p, k, v) ==
  /\ edits < MaxEdits /\ edits' = edits + 1
  /\ cfg' = [cfg EXCEPT ![p][k] = v]
  /\ src' = [src EXCEPT ![p][k] = SwitchedSrc(p, k, v)]
  /\ switched' = [switched EXCEPT ![p] = @ \cup {k}]

SetApprovals(p, m) ==
  /\ pc[p] = "running" /\ Switch(p, "approve", m)
  /\ mode' = [mode EXCEPT ![p] = m]
  /\ UNCHANGED <<disk, machine, env, yolo, setups, own, start, given, crossed, mixed, good, sure>>

NoteDebug(p, v) ==
  /\ pc[p] = "running" /\ Switch(p, "debug", v)
  /\ UNCHANGED <<disk, machine, env, yolo, setups, own, mode, start, given, crossed, mixed, good, sure>>

\* mutant of Reset: only the approvals
Reset_Approvals(p, f, now) == [now EXCEPT !.approve = f.approve]

Reset(p, f, now) == [now EXCEPT !.approve = f.approve, !.debug = f.debug]

(* A session opened, in the REPL or by an rpc request, starts from the
   configured values. *)
OpenSession(p) ==
  /\ pc[p] = "running" /\ switched[p] # {}
  /\ cfg' = [cfg EXCEPT ![p] = Reset(p, start[p].cfg, @)]
  /\ src' = [src EXCEPT ![p] = Reset(p, start[p].src, @)]
  /\ mode' = [mode EXCEPT ![p] = start[p].cfg.approve]
  /\ switched' = [switched EXCEPT ![p] = {}]
  /\ UNCHANGED <<disk, world, own, start, given, crossed, mixed, good, sure>>

-----------------------------------------------------------------------------
(* Outside: the operator's editor, another machine, a death. *)
Edit(k, v) ==
  /\ edits < MaxEdits /\ config # None
  /\ edits' = edits + 1
  /\ config' = [config EXCEPT ![k] = v]
  /\ given' = [given EXCEPT ![k] = v]
  /\ crossed' = IF \E p \in Procs : pc[p] = "ensure" THEN crossed \cup {k} ELSE crossed
  /\ UNCHANGED <<keyseed, enc, plain, machine, env, yolo, setups, own, app, mixed, good, sure, switched>>

Move(m) ==
  /\ edits < MaxEdits /\ m # machine /\ \A p \in Procs : pc[p] \in {"off", "failed"}
  /\ edits' = edits + 1 /\ machine' = m
  /\ good' = None
  /\ UNCHANGED <<disk, env, yolo, setups, own, app, given, crossed, mixed, sure, switched>>

Die(p) ==
  /\ pc[p] \in Writing
  /\ Go(p, "failed")
  /\ typed' = [typed EXCEPT ![p] = None] /\ saw' = [saw EXCEPT ![p] = None]
  /\ sure' = [sure EXCEPT ![p] = None]
  /\ UNCHANGED <<disk, world, blob, app, given, crossed, mixed, good, switched>>

Next ==
  \/ \E p \in Procs : \/ \E u \in URLs, k \in Secrets, how \in {"enc", "plain"} : Setup(p, u, k, how)
                      \/ EnsureConfig(p) \/ KeySeed(p) \/ SecretsEnc(p) \/ SecretsPlain(p)
                      \/ Start(p)
                      \/ Load(p) \/ ReadStore(p) \/ OpenStore(p)
                      \/ \E m \in {"ask", "auto"} : SetApprovals(p, m)
                      \/ \E v \in {"0", "1"} : NoteDebug(p, v)
                      \/ OpenSession(p) \/ Die(p)
  \/ \E v \in {"never", "auto"} : Edit("approve", v)
  \/ \E v \in URLs \ {<<>>} : Edit("url", v)
  \/ \E m \in Machines \cup {NoId} : Move(m)

Spec == Init /\ [][Next]_vars

-----------------------------------------------------------------------------
(* The numbers of a window (CompactAtFor): the share of it, in percent, a
   request may reach before it is compacted here. *)
MinAgentWindow == 64000
LargeWindow    == 512000
DefaultCompactAt == 69

Larger(a, b)  == IF a > b THEN a ELSE b
Smaller(a, b) == IF a < b THEN a ELSE b

AgentCompactsAt(w) ==
  CASE w < MinAgentWindow -> 0
    [] w >= LargeWindow   -> w \div 2
    [] OTHER -> LET t == (w * 75) \div 100
                IN IF t < MinAgentWindow THEN Smaller(MinAgentWindow, (w * 85) \div 100) ELSE t

Margin(w) == IF w >= LargeWindow THEN 3 ELSE 6

CompactAtFor(w) ==
  IF AgentCompactsAt(w) = 0 THEN DefaultCompactAt
  ELSE (AgentCompactsAt(w) * 100 + w \div 2) \div w - Margin(w)

-----------------------------------------------------------------------------
(* Types: what is read is what was written. *)
Values  == [url: URLs \cup Examples \cup {Unset}, key: Secrets \cup Examples \cup {Unset},
            approve: {"ask", "auto", "never", Unset}, debug: {"0", "1", Unset}]
Effect  == [url: URLs \cup {<<>>}, key: Secrets \cup {<<>>},
            approve: {"ask", "auto", "never"}, debug: {"0", "1"}]

(* The files and the environments there are, and what tells them apart. *)
ASSUME WorldsAssumption ==
  /\ None \notin Values /\ Unset # "auto"
  /\ \A w \in Worlds : w.config \in Values \cup {None} /\ w.env \in Values /\ w.yolo \in BOOLEAN
  /\ Unset \notin [val: URLs \cup Examples, from: {"config", "env", "flag"}]
  /\ Unset \notin [val: Secrets \cup Examples, from: {"config", "env", "flag"}]
  /\ Unset \notin [val: {"ask", "auto", "never", "0", "1"}, from: {"config", "env", "flag"}]

Layers  == {"default", "config", "env", "flag", "secrets.enc", "secrets", "runtime"}
Stages  == Writing \cup Loading \cup {"off", "running", "failed"}
Typed   == [url: URLs, key: Secrets, how: {"enc", "plain"}, seed: 1..MaxSetups,
            from: {"off", "running"}]
Blobs   == [seed: 1..MaxSetups, machine: Machines \cup {NoId}, url: URLs, key: Secrets]

(* What setup writes: values are sequences, and a file is none of the marks that
   stand for what is not one.  A plain file the operator wrote says what he says
   it does.                                                                  *)
WrittenTexts == {Quoted(v) : v \in (URLs \cup Secrets) \ {<<>>}}

ASSUME SecretsAssumption ==
  /\ \A v \in URLs \cup Secrets : v \in Seq(Range(v)) /\ v # Failed
  /\ None \notin WrittenTexts \cup [url: WrittenTexts, key: WrittenTexts] \cup Blobs /\ Torn \notin Blobs
  /\ \A w \in Worlds :
       /\ w.machine \in Machines \cup {NoId}
       /\ w.says # None => /\ w.plain # None
                          /\ \A k \in Creds : /\ w.plain[k] # None /\ w.says[k] # Failed
                                              /\ ParseValue(w.plain[k]) = w.says[k]

TypeOK ==
  /\ config \in Values \cup {None} /\ keyseed \in 1..MaxSetups \cup {None, Torn}
  /\ enc \in Blobs \cup {None, Torn}
  /\ machine \in Machines \cup {NoId} /\ setups \in 0..MaxSetups /\ edits \in 0..MaxEdits
  /\ pc \in [Procs -> Stages] /\ typed \in [Procs -> Typed \cup {None}]
  /\ saw \in [Procs -> Values \cup {None}] /\ blob \in [Procs -> Blobs \cup {None, Torn}]
  /\ cfg \in [Procs -> Effect] /\ src \in [Procs -> [Keys -> Layers]]
  /\ mode \in [Procs -> {"ask", "auto", "never"}]
  /\ switched \in [Procs -> SUBSET Runtime]

(* What the layers above the store say of a key, strongest first. *)
Strongest(p, k) ==
  LET file == IF saw[p] = None THEN Unset ELSE saw[p][k]
      usable(v) == v # Unset /\ (k \in Creds => ~LooksUnset(v))
  IN CASE k = "approve" /\ yolo -> <<"auto", "flag">>
       [] OTHER -> IF usable(env[k]) THEN <<env[k], "env">>
                   ELSE IF usable(file) THEN <<file, "config">> ELSE <<Default[k], "default">>

(* Setup is no dead end: whatever earlier setups and deaths left behind, a
   start after one that finished undisturbed - in secrets.enc, or in the plain
   file while there is no secrets.enc - does not fail, and has each credential
   as it was typed, whatever needs quoting in it, or from a stronger layer, and
   never the marker of an example in place of one (config.go:163-186,
   secrets.go:169, setup.go:129, parse.go:49).  So does one with a plain file
   the operator wrote, until a setup (config.go:258). *)
SetupTakesEffect ==
  \A p \in Procs : sure[p] # None =>
    /\ pc[p] # "failed"
    /\ pc[p] = "running" => \A k \in Creds :
         \/ cfg[p][k] = sure[p][k]
         \/ Strongest(p, k)[2] # "default" /\ cfg[p][k] = Strongest(p, k)[1]

(* Setup never changes a value the operator set, but one set while it was
   between reading the file and writing it (configfile.go:60). *)
OperatorKept ==
  \A k \in Keys \ crossed : given[k] # Unset => config[k] = given[k]

(* In a running program each setting is the strongest layer's and is shown as
   such; what differs from it was switched in the session that is open and is
   shown as runtime; the approver asks by the setting that is shown; and only a
   credential no layer above sets comes from secrets.enc (config.go:90-100,
   runtime.go:33-73). *)
InEffect ==
  \A p \in Procs : pc[p] = "running" =>
    /\ mode[p] = cfg[p].approve
    /\ \A k \in Runtime \ switched[p] : <<cfg[p][k], src[p][k]>> = Strongest(p, k)
    /\ \A k \in Runtime : src[p][k] = "runtime" <=> cfg[p][k] # Strongest(p, k)[1]
    /\ \A k \in Creds : \/ <<cfg[p][k], src[p][k]>> = Strongest(p, k)
                        \/ src[p][k] = "secrets.enc" /\ Strongest(p, k)[2] = "default"
                        \/ src[p][k] = "secrets"

(* Of the credentials: "environment variables always win" (README.md:597). *)
EnvironmentWins ==
  \A p \in Procs, k \in Creds :
    pc[p] = "running" /\ env[k] # Unset /\ ~LooksUnset(env[k]) => cfg[p][k] = env[k]

(* A request that has not reached the automatic share of a window hermes-agent
   takes is below where hermes-agent compacts on its own, so that the lossless
   compaction comes first (config.go:31). *)
LosslessFirst(w) ==
  /\ CompactAtFor(w) * w < 100 * AgentCompactsAt(w)
  /\ CompactAtFor(w) \in 1..95

-----------------------------------------------------------------------------
(* The inductive invariants behind the theorems of AppProofs. *)

Shaped ==
  /\ config \in Values \cup {None} /\ env \in Values /\ yolo \in BOOLEAN /\ DOMAIN given = Keys
  /\ pc \in [Procs -> Stages] /\ saw \in [Procs -> Values \cup {None}]
  /\ DOMAIN typed = Procs /\ DOMAIN mode = Procs /\ DOMAIN start = Procs /\ DOMAIN switched = Procs
  /\ DOMAIN cfg = Procs /\ DOMAIN src = Procs
  /\ \A p \in Procs : DOMAIN cfg[p] = Keys /\ DOMAIN src[p] = Keys
  /\ \A p \in Procs : pc[p] = "ensure" => typed[p].from \in {"off", "running"}

(* What the operator set is in the file, and in what a setup has read of it. *)
SetIn(file) == \A k \in Keys \ crossed : given[k] # Unset => file # None /\ file[k] = given[k]

FileKept == SetIn(config) /\ \A p \in Procs : pc[p] = "ensure" => SetIn(saw[p])

(* A file once there stays. *)
FileStays == \A p \in Procs : saw[p] # None => config # None

(* A program that runs - its /setup perhaps about to find that another process
   wrote the file it had not found.                                         *)
Runs(p) == pc[p] = "running" \/ (pc[p] = "ensure" /\ saw[p] = None /\ typed[p].from = "running")

Configured(p) ==
  /\ mode[p] = cfg[p]["approve"]
  /\ \A k \in Runtime : /\ <<start[p].cfg[k], start[p].src[k]>> = Strongest(p, k)
                        /\ k \notin switched[p] => cfg[p][k] = start[p].cfg[k]
                        /\ src[p][k] = SwitchedSrc(p, k, cfg[p][k])
  /\ \A k \in Creds : \/ <<cfg[p][k], src[p][k]>> = Strongest(p, k)
                      \/ src[p][k] = "secrets.enc" /\ Strongest(p, k)[2] = "default"
                      \/ src[p][k] = "secrets"

Fits(p) ==
  /\ Runs(p) => Configured(p)
  /\ pc[p] \in {"store", "open"} => \A k \in Keys : <<cfg[p][k], src[p][k]>> = Strongest(p, k)

ByLayers == \A p \in Procs : Fits(p)

(* Setups at work.  While none crossed another, one at most writes the store, and
   the seed on disk is its own.                                             *)
Typing ==
  /\ setups \in Nat /\ machine \in Machines \cup {NoId} /\ DOMAIN sure = Procs /\ DOMAIN blob = Procs
  /\ \A p \in Procs : pc[p] \in Writing => typed[p] \in Typed /\ typed[p].url # <<>> /\ typed[p].key # <<>>

Alone ==
  ~mixed => \A p \in Procs : pc[p] \in Store =>
              /\ \A q \in Procs \ {p} : pc[q] \notin Store
              /\ pc[p] \in {"seal", "sealing"} => keyseed = typed[p].seed

(* What was stored undisturbed can be had: the store that a load would take
   says it.                                                                 *)
Had(k) ==
  IF enc = None THEN plain # None /\ plain[k] # None /\ ParseValue(plain[k]) = good[k] /\ good[k] # Failed
  ELSE enc # Torn /\ Opens(enc, keyseed) /\ enc[k] = good[k]

StoreStands == good # None => (\A p \in Procs : pc[p] \notin Store) /\ \A k \in Creds : Had(k)

Took(p, k) ==
  \/ cfg[p][k] = sure[p][k]
  \/ Strongest(p, k)[2] # "default" /\ cfg[p][k] = Strongest(p, k)[1]

(* A start that is sure of it is on its way to it, or has it. *)
OnItsWay(p) ==
  sure[p] # None =>
    /\ sure[p] = good
    /\ pc[p] \in Loading \cup {"running", "ensure"}
    /\ pc[p] = "ensure" => typed[p].from = "running"
    /\ pc[p] = "open" => enc # None /\ blob[p] = enc
    /\ Runs(p) => \A k \in Creds : Took(p, k)

Effective == Typing /\ Alone /\ StoreStands /\ \A p \in Procs : OnItsWay(p)

IInv == Shaped /\ FileKept /\ FileStays /\ ByLayers
=============================================================================
