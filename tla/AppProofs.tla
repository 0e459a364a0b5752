----------------------------- MODULE AppProofs -----------------------------
(***************************************************************************)
(* Theorems of the program around the loop.  Of Settings, for any number   *)
(* of setups, starts and edits, any files and environments - and of the    *)
(* numbers of every window.  Of Repl, for any number of pieces, questions  *)
(* and sessions, and any room in the channel: the two share no name.  Of   *)
(* Quote, that every value written into a shell file is read back, but the *)
(* empty one, which is never written.                                      *)
(***************************************************************************)
EXTENDS Settings, Repl, SequenceTheorems, FiniteSetTheorems, WellFoundedInduction, TLAPS

-----------------------------------------------------------------------------
(* Windows. *)

LEMMA Division ==
  ASSUME NEW x \in Nat, NEW w \in Nat \ {0}
  PROVE  x \div w \in Nat /\ (x \div w) * w <= x /\ x < (x \div w) * w + w
OBVIOUS

(* The threshold of hermes-agent, between its shares of the window. *)
LEMMA Threshold ==
  ASSUME NEW w \in Nat, w >= MinAgentWindow
  PROVE  /\ AgentCompactsAt(w) \in Nat
         /\ w < LargeWindow => 100 * AgentCompactsAt(w) >= 74 * w /\ 100 * AgentCompactsAt(w) <= 100 * w
         /\ w >= LargeWindow => 2 * AgentCompactsAt(w) >= w - 1 /\ 2 * AgentCompactsAt(w) <= w
BY DEF AgentCompactsAt, MinAgentWindow, LargeWindow, Smaller

LEMMA Scaled ==
  ASSUME NEW a \in Int, NEW b \in Int, NEW w \in Nat, a <= b
  PROVE  a * w <= b * w
OBVIOUS

(* Before the share of the window CompactAtFor names is reached, a request is
   below what hermes-agent compacts at, for every window it takes
   (config.go:28, CompactAtFor).                                            *)
THEOREM LosslessComesFirst == \A w \in Nat : w >= MinAgentWindow => LosslessFirst(w)
<1> SUFFICES ASSUME NEW w \in Nat, w >= MinAgentWindow PROVE LosslessFirst(w)
  OBVIOUS
<1> DEFINE limit == AgentCompactsAt(w)
           x     == limit * 100 + w \div 2
           share == x \div w
           m     == Margin(w)
<1>1. w \in Nat \ {0} /\ limit \in Nat /\ w \div 2 \in Nat /\ 2 * (w \div 2) <= w
  BY Threshold DEF MinAgentWindow
<1>2. \/ m = 6 /\ 100 * limit >= 74 * w /\ 100 * limit <= 100 * w
      \/ m = 3 /\ 2 * limit >= w - 1 /\ 2 * limit <= w
  BY Threshold DEF Margin, LargeWindow
<1>3. w >= 64000
  BY DEF MinAgentWindow
<1>4. CompactAtFor(w) = share - m
  <2>1. limit # 0
    BY <1>1, <1>2, <1>3
  <2>2. QED
    BY <2>1 DEF CompactAtFor
<1> HIDE DEF limit, m
<1>5. x \in Nat /\ share \in Nat /\ share * w <= x /\ x < share * w + w
  <2>1. x \in Nat
    BY <1>1
  <2>2. QED
    BY <1>1, <2>1, Division
<1> DEFINE half == w \div 2
<1>6. half \in Nat /\ 2 * half <= w /\ x = limit * 100 + half
  BY <1>1
<1> HIDE DEF x, share, half
<1>7. (share - m) * w < 100 * limit
  <2>1. (share - m) * w = share * w - m * w
    BY <1>1, <1>2, <1>5
  <2>2. m * w >= 3 * w
    BY <1>1, <1>2
  <2>3. PICK y \in Int, z \in Int : y = share * w /\ z = m * w
    BY <1>1, <1>2, <1>5
  <2>4. (share - m) * w = y - z /\ z >= 3 * w /\ y <= limit * 100 + half
    BY <1>5, <1>6, <2>1, <2>2, <2>3
  <2>5. y - z < 100 * limit
    <3>1. 2 * half <= w /\ w \in Nat /\ w > 0 /\ half \in Nat /\ limit \in Nat
      BY <1>1, <1>6
    <3>2. QED
      BY <2>3, <2>4, <3>1
  <2>6. QED
    BY <2>4, <2>5
<1>8. share - m >= 1
  <2>1. SUFFICES ASSUME share <= m PROVE FALSE
    BY <1>2, <1>5
  <2>2. share * w <= m * w
    BY <1>1, <1>2, <1>5, <2>1, Scaled
  <2>3. PICK y \in Int : y = share * w
    BY <1>1, <1>5
  <2>4. QED
    BY <1>1, <1>2, <1>3, <1>5, <1>6, <2>2, <2>3
<1>9. share - m <= 95
  <2>1. CASE m = 6
    <3>1. SUFFICES ASSUME share >= 102 PROVE FALSE
      BY <1>5, <2>1
    <3>2. 102 * w <= share * w
      BY <1>1, <1>5, <3>1, Scaled
    <3>3. QED
      BY <1>1, <1>2, <1>3, <1>5, <1>6, <2>1, <3>2
  <2>2. CASE m = 3
    <3>1. SUFFICES ASSUME share >= 99 PROVE FALSE
      BY <1>5, <2>2
    <3>2. 99 * w <= share * w
      BY <1>1, <1>5, <3>1, Scaled
    <3>3. QED
      BY <1>1, <1>2, <1>3, <1>5, <1>6, <2>2, <3>2
  <2>3. QED
    BY <1>2, <2>1, <2>2
<1>10. QED
  BY <1>2, <1>4, <1>5, <1>7, <1>8, <1>9 DEF LosslessFirst, limit

-----------------------------------------------------------------------------
(* Assignments. *)

LEMMA KeysAre == /\ Keys = {"url", "key", "approve", "debug"} /\ Creds = {"url", "key"}
                 /\ Runtime = {"approve", "debug"} /\ DOMAIN Default = Keys
BY DEF Keys, Creds, Runtime, Default

LEMMA FreshIsSome == Fresh \in Values /\ Fresh # None
<1>1. Fresh \in Values
  BY DEF Fresh, Values, Keys, Creds, Runtime, DefaultKeys, Default
<1>2. QED
  BY <1>1, WorldsAssumption

LEMMA FilledIsSome ==
  ASSUME NEW c \in Values, NEW P \in SUBSET Keys
  PROVE  LET d == [k \in Keys |-> IF k \in P /\ k \in DefaultKeys THEN Default[k] ELSE c[k]]
         IN d \in Values /\ d # None
<1> DEFINE d == [k \in Keys |-> IF k \in P /\ k \in DefaultKeys THEN Default[k] ELSE c[k]]
<1>1. d \in Values
  BY DEF Values, Keys, Creds, Runtime, DefaultKeys, Default
<1>2. QED
  BY <1>1, WorldsAssumption

LEMMA EditIsSome ==
  ASSUME NEW c \in Values, NEW k \in Keys, NEW v,
         \/ k = "approve" /\ v \in {"never", "auto"}
         \/ k = "url" /\ v \in URLs
  PROVE  LET d == [c EXCEPT ![k] = v]
         IN d \in Values /\ d # None /\ d[k] = v /\ \A j \in Keys \ {k} : d[j] = c[j]
<1> DEFINE d == [c EXCEPT ![k] = v]
<1>1. d \in Values
  BY DEF Values
<1>2. d[k] = v /\ \A j \in Keys \ {k} : d[j] = c[j]
  BY DEF Values, Keys, Creds, Runtime
<1>3. QED
  BY <1>1, <1>2, WorldsAssumption

(* What the layers say of a key comes from none of a running program. *)
LEMMA StrongestFrom ==
  ASSUME NEW p, NEW k
  PROVE  /\ Strongest(p, k)[2] \in {"flag", "env", "config", "default"}
         /\ Strongest(p, k) = <<Strongest(p, k)[1], Strongest(p, k)[2]>>
         /\ k \in Creds /\ Strongest(p, k)[1] = <<>> => Strongest(p, k)[2] = "default"
BY DEF Strongest, LooksUnset, Creds

LEMMA StrongestStays ==
  ASSUME NEW p, NEW k, UNCHANGED <<env, yolo>>, saw'[p] = saw[p]
  PROVE  Strongest(p, k)' = Strongest(p, k)
BY DEF Strongest

(* A layer has what is set in it, and is not usable as unset. *)
LEMMA LayerHas ==
  ASSUME NEW values \in Values, NEW name \in {"config", "env", "flag"}, NEW k \in Keys
  PROVE  LET usable == values[k] # Unset /\ (k \in Creds => ~LooksUnset(values[k]))
         IN /\ usable => /\ Layer(values, name)[k] = [val |-> values[k], from |-> name]
                         /\ Layer(values, name)[k] # Unset
            /\ ~usable => Layer(values, name)[k] = Unset
<1> DEFINE usable == values[k] # Unset /\ (k \in Creds => ~LooksUnset(values[k]))
<1>1. Layer(values, name)[k] = IF usable THEN [val |-> values[k], from |-> name] ELSE Unset
  BY DEF Layer
<1>2. ASSUME values[k] # Unset PROVE [val |-> values[k], from |-> name] # Unset
  <2>1. \/ values[k] \in URLs \cup Examples
        \/ values[k] \in Secrets \cup Examples
        \/ values[k] \in {"ask", "auto", "never", "0", "1"}
    BY <1>2, KeysAre DEF Values
  <2>2. \/ [val |-> values[k], from |-> name] \in [val: URLs \cup Examples, from: {"config", "env", "flag"}]
        \/ [val |-> values[k], from |-> name] \in [val: Secrets \cup Examples, from: {"config", "env", "flag"}]
        \/ [val |-> values[k], from |-> name] \in [val: {"ask", "auto", "never", "0", "1"}, from: {"config", "env", "flag"}]
    BY <2>1
  <2>3. QED
    BY <2>2, WorldsAssumption
<1>3. QED
  BY <1>1, <1>2

LEMMA NothingIs == Nothing \in Values /\ \A k \in Keys : Nothing[k] = Unset
BY DEF Nothing, Values, Keys, Creds, Runtime

(* The layers Load lays over each other. *)
LEMMA LoadIsStrongest ==
  ASSUME Shaped, NEW p \in Procs, NEW k \in Keys, saw'[p] = config, UNCHANGED <<env, yolo>>
  PROVE  LET m == Layered(p)
         IN Strongest(p, k)' = <<IF m[k] = Unset THEN Default[k] ELSE m[k].val,
                                 IF m[k] = Unset THEN "default" ELSE m[k].from>>
<1> DEFINE known == IF config = None THEN Nothing ELSE config
           file  == Layer(known, "config")[k]
           envs  == Layer(env, "env")[k]
           flags == Layer(Flags, "flag")[k]
           usable(v) == v # Unset /\ (k \in Creds => ~LooksUnset(v))
<1>1. Layered(p)[k] = IF flags # Unset THEN flags ELSE IF envs # Unset THEN envs ELSE file
  BY DEF Layered, Over
<1>2. /\ k = "approve" /\ yolo => flags = [val |-> "auto", from |-> "flag"] /\ flags # Unset
      /\ ~(k = "approve" /\ yolo) => flags = Unset
  <2>1. Flags \in Values /\ Flags[k] = IF k = "approve" /\ yolo THEN "auto" ELSE Unset
    BY NothingIs, KeysAre DEF Flags, Nothing, Values
  <2>2. k = "approve" => k \notin Creds
    BY KeysAre
  <2>3. QED
    BY <2>1, <2>2, LayerHas, WorldsAssumption
<1>3. known \in Values /\ env \in Values
  BY NothingIs DEF Shaped
<1>4. /\ usable(env[k]) => envs = [val |-> env[k], from |-> "env"] /\ envs # Unset
      /\ ~usable(env[k]) => envs = Unset
  BY <1>3, LayerHas
<1>5. /\ usable(known[k]) => file = [val |-> known[k], from |-> "config"] /\ file # Unset
      /\ ~usable(known[k]) => file = Unset
  BY <1>3, LayerHas
<1>6. known[k] = IF saw'[p] = None THEN Unset ELSE saw'[p][k]
  BY NothingIs
<1>7. Strongest(p, k)' = IF k = "approve" /\ yolo THEN <<"auto", "flag">>
                         ELSE IF usable(env[k]) THEN <<env[k], "env">>
                         ELSE IF usable(known[k]) THEN <<known[k], "config">> ELSE <<Default[k], "default">>
  BY <1>6 DEF Strongest
<1> HIDE DEF known, file, envs, flags, usable
<1>8. QED
  BY <1>1, <1>2, <1>4, <1>5, <1>7

-----------------------------------------------------------------------------
(* The files. *)

LEMMA Ensured ==
  ASSUME Shaped, FileStays, NEW p \in Procs, EnsureConfig(p)
  PROVE  /\ config' \in Values \cup {None} /\ (config # None => config' # None)
         /\ \/ config' = config
            \/ config' = Fresh /\ (saw[p] = None => config = None) /\ (saw[p] # None => SetsNothing(saw[p]))
            \/ /\ saw[p] # None /\ config # None /\ config' # None
               /\ \A k \in Keys : config'[k] = IF Lacks(saw[p], k) THEN Default[k] ELSE config[k]
<1>1. CASE saw[p] = None /\ config # None
  BY <1>1 DEF EnsureConfig, Shaped
<1>2. CASE ~(saw[p] = None /\ config # None) /\ (saw[p] = None \/ SetsNothing(saw[p]))
  BY <1>2, FreshIsSome DEF EnsureConfig
<1>3. CASE saw[p] # None /\ ~SetsNothing(saw[p])
  <2> DEFINE P == {k \in Keys : saw[p][k] = Unset}
             d == [k \in Keys |-> IF k \in P /\ k \in DefaultKeys THEN Default[k] ELSE config[k]]
  <2>1. config # None /\ config \in Values
    BY <1>3 DEF FileStays, Shaped
  <2>2. config' = [k \in Keys |-> IF Lacks(saw[p], k) THEN Default[k] ELSE config[k]]
    BY <1>3 DEF EnsureConfig
  <2>3. \A k \in Keys : Lacks(saw[p], k) <=> k \in P /\ k \in DefaultKeys
    BY DEF Lacks
  <2>4. config' = d
    BY <2>2, <2>3
  <2>5. d \in Values /\ d # None
    BY <2>1, FilledIsSome
  <2>6. QED
    BY <1>3, <2>1, <2>2, <2>4, <2>5
<1>4. QED
  BY <1>1, <1>2, <1>3

LEMMA Edited ==
  ASSUME Shaped, NEW k \in Keys, NEW v, Edit(k, v),
         \/ k = "approve" /\ v \in {"never", "auto"}
         \/ k = "url" /\ v \in URLs
  PROVE  /\ config' \in Values /\ config' # None /\ config # None /\ config \in Values
         /\ config'[k] = v /\ given'[k] = v
         /\ \A j \in Keys \ {k} : config'[j] = config[j] /\ given'[j] = given[j]
         /\ DOMAIN given' = Keys
<1>1. config # None /\ config \in Values /\ DOMAIN given = Keys
  BY DEF Edit, Shaped
<1>2. config' = [config EXCEPT ![k] = v] /\ given' = [given EXCEPT ![k] = v]
  BY DEF Edit
<1>3. given'[k] = v /\ (\A j \in Keys \ {k} : given'[j] = given[j]) /\ DOMAIN given' = Keys
  BY <1>1, <1>2
<1>4. /\ [config EXCEPT ![k] = v] \in Values /\ [config EXCEPT ![k] = v] # None
      /\ [config EXCEPT ![k] = v][k] = v
      /\ \A j \in Keys \ {k} : [config EXCEPT ![k] = v][j] = config[j]
  BY <1>1, EditIsSome
<1>5. QED
  BY <1>1, <1>2, <1>3, <1>4

LEMMA FileKeptInit == Init => FileKept /\ FileStays
<1> SUFFICES ASSUME Init PROVE FileKept /\ FileStays
  OBVIOUS
<1>1. given = [k \in Keys |-> IF config = None THEN Unset ELSE config[k]] /\ crossed = {}
      /\ (\A p \in Procs : pc[p] = "off" /\ saw[p] = None)
  BY DEF Init
<1>2. QED
  BY <1>1 DEF FileKept, SetIn, FileStays

LEMMA FileStep ==
  ASSUME Shaped, FileKept, FileStays, Next
  PROVE  FileKept' /\ FileStays'
<1>1. ASSUME NEW p \in Procs, NEW u, NEW k, NEW how, Setup(p, u, k, how)
      PROVE  FileKept' /\ FileStays'
  <2>1. /\ UNCHANGED <<config, given, crossed>> /\ saw' = [saw EXCEPT ![p] = config]
        /\ pc' = [pc EXCEPT ![p] = "ensure"]
    BY <1>1 DEF Setup, Go, disk, history
  <2>2. \A q \in Procs : IF q = p THEN saw'[q] = config ELSE saw'[q] = saw[q] /\ pc'[q] = pc[q]
    BY <2>1 DEF Shaped
  <2>3. QED
    BY <2>1, <2>2 DEF FileKept, SetIn, FileStays
<1>2. ASSUME NEW p \in Procs, EnsureConfig(p)
      PROVE  FileKept' /\ FileStays'
  <2>1. /\ UNCHANGED <<given, crossed, saw>> /\ pc[p] = "ensure"
        /\ \A q \in Procs : pc'[q] = "ensure" => pc[q] = "ensure"
    BY <1>2 DEF EnsureConfig, Go, Shaped
  <2>2. SetIn(saw[p]) /\ SetIn(config)
    BY <2>1 DEF FileKept
  <2>3. SetIn(config)'
    <3>1. CASE config' = config
      BY <2>1, <2>2, <3>1 DEF SetIn
    <3>2. CASE /\ config' = Fresh /\ (saw[p] = None => config = None)
               /\ (saw[p] # None => SetsNothing(saw[p]))
      <4>1. \A k \in Keys \ crossed : given[k] = Unset
        BY <2>2, <3>2 DEF SetIn, SetsNothing
      <4>2. QED
        BY <2>1, <4>1 DEF SetIn
    <3>3. CASE /\ saw[p] # None /\ config # None /\ config' # None
               /\ \A k \in Keys : config'[k] = IF Lacks(saw[p], k) THEN Default[k] ELSE config[k]
      BY <2>1, <2>2, <3>3 DEF SetIn, Lacks
    <3>4. QED
      BY <1>2, <3>1, <3>2, <3>3, Ensured
  <2>4. QED
    BY <1>2, <2>1, <2>3, Ensured DEF FileKept, SetIn, FileStays
<1>3. ASSUME NEW p \in Procs, Load(p)
      PROVE  FileKept' /\ FileStays'
  <2>1. UNCHANGED <<config, given, crossed>> /\ saw' = [saw EXCEPT ![p] = config]
        /\ \A q \in Procs : pc'[q] = "ensure" => pc[q] = "ensure" /\ q # p
    BY <1>3 DEF Load, Begin, Go, disk, Shaped
  <2>2. \A q \in Procs : IF q = p THEN saw'[q] = config ELSE saw'[q] = saw[q]
    BY <2>1 DEF Shaped
  <2>3. QED
    BY <2>1, <2>2 DEF FileKept, SetIn, FileStays
<1>4. ASSUME NEW p \in Procs, Die(p)
      PROVE  FileKept' /\ FileStays'
  <2>1. /\ UNCHANGED <<config, given, crossed>> /\ saw' = [saw EXCEPT ![p] = None]
        /\ pc' = [pc EXCEPT ![p] = "failed"]
    BY <1>4 DEF Die, Go, disk
  <2>2. \A q \in Procs : IF q = p THEN saw'[q] = None /\ pc'[q] = "failed" ELSE saw'[q] = saw[q] /\ pc'[q] = pc[q]
    BY <2>1 DEF Shaped
  <2>3. QED
    BY <2>1, <2>2 DEF FileKept, SetIn, FileStays
<1>5. ASSUME NEW k \in Keys, NEW v, Edit(k, v),
             \/ k = "approve" /\ v \in {"never", "auto"}
             \/ k = "url" /\ v \in URLs
      PROVE  FileKept' /\ FileStays'
  <2>1. /\ UNCHANGED <<pc, saw>>
        /\ crossed' = IF \E p \in Procs : pc[p] = "ensure" THEN crossed \cup {k} ELSE crossed
    BY <1>5 DEF Edit, own
  <2>2. SetIn(config)'
    BY <1>5, <2>1, Edited DEF FileKept, SetIn
  <2>3. \A p \in Procs : pc[p] = "ensure" => SetIn(saw[p])'
    <3>1. SUFFICES ASSUME NEW p \in Procs, pc[p] = "ensure" PROVE SetIn(saw[p])'
      OBVIOUS
    <3>2. crossed' = crossed \cup {k}
      BY <2>1, <3>1
    <3>3. QED
      BY <1>5, <2>1, <3>1, <3>2, Edited DEF FileKept, SetIn
  <2>4. QED
    BY <1>5, <2>1, <2>2, <2>3, Edited DEF FileKept, FileStays
<1>6. ASSUME UNCHANGED <<config, given, crossed, saw>>, \A q \in Procs : pc'[q] = "ensure" => pc[q] = "ensure"
      PROVE  FileKept' /\ FileStays'
  BY <1>6 DEF FileKept, SetIn, FileStays
<1>7. ASSUME NEW p \in Procs,
             \/ KeySeed(p) \/ SecretsEnc(p) \/ SecretsPlain(p) \/ Start(p) \/ ReadStore(p) \/ OpenStore(p)
      PROVE  FileKept' /\ FileStays'
  <2>1. UNCHANGED <<config, given, crossed, saw>>
    BY <1>7 DEF KeySeed, SecretsEnc, SecretsPlain, Start, ReadStore, OpenStore, disk, history
  <2>2. \A q \in Procs : pc'[q] = "ensure" => pc[q] = "ensure"
    BY <1>7 DEF KeySeed, SecretsEnc, SecretsPlain, Start, ReadStore, OpenStore, Finish, Begin, Go, Shaped
  <2>3. QED
    BY <1>6, <2>1, <2>2
<1>8. ASSUME NEW p \in Procs, (\E m : SetApprovals(p, m)) \/ (\E v : NoteDebug(p, v)) \/ OpenSession(p)
      PROVE  FileKept' /\ FileStays'
  BY <1>6, <1>8 DEF SetApprovals, NoteDebug, OpenSession, disk, own
<1>9. ASSUME NEW m, Move(m) PROVE FileKept' /\ FileStays'
  BY <1>6, <1>9 DEF Move, disk, own
<1>10. QED
  BY <1>1, <1>2, <1>3, <1>4, <1>5, <1>7, <1>8, <1>9, KeysAre DEF Next

-----------------------------------------------------------------------------
(* Shapes. *)

LEMMA StageIs ==
  /\ {"off", "ensure", "seed", "seeding", "seal", "sealing", "plain", "plaining",
      "load", "store", "open", "running", "failed"} = Stages
BY DEF Stages, Writing, Loading

LEMMA ShapedInit == Init => Shaped
<1> SUFFICES ASSUME Init PROVE Shaped
  OBVIOUS
<1>1. PICK w \in Worlds : config = w.config /\ env = w.env /\ yolo = w.yolo
  BY DEF Init
<1>2. config \in Values \cup {None} /\ env \in Values /\ yolo \in BOOLEAN
  BY <1>1, WorldsAssumption
<1>3. pc = [p \in Procs |-> "off"] /\ saw = [p \in Procs |-> None]
  BY DEF Init
<1>4. /\ DOMAIN given = Keys /\ DOMAIN typed = Procs /\ DOMAIN mode = Procs /\ DOMAIN start = Procs
      /\ DOMAIN switched = Procs /\ DOMAIN cfg = Procs /\ DOMAIN src = Procs
  BY DEF Init
<1>5. \A p \in Procs : cfg[p] = Default /\ src[p] = [k \in Keys |-> "default"]
  BY DEF Init
<1>6. QED
  BY <1>2, <1>3, <1>4, <1>5, KeysAre, StageIs DEF Shaped

(* Steps that leave what shapes speak of, but for the stage of a process. *)
LEMMA ShapedMove ==
  ASSUME Shaped, NEW p \in Procs, NEW to \in Stages, pc' = [pc EXCEPT ![p] = to], to # "ensure",
         UNCHANGED <<config, env, yolo, given>>, saw' \in [Procs -> Values \cup {None}],
         DOMAIN typed' = Procs, \A q \in Procs \ {p} : typed'[q] = typed[q],
         DOMAIN mode' = Procs, DOMAIN start' = Procs, DOMAIN switched' = Procs,
         DOMAIN cfg' = Procs, DOMAIN src' = Procs,
         \A q \in Procs : DOMAIN cfg'[q] = Keys /\ DOMAIN src'[q] = Keys
  PROVE  Shaped'
BY DEF Shaped

LEMMA BeginShape ==
  ASSUME Shaped, NEW p \in Procs, NEW c, NEW s, Begin(p, c, s), DOMAIN c = Keys, DOMAIN s = Keys
  PROVE  /\ pc' = [pc EXCEPT ![p] = "running"]
         /\ DOMAIN mode' = Procs /\ DOMAIN start' = Procs /\ DOMAIN switched' = Procs
         /\ DOMAIN cfg' = Procs /\ DOMAIN src' = Procs
         /\ \A q \in Procs : DOMAIN cfg'[q] = Keys /\ DOMAIN src'[q] = Keys
BY DEF Begin, Go, Shaped

LEMMA SwitchShape ==
  ASSUME Shaped, NEW p \in Procs, NEW k \in Runtime, NEW v, Switch(p, k, v)
  PROVE  /\ DOMAIN switched' = Procs /\ DOMAIN cfg' = Procs /\ DOMAIN src' = Procs
         /\ \A q \in Procs : DOMAIN cfg'[q] = Keys /\ DOMAIN src'[q] = Keys
         /\ \A q \in Procs \ {p} : cfg'[q] = cfg[q] /\ src'[q] = src[q] /\ switched'[q] = switched[q]
         /\ cfg'[p] = [cfg[p] EXCEPT ![k] = v] /\ src'[p] = [src[p] EXCEPT ![k] = SwitchedSrc(p, k, v)]
         /\ switched'[p] = switched[p] \cup {k}
<1>1. /\ cfg' = [cfg EXCEPT ![p] = [cfg[p] EXCEPT ![k] = v]]
      /\ src' = [src EXCEPT ![p] = [src[p] EXCEPT ![k] = SwitchedSrc(p, k, v)]]
      /\ switched' = [switched EXCEPT ![p] = switched[p] \cup {k}]
  BY DEF Switch
<1>2. DOMAIN [cfg[p] EXCEPT ![k] = v] = Keys /\ DOMAIN [src[p] EXCEPT ![k] = SwitchedSrc(p, k, v)] = Keys
  BY DEF Shaped
<1>3. QED
  BY <1>1, <1>2 DEF Shaped

LEMMA OpenShape ==
  ASSUME Shaped, NEW p \in Procs, OpenSession(p)
  PROVE  /\ DOMAIN mode' = Procs /\ DOMAIN switched' = Procs /\ DOMAIN cfg' = Procs /\ DOMAIN src' = Procs
         /\ \A q \in Procs : DOMAIN cfg'[q] = Keys /\ DOMAIN src'[q] = Keys
         /\ \A q \in Procs \ {p} : /\ cfg'[q] = cfg[q] /\ src'[q] = src[q]
                                  /\ switched'[q] = switched[q] /\ mode'[q] = mode[q]
         /\ cfg'[p] = Reset(p, start[p].cfg, cfg[p]) /\ src'[p] = Reset(p, start[p].src, src[p])
         /\ mode'[p] = start[p].cfg["approve"] /\ switched'[p] = {}
<1>1. /\ cfg' = [cfg EXCEPT ![p] = Reset(p, start[p].cfg, cfg[p])]
      /\ src' = [src EXCEPT ![p] = Reset(p, start[p].src, src[p])]
      /\ mode' = [mode EXCEPT ![p] = start[p].cfg.approve] /\ switched' = [switched EXCEPT ![p] = {}]
  BY DEF OpenSession
<1>2. \A f, now : DOMAIN Reset(p, f, now) = DOMAIN now
  BY DEF Reset
<1>3. QED
  BY <1>1, <1>2 DEF Shaped

LEMMA ShapedStep ==
  ASSUME Shaped, FileStays, Next
  PROVE  Shaped'
<1>1. ASSUME NEW p \in Procs, NEW u, NEW k, NEW how, Setup(p, u, k, how)
      PROVE  Shaped'
  <2>1. /\ UNCHANGED <<config, env, yolo, given, mode, start, switched, cfg, src>>
        /\ saw' = [saw EXCEPT ![p] = config] /\ pc' = [pc EXCEPT ![p] = "ensure"]
        /\ pc[p] \in {"off", "running"}
    BY <1>1 DEF Setup, Go, disk, app, history
  <2>2. DOMAIN typed' = Procs /\ typed'[p].from = pc[p] /\ \A q \in Procs \ {p} : typed'[q] = typed[q]
    BY <1>1 DEF Setup, Shaped
  <2>3. saw' \in [Procs -> Values \cup {None}] /\ pc' \in [Procs -> Stages]
    BY <2>1, StageIs DEF Shaped
  <2>4. QED
    BY <2>1, <2>2, <2>3 DEF Shaped
<1>2. ASSUME NEW p \in Procs, EnsureConfig(p)
      PROVE  Shaped'
  <2>1. /\ UNCHANGED <<env, yolo, given, mode, start, switched, cfg, src, typed, saw>> /\ pc[p] = "ensure"
        /\ \E to \in {typed[p].from, "plain", "seed"} : pc' = [pc EXCEPT ![p] = to]
    BY <1>2 DEF EnsureConfig, Go, world, app
  <2>2. typed[p].from \in {"off", "running"}
    BY <2>1 DEF Shaped
  <2>3. PICK to \in Stages \ {"ensure"} : pc' = [pc EXCEPT ![p] = to]
    BY <2>1, <2>2, StageIs
  <2>4. config' \in Values \cup {None}
    BY <1>2, Ensured
  <2>5. QED
    BY <2>1, <2>3, <2>4 DEF Shaped
<1>3. ASSUME NEW p \in Procs, KeySeed(p) \/ SecretsEnc(p) \/ SecretsPlain(p) \/ Start(p) \/ Die(p)
      PROVE  Shaped'
  <2>1. /\ UNCHANGED <<config, env, yolo, given, mode, start, switched, cfg, src>>
        /\ \E to \in {"seeding", "seal", "sealing", "plaining", "load", "failed"} : pc' = [pc EXCEPT ![p] = to]
        /\ saw' = saw \/ saw' = [saw EXCEPT ![p] = None]
        /\ typed' = typed \/ typed' = [typed EXCEPT ![p] = None]
    BY <1>3 DEF KeySeed, SecretsEnc, SecretsPlain, Start, Die, Finish, Go, disk, world, app, history
  <2>2. PICK to \in Stages \ {"ensure"} : pc' = [pc EXCEPT ![p] = to]
    BY <2>1, StageIs
  <2>3. saw' \in [Procs -> Values \cup {None}] /\ DOMAIN typed' = Procs /\ \A q \in Procs \ {p} : typed'[q] = typed[q]
    BY <2>1 DEF Shaped
  <2>4. QED
    BY <2>1, <2>2, <2>3, ShapedMove DEF Shaped
<1>4. ASSUME NEW p \in Procs, Load(p)
      PROVE  Shaped'
  <2> DEFINE m == Layered(p)
             c == [k \in Keys |-> IF m[k] = Unset THEN Default[k] ELSE m[k].val]
             s == [k \in Keys |-> IF m[k] = Unset THEN "default" ELSE m[k].from]
  <2>1. UNCHANGED <<config, env, yolo, given, typed>> /\ saw' = [saw EXCEPT ![p] = config]
    BY <1>4 DEF Load, disk, world
  <2>2. DOMAIN c = Keys /\ DOMAIN s = Keys
    OBVIOUS
  <2>3. \/ Begin(p, c, s)
        \/ /\ cfg' = [cfg EXCEPT ![p] = c] /\ src' = [src EXCEPT ![p] = s]
           /\ pc' = [pc EXCEPT ![p] = "store"] /\ UNCHANGED <<mode, start, switched>>
    BY <1>4 DEF Load, Go
  <2> HIDE DEF c, s
  <2>4. \E to \in {"store", "running"} : pc' = [pc EXCEPT ![p] = to]
    BY <2>2, <2>3, BeginShape
  <2>5. /\ DOMAIN mode' = Procs /\ DOMAIN start' = Procs /\ DOMAIN switched' = Procs
        /\ DOMAIN cfg' = Procs /\ DOMAIN src' = Procs
        /\ \A q \in Procs : DOMAIN cfg'[q] = Keys /\ DOMAIN src'[q] = Keys
    BY <2>2, <2>3, BeginShape DEF Shaped
  <2>6. saw' \in [Procs -> Values \cup {None}]
    BY <2>1 DEF Shaped
  <2>7. PICK to \in Stages \ {"ensure"} : pc' = [pc EXCEPT ![p] = to]
    BY <2>4, StageIs
  <2>8. QED
    BY <2>1, <2>5, <2>6, <2>7, ShapedMove DEF Shaped
<1>5. ASSUME NEW p \in Procs, ReadStore(p) \/ OpenStore(p)
      PROVE  Shaped'
  <2>1. UNCHANGED <<config, env, yolo, given, typed, saw>>
    BY <1>5 DEF ReadStore, OpenStore, disk, world
  <2>2. \/ Begin(p, Plain(p), From(p, Plain(p), "secrets"))
        \/ Begin(p, Filled(p, blob[p]), From(p, Filled(p, blob[p]), "secrets.enc"))
        \/ /\ UNCHANGED <<cfg, src, mode, start, switched>>
           /\ \E to \in {"open", "failed"} : pc' = [pc EXCEPT ![p] = to]
    BY <1>5 DEF ReadStore, OpenStore, Go, app
  <2>3. /\ DOMAIN Plain(p) = Keys /\ DOMAIN Filled(p, blob[p]) = Keys
        /\ \A c, name : DOMAIN From(p, c, name) = Keys
    BY DEF Plain, Filled, From
  <2>4. \E to \in {"running", "open", "failed"} : pc' = [pc EXCEPT ![p] = to]
    BY <2>2, <2>3, BeginShape
  <2>5. /\ DOMAIN mode' = Procs /\ DOMAIN start' = Procs /\ DOMAIN switched' = Procs
        /\ DOMAIN cfg' = Procs /\ DOMAIN src' = Procs
        /\ \A q \in Procs : DOMAIN cfg'[q] = Keys /\ DOMAIN src'[q] = Keys
    BY <2>2, <2>3, BeginShape DEF Shaped
  <2>6. PICK to \in Stages \ {"ensure"} : pc' = [pc EXCEPT ![p] = to]
    BY <2>4, StageIs
  <2>7. QED
    BY <2>1, <2>5, <2>6, ShapedMove DEF Shaped
<1>6. ASSUME NEW p \in Procs, (\E m : SetApprovals(p, m)) \/ (\E v : NoteDebug(p, v)) \/ OpenSession(p)
      PROVE  Shaped'
  <2>1. UNCHANGED <<config, env, yolo, given, pc, typed, saw, start>>
    BY <1>6 DEF SetApprovals, NoteDebug, OpenSession, Switch, disk, world, own
  <2>2. ASSUME NEW m, SetApprovals(p, m) PROVE Shaped'
    <3>1. Switch(p, "approve", m) /\ DOMAIN mode' = Procs
      BY <2>2 DEF SetApprovals, Shaped
    <3>2. QED
      BY <2>1, <3>1, KeysAre, SwitchShape DEF Shaped
  <2>3. ASSUME NEW v, NoteDebug(p, v) PROVE Shaped'
    <3>1. Switch(p, "debug", v) /\ mode' = mode
      BY <2>3 DEF NoteDebug
    <3>2. QED
      BY <2>1, <3>1, KeysAre, SwitchShape DEF Shaped
  <2>4. QED
    BY <1>6, <2>1, <2>2, <2>3, OpenShape DEF Shaped
<1>7. ASSUME NEW k \in Keys, NEW v, Edit(k, v),
             \/ k = "approve" /\ v \in {"never", "auto"}
             \/ k = "url" /\ v \in URLs
      PROVE  Shaped'
  <2>1. UNCHANGED <<env, yolo, pc, typed, saw, start, mode, switched, cfg, src>>
    BY <1>7 DEF Edit, own, app
  <2>2. QED
    BY <1>7, <2>1, Edited DEF Shaped
<1>8. ASSUME NEW m, Move(m) PROVE Shaped'
  BY <1>8 DEF Move, Shaped, disk, own, app
<1>9. QED
  BY <1>1, <1>2, <1>3, <1>4, <1>5, <1>6, <1>7, <1>8, KeysAre DEF Next

-----------------------------------------------------------------------------
(* The settings in effect. *)

LEMMA FitsInit == Init => ByLayers
<1>1. Init => \A p \in Procs : pc[p] = "off"
  BY DEF Init
<1>2. QED
  BY <1>1 DEF ByLayers, Fits, Runs

(* A process that is left alone. *)
LEMMA FitsStays ==
  ASSUME NEW p, Fits(p), UNCHANGED <<env, yolo>>, saw'[p] = saw[p], cfg'[p] = cfg[p], src'[p] = src[p],
         mode'[p] = mode[p], start'[p] = start[p], switched'[p] = switched[p],
         Runs(p)' => Runs(p), pc'[p] \in {"store", "open"} => pc[p] \in {"store", "open"}
  PROVE  Fits(p)'
<1>1. \A k : Strongest(p, k)' = Strongest(p, k)
  BY StrongestStays
<1>2. \A k, v : SwitchedSrc(p, k, v)' = SwitchedSrc(p, k, v)
  BY DEF SwitchedSrc
<1>3. Configured(p) => Configured(p)'
  BY <1>1, <1>2 DEF Configured
<1>4. QED
  BY <1>1, <1>3 DEF Fits

(* One that is at none of the stages that are spoken of. *)
LEMMA FitsIdle ==
  ASSUME NEW p, pc'[p] \notin {"running", "ensure", "store", "open"}
  PROVE  Fits(p)'
BY DEF Fits, Runs

LEMMA BeginFits ==
  ASSUME Shaped, NEW p \in Procs, NEW c, NEW s, Begin(p, c, s),
         \A k \in Runtime : <<c[k], s[k]>> = Strongest(p, k)',
         \A k \in Creds : \/ <<c[k], s[k]>> = Strongest(p, k)'
                          \/ s[k] = "secrets.enc" /\ Strongest(p, k)'[2] = "default"
                          \/ s[k] = "secrets"
  PROVE  Fits(p)'
<1>1. /\ pc'[p] = "running" /\ cfg'[p] = c /\ src'[p] = s /\ mode'[p] = c["approve"]
      /\ start'[p].cfg = c /\ start'[p].src = s /\ switched'[p] = {}
  BY DEF Begin, Go, Shaped
<1>2. \A k : SwitchedSrc(p, k, c[k])' = s[k]
  BY <1>1 DEF SwitchedSrc
<1>3. Configured(p)'
  BY <1>1, <1>2 DEF Configured
<1>4. QED
  BY <1>1, <1>3 DEF Fits

LEMMA BeginOthers ==
  ASSUME Shaped, NEW p \in Procs, NEW c, NEW s, Begin(p, c, s), NEW q \in Procs \ {p}
  PROVE  /\ pc'[q] = pc[q] /\ cfg'[q] = cfg[q] /\ src'[q] = src[q] /\ mode'[q] = mode[q]
         /\ start'[q] = start[q] /\ switched'[q] = switched[q]
BY DEF Begin, Go, Shaped

LEMMA SwitchFits ==
  ASSUME Shaped, NEW p \in Procs, Fits(p), pc[p] = "running", NEW k \in Runtime, NEW v, Switch(p, k, v),
         UNCHANGED <<env, yolo, pc, saw, start>>,
         mode'[p] = IF k = "approve" THEN v ELSE mode[p]
  PROVE  Fits(p)'
<1>1. /\ cfg'[p] = [cfg[p] EXCEPT ![k] = v] /\ src'[p] = [src[p] EXCEPT ![k] = SwitchedSrc(p, k, v)]
      /\ switched'[p] = switched[p] \cup {k} /\ DOMAIN cfg[p] = Keys /\ DOMAIN src[p] = Keys
  BY SwitchShape DEF Shaped
<1>2. k \in Keys /\ k \notin Creds /\ "approve" \in Keys
  BY KeysAre
<1>3. /\ cfg'[p][k] = v /\ src'[p][k] = SwitchedSrc(p, k, v)
      /\ \A j \in Keys \ {k} : cfg'[p][j] = cfg[p][j] /\ src'[p][j] = src[p][j]
  BY <1>1, <1>2
<1>4. \A j : Strongest(p, j)' = Strongest(p, j)
  BY StrongestStays
<1>6. Configured(p)
  BY DEF Fits, Runs
<1>7. mode'[p] = cfg'[p]["approve"]
  BY <1>2, <1>3, <1>6 DEF Configured
<1>8. ASSUME NEW j \in Runtime
      PROVE  /\ <<start'[p].cfg[j], start'[p].src[j]>> = Strongest(p, j)'
             /\ j \notin switched'[p] => cfg'[p][j] = start'[p].cfg[j]
             /\ src'[p][j] = IF cfg'[p][j] = start'[p].cfg[j] THEN start'[p].src[j] ELSE "runtime"
  <2>1. j \in Keys
    BY KeysAre
  <2>2. QED
    BY <1>1, <1>3, <1>4, <1>6, <2>1 DEF Configured, SwitchedSrc
<1>9. \A j \in Creds : cfg'[p][j] = cfg[p][j] /\ src'[p][j] = src[p][j]
  BY <1>2, <1>3, KeysAre
<1>10. Configured(p)'
  BY <1>4, <1>6, <1>7, <1>8, <1>9 DEF Configured, SwitchedSrc
<1>11. QED
  BY <1>10 DEF Fits

LEMMA OpenFits ==
  ASSUME Shaped, NEW p \in Procs, Fits(p), OpenSession(p)
  PROVE  Fits(p)'
<1>1. UNCHANGED <<env, yolo, pc, saw, start>> /\ pc[p] = "running"
  BY DEF OpenSession, world, own
<1>2. /\ cfg'[p] = Reset(p, start[p].cfg, cfg[p]) /\ src'[p] = Reset(p, start[p].src, src[p])
      /\ mode'[p] = start[p].cfg["approve"] /\ switched'[p] = {}
      /\ DOMAIN cfg[p] = Keys /\ DOMAIN src[p] = Keys
  BY OpenShape DEF Shaped
<1>3. /\ \A j \in Runtime : cfg'[p][j] = start[p].cfg[j] /\ src'[p][j] = start[p].src[j]
      /\ \A j \in Creds : cfg'[p][j] = cfg[p][j] /\ src'[p][j] = src[p][j]
  BY <1>2, KeysAre DEF Reset
<1>4. \A j : Strongest(p, j)' = Strongest(p, j)
  BY <1>1, StrongestStays
<1>5. Configured(p)
  BY <1>1 DEF Fits, Runs
<1>6. "approve" \in Runtime
  BY KeysAre
<1>7. ASSUME NEW j \in Runtime
      PROVE  /\ <<start'[p].cfg[j], start'[p].src[j]>> = Strongest(p, j)'
             /\ cfg'[p][j] = start'[p].cfg[j] /\ src'[p][j] = start'[p].src[j]
  BY <1>1, <1>3, <1>4, <1>5 DEF Configured
<1>8. Configured(p)'
  BY <1>2, <1>3, <1>4, <1>5, <1>6, <1>7 DEF Configured, SwitchedSrc
<1>9. QED
  BY <1>1, <1>8 DEF Fits

LEMMA LayersStep ==
  ASSUME Shaped, FileStays, ByLayers, Next
  PROVE  ByLayers'
<1>1. ASSUME NEW p \in Procs, NEW u, NEW k, NEW how, Setup(p, u, k, how)
      PROVE  ByLayers'
  <2>1. /\ UNCHANGED <<env, yolo, mode, start, switched, cfg, src>>
        /\ saw' = [saw EXCEPT ![p] = config] /\ pc' = [pc EXCEPT ![p] = "ensure"]
        /\ pc[p] \in {"off", "running"}
    BY <1>1 DEF Setup, Go, app, history
  <2>2. typed'[p].from = pc[p] /\ \A q \in Procs \ {p} : typed'[q] = typed[q]
    BY <1>1 DEF Setup, Shaped
  <2>3. SUFFICES ASSUME NEW q \in Procs PROVE Fits(q)'
    BY DEF ByLayers
  <2>4. CASE q # p
    <3>1. saw'[q] = saw[q] /\ pc'[q] = pc[q] /\ typed'[q] = typed[q]
      BY <2>1, <2>2, <2>4 DEF Shaped
    <3>2. (Runs(q)' => Runs(q))
      BY <3>1 DEF Runs
    <3>3. QED
      BY <2>1, <3>1, <3>2, FitsStays DEF ByLayers
  <2>5. CASE q = p
    <3>1. saw'[p] = config /\ pc'[p] = "ensure"
      BY <2>1 DEF Shaped
    <3>2. CASE config = None /\ pc[p] = "running"
      <4>1. saw'[p] = saw[p]
        BY <3>1, <3>2 DEF FileStays
      <4>2. Runs(p)
        BY <3>2 DEF Runs
      <4>3. QED
        BY <2>1, <2>5, <3>1, <4>1, <4>2, FitsStays DEF ByLayers
    <3>3. CASE ~(config = None /\ pc[p] = "running")
      BY <2>1, <2>2, <2>5, <3>1, <3>3 DEF Fits, Runs
    <3>4. QED
      BY <3>2, <3>3
  <2>6. QED
    BY <2>4, <2>5
<1>2. ASSUME NEW p \in Procs, EnsureConfig(p)
      PROVE  ByLayers'
  <2>1. /\ UNCHANGED <<env, yolo, mode, start, switched, cfg, src, typed, saw>> /\ pc[p] = "ensure"
        /\ \/ saw[p] = None /\ pc' = [pc EXCEPT ![p] = typed[p].from]
           \/ \E to \in {"plain", "seed"} : pc' = [pc EXCEPT ![p] = to]
    BY <1>2 DEF EnsureConfig, Go, world, app
  <2>2. typed[p].from \in {"off", "running"}
    BY <2>1 DEF Shaped
  <2>3. SUFFICES ASSUME NEW q \in Procs PROVE Fits(q)'
    BY DEF ByLayers
  <2>4. Runs(q)' => Runs(q)
    <3>1. CASE q = p
      BY <2>1, <2>2, <3>1 DEF Runs, Shaped
    <3>2. CASE q # p
      BY <2>1, <3>2 DEF Runs, Shaped
    <3>3. QED
      BY <3>1, <3>2
  <2>5. pc'[q] \in {"store", "open"} => pc[q] \in {"store", "open"}
    BY <2>1, <2>2 DEF Shaped
  <2>6. QED
    BY <2>1, <2>4, <2>5, FitsStays DEF ByLayers
<1>3. ASSUME NEW p \in Procs, KeySeed(p) \/ SecretsEnc(p) \/ SecretsPlain(p) \/ Start(p) \/ Die(p)
      PROVE  ByLayers'
  <2>1. /\ UNCHANGED <<env, yolo, mode, start, switched, cfg, src>>
        /\ \E to \in {"seeding", "seal", "sealing", "plaining", "load", "failed"} : pc' = [pc EXCEPT ![p] = to]
        /\ saw' = saw \/ saw' = [saw EXCEPT ![p] = None]
        /\ typed' = typed \/ typed' = [typed EXCEPT ![p] = None]
    BY <1>3 DEF KeySeed, SecretsEnc, SecretsPlain, Start, Die, Finish, Go, disk, world, app, history
  <2>2. SUFFICES ASSUME NEW q \in Procs PROVE Fits(q)'
    BY DEF ByLayers
  <2>3. CASE q = p
    BY <2>1, <2>3, FitsIdle DEF Shaped
  <2>4. CASE q # p
    <3>1. saw'[q] = saw[q] /\ pc'[q] = pc[q] /\ typed'[q] = typed[q]
      BY <2>1, <2>4 DEF Shaped
    <3>2. (Runs(q)' => Runs(q))
      BY <3>1 DEF Runs
    <3>3. QED
      BY <2>1, <3>1, <3>2, FitsStays DEF ByLayers
  <2>5. QED
    BY <2>3, <2>4
<1>4. ASSUME NEW p \in Procs, Load(p)
      PROVE  ByLayers'
  <2> DEFINE m == Layered(p)
             c == [k \in Keys |-> IF m[k] = Unset THEN Default[k] ELSE m[k].val]
             s == [k \in Keys |-> IF m[k] = Unset THEN "default" ELSE m[k].from]
  <2>1. UNCHANGED <<env, yolo, typed>> /\ saw' = [saw EXCEPT ![p] = config]
    BY <1>4 DEF Load, disk, world
  <2>2. saw'[p] = config /\ \A q \in Procs \ {p} : saw'[q] = saw[q]
    BY <2>1 DEF Shaped
  <2>3. \A k \in Keys : <<c[k], s[k]>> = Strongest(p, k)'
    BY <2>1, <2>2, LoadIsStrongest
  <2>4. \/ Begin(p, c, s)
        \/ /\ cfg' = [cfg EXCEPT ![p] = c] /\ src' = [src EXCEPT ![p] = s]
           /\ pc' = [pc EXCEPT ![p] = "store"] /\ UNCHANGED <<mode, start, switched>>
    BY <1>4 DEF Load, Go
  <2> HIDE DEF c, s
  <2>5. \A q \in Procs \ {p} : /\ pc'[q] = pc[q] /\ cfg'[q] = cfg[q] /\ src'[q] = src[q]
                               /\ mode'[q] = mode[q] /\ start'[q] = start[q] /\ switched'[q] = switched[q]
    BY <2>4, BeginOthers DEF Shaped
  <2>6. \A q \in Procs \ {p} : Fits(q)'
    <3>1. SUFFICES ASSUME NEW q \in Procs \ {p} PROVE Fits(q)'
      OBVIOUS
    <3>2. (Runs(q)' => Runs(q))
      BY <2>1, <2>2, <2>5 DEF Runs
    <3>3. QED
      BY <2>1, <2>2, <2>5, <3>2, FitsStays DEF ByLayers
  <2>7. Fits(p)'
    <3>1. CASE Begin(p, c, s)
      BY <2>3, <3>1, BeginFits, KeysAre
    <3>2. CASE cfg' = [cfg EXCEPT ![p] = c] /\ src' = [src EXCEPT ![p] = s] /\ pc' = [pc EXCEPT ![p] = "store"]
      <4>1. cfg'[p] = c /\ src'[p] = s /\ pc'[p] = "store"
        BY <3>2 DEF Shaped
      <4>2. QED
        BY <2>3, <4>1 DEF Fits, Runs
    <3>3. QED
      BY <2>4, <3>1, <3>2
  <2>8. QED
    BY <2>6, <2>7 DEF ByLayers
<1>5. ASSUME NEW p \in Procs, ReadStore(p) \/ OpenStore(p)
      PROVE  ByLayers'
  <2> DEFINE d == Plain(p)
             b == Filled(p, blob[p])
  <2>1. UNCHANGED <<env, yolo, typed, saw>> /\ pc[p] \in {"store", "open"}
    BY <1>5 DEF ReadStore, OpenStore, disk, world
  <2>2. \/ Begin(p, d, From(p, d, "secrets"))
        \/ Begin(p, b, From(p, b, "secrets.enc"))
        \/ /\ UNCHANGED <<cfg, src, mode, start, switched>>
           /\ \E to \in {"open", "failed"} : pc' = [pc EXCEPT ![p] = to]
    BY <1>5 DEF ReadStore, OpenStore, Go, app
  <2>3. \A k \in Keys : <<cfg[p][k], src[p][k]>> = Strongest(p, k) /\ Strongest(p, k)' = Strongest(p, k)
    BY <2>1, StrongestStays DEF ByLayers, Fits
  <2>4. /\ \A k \in Runtime : d[k] = cfg[p][k] /\ b[k] = cfg[p][k]
        /\ \A k \in Creds : b[k] # cfg[p][k] => cfg[p][k] = <<>>
    BY KeysAre DEF Plain, Filled
  <2>5. \A v, name : \A k \in Keys : From(p, v, name)[k] = IF v[k] # cfg[p][k] THEN name ELSE src[p][k]
    BY DEF From
  <2> HIDE DEF d, b
  <2>6. /\ \A k \in Runtime : /\ <<d[k], From(p, d, "secrets")[k]>> = Strongest(p, k)'
                              /\ <<b[k], From(p, b, "secrets.enc")[k]>> = Strongest(p, k)'
        /\ \A k \in Creds : \/ <<d[k], From(p, d, "secrets")[k]>> = Strongest(p, k)'
                            \/ From(p, d, "secrets")[k] = "secrets"
    BY <2>3, <2>4, <2>5, KeysAre
  <2>7. ASSUME NEW k \in Creds
        PROVE  \/ <<b[k], From(p, b, "secrets.enc")[k]>> = Strongest(p, k)'
               \/ From(p, b, "secrets.enc")[k] = "secrets.enc" /\ Strongest(p, k)'[2] = "default"
    <3>1. k \in Keys
      BY KeysAre
    <3>2. CASE b[k] = cfg[p][k]
      BY <2>3, <2>5, <3>1, <3>2
    <3>3. CASE b[k] # cfg[p][k]
      <4>1. cfg[p][k] = <<>> /\ From(p, b, "secrets.enc")[k] = "secrets.enc"
        BY <2>4, <2>5, <3>1, <3>3
      <4>2. Strongest(p, k)[1] = <<>>
        BY <2>3, <3>1, <4>1
      <4>3. QED
        BY <2>3, <3>1, <4>1, <4>2, StrongestFrom
    <3>4. QED
      BY <3>2, <3>3
  <2>8. \A q \in Procs \ {p} : /\ pc'[q] = pc[q] /\ cfg'[q] = cfg[q] /\ src'[q] = src[q]
                               /\ mode'[q] = mode[q] /\ start'[q] = start[q] /\ switched'[q] = switched[q]
    BY <2>2, BeginOthers DEF Shaped
  <2>9. \A q \in Procs \ {p} : Fits(q)'
    <3>1. SUFFICES ASSUME NEW q \in Procs \ {p} PROVE Fits(q)'
      OBVIOUS
    <3>2. (Runs(q)' => Runs(q))
      BY <2>1, <2>8 DEF Runs
    <3>3. QED
      BY <2>1, <2>8, <3>2, FitsStays DEF ByLayers
  <2>10. Fits(p)'
    <3>1. CASE Begin(p, d, From(p, d, "secrets"))
      BY <2>6, <3>1, BeginFits
    <3>2. CASE Begin(p, b, From(p, b, "secrets.enc"))
      BY <2>6, <2>7, <3>2, BeginFits
    <3>3. CASE /\ UNCHANGED <<cfg, src, mode, start, switched>>
               /\ \E to \in {"open", "failed"} : pc' = [pc EXCEPT ![p] = to]
      <4>1. pc'[p] \in {"open", "failed"}
        BY <3>3 DEF Shaped
      <4>2. QED
        BY <2>1, <3>3, <4>1, FitsStays DEF ByLayers, Runs
    <3>4. QED
      BY <2>2, <3>1, <3>2, <3>3
  <2>11. QED
    BY <2>9, <2>10 DEF ByLayers
<1>6. ASSUME NEW p \in Procs, (\E m : SetApprovals(p, m)) \/ (\E v : NoteDebug(p, v)) \/ OpenSession(p)
      PROVE  ByLayers'
  <2>1. UNCHANGED <<env, yolo, pc, typed, saw, start>> /\ pc[p] = "running" /\ Fits(p)
    BY <1>6 DEF SetApprovals, NoteDebug, OpenSession, Switch, world, own, ByLayers
  <2>2. /\ Fits(p)'
        /\ \A q \in Procs \ {p} : /\ cfg'[q] = cfg[q] /\ src'[q] = src[q]
                                  /\ switched'[q] = switched[q] /\ mode'[q] = mode[q]
    <3>1. ASSUME NEW m, SetApprovals(p, m) PROVE <2>2
      <4>1. Switch(p, "approve", m) /\ mode'[p] = m /\ \A q \in Procs \ {p} : mode'[q] = mode[q]
        BY <3>1 DEF SetApprovals, Shaped
      <4>2. "approve" \in Runtime
        BY KeysAre
      <4>3. Fits(p)'
        BY <2>1, <4>1, <4>2, SwitchFits
      <4>4. \A q \in Procs \ {p} : cfg'[q] = cfg[q] /\ src'[q] = src[q] /\ switched'[q] = switched[q]
        BY <4>1, <4>2, SwitchShape
      <4>5. QED
        BY <4>1, <4>3, <4>4
    <3>2. ASSUME NEW v, NoteDebug(p, v) PROVE <2>2
      <4>1. Switch(p, "debug", v) /\ mode' = mode
        BY <3>2 DEF NoteDebug
      <4>2. "debug" \in Runtime
        BY KeysAre
      <4>3. Fits(p)'
        BY <2>1, <4>1, <4>2, SwitchFits
      <4>4. \A q \in Procs \ {p} : cfg'[q] = cfg[q] /\ src'[q] = src[q] /\ switched'[q] = switched[q]
        BY <4>1, <4>2, SwitchShape
      <4>5. QED
        BY <4>1, <4>3, <4>4
    <3>3. QED
      BY <1>6, <2>1, <3>1, <3>2, OpenShape, OpenFits
  <2>3. \A q \in Procs \ {p} : Fits(q)'
    <3>1. SUFFICES ASSUME NEW q \in Procs \ {p} PROVE Fits(q)'
      OBVIOUS
    <3>2. Runs(q)' => Runs(q)
      BY <2>1 DEF Runs
    <3>3. QED
      BY <2>1, <2>2, <3>2, FitsStays DEF ByLayers
  <2>4. QED
    BY <2>2, <2>3 DEF ByLayers
<1>7. ASSUME UNCHANGED <<env, yolo, pc, typed, saw, app, switched>>
      PROVE  ByLayers'
  <2>1. \A p : Runs(p)' => Runs(p)
    BY <1>7 DEF Runs
  <2>2. QED
    BY <1>7, <2>1, FitsStays DEF ByLayers, app
<1>8. ASSUME NEW k, NEW v, Edit(k, v) PROVE ByLayers'
  BY <1>7, <1>8 DEF Edit, own
<1>9. ASSUME NEW m, Move(m) PROVE ByLayers'
  BY <1>7, <1>9 DEF Move, own
<1>10. QED
  BY <1>1, <1>2, <1>3, <1>4, <1>5, <1>6, <1>8, <1>9 DEF Next

-----------------------------------------------------------------------------
THEOREM InvariantHolds == Spec => []IInv
<1>1. Init => IInv
  BY ShapedInit, FileKeptInit, FitsInit DEF IInv
<1>2. IInv /\ [Next]_vars => IInv'
  <2>1. SUFFICES ASSUME IInv, [Next]_vars PROVE IInv'
    OBVIOUS
  <2>2. CASE Next
    BY <2>1, <2>2, ShapedStep, FileStep, LayersStep DEF IInv
  <2>3. CASE UNCHANGED vars
    <3>1. UNCHANGED <<config, env, yolo, given, crossed, pc, saw, typed, mode, start, switched, cfg, src>>
      BY <2>3 DEF vars, disk, world, own, app, history
    <3>2. Shaped' /\ FileKept' /\ FileStays'
      BY <2>1, <3>1 DEF IInv, Shaped, FileKept, FileStays, SetIn
    <3>3. \A p : Runs(p)' => Runs(p)
      BY <3>1 DEF Runs
    <3>4. ByLayers'
      BY <2>1, <3>1, <3>3, FitsStays DEF IInv, ByLayers
    <3>5. QED
      BY <3>2, <3>4 DEF IInv
  <2>4. QED
    BY <2>1, <2>2, <2>3
<1>3. QED
  BY <1>1, <1>2, PTL DEF Spec

(* Whatever setups overlap and die, they leave what the operator wrote into
   the config file, but what he wrote while one was at it
   (configfile.go:60, EnsureConfig).                                        *)
THEOREM WhatHeWroteStays == Spec => []OperatorKept
<1>1. IInv => OperatorKept
  BY DEF IInv, FileKept, SetIn, OperatorKept
<1>2. QED
  BY <1>1, InvariantHolds, PTL

(* The settings of a running program are those of its layers, and said to be
   (config.go, Load; runtime.go).                                           *)
THEOREM SettingsAreTheLayers == Spec => []InEffect
<1>1. IInv => InEffect
  <2>1. SUFFICES ASSUME IInv, NEW p \in Procs, pc[p] = "running"
                 PROVE  /\ mode[p] = cfg[p]["approve"]
                        /\ \A k \in Runtime \ switched[p] : <<cfg[p][k], src[p][k]>> = Strongest(p, k)
                        /\ \A k \in Runtime : src[p][k] = "runtime" <=> cfg[p][k] # Strongest(p, k)[1]
                        /\ \A k \in Creds : \/ <<cfg[p][k], src[p][k]>> = Strongest(p, k)
                                            \/ src[p][k] = "secrets.enc" /\ Strongest(p, k)[2] = "default"
                                            \/ src[p][k] = "secrets"
    BY DEF InEffect
  <2>2. Configured(p)
    BY <2>1 DEF IInv, ByLayers, Fits, Runs
  <2>3. ASSUME NEW k \in Runtime
        PROVE  /\ k \notin switched[p] => <<cfg[p][k], src[p][k]>> = Strongest(p, k)
               /\ src[p][k] = "runtime" <=> cfg[p][k] # Strongest(p, k)[1]
    <3>1. /\ <<start[p].cfg[k], start[p].src[k]>> = Strongest(p, k)
          /\ k \notin switched[p] => cfg[p][k] = start[p].cfg[k]
          /\ src[p][k] = IF cfg[p][k] = start[p].cfg[k] THEN start[p].src[k] ELSE "runtime"
      BY <2>2 DEF Configured, SwitchedSrc
    <3>2. start[p].cfg[k] = Strongest(p, k)[1] /\ start[p].src[k] = Strongest(p, k)[2]
      BY <3>1
    <3>3. start[p].src[k] # "runtime"
      BY <3>2, StrongestFrom
    <3>4. QED
      BY <3>1, <3>2, <3>3
  <2>4. QED
    BY <2>2, <2>3 DEF Configured
<1>2. QED
  BY <1>1, InvariantHolds, PTL

-----------------------------------------------------------------------------
(* The REPL.  Its queues first: induction over a queue's length is induction
   over the naturals, and that a set that holds 0 and, with each, the next,
   is all of them.  FlattenSeq is not unfolded further than Join's lemmas. *)

(* A set of naturals that holds 0 and, with each, the next. *)
LEMMA AllNaturals ==
  ASSUME NEW G \in SUBSET Nat, 0 \in G, \A n \in G : n + 1 \in G
  PROVE  G = Nat
<1>. DEFINE D == Nat \ G
<1>1. SUFFICES ASSUME D # {} PROVE FALSE
  OBVIOUS
<1>2. PICK d \in D : \A n \in D : <<n, d>> \notin OpToRel(<, Nat)
  BY <1>1, NatLessThanWellFounded, WFMin, Zenon
<1>3. d \in Nat /\ d # 0 /\ d - 1 \in Nat  BY SMT
<1>4. <<d - 1, d>> \in OpToRel(<, Nat)
  <2>1. d - 1 < d  BY <1>3
  <2>. QED  BY <2>1, <1>3, Zenon DEF OpToRel
<1>5. d - 1 \in G  BY <1>2, <1>3, <1>4, Zenon
<1>6. d - 1 + 1 \in G  BY <1>5, Zenon
<1>. QED  BY <1>3, <1>6, SMT

-----------------------------------------------------------------------------
(* The lines of a queue put together (FlattenSeq): f[i] is what the first i
   lines come to. *)
Flat(f, lines, n) == f = [i \in 1..n |-> IF i = 1 THEN lines[i] ELSE f[i - 1] \o lines[i]]

Together(f, lines, n) ==
  /\ f[1] = lines[1]
  /\ \A i \in 1..n : i + 1 \in 1..n => f[i + 1] = f[i] \o lines[i + 1]

LEMMA FlatAt ==
  ASSUME NEW lines, NEW n \in Nat, n # 0, NEW f, Flat(f, lines, n)
  PROVE  Together(f, lines, n)
<1>. DEFINE h == [j \in 1..n |-> IF j = 1 THEN lines[j] ELSE f[j - 1] \o lines[j]]
<1>1. f = h  BY DEF Flat
<1>2. h[1] = lines[1]
  <2>1. 1 \in 1..n  BY SMT
  <2>. QED  BY <2>1
<1>3. ASSUME NEW i \in 1..n, i + 1 \in 1..n PROVE h[i + 1] = f[i] \o lines[i + 1]
  <2>1. i + 1 # 1 /\ i + 1 - 1 = i  BY SMT
  <2>2. h[i + 1] = IF i + 1 = 1 THEN lines[i + 1] ELSE f[i + 1 - 1] \o lines[i + 1]  BY <1>3
  <2>. HIDE DEF h
  <2>. QED  BY <2>1, <2>2, Zenon
<1>. HIDE DEF h
<1>. QED  BY <1>1, <1>2, <1>3 DEF Together

LEMMA FlatExists ==
  ASSUME NEW lines, NEW n \in Nat
  PROVE  \E f : Flat(f, lines, n)
<1>. DEFINE G == {k \in Nat : \E f : Flat(f, lines, k)}
<1>1. 0 \in G
  <2>1. Flat(<<>>, lines, 0)  BY SMT DEF Flat
  <2>. QED  BY <2>1
<1>2. ASSUME NEW k \in G PROVE k + 1 \in G
  <2>1. PICK f : Flat(f, lines, k)  OBVIOUS
  <2>. DEFINE h == [j \in 1..k |-> IF j = 1 THEN lines[j] ELSE f[j - 1] \o lines[j]]
              g == [i \in 1..(k + 1) |-> IF i = k + 1 THEN IF i = 1 THEN lines[i] ELSE f[i - 1] \o lines[i] ELSE f[i]]
  <2>2. k \in Nat  OBVIOUS
  <2>3. \A i \in 1..k : f[i] = IF i = 1 THEN lines[i] ELSE f[i - 1] \o lines[i]
    <3>1. f = h  BY <2>1 DEF Flat
    <3>2. \A i \in 1..k : h[i] = IF i = 1 THEN lines[i] ELSE f[i - 1] \o lines[i]  OBVIOUS
    <3>. HIDE DEF h
    <3>. QED  BY <3>1, <3>2
  <2>4. \A i \in 1..(k + 1) : g[i] = IF i = 1 THEN lines[i] ELSE g[i - 1] \o lines[i]
    BY <2>2, <2>3, SMT
  <2>5. g = [i \in 1..(k + 1) |-> IF i = 1 THEN lines[i] ELSE g[i - 1] \o lines[i]]
    <3>1. g = [i \in 1..(k + 1) |-> g[i]]  OBVIOUS
    <3>. HIDE DEF g
    <3>. QED  BY <2>4, <3>1, Zenon
  <2>6. Flat(g, lines, k + 1)  BY <2>5 DEF Flat
  <2>. HIDE DEF g
  <2>. QED  BY <2>2, <2>6
<1>3. G = Nat  BY <1>1, <1>2, AllNaturals
<1>. QED  BY <1>3, Zenon

LEMMA JoinIs ==
  ASSUME NEW S, NEW lines \in Seq(Seq(S)), lines # <<>>
  PROVE  \E f : Together(f, lines, Len(lines)) /\ Join(lines) = f[Len(lines)]
<1>1. Len(lines) \in Nat /\ Len(lines) # 0  BY EmptySeq
<1>2. \E f : Flat(f, lines, Len(lines))  BY <1>1, FlatExists
<1>. DEFINE F == CHOOSE f : Flat(f, lines, Len(lines))
<1>3. Flat(F, lines, Len(lines))  BY <1>2, Zenon
<1>4. Join(lines) = F[Len(lines)]  BY <1>1, Zenon DEF Join, FlattenSeq, Flat
<1>. HIDE DEF F
<1>5. Together(F, lines, Len(lines))  BY <1>1, <1>3, FlatAt, Zenon
<1>. QED  BY <1>4, <1>5

(* A queue and a longer one that begins with it. *)
LEMMA TogetherAgrees ==
  ASSUME NEW lines, NEW more, NEW n \in Nat, n # 0, \A i \in 1..n : lines[i] = more[i],
         NEW f, Together(f, lines, n), NEW g, Together(g, more, n + 1)
  PROVE  g[n + 1] = f[n] \o more[n + 1]
<1>. DEFINE G == {k \in Nat : k + 1 \in 1..n => f[k + 1] = g[k + 1]}
<1>1. 0 \in G
  <2>1. 1 \in 1..n  BY SMT
  <2>. QED  BY <2>1 DEF Together
<1>2. ASSUME NEW k \in G PROVE k + 1 \in G
  <2>1. k \in Nat /\ k + 1 \in Nat  BY SMT
  <2>2. ASSUME k + 1 + 1 \in 1..n PROVE f[k + 1 + 1] = g[k + 1 + 1]
    <3>1. k + 1 \in 1..n /\ k + 1 \in 1..(n + 1) /\ k + 1 + 1 \in 1..(n + 1)  BY <2>1, <2>2, SMT
    <3>2. f[k + 1 + 1] = f[k + 1] \o lines[k + 1 + 1]  BY <2>2, <3>1, Zenon DEF Together
    <3>3. g[k + 1 + 1] = g[k + 1] \o more[k + 1 + 1]  BY <3>1, Zenon DEF Together
    <3>4. f[k + 1] = g[k + 1]  BY <3>1
    <3>5. lines[k + 1 + 1] = more[k + 1 + 1]  BY <2>2, Zenon
    <3>. QED  BY <3>2, <3>3, <3>4, <3>5, Zenon
  <2>. QED  BY <2>1, <2>2
<1>3. G = Nat  BY <1>1, <1>2, AllNaturals
<1>4. n - 1 \in Nat /\ n - 1 + 1 = n /\ n \in 1..n /\ n \in 1..(n + 1) /\ n + 1 \in 1..(n + 1)  BY SMT
<1>5. f[n] = g[n]
  <2>1. n - 1 \in G  BY <1>3, <1>4, Zenon
  <2>2. n - 1 + 1 \in 1..n => f[n - 1 + 1] = g[n - 1 + 1]  BY <2>1
  <2>. QED  BY <1>4, <2>2, Zenon
<1>6. g[n + 1] = g[n] \o more[n + 1]  BY <1>4, Zenon DEF Together
<1>. QED  BY <1>5, <1>6, Zenon

LEMMA TogetherType ==
  ASSUME NEW S, NEW lines, NEW n \in Nat, n # 0, \A i \in 1..n : lines[i] \in Seq(S), NEW f, Together(f, lines, n)
  PROVE  \A k \in Nat : k + 1 \in 1..n => f[k + 1] \in Seq(S)
<1>. DEFINE G == {k \in Nat : k + 1 \in 1..n => f[k + 1] \in Seq(S)}
<1>1. 0 \in G
  <2>1. 1 \in 1..n  BY SMT
  <2>2. f[0 + 1] \in Seq(S)  BY <2>1 DEF Together
  <2>. QED  BY <2>2
<1>2. ASSUME NEW k \in G PROVE k + 1 \in G
  <2>1. k \in Nat /\ k + 1 \in Nat  BY SMT
  <2>2. ASSUME k + 1 + 1 \in 1..n PROVE f[k + 1 + 1] \in Seq(S)
    <3>1. k + 1 \in 1..n  BY <2>1, <2>2, SMT
    <3>2. f[k + 1 + 1] = f[k + 1] \o lines[k + 1 + 1]  BY <2>2, <3>1, Zenon DEF Together
    <3>3. f[k + 1] \in Seq(S)  BY <3>1
    <3>4. lines[k + 1 + 1] \in Seq(S)  BY <2>2, Zenon
    <3>5. f[k + 1] \o lines[k + 1 + 1] \in Seq(S)  BY <3>3, <3>4, ConcatProperties
    <3>. QED  BY <3>2, <3>5, Zenon
  <2>. QED  BY <2>1, <2>2
<1>3. G = Nat
  <2>. HIDE DEF G
  <2>1. G \in SUBSET Nat  BY DEF G
  <2>. QED  BY <1>1, <1>2, <2>1, AllNaturals
<1>. QED  BY <1>3, Zenon

(* A queue of n lines over S, and a line before it. *)
Before(line, rest, n, lines, S) ==
  /\ n \in Nat /\ n # 0 /\ line \in Seq(S) /\ lines[1] = line
  /\ \A i \in 1..n : rest[i] \in Seq(S) /\ lines[i + 1] = rest[i]

(* whole is line and rest put together. *)
Puts(whole, line, rest) == whole = line \o rest

LEMMA TogetherBefore ==
  ASSUME NEW S, NEW rest, NEW n, NEW line, NEW lines, Before(line, rest, n, lines, S),
         NEW f, Together(f, rest, n), NEW g, Together(g, lines, n + 1)
  PROVE  Puts(g[n + 1], line, f[n])
<1>. n \in Nat /\ n # 0 /\ line \in Seq(S) /\ lines[1] = line  BY DEF Before
<1>. \A i \in 1..n : rest[i] \in Seq(S)  BY DEF Before
<1>. \A i \in 1..n : lines[i + 1] = rest[i]  BY DEF Before
<1>0. \A a, b \in Seq(S) : (line \o a) \o b = line \o (a \o b)
  BY ConcatAssociative
<1>. DEFINE G == {k \in Nat : k + 1 \in 1..n => g[k + 2] = line \o f[k + 1]}
<1>1. 0 \in G
  <2>1. 1 \in 1..n /\ 1 \in 1..(n + 1) /\ 1 + 1 \in 1..(n + 1) /\ 1 + 1 = 2  BY SMT
  <2>2. g[1 + 1] = g[1] \o lines[1 + 1]  BY <2>1, Zenon DEF Together
  <2>3. g[1] = line /\ f[1] = rest[1] /\ lines[1 + 1] = rest[1]  BY <2>1, Zenon DEF Together
  <2>4. g[0 + 2] = line \o f[0 + 1]
    <3>1. g[2] = line \o f[1]  BY <2>1, <2>2, <2>3, Zenon
    <3>2. 0 + 2 = 2 /\ 0 + 1 = 1  BY SMT
    <3>. QED  BY <3>1, <3>2, Zenon
  <2>. QED  BY <2>4
<1>2. ASSUME NEW k \in G PROVE k + 1 \in G
  <2>1. k \in Nat /\ k + 1 \in Nat /\ k + 1 + 1 = k + 2 /\ k + 1 + 2 = k + 2 + 1
    BY SMT
  <2>2. ASSUME k + 1 + 1 \in 1..n PROVE g[k + 1 + 2] = line \o f[k + 1 + 1]
    <3>1. k + 1 \in 1..n /\ k + 2 \in 1..n /\ k + 2 \in 1..(n + 1) /\ k + 2 + 1 \in 1..(n + 1)  BY <2>1, <2>2, SMT
    <3>2. f[k + 1 + 1] = f[k + 1] \o rest[k + 1 + 1]  BY <2>2, <3>1, Zenon DEF Together
    <3>3. g[k + 2 + 1] = g[k + 2] \o lines[k + 2 + 1]  BY <3>1, Zenon DEF Together
    <3>4. lines[k + 2 + 1] = rest[k + 1 + 1]
      <4>1. lines[k + 2 + 1] = rest[k + 2]  BY <3>1, Zenon
      <4>. QED  BY <2>1, <4>1, Zenon
    <3>5. g[k + 2] = line \o f[k + 1]  BY <3>1
    <3>6. f[k + 1] \in Seq(S)  BY <2>1, <3>1, TogetherType
    <3>7. rest[k + 1 + 1] \in Seq(S)  BY <2>2, Zenon
    <3>8. (line \o f[k + 1]) \o rest[k + 1 + 1] = line \o (f[k + 1] \o rest[k + 1 + 1])
      BY <1>0, <3>6, <3>7, Zenon
    <3>. QED  BY <2>1, <3>2, <3>3, <3>4, <3>5, <3>8, Zenon
  <2>. QED  BY <2>1, <2>2
<1>3. G = Nat
  <2>. HIDE DEF G
  <2>1. G \in SUBSET Nat  BY DEF G
  <2>. QED  BY <1>1, <1>2, <2>1, AllNaturals
<1>4. n - 1 \in Nat /\ n - 1 + 1 = n /\ n - 1 + 2 = n + 1 /\ n \in 1..n  BY SMT
<1>5. n - 1 \in G  BY <1>3, <1>4, Zenon
<1>6. n - 1 + 1 \in 1..n => g[n - 1 + 2] = line \o f[n - 1 + 1]  BY <1>5
<1>. QED  BY <1>4, <1>6, Zenon DEF Puts

LEMMA JoinEmpty == Join(<<>>) = <<>>
BY DEF Join, FlattenSeq

LEMMA JoinType ==
  ASSUME NEW S, NEW lines \in Seq(Seq(S))
  PROVE  Join(lines) \in Seq(S)
<1>1. CASE lines = <<>>  BY <1>1, JoinEmpty, EmptySeq
<1>2. CASE lines # <<>>
  <2>1. PICK f : Together(f, lines, Len(lines)) /\ Join(lines) = f[Len(lines)]  BY <1>2, JoinIs
  <2>2. Len(lines) \in Nat /\ Len(lines) # 0  BY <1>2, EmptySeq, SMT
  <2>3. \A i \in 1..Len(lines) : lines[i] \in Seq(S)  BY ElementOfSeq
  <2>4. \A k \in Nat : k + 1 \in 1..Len(lines) => f[k + 1] \in Seq(S)  BY <2>1, <2>2, <2>3, TogetherType, Zenon
  <2>5. Len(lines) - 1 \in Nat /\ Len(lines) - 1 + 1 = Len(lines) /\ Len(lines) \in 1..Len(lines)  BY <2>2, SMT
  <2>. QED  BY <2>1, <2>4, <2>5, Zenon
<1>. QED  BY <1>1, <1>2

LEMMA JoinAppend ==
  ASSUME NEW S, NEW lines \in Seq(Seq(S)), NEW line \in Seq(S)
  PROVE  Join(Append(lines, line)) = Join(lines) \o line
<1>. DEFINE more == Append(lines, line)
            n == Len(lines)
<1>1. /\ more \in Seq(Seq(S)) /\ Len(more) = n + 1 /\ n \in Nat /\ more # <<>>
      /\ \A i \in 1..n : lines[i] = more[i]
      /\ more[n + 1] = line
  BY AppendProperties, SMT
<1>. HIDE DEF more
<1>2. PICK g : Together(g, more, n + 1) /\ Join(more) = g[n + 1]  BY <1>1, JoinIs
<1>3. CASE lines = <<>>
  <2>1. n + 1 = 1  BY <1>3
  <2>2. Join(more) = line  BY <1>1, <1>2, <2>1, Zenon DEF Together
  <2>. QED  BY <1>3, <2>2, JoinEmpty, ConcatEmptySeq DEF more
<1>4. CASE lines # <<>>
  <2>1. n # 0  BY <1>4, EmptySeq
  <2>2. PICK f : Together(f, lines, n) /\ Join(lines) = f[n]  BY <1>4, JoinIs
  <2>3. g[n + 1] = f[n] \o more[n + 1]  BY <1>1, <1>2, <2>1, <2>2, TogetherAgrees, Zenon
  <2>. QED  BY <1>1, <1>2, <2>2, <2>3, Zenon DEF more
<1>. QED  BY <1>3, <1>4

LEMMA JoinFirst ==
  ASSUME NEW S, NEW lines \in Seq(Seq(S)), lines # <<>>
  PROVE  Join(lines) = Head(lines) \o Join(Tail(lines))
<1>. DEFINE rest == Tail(lines)
            n == Len(rest)
<1>1. /\ Head(lines) = lines[1] /\ lines[1] \in Seq(S)
      /\ rest \in Seq(Seq(S)) /\ Len(lines) = n + 1 /\ n \in Nat
      /\ \A i \in 1..n : lines[i + 1] = rest[i]
  BY HeadTailProperties, EmptySeq, SMT
<1>. HIDE DEF rest
<1>2. PICK g : Together(g, lines, n + 1) /\ Join(lines) = g[n + 1]  BY <1>1, JoinIs
<1>3. CASE rest = <<>>
  <2>1. n + 1 = 1 /\ Join(rest) = <<>>  BY <1>3, JoinEmpty
  <2>2. Join(lines) = lines[1] /\ lines[1] \o <<>> = lines[1]
    BY <1>1, <1>2, <2>1, ConcatEmptySeq DEF Together
  <2>. QED  BY <1>1, <2>1, <2>2 DEF rest
<1>4. CASE rest # <<>>
  <2>1. n # 0  BY <1>1, <1>4, EmptySeq
  <2>2. PICK f : Together(f, rest, n) /\ Join(rest) = f[n]  BY <1>1, <1>4, JoinIs
  <2>3. \A i \in 1..n : rest[i] \in Seq(S)  BY <1>1, ElementOfSeq
  <2>4. g[n + 1] = lines[1] \o f[n]
    <3>. HIDE DEF n
    <3>1. Before(lines[1], rest, n, lines, S)  BY <1>1, <2>1, <2>3 DEF Before
    <3>2. Puts(g[n + 1], lines[1], f[n])  BY <1>2, <2>2, <3>1, TogetherBefore, Zenon
    <3>. QED  BY <3>2 DEF Puts
  <2>. QED  BY <1>1, <1>2, <2>2, <2>4, Zenon DEF rest
<1>. QED  BY <1>3, <1>4

-----------------------------------------------------------------------------
(* Types, a group of variables at a time. *)

LEMMA NumbersType ==
  ASSUME NEW line \in Lines
  PROVE  Numbers(line) \subseteq 1..MaxTyped
<1>1. \A i \in DOMAIN line : line[i] \in Pieces  BY SMT DEF Lines
<1>2. \A i \in DOMAIN line : line[i].n \in 1..MaxTyped  BY <1>1, Zenon DEF Pieces
<1>. QED  BY <1>2, Zenon DEF Numbers

LEMMA QueueType ==
  ASSUME NEW lines \in Seq(Lines), NEW others \in Seq(Lines), NEW line \in Lines, NEW n \in Nat
  PROVE  /\ Append(lines, line) \in Seq(Lines) /\ lines \o others \in Seq(Lines)
         /\ <<>> \in Seq(Lines) /\ <<line>> \in Seq(Lines)
         /\ lines # <<>> => Head(lines) \in Lines /\ Tail(lines) \in Seq(Lines)
         /\ SubSeq(lines, n + 1, Len(lines)) \in Seq(Lines)
         /\ Len(lines) \in Nat
         /\ Join(lines) \in Lines
<1>. DEFINE L == Lines
<1>1. lines \in Seq(L) /\ others \in Seq(L) /\ line \in L  OBVIOUS
<1>. HIDE DEF L
<1>2. Append(lines, line) \in Seq(L) /\ lines \o others \in Seq(L) /\ <<>> \in Seq(L) /\ <<line>> \in Seq(L)
  BY <1>1
<1>3. lines # <<>> => Head(lines) \in L /\ Tail(lines) \in Seq(L)  BY <1>1
<1>4. Len(lines) \in Nat  BY <1>1
<1>5. SubSeq(lines, n + 1, Len(lines)) \in Seq(L)
  <2>1. \A i \in (n + 1)..Len(lines) : lines[i] \in L  BY <1>1, <1>4
  <2>. QED  BY <1>1, <1>4, <2>1, SubSeqProperties, SMT
<1>6. Join(lines) \in Lines  BY JoinType, Zenon DEF Lines
<1>. QED  BY <1>2, <1>3, <1>4, <1>5, <1>6 DEF L

LEMMA RecordsTyped ==
  /\ \A line \in Lines, do \in {"nothing", "send", "interrupt", "eof"} : [do |-> do, line |-> line] \in Afters
  /\ \A line \in Lines, kind \in {"none", "line", "interrupted"} : [kind |-> kind, line |-> line] \in Replies
BY Zenon DEF Afters, Replies

LEMMA ReplTypesInit == RInit => RTypeOK
<1> SUFFICES ASSUME RInit PROVE RTypeOK
  OBVIOUS
<1>0. <<>> \in Lines /\ <<>> \in Seq(Lines)  BY DEF Lines
<1>1. BoxOK /\ TurnOK
  BY <1>0, Zenon DEF RInit, BoxOK, TurnOK, NoReply, Replies
<1>2. PipeOK
  BY <1>0, Zenon DEF RInit, PipeOK, NoWork, Afters
<1>3. 1 \in 1..MaxSessions /\ 0 \in 0..MaxTyped /\ 0 \in 0..MaxAsks
  BY ReplAssumption, SMT
<1>4. LoopOK
  BY <1>0, <1>3, Zenon DEF RInit, LoopOK
<1>5. DockOK
  <2>1. /\ queue = <<>> /\ ahead = FALSE /\ approvals = "ask"
        /\ footer = [approvals |-> approvals, what |-> IF turning THEN 0 ELSE session]
        /\ turning = FALSE /\ session = 1
    BY Zenon DEF RInit, Footer
  <2>2. (IF turning THEN 0 ELSE session) \in 0..MaxSessions
    <3>1. 1 \in 0..MaxSessions  BY ReplAssumption, SMT
    <3>. QED  BY <2>1, <3>1
  <2>3. footer \in [approvals : {"ask", "auto"}, what : 0..MaxSessions]  BY <2>1, <2>2, Zenon
  <2>. QED  BY <1>0, <2>1, <2>3, Zenon DEF DockOK
<1>6. RecordOK
  BY <1>0, <1>3, Zenon DEF RInit, RecordOK
<1>. QED  BY <1>1, <1>2, <1>4, <1>5, <1>6 DEF RTypeOK

LEMMA StillTyped ==
  ASSUME RTypeOK
  PROVE  /\ UNCHANGED box => BoxOK'
         /\ UNCHANGED pipe => PipeOK'
         /\ UNCHANGED loop => LoopOK'
         /\ UNCHANGED dock => DockOK'
         /\ UNCHANGED turn => TurnOK'
         /\ UNCHANGED record => RecordOK'
<1>1. UNCHANGED box => BoxOK'  BY SMT DEF RTypeOK, BoxOK, box
<1>2. UNCHANGED pipe => PipeOK'  BY Zenon DEF RTypeOK, PipeOK, pipe
<1>3. UNCHANGED loop => LoopOK'
  <2>1. UNCHANGED loop => UNCHANGED <<main, deferred, todo, outcome, quit, turning, configured, session, approvals>>  BY DEF loop
  <2>. QED BY <2>1, Zenon DEF RTypeOK, LoopOK
<1>4. UNCHANGED dock => DockOK'  BY Zenon DEF RTypeOK, DockOK, dock
<1>5. UNCHANGED turn => TurnOK'  BY Zenon DEF RTypeOK, TurnOK, turn
<1>6. UNCHANGED record => RecordOK'  BY Zenon DEF RTypeOK, RecordOK, record
<1>. QED  BY <1>1, <1>2, <1>3, <1>4, <1>5, <1>6, Zenon

LEMMA Parts == RTypeOK' <=> BoxOK' /\ PipeOK' /\ LoopOK' /\ DockOK' /\ TurnOK' /\ RecordOK'
BY DEF RTypeOK

LEMMA OperatorTypes ==
  ASSUME RTypeOK, Operator
  PROVE  RTypeOK'
<1>0. <<>> \in Lines  BY DEF Lines
<1>a. draft \in Lines /\ answer \in Lines /\ question \in {"none", "waits", "up"} /\ held \in BOOLEAN /\ closed \in BOOLEAN
  BY DEF RTypeOK, BoxOK
<1>b. spent \subseteq 1..MaxTyped  BY DEF RTypeOK, RecordOK
<1>c. Numbers(draft) \subseteq 1..MaxTyped /\ Numbers(answer) \subseteq 1..MaxTyped
      /\ draft \o answer \in Lines /\ Numbers(draft \o answer) \subseteq 1..MaxTyped
  <2>1. draft \o answer \in Lines  BY <1>a DEF Lines
  <2>. QED  BY <1>a, <2>1, NumbersType
<1>d. \A line \in Lines : /\ Send(line) \in Afters
                        /\ [kind |-> "line", line |-> line] \in Replies
                        /\ [kind |-> "interrupted", line |-> line] \in Replies
                        /\ [do |-> "interrupt", line |-> line] \in Afters
                        /\ [do |-> "eof", line |-> line] \in Afters
  BY RecordsTyped, Zenon DEF Send
<1>1. CASE Type
  <2>0. keyed \in 0..MaxTyped /\ keyed + 1 \in 1..MaxTyped /\ keyed + 1 \in 0..MaxTyped /\ MaxTyped \in Nat
    BY <1>1, ReplAssumption, SMT DEF Type, RTypeOK, RecordOK
  <2>1. PICK is \in Texts \cup Commands :
          LET piece == [n |-> keyed + 1, is |-> is] IN
          \/ question = "up" /\ answer' = <<piece>> /\ UNCHANGED <<draft, question>>
          \/ Withdrawn(piece) /\ question' = "waits"
          \/ draft' = Append(draft, piece) /\ UNCHANGED <<answer, question>>
    BY <1>1, Zenon DEF Type
  <2>. DEFINE piece == [n |-> keyed + 1, is |-> is]
  <2>2. piece \in Pieces  BY <2>0, Zenon DEF Pieces
  <2>. HIDE DEF piece
  <2>4. <<piece>> \in Lines /\ Append(draft, piece) \in Lines /\ Append(answer, piece) \in Lines
    BY <1>a, <2>2 DEF Lines
  <2>5. BoxOK'
    <3>1. draft' \in Lines /\ answer' \in Lines /\ question' \in {"none", "waits", "up"}
      BY <1>0, <1>a, <2>1, <2>4, Zenon DEF Withdrawn, piece
    <3>. QED  BY <1>a, <1>1, <3>1, Zenon DEF Type, BoxOK
  <2>6. RecordOK'  BY <1>1, <2>0, Zenon DEF Type, RTypeOK, RecordOK
  <2>. QED  BY <1>1, <2>5, <2>6, StillTyped, Parts, Zenon DEF Type
<1>2. CASE Enter
  <2>1. BoxOK'  BY <1>0, <1>a, <1>2, Zenon DEF Enter, TakenDown, BoxOK
  <2>2. PipeOK'  BY <1>a, <1>d, <1>2, Zenon DEF Enter, RTypeOK, PipeOK
  <2>3. TurnOK'  BY <1>a, <1>d, <1>2, Zenon DEF Enter, TakenDown, RTypeOK, TurnOK
  <2>4. RecordOK'  BY <1>b, <1>c, <1>2, Zenon DEF Enter, RTypeOK, RecordOK
  <2>. QED  BY <1>2, <2>1, <2>2, <2>3, <2>4, StillTyped, Parts, Zenon DEF Enter
<1>3. CASE CtrlU
  <2>1. BoxOK'  BY <1>0, <1>a, <1>3, Zenon DEF CtrlU, BoxOK
  <2>2. RecordOK'  BY <1>b, <1>c, <1>3, Zenon DEF CtrlU, RTypeOK, RecordOK
  <2>. QED  BY <1>3, <2>1, <2>2, StillTyped, Parts, Zenon DEF CtrlU
<1>4. CASE CtrlC
  <2>1. BoxOK'  BY <1>0, <1>a, <1>4, Zenon DEF CtrlC, TakenDown, BoxOK
  <2>2. PipeOK'
    <3>1. after' \in {after, [do |-> "interrupt", line |-> <<>>]} /\ UNCHANGED <<reader, in>>
      BY <1>4, Zenon DEF CtrlC, NoWork
    <3>. QED  BY <1>0, <1>d, <3>1, Zenon DEF RTypeOK, PipeOK
  <2>3. TurnOK'
    <3>1. reply' \in {reply, [kind |-> "interrupted", line |-> <<>>]} /\ UNCHANGED <<worker, inbox, cancelled>>
      BY <1>4, Zenon DEF CtrlC, TakenDown
    <3>. QED  BY <1>0, <1>d, <3>1, Zenon DEF RTypeOK, TurnOK
  <2>4. RecordOK'
    <3>1. spent' \in {spent, spent \cup Numbers(answer), spent \cup Numbers(draft)}
          /\ UNCHANGED <<keyed, asked, askedAt, hermes, orphaned>>
      BY <1>4, Zenon DEF CtrlC
    <3>. QED  BY <1>b, <1>c, <3>1, Zenon DEF RTypeOK, RecordOK
  <2>. QED  BY <1>4, <2>1, <2>2, <2>3, <2>4, StillTyped, Parts, Zenon DEF CtrlC
<1>5. CASE CtrlD
  <2>1. PipeOK'  BY <1>0, <1>d, <1>5, Zenon DEF CtrlD, Eof, RTypeOK, PipeOK
  <2>. QED  BY <1>5, <2>1, StillTyped, Parts, Zenon DEF CtrlD
<1>6. CASE StdinClosed
  <2>1. PipeOK'
    <3>1. after' = [do |-> "eof", line |-> <<>>] /\ UNCHANGED <<reader, in>>
      BY <1>6, Zenon DEF StdinClosed, NoWork
    <3>. QED  BY <1>0, <1>d, <3>1, Zenon DEF RTypeOK, PipeOK
  <2>. QED  BY <1>6, <2>1, StillTyped, Parts, Zenon DEF StdinClosed
<1>. QED  BY <1>1, <1>2, <1>3, <1>4, <1>5, <1>6 DEF Operator

LEMMA ReaderTypes ==
  ASSUME RTypeOK, Reader
  PROVE  RTypeOK'
<1>0. <<>> \in Lines /\ Eof \in Lines  BY DEF Lines, Eof
<1>a. reader \in {"reads", "gone"} /\ in \in Seq(Lines) /\ after \in Afters /\ NoWork \in Afters /\ after.line \in Lines
  <2>1. reader \in {"reads", "gone"} /\ in \in Seq(Lines) /\ after \in Afters  BY DEF RTypeOK, PipeOK
  <2>2. NoWork \in Afters  BY <1>0, RecordsTyped, Zenon DEF NoWork
  <2>. QED  BY <2>1, <2>2 DEF Afters
<1>b. Append(in, after.line) \in Seq(Lines) /\ Append(in, Eof) \in Seq(Lines)
  BY <1>0, <1>a, QueueType
<1>c. Numbers(after.line) \subseteq 1..MaxTyped  BY <1>0, <1>a, NumbersType
<1>1. CASE Poll
  <2>1. BoxOK'  BY <1>1, Zenon DEF Poll, RTypeOK, BoxOK
  <2>. QED  BY <1>1, <2>1, StillTyped, Parts, Zenon DEF Poll
<1>2. CASE SendOn
  <2>1. PipeOK'
    <3>1. in' \in {in, Append(in, after.line)} /\ after' = NoWork /\ reader' = reader  BY <1>2, Zenon DEF SendOn
    <3>. QED  BY <1>a, <1>b, <3>1, Zenon DEF PipeOK
  <2>2. RecordOK'
    <3>1. spent' \in {spent, spent \cup Numbers(after.line)} /\ UNCHANGED <<keyed, asked, askedAt, hermes, orphaned>>
      BY <1>2, Zenon DEF SendOn
    <3>. QED  BY <1>c, <3>1, Zenon DEF RTypeOK, RecordOK
  <2>. QED  BY <1>2, <2>1, <2>2, StillTyped, Parts, Zenon DEF SendOn
<1>3. CASE SendEof
  <2>1. PipeOK'  BY <1>3, <1>a, <1>b, Zenon DEF SendEof, PipeOK
  <2>. QED  BY <1>3, <2>1, StillTyped, Parts, Zenon DEF SendEof
<1>4. CASE Interrupt
  <2>1. PipeOK'  BY <1>4, <1>a, Zenon DEF Interrupt, PipeOK
  <2>2. cancelled' \in BOOLEAN
    <3>1. cancelled \in BOOLEAN  BY DEF RTypeOK, TurnOK
    <3>2. cancelled' = cancelled \/ cancelled' = (cancelled \/ worker \in {"runs", "asks"})
      BY <1>4, Zenon DEF Interrupt, Cancel
    <3>. QED  BY <3>1, <3>2, Zenon
  <2>3. TurnOK'  BY <1>4, <2>2, Zenon DEF Interrupt, RTypeOK, TurnOK
  <2>. QED  BY <1>4, <2>1, <2>3, StillTyped, Parts, Zenon DEF Interrupt
<1>5. CASE ReaderStops
  <2>1. PipeOK'  BY <1>5, <1>a, Zenon DEF ReaderStops, PipeOK
  <2>. QED  BY <1>5, <2>1, StillTyped, Parts, Zenon DEF ReaderStops
<1>. QED  BY <1>1, <1>2, <1>3, <1>4, <1>5 DEF Reader

LEMMA TurnTypes ==
  ASSUME RTypeOK, Turn
  PROVE  RTypeOK'
<1>0. <<>> \in Lines /\ <<>> \in Seq(Lines)  BY DEF Lines
<1>a. inbox \in Seq(Lines) /\ queue \in Seq(Lines) /\ hermes \in Lines  BY DEF RTypeOK, TurnOK, DockOK, RecordOK
<1>b. Join(inbox) \in Lines /\ Len(inbox) \in Nat  BY <1>0, <1>a, QueueType
<1>1. CASE BeginTurn
  <2>1. TurnOK'  BY <1>1, Zenon DEF BeginTurn, RTypeOK, TurnOK
  <2>. QED  BY <1>1, <2>1, StillTyped, Parts, Zenon DEF BeginTurn
<1>2. CASE Round
  <2>1. TurnOK'  BY <1>0, <1>2, Zenon DEF Round, Taken, RTypeOK, TurnOK
  <2>2. DockOK'
    <3>1. SubSeq(queue, Len(inbox) + 1, Len(queue)) \in Seq(Lines)  BY <1>0, <1>a, <1>b, QueueType
    <3>2. queue' \in Seq(Lines) /\ footer' = footer /\ ahead' = (ahead \/ main = "queue")
      BY <1>2, <3>1, Zenon DEF Round, Delisted
    <3>3. ahead' \in BOOLEAN  BY <3>2, Zenon
    <3>. QED  BY <3>2, <3>3, Zenon DEF RTypeOK, DockOK
  <2>3. RecordOK'
    <3>1. hermes \o Join(inbox) \in Lines  BY <1>a, <1>b DEF Lines
    <3>. QED  BY <1>2, <3>1, Zenon DEF Round, Taken, RTypeOK, RecordOK
  <2>. QED  BY <1>2, <2>1, <2>2, <2>3, StillTyped, Parts, Zenon DEF Round
<1>3. CASE Ask
  <2>1. BoxOK'
    <3>1. question' \in {"waits", "up"} /\ UNCHANGED <<draft, answer, held, closed>>  BY <1>3, Zenon DEF Ask
    <3>. QED  BY <3>1, Zenon DEF RTypeOK, BoxOK
  <2>2. TurnOK'  BY <1>3, Zenon DEF Ask, RTypeOK, TurnOK
  <2>3. RecordOK'
    <3>1. asked' \in 0..MaxAsks /\ askedAt' \in 0..MaxTyped
      BY <1>3, ReplAssumption, SMT DEF Ask, RTypeOK, RecordOK
    <3>. QED  BY <1>3, <3>1, Zenon DEF Ask, RTypeOK, RecordOK
  <2>. QED  BY <1>3, <2>1, <2>2, <2>3, StillTyped, Parts, Zenon DEF Ask
<1>4. CASE Answered
  <2>1. TurnOK'
    <3>1. NoReply \in Replies  BY <1>0, RecordsTyped, Zenon DEF NoReply
    <3>. QED  BY <1>4, <3>1, Zenon DEF Answered, RTypeOK, TurnOK
  <2>2. RecordOK'
    <3>1. askedAt' \in 0..MaxTyped  BY <1>4, ReplAssumption, SMT DEF Answered
    <3>. QED  BY <1>4, <3>1, Zenon DEF Answered, RTypeOK, RecordOK
  <2>. QED  BY <1>4, <2>1, <2>2, StillTyped, Parts, Zenon DEF Answered
<1>5. CASE End
  <2>1. TurnOK'  BY <1>5, Zenon DEF End, RTypeOK, TurnOK
  <2>2. LoopOK'
    <3>1. outcome' \in {"", "cut"}  BY <1>5, Zenon DEF End
    <3>. QED  BY <1>5, <3>1, Zenon DEF End, Switches, RTypeOK, LoopOK
  <2>. QED  BY <1>5, <2>1, <2>2, StillTyped, Parts, Zenon DEF End
<1>. QED  BY <1>1, <1>2, <1>3, <1>4, <1>5 DEF Turn

LEMMA CommandTypes ==
  ASSUME RTypeOK, NEW name, Command(name)
  PROVE  /\ quit' \in BOOLEAN /\ configured' \in BOOLEAN /\ held' \in BOOLEAN
         /\ session' \in 1..MaxSessions /\ approvals' \in {"ask", "auto"}
<1>a. quit \in BOOLEAN /\ configured \in BOOLEAN /\ held \in BOOLEAN
      /\ session \in 1..MaxSessions /\ approvals \in {"ask", "auto"}
  BY DEF RTypeOK, LoopOK, BoxOK
<1>1. quit' \in {quit, TRUE} /\ held' \in {held, TRUE} /\ configured' \in {configured, TRUE}
  BY Zenon DEF Command, Switches, Use, Check
<1>2. Approve \cup {Yolo} \subseteq {"ask", "auto"}  BY Zenon DEF Approve, Yolo
<1>3. NewSession \cup SwitchTo \cup Fork \subseteq 1..MaxSessions
  <2>1. NewSession \subseteq 1..MaxSessions  BY Zenon DEF NewSession
  <2>2. SwitchTo \subseteq 1..MaxSessions  BY <1>a, ReplAssumption, SMT DEF SwitchTo
  <2>. QED  BY <2>1, <2>2, Zenon DEF Fork
<1>4. \/ UNCHANGED <<session, approvals>>
      \/ session' = session /\ approvals' \in Approve \cup {Yolo}
      \/ \E s \in NewSession \cup SwitchTo \cup Fork : session' = s /\ approvals' = "ask"
  BY Zenon DEF Command, Switches, Use
<1>. QED  BY <1>a, <1>1, <1>2, <1>3, <1>4, Zenon

Mains == {"loop", "queue", "after", "setup", "setup, then after", "wait", "stop", "ended"}

LEMMA HandleTypes ==
  ASSUME RTypeOK, NEW line \in Lines, Handle(line)
  PROVE  /\ quit' \in BOOLEAN /\ configured' \in BOOLEAN /\ held' \in BOOLEAN
         /\ session' \in 1..MaxSessions /\ approvals' \in {"ask", "auto"}
         /\ main' \in Mains /\ turning' \in BOOLEAN /\ hermes' \in Lines /\ spent' \subseteq 1..MaxTyped
         /\ worker' \in {"none", "starts", "runs", "asks", "ended"}
<1>a. quit \in BOOLEAN /\ configured \in BOOLEAN /\ held \in BOOLEAN
      /\ session \in 1..MaxSessions /\ approvals \in {"ask", "auto"} /\ main \in Mains /\ turning \in BOOLEAN
  BY DEF RTypeOK, LoopOK, BoxOK, Mains
<1>b. hermes \in Lines /\ spent \subseteq 1..MaxTyped /\ worker \in {"none", "starts", "runs", "asks", "ended"}
  BY DEF RTypeOK, RecordOK, TurnOK
<1>c. Numbers(line) \subseteq 1..MaxTyped /\ hermes \o line \in Lines
  BY <1>b, NumbersType DEF Lines
<1>1. \/ Command(Kind(line)) /\ Goes(Kind(line)) /\ spent' = spent \cup Numbers(line) /\ UNCHANGED <<turning, worker, hermes>>
      \/ /\ spent' = spent \cup Numbers(line) /\ main' = "loop"
         /\ UNCHANGED <<turning, worker, hermes, quit, Switches, held>>
      \/ StartTurn(line) /\ main' = "loop"
  BY Zenon DEF Handle
<1>2. CASE Command(Kind(line)) /\ Goes(Kind(line)) /\ spent' = spent \cup Numbers(line) /\ UNCHANGED <<turning, worker, hermes>>
  <2>1. main' \in {"setup", "setup, then after", main}  BY <1>2, Zenon DEF Goes
  <2>2. main' \in Mains  BY <1>a, <2>1, Zenon DEF Mains
  <2>. QED  BY <1>a, <1>b, <1>c, <1>2, <2>2, CommandTypes, Zenon
<1>3. CASE /\ spent' = spent \cup Numbers(line) /\ main' = "loop"
           /\ UNCHANGED <<turning, worker, hermes, quit, Switches, held>>
  <2>1. main' \in Mains  BY <1>3, Zenon DEF Mains
  <2>. QED  BY <1>a, <1>b, <1>c, <1>3, <2>1, Zenon DEF Switches
<1>4. CASE StartTurn(line) /\ main' = "loop"
  <2>1. main' \in Mains  BY <1>4, Zenon DEF Mains
  <2>. QED  BY <1>a, <1>b, <1>c, <1>4, <2>1, Zenon DEF StartTurn
<1>. QED  BY <1>1, <1>2, <1>3, <1>4

LEMMA FooterTypes == LoopOK' => Footer' \in [approvals : {"ask", "auto"}, what : 0..MaxSessions]
<1>. SUFFICES ASSUME LoopOK' PROVE Footer' \in [approvals : {"ask", "auto"}, what : 0..MaxSessions]  OBVIOUS
<1>1. session' \in 1..MaxSessions /\ approvals' \in {"ask", "auto"}  BY Zenon DEF LoopOK
<1>2. 0 \in 0..MaxSessions /\ session' \in 0..MaxSessions  BY <1>1, ReplAssumption, SMT
<1>3. (IF turning' THEN 0 ELSE session') \in 0..MaxSessions  BY <1>2
<1>. QED  BY <1>1, <1>3, Zenon DEF Footer

LEMMA LoopTypes ==
  ASSUME RTypeOK, Loop
  PROVE  RTypeOK'
<1>0. <<>> \in Lines /\ <<>> \in Seq(Lines)  BY DEF Lines
<1>a. in \in Seq(Lines) /\ deferred \in Seq(Lines) /\ todo \in Seq(Lines) /\ inbox \in Seq(Lines) /\ queue \in Seq(Lines)
      /\ draft \in Lines
  BY DEF RTypeOK, PipeOK, LoopOK, TurnOK, DockOK, BoxOK
<1>b. /\ in # <<>> => /\ Head(in) \in Lines /\ Tail(in) \in Seq(Lines) /\ <<Head(in)>> \in Seq(Lines)
                      /\ Append(deferred, Head(in)) \in Seq(Lines) /\ Append(inbox, Head(in)) \in Seq(Lines)
      /\ todo # <<>> => Head(todo) \in Lines /\ Tail(todo) \in Seq(Lines)
      /\ queue \o todo \in Seq(Lines) /\ Join(inbox) \in Lines
  <2>1. in # <<>> => Head(in) \in Lines /\ Tail(in) \in Seq(Lines)  BY <1>0, <1>a, QueueType
  <2>2. todo # <<>> => Head(todo) \in Lines /\ Tail(todo) \in Seq(Lines)  BY <1>0, <1>a, QueueType
  <2>3. ASSUME in # <<>>
        PROVE  /\ <<Head(in)>> \in Seq(Lines)
               /\ Append(deferred, Head(in)) \in Seq(Lines) /\ Append(inbox, Head(in)) \in Seq(Lines)
    BY <1>0, <1>a, <2>1, <2>3, QueueType
  <2>4. queue \o todo \in Seq(Lines) /\ Join(inbox) \in Lines  BY <1>0, <1>a, QueueType
  <2>. QED  BY <2>1, <2>2, <2>3, <2>4
<1>1. CASE ReceiveEof
  <2>1. LoopOK'  BY <1>1, Zenon DEF ReceiveEof, Switches, RTypeOK, LoopOK
  <2>2. PipeOK'  BY <1>1, <1>b, Zenon DEF ReceiveEof, Receives, RTypeOK, PipeOK
  <2>. QED  BY <1>1, <2>1, <2>2, StillTyped, Parts, Zenon DEF ReceiveEof
<1>2. CASE Receive
  <2>1. in # <<>> /\ Handle(Head(in)) /\ in' = Tail(in)
        /\ UNCHANGED <<draft, answer, question, closed, reader, after, deferred, todo, outcome, queue, ahead,
                       reply, inbox, cancelled, keyed, asked, askedAt, orphaned>>
        /\ footer' = Footer'
    BY <1>2, Zenon DEF Receive, Receives, Refreshed
  <2>2. /\ quit' \in BOOLEAN /\ configured' \in BOOLEAN /\ held' \in BOOLEAN
        /\ session' \in 1..MaxSessions /\ approvals' \in {"ask", "auto"}
        /\ main' \in Mains /\ turning' \in BOOLEAN /\ hermes' \in Lines /\ spent' \subseteq 1..MaxTyped
        /\ worker' \in {"none", "starts", "runs", "asks", "ended"}
    BY <1>b, <2>1, HandleTypes, Zenon
  <2>3. BoxOK'  BY <2>1, <2>2, Zenon DEF RTypeOK, BoxOK
  <2>4. PipeOK'  BY <1>b, <2>1, Zenon DEF RTypeOK, PipeOK
  <2>5. LoopOK'  BY <2>1, <2>2, Zenon DEF RTypeOK, LoopOK, Mains
  <2>6. DockOK'  BY <2>1, <2>5, FooterTypes, Zenon DEF RTypeOK, DockOK
  <2>7. TurnOK'  BY <2>1, <2>2, Zenon DEF RTypeOK, TurnOK
  <2>8. RecordOK'  BY <2>1, <2>2, Zenon DEF RTypeOK, RecordOK
  <2>. QED  BY <2>3, <2>4, <2>5, <2>6, <2>7, <2>8, Parts
<1>3. CASE ReceiveCommand
  <2>1. in # <<>> /\ in' = Tail(in)
        /\ UNCHANGED <<draft, answer, question, closed, reader, after, main, todo, outcome, turning, queue, ahead,
                       worker, reply, inbox, cancelled, keyed, asked, askedAt, hermes, orphaned>>
        /\ footer' \in {footer, Footer'}
        /\ \/ Command(Kind(Head(in))) /\ spent' = spent \cup Numbers(Head(in)) /\ UNCHANGED deferred
           \/ deferred' = Append(deferred, Head(in)) /\ UNCHANGED <<quit, Switches, held, spent>>
    <3>1. footer' \in {footer, Footer'}  BY <1>3, Zenon DEF ReceiveCommand, Refreshed
    <3>. QED  BY <1>3, <3>1, Zenon DEF ReceiveCommand, Receives, turn
  <2>2. quit' \in BOOLEAN /\ configured' \in BOOLEAN /\ held' \in BOOLEAN
        /\ session' \in 1..MaxSessions /\ approvals' \in {"ask", "auto"}
    <3>1. CASE Command(Kind(Head(in)))  BY <3>1, CommandTypes, Zenon
    <3>2. CASE UNCHANGED <<quit, Switches, held>>  BY <3>2, Zenon DEF Switches, RTypeOK, LoopOK, BoxOK
    <3>. QED  BY <2>1, <3>1, <3>2, Zenon
  <2>3. spent' \subseteq 1..MaxTyped /\ deferred' \in Seq(Lines)
    <3>1. Numbers(Head(in)) \subseteq 1..MaxTyped  BY <1>b, <2>1, NumbersType
    <3>. QED  BY <1>a, <1>b, <2>1, <3>1, Zenon DEF RTypeOK, RecordOK
  <2>4. BoxOK'  BY <2>1, <2>2, Zenon DEF RTypeOK, BoxOK
  <2>5. PipeOK'  BY <1>b, <2>1, Zenon DEF RTypeOK, PipeOK
  <2>6. LoopOK'  BY <2>1, <2>2, <2>3, Zenon DEF RTypeOK, LoopOK
  <2>7. DockOK'
    <3>1. footer' \in [approvals : {"ask", "auto"}, what : 0..MaxSessions]
      BY <2>1, <2>6, FooterTypes, Zenon DEF RTypeOK, DockOK
    <3>. QED  BY <2>1, <3>1, Zenon DEF RTypeOK, DockOK
  <2>8. TurnOK'  BY <2>1, Zenon DEF RTypeOK, TurnOK
  <2>9. RecordOK'  BY <2>1, <2>3, Zenon DEF RTypeOK, RecordOK
  <2>. QED  BY <2>4, <2>5, <2>6, <2>7, <2>8, <2>9, Parts
<1>4. CASE ReceiveText
  <2>1. PipeOK'  BY <1>4, <1>b, Zenon DEF ReceiveText, Receives, RTypeOK, PipeOK
  <2>2. LoopOK'  BY <1>4, <1>b, Zenon DEF ReceiveText, Receives, Switches, RTypeOK, LoopOK
  <2>3. TurnOK'  BY <1>4, <1>b, Zenon DEF ReceiveText, Receives, RTypeOK, TurnOK
  <2>. QED  BY <1>4, <2>1, <2>2, <2>3, StillTyped, Parts, Zenon DEF ReceiveText
<1>5. CASE Listed
  <2>1. LoopOK'  BY <1>0, <1>5, Zenon DEF Listed, Switches, RTypeOK, LoopOK
  <2>2. DockOK'  BY <1>5, <1>b, Zenon DEF Listed, Listing, RTypeOK, DockOK
  <2>. QED  BY <1>5, <2>1, <2>2, StillTyped, Parts, Zenon DEF Listed
<1>6. CASE TurnDone
  <2>1. LoopOK'  BY <1>0, <1>6, Zenon DEF TurnDone, Switches, RTypeOK, LoopOK
  <2>2. DockOK'  BY <1>0, <1>6, Zenon DEF TurnDone, RTypeOK, DockOK
  <2>3. TurnOK'  BY <1>6, Zenon DEF TurnDone, RTypeOK, TurnOK
  <2>. QED  BY <1>6, <2>1, <2>2, <2>3, StillTyped, Parts, Zenon DEF TurnDone
<1>7. CASE Deferred
  <2>1. todo # <<>> /\ Handle(Head(todo)) /\ todo' = Tail(todo)
        /\ UNCHANGED <<draft, answer, question, closed, pipe, deferred, outcome, queue, ahead,
                       reply, inbox, cancelled, keyed, asked, askedAt, orphaned>>
        /\ footer' = Footer'
    BY <1>7, Zenon DEF Deferred, Refreshed
  <2>2. /\ quit' \in BOOLEAN /\ configured' \in BOOLEAN /\ held' \in BOOLEAN
        /\ session' \in 1..MaxSessions /\ approvals' \in {"ask", "auto"}
        /\ main' \in Mains /\ turning' \in BOOLEAN /\ hermes' \in Lines /\ spent' \subseteq 1..MaxTyped
        /\ worker' \in {"none", "starts", "runs", "asks", "ended"}
    BY <1>b, <2>1, HandleTypes, Zenon
  <2>3. BoxOK'  BY <2>1, <2>2, Zenon DEF RTypeOK, BoxOK
  <2>4. PipeOK'  BY <2>1, StillTyped, Zenon
  <2>5. LoopOK'  BY <1>b, <2>1, <2>2, Zenon DEF RTypeOK, LoopOK, Mains
  <2>6. DockOK'  BY <2>1, <2>5, FooterTypes, Zenon DEF RTypeOK, DockOK
  <2>7. TurnOK'  BY <2>1, <2>2, Zenon DEF RTypeOK, TurnOK
  <2>8. RecordOK'  BY <2>1, <2>2, Zenon DEF RTypeOK, RecordOK
  <2>. QED  BY <2>3, <2>4, <2>5, <2>6, <2>7, <2>8, Parts
<1>8. CASE Left
  <2>1. inbox' = <<>> /\ outcome' = ""
        /\ UNCHANGED <<answer, question, closed, pipe, deferred, todo, queue, ahead,
                       reply, cancelled, keyed, asked, askedAt, orphaned>>
        /\ footer' = Footer'
        /\ \/ Handle(Join(inbox)) /\ UNCHANGED draft
           \/ draft' = Join(inbox) \o draft /\ main' = "loop"
              /\ UNCHANGED <<turning, worker, hermes, quit, Switches, held, spent>>
    BY <1>8, Zenon DEF Left, Refreshed, PutBack
  <2>2. /\ quit' \in BOOLEAN /\ configured' \in BOOLEAN /\ held' \in BOOLEAN
        /\ session' \in 1..MaxSessions /\ approvals' \in {"ask", "auto"}
        /\ main' \in Mains /\ turning' \in BOOLEAN /\ hermes' \in Lines /\ spent' \subseteq 1..MaxTyped
        /\ worker' \in {"none", "starts", "runs", "asks", "ended"} /\ draft' \in Lines
    <3>1. CASE Handle(Join(inbox)) /\ UNCHANGED draft  BY <1>a, <1>b, <3>1, HandleTypes, Zenon
    <3>2. CASE draft' = Join(inbox) \o draft /\ main' = "loop"
               /\ UNCHANGED <<turning, worker, hermes, quit, Switches, held, spent>>
      <4>1. draft' \in Lines  BY <1>a, <1>b, <3>2 DEF Lines
      <4>2. main' \in Mains  BY <3>2, Zenon DEF Mains
      <4>3. /\ quit' \in BOOLEAN /\ configured' \in BOOLEAN /\ turning' \in BOOLEAN
            /\ session' \in 1..MaxSessions /\ approvals' \in {"ask", "auto"}
        BY <3>2, Zenon DEF Switches, RTypeOK, LoopOK
      <4>4. held' \in BOOLEAN  BY <3>2, Zenon DEF RTypeOK, BoxOK
      <4>5. hermes' \in Lines /\ spent' \subseteq 1..MaxTyped  BY <3>2, Zenon DEF RTypeOK, RecordOK
      <4>6. worker' \in {"none", "starts", "runs", "asks", "ended"}  BY <3>2, Zenon DEF RTypeOK, TurnOK
      <4>. QED  BY <4>1, <4>2, <4>3, <4>4, <4>5, <4>6
    <3>. QED  BY <2>1, <3>1, <3>2
  <2>3. BoxOK'  BY <2>1, <2>2, Zenon DEF RTypeOK, BoxOK
  <2>4. PipeOK'  BY <2>1, StillTyped, Zenon
  <2>5. LoopOK'  BY <2>1, <2>2, Zenon DEF RTypeOK, LoopOK, Mains
  <2>6. DockOK'  BY <2>1, <2>5, FooterTypes, Zenon DEF RTypeOK, DockOK
  <2>7. TurnOK'  BY <1>0, <2>1, <2>2, Zenon DEF RTypeOK, TurnOK
  <2>8. RecordOK'  BY <2>1, <2>2, Zenon DEF RTypeOK, RecordOK
  <2>. QED  BY <2>3, <2>4, <2>5, <2>6, <2>7, <2>8, Parts
<1>9. CASE SetupDone
  <2>1. /\ main' \in {"loop", "after"} /\ held' = FALSE
        /\ UNCHANGED <<draft, answer, question, closed, pipe, deferred, todo, outcome, quit, turning, queue, ahead,
                       worker, reply, cancelled, keyed, asked, askedAt, hermes, spent>>
        /\ footer' = Footer'
        /\ \/ UNCHANGED <<configured, session, approvals, inbox, orphaned>>
           \/ /\ configured' = TRUE /\ session' \in 1..MaxSessions /\ approvals' = "ask"
              /\ inbox' = <<>> /\ orphaned' = orphaned \cup Numbers(Join(inbox))
    BY <1>9, Zenon DEF SetupDone, Refreshed, Use, Switches
  <2>2. main' \in Mains  BY <2>1, Zenon DEF Mains
  <2>3. Numbers(Join(inbox)) \subseteq 1..MaxTyped  BY <1>b, NumbersType
  <2>4. BoxOK'  BY <2>1, Zenon DEF RTypeOK, BoxOK
  <2>5. PipeOK'  BY <2>1, StillTyped, Zenon
  <2>6. LoopOK'
    <3>1. configured' \in BOOLEAN /\ session' \in 1..MaxSessions /\ approvals' \in {"ask", "auto"}
      BY <2>1, Zenon DEF RTypeOK, LoopOK
    <3>. QED  BY <2>1, <2>2, <3>1, Zenon DEF RTypeOK, LoopOK, Mains
  <2>7. DockOK'  BY <2>1, <2>6, FooterTypes, Zenon DEF RTypeOK, DockOK
  <2>8. TurnOK'  BY <1>0, <2>1, Zenon DEF RTypeOK, TurnOK
  <2>9. RecordOK'  BY <2>1, <2>3, Zenon DEF RTypeOK, RecordOK
  <2>. QED  BY <2>4, <2>5, <2>6, <2>7, <2>8, <2>9, Parts
<1>10. CASE Quit
  <2>1. BoxOK'
    <3>1. closed' \in {closed, TRUE} /\ UNCHANGED <<draft, answer, question, held>>  BY <1>10, Zenon DEF Quit
    <3>. QED  BY <3>1, Zenon DEF RTypeOK, BoxOK
  <2>2. LoopOK'
    <3>1. main' \in {"wait", "stop"} /\ UNCHANGED <<deferred, todo, outcome, quit, turning, Switches>>
      BY <1>10, Zenon DEF Quit
    <3>. QED  BY <3>1, Zenon DEF Switches, RTypeOK, LoopOK
  <2>3. TurnOK'
    <3>1. cancelled' = cancelled \/ cancelled' = (cancelled \/ worker \in {"runs", "asks"})
      BY <1>10, Zenon DEF Quit, Cancel
    <3>2. cancelled' \in BOOLEAN  BY <3>1, Zenon DEF RTypeOK, TurnOK
    <3>. QED  BY <1>10, <3>2, Zenon DEF Quit, RTypeOK, TurnOK
  <2>. QED  BY <1>10, <2>1, <2>2, <2>3, StillTyped, Parts, Zenon DEF Quit
<1>11. CASE Waited
  <2>1. BoxOK'  BY <1>11, Zenon DEF Waited, RTypeOK, BoxOK
  <2>2. LoopOK'  BY <1>11, Zenon DEF Waited, Switches, RTypeOK, LoopOK
  <2>3. TurnOK'  BY <1>11, Zenon DEF Waited, RTypeOK, TurnOK
  <2>. QED  BY <1>11, <2>1, <2>2, <2>3, StillTyped, Parts, Zenon DEF Waited
<1>12. CASE Ends
  <2>1. LoopOK'  BY <1>12, Zenon DEF Ends, Switches, RTypeOK, LoopOK
  <2>. QED  BY <1>12, <2>1, StillTyped, Parts, Zenon DEF Ends
<1>. QED  BY <1>1, <1>2, <1>3, <1>4, <1>5, <1>6, <1>7, <1>8, <1>9, <1>10, <1>11, <1>12 DEF Loop

LEMMA ReplTypesStep == RTypeOK /\ [RNext]_rvars => RTypeOK'
<1> SUFFICES ASSUME RTypeOK, [RNext]_rvars PROVE RTypeOK'
  OBVIOUS
<1>1. CASE UNCHANGED rvars
  <2>1. UNCHANGED <<box, pipe, loop, dock, turn, record>>  BY <1>1 DEF rvars
  <2>. QED  BY <2>1, StillTyped, Parts, Zenon
<1>. QED  BY <1>1, OperatorTypes, ReaderTypes, LoopTypes, TurnTypes DEF RNext

(* Every reachable state of the REPL has its type. *)
THEOREM ReplTypeCorrect == RSpec => []RTypeOK
BY ReplTypesInit, ReplTypesStep, PTL DEF RSpec

-----------------------------------------------------------------------------
(* Where the loop is. *)

LEMMA DeferrableLines ==
  ASSUME NEW lines \in Seq(Lines), AllDeferrable(lines), NEW line
  PROVE  /\ AllDeferrable(<<>>)
         /\ Kind(line) \in Deferrable => AllDeferrable(Append(lines, line))
         /\ lines # <<>> => Kind(Head(lines)) \in Deferrable /\ AllDeferrable(Tail(lines))
<1>1. AllDeferrable(<<>>)  BY DEF AllDeferrable
<1>. DEFINE Ok(l) == Kind(l) \in Deferrable
            L == Lines
<1>2. lines \in Seq(L) /\ \A i \in DOMAIN lines : Ok(lines[i])  BY DEF AllDeferrable
<1>. HIDE DEF Ok, L
<1>3. Ok(line) => \A i \in DOMAIN Append(lines, line) : Ok(Append(lines, line)[i])  BY <1>2
<1>4. lines # <<>> => Ok(Head(lines)) /\ \A i \in DOMAIN Tail(lines) : Ok(Tail(lines)[i])  BY <1>2
<1>. QED  BY <1>1, <1>3, <1>4 DEF Ok, AllDeferrable

LEMMA NotBoth == \A kind : kind \in Deferrable => kind \notin Texts /\ kind \notin LiveCommands \cup {"/unknown"}
BY Zenon DEF Deferrable, Texts, LiveCommands

(* What comes of a line, between turns. *)
LEMMA HandleGoes ==
  ASSUME NEW line, Handle(line)
  PROVE  \/ /\ Kind(line) \notin Texts /\ UNCHANGED <<turning, worker>>
            /\ main' \in {main} \cup (IF main = "loop" THEN {"setup"} ELSE {"setup, then after"})
         \/ Kind(line) \in Texts /\ UNCHANGED <<turning, worker>> /\ main' = "loop"
         \/ Kind(line) \in Texts /\ turning' = TRUE /\ worker' = "starts" /\ main' = "loop"
<1>1. CASE Kind(line) \notin Texts /\ Goes(Kind(line)) /\ UNCHANGED <<turning, worker>>
  <2>1. main' \in {main} \cup (IF main = "loop" THEN {"setup"} ELSE {"setup, then after"})
    <3>1. CASE main = "loop"  BY <1>1, <3>1, Zenon DEF Goes
    <3>2. CASE main # "loop"  BY <1>1, <3>2, Zenon DEF Goes
    <3>. QED  BY <3>1, <3>2
  <2>. QED  BY <1>1, <2>1, Zenon
<1>2. CASE Kind(line) \in Texts /\ UNCHANGED <<turning, worker>> /\ main' = "loop"
  BY <1>2
<1>3. CASE Kind(line) \in Texts /\ StartTurn(line) /\ main' = "loop"
  BY <1>3, Zenon DEF StartTurn
<1>. QED  BY <1>1, <1>2, <1>3, Zenon DEF Handle

LEMMA StillPhased ==
  ASSUME Phased, UNCHANGED <<worker, turning, main, todo, deferred, inbox>>
  PROVE  Phased'
BY Zenon DEF Phased, AllDeferrable

LEMMA PhasedInit == RInit => Phased
<1>1. AllDeferrable(<<>>)  BY DEF AllDeferrable
<1>. QED  BY <1>1, Zenon DEF RInit, Phased

LEMMA PhasedStep ==
  ASSUME RTypeOK, Phased, [RNext]_rvars
  PROVE  Phased'
<1>a. deferred \in Seq(Lines) /\ todo \in Seq(Lines)  BY DEF RTypeOK, LoopOK
<1>1. CASE UNCHANGED rvars
  BY <1>1, StillPhased, Zenon DEF rvars, loop, turn
<1>2. CASE Operator
  <2>1. UNCHANGED <<worker, turning, main, todo, deferred, inbox>>
    BY <1>2, Zenon DEF Operator, Type, Enter, CtrlU, CtrlC, CtrlD, StdinClosed, loop, turn
  <2>. QED  BY <2>1, StillPhased, Zenon
<1>3. CASE Reader
  <2>1. UNCHANGED <<worker, turning, main, todo, deferred, inbox>>
    BY <1>3, Zenon DEF Reader, Poll, SendOn, SendEof, Interrupt, ReaderStops, loop, turn
  <2>. QED  BY <2>1, StillPhased, Zenon
<1>4. CASE Turn
  <2>1. UNCHANGED <<turning, main, todo, deferred>> /\ inbox' \in {inbox, <<>>} /\ worker # "none"
    BY <1>4, Zenon DEF Turn, BeginTurn, Round, Taken, Ask, Answered, End, loop, turn, Switches
  <2>. QED  BY <2>1, Zenon DEF Phased
<1>5. CASE ReceiveEof
  <2>1. UNCHANGED <<worker, turning, main, todo, deferred, inbox>>
    BY <1>5, Zenon DEF ReceiveEof, turn
  <2>. QED  BY <2>1, StillPhased, Zenon
<1>6. CASE Receive
  <2>1. Handle(Head(in)) /\ main = "loop" /\ ~turning /\ UNCHANGED <<todo, deferred, inbox>>
    BY <1>6, Zenon DEF Receive, Receives
  <2>2. worker = "none" /\ todo = <<>> /\ inbox = <<>> /\ AllDeferrable(deferred)  BY <2>1, Zenon DEF Phased
  <2>3. \/ worker' = worker /\ turning' = turning /\ main' \in {"loop", "setup"}
        \/ turning' = TRUE /\ main' = "loop"
    BY <2>1, HandleGoes, Zenon
  <2>4. CASE worker' = worker /\ turning' = turning /\ main' \in {"loop", "setup"}
    BY <2>1, <2>2, <2>4, Zenon DEF Phased
  <2>5. CASE turning' = TRUE /\ main' = "loop"
    BY <2>1, <2>2, <2>5, Zenon DEF Phased
  <2>. QED  BY <2>3, <2>4, <2>5
<1>7. CASE ReceiveCommand
  <2>1. UNCHANGED <<worker, turning, main, todo, inbox>> /\ main = "loop"
        /\ (deferred' = deferred \/ (Kind(Head(in)) \in Deferrable /\ deferred' = Append(deferred, Head(in))))
    BY <1>7, Zenon DEF ReceiveCommand, Receives, turn
  <2>2. AllDeferrable(deferred')  BY <1>a, <2>1, DeferrableLines, Zenon DEF Phased
  <2>. QED  BY <2>1, <2>2, Zenon DEF Phased
<1>8. CASE ReceiveText
  <2>1. turning /\ main' = "queue" /\ UNCHANGED <<worker, turning, deferred>>
    BY <1>8, Zenon DEF ReceiveText
  <2>. QED  BY <2>1, Zenon DEF Phased
<1>9. CASE Listed
  <2>1. main = "queue" /\ main' = "loop" /\ todo' = <<>> /\ UNCHANGED <<worker, turning, deferred, inbox>>
    BY <1>9, Zenon DEF Listed, turn
  <2>. QED  BY <2>1, Zenon DEF Phased
<1>10. CASE TurnDone
  <2>1. worker' = "none" /\ turning' = FALSE /\ todo' = deferred /\ deferred' = <<>> /\ main' = "after"
    BY <1>10, Zenon DEF TurnDone
  <2>2. AllDeferrable(deferred') /\ AllDeferrable(todo')  BY <1>a, <2>1, DeferrableLines, Zenon DEF Phased
  <2>. QED  BY <2>1, <2>2, Zenon DEF Phased
<1>11. CASE Deferred
  <2>1. main = "after" /\ todo # <<>> /\ todo' = Tail(todo) /\ Handle(Head(todo)) /\ UNCHANGED <<deferred, inbox>>
    BY <1>11, Zenon DEF Deferred
  <2>2. ~turning /\ deferred = <<>> /\ AllDeferrable(todo)  BY <2>1, Zenon DEF Phased
  <2>3. Kind(Head(todo)) \notin Texts /\ AllDeferrable(Tail(todo))
    BY <1>a, <2>1, <2>2, DeferrableLines, NotBoth, Zenon
  <2>4. UNCHANGED <<turning, worker>> /\ main' \in {"after", "setup, then after"}
    BY <2>1, <2>3, HandleGoes, Zenon
  <2>. QED  BY <2>1, <2>2, <2>3, <2>4, Zenon DEF Phased
<1>12. CASE Left
  <2>1. /\ main = "after" /\ todo = <<>> /\ inbox' = <<>> /\ UNCHANGED <<deferred, todo>>
        /\ Handle(Join(inbox)) \/ (main' = "loop" /\ UNCHANGED <<turning, worker>>)
    BY <1>12, Zenon DEF Left
  <2>2. ~turning /\ worker = "none" /\ deferred = <<>> /\ AllDeferrable(todo)  BY <2>1, Zenon DEF Phased
  <2>3. \/ UNCHANGED <<turning, worker>> /\ main' \in {"after", "setup, then after", "loop"}
        \/ turning' = TRUE /\ main' = "loop"
    BY <2>1, HandleGoes, Zenon
  <2>4. CASE UNCHANGED <<turning, worker>> /\ main' \in {"after", "setup, then after", "loop"}
    BY <2>1, <2>2, <2>4, Zenon DEF Phased
  <2>5. CASE turning' = TRUE /\ main' = "loop"
    BY <2>1, <2>2, <2>5, Zenon DEF Phased
  <2>. QED  BY <2>3, <2>4, <2>5
<1>13. CASE SetupDone
  <2>1. /\ main' = IF main = "setup" THEN "loop" ELSE "after"
        /\ main \in {"setup", "setup, then after"}
        /\ UNCHANGED <<deferred, todo, turning, worker>> /\ inbox' \in {inbox, <<>>}
    BY <1>13, Zenon DEF SetupDone
  <2>2. CASE main = "setup"
    <3>1. main' = "loop"  BY <2>1, <2>2, Zenon
    <3>. QED  BY <2>1, <2>2, <3>1, Zenon DEF Phased
  <2>3. CASE main # "setup"
    <3>1. main' = "after" /\ main = "setup, then after"  BY <2>1, <2>3, Zenon
    <3>. QED  BY <2>1, <3>1, Zenon DEF Phased
  <2>. QED  BY <2>2, <2>3
<1>14. CASE Quit
  <2>1. main = "loop" /\ main' \in {"wait", "stop"} /\ UNCHANGED <<worker, turning, todo, deferred, inbox>>
    BY <1>14, Zenon DEF Quit
  <2>. QED  BY <2>1, Zenon DEF Phased
<1>15. CASE Waited
  <2>1. main = "wait" /\ main' = "stop" /\ worker' = "none" /\ UNCHANGED <<turning, todo, deferred, inbox>>
    BY <1>15, Zenon DEF Waited
  <2>. QED  BY <2>1, Zenon DEF Phased
<1>16. CASE Ends
  <2>1. main = "stop" /\ main' = "ended" /\ UNCHANGED <<worker, turning, todo, deferred, inbox>>
    BY <1>16, Zenon DEF Ends, turn
  <2>. QED  BY <2>1, Zenon DEF Phased
<1>. QED  BY <1>1, <1>2, <1>3, <1>4, <1>5, <1>6, <1>7, <1>8, <1>9, <1>10, <1>11, <1>12, <1>13, <1>14, <1>15, <1>16
          DEF RNext, Loop

-----------------------------------------------------------------------------
(* What answers a question. *)

LEMMA StillMeant ==
  ASSUME Meant, UNCHANGED <<answer, question, worker, reply, keyed, askedAt>>
  PROVE  Meant'
BY Zenon DEF Meant, AnswerIsMeant

LEMMA MeantInit == RInit => Meant
<1> SUFFICES ASSUME RInit PROVE Meant
  OBVIOUS
<1>1. keyed = 0 /\ askedAt = 0 /\ question = "none" /\ reply = NoReply /\ answer = <<>>  BY DEF RInit
<1>2. NoReply.line = <<>>  BY DEF NoReply
<1>3. (\A i \in DOMAIN answer : answer[i].n > askedAt) /\ AnswerIsMeant  BY <1>1, <1>2, SMT DEF AnswerIsMeant
<1>4. askedAt <= keyed  BY <1>1
<1>. QED  BY <1>1, <1>3, <1>4, Zenon DEF Meant

LEMMA MeantStep ==
  ASSUME RTypeOK, Phased, Meant, [RNext]_rvars
  PROVE  Meant'
<1>a. askedAt \in Nat /\ keyed \in Nat  BY ReplAssumption, SMT DEF RTypeOK, RecordOK
<1>b. /\ askedAt <= keyed
      /\ question # "none" => worker = "asks" /\ reply = NoReply
      /\ worker # "asks" => reply = NoReply
      /\ question # "up" => answer = <<>>
      /\ \A i \in DOMAIN answer : answer[i].n > askedAt
      /\ \A i \in DOMAIN reply.line : reply.line[i].n > askedAt
  BY Zenon DEF Meant, AnswerIsMeant
<1>c. NoReply.line = <<>>  BY DEF NoReply
<1>d. ASSUME askedAt' <= keyed', question' # "none" => worker' = "asks" /\ reply' = NoReply,
             worker' # "asks" => reply' = NoReply, question' # "up" => answer' = <<>>,
             \A i \in DOMAIN answer' : answer'[i].n > askedAt',
             \A i \in DOMAIN reply'.line : reply'.line[i].n > askedAt'
      PROVE  Meant'
  BY <1>d, Zenon DEF Meant, AnswerIsMeant
<1>e. \A x : (\A i \in DOMAIN <<>> : <<>>[i].n > x)  OBVIOUS
<1>1. CASE UNCHANGED rvars
  BY <1>1, StillMeant, Zenon DEF rvars, box, turn, record
<1>2. CASE Type
  <2>1. keyed' = keyed + 1 /\ UNCHANGED <<askedAt, worker, reply>>  BY <1>2, Zenon DEF Type, turn
  <2>2. askedAt' <= keyed' /\ keyed + 1 > askedAt  BY <1>a, <1>b, <2>1, SMT
  <2>3. \E is \in Texts \cup Commands :
          \/ question = "up" /\ answer' = <<[n |-> keyed + 1, is |-> is]>> /\ question' = question
          \/ question = "up" /\ answer' = <<>> /\ question' = "waits"
          \/ UNCHANGED <<answer, question>>
    BY <1>2, Zenon DEF Type, Withdrawn
  <2>4. PICK is \in Texts \cup Commands :
          \/ question = "up" /\ answer' = <<[n |-> keyed + 1, is |-> is]>> /\ question' = question
          \/ question = "up" /\ answer' = <<>> /\ question' = "waits"
          \/ UNCHANGED <<answer, question>>
    BY <2>3
  <2>5. \A i \in DOMAIN answer' : answer'[i].n > askedAt'
    <3>1. CASE answer' = <<[n |-> keyed + 1, is |-> is]>>
      <4>1. \A i \in DOMAIN answer' : i = 1 /\ answer'[i] = [n |-> keyed + 1, is |-> is]  BY <3>1
      <4>2. \A i \in DOMAIN answer' : answer'[i].n = keyed + 1  BY <4>1
      <4>. QED  BY <2>1, <2>2, <4>2, Zenon
    <3>2. CASE answer' = <<>>  BY <3>2, <1>e, Zenon
    <3>3. CASE answer' = answer  BY <1>b, <2>1, <3>3, Zenon
    <3>. QED  BY <2>4, <3>1, <3>2, <3>3, Zenon
  <2>. QED  BY <1>b, <1>d, <2>1, <2>2, <2>4, <2>5, Zenon
<1>3. CASE Enter \/ CtrlC
  <2>1. \/ /\ question # "none" /\ question' = "none" /\ answer' = <<>>
           /\ reply' \in {[kind |-> "line", line |-> answer], [kind |-> "interrupted", line |-> <<>>]}
        \/ UNCHANGED <<answer, question, reply>>
    BY <1>3, Zenon DEF Enter, CtrlC, TakenDown
  <2>2. UNCHANGED <<worker, keyed, askedAt>>  BY <1>3, Zenon DEF Enter, CtrlC
  <2>3. CASE /\ question # "none" /\ question' = "none" /\ answer' = <<>>
             /\ reply' \in {[kind |-> "line", line |-> answer], [kind |-> "interrupted", line |-> <<>>]}
    <3>1. reply'.line \in {answer, <<>>}  BY <2>3
    <3>2. \A i \in DOMAIN reply'.line : reply'.line[i].n > askedAt'  BY <1>b, <1>e, <2>2, <3>1, Zenon
    <3>. QED  BY <1>b, <1>d, <1>e, <2>2, <2>3, <3>2, Zenon
  <2>. QED  BY <2>1, <2>2, <2>3, StillMeant, Zenon
<1>4. CASE CtrlU
  <2>1. answer' = <<>> /\ UNCHANGED <<question, worker, reply, keyed, askedAt>>  BY <1>4, Zenon DEF CtrlU, turn
  <2>. QED  BY <1>b, <1>d, <1>e, <2>1, Zenon
<1>5. CASE CtrlD \/ StdinClosed
  BY <1>5, StillMeant, Zenon DEF CtrlD, StdinClosed, box, turn, record
<1>6. CASE Reader
  <2>1. UNCHANGED <<answer, worker, reply, keyed, askedAt>>
        /\ (question' = question \/ (question # "none" /\ question' = "up"))
    BY <1>6, Zenon DEF Reader, Poll, SendOn, SendEof, Interrupt, ReaderStops, box, turn, record
  <2>. QED  BY <1>b, <1>d, <2>1, Zenon
<1>7. CASE Loop
  <2>1. UNCHANGED <<answer, question, reply, keyed, askedAt>>
    BY <1>7, Zenon DEF Loop, ReceiveEof, Receive, ReceiveCommand, ReceiveText, Listed, TurnDone, Deferred, Left,
       SetupDone, Quit, Waited, Ends, box, turn, record
  <2>2. worker' = worker \/ (worker # "asks" /\ worker' # "asks")
    <3>1. ASSUME NEW line, Handle(line), ~turning PROVE worker' = worker \/ (worker # "asks" /\ worker' # "asks")
      BY <3>1, HandleGoes, Zenon DEF Phased
    <3>2. CASE Receive  BY <3>1, <3>2, Zenon DEF Receive
    <3>3. CASE Deferred  BY <3>1, <3>3, Zenon DEF Deferred, Phased
    <3>4. CASE Left  BY <3>1, <3>4, Zenon DEF Left, Phased
    <3>5. CASE TurnDone \/ Waited  BY <3>5, Zenon DEF TurnDone, Waited
    <3>6. CASE ReceiveEof \/ ReceiveCommand \/ ReceiveText \/ Listed \/ SetupDone \/ Quit \/ Ends
      BY <3>6, Zenon DEF ReceiveEof, ReceiveCommand, ReceiveText, Listed, SetupDone, Quit, Ends, turn
    <3>. QED  BY <1>7, <3>2, <3>3, <3>4, <3>5, <3>6, Zenon DEF Loop
  <2>3. CASE worker' = worker  BY <2>1, <2>3, StillMeant, Zenon
  <2>4. CASE worker # "asks" /\ worker' # "asks"  BY <1>b, <1>d, <2>1, <2>4, Zenon
  <2>. QED  BY <2>2, <2>3, <2>4
<1>8. CASE BeginTurn \/ Round \/ End
  <2>1. UNCHANGED <<answer, question, reply, keyed, askedAt>> /\ worker # "asks" /\ worker' # "asks"
    BY <1>8, Zenon DEF BeginTurn, Round, End, box, record
  <2>. QED  BY <1>b, <1>d, <2>1, Zenon
<1>9. CASE Ask
  <2>1. worker = "runs" /\ worker' = "asks" /\ askedAt' = keyed /\ UNCHANGED <<answer, reply, keyed>>
    BY <1>9, Zenon DEF Ask
  <2>2. reply = NoReply /\ answer = <<>>  BY <1>b, <2>1, Zenon
  <2>3. askedAt' <= keyed'  BY <1>a, <2>1
  <2>. QED  BY <1>c, <1>d, <1>e, <2>1, <2>2, <2>3, Zenon
<1>10. CASE Answered
  <2>1. worker' = "runs" /\ reply # NoReply /\ reply' = NoReply /\ askedAt' = 0 /\ UNCHANGED <<answer, question, keyed>>
    BY <1>10, Zenon DEF Answered, box
  <2>2. question = "none" /\ answer = <<>>  BY <1>b, <2>1, Zenon
  <2>3. askedAt' <= keyed'  BY <1>a, <2>1
  <2>. QED  BY <1>c, <1>d, <1>e, <2>1, <2>2, <2>3, Zenon
<1>. QED  BY <1>1, <1>2, <1>3, <1>4, <1>5, <1>6, <1>7, <1>8, <1>9, <1>10 DEF RNext, Operator, Turn

(* An approval is only ever answered with what was typed after it was asked,
   however many questions, keys and turns interleave (box.go, front.go). *)
THEOREM AnswersAreMeant == RSpec => []AnswerIsMeant
<1>. DEFINE Inv == RTypeOK /\ Phased /\ Meant
<1>1. RInit => Inv  BY ReplTypesInit, PhasedInit, MeantInit
<1>2. Inv /\ [RNext]_rvars => Inv'  BY ReplTypesStep, PhasedStep, MeantStep
<1>3. Inv => AnswerIsMeant  BY DEF Meant
<1>. QED  BY <1>1, <1>2, <1>3, PTL DEF RSpec

-----------------------------------------------------------------------------
(* The dock. *)

(* The list, as lines come and go. *)
ListsSo(b, list, s) == IF b THEN list # <<>> /\ Tail(list) = s ELSE list = s

LEMMA ListGrows ==
  ASSUME NEW S, NEW s \in Seq(S), NEW list \in Seq(S), NEW x \in S, NEW b \in BOOLEAN, ListsSo(b, list, s)
  PROVE  ListsSo(b, list \o <<x>>, Append(s, x))
<1>1. CASE b
  <2>1. list # <<>> /\ Tail(list) = s  BY <1>1 DEF ListsSo
  <2>2. list \o <<x>> # <<>> /\ Tail(list \o <<x>>) = Append(s, x)  BY <2>1
  <2>. QED  BY <1>1, <2>2 DEF ListsSo
<1>2. CASE ~b
  <2>1. list \o <<x>> = Append(s, x)  BY <1>2 DEF ListsSo
  <2>. QED  BY <1>2, <2>1 DEF ListsSo
<1>. QED  BY <1>1, <1>2

LEMMA ListGoes ==
  ASSUME NEW S, NEW s \in Seq(S), NEW list \in Seq(S), NEW b \in BOOLEAN
  PROVE  /\ ListsSo(b, list, s) => ListsSo(b, SubSeq(list, Len(s) + 1, Len(list)), <<>>)
         /\ \A late \in Seq(S) : Len(late) = 1 /\ ListsSo(b, list \o late, s)
              => ListsSo(TRUE, SubSeq(list, Len(s) + 1, Len(list)) \o late, <<>>)
<1>. DEFINE rest == SubSeq(list, Len(s) + 1, Len(list))
<1>1. Len(s) \in Nat /\ Len(list) \in Nat  OBVIOUS
<1>2. ASSUME ListsSo(b, list, s) PROVE ListsSo(b, rest, <<>>)
  <2>1. CASE b
    <3>1. list # <<>> /\ Tail(list) = s  BY <1>2, <2>1 DEF ListsSo
    <3>2. Len(list) = Len(s) + 1  BY <3>1
    <3>3. rest # <<>> /\ Tail(rest) = <<>>
      <4>. DEFINE n == Len(list)
      <4>1. rest = SubSeq(list, n, n) /\ n \in 1..n /\ list[n] \in S  BY <1>1, <3>1, <3>2
      <4>2. rest = [i \in 1..1 |-> list[n]]
        <5>1. n \in Nat /\ n - n + 1 = 1 /\ \A i \in 1..1 : i + n - 1 = n  BY <4>1, SMT
        <5>2. SubSeq(list, n, n) = [i \in 1..(n - n + 1) |-> list[i + n - 1]]  BY <4>1, <5>1, SubSeqProperties
        <5>. QED  BY <4>1, <5>1, <5>2
      <4>. HIDE DEF rest, n
      <4>3. rest = <<list[n]>>  BY <4>2
      <4>4. rest \in Seq(S) /\ Len(rest) = 1  BY <4>1, <4>3
      <4>5. rest # <<>> /\ Tail(rest) \in Seq(S) /\ Len(Tail(rest)) = 0  BY <4>4
      <4>. QED  BY <4>5, EmptySeq
    <3>. QED  BY <2>1, <3>3 DEF ListsSo
  <2>2. CASE ~b
    <3>1. list = s  BY <1>2, <2>2 DEF ListsSo
    <3>2. rest = <<>>  BY <1>1, <3>1
    <3>. QED  BY <2>2, <3>2 DEF ListsSo
  <2>. QED  BY <2>1, <2>2
<1>3. ASSUME NEW late \in Seq(S), Len(late) = 1, ListsSo(b, list \o late, s)
      PROVE  ListsSo(TRUE, rest \o late, <<>>)
  <2>1. Len(list) <= Len(s)
    <3>1. CASE b
      <4>1. list \o late # <<>> /\ Tail(list \o late) = s  BY <1>3, <3>1 DEF ListsSo
      <4>2. Len(list \o late) = Len(list) + 1
        <5>1. Len(list \o late) = Len(list) + Len(late)  OBVIOUS
        <5>. QED  BY <1>3, <5>1
      <4>. QED  BY <1>1, <4>1, <4>2
    <3>2. CASE ~b
      <4>1. list \o late = s  BY <1>3, <3>2 DEF ListsSo
      <4>. QED  BY <1>1, <1>3, <4>1
    <3>. QED  BY <3>1, <3>2
  <2>2. rest = <<>>  BY <1>1, <2>1
  <2>3. rest \o late # <<>> /\ Tail(rest \o late) = <<>>
    <3>1. rest \o late = late
      <4>1. \A t \in Seq(S) : <<>> \o t = t  OBVIOUS
      <4>. QED  BY <2>2, <4>1
    <3>. HIDE DEF rest
    <3>. QED  BY <1>3, <3>1
  <2>. QED  BY <2>3 DEF ListsSo
<1>. QED  BY <1>2, <1>3 DEF rest

LEMMA RefreshingStep ==
  ASSUME Phased, Refreshing, [RNext]_rvars
  PROVE  Refreshing'
<1>1. ASSUME UNCHANGED <<main, footer, turning, session, approvals>> PROVE Refreshing'
  BY <1>1, Zenon DEF Refreshing, Footer
<1>2. CASE UNCHANGED rvars
  BY <1>1, <1>2, Zenon DEF rvars, loop, dock
<1>3. CASE Operator
  BY <1>1, <1>3, Zenon DEF Operator, Type, Enter, CtrlU, CtrlC, CtrlD, StdinClosed, loop, dock
<1>4. CASE Reader
  BY <1>1, <1>4, Zenon DEF Reader, Poll, SendOn, SendEof, Interrupt, ReaderStops, loop, dock
<1>5. CASE Turn
  BY <1>1, <1>5, Zenon DEF Turn, BeginTurn, Round, Ask, Answered, End, loop, dock, Switches
<1>6. CASE Receive \/ Deferred \/ Left \/ SetupDone
  <2>1. footer' = Footer'  BY <1>6, Zenon DEF Receive, Deferred, Left, SetupDone, Refreshed
  <2>. QED  BY <2>1, Zenon DEF Refreshing
<1>7. CASE ReceiveCommand
  <2>1. CASE Kind(Head(in)) \in Deferrable
    <3>1. UNCHANGED <<main, footer, turning, session, approvals>>
      BY <1>7, <2>1, NotBoth, Zenon DEF ReceiveCommand, Switches
    <3>. QED  BY <1>1, <3>1
  <2>2. CASE Kind(Head(in)) \notin Deferrable
    <3>1. footer' = Footer'  BY <1>7, <2>2, Zenon DEF ReceiveCommand, Refreshed
    <3>. QED  BY <3>1, Zenon DEF Refreshing
  <2>. QED  BY <2>1, <2>2
<1>8. CASE ReceiveEof \/ ReceiveText \/ Listed \/ Quit \/ Waited \/ Ends
  <2>1. main \in {"loop", "queue", "wait", "stop"} /\ UNCHANGED <<footer, turning, session, approvals>>
    BY <1>8, Zenon DEF ReceiveEof, ReceiveText, Listed, Quit, Waited, Ends, Receives, Switches, dock
  <2>2. footer = Footer  BY <2>1, Zenon DEF Refreshing
  <2>3. footer' = Footer'  BY <2>1, <2>2, Zenon DEF Footer
  <2>. QED  BY <2>3, Zenon DEF Refreshing
<1>9. CASE TurnDone
  BY <1>9, Zenon DEF TurnDone, Refreshing
<1>. QED  BY <1>2, <1>3, <1>4, <1>5, <1>6, <1>7, <1>8, <1>9 DEF RNext, Loop

LEMMA ShowingStep ==
  ASSUME RTypeOK, Phased, Showing, [RNext]_rvars
  PROVE  Showing'
<1>a. /\ inbox \in Seq(Lines) /\ queue \in Seq(Lines) /\ in \in Seq(Lines) /\ todo \in Seq(Lines)
      /\ ahead \in BOOLEAN
  BY DEF RTypeOK, LoopOK, TurnOK, DockOK, PipeOK
<1>b. in # <<>> => Head(in) \in Lines
  <2>1. <<>> \in Lines  BY DEF Lines
  <2>. QED  BY <1>a, <2>1, QueueType, 0 \in Nat
<1>c. /\ \A list : Lists(list) <=> ListsSo(ahead, list, inbox)
      /\ \A list : Lists(list)' <=> ListsSo(ahead', list', inbox')
  BY Zenon DEF Lists, ListsSo
<1>1. ASSUME UNCHANGED <<main, turning, inbox, queue, ahead, todo>> PROVE Showing'
  BY <1>1, Zenon DEF Showing, Listing, Lists
<1>2. CASE UNCHANGED rvars
  BY <1>1, <1>2, Zenon DEF rvars, loop, dock, turn
<1>3. CASE Operator
  BY <1>1, <1>3, Zenon DEF Operator, Type, Enter, CtrlU, CtrlC, CtrlD, StdinClosed, loop, dock, turn
<1>4. CASE Reader
  BY <1>1, <1>4, Zenon DEF Reader, Poll, SendOn, SendEof, Interrupt, ReaderStops, loop, dock, turn
<1>5. CASE BeginTurn \/ Ask \/ Answered \/ End
  BY <1>1, <1>5, Zenon DEF BeginTurn, Ask, Answered, End, loop, dock, Switches
<1>6. CASE Round
  <2>1. /\ inbox' = <<>> /\ queue' = SubSeq(queue, Len(inbox) + 1, Len(queue)) /\ ahead' = (ahead \/ main = "queue")
        /\ main' = main /\ todo' = todo /\ turning' = turning /\ turning
    BY <1>6, Zenon DEF Round, Taken, Delisted, loop, Phased
  <2>2. CASE main = "loop"
    <3>1. ListsSo(ahead, queue, inbox)  BY <1>c, <2>2, Zenon DEF Showing
    <3>2. ListsSo(ahead, SubSeq(queue, Len(inbox) + 1, Len(queue)), <<>>)  BY <1>a, <3>1, ListGoes
    <3>3. ahead' = ahead  BY <1>a, <2>1, <2>2
    <3>4. ListsSo(ahead', queue', inbox')  BY <2>1, <3>2, <3>3
    <3>5. Lists(queue)'  BY <3>4, Zenon DEF Lists, ListsSo
    <3>6. main' # "queue"  BY <2>1, <2>2
    <3>. QED  BY <2>1, <3>5, <3>6, Zenon DEF Showing
  <2>3. CASE main = "queue"
    <3>1. ListsSo(ahead, queue \o todo, inbox) /\ Len(todo) = 1  BY <1>c, <2>3, Zenon DEF Showing, Listing
    <3>2. ListsSo(TRUE, SubSeq(queue, Len(inbox) + 1, Len(queue)) \o todo, <<>>)  BY <1>a, <3>1, ListGoes
    <3>3. ahead' = TRUE  BY <2>1, <2>3
    <3>4. ListsSo(ahead', queue' \o todo', inbox')  BY <2>1, <3>2, <3>3
    <3>5. Lists(Listing)'  BY <3>4, Zenon DEF Lists, ListsSo, Listing
    <3>6. main' # "loop"  BY <2>1, <2>3
    <3>. QED  BY <2>1, <3>1, <3>5, <3>6, Zenon DEF Showing
  <2>4. CASE main \notin {"loop", "queue"}
    BY <2>1, <2>4, Zenon DEF Showing
  <2>. QED  BY <2>2, <2>3, <2>4
<1>7. ASSUME ~turning, UNCHANGED <<queue, ahead>>, main' # "queue", main' = "loop" => inbox' = <<>> PROVE Showing'
  <2>1. queue' = <<>> /\ ahead' = FALSE  BY <1>a, <1>7 DEF Showing
  <2>2. main' = "loop" => Lists(queue)'  BY <1>7, <2>1, Zenon DEF Lists
  <2>. QED  BY <1>7, <2>1, <2>2, Zenon DEF Showing
<1>8. CASE Receive
  <2>1. ~turning /\ main = "loop" /\ Handle(Head(in)) /\ UNCHANGED <<inbox, queue, ahead>>
    BY <1>8, Zenon DEF Receive, Receives
  <2>2. inbox' = <<>>  BY <2>1, Zenon DEF Phased
  <2>3. main' \in {"loop", "setup"}  BY <2>1, HandleGoes, Zenon
  <2>. QED  BY <1>7, <2>1, <2>2, <2>3
<1>9. CASE Deferred
  <2>1. main = "after" /\ todo # <<>> /\ Handle(Head(todo)) /\ UNCHANGED <<inbox, queue, ahead>>
    BY <1>9, Zenon DEF Deferred
  <2>2. todo \in Seq(Lines) /\ AllDeferrable(todo) /\ ~turning  BY <1>a, <2>1, Zenon DEF Phased
  <2>3. Kind(Head(todo)) \notin Texts  BY <2>1, <2>2, DeferrableLines, NotBoth, Zenon
  <2>4. main' \in {"after", "setup, then after"}  BY <2>1, <2>3, HandleGoes, Zenon
  <2>. QED  BY <1>7, <2>1, <2>2, <2>4
<1>10. CASE Left
  <2>1. main = "after" /\ inbox' = <<>> /\ UNCHANGED <<queue, ahead>> /\ (Handle(Join(inbox)) \/ main' = "loop")
    BY <1>10, Zenon DEF Left
  <2>2. main' # "queue"  BY <2>1, HandleGoes, Zenon
  <2>3. ~turning  BY <2>1, Zenon DEF Phased
  <2>. QED  BY <1>7, <2>1, <2>2, <2>3
<1>11. CASE SetupDone
  <2>1. /\ main \in {"setup", "setup, then after"} /\ main' = IF main = "setup" THEN "loop" ELSE "after"
        /\ inbox' = inbox \/ inbox' = <<>>
        /\ UNCHANGED <<queue, ahead>>
    BY <1>11, Zenon DEF SetupDone
  <2>2. ~turning /\ (main = "setup" => inbox = <<>>)  BY <2>1, Zenon DEF Phased
  <2>3. main' # "queue" /\ (main' = "loop" => main = "setup")  BY <2>1
  <2>. QED  BY <1>7, <2>1, <2>2, <2>3
<1>12. CASE ReceiveEof \/ ReceiveCommand
  BY <1>1, <1>12, Zenon DEF ReceiveEof, ReceiveCommand, dock, turn
<1>13. CASE ReceiveText
  <2>1. /\ turning /\ turning' = turning /\ main = "loop" /\ in # <<>> /\ main' = "queue" /\ UNCHANGED <<queue, ahead>>
        /\ inbox' = Append(inbox, Head(in)) /\ todo' = <<Head(in)>>
    BY <1>13, Zenon DEF ReceiveText, Receives, dock
  <2>2. ListsSo(ahead, queue, inbox)  BY <1>c, <2>1, Zenon DEF Showing
  <2>3. ListsSo(ahead, queue \o <<Head(in)>>, Append(inbox, Head(in)))
    BY <1>a, <1>b, <2>1, <2>2, ListGrows, Zenon
  <2>4. ListsSo(ahead', queue' \o todo', inbox')  BY <2>1, <2>3
  <2>5. Lists(Listing)'  BY <2>4, Zenon DEF Lists, ListsSo, Listing
  <2>6. Len(todo') = 1
    <3>. DEFINE x == Head(in)
    <3>1. todo' = <<x>>  BY <2>1
    <3>. HIDE DEF x
    <3>. QED  BY <3>1
  <2>. QED  BY <2>1, <2>5, <2>6, Zenon DEF Showing
<1>14. CASE Listed
  <2>1. /\ main = "queue" /\ main' = "loop" /\ queue' = Listing /\ inbox' = inbox /\ ahead' = ahead
        /\ turning' = turning /\ turning
    BY <1>14, Zenon DEF Listed, turn, Phased
  <2>2. Lists(Listing)  BY <2>1, Zenon DEF Showing
  <2>3. Lists(queue)'  BY <2>1, <2>2, Zenon DEF Lists
  <2>. QED  BY <2>1, <2>3, Zenon DEF Showing
<1>15. CASE TurnDone
  <2>1. main' = "after" /\ queue' = <<>> /\ ahead' = FALSE  BY <1>15, Zenon DEF TurnDone
  <2>. QED  BY <2>1, Zenon DEF Showing
<1>16. CASE Quit \/ Waited \/ Ends
  <2>1. main' \in {"wait", "stop", "ended"} /\ UNCHANGED <<queue, ahead, turning>>
    BY <1>16, Zenon DEF Quit, Waited, Ends, dock
  <2>2. ~turning => queue = <<>> /\ ~ahead  BY Zenon DEF Showing
  <2>. QED  BY <2>1, <2>2, Zenon DEF Showing
<1>. QED  BY <1>2, <1>3, <1>4, <1>5, <1>6, <1>8, <1>9, <1>10, <1>11, <1>12, <1>13, <1>14, <1>15, <1>16 DEF RNext, Loop, Turn

(* Whenever the loop waits for the operator the footer tells the truth, and the
   dock lists what waits for the turn's next round - after one line that went,
   where a round took it before the dock had it (repl.go, live.go, DockIsTrue). *)
THEOREM DockStaysTrue == RSpec => []DockIsTrue
<1>. DEFINE Inv == RTypeOK /\ Phased /\ Refreshing /\ Showing
<1>1. RInit => Refreshing /\ Showing  BY Zenon DEF RInit, Refreshing, Showing, Lists
<1>2. RInit => Inv  BY <1>1, ReplTypesInit, PhasedInit
<1>3. Inv /\ [RNext]_rvars => Inv'  BY ReplTypesStep, PhasedStep, RefreshingStep, ShowingStep
<1>4. Inv => DockIsTrue  BY Zenon DEF Refreshing, Showing, DockIsTrue, FooterIsTrue, WaitingIsListed
<1>. QED  BY <1>2, <1>3, <1>4, PTL DEF RSpec

-----------------------------------------------------------------------------
(* What is typed. *)

LEMMA Shifted ==
  ASSUME NEW T \in SUBSET Nat, IsFiniteSet(T), NEW m \in Nat
  PROVE  /\ IsFiniteSet({m + j : j \in T})
         /\ Cardinality({m + j : j \in T}) = Cardinality(T)
<1>. DEFINE U == {m + j : j \in T}
            f == [j \in T |-> m + j]
<1>1. f \in [T -> U]  OBVIOUS
<1>2. \A a, b \in T : f[a] = f[b] => a = b  BY SMT
<1>3. \A u \in U : \E a \in T : f[a] = u  OBVIOUS
<1>. HIDE DEF f, U
<1>4. f \in Bijection(T, U)  BY <1>1, <1>2, <1>3, Zenon DEF Bijection, Injection, Surjection, IsInjective
<1>5. ExistsBijection(T, U)  BY <1>4, Zenon DEF ExistsBijection
<1>. QED  BY <1>5, FS_Bijection, Zenon DEF U

Where(line, n) == {i \in DOMAIN line : line[i].n = n}

LEMMA TimesType ==
  ASSUME NEW line \in Lines, NEW n
  PROVE  /\ Where(line, n) \in SUBSET Nat /\ IsFiniteSet(Where(line, n))
         /\ Times(line, n) = Cardinality(Where(line, n))
         /\ Times(line, n) \in Nat
         /\ Times(line, n) = 0 <=> \A i \in DOMAIN line : line[i].n # n
<1>1. Len(line) \in Nat /\ DOMAIN line = 1..Len(line)  BY SMT DEF Lines
<1>2. IsFiniteSet(1..Len(line))  BY <1>1, FS_Interval
<1>3. Where(line, n) \in SUBSET (1..Len(line))  BY <1>1, Zenon DEF Where
<1>4. IsFiniteSet(Where(line, n))  BY <1>2, <1>3, FS_Subset, Zenon
<1>5. Where(line, n) \in SUBSET Nat  BY <1>1, <1>3, SMT
<1>6. Times(line, n) = Cardinality(Where(line, n))  BY DEF Times, Where
<1>7. Cardinality(Where(line, n)) \in Nat  BY <1>4, FS_CardinalityType, Zenon
<1>8. Cardinality(Where(line, n)) = 0 <=> Where(line, n) = {}  BY <1>4, FS_EmptySet, Zenon
<1>9. Where(line, n) = {} <=> \A i \in DOMAIN line : line[i].n # n  BY Zenon DEF Where
<1>. QED  BY <1>4, <1>5, <1>6, <1>7, <1>8, <1>9, Zenon

LEMMA TimesConcat ==
  ASSUME NEW line \in Lines, NEW other \in Lines, NEW n
  PROVE  Times(line \o other, n) = Times(line, n) + Times(other, n)
<1>. DEFINE A == Where(line, n)
            B == Where(other, n)
            m == Len(line)
            C == {m + j : j \in B}
<1>1. /\ m \in Nat /\ DOMAIN line = 1..m /\ Len(other) \in Nat /\ DOMAIN other = 1..Len(other)
      /\ line \o other \in Lines /\ DOMAIN (line \o other) = 1..(m + Len(other))
      /\ \A i \in 1..m : (line \o other)[i] = line[i]
      /\ \A i \in 1..Len(other) : (line \o other)[m + i] = other[i]
  BY SMT DEF Lines
<1>2. A \in SUBSET Nat /\ IsFiniteSet(A) /\ Times(line, n) = Cardinality(A)
      /\ B \in SUBSET Nat /\ IsFiniteSet(B) /\ Times(other, n) = Cardinality(B)
      /\ Times(line, n) \in Nat /\ Times(other, n) \in Nat
      /\ Times(line \o other, n) = Cardinality(Where(line \o other, n))
  BY <1>1, TimesType, Zenon
<1>3. IsFiniteSet(C) /\ Cardinality(C) = Cardinality(B)  BY <1>1, <1>2, Shifted, Zenon
<1>4. Where(line \o other, n) = A \cup C
  <2>. DEFINE whole == line \o other
  <2>1. /\ DOMAIN whole = 1..(m + Len(other))
        /\ \A i \in 1..m : whole[i] = line[i]
        /\ \A i \in 1..Len(other) : whole[m + i] = other[i]
    BY <1>1
  <2>. HIDE DEF whole, m
  <2>2. ASSUME NEW i \in Where(whole, n) PROVE i \in A \cup C
    <3>1. i \in 1..(m + Len(other)) /\ whole[i].n = n  BY <2>1, <2>2, Zenon DEF Where
    <3>2. CASE i \in 1..m
      <4>1. i \in A  BY <1>1, <2>1, <3>1, <3>2, Zenon DEF Where
      <4>. QED  BY <4>1
    <3>3. CASE i \notin 1..m
      <4>1. i - m \in 1..Len(other) /\ m + (i - m) = i  BY <1>1, <3>1, <3>3, SMT
      <4>2. whole[m + (i - m)] = other[i - m]  BY <2>1, <4>1, Zenon
      <4>3. i - m \in B  BY <1>1, <3>1, <4>1, <4>2, Zenon DEF Where
      <4>4. i \in C  BY <4>1, <4>3, Zenon
      <4>. QED  BY <4>4
    <3>. QED  BY <3>2, <3>3
  <2>3. ASSUME NEW i \in A PROVE i \in Where(whole, n)
    <3>1. i \in 1..m /\ line[i].n = n  BY <1>1, Zenon DEF Where
    <3>2. i \in 1..(m + Len(other))  BY <1>1, <3>1, SMT
    <3>. QED  BY <2>1, <3>1, <3>2, Zenon DEF Where
  <2>4. ASSUME NEW j \in B PROVE m + j \in Where(whole, n)
    <3>1. j \in 1..Len(other) /\ other[j].n = n  BY <1>1, Zenon DEF Where
    <3>2. m + j \in 1..(m + Len(other))  BY <1>1, <3>1, SMT
    <3>3. whole[m + j] = other[j]  BY <2>1, <3>1, Zenon
    <3>. QED  BY <2>1, <3>1, <3>2, <3>3, Zenon DEF Where
  <2>. HIDE DEF A, B
  <2>5. \A c \in C : \E j \in B : c = m + j  OBVIOUS
  <2>6. \A c \in C : c \in Where(whole, n)  BY <2>4, <2>5, Zenon
  <2>. HIDE DEF C
  <2>7. Where(whole, n) = A \cup C  BY <2>2, <2>3, <2>6, Zenon
  <2>. QED  BY <2>7 DEF whole
<1>5. A \cap C = {}
  <2>1. \A i \in A : i \in 1..m  BY <1>1, Zenon DEF Where
  <2>2. \A j \in B : j \in 1..Len(other)  BY <1>1, Zenon DEF Where
  <2>. HIDE DEF A, B, m
  <2>. QED  BY <1>1, <2>1, <2>2, SMT
<1>. HIDE DEF A, B, C
<1>6. Cardinality(A \cup C) = Cardinality(A) + Cardinality(C) - Cardinality(A \cap C)
  BY <1>2, <1>3, FS_Union, Zenon
<1>7. Cardinality(A \cap C) = 0  BY <1>5, FS_EmptySet, Zenon
<1>. QED  BY <1>2, <1>3, <1>4, <1>6, <1>7, SMT

LEMMA TimesOne ==
  ASSUME NEW piece \in Pieces, NEW n
  PROVE  /\ Times(<<>>, n) = 0
         /\ Times(<<piece>>, n) = IF piece.n = n THEN 1 ELSE 0
<1>1. <<>> \in Lines /\ <<piece>> \in Lines  BY DEF Lines
<1>2. Times(<<>>, n) = 0  BY <1>1, TimesType
<1>3. CASE piece.n = n
  <2>1. Where(<<piece>>, n) = {1}  BY <1>3 DEF Where
  <2>2. Times(<<piece>>, n) = 1  BY <1>1, <2>1, TimesType, FS_Singleton, Zenon
  <2>. QED  BY <1>2, <1>3, <2>2
<1>4. CASE piece.n # n
  <2>1. \A i \in DOMAIN <<piece>> : <<piece>>[i].n # n  BY <1>4
  <2>2. Times(<<piece>>, n) = 0  BY <1>1, <2>1, TimesType, Zenon
  <2>. QED  BY <1>2, <1>4, <2>2
<1>. QED  BY <1>3, <1>4

LEMMA TimesJoin ==
  ASSUME NEW lines \in Seq(Lines), NEW line \in Lines, NEW n
  PROVE  /\ Times(Join(<<>>), n) = 0
         /\ Times(Join(Append(lines, line)), n) = Times(Join(lines), n) + Times(line, n)
         /\ lines # <<>> => Times(Join(lines), n) = Times(Head(lines), n) + Times(Join(Tail(lines)), n)
<1>1. <<>> \in Lines  BY DEF Lines
<1>2. Times(Join(<<>>), n) = 0
  <2>1. \A i \in DOMAIN <<>> : <<>>[i].n # n  OBVIOUS
  <2>. QED  BY <1>1, <2>1, TimesType, JoinEmpty, Zenon
<1>3. Join(Append(lines, line)) = Join(lines) \o line  BY JoinAppend, Zenon DEF Lines
<1>4. Join(lines) \in Lines  BY QueueType, 0 \in Nat
<1>5. Times(Join(Append(lines, line)), n) = Times(Join(lines), n) + Times(line, n)
  BY <1>3, <1>4, TimesConcat, Zenon
<1>6. ASSUME lines # <<>> PROVE Times(Join(lines), n) = Times(Head(lines), n) + Times(Join(Tail(lines)), n)
  <2>1. Head(lines) \in Lines /\ Join(Tail(lines)) \in Lines
    <3>1. Tail(lines) \in Seq(Lines) /\ Head(lines) \in Lines  BY <1>6, QueueType, 0 \in Nat
    <3>2. Join(Tail(lines)) \in Lines  BY <3>1, QueueType, 0 \in Nat
    <3>. QED  BY <3>1, <3>2
  <2>2. Join(lines) = Head(lines) \o Join(Tail(lines))  BY <1>6, JoinFirst, Zenon DEF Lines
  <2>3. Times(Head(lines) \o Join(Tail(lines)), n) = Times(Head(lines), n) + Times(Join(Tail(lines)), n)
    BY <2>1, TimesConcat
  <2>. QED  BY <2>2, <2>3, Zenon
<1>. QED  BY <1>2, <1>5, <1>6

LEMMA NumbersAre ==
  ASSUME NEW line \in Lines, NEW n
  PROVE  /\ n \in Numbers(line) <=> Times(line, n) # 0
         /\ Times(line, n) \in Nat
         /\ Numbers(<<>>) = {} /\ Times(<<>>, n) = 0
<1>1. n \in Numbers(line) <=> \E i \in DOMAIN line : line[i].n = n  BY Zenon DEF Numbers
<1>2. Numbers(<<>>) = {}  BY DEF Numbers
<1>3. Times(<<>>, n) = 0
  <2>1. <<>> \in Lines /\ \A i \in DOMAIN <<>> : <<>>[i].n # n  BY DEF Lines
  <2>. QED  BY <2>1, TimesType, Zenon
<1>. QED  BY <1>1, <1>2, <1>3, TimesType, Zenon

(* What the loop still has to do waits in one of two queues. *)
Held == IF main \in {"after", "setup, then after"} THEN todo ELSE deferred

LEMMA WaitingIs ==
  ASSUME NEW m, NEW d \in Seq(Lines), NEW t \in Seq(Lines),
         m \notin {"after", "setup, then after", "queue"} => t = <<>>,
         m \in {"after", "setup, then after"} => d = <<>>
  PROVE  (IF m = "queue" THEN d ELSE d \o t) = IF m \in {"after", "setup, then after"} THEN t ELSE d
<1>1. d \o <<>> = d /\ <<>> \o t = t  BY ConcatEmptySeq
<1>2. CASE m = "queue"  BY <1>2
<1>3. CASE m \in {"after", "setup, then after"}  BY <1>1, <1>3
<1>4. CASE m \notin {"after", "setup, then after", "queue"}  BY <1>1, <1>4
<1>. QED  BY <1>2, <1>3, <1>4

(* A line is out of what is kept, and settled. *)
Lost(line) ==
  /\ \A n \in 1..MaxTyped : Kept(n) = Kept(n)' + Times(line, n)
  /\ Settled' = Settled \cup Numbers(line)
  /\ UNCHANGED keyed
  /\ after'.do # "send" => after'.line = <<>>

KeptNat(n) ==
  /\ Times(draft, n) \in Nat /\ Times(answer, n) \in Nat /\ Times(after.line, n) \in Nat
  /\ Times(Join(in), n) \in Nat /\ Times(Join(inbox), n) \in Nat /\ Times(Join(Held), n) \in Nat
  /\ Times(hermes, n) \in Nat
  /\ Waiting = Held

LEMMA KeptType ==
  ASSUME RTypeOK, Phased, NEW n
  PROVE  KeptNat(n)
<1>1. draft \in Lines /\ answer \in Lines /\ after.line \in Lines /\ hermes \in Lines
  BY DEF RTypeOK, BoxOK, PipeOK, Afters, RecordOK
<1>2. in \in Seq(Lines) /\ inbox \in Seq(Lines) /\ todo \in Seq(Lines) /\ deferred \in Seq(Lines)
  BY DEF RTypeOK, PipeOK, TurnOK, LoopOK
<1>3. Waiting = Held
  <2>1. main \notin {"after", "setup, then after", "queue"} => todo = <<>>  BY Zenon DEF Phased
  <2>2. main \in {"after", "setup, then after"} => deferred = <<>>  BY Zenon DEF Phased
  <2>. QED  BY <1>2, <2>1, <2>2, WaitingIs, Zenon DEF Waiting, Held
<1>4. Held \in Seq(Lines)  BY <1>2, Zenon DEF Held
<1>5. \A lines \in Seq(Lines) : Join(lines) \in Lines  BY <1>1, QueueType, 0 \in Nat
<1>. QED  BY <1>1, <1>2, <1>3, <1>4, <1>5, TimesType, Zenon DEF KeptNat

LEMMA KeptTypeNext ==
  ASSUME RTypeOK', Phased', NEW n
  PROVE  KeptNat(n)'
<1>1. draft' \in Lines /\ answer' \in Lines /\ after'.line \in Lines /\ hermes' \in Lines
  BY DEF RTypeOK, BoxOK, PipeOK, Afters, RecordOK
<1>2. in' \in Seq(Lines) /\ inbox' \in Seq(Lines) /\ todo' \in Seq(Lines) /\ deferred' \in Seq(Lines)
  BY DEF RTypeOK, PipeOK, TurnOK, LoopOK
<1>3. Waiting' = Held'
  <2>1. main' \notin {"after", "setup, then after", "queue"} => todo' = <<>>  BY Zenon DEF Phased
  <2>2. main' \in {"after", "setup, then after"} => deferred' = <<>>  BY Zenon DEF Phased
  <2>. QED  BY <1>2, <2>1, <2>2, WaitingIs, Zenon DEF Waiting, Held
<1>4. Held' \in Seq(Lines)  BY <1>2, Zenon DEF Held
<1>5. \A lines \in Seq(Lines) : Join(lines) \in Lines  BY <1>1, QueueType, 0 \in Nat
<1>. QED  BY <1>1, <1>2, <1>3, <1>4, <1>5, TimesType, Zenon DEF KeptNat

LEMMA LostIsKept ==
  ASSUME RTypeOK, RTypeOK', Phased, Phased', AllKept, NEW line \in Lines, Lost(line)
  PROVE  AllKept'
<1>a. keyed \in Nat /\ MaxTyped \in Nat /\ keyed <= MaxTyped  BY ReplAssumption, SMT DEF RTypeOK, RecordOK
<1>1. ASSUME NEW n \in 1..MaxTyped
      PROVE  /\ n \in Numbers(line) => n \in 1..keyed
             /\ Kept(n)' = IF n \in 1..keyed /\ n \notin Settled' THEN 1 ELSE 0
  <2>1. Kept(n) = Kept(n)' + Times(line, n) /\ Settled' = Settled \cup Numbers(line)  BY Zenon DEF Lost
  <2>2. Kept(n) = IF n \in 1..keyed /\ n \notin Settled THEN 1 ELSE 0  BY Zenon DEF AllKept
  <2>3. Times(line, n) \in Nat /\ (n \in Numbers(line) <=> Times(line, n) # 0)  BY NumbersAre, Zenon
  <2>4. Kept(n)' \in Nat
    <3>1. KeptNat(n)'  BY KeptTypeNext, Zenon
    <3>. QED  BY <3>1, SMT DEF KeptNat, Kept
  <2>5. CASE n \in Numbers(line)
    <3>1. Times(line, n) # 0  BY <2>3, <2>5
    <3>2. n \in 1..keyed /\ n \notin Settled
      <4>1. Kept(n) # 0  BY <2>1, <2>3, <2>4, <3>1
      <4>. QED  BY <2>2, <4>1, Zenon
    <3>3. Kept(n) = 1  BY <2>2, <3>2, Zenon
    <3>4. Kept(n)' = 0  BY <2>1, <2>3, <2>4, <3>1, <3>3
    <3>5. n \in Settled'  BY <2>1, <2>5, Zenon
    <3>. QED  BY <3>2, <3>4, <3>5, Zenon
  <2>6. CASE n \notin Numbers(line)
    <3>1. Times(line, n) = 0  BY <2>3, <2>6
    <3>2. Kept(n)' = Kept(n)
      <4>1. Kept(n) = Kept(n)' + 0  BY <2>1, <3>1, Zenon
      <4>. QED  BY <2>4, <4>1
    <3>3. n \in Settled' <=> n \in Settled  BY <2>1, <2>6, Zenon
    <3>. QED  BY <2>2, <2>6, <3>2, <3>3, Zenon
  <2>. QED  BY <2>5, <2>6
<1>2. Numbers(line) \subseteq 1..keyed
  <2>1. Numbers(line) \subseteq 1..MaxTyped  BY NumbersType
  <2>. QED  BY <1>1, <2>1, Zenon
<1>3. Settled' \subseteq 1..keyed'  BY <1>2, Zenon DEF Lost, AllKept
<1>4. keyed' = keyed /\ (after'.do # "send" => after'.line = <<>>)  BY Zenon DEF Lost
<1>5. \A n \in 1..MaxTyped : Kept(n)' = IF n \in 1..keyed' /\ n \notin Settled' THEN 1 ELSE 0
  BY <1>1, <1>4, Zenon
<1>. QED  BY <1>3, <1>4, <1>5, Zenon DEF AllKept

(* Nothing typed changes its place. *)
LEMMA NothingLost ==
  ASSUME RTypeOK, RTypeOK', Phased, Phased', AllKept,
         UNCHANGED <<draft, answer, in, inbox, hermes, spent, orphaned, keyed>>, Held' = Held,
         after' = after \/ (after.line = <<>> /\ after'.line = <<>>)
  PROVE  AllKept'
<1>1. after'.line = after.line  BY Zenon
<1>2. \A n \in 1..MaxTyped : Kept(n)' = Kept(n)
  <2>. SUFFICES ASSUME NEW n \in 1..MaxTyped PROVE Kept(n)' = Kept(n)
    OBVIOUS
  <2>1. Waiting' = Waiting  BY KeptType, KeptTypeNext, Zenon DEF KeptNat
  <2>. QED  BY <1>1, <2>1, Zenon DEF Kept
<1>3. after'.do # "send" => after'.line = <<>>  BY Zenon DEF AllKept
<1>4. Settled' = Settled  BY Zenon DEF Settled
<1>. QED  BY <1>2, <1>3, <1>4, Zenon DEF AllKept

(* The keys: a piece typed, moved, or cleared. *)
LEMMA OperatorKeeps ==
  ASSUME RTypeOK, RTypeOK', Phased, Phased', Meant, OverNothing, AllKept, Operator
  PROVE  AllKept'
<1>a. draft \in Lines /\ answer \in Lines /\ after.line \in Lines /\ <<>> \in Lines
  BY DEF RTypeOK, BoxOK, PipeOK, Afters, Lines
<1>b. NoWork.line = <<>> /\ NoWork.do = "nothing"  BY DEF NoWork
<1>c. \A n : KeptNat(n) /\ KeptNat(n)'  BY KeptType, KeptTypeNext, Zenon
<1>d. Held' = Held  BY Zenon DEF Operator, Type, Enter, CtrlU, CtrlC, CtrlD, StdinClosed, loop, Held
<1>e. after = NoWork /\ after.line = <<>>
  <2>1. after = NoWork
    BY Zenon DEF Operator, Type, Enter, CtrlU, CtrlC, CtrlD, StdinClosed, Reads
  <2>. QED  BY <1>b, <2>1, Zenon
<1>f. \A n : Times(<<>>, n) = 0  BY <1>a, NumbersAre, Zenon
<1>g. UNCHANGED <<in, inbox, hermes, orphaned>>
  BY Zenon DEF Operator, Type, Enter, CtrlU, CtrlC, CtrlD, StdinClosed, pipe, turn, record
<1>h. \A n : Join(Waiting)' = Join(Waiting)
  BY <1>c, <1>d, Zenon DEF KeptNat
<1>i. ASSUME NEW line \in Lines, Settled' = Settled \cup Numbers(line), UNCHANGED keyed,
             after'.do # "send" => after'.line = <<>>,
             \A n : Times(draft, n) + Times(answer, n)
                    = Times(draft', n) + Times(answer', n) + Times(after'.line, n) + Times(line, n)
      PROVE  AllKept'
  <2>1. ASSUME NEW n \in 1..MaxTyped PROVE Kept(n) = Kept(n)' + Times(line, n)
    <3>1. Times(draft, n) + Times(answer, n)
            = Times(draft', n) + Times(answer', n) + Times(after'.line, n) + Times(line, n)
      BY <1>i
    <3>2. Times(after.line, n) = 0  BY <1>e, <1>f, Zenon
    <3>3. KeptNat(n) /\ KeptNat(n)'  BY <1>c
    <3>4. /\ Times(Join(in'), n) = Times(Join(in), n) /\ Times(Join(inbox'), n) = Times(Join(inbox), n)
          /\ Times(Join(Waiting'), n) = Times(Join(Waiting), n) /\ Times(hermes', n) = Times(hermes, n)
          /\ Times(Join(Waiting), n) = Times(Join(Held), n)
      BY <1>g, <1>h, <3>3, Zenon DEF KeptNat
    <3>5. Times(line, n) \in Nat  BY NumbersAre, Zenon
    <3>. QED  BY <3>1, <3>2, <3>3, <3>4, <3>5, SMT DEF Kept, KeptNat
  <2>2. Lost(line)  BY <1>i, <2>1, Zenon DEF Lost
  <2>. QED  BY <2>2, LostIsKept, Zenon
<1>1. CASE Type
  <2>1. UNCHANGED <<after, spent>> /\ keyed' = keyed + 1 /\ keyed < MaxTyped  BY <1>1, Zenon DEF Type, pipe
  <2>2. PICK is \in Texts \cup Commands :
          \/ draft' = draft /\ answer' = <<[n |-> keyed + 1, is |-> is]>> /\ answer = <<>>
          \/ draft' = Append(answer, [n |-> keyed + 1, is |-> is]) /\ answer' = <<>> /\ question = "up"
          \/ draft' = Append(draft, [n |-> keyed + 1, is |-> is]) /\ answer' = answer
    BY <1>1, Zenon DEF Type, FitsQuestion, Withdrawn
  <2>. DEFINE piece == [n |-> keyed + 1, is |-> is]
              new(n) == IF n = keyed + 1 THEN 1 ELSE 0
  <2>3. keyed \in Nat /\ keyed + 1 \in 1..MaxTyped
    BY <2>1, ReplAssumption, SMT DEF RTypeOK, RecordOK
  <2>4. piece \in Pieces /\ piece.n = keyed + 1  BY <2>3 DEF Pieces
  <2>. HIDE DEF piece
  <2>5. ASSUME NEW n PROVE Times(<<piece>>, n) = new(n)
    BY <2>4, TimesOne
  <2>6. ASSUME NEW n, NEW line \in Lines PROVE Times(Append(line, piece), n) = Times(line, n) + new(n)
    <3>1. Append(line, piece) = line \o <<piece>>  BY <2>4, AppendIsConcat, Zenon DEF Lines
    <3>2. <<piece>> \in Lines  BY <2>4 DEF Lines
    <3>. QED  BY <2>5, <3>1, <3>2, TimesConcat
  <2>7. ASSUME NEW n PROVE Times(draft', n) + Times(answer', n) = Times(draft, n) + Times(answer, n) + new(n)
    <3>1. KeptNat(n)  BY <1>c
    <3>2. new(n) \in Nat  OBVIOUS
    <3>3. CASE draft' = draft /\ answer' = <<piece>> /\ answer = <<>>
      <4>1. Times(answer', n) = new(n) /\ Times(answer, n) = 0 /\ Times(draft', n) = Times(draft, n)
        BY <1>f, <2>5, <3>3, Zenon
      <4>. HIDE DEF new
      <4>. QED  BY <3>1, <3>2, <4>1, SMT DEF KeptNat
    <3>4. CASE draft' = Append(answer, piece) /\ answer' = <<>> /\ question = "up"
      <4>0. draft = <<>>  BY <3>4, Zenon DEF OverNothing
      <4>1. Times(draft', n) = Times(answer, n) + new(n) /\ Times(answer', n) = 0 /\ Times(draft, n) = 0
        <5>. HIDE DEF new
        <5>. QED  BY <1>a, <1>f, <2>6, <3>4, <4>0, Zenon
      <4>. HIDE DEF new
      <4>. QED  BY <3>1, <3>2, <4>1, SMT DEF KeptNat
    <3>5. CASE draft' = Append(draft, piece) /\ answer' = answer
      <4>1. Times(draft', n) = Times(draft, n) + new(n) /\ Times(answer', n) = Times(answer, n)
        <5>. HIDE DEF new
        <5>. QED  BY <1>a, <2>6, <3>5, Zenon
      <4>. HIDE DEF new
      <4>. QED  BY <3>1, <3>2, <4>1, SMT DEF KeptNat
    <3>. QED  BY <2>2, <3>3, <3>4, <3>5, Zenon DEF piece
  <2>8. ASSUME NEW n \in 1..MaxTyped
        PROVE  Kept(n)' = IF n \in 1..keyed' /\ n \notin Settled' THEN 1 ELSE 0
    <3>0. Settled' = Settled  BY <1>g, <2>1, Zenon DEF Settled
    <3>1. Kept(n)' = Kept(n) + new(n)
      <4>1. Times(draft', n) + Times(answer', n) = Times(draft, n) + Times(answer, n) + new(n)  BY <2>7
      <4>2. new(n) \in Nat  OBVIOUS
      <4>3. KeptNat(n) /\ KeptNat(n)'  BY <1>c
      <4>4. /\ Times(Join(in'), n) = Times(Join(in), n) /\ Times(Join(inbox'), n) = Times(Join(inbox), n)
            /\ Times(Join(Waiting'), n) = Times(Join(Waiting), n) /\ Times(hermes', n) = Times(hermes, n)
            /\ Times(Join(Waiting), n) = Times(Join(Held), n) /\ Times(after'.line, n) = Times(after.line, n)
        BY <1>g, <1>h, <2>1, <4>3, Zenon DEF KeptNat
      <4>. HIDE DEF new
      <4>. QED  BY <4>1, <4>2, <4>3, <4>4, SMT DEF Kept, KeptNat
    <3>2. Kept(n) = IF n \in 1..keyed /\ n \notin Settled THEN 1 ELSE 0  BY Zenon DEF AllKept
    <3>3. CASE n = keyed + 1
      <4>1. n \notin 1..keyed /\ n \in 1..keyed'  BY <2>1, <2>3, <3>3
      <4>2. n \notin Settled  BY <4>1, Zenon DEF AllKept
      <4>3. Kept(n) = 0 /\ new(n) = 1  BY <3>2, <3>3, <4>1
      <4>4. Kept(n)' = 1  BY <3>1, <4>3
      <4>. QED  BY <3>0, <4>1, <4>2, <4>4, Zenon
    <3>4. CASE n # keyed + 1
      <4>1. n \in 1..keyed <=> n \in 1..keyed'  BY <2>1, <2>3, <3>4
      <4>2. new(n) = 0  BY <3>4
      <4>3. Kept(n) \in Nat
        <5>1. KeptNat(n)  BY <1>c
        <5>. QED  BY <5>1, SMT DEF Kept, KeptNat
      <4>4. Kept(n)' = Kept(n)  BY <3>1, <4>2, <4>3
      <4>. QED  BY <3>0, <3>2, <4>1, <4>4, Zenon
    <3>. QED  BY <3>3, <3>4
  <2>9. Settled' \subseteq 1..keyed'
    <3>1. 1..keyed \subseteq 1..keyed'  BY <2>1, <2>3
    <3>2. Settled' = Settled  BY <1>g, <2>1, Zenon DEF Settled
    <3>. QED  BY <3>1, <3>2, Zenon DEF AllKept
  <2>10. after'.do # "send" => after'.line = <<>>  BY <2>1, Zenon DEF AllKept
  <2>. QED  BY <2>8, <2>9, <2>10, Zenon DEF AllKept
<1>2. ASSUME NEW line \in Lines, spent' = spent \cup Numbers(line), UNCHANGED keyed,
             after'.line = <<>>,
             \A n : Times(draft, n) + Times(answer, n) = Times(draft', n) + Times(answer', n) + Times(line, n)
      PROVE  AllKept'
  <2>1. Settled' = Settled \cup Numbers(line)  BY <1>g, <1>2, Zenon DEF Settled
  <2>2. ASSUME NEW n
        PROVE  Times(draft, n) + Times(answer, n)
                 = Times(draft', n) + Times(answer', n) + Times(after'.line, n) + Times(line, n)
    <3>1. Times(after'.line, n) = 0  BY <1>2, <1>f, Zenon
    <3>2. KeptNat(n)'  BY <1>c
    <3>3. Times(draft, n) + Times(answer, n) = Times(draft', n) + Times(answer', n) + Times(line, n)  BY <1>2
    <3>. QED  BY <3>1, <3>2, <3>3, SMT DEF KeptNat
  <2>. QED  BY <1>2, <1>i, <2>1, <2>2, Zenon
<1>3. ASSUME UNCHANGED <<draft, spent, keyed>>, answer' = answer \/ (answer = <<>> /\ answer' = <<>>), after'.line = <<>>
      PROVE  AllKept'
  <2>1. answer' = answer  BY <1>3
  <2>2. Held' = Held /\ (after' = after \/ (after.line = <<>> /\ after'.line = <<>>))  BY <1>d, <1>e, <1>3
  <2>. QED  BY <1>3, <1>g, <2>1, <2>2, NothingLost, Zenon
<1>4. ASSUME UNCHANGED <<draft, keyed>>, answer' = <<>>, spent' = spent \cup Numbers(answer), after'.line = <<>>
      PROVE  AllKept'
  <2>1. ASSUME NEW n
        PROVE  Times(draft, n) + Times(answer, n) = Times(draft', n) + Times(answer', n) + Times(answer, n)
    <3>1. Times(draft', n) = Times(draft, n) /\ Times(answer', n) = 0  BY <1>4, <1>f, Zenon
    <3>2. KeptNat(n)  BY <1>c
    <3>. QED  BY <3>1, <3>2, SMT DEF KeptNat
  <2>. QED  BY <1>a, <1>2, <1>4, <2>1, Zenon
<1>5. CASE Enter
  <2>1. CASE UNCHANGED <<draft, after, keyed>> /\ answer' = <<>> /\ spent' = spent \cup Numbers(answer)
    BY <1>e, <1>4, <2>1, Zenon
  <2>2. CASE UNCHANGED <<answer, spent, keyed>> /\ draft' = <<>> /\ after' = Send(draft)
    <3>1. after'.do = "send" /\ after'.line = draft  BY <2>2 DEF Send
    <3>2. ASSUME NEW n
          PROVE  Times(draft, n) + Times(answer, n)
                   = Times(draft', n) + Times(answer', n) + Times(after'.line, n) + Times(<<>>, n)
      <4>1. Times(draft', n) = 0 /\ Times(answer', n) = Times(answer, n) /\ Times(after'.line, n) = Times(draft, n)
            /\ Times(<<>>, n) = 0
        BY <1>f, <2>2, <3>1, Zenon
      <4>2. KeptNat(n)  BY <1>c
      <4>. QED  BY <4>1, <4>2, SMT DEF KeptNat
    <3>3. Settled' = Settled \cup Numbers(<<>>)
      <4>1. Numbers(<<>>) = {}  BY <1>a, NumbersAre
      <4>. QED  BY <1>g, <2>2, <4>1, Zenon DEF Settled
    <3>. QED  BY <1>a, <1>i, <2>2, <3>1, <3>2, <3>3, Zenon
  <2>. QED  BY <1>5, <2>1, <2>2, Zenon DEF Enter, TakenDown
<1>6. CASE CtrlU
  <2>1. draft' = <<>> /\ answer' = <<>> /\ spent' = spent \cup Numbers(draft \o answer) /\ UNCHANGED <<keyed, after>>
    BY <1>6, Zenon DEF CtrlU, pipe
  <2>2. draft \o answer \in Lines  BY <1>a DEF Lines
  <2>3. ASSUME NEW n
        PROVE  Times(draft, n) + Times(answer, n) = Times(draft', n) + Times(answer', n) + Times(draft \o answer, n)
    <3>1. Times(draft', n) = 0 /\ Times(answer', n) = 0  BY <1>f, <2>1, Zenon
    <3>2. Times(draft \o answer, n) = Times(draft, n) + Times(answer, n)  BY <1>a, TimesConcat, Zenon
    <3>3. KeptNat(n)  BY <1>c
    <3>. QED  BY <3>1, <3>2, <3>3, SMT DEF KeptNat
  <2>. QED  BY <1>e, <1>2, <2>1, <2>2, <2>3, Zenon
<1>7. CASE CtrlC
  <2>1. CASE UNCHANGED <<draft, after>> /\ answer' = <<>> /\ spent' = spent \cup Numbers(answer)
    BY <1>e, <1>4, <1>7, <2>1, Zenon DEF CtrlC
  <2>2. CASE UNCHANGED <<draft, spent>> /\ question # "up" /\ answer' \in {answer, <<>>}
             /\ after' = [NoWork EXCEPT !.do = "interrupt"]
    <3>1. after'.line = <<>>  BY <1>b, <2>2 DEF NoWork
    <3>2. answer = <<>>  BY <2>2, Zenon DEF Meant
    <3>3. keyed' = keyed  BY <1>7, Zenon DEF CtrlC
    <3>. QED  BY <1>3, <2>2, <3>1, <3>2, <3>3, Zenon
  <2>3. CASE draft' = <<>> /\ spent' = spent \cup Numbers(draft) /\ UNCHANGED <<answer, after>>
    <3>1. ASSUME NEW n
          PROVE  Times(draft, n) + Times(answer, n) = Times(draft', n) + Times(answer', n) + Times(draft, n)
      <4>1. Times(draft', n) = 0 /\ Times(answer', n) = Times(answer, n)  BY <1>f, <2>3, Zenon
      <4>2. KeptNat(n)  BY <1>c
      <4>. QED  BY <4>1, <4>2, SMT DEF KeptNat
    <3>2. keyed' = keyed  BY <1>7, Zenon DEF CtrlC
    <3>. QED  BY <1>a, <1>e, <1>2, <2>3, <3>1, <3>2, Zenon
  <2>. QED
    <3>1. answer' \in {answer, <<>>} \/ answer' # answer  OBVIOUS
    <3>. QED  BY <1>7, <2>1, <2>2, <2>3, Zenon DEF CtrlC, TakenDown
<1>8. CASE CtrlD \/ StdinClosed
  <2>1. UNCHANGED <<draft, answer, spent, keyed>> /\ after' \in {Send(Eof), [NoWork EXCEPT !.do = "eof"]}
    BY <1>8, Zenon DEF CtrlD, StdinClosed, box, record
  <2>2. after'.line = <<>>  BY <1>b, <2>1 DEF Send, Eof, NoWork
  <2>. QED  BY <1>3, <2>1, <2>2, Zenon
<1>. QED  BY <1>1, <1>5, <1>6, <1>7, <1>8, Zenon DEF Operator

(* What the goroutines take on, and the rounds. *)
LEMMA ReaderTurnKeeps ==
  ASSUME RTypeOK, RTypeOK', Phased, Phased', AllKept, Reader \/ Turn
  PROVE  AllKept'
<1>a. /\ after.line \in Lines /\ <<>> \in Lines /\ in \in Seq(Lines) /\ inbox \in Seq(Lines) /\ hermes \in Lines
      /\ after.line \in Seq(Pieces)
  BY DEF RTypeOK, PipeOK, TurnOK, RecordOK, Afters, Lines
<1>b. NoWork.line = <<>> /\ NoWork.do = "nothing"  BY DEF NoWork
<1>c. \A n : KeptNat(n) /\ KeptNat(n)'  BY KeptType, KeptTypeNext, Zenon
<1>d. Held' = Held
  BY Zenon DEF Reader, Poll, SendOn, SendEof, Interrupt, ReaderStops, Turn, BeginTurn, Round, Ask, Answered, End, loop, Held
<1>e. \A n : Join(Waiting)' = Join(Waiting)  BY <1>c, <1>d, Zenon DEF KeptNat
<1>f. \A n : Times(<<>>, n) = 0  BY <1>a, NumbersAre, Zenon
<1>g. after.do # "send" => after.line = <<>>  BY Zenon DEF AllKept
<1>h. UNCHANGED <<draft, answer, keyed, orphaned>>
  BY Zenon DEF Reader, Poll, SendOn, SendEof, Interrupt, ReaderStops, Turn, BeginTurn, Round, Ask, Answered, End, box, record
<1>i. Numbers(<<>>) = {}  BY <1>a, NumbersAre
<1>1. CASE Poll \/ Interrupt \/ ReaderStops \/ BeginTurn \/ Ask \/ Answered \/ End
  <2>1. /\ UNCHANGED <<in, inbox, hermes, spent>>
        /\ after' = after \/ (after' = NoWork /\ after.do = "interrupt")
    BY <1>1, Zenon DEF Poll, Interrupt, ReaderStops, BeginTurn, Ask, Answered, End, pipe, turn, record
  <2>2. after.do = "interrupt" => after.do # "send"  OBVIOUS
  <2>3. after' = after \/ (after.line = <<>> /\ after'.line = <<>>)  BY <1>b, <1>g, <2>1, <2>2, Zenon
  <2>. QED  BY <1>d, <1>h, <2>1, <2>3, NothingLost, Zenon
<1>2. CASE SendEof
  <2>1. UNCHANGED <<inbox, hermes, spent>> /\ in' = Append(in, <<>>) /\ after' = NoWork /\ after.do = "eof"
    BY <1>2, Zenon DEF SendEof, turn, record, Eof
  <2>2. after.line = <<>> /\ after'.line = <<>>
    <3>1. after.do # "send"  BY <2>1
    <3>. QED  BY <1>b, <1>g, <2>1, <3>1, Zenon
  <2>3. ASSUME NEW n \in 1..MaxTyped PROVE Kept(n) = Kept(n)' + Times(<<>>, n)
    <3>1. Times(Join(in'), n) = Times(Join(in), n) + Times(<<>>, n)  BY <1>a, <2>1, TimesJoin, Zenon
    <3>2. KeptNat(n) /\ KeptNat(n)'  BY <1>c
    <3>3. /\ Times(draft', n) = Times(draft, n) /\ Times(answer', n) = Times(answer, n)
          /\ Times(after'.line, n) = Times(after.line, n) /\ Times(Join(inbox'), n) = Times(Join(inbox), n)
          /\ Times(Join(Waiting'), n) = Times(Join(Waiting), n) /\ Times(hermes', n) = Times(hermes, n)
          /\ Times(Join(Waiting), n) = Times(Join(Held), n) /\ Times(<<>>, n) = 0
      BY <1>e, <1>f, <1>h, <2>1, <2>2, <3>2, Zenon DEF KeptNat
    <3>. QED  BY <3>1, <3>2, <3>3, SMT DEF Kept, KeptNat
  <2>4. Settled' = Settled \cup Numbers(<<>>)  BY <1>h, <1>i, <2>1, Zenon DEF Settled
  <2>5. Lost(<<>>)  BY <1>h, <2>2, <2>3, <2>4, Zenon DEF Lost
  <2>. QED  BY <1>a, <2>5, LostIsKept, Zenon
<1>3. CASE SendOn
  <2>1. UNCHANGED <<inbox, hermes>> /\ after' = NoWork  BY <1>3, Zenon DEF SendOn, turn
  <2>2. after'.line = <<>>  BY <1>b, <2>1, Zenon
  <2>3. ASSUME NEW line \in Lines, Settled' = Settled \cup Numbers(line),
               \A n : Times(after.line, n) + Times(Join(in), n) = Times(Join(in'), n) + Times(line, n)
        PROVE  AllKept'
    <3>1. ASSUME NEW n \in 1..MaxTyped PROVE Kept(n) = Kept(n)' + Times(line, n)
      <4>1. Times(after.line, n) + Times(Join(in), n) = Times(Join(in'), n) + Times(line, n)  BY <2>3
      <4>2. KeptNat(n) /\ KeptNat(n)'  BY <1>c
      <4>3. /\ Times(draft', n) = Times(draft, n) /\ Times(answer', n) = Times(answer, n)
            /\ Times(after'.line, n) = 0 /\ Times(Join(inbox'), n) = Times(Join(inbox), n)
            /\ Times(Join(Waiting'), n) = Times(Join(Waiting), n) /\ Times(hermes', n) = Times(hermes, n)
            /\ Times(Join(Waiting), n) = Times(Join(Held), n)
        BY <1>e, <1>f, <1>h, <2>1, <2>2, <4>2, Zenon DEF KeptNat
      <4>4. Times(line, n) \in Nat  BY NumbersAre, Zenon
      <4>. QED  BY <4>1, <4>2, <4>3, <4>4, SMT DEF Kept, KeptNat
    <3>2. Lost(line)  BY <1>h, <2>2, <2>3, <3>1, Zenon DEF Lost
    <3>. QED  BY <3>2, LostIsKept, Zenon
  <2>4. CASE in' = Append(in, after.line) /\ UNCHANGED spent
    <3>1. Settled' = Settled \cup Numbers(<<>>)  BY <1>h, <1>i, <2>4, Zenon DEF Settled
    <3>2. ASSUME NEW n
          PROVE  Times(after.line, n) + Times(Join(in), n) = Times(Join(in'), n) + Times(<<>>, n)
      <4>1. Times(Join(in'), n) = Times(Join(in), n) + Times(after.line, n)  BY <1>a, <2>4, TimesJoin, Zenon
      <4>2. KeptNat(n) /\ Times(<<>>, n) = 0  BY <1>c, <1>f
      <4>. QED  BY <4>1, <4>2, SMT DEF KeptNat
    <3>. QED  BY <1>a, <2>3, <3>1, <3>2, Zenon
  <2>5. CASE spent' = spent \cup Numbers(after.line) /\ UNCHANGED in
    <3>1. Settled' = Settled \cup Numbers(after.line)  BY <1>h, <2>5, Zenon DEF Settled
    <3>2. ASSUME NEW n
          PROVE  Times(after.line, n) + Times(Join(in), n) = Times(Join(in'), n) + Times(after.line, n)
      <4>1. Times(Join(in'), n) = Times(Join(in), n)  BY <2>5, Zenon
      <4>2. KeptNat(n)  BY <1>c
      <4>. QED  BY <4>1, <4>2, SMT DEF KeptNat
    <3>. QED  BY <1>a, <2>3, <3>1, <3>2, Zenon
  <2>. QED  BY <1>3, <2>4, <2>5, Zenon DEF SendOn
<1>4. CASE Round
  <2>1. UNCHANGED <<in, after, spent>> /\ hermes' = hermes \o Join(inbox) /\ inbox' = <<>>
    BY <1>4, Zenon DEF Round, Taken, pipe
  <2>2. ASSUME NEW n \in 1..MaxTyped PROVE Kept(n)' = Kept(n)
    <3>1. Times(hermes', n) = Times(hermes, n) + Times(Join(inbox), n)
      <4>1. Join(inbox) \in Lines  BY <1>a, QueueType, 0 \in Nat
      <4>. QED  BY <1>a, <2>1, <4>1, TimesConcat, Zenon
    <3>2. KeptNat(n) /\ KeptNat(n)'  BY <1>c
    <3>3. /\ Times(draft', n) = Times(draft, n) /\ Times(answer', n) = Times(answer, n)
          /\ Times(after'.line, n) = Times(after.line, n) /\ Times(Join(in'), n) = Times(Join(in), n)
          /\ Times(Join(Waiting'), n) = Times(Join(Waiting), n) /\ Times(Join(Waiting), n) = Times(Join(Held), n)
      BY <1>e, <1>h, <2>1, <3>2, Zenon DEF KeptNat
    <3>4. Times(Join(inbox'), n) = 0  BY <1>f, <2>1, JoinEmpty, Zenon
    <3>. QED  BY <3>1, <3>2, <3>3, <3>4, SMT DEF Kept, KeptNat
  <2>3. Settled' = Settled  BY <1>h, <2>1, Zenon DEF Settled
  <2>. QED  BY <1>g, <1>h, <2>1, <2>2, <2>3, Zenon DEF AllKept
<1>. QED  BY <1>1, <1>2, <1>3, <1>4, Zenon DEF Reader, Turn

LEMMA HandleKeeps ==
  ASSUME RTypeOK, NEW line \in Lines, Handle(line)
  PROVE  \E out \in Lines :
           /\ spent' = spent \cup Numbers(out)
           /\ \A n : Times(hermes, n) + Times(line, n) = Times(hermes', n) + Times(out, n)
<1>a. hermes \in Lines /\ <<>> \in Lines  BY DEF RTypeOK, RecordOK, Lines
<1>1. \/ spent' = spent \cup Numbers(line) /\ UNCHANGED hermes
      \/ spent' = spent /\ hermes' = hermes \o line
  BY Zenon DEF Handle, StartTurn
<1>2. CASE spent' = spent \cup Numbers(line) /\ UNCHANGED hermes
  <2>1. \A n : Times(hermes, n) + Times(line, n) = Times(hermes', n) + Times(line, n)  BY <1>2, Zenon
  <2>. QED  BY <1>2, <2>1
<1>3. CASE spent' = spent /\ hermes' = hermes \o line
  <2>1. spent' = spent \cup Numbers(<<>>)
    <3>1. Numbers(<<>>) = {}  BY <1>a, NumbersAre
    <3>. QED  BY <1>3, <3>1, Zenon
  <2>2. ASSUME NEW n PROVE Times(hermes, n) + Times(line, n) = Times(hermes', n) + Times(<<>>, n)
    <3>1. Times(hermes', n) = Times(hermes, n) + Times(line, n)  BY <1>a, <1>3, TimesConcat, Zenon
    <3>2. Times(hermes, n) \in Nat /\ Times(line, n) \in Nat /\ Times(<<>>, n) = 0  BY <1>a, NumbersAre, Zenon
    <3>. QED  BY <3>1, <3>2
  <2>. QED  BY <1>a, <2>1, <2>2, Zenon
<1>. QED  BY <1>1, <1>2, <1>3

(* What the loop may move: all but what the reader holds. *)
Moving(n) == Times(draft, n) + Times(Join(in), n) + Times(Join(inbox), n) + Times(Join(Held), n) + Times(hermes, n)

LEMMA MovingIs ==
  ASSUME RTypeOK, RTypeOK', Phased, Phased', NEW n
  PROVE  /\ Kept(n) = Moving(n) + (Times(answer, n) + Times(after.line, n))
         /\ Kept(n)' = Moving(n)' + (Times(answer', n) + Times(after'.line, n))
         /\ Moving(n) \in Nat /\ Moving(n)' \in Nat
         /\ Times(answer, n) + Times(after.line, n) \in Nat
<1>1. KeptNat(n) /\ KeptNat(n)'  BY KeptType, KeptTypeNext, Zenon
<1>2. /\ Times(Join(Waiting), n) = Times(Join(Held), n) /\ Times(Join(Waiting'), n) = Times(Join(Held'), n)
  BY <1>1, Zenon DEF KeptNat
<1>3. Kept(n) = Moving(n) + (Times(answer, n) + Times(after.line, n))
  BY <1>1, <1>2, SMT DEF KeptNat, Kept, Moving
<1>4. Kept(n)' = Moving(n)' + (Times(answer', n) + Times(after'.line, n))
  BY <1>1, <1>2, SMT DEF KeptNat, Kept, Moving
<1>5. Moving(n) \in Nat /\ Moving(n)' \in Nat /\ Times(answer, n) + Times(after.line, n) \in Nat
  BY <1>1, SMT DEF KeptNat, Moving
<1>. QED  BY <1>3, <1>4, <1>5

(* The main loop: a line run, queued, sent or put back. *)
LEMMA LoopKeeps ==
  ASSUME RTypeOK, RTypeOK', Phased, Phased', AllKept, Loop
  PROVE  AllKept'
<1>a. /\ <<>> \in Lines /\ in \in Seq(Lines) /\ inbox \in Seq(Lines) /\ hermes \in Lines /\ draft \in Lines
      /\ deferred \in Seq(Lines) /\ todo \in Seq(Lines)
  <2>1. <<>> \in Lines  BY DEF Lines
  <2>. QED  BY <2>1, Zenon DEF RTypeOK, BoxOK, PipeOK, LoopOK, TurnOK, RecordOK
<1>b. ASSUME NEW lines \in Seq(Lines), lines # <<>> PROVE Head(lines) \in Lines /\ Tail(lines) \in Seq(Lines)
  BY <1>a, <1>b, QueueType, 0 \in Nat
<1>c. \A n : KeptNat(n) /\ KeptNat(n)'  BY KeptType, KeptTypeNext, Zenon
<1>f. \A n : Times(<<>>, n) = 0  BY <1>a, NumbersAre, Zenon
<1>g. after.do # "send" => after.line = <<>>  BY Zenon DEF AllKept
<1>h. UNCHANGED <<answer, keyed, after>>
  BY Zenon DEF Loop, ReceiveEof, Receive, ReceiveCommand, ReceiveText, Listed, TurnDone, Deferred, Left,
     SetupDone, Quit, Waited, Ends, box, pipe, record
<1>i. Numbers(<<>>) = {}  BY <1>a, NumbersAre
<1>j. Join(inbox) \in Lines  BY <1>a, QueueType, 0 \in Nat
<1>0. ASSUME NEW line \in Lines, Settled' = Settled \cup Numbers(line),
             \A n : Moving(n) = Moving(n)' + Times(line, n)
      PROVE  AllKept'
  <2>1. ASSUME NEW n \in 1..MaxTyped PROVE Kept(n) = Kept(n)' + Times(line, n)
    <3>1. Moving(n) = Moving(n)' + Times(line, n)  BY <1>0
    <3>2. Times(answer', n) = Times(answer, n) /\ Times(after'.line, n) = Times(after.line, n)  BY <1>h, Zenon
    <3>3. /\ Kept(n) = Moving(n) + (Times(answer, n) + Times(after.line, n))
          /\ Kept(n)' = Moving(n)' + (Times(answer', n) + Times(after'.line, n))
          /\ Moving(n) \in Nat /\ Moving(n)' \in Nat
          /\ Times(answer, n) + Times(after.line, n) \in Nat
      BY MovingIs, Zenon
    <3>4. Times(line, n) \in Nat  BY NumbersAre, Zenon
    <3>5. Kept(n)' = Moving(n)' + (Times(answer, n) + Times(after.line, n))  BY <3>2, <3>3, Zenon
    <3>. QED  BY <3>1, <3>3, <3>4, <3>5, SMT
  <2>2. Lost(line)  BY <1>0, <1>g, <1>h, <2>1, Zenon DEF Lost
  <2>. QED  BY <2>2, LostIsKept, Zenon
<1>1. CASE Listed \/ TurnDone \/ Quit \/ Waited \/ Ends
  <2>1. UNCHANGED <<draft, in, inbox, hermes, spent, orphaned>>
    BY <1>1, Zenon DEF Listed, TurnDone, Quit, Waited, Ends, box, pipe, turn, record
  <2>2. Held' = Held
    BY <1>1, Zenon DEF Listed, TurnDone, Quit, Waited, Ends, Held
  <2>. QED  BY <1>h, <2>1, <2>2, NothingLost, Zenon
<1>2. CASE ReceiveEof
  <2>1. UNCHANGED <<draft, inbox, hermes, spent, orphaned, main, todo, deferred>>
        /\ in # <<>> /\ Head(in) = <<>> /\ in' = Tail(in)
    BY <1>2, Zenon DEF ReceiveEof, Receives, Eof, box, turn, record
  <2>2. Settled' = Settled \cup Numbers(<<>>) /\ Held' = Held  BY <1>i, <2>1, Zenon DEF Settled, Held
  <2>3. ASSUME NEW n
        PROVE  Moving(n) = Moving(n)' + Times(<<>>, n)
    <3>1. Times(Join(in), n) = Times(Head(in), n) + Times(Join(in'), n)  BY <1>a, <2>1, TimesJoin, Zenon
    <3>2. Times(Head(in), n) = 0 /\ Times(<<>>, n) = 0  BY <1>f, <2>1, Zenon
    <3>3. KeptNat(n) /\ KeptNat(n)'  BY <1>c
    <3>e. /\ Times(draft', n) = Times(draft, n)
           /\ Times(Join(inbox'), n) = Times(Join(inbox), n)
           /\ Times(Join(Held'), n) = Times(Join(Held), n)
           /\ Times(hermes', n) = Times(hermes, n)
      BY <2>1, <2>2, Zenon
    <3>. QED  BY <3>e, <3>1, <3>2, <3>3, SMT DEF Moving, KeptNat
  <2>. QED  BY <1>0, <1>a, <2>2, <2>3, Zenon
<1>3. CASE Receive
  <2>1. UNCHANGED <<draft, inbox, orphaned, todo, deferred>> /\ main = "loop"
        /\ in # <<>> /\ in' = Tail(in) /\ Handle(Head(in))
    BY <1>3, Zenon DEF Receive, Receives
  <2>2. main' \in {"loop", "setup"}  BY <2>1, HandleGoes, Zenon
  <2>3. Held' = Held  BY <2>1, <2>2, Zenon DEF Held
  <2>4. Head(in) \in Lines  BY <1>a, <1>b, <2>1, Zenon
  <2>5. PICK out \in Lines : /\ spent' = spent \cup Numbers(out)
                             /\ \A n : Times(hermes, n) + Times(Head(in), n) = Times(hermes', n) + Times(out, n)
    BY <2>1, <2>4, HandleKeeps, Zenon
  <2>6. Settled' = Settled \cup Numbers(out)  BY <2>1, <2>5, Zenon DEF Settled
  <2>7. ASSUME NEW n
        PROVE  Moving(n) = Moving(n)' + Times(out, n)
    <3>1. Times(Join(in), n) = Times(Head(in), n) + Times(Join(in'), n)  BY <1>a, <2>1, TimesJoin, Zenon
    <3>2. Times(hermes, n) + Times(Head(in), n) = Times(hermes', n) + Times(out, n)  BY <2>5
    <3>3. KeptNat(n) /\ KeptNat(n)' /\ Times(out, n) \in Nat /\ Times(Head(in), n) \in Nat
      BY <1>c, <2>4, NumbersAre, Zenon
    <3>e. /\ Times(draft', n) = Times(draft, n)
           /\ Times(Join(inbox'), n) = Times(Join(inbox), n)
           /\ Times(Join(Held'), n) = Times(Join(Held), n)
      BY <2>1, <2>3, Zenon
    <3>. QED  BY <3>e, <3>1, <3>2, <3>3, SMT DEF Moving, KeptNat
  <2>. QED  BY <1>0, <2>6, <2>7, Zenon
<1>4. CASE ReceiveCommand
  <2>1. /\ UNCHANGED <<draft, inbox, orphaned, todo, hermes, main>> /\ main = "loop"
        /\ in # <<>> /\ in' = Tail(in)
        /\ \/ spent' = spent \cup Numbers(Head(in)) /\ UNCHANGED deferred
           \/ deferred' = Append(deferred, Head(in)) /\ UNCHANGED spent
    BY <1>4, Zenon DEF ReceiveCommand, Receives, turn
  <2>2. Held = deferred /\ Held' = deferred'  BY <2>1, Zenon DEF Held
  <2>3. PICK first \in Lines : first = Head(in)  BY <1>a, <1>b, <2>1, Zenon
  <2>4. ASSUME NEW n
        PROVE  /\ Times(Join(in), n) = Times(first, n) + Times(Join(in'), n)
               /\ KeptNat(n) /\ KeptNat(n)' /\ Times(first, n) \in Nat /\ Times(<<>>, n) = 0
    BY <1>a, <1>c, <1>f, <2>1, <2>3, TimesJoin, NumbersAre, Zenon
  <2>5. CASE spent' = spent \cup Numbers(first) /\ UNCHANGED deferred
    <3>1. Settled' = Settled \cup Numbers(first)  BY <2>1, <2>5, Zenon DEF Settled
    <3>2. ASSUME NEW n
          PROVE  Moving(n) = Moving(n)' + Times(first, n)
      <4>e. /\ Times(draft', n) = Times(draft, n)
             /\ Times(Join(inbox'), n) = Times(Join(inbox), n)
             /\ Times(Join(Held'), n) = Times(Join(Held), n)
             /\ Times(hermes', n) = Times(hermes, n)
        BY <2>1, <2>2, <2>5, Zenon
      <4>2. KeptNat(n) /\ KeptNat(n)' /\ Times(first, n) \in Nat
            /\ Times(Join(in), n) = Times(first, n) + Times(Join(in'), n)
        BY <2>4
      <4>. QED  BY <4>e, <4>2, SMT DEF Moving, KeptNat
    <3>. QED  BY <1>0, <2>3, <3>1, <3>2, Zenon
  <2>6. CASE deferred' = Append(deferred, first) /\ UNCHANGED spent
    <3>1. Settled' = Settled \cup Numbers(<<>>)  BY <1>i, <2>1, <2>6, Zenon DEF Settled
    <3>2. ASSUME NEW n
          PROVE  Moving(n) = Moving(n)' + Times(<<>>, n)
      <4>1. Times(Join(Held'), n) = Times(Join(Held), n) + Times(first, n)
        BY <1>a, <2>2, <2>3, <2>6, TimesJoin, Zenon
      <4>e. /\ Times(draft', n) = Times(draft, n)
             /\ Times(Join(inbox'), n) = Times(Join(inbox), n)
             /\ Times(hermes', n) = Times(hermes, n)
        BY <2>1, Zenon
      <4>2. KeptNat(n) /\ KeptNat(n)' /\ Times(first, n) \in Nat
            /\ Times(Join(in), n) = Times(first, n) + Times(Join(in'), n)
        BY <2>4
      <4>3. Moving(n) = Moving(n)'  BY <4>e, <4>1, <4>2, SMT DEF Moving, KeptNat
      <4>4. Moving(n)' \in Nat /\ Times(<<>>, n) = 0  BY <1>f, MovingIs, Zenon
      <4>. QED  BY <4>3, <4>4
    <3>. QED  BY <1>0, <1>a, <3>1, <3>2, Zenon
  <2>. QED  BY <2>1, <2>3, <2>5, <2>6, Zenon
<1>5. CASE ReceiveText
  <2>1. /\ UNCHANGED <<draft, orphaned, hermes, deferred, spent>> /\ main = "loop" /\ main' = "queue"
        /\ in # <<>> /\ in' = Tail(in) /\ inbox' = Append(inbox, Head(in))
    BY <1>5, Zenon DEF ReceiveText, Receives, box, record
  <2>2. Held' = Held  BY <2>1, Zenon DEF Held
  <2>3. PICK first \in Lines : first = Head(in)  BY <1>a, <1>b, <2>1, Zenon
  <2>4. Settled' = Settled \cup Numbers(<<>>)  BY <1>i, <2>1, Zenon DEF Settled
  <2>5. ASSUME NEW n
        PROVE  Moving(n) = Moving(n)' + Times(<<>>, n)
    <3>1. Times(Join(in), n) = Times(first, n) + Times(Join(in'), n)  BY <1>a, <2>1, <2>3, TimesJoin, Zenon
    <3>2. Times(Join(inbox'), n) = Times(Join(inbox), n) + Times(first, n)
      <4>1. Times(Join(Append(inbox, first)), n) = Times(Join(inbox), n) + Times(first, n)  BY <1>a, TimesJoin
      <4>. QED  BY <2>1, <2>3, <4>1, Zenon
    <3>3. KeptNat(n) /\ KeptNat(n)' /\ Times(first, n) \in Nat
      BY <1>c, <2>3, NumbersAre, Zenon
    <3>e. /\ Times(draft', n) = Times(draft, n)
           /\ Times(Join(Held'), n) = Times(Join(Held), n)
           /\ Times(hermes', n) = Times(hermes, n)
      BY <2>1, <2>2, Zenon
    <3>4. Times(Join(in), n) = Times(first, n) + Times(Join(in'), n)  BY <3>1, Zenon
    <3>5. Moving(n) = Moving(n)'  BY <3>e, <3>2, <3>3, <3>4, SMT DEF Moving, KeptNat
    <3>6. Moving(n)' \in Nat /\ Times(<<>>, n) = 0  BY <1>f, MovingIs, Zenon
    <3>. QED  BY <3>5, <3>6
  <2>. QED  BY <1>0, <1>a, <2>4, <2>5, Zenon
<1>6. CASE Deferred
  <2>1. UNCHANGED <<draft, in, inbox, orphaned, deferred>> /\ main = "after"
        /\ todo # <<>> /\ todo' = Tail(todo) /\ Handle(Head(todo))
    BY <1>6, Zenon DEF Deferred, pipe
  <2>2. main' \in {"after", "setup, then after"}
    <3>1. AllDeferrable(todo)  BY <2>1, Zenon DEF Phased
    <3>2. Kind(Head(todo)) \notin Texts  BY <1>a, <2>1, <3>1, DeferrableLines, NotBoth, Zenon
    <3>. QED  BY <2>1, <3>2, HandleGoes, Zenon
  <2>3. Held = todo /\ Held' = todo'  BY <2>1, <2>2, Zenon DEF Held
  <2>4. Head(todo) \in Lines  BY <1>a, <1>b, <2>1, Zenon
  <2>5. PICK out \in Lines : /\ spent' = spent \cup Numbers(out)
                             /\ \A n : Times(hermes, n) + Times(Head(todo), n) = Times(hermes', n) + Times(out, n)
    BY <2>1, <2>4, HandleKeeps, Zenon
  <2>6. Settled' = Settled \cup Numbers(out)  BY <2>1, <2>5, Zenon DEF Settled
  <2>7. ASSUME NEW n
        PROVE  Moving(n) = Moving(n)' + Times(out, n)
    <3>1. Times(Join(Held), n) = Times(Head(todo), n) + Times(Join(Held'), n)  BY <1>a, <2>1, <2>3, TimesJoin, Zenon
    <3>2. Times(hermes, n) + Times(Head(todo), n) = Times(hermes', n) + Times(out, n)  BY <2>5
    <3>3. KeptNat(n) /\ KeptNat(n)' /\ Times(out, n) \in Nat /\ Times(Head(todo), n) \in Nat
      BY <1>c, <2>4, NumbersAre, Zenon
    <3>e. /\ Times(draft', n) = Times(draft, n)
           /\ Times(Join(in'), n) = Times(Join(in), n)
           /\ Times(Join(inbox'), n) = Times(Join(inbox), n)
      BY <2>1, Zenon
    <3>. QED  BY <3>e, <3>1, <3>2, <3>3, SMT DEF Moving, KeptNat
  <2>. QED  BY <1>0, <2>6, <2>7, Zenon
<1>7. CASE Left
  <2>1. /\ UNCHANGED <<in, orphaned, deferred, todo>> /\ main = "after" /\ todo = <<>> /\ inbox' = <<>>
        /\ \/ Handle(Join(inbox)) /\ UNCHANGED draft
           \/ PutBack(Join(inbox)) /\ main' = "loop" /\ UNCHANGED <<hermes, spent>>
    BY <1>7, Zenon DEF Left, pipe
  <2>2. main' \in {"after", "setup, then after", "loop"}  BY <2>1, HandleGoes, Zenon
  <2>3. Held = <<>> /\ Held' = <<>>
    <3>1. deferred = <<>>  BY <2>1, Zenon DEF Phased
    <3>. QED  BY <2>1, <3>1, Zenon DEF Held
  <2>4. ASSUME NEW n
        PROVE  /\ KeptNat(n) /\ KeptNat(n)' /\ Times(<<>>, n) = 0
               /\ Times(Join(inbox'), n) = 0 /\ Times(Join(Held'), n) = Times(Join(Held), n)
    BY <1>c, <1>f, <2>1, <2>3, JoinEmpty, Zenon
  <2>5. CASE Handle(Join(inbox)) /\ UNCHANGED draft
    <3>1. PICK out \in Lines : /\ spent' = spent \cup Numbers(out)
                               /\ \A n : Times(hermes, n) + Times(Join(inbox), n) = Times(hermes', n) + Times(out, n)
      BY <1>j, <2>5, HandleKeeps, Zenon
    <3>2. Settled' = Settled \cup Numbers(out)  BY <2>1, <3>1, Zenon DEF Settled
    <3>3. ASSUME NEW n
          PROVE  Moving(n) = Moving(n)' + Times(out, n)
      <4>1. Times(hermes, n) + Times(Join(inbox), n) = Times(hermes', n) + Times(out, n)  BY <3>1
      <4>2. Times(out, n) \in Nat  BY NumbersAre, Zenon
      <4>e. /\ Times(draft', n) = Times(draft, n)
             /\ Times(Join(in'), n) = Times(Join(in), n)
        BY <2>1, <2>5, Zenon
      <4>3. KeptNat(n) /\ KeptNat(n)' /\ Times(Join(inbox'), n) = 0 /\ Times(Join(Held'), n) = Times(Join(Held), n)
        BY <2>4
      <4>. QED  BY <4>e, <4>1, <4>2, <4>3, SMT DEF Moving, KeptNat
    <3>. QED  BY <1>0, <3>2, <3>3, Zenon
  <2>6. CASE PutBack(Join(inbox)) /\ UNCHANGED <<hermes, spent>>
    <3>1. Settled' = Settled \cup Numbers(<<>>)  BY <1>i, <2>1, <2>6, Zenon DEF Settled
    <3>2. ASSUME NEW n
          PROVE  Moving(n) = Moving(n)' + Times(<<>>, n)
      <4>1. Times(draft', n) = Times(Join(inbox), n) + Times(draft, n)
        BY <1>a, <1>j, <2>6, TimesConcat, Zenon DEF PutBack
      <4>e. /\ Times(Join(in'), n) = Times(Join(in), n)
             /\ Times(hermes', n) = Times(hermes, n)
        BY <2>1, <2>6, Zenon
      <4>. QED  BY <4>e, <2>4, <4>1, SMT DEF Moving, KeptNat
    <3>. QED  BY <1>0, <1>a, <3>1, <3>2, Zenon
  <2>. QED  BY <2>1, <2>5, <2>6
<1>8. CASE SetupDone
  <2>1. /\ UNCHANGED <<draft, in, deferred, todo, hermes, spent>>
        /\ main \in {"setup", "setup, then after"} /\ main' = IF main = "setup" THEN "loop" ELSE "after"
        /\ \/ UNCHANGED <<inbox, orphaned>>
           \/ inbox' = <<>> /\ orphaned' = orphaned \cup Numbers(Join(inbox))
    BY <1>8, Zenon DEF SetupDone, pipe
  <2>2. Held' = Held
    <3>1. CASE main = "setup"  BY <2>1, <3>1, Zenon DEF Held
    <3>2. CASE main # "setup"  BY <2>1, <3>2, Zenon DEF Held
    <3>. QED  BY <3>1, <3>2
  <2>3. CASE UNCHANGED <<inbox, orphaned>>
    BY <1>h, <2>1, <2>2, <2>3, NothingLost, Zenon
  <2>4. CASE inbox' = <<>> /\ orphaned' = orphaned \cup Numbers(Join(inbox))
    <3>1. Settled' = Settled \cup Numbers(Join(inbox))  BY <2>1, <2>4, Zenon DEF Settled
    <3>2. ASSUME NEW n
          PROVE  Moving(n) = Moving(n)' + Times(Join(inbox), n)
      <4>1. Times(Join(inbox'), n) = 0  BY <1>f, <2>4, JoinEmpty, Zenon
      <4>2. KeptNat(n) /\ KeptNat(n)'  BY <1>c
      <4>e. /\ Times(draft', n) = Times(draft, n)
             /\ Times(Join(in'), n) = Times(Join(in), n)
             /\ Times(Join(Held'), n) = Times(Join(Held), n)
             /\ Times(hermes', n) = Times(hermes, n)
        BY <2>1, <2>2, Zenon
      <4>. QED  BY <4>e, <4>1, <4>2, SMT DEF Moving, KeptNat
    <3>. QED  BY <1>0, <1>j, <3>1, <3>2, Zenon
  <2>. QED  BY <2>1, <2>3, <2>4
<1>. QED  BY <1>1, <1>2, <1>3, <1>4, <1>5, <1>6, <1>7, <1>8, Zenon DEF Loop

LEMMA OverInit == RInit => OverNothing
BY Zenon DEF RInit, OverNothing

LEMMA OverStep ==
  ASSUME Phased, Meant, OverNothing, [RNext]_rvars
  PROVE  OverNothing'
<1>1. ASSUME UNCHANGED <<draft, question>> PROVE OverNothing'
  BY <1>1, Zenon DEF OverNothing
<1>2. CASE UNCHANGED rvars
  BY <1>1, <1>2, Zenon DEF rvars, box
<1>3. CASE Operator
  <2>1. \/ question # "up" /\ UNCHANGED question
        \/ draft' \in {draft, <<>>} /\ question' \in {question, "none"}
        \/ question' = "waits"
    BY <1>3, Zenon DEF Operator, Type, Enter, CtrlU, CtrlC, CtrlD, StdinClosed, TakenDown, box
  <2>2. "waits" # "up" /\ "none" # "up"  OBVIOUS
  <2>. QED  BY <2>1, <2>2, Zenon DEF OverNothing
<1>4. CASE Reader
  <2>1. UNCHANGED <<draft, question>> \/ (draft = <<>> /\ UNCHANGED draft)
    BY <1>4, Zenon DEF Reader, Poll, LineFree, SendOn, SendEof, Interrupt, ReaderStops, box
  <2>. QED  BY <1>1, <2>1, Zenon DEF OverNothing
<1>5. CASE Loop
  <2>1. UNCHANGED <<draft, question>> \/ (main = "after" /\ UNCHANGED question)
    BY <1>5, Zenon DEF Loop, ReceiveEof, Receive, ReceiveCommand, ReceiveText, Listed, TurnDone, Deferred, Left,
       SetupDone, Quit, Waited, Ends, box
  <2>2. main = "after" => question = "none"
    <3>1. main = "after" => worker = "none"  BY Zenon DEF Phased
    <3>2. question # "none" => worker = "asks"  BY Zenon DEF Meant
    <3>3. "none" # "asks"  OBVIOUS
    <3>. QED  BY <3>1, <3>2, <3>3, Zenon
  <2>3. "none" # "up"  OBVIOUS
  <2>. QED  BY <1>1, <2>1, <2>2, <2>3, Zenon DEF OverNothing
<1>6. CASE Turn
  <2>1. UNCHANGED <<draft, question>> \/ (UNCHANGED draft /\ (question' = "waits" \/ draft = <<>>))
    BY <1>6, Zenon DEF Turn, BeginTurn, Round, Ask, LineFree, Answered, End, box
  <2>2. "waits" # "up"  OBVIOUS
  <2>. QED  BY <1>1, <2>1, <2>2, Zenon DEF OverNothing
<1>. QED  BY <1>2, <1>3, <1>4, <1>5, <1>6 DEF RNext

LEMMA KeptInit == RInit => AllKept
<1> SUFFICES ASSUME RInit PROVE AllKept
  OBVIOUS
<1>1. /\ draft = <<>> /\ answer = <<>> /\ after = NoWork /\ in = <<>> /\ inbox = <<>> /\ hermes = <<>>
      /\ main = "loop" /\ deferred = <<>> /\ todo = <<>> /\ keyed = 0 /\ spent = {} /\ orphaned = {}
  BY Zenon DEF RInit
<1>2. <<>> \in Lines /\ NoWork.line = <<>>  BY DEF Lines, NoWork
<1>3. Waiting = <<>>
  <2>1. <<>> \o <<>> = <<>>  OBVIOUS
  <2>2. Waiting = <<>> \o <<>>  BY <1>1, Zenon DEF Waiting
  <2>. QED  BY <2>1, <2>2, Zenon
<1>4. ASSUME NEW n PROVE Kept(n) = 0
  <2>1. Times(<<>>, n) = 0  BY <1>2, NumbersAre, Zenon
  <2>2. /\ Times(draft, n) = 0 /\ Times(answer, n) = 0 /\ Times(after.line, n) = 0 /\ Times(Join(in), n) = 0
        /\ Times(Join(inbox), n) = 0 /\ Times(Join(Waiting), n) = 0 /\ Times(hermes, n) = 0
    BY <1>1, <1>2, <1>3, <2>1, JoinEmpty, Zenon
  <2>. QED  BY <2>2, SMT DEF Kept
<1>5. 1..keyed = {}  BY <1>1
<1>6. Settled = {}  BY <1>1, Zenon DEF Settled
<1>7. after.line = <<>>  BY <1>1, <1>2, Zenon
<1>. QED  BY <1>4, <1>5, <1>6, <1>7, Zenon DEF AllKept

LEMMA KeptStep ==
  ASSUME RTypeOK, Phased, Meant, OverNothing, AllKept, [RNext]_rvars
  PROVE  AllKept'
<1>1. RTypeOK' /\ Phased'  BY ReplTypesStep, PhasedStep
<1>2. CASE UNCHANGED rvars
  <2>1. UNCHANGED <<draft, answer, in, inbox, hermes, spent, orphaned, keyed, after>> /\ Held' = Held
    BY <1>2, Zenon DEF rvars, box, pipe, loop, turn, record, Held
  <2>. QED  BY <1>1, <2>1, NothingLost, Zenon
<1>3. CASE Operator  BY <1>1, <1>3, OperatorKeeps, Zenon
<1>4. CASE Reader \/ Turn  BY <1>1, <1>4, ReaderTurnKeeps, Zenon
<1>5. CASE Loop  BY <1>1, <1>5, LoopKeeps, Zenon
<1>. QED  BY <1>2, <1>3, <1>4, <1>5 DEF RNext

LEMMA KeptOnce ==
  ASSUME RTypeOK, AllKept
  PROVE  TypedIsKept
<1>. DEFINE L1 == draft \o answer
            L2 == L1 \o after.line
            L3 == L2 \o Join(in)
            L4 == L3 \o Join(inbox)
            L5 == L4 \o Join(Waiting)
            places == L5 \o hermes
<1>a. /\ draft \in Lines /\ answer \in Lines /\ after.line \in Lines /\ hermes \in Lines
      /\ in \in Seq(Lines) /\ inbox \in Seq(Lines) /\ todo \in Seq(Lines) /\ deferred \in Seq(Lines)
  BY Zenon DEF RTypeOK, BoxOK, PipeOK, LoopOK, TurnOK, RecordOK, Afters
<1>b. Waiting \in Seq(Lines)
  <2>1. deferred \o todo \in Seq(Lines)  BY <1>a, QueueType, 0 \in Nat
  <2>. QED  BY <1>a, <2>1, Zenon DEF Waiting
<1>c. Join(in) \in Lines /\ Join(inbox) \in Lines /\ Join(Waiting) \in Lines
  <2>1. \A lines \in Seq(Lines) : Join(lines) \in Lines  BY <1>a, QueueType, 0 \in Nat
  <2>. QED  BY <1>a, <1>b, <2>1, Zenon
<1>d. \A a, b \in Lines : a \o b \in Lines  BY DEF Lines
<1>e. L1 \in Lines /\ L2 \in Lines /\ L3 \in Lines /\ L4 \in Lines /\ L5 \in Lines /\ places \in Lines
  BY <1>a, <1>c, <1>d, Zenon
<1>1. ASSUME NEW n PROVE Times(places, n) = Kept(n)
  <2>. HIDE DEF L1, L2, L3, L4, L5, places
  <2>1. Times(L1, n) = Times(draft, n) + Times(answer, n)  BY <1>a, TimesConcat, Zenon DEF L1
  <2>2. Times(L2, n) = Times(L1, n) + Times(after.line, n)
    <3>1. L1 \in Lines /\ after.line \in Lines  BY <1>a, <1>e, Zenon
    <3>2. Times(L1 \o after.line, n) = Times(L1, n) + Times(after.line, n)  BY <3>1, TimesConcat
    <3>. QED  BY <3>2 DEF L2
  <2>3. Times(L3, n) = Times(L2, n) + Times(Join(in), n)
    <3>1. L2 \in Lines /\ Join(in) \in Lines  BY <1>c, <1>e, Zenon
    <3>2. Times(L2 \o Join(in), n) = Times(L2, n) + Times(Join(in), n)  BY <3>1, TimesConcat
    <3>. QED  BY <3>2 DEF L3
  <2>4. Times(L4, n) = Times(L3, n) + Times(Join(inbox), n)
    <3>1. L3 \in Lines /\ Join(inbox) \in Lines  BY <1>c, <1>e, Zenon
    <3>2. Times(L3 \o Join(inbox), n) = Times(L3, n) + Times(Join(inbox), n)  BY <3>1, TimesConcat
    <3>. QED  BY <3>2 DEF L4
  <2>5. Times(L5, n) = Times(L4, n) + Times(Join(Waiting), n)
    <3>1. L4 \in Lines /\ Join(Waiting) \in Lines  BY <1>c, <1>e, Zenon
    <3>2. Times(L4 \o Join(Waiting), n) = Times(L4, n) + Times(Join(Waiting), n)  BY <3>1, TimesConcat
    <3>. QED  BY <3>2 DEF L5
  <2>6. Times(places, n) = Times(L5, n) + Times(hermes, n)
    <3>1. L5 \in Lines /\ hermes \in Lines  BY <1>a, <1>e, Zenon
    <3>2. Times(L5 \o hermes, n) = Times(L5, n) + Times(hermes, n)  BY <3>1, TimesConcat
    <3>. QED  BY <3>2 DEF places
  <2>. QED  BY <2>1, <2>2, <2>3, <2>4, <2>5, <2>6, Zenon DEF Kept
<1>2. ASSUME NEW n \in 1..keyed PROVE n \in spent \cup orphaned \/ Cardinality({i \in DOMAIN places : places[i].n = n}) = 1
  <2>1. n \in 1..MaxTyped  BY ReplAssumption, SMT DEF RTypeOK, RecordOK
  <2>2. n \notin Settled => Kept(n) = 1  BY <2>1, Zenon DEF AllKept
  <2>3. n \notin Settled => Times(places, n) = 1
    <3>. HIDE DEF places
    <3>. QED  BY <1>1, <2>2, Zenon
  <2>. HIDE DEF places
  <2>. QED  BY <2>3, Zenon DEF Settled, Times
<1>3. ASSUME NEW i \in DOMAIN places PROVE places[i].n \notin spent \cup orphaned
  <2>. HIDE DEF places
  <2>1. places[i].n \in Numbers(places)  BY Zenon DEF Numbers
  <2>2. places[i].n \in 1..MaxTyped  BY <1>e, <2>1, NumbersType, Zenon
  <2>3. Times(places, places[i].n) # 0  BY <1>e, <2>1, NumbersAre, Zenon
  <2>4. Kept(places[i].n) # 0  BY <1>1, <2>3, Zenon
  <2>. QED  BY <2>2, <2>4, Zenon DEF AllKept, Settled
<1>. HIDE DEF places
<1>4. (/\ \A n \in 1..keyed : n \in spent \cup orphaned \/ Cardinality({i \in DOMAIN places : places[i].n = n}) = 1
       /\ \A i \in DOMAIN places : places[i].n \notin spent \cup orphaned)
  BY <1>2, <1>3
<1>. QED  BY <1>4, Zenon DEF TypedIsKept, places

(* No word typed is lost or doubled: it stays, once, in the line being typed,
   on its way, queued or with Hermes until it is settled, whatever the keys,
   the loop and the turn do meanwhile (box.go, repl.go, inbox.go). *)
THEOREM TypedStaysKept == RSpec => []TypedIsKept
<1>. DEFINE Inv == RTypeOK /\ Phased /\ Meant /\ OverNothing /\ AllKept
<1>1. RInit => Inv  BY ReplTypesInit, PhasedInit, MeantInit, OverInit, KeptInit
<1>2. Inv /\ [RNext]_rvars => Inv'  BY ReplTypesStep, PhasedStep, MeantStep, OverStep, KeptStep
<1>3. Inv => TypedIsKept  BY KeptOnce
<1>. QED  BY <1>1, <1>2, <1>3, PTL DEF RSpec

-----------------------------------------------------------------------------
(* A value in a shell file: written, then read a character at a time. *)

(* A set of sequences that holds the empty one and, with each, the longer by
   one, is all of them. *)
LEMMA AllSequences ==
  ASSUME NEW T, NEW X \in SUBSET Seq(T), <<>> \in X, \A s \in X, e \in T : Append(s, e) \in X
  PROVE  X = Seq(T)
<1>. DEFINE G == {k \in Nat : \A s \in Seq(T) : Len(s) = k => s \in X}
<1>1. 0 \in G
  <2>1. \A s \in Seq(T) : Len(s) = 0 => s = <<>>  BY EmptySeq
  <2>. QED  BY <2>1
<1>2. ASSUME NEW k \in G PROVE k + 1 \in G
  <2>1. k \in Nat /\ k + 1 \in Nat  BY SMT
  <2>2. ASSUME NEW s \in Seq(T), Len(s) = k + 1 PROVE s \in X
    <3>1. PICK f \in Seq(T), e \in T : s = Append(f, e)
      <4>1. s # <<>>  BY <2>1, <2>2, EmptySeq, SMT
      <4>. QED  BY <4>1, SequenceEmptyOrAppend, Zenon
    <3>0. Len(f) = k
      <4>1. Len(s) = Len(f) + 1 /\ Len(f) \in Nat  BY <3>1, AppendProperties, LenProperties
      <4>. QED  BY <2>1, <2>2, <4>1, SMT
    <3>2. f \in X  BY <3>0
    <3>. QED  BY <3>1, <3>2, Zenon
  <2>. QED  BY <2>1, <2>2
<1>3. G = Nat
  <2>. HIDE DEF G
  <2>1. G \in SUBSET Nat  BY DEF G
  <2>. QED  BY <1>1, <1>2, <2>1, AllNaturals
<1>4. ASSUME NEW s \in Seq(T) PROVE s \in X
  <2>1. Len(s) \in G  BY <1>3, LenProperties
  <2>. QED  BY <2>1
<1>. QED  BY <1>4

(* One character read. *)
Step(form, q, c) ==
  CASE form = "bare"   -> BareStep(q, c)
    [] form = "double" -> DoubleStep(q, c)
    [] form = "ansi"   -> AnsiStep(q, c)

(* What the scan of the first i characters of text comes to, for i up to n. *)
Scanned(at, form, text, n) == at = [i \in 0..n |-> IF i = 0 THEN Began ELSE Step(form, at[i - 1], text[i])]

Scanning(at, form, text, n) ==
  /\ at[0] = Began
  /\ \A i \in 0..n : i + 1 \in 0..n => at[i + 1] = Step(form, at[i], text[i + 1])

LEMMA ScanExists ==
  ASSUME NEW form, NEW text, NEW n \in Nat
  PROVE  \E at : Scanned(at, form, text, n)
<1>. DEFINE G == {k \in Nat : \E at : Scanned(at, form, text, k)}
<1>1. 0 \in G
  <2>. DEFINE h == [i \in 0..0 |-> Began]
  <2>1. \A i \in 0..0 : h[i] = IF i = 0 THEN Began ELSE Step(form, h[i - 1], text[i])  BY SMT
  <2>2. h = [i \in 0..0 |-> h[i]]  OBVIOUS
  <2>. HIDE DEF h
  <2>3. Scanned(h, form, text, 0)  BY <2>1, <2>2, Zenon DEF Scanned
  <2>. QED  BY <2>3
<1>2. ASSUME NEW k \in G PROVE k + 1 \in G
  <2>1. PICK at : Scanned(at, form, text, k)  OBVIOUS
  <2>2. k \in Nat  OBVIOUS
  <2>. DEFINE g == [i \in 0..(k + 1) |-> IF i = k + 1 THEN Step(form, at[k], text[k + 1]) ELSE at[i]]
  <2>3. \A i \in 0..k : at[i] = IF i = 0 THEN Began ELSE Step(form, at[i - 1], text[i])
    <3>. DEFINE h == [i \in 0..k |-> IF i = 0 THEN Began ELSE Step(form, at[i - 1], text[i])]
    <3>1. at = h  BY <2>1 DEF Scanned
    <3>2. \A i \in 0..k : h[i] = IF i = 0 THEN Began ELSE Step(form, at[i - 1], text[i])  OBVIOUS
    <3>. HIDE DEF h
    <3>. QED  BY <3>1, <3>2
  <2>4. \A i \in 0..(k + 1) : g[i] = IF i = 0 THEN Began ELSE Step(form, g[i - 1], text[i])
    <3>1. \A i \in 0..k : g[i] = at[i]  BY <2>2, SMT
    <3>2. g[k + 1] = Step(form, at[k], text[k + 1])  BY <2>2, SMT
    <3>3. \A i \in 0..(k + 1) : i \in 0..k \/ i = k + 1  BY <2>2, SMT
    <3>4. \A i \in 0..k : i # 0 => i - 1 \in 0..k  BY <2>2, SMT
    <3>5. k + 1 # 0 /\ k + 1 - 1 = k /\ k \in 0..k  BY <2>2, SMT
    <3>. HIDE DEF g
    <3>6. ASSUME NEW i \in 0..k PROVE g[i] = IF i = 0 THEN Began ELSE Step(form, g[i - 1], text[i])
      BY <2>3, <3>1, <3>4, Zenon
    <3>7. g[k + 1] = IF k + 1 = 0 THEN Began ELSE Step(form, g[k + 1 - 1], text[k + 1])
      BY <3>1, <3>2, <3>5, Zenon
    <3>. SUFFICES ASSUME NEW i \in 0..(k + 1)
                  PROVE  g[i] = IF i = 0 THEN Began ELSE Step(form, g[i - 1], text[i])
      OBVIOUS
    <3>8. CASE i \in 0..k  BY <3>6, <3>8, Zenon
    <3>9. CASE i = k + 1  BY <3>7, <3>9
    <3>. QED  BY <3>3, <3>8, <3>9, Zenon
  <2>5. g = [i \in 0..(k + 1) |-> g[i]]  OBVIOUS
  <2>. HIDE DEF g
  <2>6. Scanned(g, form, text, k + 1)  BY <2>4, <2>5, Zenon DEF Scanned
  <2>. QED  BY <2>2, <2>6
<1>3. G = Nat  BY <1>1, <1>2, AllNaturals
<1>. QED  BY <1>3, Zenon

LEMMA ScanIs ==
  ASSUME NEW form, NEW text, Len(text) \in Nat
  PROVE  \E at : Scanning(at, form, text, Len(text)) /\ Scan(form, text) = at[Len(text)]
<1>. DEFINE n == Len(text)
            F == CHOOSE at : Scanned(at, form, text, n)
<1>1. Scanned(F, form, text, n)  BY ScanExists, Zenon
<1>2. Scan(form, text) = F[n]  BY Zenon DEF Scan, Scanned, Step
<1>. HIDE DEF F
<1>3. Scanning(F, form, text, n)
  <2>. HIDE DEF n
  <2>0. n \in Nat  BY DEF n
  <2>. DEFINE h == [i \in 0..n |-> IF i = 0 THEN Began ELSE Step(form, F[i - 1], text[i])]
  <2>1. F = h  BY <1>1 DEF Scanned
  <2>2. \A i \in 0..n : h[i] = IF i = 0 THEN Began ELSE Step(form, F[i - 1], text[i])  OBVIOUS
  <2>. HIDE DEF h
  <2>3. 0 \in 0..n  BY <2>0, SMT
  <2>4. \A i \in 0..n : i + 1 # 0 /\ i + 1 - 1 = i  BY <2>0, SMT
  <2>5. F[0] = Began  BY <2>1, <2>2, <2>3, Zenon
  <2>6. ASSUME NEW i \in 0..n, i + 1 \in 0..n PROVE F[i + 1] = Step(form, F[i], text[i + 1])
    <3>1. h[i + 1] = IF i + 1 = 0 THEN Began ELSE Step(form, F[i + 1 - 1], text[i + 1])  BY <2>2, <2>6
    <3>2. i + 1 # 0 /\ i + 1 - 1 = i  BY <2>4, Zenon
    <3>. QED  BY <2>1, <3>1, <3>2, Zenon
  <2>. QED  BY <2>5, <2>6, Zenon DEF Scanning
<1>. QED  BY <1>2, <1>3, Zenon

LEMMA ScanEmpty == \A form : Scan(form, <<>>) = Began
<1>. SUFFICES ASSUME NEW form PROVE Scan(form, <<>>) = Began  OBVIOUS
<1>1. Len(<<>>) = 0 /\ 0 \in Nat  BY SMT
<1>2. PICK at : Scanning(at, form, <<>>, Len(<<>>)) /\ Scan(form, <<>>) = at[Len(<<>>)]  BY <1>1, ScanIs
<1>. QED  BY <1>1, <1>2, Zenon DEF Scanning

(* One character more. *)
LEMMA ScanMore ==
  ASSUME NEW S, NEW text \in Seq(S), NEW c \in S, NEW form
  PROVE  Scan(form, Append(text, c)) = Step(form, Scan(form, text), c)
<1>. DEFINE more == Append(text, c)
            n == Len(text)
<1>1. n \in Nat /\ Len(more) = n + 1 /\ more[n + 1] = c /\ \A i \in 1..n : more[i] = text[i]
  BY AppendProperties, LenProperties
<1>. HIDE DEF more, n
<1>2. PICK f : Scanning(f, form, text, n) /\ Scan(form, text) = f[n]  BY <1>1, ScanIs, Zenon DEF n
<1>0. n + 1 \in Nat  BY <1>1, SMT
<1>3. PICK g : Scanning(g, form, more, n + 1) /\ Scan(form, more) = g[n + 1]
  <2>1. Len(more) \in Nat  BY <1>0, <1>1
  <2>. QED  BY <1>1, <2>1, ScanIs, Zenon
<1>. DEFINE G == {k \in Nat : k \in 0..n => f[k] = g[k]}
<1>4. 0 \in G  BY <1>2, <1>3 DEF Scanning
<1>5. ASSUME NEW k \in G PROVE k + 1 \in G
  <2>1. k \in Nat /\ k + 1 \in Nat  BY SMT
  <2>2. ASSUME k + 1 \in 0..n PROVE f[k + 1] = g[k + 1]
    <3>1. k \in 0..n /\ k \in 0..(n + 1) /\ k + 1 \in 0..(n + 1) /\ k + 1 \in 1..n  BY <1>1, <2>1, <2>2, SMT
    <3>2. f[k + 1] = Step(form, f[k], text[k + 1])  BY <1>2, <2>2, <3>1, Zenon DEF Scanning
    <3>3. g[k + 1] = Step(form, g[k], more[k + 1])  BY <1>3, <3>1, Zenon DEF Scanning
    <3>4. f[k] = g[k] /\ more[k + 1] = text[k + 1]  BY <1>1, <3>1
    <3>. QED  BY <3>2, <3>3, <3>4, Zenon
  <2>. QED  BY <2>1, <2>2
<1>6. G = Nat  BY <1>4, <1>5, AllNaturals
<1>7. n \in 0..n /\ n \in 0..(n + 1) /\ n + 1 \in 0..(n + 1)  BY <1>1, SMT
<1>8. f[n] = g[n]  BY <1>1, <1>6, <1>7, Zenon
<1>9. g[n + 1] = Step(form, g[n], more[n + 1])  BY <1>3, <1>7, Zenon DEF Scanning
<1>. QED  BY <1>1, <1>2, <1>3, <1>8, <1>9, Zenon DEF more

Fields(q) == {"out", "mode", "hex"} \subseteq DOMAIN q

(* The scan has read v, and is at none of its escapes. *)
HasRead(q, v) == Fields(q) /\ q.mode = "in" /\ q.out = v

LEMMA PutReads ==
  ASSUME NEW T, NEW v \in Seq(T), NEW c \in T, NEW q, q.out = v, Fields(q)
  PROVE  HasRead(Put(q, <<c>>), Append(v, c))
<1>1. v \o <<c>> = Append(v, c)  BY AppendIsConcat
<1>2. Put(q, <<c>>) = [q EXCEPT !.out = Append(v, c), !.mode = "in"]  BY <1>1, Zenon DEF Put
<1>3. "out" \in DOMAIN q /\ "mode" \in DOMAIN q /\ "out" # "mode"  BY DEF Fields
<1>. QED  BY <1>2, <1>3, Zenon DEF HasRead, Fields

LEMMA BeganReads == HasRead(Began, <<>>)
BY DEF Began, HasRead, Fields

LEMMA EscapeReads ==
  ASSUME NEW q, NEW v, HasRead(q, v), NEW m
  PROVE  Fields(Into(q, m)) /\ Into(q, m).mode = m /\ Into(q, m).out = v
<1>1. "out" \in DOMAIN q /\ "mode" \in DOMAIN q /\ "out" # "mode"  BY DEF HasRead, Fields
<1>. QED  BY <1>1, Zenon DEF HasRead, Fields, Into

LEMMA ModesDiffer ==
  /\ "in" # "end" /\ "in" # "escape" /\ "in" # "hex" /\ "escape" # "end" /\ "escape" # "hex" /\ "hex" # "end"
OBVIOUS

LEMMA BareOne ==
  ASSUME NEW T, NEW v \in Seq(T), NEW c \in T, NEW q, HasRead(q, v), c \notin Special, c \notin Controls
  PROVE  HasRead(BareStep(q, c), Append(v, c))
<1>1. c \notin Blanks /\ c # "\\"  BY DEF Special, Controls, Blanks
<1>2. q.mode = "in" /\ Fields(q) /\ q.out = v  BY DEF HasRead
<1>3. BareStep(q, c) = Put(q, <<c>>)  BY <1>1, <1>2, ModesDiffer, Zenon DEF BareStep
<1>. QED  BY <1>2, <1>3, PutReads, Zenon

LEMMA BareEscaped ==
  ASSUME NEW T, NEW v \in Seq(T), NEW c \in T, NEW q, HasRead(q, v)
  PROVE  HasRead(BareStep(BareStep(q, "\\"), c), Append(v, c))
<1>. DEFINE r == Into(q, "escape")
<1>1. q.mode = "in" /\ "\\" \notin Blanks  BY DEF HasRead, Blanks
<1>2. BareStep(q, "\\") = r  BY <1>1, ModesDiffer, Zenon DEF BareStep
<1>3. Fields(r) /\ r.mode = "escape" /\ r.out = v  BY EscapeReads
<1>. HIDE DEF r
<1>4. BareStep(r, c) = Put(r, <<c>>)  BY <1>3, ModesDiffer, Zenon DEF BareStep
<1>. QED  BY <1>2, <1>3, <1>4, PutReads, Zenon

LEMMA AnsiOne ==
  ASSUME NEW T, NEW v \in Seq(T), NEW c \in T, NEW q, HasRead(q, v), c \notin {"\\", "'"}
  PROVE  HasRead(AnsiStep(q, c), Append(v, c))
<1>1. q.mode = "in" /\ Fields(q) /\ q.out = v  BY DEF HasRead
<1>2. AnsiStep(q, c) = Put(q, <<c>>)  BY <1>1, ModesDiffer, Zenon DEF AnsiStep
<1>. QED  BY <1>1, <1>2, PutReads, Zenon

LEMMA AnsiBackslash ==
  ASSUME NEW q, NEW v, HasRead(q, v)
  PROVE  LET r == AnsiStep(q, "\\") IN Fields(r) /\ r.mode = "escape" /\ r.out = v
<1>1. q.mode = "in" /\ "\\" # "'"  BY DEF HasRead
<1>2. AnsiStep(q, "\\") = Into(q, "escape")  BY <1>1, ModesDiffer, Zenon DEF AnsiStep
<1>. QED  BY <1>2, EscapeReads

LEMMA LettersAre ==
  /\ DOMAIN Letters = {"n", "t", "r"}
  /\ Letters["n"] = "\n" /\ Letters["t"] = "\t" /\ Letters["r"] = "\r"
BY DEF Letters

LEMMA LetterIs ==
  ASSUME NEW c \in {"\n", "\t", "\r"}
  PROVE  LetterOf(c) \in {"n", "t", "r"} /\ Letters[LetterOf(c)] = c
<1>1. \E l \in DOMAIN Letters : Letters[l] = c  BY LettersAre
<1>. QED  BY <1>1, LettersAre, Zenon DEF LetterOf

(* What follows a backslash in $'...'. *)
LEMMA AnsiEscaped ==
  ASSUME NEW T, NEW v \in Seq(T), NEW c \in T, NEW q, HasRead(q, v), NEW d,
         \/ c \in {"\\", "'"} /\ d = c
         \/ c \in {"\n", "\t", "\r"} /\ d = LetterOf(c)
  PROVE  HasRead(AnsiStep(AnsiStep(q, "\\"), d), Append(v, c))
<1>. DEFINE r == AnsiStep(q, "\\")
<1>1. Fields(r) /\ r.mode = "escape" /\ r.out = v  BY AnsiBackslash
<1>. HIDE DEF r
<1>2. AnsiStep(r, d) = Put(r, <<c>>)
  <2>1. CASE c \in {"\\", "'"} /\ d = c
    <3>1. d # "x" /\ d \notin DOMAIN Letters /\ d \in {"\\", "'", "\"", "?"}  BY <2>1, LettersAre
    <3>. QED  BY <2>1, <3>1, <1>1, ModesDiffer, Zenon DEF AnsiStep
  <2>2. CASE c \in {"\n", "\t", "\r"} /\ d = LetterOf(c)
    <3>1. d \in {"n", "t", "r"} /\ Letters[d] = c  BY <2>2, LetterIs
    <3>2. d # "x" /\ d \in DOMAIN Letters /\ d \notin {"\\", "'", "\"", "?"}  BY <3>1, LettersAre
    <3>. QED  BY <3>1, <3>2, <1>1, ModesDiffer, Zenon DEF AnsiStep
  <2>. QED  BY <2>1, <2>2
<1>. QED  BY <1>1, <1>2, PutReads, Zenon DEF r

LEMMA PairIs ==
  ASSUME NEW a, NEW b
  PROVE  Append(<<a>>, b) = <<a, b>>
<1>1. <<a>> \in Seq({a, b}) /\ <<a, b>> \in Seq({a, b}) /\ Len(<<a, b>>) = 2  OBVIOUS
<1>2. /\ Append(<<a>>, b) \in Seq({a, b}) /\ Len(Append(<<a>>, b)) = 2
      /\ Append(<<a>>, b)[1] = a /\ Append(<<a>>, b)[2] = b
  BY <1>1, AppendProperties
<1>3. \A i \in 1..2 : i = 1 \/ i = 2  BY SMT
<1>4. \A i \in 1..2 : Append(<<a>>, b)[i] = <<a, b>>[i]  BY <1>2, <1>3
<1>. QED  BY <1>1, <1>2, <1>4, SeqEqual

LEMMA HexIs ==
  ASSUME NEW c \in {"^A", "^?"}
  PROVE  \E a, b \in {"0", "1", "7", "f"} :
           HexOf(c) = <<a, b>> /\ (CHOOSE d \in {"^A", "^?"} : HexOf(d) = Append(<<a>>, b)) = c
<1>1. HexOf("^A") = <<"0", "1">> /\ HexOf("^?") = <<"7", "f">>  BY DEF HexOf
<1>2. Append(<<"0">>, "1") = <<"0", "1">> /\ Append(<<"7">>, "f") = <<"7", "f">>  BY PairIs
<1>3. <<"0", "1">> # <<"7", "f">>  OBVIOUS
<1>4. CASE c = "^A"
  <2>1. (CHOOSE d \in {"^A", "^?"} : HexOf(d) = <<"0", "1">>) = "^A"  BY <1>1, <1>3, Zenon
  <2>2. WITNESS "0" \in {"0", "1", "7", "f"}, "1" \in {"0", "1", "7", "f"}
  <2>. QED  BY <2>1, <1>1, <1>2, <1>4, Zenon
<1>5. CASE c = "^?"
  <2>1. (CHOOSE d \in {"^A", "^?"} : HexOf(d) = <<"7", "f">>) = "^?"  BY <1>1, <1>3, Zenon
  <2>2. WITNESS "7" \in {"0", "1", "7", "f"}, "f" \in {"0", "1", "7", "f"}
  <2>. QED  BY <2>1, <1>1, <1>2, <1>5, Zenon
<1>. QED  BY <1>4, <1>5

LEMMA AnsiHex ==
  ASSUME NEW T, NEW v \in Seq(T), NEW c \in T, NEW q, HasRead(q, v), c \in {"^A", "^?"},
         NEW a, NEW b, HexOf(c) = <<a, b>>, (CHOOSE d \in {"^A", "^?"} : HexOf(d) = Append(<<a>>, b)) = c
  PROVE  HasRead(AnsiStep(AnsiStep(AnsiStep(AnsiStep(q, "\\"), "x"), a), b), Append(v, c))
<1>. DEFINE r == AnsiStep(q, "\\")
            x == [r EXCEPT !.mode = "hex", !.hex = <<>>]
            y == [x EXCEPT !.hex = <<a>>]
<1>1. Fields(r) /\ r.mode = "escape" /\ r.out = v  BY AnsiBackslash
<1>. HIDE DEF r
<1>2. <<a>> # <<>> /\ "mode" # "hex" /\ "out" # "hex" /\ "out" # "mode"  OBVIOUS
<1>3. Fields(x) /\ x.mode = "hex" /\ x.out = v /\ x.hex = <<>>  BY <1>1, <1>2, Zenon DEF Fields
<1>4. AnsiStep(r, "x") = x  BY <1>1, ModesDiffer, Zenon DEF AnsiStep
<1>. HIDE DEF x
<1>5. Fields(y) /\ y.mode = "hex" /\ y.out = v /\ y.hex = <<a>>  BY <1>2, <1>3, Zenon DEF Fields
<1>6. AnsiStep(x, a) = y  BY <1>3, ModesDiffer, Zenon DEF AnsiStep
<1>. HIDE DEF y
<1>7. AnsiStep(y, b) = Put(y, <<c>>)  BY <1>2, <1>5, ModesDiffer, Zenon DEF AnsiStep
<1>8. HasRead(Put(y, <<c>>), Append(v, c))  BY <1>5, PutReads, Zenon
<1>. QED  BY <1>4, <1>6, <1>7, <1>8, Zenon DEF r

(* Behind a text, what is written of one character. *)
LEMMA ScanTwo ==
  ASSUME NEW U, NEW text \in Seq(U), NEW a \in U, NEW b \in U, NEW form
  PROVE  /\ text \o <<a, b>> \in Seq(U)
         /\ Scan(form, text \o <<a, b>>) = Step(form, Step(form, Scan(form, text), a), b)
<1>1. <<a>> \in Seq(U) /\ Append(text, a) \in Seq(U) /\ Append(text, a) = text \o <<a>>
  BY AppendIsConcat, AppendProperties
<1>2. text \o <<a, b>> = Append(Append(text, a), b)
  <2>1. <<a, b>> = Append(<<a>>, b) /\ Append(<<a>>, b) = <<a>> \o <<b>>  BY <1>1, PairIs, AppendIsConcat
  <2>2. <<b>> \in Seq(U)  OBVIOUS
  <2>3. text \o (<<a>> \o <<b>>) = (text \o <<a>>) \o <<b>>  BY <1>1, <2>2, ConcatAssociative
  <2>4. (text \o <<a>>) \o <<b>> = Append(Append(text, a), b)  BY <1>1, AppendIsConcat
  <2>. QED  BY <2>1, <2>3, <2>4, Zenon
<1>3. Append(Append(text, a), b) \in Seq(U)  BY <1>1, AppendProperties
<1>4. Scan(form, Append(text, a)) = Step(form, Scan(form, text), a)  BY ScanMore
<1>5. Scan(form, Append(Append(text, a), b)) = Step(form, Scan(form, Append(text, a)), b)  BY <1>1, ScanMore
<1>. QED  BY <1>2, <1>3, <1>4, <1>5, Zenon

Marks == {"\\", "'", "$", "x", "0", "1", "7", "f", "n", "t", "r"}

LEMMA StepIs ==
  ASSUME NEW q, NEW c
  PROVE  Step("bare", q, c) = BareStep(q, c) /\ Step("ansi", q, c) = AnsiStep(q, c)
BY Zenon DEF Step

LEMMA BareWritten ==
  ASSUME NEW T, NEW v \in Seq(T), NEW c \in T, c \notin Controls,
         NEW text \in Seq(T \cup Marks), HasRead(Scan("bare", text), v)
  PROVE  /\ BareChar(c) \in Seq(T \cup Marks)
         /\ HasRead(Scan("bare", text \o BareChar(c)), Append(v, c))
<1>. DEFINE U == T \cup Marks
<1>1. c \in U /\ "\\" \in U  BY DEF Marks
<1>. HIDE DEF U
<1>2. CASE c \in Special
  <2>1. BareChar(c) = <<"\\", c>> /\ <<"\\", c>> \in Seq(U)  BY <1>1, <1>2 DEF BareChar
  <2>2. Scan("bare", text \o <<"\\", c>>) = BareStep(BareStep(Scan("bare", text), "\\"), c)
    <3>1. text \in Seq(U)  BY DEF U
    <3>2. Scan("bare", text \o <<"\\", c>>) = Step("bare", Step("bare", Scan("bare", text), "\\"), c)
      BY <1>1, <3>1, ScanTwo
    <3>. QED  BY <3>2, StepIs, Zenon
  <2>. QED  BY <2>1, <2>2, BareEscaped, Zenon DEF U
<1>3. CASE c \notin Special
  <2>1. BareChar(c) = <<c>> /\ <<c>> \in Seq(U)  BY <1>1, <1>3 DEF BareChar
  <2>2. text \in Seq(U)  BY DEF U
  <2>3. text \o <<c>> = Append(text, c)  BY <1>1, <2>2, AppendIsConcat
  <2>4. Scan("bare", Append(text, c)) = BareStep(Scan("bare", text), c)
    <3>1. Scan("bare", Append(text, c)) = Step("bare", Scan("bare", text), c)  BY <1>1, <2>2, ScanMore
    <3>. QED  BY <3>1, StepIs, Zenon
  <2>. QED  BY <1>3, <2>1, <2>3, <2>4, BareOne, Zenon DEF U
<1>. QED  BY <1>2, <1>3

LEMMA AnsiWritten ==
  ASSUME NEW T, NEW v \in Seq(T), NEW c \in T,
         NEW text \in Seq(T \cup Marks), HasRead(Scan("ansi", text), v)
  PROVE  /\ AnsiChar(c) \in Seq(T \cup Marks)
         /\ HasRead(Scan("ansi", text \o AnsiChar(c)), Append(v, c))
<1>. DEFINE U == T \cup Marks
            q == Scan("ansi", text)
<1>1. c \in U /\ text \in Seq(U) /\ Marks \subseteq U  OBVIOUS
<1>. HIDE DEF U
<1>2. ASSUME NEW a \in U, NEW b \in U
      PROVE  text \o <<a, b>> \in Seq(U) /\ Scan("ansi", text \o <<a, b>>) = AnsiStep(AnsiStep(q, a), b)
  <2>1. text \o <<a, b>> \in Seq(U) /\ Scan("ansi", text \o <<a, b>>) = Step("ansi", Step("ansi", q, a), b)
    BY <1>1, ScanTwo
  <2>. QED  BY <2>1, StepIs, Zenon
<1>3. "\\" \in U /\ "x" \in U /\ "n" \in U /\ "t" \in U /\ "r" \in U
  BY <1>1 DEF Marks
<1>4. CASE c \in {"\\", "'"}
  <2>1. AnsiChar(c) = <<"\\", c>>
    <3>1. c \notin {"^A", "^?"} /\ c \notin {"\n", "\t", "\r"}  BY <1>4
    <3>. QED  BY <1>4, <3>1, Zenon DEF AnsiChar
  <2>2. <<"\\", c>> \in Seq(U)  BY <1>1, <1>3
  <2>3. HasRead(AnsiStep(AnsiStep(q, "\\"), c), Append(v, c))  BY <1>4, AnsiEscaped, Zenon
  <2>. QED  BY <1>1, <1>2, <1>3, <2>1, <2>2, <2>3, Zenon DEF U
<1>5. CASE c \in {"\n", "\t", "\r"}
  <2>1. AnsiChar(c) = <<"\\", LetterOf(c)>>
    <3>1. c \notin {"^A", "^?"} /\ c \notin {"\\", "'"}  BY <1>5
    <3>. QED  BY <1>5, <3>1, Zenon DEF AnsiChar
  <2>2. LetterOf(c) \in U  BY <1>3, <1>5, LetterIs, Zenon
  <2>3. <<"\\", LetterOf(c)>> \in Seq(U)
    <3>. DEFINE d == LetterOf(c)
    <3>. HIDE DEF d
    <3>1. d \in U /\ "\\" \in U  BY <1>3, <2>2 DEF d
    <3>2. <<"\\", d>> \in Seq(U)  BY <3>1
    <3>. QED  BY <3>2 DEF d
  <2>4. HasRead(AnsiStep(AnsiStep(q, "\\"), LetterOf(c)), Append(v, c))  BY <1>5, AnsiEscaped, Zenon
  <2>. QED  BY <1>2, <1>3, <2>1, <2>2, <2>3, <2>4, Zenon DEF U
<1>6. CASE c \in {"^A", "^?"}
  <2>1. PICK a, b \in {"0", "1", "7", "f"} :
          HexOf(c) = <<a, b>> /\ (CHOOSE d \in {"^A", "^?"} : HexOf(d) = Append(<<a>>, b)) = c
    BY <1>6, HexIs
  <2>2. a \in U /\ b \in U  BY <1>1 DEF Marks
  <2>3. AnsiChar(c) = <<"\\", "x">> \o <<a, b>>
    <3>1. c \notin {"\\", "'"} /\ c \notin {"\n", "\t", "\r"}  BY <1>6
    <3>. QED  BY <1>6, <2>1, <3>1, Zenon DEF AnsiChar
  <2>4. <<"\\", "x">> \in Seq(U) /\ <<a, b>> \in Seq(U)  BY <1>3, <2>2
  <2>5. <<"\\", "x">> \o <<a, b>> \in Seq(U)  BY <2>4, ConcatProperties
  <2>6. text \o (<<"\\", "x">> \o <<a, b>>) = (text \o <<"\\", "x">>) \o <<a, b>>
    BY <1>1, <2>4, ConcatAssociative
  <2>7. text \o <<"\\", "x">> \in Seq(U) /\ Scan("ansi", text \o <<"\\", "x">>) = AnsiStep(AnsiStep(q, "\\"), "x")
    BY <1>2, <1>3, Zenon
  <2>8. Scan("ansi", (text \o <<"\\", "x">>) \o <<a, b>>)
          = AnsiStep(AnsiStep(Scan("ansi", text \o <<"\\", "x">>), a), b)
    <3>. DEFINE t == text \o <<"\\", "x">>
    <3>1. t \in Seq(U)  BY <2>7
    <3>. HIDE DEF t
    <3>2. Scan("ansi", t \o <<a, b>>) = Step("ansi", Step("ansi", Scan("ansi", t), a), b)
      BY <2>2, <3>1, ScanTwo
    <3>. QED  BY <3>2, StepIs, Zenon DEF t
  <2>9. HasRead(AnsiStep(AnsiStep(AnsiStep(AnsiStep(q, "\\"), "x"), a), b), Append(v, c))
    BY <1>6, <2>1, AnsiHex, Zenon
  <2>. QED  BY <2>3, <2>5, <2>6, <2>7, <2>8, <2>9, Zenon DEF U
<1>7. CASE c \notin {"\\", "'"} /\ c \notin {"\n", "\t", "\r"} /\ c \notin {"^A", "^?"}
  <2>1. AnsiChar(c) = <<c>>  BY <1>7, Zenon DEF AnsiChar
  <2>2. <<c>> \in Seq(U)  BY <1>1
  <2>3. text \o <<c>> = Append(text, c)  BY <1>1, AppendIsConcat
  <2>4. Scan("ansi", Append(text, c)) = AnsiStep(q, c)
    <3>1. Scan("ansi", Append(text, c)) = Step("ansi", q, c)  BY <1>1, ScanMore
    <3>. QED  BY <3>1, StepIs, Zenon
  <2>. QED  BY <1>7, <2>1, <2>2, <2>3, <2>4, AnsiOne, Zenon DEF U
<1>. QED  BY <1>4, <1>5, <1>6, <1>7, Zenon

(* All that is written of v, a character at a time. *)
Bares(v) == [i \in DOMAIN v |-> BareChar(v[i])]
Ansis(v) == [i \in DOMAIN v |-> AnsiChar(v[i])]

Plainly(v) == \A i \in DOMAIN v : v[i] \notin Controls

(* Q is P and w behind it. *)
Longer(Q, P, w, n) ==
  /\ Q = [i \in 1..(n + 1) |-> Q[i]]
  /\ \A i \in 1..n : Q[i] = P[i]
  /\ Q[n + 1] = w

LEMMA WrittenMore ==
  ASSUME NEW S, NEW n \in Nat, NEW P \in Seq(S), Len(P) = n, NEW w \in S, NEW Q, Longer(Q, P, w, n)
  PROVE  Q = Append(P, w) /\ Q \in Seq(S)
<1>1. /\ Append(P, w) \in Seq(S) /\ Len(Append(P, w)) = n + 1 /\ Append(P, w)[n + 1] = w
      /\ \A i \in 1..n : Append(P, w)[i] = P[i]
  BY AppendProperties
<1>2. Q = [i \in 1..(n + 1) |-> Q[i]]  BY DEF Longer
<1>3. \A i \in 1..(n + 1) : i \in 1..n \/ i = n + 1  BY SMT
<1>4. \A i \in 1..(n + 1) : Q[i] = Append(P, w)[i]  BY <1>1, <1>3 DEF Longer
<1>5. DOMAIN Append(P, w) = 1..(n + 1)  BY <1>1, LenProperties
<1>6. Append(P, w) = [i \in 1..(n + 1) |-> Append(P, w)[i]]
  BY <1>1, <1>5, LenProperties
<1>7. Q = Append(P, w)  BY <1>2, <1>4, <1>6, Zenon
<1>. QED  BY <1>1, <1>7

LEMMA BaresMore ==
  ASSUME NEW T, NEW v \in Seq(T), NEW c \in T, NEW S, Bares(v) \in Seq(S), BareChar(c) \in S
  PROVE  Bares(Append(v, c)) = Append(Bares(v), BareChar(c)) /\ Bares(Append(v, c)) \in Seq(S)
<1>. DEFINE Q == Bares(Append(v, c))
            P == Bares(v)
            w == BareChar(c)
            n == Len(v)
<1>1. /\ n \in Nat /\ DOMAIN v = 1..n /\ DOMAIN Append(v, c) = 1..(n + 1)
      /\ Append(v, c)[n + 1] = c /\ \A i \in 1..n : Append(v, c)[i] = v[i]
  <2>1. Append(v, c) \in Seq(T) /\ Len(Append(v, c)) = n + 1  BY AppendProperties
  <2>. QED  BY <2>1, LenProperties, AppendProperties
<1>2. Len(P) = n
  <2>1. Len(P) \in Nat /\ DOMAIN P = 1..Len(P)  BY LenProperties
  <2>2. 1..Len(P) = 1..n  BY <1>1, <2>1 DEF Bares
  <2>3. n \in Nat /\ Len(P) \in Nat  BY <1>1, <2>1
  <2>. HIDE DEF P, n
  <2>. QED  BY <2>2, <2>3, SMT
<1>3. \A i \in 1..(n + 1) : Q[i] = BareChar(Append(v, c)[i])  BY <1>1 DEF Bares
<1>4. \A i \in 1..n : P[i] = BareChar(v[i])  BY <1>1 DEF Bares
<1>5. n + 1 \in 1..(n + 1) /\ \A i \in 1..n : i \in 1..(n + 1)  BY <1>1, SMT
<1>6. Q = [i \in 1..(n + 1) |-> Q[i]]  BY <1>1 DEF Bares
<1>7. P \in Seq(S) /\ w \in S  OBVIOUS
<1>. HIDE DEF P, Q, n
<1>8. \A i \in 1..n : Q[i] = P[i]  BY <1>1, <1>3, <1>4, <1>5, Zenon
<1>9. Q[n + 1] = w  BY <1>1, <1>3, <1>5, Zenon
<1>10. Longer(Q, P, w, n)  BY <1>6, <1>8, <1>9, Zenon DEF Longer
<1>. HIDE DEF w
<1>11. Q = Append(P, w) /\ Q \in Seq(S)  BY <1>1, <1>2, <1>7, <1>10, WrittenMore, Zenon
<1>. QED  BY <1>11 DEF P, Q, w

LEMMA AnsisMore ==
  ASSUME NEW T, NEW v \in Seq(T), NEW c \in T, NEW S, Ansis(v) \in Seq(S), AnsiChar(c) \in S
  PROVE  Ansis(Append(v, c)) = Append(Ansis(v), AnsiChar(c)) /\ Ansis(Append(v, c)) \in Seq(S)
<1>. DEFINE Q == Ansis(Append(v, c))
            P == Ansis(v)
            w == AnsiChar(c)
            n == Len(v)
<1>1. /\ n \in Nat /\ DOMAIN v = 1..n /\ DOMAIN Append(v, c) = 1..(n + 1)
      /\ Append(v, c)[n + 1] = c /\ \A i \in 1..n : Append(v, c)[i] = v[i]
  <2>1. Append(v, c) \in Seq(T) /\ Len(Append(v, c)) = n + 1  BY AppendProperties
  <2>. QED  BY <2>1, LenProperties, AppendProperties
<1>2. Len(P) = n
  <2>1. Len(P) \in Nat /\ DOMAIN P = 1..Len(P)  BY LenProperties
  <2>2. 1..Len(P) = 1..n  BY <1>1, <2>1 DEF Ansis
  <2>3. n \in Nat /\ Len(P) \in Nat  BY <1>1, <2>1
  <2>. HIDE DEF P, n
  <2>. QED  BY <2>2, <2>3, SMT
<1>3. \A i \in 1..(n + 1) : Q[i] = AnsiChar(Append(v, c)[i])  BY <1>1 DEF Ansis
<1>4. \A i \in 1..n : P[i] = AnsiChar(v[i])  BY <1>1 DEF Ansis
<1>5. n + 1 \in 1..(n + 1) /\ \A i \in 1..n : i \in 1..(n + 1)  BY <1>1, SMT
<1>6. Q = [i \in 1..(n + 1) |-> Q[i]]  BY <1>1 DEF Ansis
<1>7. P \in Seq(S) /\ w \in S  OBVIOUS
<1>. HIDE DEF P, Q, n
<1>8. \A i \in 1..n : Q[i] = P[i]  BY <1>1, <1>3, <1>4, <1>5, Zenon
<1>9. Q[n + 1] = w  BY <1>1, <1>3, <1>5, Zenon
<1>10. Longer(Q, P, w, n)  BY <1>6, <1>8, <1>9, Zenon DEF Longer
<1>. HIDE DEF w
<1>11. Q = Append(P, w) /\ Q \in Seq(S)  BY <1>1, <1>2, <1>7, <1>10, WrittenMore, Zenon
<1>. QED  BY <1>11 DEF P, Q, w

Quotes == {"$", "'", "\""}

(* Text and more of it begins like the text. *)
LEMMA BeginsAlike ==
  ASSUME NEW U, NEW text \in Seq(U), NEW more \in Seq(U), text # <<>>
  PROVE  text \o more # <<>> /\ (text \o more)[1] = text[1]
<1>1. Len(text) \in Nat /\ Len(text) # 0 /\ Len(more) \in Nat  BY EmptySeq, LenProperties
<1>2. 1 \in 1..Len(text)  BY <1>1, SMT
<1>3. text \o more \in Seq(U) /\ Len(text \o more) = Len(text) + Len(more)  BY ConcatProperties
<1>4. Len(text \o more) # 0  BY <1>1, <1>3, SMT
<1>5. (text \o more)[1] = text[1]  BY <1>2, ConcatProperties
<1>. QED  BY <1>3, <1>4, <1>5, EmptySeq

LEMMA BareBegins ==
  ASSUME NEW c, c \notin Controls
  PROVE  BareChar(c) # <<>> /\ BareChar(c)[1] \notin Quotes
<1>1. CASE c \in Special
  <2>1. BareChar(c) = <<"\\", c>>  BY <1>1 DEF BareChar
  <2>2. "\\" \notin Quotes  BY DEF Quotes
  <2>. QED  BY <2>1, <2>2
<1>2. CASE c \notin Special
  <2>1. BareChar(c) = <<c>>  BY <1>2 DEF BareChar
  <2>2. c \notin Quotes  BY <1>2 DEF Quotes, Special
  <2>. QED  BY <2>1, <2>2
<1>. QED  BY <1>1, <1>2

(* A bare value comes back, and is not taken for a quoted one. *)
BareBack(v, U) ==
  LET text == Join(Bares(v)) IN
  /\ Bares(v) \in Seq(Seq(U))
  /\ HasRead(Scan("bare", text), v)
  /\ v # <<>> => text # <<>> /\ text[1] \notin Quotes

LEMMA BareComesBack ==
  ASSUME NEW T
  PROVE  \A v \in Seq(T) : Plainly(v) => BareBack(v, T \cup Marks)
<1>. DEFINE U == T \cup Marks
            X == {v \in Seq(T) : Plainly(v) => BareBack(v, U)}
<1>1. <<>> \in X
  <2>1. Bares(<<>>) = <<>>  BY DEF Bares
  <2>2. <<>> \in Seq(T) /\ <<>> \in Seq(Seq(U))  OBVIOUS
  <2>3. HasRead(Scan("bare", Join(Bares(<<>>))), <<>>)  BY <2>1, JoinEmpty, ScanEmpty, BeganReads, Zenon
  <2>. HIDE DEF U
  <2>4. BareBack(<<>>, U)  BY <2>1, <2>2, <2>3, Zenon DEF BareBack
  <2>. QED  BY <2>2, <2>4
<1>2. ASSUME NEW v \in X, NEW c \in T PROVE Append(v, c) \in X
  <2>1. v \in Seq(T) /\ Append(v, c) \in Seq(T)  BY AppendProperties
  <2>2. ASSUME Plainly(Append(v, c)) PROVE BareBack(Append(v, c), U)
    <3>. DEFINE text == Join(Bares(v))
                more == BareChar(c)
    <3>1. Plainly(v) /\ c \notin Controls
      <4>1. /\ DOMAIN v = 1..Len(v) /\ DOMAIN Append(v, c) = 1..(Len(v) + 1) /\ Len(v) \in Nat
            /\ Append(v, c)[Len(v) + 1] = c /\ \A i \in 1..Len(v) : Append(v, c)[i] = v[i]
        BY <2>1, AppendProperties, LenProperties
      <4>2. Len(v) + 1 \in 1..(Len(v) + 1) /\ \A i \in 1..Len(v) : i \in 1..(Len(v) + 1)  BY <4>1, SMT
      <4>. QED  BY <2>2, <4>1, <4>2, Zenon DEF Plainly
    <3>2. BareBack(v, U)  BY <3>1
    <3>3. Bares(v) \in Seq(Seq(U)) /\ HasRead(Scan("bare", text), v)  BY <3>2, Zenon DEF BareBack
    <3>4. text \in Seq(U)
      <4>. HIDE DEF U
      <4>. QED  BY <3>3, JoinType
    <3>5. more \in Seq(U) /\ HasRead(Scan("bare", text \o more), Append(v, c))
      BY <2>1, <3>1, <3>3, <3>4, BareWritten
    <3>. HIDE DEF U
    <3>6. Bares(Append(v, c)) = Append(Bares(v), more) /\ Bares(Append(v, c)) \in Seq(Seq(U))
      BY <2>1, <3>3, <3>5, BaresMore
    <3>7. Join(Bares(Append(v, c))) = text \o more  BY <3>3, <3>5, <3>6, JoinAppend
    <3>8. text \o more # <<>> /\ (text \o more)[1] \notin Quotes
      <4>1. CASE v = <<>>
        <5>1. Bares(<<>>) = <<>>  BY DEF Bares
        <5>2. text = <<>>  BY <4>1, <5>1, JoinEmpty
        <5>3. text \o more = more  BY <3>5, <5>2, ConcatEmptySeq
        <5>. QED  BY <3>1, <5>3, BareBegins
      <4>2. CASE v # <<>>
        <5>1. text # <<>> /\ text[1] \notin Quotes  BY <3>2, <4>2, Zenon DEF BareBack
        <5>. HIDE DEF text, more
        <5>. QED  BY <3>4, <3>5, <5>1, BeginsAlike
      <4>. QED  BY <4>1, <4>2
    <3>. HIDE DEF text, more
    <3>. QED  BY <3>5, <3>6, <3>7, <3>8, Zenon DEF BareBack
  <2>. QED  BY <2>1, <2>2
<1>3. X = Seq(T)
  <2>. HIDE DEF X
  <2>1. X \in SUBSET Seq(T)  BY DEF X
  <2>. QED  BY <1>1, <1>2, <2>1, AllSequences
<1>. QED  BY <1>3

LEMMA AnsiComesBack ==
  ASSUME NEW T
  PROVE  \A v \in Seq(T) : /\ Ansis(v) \in Seq(Seq(T \cup Marks))
                           /\ HasRead(Scan("ansi", Join(Ansis(v))), v)
<1>. DEFINE U == T \cup Marks
            X == {v \in Seq(T) : Ansis(v) \in Seq(Seq(U)) /\ HasRead(Scan("ansi", Join(Ansis(v))), v)}
<1>1. <<>> \in X
  <2>1. Ansis(<<>>) = <<>>  BY DEF Ansis
  <2>2. <<>> \in Seq(T) /\ <<>> \in Seq(Seq(U))  OBVIOUS
  <2>3. HasRead(Scan("ansi", Join(Ansis(<<>>))), <<>>)  BY <2>1, JoinEmpty, ScanEmpty, BeganReads, Zenon
  <2>. QED  BY <2>1, <2>2, <2>3
<1>2. ASSUME NEW v \in X, NEW c \in T PROVE Append(v, c) \in X
  <2>1. v \in Seq(T) /\ Append(v, c) \in Seq(T)  BY AppendProperties
  <2>. DEFINE text == Join(Ansis(v))
              more == AnsiChar(c)
  <2>2. Ansis(v) \in Seq(Seq(U)) /\ HasRead(Scan("ansi", text), v)  OBVIOUS
  <2>3. text \in Seq(U)
    <3>. HIDE DEF U
    <3>. QED  BY <2>2, JoinType
  <2>4. more \in Seq(U) /\ HasRead(Scan("ansi", text \o more), Append(v, c))
    BY <2>1, <2>2, <2>3, AnsiWritten
  <2>5. Ansis(Append(v, c)) = Append(Ansis(v), more) /\ Ansis(Append(v, c)) \in Seq(Seq(U))
    <3>. HIDE DEF U
    <3>. QED  BY <2>1, <2>2, <2>4, AnsisMore
  <2>6. Join(Ansis(Append(v, c))) = text \o more
    <3>. HIDE DEF U
    <3>. QED  BY <2>2, <2>4, <2>5, JoinAppend
  <2>. QED  BY <2>1, <2>4, <2>5, <2>6
<1>3. X = Seq(T)
  <2>. HIDE DEF X
  <2>1. X \in SUBSET Seq(T)  BY DEF X
  <2>. QED  BY <1>1, <1>2, <2>1, AllSequences
<1>. QED  BY <1>3

LEMMA Opened ==
  ASSUME NEW U, NEW rest \in Seq(U), NEW a \in U, NEW b \in U
  PROVE  LET text == <<a, b>> \o rest IN
         /\ Len(text) >= 2 /\ text[1] = a /\ text[2] = b
         /\ SubSeq(text, 3, Len(text)) = rest
<1>. DEFINE text == <<a, b>> \o rest
            m == Len(rest)
<1>1. <<a, b>> \in Seq(U) /\ Len(<<a, b>>) = 2 /\ <<a, b>>[1] = a /\ <<a, b>>[2] = b  OBVIOUS
<1>2. m \in Nat  BY LenProperties
<1>3. 1 \in 1..2 /\ 2 \in 1..2 /\ 2 \in Nat /\ 2 + m \in Nat  BY <1>2, SMT
<1>4. /\ text \in Seq(U) /\ Len(text) = 2 + m
      /\ \A i \in 1..2 : text[i] = <<a, b>>[i]
      /\ \A i \in 1..m : text[2 + i] = rest[i]
  BY <1>1, ConcatProperties
<1>. HIDE DEF text, m
<1>5. SubSeq(text, 3, 2 + m) \in Seq(U) /\ Len(SubSeq(text, 3, 2 + m)) = m
      /\ \A i \in 1..m : SubSeq(text, 3, 2 + m)[i] = text[3 + i - 1]
  BY <1>2, <1>4, SubSeqProperties
<1>6. \A i \in 1..m : 3 + i - 1 = 2 + i  BY <1>2, SMT
<1>7. \A i \in 1..m : SubSeq(text, 3, 2 + m)[i] = rest[i]  BY <1>4, <1>5, <1>6, Zenon
<1>8. SubSeq(text, 3, 2 + m) = rest  BY <1>5, <1>7, SeqEqual, Zenon DEF m
<1>9. 2 + m >= 2  BY <1>2, SMT
<1>. QED  BY <1>1, <1>3, <1>4, <1>8, <1>9, Zenon DEF text

(* A value that is not empty comes back from a shell file as it was, whatever
   its characters: what setup writes (shellQuoteQ) the parser undoes.        *)
THEOREM QuotedComesBack ==
  ASSUME NEW T, NEW v \in Seq(T), v # <<>>
  PROVE  ParseValue(Quoted(v)) = v
<1>. DEFINE U == T \cup Marks
<1>1. CASE Plainly(v)
  <2>. DEFINE text == Join(Bares(v))
  <2>1. ~ \E i \in DOMAIN v : v[i] \in Controls  BY <1>1, Zenon DEF Plainly
  <2>2. Quoted(v) = text  BY <2>1, Zenon DEF Quoted, Join, Bares
  <2>3. BareBack(v, U)  BY <1>1, BareComesBack
  <2>4. HasRead(Scan("bare", text), v) /\ text[1] \notin Quotes  BY <2>3, Zenon DEF BareBack
  <2>. HIDE DEF text
  <2>5. text[1] # "$" /\ text[1] # "'" /\ text[1] # "\""  BY <2>4 DEF Quotes
  <2>6. Scan("bare", text).mode # "escape" /\ Scan("bare", text).out = v  BY <2>4 DEF HasRead
  <2>7. ParseValue(text) = v  BY <2>5, <2>6, Zenon DEF ParseValue
  <2>. QED  BY <2>2, <2>7
<1>2. CASE ~Plainly(v)
  <2>. DEFINE body == Join(Ansis(v))
              rest == body \o <<"'">>
              text == <<"$", "'">> \o rest
  <2>1. \E i \in DOMAIN v : v[i] \in Controls  BY <1>2, Zenon DEF Plainly
  <2>2. Ansis(v) \in Seq(Seq(U)) /\ HasRead(Scan("ansi", body), v)  BY AnsiComesBack
  <2>3. "'" \in U /\ "$" \in U  BY DEF Marks
  <2>. HIDE DEF U
  <2>4. body \in Seq(U)  BY <2>2, JoinType
  <2>5. <<"'">> \in Seq(U) /\ <<"$", "'">> \in Seq(U)  BY <2>3
  <2>6. rest = Append(body, "'") /\ rest \in Seq(U)  BY <2>3, <2>4, <2>5, AppendIsConcat, ConcatProperties
  <2>7. (<<"$", "'">> \o body) \o <<"'">> = text  BY <2>4, <2>5, ConcatAssociative
  <2>8. Quoted(v) = (<<"$", "'">> \o body) \o <<"'">>  BY <2>1, Zenon DEF Quoted, Join, Ansis
  <2>9. Scan("ansi", rest) = AnsiStep(Scan("ansi", body), "'")
    <3>. HIDE DEF body
    <3>1. Scan("ansi", Append(body, "'")) = Step("ansi", Scan("ansi", body), "'")  BY <2>3, <2>4, ScanMore
    <3>. QED  BY <3>1, <2>6, StepIs, Zenon
  <2>10. AnsiStep(Scan("ansi", body), "'") = Into(Scan("ansi", body), "end")
    <3>1. Scan("ansi", body).mode = "in" /\ "'" # "\\"  BY <2>2 DEF HasRead
    <3>. QED  BY <3>1, ModesDiffer, Zenon DEF AnsiStep
  <2>11. Scan("ansi", rest).mode = "end" /\ Scan("ansi", rest).out = v
    <3>1. Into(Scan("ansi", body), "end").mode = "end" /\ Into(Scan("ansi", body), "end").out = v
      BY <2>2, EscapeReads
    <3>. QED  BY <3>1, <2>9, <2>10, Zenon
  <2>12. Closed(Scan("ansi", rest)) = v  BY <2>11, Zenon DEF Closed
  <2>. HIDE DEF rest
  <2>13. Len(text) >= 2 /\ text[1] = "$" /\ text[2] = "'" /\ SubSeq(text, 3, Len(text)) = rest
    BY <2>3, <2>6, Opened
  <2>. HIDE DEF text
  <2>14. "$" # "'" /\ "$" # "\""  OBVIOUS
  <2>15. ParseValue(text) = Closed(Scan("ansi", rest))  BY <2>13, <2>14, Zenon DEF ParseValue
  <2>. QED  BY <2>7, <2>8, <2>12, <2>15, Zenon
<1>. QED  BY <1>1, <1>2

-----------------------------------------------------------------------------
(* What setup stores, and a start that is sure of it.  Credentials are keys. *)

LEMMA CredsAre == Creds \subseteq Keys /\ \A k \in Creds : k \notin Runtime /\ Default[k] = <<>>
BY DEF Keys, Creds, Runtime, Default

LEMMA SealedIs ==
  ASSUME NEW t \in Typed, machine \in Machines \cup {NoId}
  PROVE  /\ Sealed(t) \in Blobs /\ Sealed(t) # None /\ Sealed(t) # Torn
         /\ Sealed(t).seed = t.seed /\ Sealed(t).machine = machine
         /\ \A k \in Creds : Sealed(t)[k] = [url |-> t.url, key |-> t.key][k]
<1>1. Sealed(t) \in Blobs  BY DEF Sealed, Blobs, Typed
<1>2. \A k \in Creds : Sealed(t)[k] = [url |-> t.url, key |-> t.key][k]  BY DEF Sealed, Creds
<1>3. Sealed(t).seed = t.seed /\ Sealed(t).machine = machine  BY DEF Sealed
<1>. QED  BY <1>1, <1>2, <1>3, SecretsAssumption, Zenon

(* What a setup writes in plain is read as it was typed. *)
LEMMA WrittenIs ==
  ASSUME NEW v \in URLs \cup Secrets, v # <<>>
  PROVE  Quoted(v) \in WrittenTexts /\ Quoted(v) # None /\ ParseValue(Quoted(v)) = v /\ v # Failed
<1>1. v \in Seq(Range(v)) /\ v # Failed  BY SecretsAssumption
<1>2. Quoted(v) \in WrittenTexts  BY Zenon DEF WrittenTexts
<1>3. ParseValue(Quoted(v)) = v  BY <1>1, QuotedComesBack
<1>. QED  BY <1>1, <1>2, <1>3, SecretsAssumption, Zenon

(* No process but p is in another stage. *)
LEMMA OthersStay ==
  ASSUME Shaped, NEW p \in Procs, NEW to, Go(p, to)
  PROVE  pc'[p] = to /\ \A q \in Procs \ {p} : pc'[q] = pc[q]
BY DEF Go, Shaped

LEMMA EffectiveInit == Init => Effective
<1>. SUFFICES ASSUME Init PROVE Effective
  OBVIOUS
<1>1. PICK w \in Worlds : plain = w.plain /\ good = w.says /\ machine = w.machine
  BY DEF Init
<1>2. /\ pc = [p \in Procs |-> "off"] /\ sure = [p \in Procs |-> None]
      /\ blob = [p \in Procs |-> None] /\ setups = 0 /\ enc = None
  BY DEF Init
<1>3. \A p \in Procs : pc[p] \notin Writing /\ pc[p] \notin Store
  BY <1>2 DEF Writing, Store
<1>4. Typing  BY <1>1, <1>2, <1>3, SecretsAssumption DEF Typing
<1>5. Alone  BY <1>3 DEF Alone
<1>6. StoreStands
  <2>1. ASSUME good # None, NEW k \in Creds PROVE Had(k)
    BY <1>1, <1>2, <2>1, SecretsAssumption, Zenon DEF Had
  <2>. QED  BY <1>3, <2>1, Zenon DEF StoreStands
<1>7. \A p \in Procs : OnItsWay(p)  BY <1>2 DEF OnItsWay
<1>. QED  BY <1>4, <1>5, <1>6, <1>7 DEF Effective

(* A process that is left alone, or that has lost what it was sure of. *)
LEMMA TookStays ==
  ASSUME NEW p, NEW k, UNCHANGED <<env, yolo>>, saw'[p] = saw[p], cfg'[p][k] = cfg[p][k], sure'[p] = sure[p],
         Took(p, k)
  PROVE  Took(p, k)'
<1>1. Strongest(p, k)' = Strongest(p, k)  BY StrongestStays
<1>. QED  BY <1>1, Zenon DEF Took

LEMMA WayStays ==
  ASSUME NEW p, OnItsWay(p), UNCHANGED <<env, yolo, good, enc>>, sure'[p] = sure[p], pc'[p] = pc[p],
         typed'[p] = typed[p], saw'[p] = saw[p], blob'[p] = blob[p],
         \A k \in Creds : cfg'[p][k] = cfg[p][k]
  PROVE  OnItsWay(p)'
<1>1. \A k \in Creds : Took(p, k) => Took(p, k)'  BY TookStays
<1>2. Runs(p)' => Runs(p)  BY Zenon DEF Runs
<1>. QED  BY <1>1, <1>2, Zenon DEF OnItsWay

LEMMA NotSure ==
  ASSUME NEW p, sure'[p] = None
  PROVE  OnItsWay(p)'
BY DEF OnItsWay

(* A step that no setup has a part in, or that ends one. *)
LEMMA QuietTyping ==
  ASSUME Typing, UNCHANGED <<setups, machine>>, DOMAIN sure' = Procs, DOMAIN blob' = Procs,
         \A q \in Procs : pc'[q] \in Writing => pc'[q] = pc[q] /\ typed'[q] = typed[q]
  PROVE  Typing'
BY Zenon DEF Typing

LEMMA QuietStore ==
  ASSUME Alone, StoreStands, UNCHANGED <<enc, plain, keyseed, machine, mixed, good>>,
         \A q \in Procs : pc'[q] \in Store => pc'[q] = pc[q] /\ typed'[q] = typed[q]
  PROVE  Alone' /\ StoreStands'
<1>1. Alone'  BY Zenon DEF Alone
<1>2. \A k : Had(k) => Had(k)'  BY Zenon DEF Had, Opens
<1>3. StoreStands'  BY <1>2, Zenon DEF StoreStands
<1>. QED  BY <1>1, <1>3

LEMMA SetupKeeps ==
  ASSUME IInv, Effective, NEW p \in Procs, NEW u \in URLs, NEW k \in Secrets, NEW how \in {"enc", "plain"},
         Setup(p, u, k, how)
  PROVE  Effective'
<1>. DEFINE t == [url |-> u, key |-> k, how |-> how, seed |-> setups + 1, from |-> pc[p]]
<1>1. /\ UNCHANGED <<enc, plain, keyseed, machine, mixed, good, sure, blob, cfg, env, yolo>>
      /\ setups' = setups + 1 /\ setups < MaxSetups /\ u # <<>> /\ k # <<>>
      /\ pc[p] \in {"off", "running"} /\ typed' = [typed EXCEPT ![p] = t]
      /\ saw' = [saw EXCEPT ![p] = config] /\ Go(p, "ensure")
  BY Zenon DEF Setup, disk, history, app
<1>2. pc'[p] = "ensure" /\ \A q \in Procs \ {p} : pc'[q] = pc[q]  BY <1>1, OthersStay DEF IInv
<1>3. typed'[p] = t /\ saw'[p] = config /\ \A q \in Procs \ {p} : typed'[q] = typed[q] /\ saw'[q] = saw[q]
  BY <1>1, Zenon DEF IInv, Shaped
<1>4. Typing'
  <2>1. setups \in Nat  BY Zenon DEF Effective, Typing
  <2>2. setups' \in Nat /\ setups + 1 \in 1..MaxSetups  BY <1>1, <2>1, SettingsAssumption, SMT
  <2>3. t \in Typed /\ t.url # <<>> /\ t.key # <<>>  BY <1>1, <2>2, Zenon DEF Typed
  <2>. HIDE DEF t
  <2>4. ASSUME NEW q \in Procs, pc'[q] \in Writing
        PROVE  typed'[q] \in Typed /\ typed'[q].url # <<>> /\ typed'[q].key # <<>>
    BY <1>2, <1>3, <2>3, <2>4, Zenon DEF Effective, Typing
  <2>. QED  BY <1>1, <2>2, <2>4, Zenon DEF Effective, Typing
<1>5. Alone' /\ StoreStands'
  <2>1. "ensure" \notin Store  BY DEF Store
  <2>. QED  BY <1>1, <1>2, <1>3, <2>1, QuietStore, Zenon DEF Effective
<1>6. ASSUME NEW q \in Procs \ {p} PROVE OnItsWay(q)'
  BY <1>1, <1>2, <1>3, WayStays, Zenon DEF Effective
<1>7. OnItsWay(p)'
  <2>1. SUFFICES ASSUME sure[p] # None
                 PROVE  /\ sure[p] = good /\ t.from = "running"
                        /\ Runs(p)' => \A j \in Creds : Took(p, j)'
    BY <1>1, <1>2, <1>3 DEF OnItsWay
  <2>2. pc[p] \notin Loading \cup {"ensure"}  BY <1>1 DEF Loading
  <2>3. sure[p] = good /\ pc[p] = "running" /\ \A j \in Creds : Took(p, j)
    BY <2>1, <2>2, Zenon DEF Effective, OnItsWay, Runs
  <2>4. ASSUME Runs(p)' PROVE saw'[p] = saw[p]
    <3>1. saw'[p] = None  BY <1>2, <2>4 DEF Runs
    <3>2. saw[p] = None  BY <1>3, <3>1, Zenon DEF IInv, FileStays
    <3>. QED  BY <3>1, <3>2
  <2>5. ASSUME Runs(p)', NEW j \in Creds PROVE Took(p, j)'
    BY <1>1, <2>3, <2>4, <2>5, TookStays
  <2>. QED  BY <2>3, <2>5
<1>. QED  BY <1>4, <1>5, <1>6, <1>7, Zenon DEF Effective

LEMMA EnsureKeeps ==
  ASSUME IInv, Effective, NEW p \in Procs, EnsureConfig(p)
  PROVE  Effective'
<1>1. /\ UNCHANGED <<enc, plain, keyseed, setups, machine, blob, cfg, env, yolo, typed, saw>> /\ pc[p] = "ensure"
      /\ \/ Go(p, typed[p].from) /\ UNCHANGED <<mixed, good, sure>> /\ saw[p] = None
         \/ /\ \E to \in {"plain", "seed"} : Go(p, to)
            /\ mixed' = \E q \in Procs \ {p} : pc[q] \in Store
            /\ good' = None /\ sure' = [q \in Procs |-> None]
  BY Zenon DEF EnsureConfig, world, app
<1>2. DOMAIN sure' = Procs /\ DOMAIN blob' = Procs  BY <1>1, Zenon DEF Effective, Typing
<1>3. CASE Go(p, typed[p].from) /\ UNCHANGED <<mixed, good, sure>> /\ saw[p] = None
  <2>1. typed[p].from \in {"off", "running"}  BY <1>1, Zenon DEF IInv, Shaped
  <2>2. pc'[p] = typed[p].from /\ \A q \in Procs \ {p} : pc'[q] = pc[q]  BY <1>3, OthersStay DEF IInv
  <2>3. pc'[p] \notin Writing /\ pc'[p] \notin Store  BY <2>1, <2>2 DEF Writing, Store
  <2>4. Typing'  BY <1>1, <1>2, <2>2, <2>3, QuietTyping, Zenon DEF Effective
  <2>5. Alone' /\ StoreStands'  BY <1>1, <1>3, <2>2, <2>3, QuietStore, Zenon DEF Effective
  <2>6. ASSUME NEW q \in Procs \ {p} PROVE OnItsWay(q)'
    BY <1>1, <1>3, <2>2, WayStays, Zenon DEF Effective
  <2>7. OnItsWay(p)'
    <3>1. SUFFICES ASSUME sure[p] # None
                   PROVE  sure[p] = good /\ pc'[p] = "running" /\ \A j \in Creds : Took(p, j)'
      BY <1>3 DEF OnItsWay
    <3>2. sure[p] = good /\ typed[p].from = "running" /\ (Runs(p) => \A j \in Creds : Took(p, j))
      BY <1>1, <3>1, Zenon DEF Effective, OnItsWay
    <3>3. Runs(p)  BY <1>1, <1>3, <3>2 DEF Runs
    <3>4. ASSUME NEW j \in Creds PROVE Took(p, j)'  BY <1>1, <1>3, <3>2, <3>3, TookStays
    <3>. QED  BY <2>2, <3>2, <3>4
  <2>. QED  BY <2>4, <2>5, <2>6, <2>7, Zenon DEF Effective
<1>4. ASSUME NEW to \in {"plain", "seed"}, Go(p, to), good' = None,
             mixed' = \E q \in Procs \ {p} : pc[q] \in Store, sure' = [q \in Procs |-> None]
      PROVE  Effective'
  <2>1. pc'[p] = to /\ \A q \in Procs \ {p} : pc'[q] = pc[q]  BY <1>4, OthersStay DEF IInv
  <2>2. Typing'
    <3>1. pc[p] \in Writing  BY <1>1 DEF Writing
    <3>. QED  BY <1>1, <1>2, <2>1, <3>1, Zenon DEF Effective, Typing
  <2>3. Alone'
    <3>1. pc'[p] \notin {"seal", "sealing"}  BY <1>4, <2>1
    <3>. QED  BY <1>4, <2>1, <3>1, Zenon DEF Alone
  <2>4. StoreStands'  BY <1>4 DEF StoreStands
  <2>5. \A q \in Procs : OnItsWay(q)'  BY <1>4, NotSure, Zenon
  <2>. QED  BY <2>2, <2>3, <2>4, <2>5, Zenon DEF Effective
<1>. QED  BY <1>1, <1>3, <1>4, Zenon

(* In a store that is being written there is nothing to be sure of. *)
LEMMA NoneGood ==
  ASSUME Effective, NEW p \in Procs, pc[p] \in Store
  PROVE  good = None /\ \A q \in Procs : sure[q] = None
<1>1. good = None  BY Zenon DEF Effective, StoreStands
<1>. QED  BY <1>1, Zenon DEF Effective, OnItsWay

LEMMA SeedKeeps ==
  ASSUME IInv, Effective, NEW p \in Procs, KeySeed(p)
  PROVE  Effective'
<1>1. /\ UNCHANGED <<enc, plain, setups, machine, blob, typed, mixed, good, sure>>
      /\ \/ pc[p] = "seed" /\ Go(p, "seeding")
         \/ pc[p] = "seeding" /\ keyseed' = typed[p].seed /\ Go(p, "seal")
  BY Zenon DEF KeySeed, world, history
<1>2. /\ \/ pc[p] = "seed" /\ pc'[p] = "seeding"
         \/ pc[p] = "seeding" /\ pc'[p] = "seal" /\ keyseed' = typed[p].seed
      /\ \A q \in Procs \ {p} : pc'[q] = pc[q]
  BY <1>1, OthersStay, Zenon DEF IInv
<1>3. pc[p] \in Store /\ pc[p] \in Writing  BY <1>2 DEF Store, Writing
<1>4. good = None /\ \A q \in Procs : sure[q] = None  BY <1>3, NoneGood
<1>5. Typing'  BY <1>1, <1>2, <1>3, Zenon DEF Effective, Typing
<1>6. Alone'
  <2>1. pc'[p] \in {"seal", "sealing"} => keyseed' = typed'[p].seed  BY <1>1, <1>2
  <2>2. SUFFICES ASSUME ~mixed
                 PROVE  \A q \in Procs \ {p} : pc'[q] \notin Store
    BY <1>1, <2>1, Zenon DEF Alone
  <2>. QED  BY <1>2, <1>3, <2>2, Zenon DEF Effective, Alone
<1>7. StoreStands'  BY <1>1, <1>4, Zenon DEF StoreStands
<1>8. \A q \in Procs : OnItsWay(q)'  BY <1>1, <1>4, NotSure, Zenon
<1>. QED  BY <1>5, <1>6, <1>7, <1>8, Zenon DEF Effective

(* A store that was written, whole, and the start that follows. *)
LEMMA StoredKeeps ==
  ASSUME IInv, Effective, NEW p \in Procs, pc[p] \in Store, Finish(p), Stored(p),
         UNCHANGED <<keyseed, setups, machine, mixed, blob>>,
         ~mixed => \A k \in Creds : Had(k)'
  PROVE  Effective'
<1>1. /\ Go(p, "load") /\ typed' = [typed EXCEPT ![p] = None]
      /\ good' = IF mixed THEN None ELSE [url |-> typed[p].url, key |-> typed[p].key]
      /\ sure' = [q \in Procs |-> IF q = p THEN good' ELSE None]
  BY Zenon DEF Finish, Stored
<1>2. pc'[p] = "load" /\ \A q \in Procs \ {p} : pc'[q] = pc[q]  BY <1>1, OthersStay DEF IInv
<1>3. \A q \in Procs \ {p} : typed'[q] = typed[q]  BY <1>1, Zenon DEF IInv, Shaped
<1>4. pc'[p] \notin Store /\ pc'[p] \notin Writing  BY <1>2 DEF Store, Writing
<1>5. DOMAIN sure' = Procs /\ DOMAIN blob' = Procs  BY <1>1, Zenon DEF Effective, Typing
<1>6. Typing'  BY <1>2, <1>3, <1>4, <1>5, QuietTyping, Zenon DEF Effective
<1>7. Alone'  BY <1>2, <1>3, <1>4, Zenon DEF Effective, Alone
<1>8. StoreStands'
  <2>1. SUFFICES ASSUME good' # None
                 PROVE  (\A q \in Procs : pc'[q] \notin Store) /\ \A k \in Creds : Had(k)'
    BY DEF StoreStands
  <2>2. ~mixed  BY <1>1, <2>1
  <2>3. \A q \in Procs \ {p} : pc[q] \notin Store  BY <2>2, Zenon DEF Effective, Alone
  <2>. QED  BY <1>2, <1>4, <2>2, <2>3, Zenon
<1>9. \A q \in Procs \ {p} : OnItsWay(q)'
  <2>1. \A q \in Procs \ {p} : sure'[q] = None  BY <1>1, Zenon
  <2>. QED  BY <2>1, NotSure, Zenon
<1>10. OnItsWay(p)'
  <2>1. sure'[p] = good'  BY <1>1, Zenon
  <2>2. pc'[p] \in Loading /\ pc'[p] # "open" /\ pc'[p] # "ensure" /\ pc'[p] # "running"  BY <1>2 DEF Loading
  <2>. QED  BY <2>1, <2>2, Zenon DEF OnItsWay, Runs
<1>. QED  BY <1>6, <1>7, <1>8, <1>9, <1>10, Zenon DEF Effective

(* A store that is begun, or that is written beside one a load prefers. *)
LEMMA WritingKeeps ==
  ASSUME IInv, Effective, NEW p \in Procs, pc[p] \in Store, NEW to, Go(p, to), to \in Store => to # "seal",
         to = "sealing" => pc[p] = "seal", to \in Writing => typed'[p] = typed[p],
         \A q \in Procs \ {p} : typed'[q] = typed[q],
         UNCHANGED <<keyseed, setups, machine, mixed, blob, good, sure>>
  PROVE  Effective'
<1>1. pc'[p] = to /\ \A q \in Procs \ {p} : pc'[q] = pc[q]  BY OthersStay DEF IInv
<1>2. good = None /\ \A q \in Procs : sure[q] = None  BY NoneGood
<1>3. Store \subseteq Writing  BY DEF Store
<1>4. Typing'
  <2>1. ASSUME NEW q \in Procs, pc'[q] \in Writing PROVE typed'[q] = typed[q] /\ pc[q] \in Writing
    BY <1>1, <1>3, <2>1, Zenon
  <2>. QED  BY <2>1, Zenon DEF Effective, Typing
<1>5. Alone'
  <2>1. SUFFICES ASSUME ~mixed, NEW q \in Procs, pc'[q] \in Store
                 PROVE  /\ \A r \in Procs \ {q} : pc'[r] \notin Store
                        /\ pc'[q] \in {"seal", "sealing"} => keyseed = typed'[q].seed
    BY Zenon DEF Alone
  <2>2. /\ \A r \in Procs \ {p} : pc[r] \notin Store
        /\ pc[p] \in {"seal", "sealing"} => keyseed = typed[p].seed
    BY <2>1, Zenon DEF Effective, Alone
  <2>3. q = p /\ \A r \in Procs \ {q} : pc'[r] \notin Store  BY <1>1, <2>1, <2>2, Zenon
  <2>4. pc'[q] \in {"seal", "sealing"} => pc[p] = "seal"  BY <1>1, <2>1, <2>3
  <2>5. typed'[q] = typed[p]  BY <1>1, <1>3, <2>1, <2>3, Zenon
  <2>. QED  BY <2>2, <2>3, <2>4, <2>5
<1>6. StoreStands'  BY <1>2, Zenon DEF StoreStands
<1>7. \A q \in Procs : OnItsWay(q)'  BY <1>2, NotSure, Zenon
<1>. QED  BY <1>4, <1>5, <1>6, <1>7, Zenon DEF Effective

LEMMA EncKeeps ==
  ASSUME IInv, Effective, NEW p \in Procs, SecretsEnc(p)
  PROVE  Effective'
<1>1. UNCHANGED <<keyseed, plain, setups, machine, mixed, blob>>
  BY Zenon DEF SecretsEnc, world
<1>2. CASE pc[p] = "seal" /\ Go(p, "sealing") /\ UNCHANGED <<typed, good, sure>>
  <2>1. pc[p] \in Store  BY <1>2 DEF Store, Writing
  <2>. QED  BY <1>1, <1>2, <2>1, WritingKeeps
<1>3. CASE pc[p] = "sealing" /\ enc' = Sealed(typed[p]) /\ Finish(p) /\ Stored(p)
  <2>1. pc[p] \in Store /\ pc[p] \in Writing  BY <1>3 DEF Store, Writing
  <2>2. typed[p] \in Typed /\ machine \in Machines \cup {NoId}  BY <2>1, Zenon DEF Effective, Typing
  <2>3. /\ enc' # None /\ enc' # Torn /\ enc'.seed = typed[p].seed /\ enc'.machine = machine
        /\ \A k \in Creds : enc'[k] = [url |-> typed[p].url, key |-> typed[p].key][k]
    BY <1>3, <2>2, SealedIs, Zenon
  <2>4. ASSUME ~mixed, NEW k \in Creds PROVE Had(k)'
    <3>1. keyseed = typed[p].seed  BY <1>3, <2>1, <2>4, Zenon DEF Effective, Alone
    <3>2. good' = [url |-> typed[p].url, key |-> typed[p].key]  BY <1>3, <2>4, Zenon DEF Stored
    <3>3. Opens(enc, keyseed)'  BY <1>1, <2>3, <3>1, Zenon DEF Opens
    <3>. QED  BY <2>3, <3>2, <3>3, Zenon DEF Had
  <2>. QED  BY <1>1, <1>3, <2>1, <2>4, StoredKeeps
<1>. QED  BY <1>2, <1>3, Zenon DEF SecretsEnc

LEMMA PlainKeeps ==
  ASSUME IInv, Effective, NEW p \in Procs, SecretsPlain(p)
  PROVE  Effective'
<1>1. UNCHANGED <<keyseed, enc, setups, machine, mixed, blob>>
  BY Zenon DEF SecretsPlain, world
<1>2. CASE pc[p] = "plain" /\ Go(p, "plaining") /\ UNCHANGED <<typed, good, sure>>
  <2>1. pc[p] \in Store  BY <1>2 DEF Store, Writing
  <2>. QED  BY <1>1, <1>2, <2>1, WritingKeeps
<1>3. CASE /\ pc[p] = "plaining" /\ Finish(p)
           /\ plain' = [url |-> Quoted(typed[p].url), key |-> Quoted(typed[p].key)]
           /\ IF enc = None THEN Stored(p) ELSE UNCHANGED <<good, sure>>
  <2>1. pc[p] \in Store /\ pc[p] \in Writing  BY <1>3 DEF Store, Writing
  <2>2. typed[p] \in Typed /\ typed[p].url # <<>> /\ typed[p].key # <<>>  BY <2>1, Zenon DEF Effective, Typing
  <2>3. CASE enc # None
    <3>1. Go(p, "load") /\ \A q \in Procs \ {p} : typed'[q] = typed[q]
      BY <1>3, Zenon DEF Finish, IInv, Shaped
    <3>2. "load" \notin Writing /\ "load" \notin Store  BY DEF Writing, Store
    <3>3. UNCHANGED <<good, sure>>  BY <1>3, <2>3
    <3>. QED  BY <1>1, <2>1, <3>1, <3>2, <3>3, WritingKeeps
  <2>4. CASE enc = None
    <3>1. Stored(p)  BY <1>3, <2>4
    <3>. DEFINE u == typed[p].url
                s == typed[p].key
    <3>2. u \in URLs \cup Secrets /\ s \in URLs \cup Secrets  BY <2>2 DEF Typed
    <3>. HIDE DEF u, s
    <3>3. /\ Quoted(u) \in WrittenTexts /\ Quoted(u) # None /\ ParseValue(Quoted(u)) = u /\ u # Failed
          /\ Quoted(s) \in WrittenTexts /\ Quoted(s) # None /\ ParseValue(Quoted(s)) = s /\ s # Failed
      BY <2>2, <3>2, WrittenIs DEF u, s
    <3>4. plain' = [url |-> Quoted(u), key |-> Quoted(s)]  BY <1>3 DEF u, s
    <3>5. plain' \in [url: WrittenTexts, key: WrittenTexts]  BY <3>3, <3>4, Zenon
    <3>6. plain' # None  BY <3>5, SecretsAssumption, Zenon
    <3>7. plain'["url"] = Quoted(u) /\ plain'["key"] = Quoted(s)  BY <3>4
    <3>8. ASSUME ~mixed, NEW k \in Creds PROVE Had(k)'
      <4>1. good' = [url |-> u, key |-> s]  BY <3>1, <3>8, Zenon DEF Stored, u, s
      <4>2. good'["url"] = u /\ good'["key"] = s  BY <4>1
      <4>3. enc' = None  BY <1>1, <2>4
      <4>4. CASE k = "url"  BY <3>3, <3>6, <3>7, <4>2, <4>3, <4>4, Zenon DEF Had
      <4>5. CASE k = "key"  BY <3>3, <3>6, <3>7, <4>2, <4>3, <4>5, Zenon DEF Had
      <4>. QED  BY <3>8, <4>4, <4>5 DEF Creds
    <3>. QED  BY <1>1, <1>3, <2>1, <3>1, <3>8, StoredKeeps
  <2>. QED  BY <2>3, <2>4
<1>. QED  BY <1>2, <1>3, Zenon DEF SecretsPlain

(* Steps of the program itself: the store is not touched. *)
LEMMA StepKeeps ==
  ASSUME Shaped, Effective, NEW p \in Procs, UNCHANGED <<keyseed, enc, plain, setups, machine, mixed, good, env, yolo>>,
         pc'[p] \notin Writing, \A q \in Procs \ {p} : pc'[q] = pc[q] /\ typed'[q] = typed[q] /\ saw'[q] = saw[q],
         \A q \in Procs \ {p} : blob'[q] = blob[q] /\ sure'[q] = sure[q] /\ cfg'[q] = cfg[q],
         DOMAIN sure' = Procs, DOMAIN blob' = Procs,
         OnItsWay(p)'
  PROVE  Effective'
<1>1. Store \subseteq Writing  BY DEF Store
<1>2. Typing'  BY QuietTyping, Zenon DEF Effective
<1>3. Alone' /\ StoreStands'  BY <1>1, QuietStore, Zenon DEF Effective
<1>4. \A q \in Procs \ {p} : OnItsWay(q)'  BY WayStays, Zenon DEF Effective
<1>. QED  BY <1>2, <1>3, <1>4, Zenon DEF Effective

LEMMA StartKeeps ==
  ASSUME IInv, Effective, NEW p \in Procs, Start(p)
  PROVE  Effective'
<1>1. /\ UNCHANGED <<keyseed, enc, plain, setups, machine, mixed, good, env, yolo, typed, saw, blob, cfg>>
      /\ pc[p] = "off" /\ Go(p, "load") /\ sure' = [sure EXCEPT ![p] = good]
  BY Zenon DEF Start, disk, world, app
<1>2. pc'[p] = "load" /\ \A q \in Procs \ {p} : pc'[q] = pc[q]  BY <1>1, OthersStay DEF IInv
<1>3. DOMAIN sure = Procs /\ DOMAIN blob = Procs  BY Zenon DEF Effective, Typing
<1>4. sure'[p] = good' /\ \A q \in Procs \ {p} : sure'[q] = sure[q]  BY <1>1, <1>3, Zenon
<1>5. pc'[p] \notin Writing  BY <1>2 DEF Writing
<1>6. OnItsWay(p)'
  <2>1. pc'[p] \in Loading /\ pc'[p] # "open" /\ pc'[p] # "ensure" /\ pc'[p] # "running"  BY <1>2 DEF Loading
  <2>. QED  BY <1>4, <2>1, Zenon DEF OnItsWay, Runs
<1>. QED  BY <1>1, <1>2, <1>3, <1>4, <1>5, <1>6, StepKeeps DEF IInv

(* A program that begins, having of each credential what it was sure of or what
   a stronger layer sets.                                                    *)
LEMMA BegunWay ==
  ASSUME Shaped, NEW p \in Procs, OnItsWay(p), pc[p] \in Loading, NEW c, NEW s, Begin(p, c, s), UNCHANGED <<good, sure>>,
         sure[p] # None => \A k \in Creds : \/ c[k] = good[k]
                                            \/ Strongest(p, k)'[2] # "default" /\ c[k] = Strongest(p, k)'[1]
  PROVE  OnItsWay(p)' /\ pc'[p] = "running"
<1>1. pc'[p] = "running" /\ cfg'[p] = c  BY Zenon DEF Begin, Go, Shaped
<1>2. SUFFICES ASSUME sure[p] # None
               PROVE  sure[p] = good /\ \A k \in Creds : Took(p, k)'
  BY <1>1 DEF OnItsWay
<1>3. sure[p] = good  BY <1>2, Zenon DEF OnItsWay
<1>. QED  BY <1>1, <1>2, <1>3, Zenon DEF Took

LEMMA LoadKeeps ==
  ASSUME IInv, Effective, NEW p \in Procs, Load(p)
  PROVE  Effective'
<1>. DEFINE m == Layered(p)
            c == [k \in Keys |-> IF m[k] = Unset THEN Default[k] ELSE m[k].val]
            s == [k \in Keys |-> IF m[k] = Unset THEN "default" ELSE m[k].from]
<1>1. /\ UNCHANGED <<keyseed, enc, plain, setups, machine, mixed, good, sure, env, yolo, typed, blob>>
      /\ pc[p] = "load" /\ saw' = [saw EXCEPT ![p] = config]
  BY Zenon DEF Load, disk, world
<1>2. \/ ~NeedsStore(c) /\ Begin(p, c, s)
      \/ cfg' = [cfg EXCEPT ![p] = c] /\ Go(p, "store")
  BY DEF Load
<1>3. saw'[p] = config /\ \A q \in Procs \ {p} : saw'[q] = saw[q]  BY <1>1, Zenon DEF IInv, Shaped
<1>4. \A k \in Keys : <<c[k], s[k]>> = Strongest(p, k)'  BY <1>1, <1>3, LoadIsStrongest DEF IInv
<1>. HIDE DEF c, s
<1>5. Shaped /\ OnItsWay(p) /\ DOMAIN sure = Procs /\ DOMAIN blob = Procs
  BY Zenon DEF IInv, Effective, Typing
<1>6. CASE ~NeedsStore(c) /\ Begin(p, c, s)
  <2>1. \A q \in Procs \ {p} : pc'[q] = pc[q] /\ cfg'[q] = cfg[q]  BY <1>5, <1>6, BeginOthers
  <2>2. ASSUME NEW k \in Creds
        PROVE  Strongest(p, k)'[2] # "default" /\ c[k] = Strongest(p, k)'[1]
    <3>1. k \in Keys /\ Default[k] = <<>>  BY <2>2, CredsAre, Zenon
    <3>2. c[k] = Strongest(p, k)'[1]  BY <1>4, <3>1
    <3>3. c[k] # <<>>  BY <1>6, <2>2, Zenon DEF NeedsStore
    <3>4. Strongest(p, k)'[2] = "default" => Strongest(p, k)'[1] = <<>>
      BY <3>1 DEF Strongest
    <3>. QED  BY <3>2, <3>3, <3>4
  <2>3. pc[p] \in Loading  BY <1>1 DEF Loading
  <2>4. OnItsWay(p)' /\ pc'[p] = "running"  BY <1>1, <1>5, <1>6, <2>2, <2>3, BegunWay
  <2>5. pc'[p] \notin Writing  BY <2>4 DEF Writing
  <2>. QED  BY <1>1, <1>3, <1>5, <2>1, <2>4, <2>5, StepKeeps
<1>7. CASE cfg' = [cfg EXCEPT ![p] = c] /\ Go(p, "store")
  <2>1. pc'[p] = "store" /\ \A q \in Procs \ {p} : pc'[q] = pc[q]  BY <1>5, <1>7, OthersStay
  <2>2. \A q \in Procs \ {p} : cfg'[q] = cfg[q]  BY <1>5, <1>7, Zenon DEF Shaped
  <2>3. pc'[p] \notin Writing /\ pc'[p] \in Loading /\ ~Runs(p)'  BY <2>1 DEF Writing, Loading, Runs
  <2>4. OnItsWay(p)'  BY <1>1, <1>5, <2>1, <2>3 DEF OnItsWay
  <2>. QED  BY <1>1, <1>3, <1>5, <2>1, <2>2, <2>3, <2>4, StepKeeps
<1>. QED  BY <1>2, <1>6, <1>7

LEMMA ReadKeeps ==
  ASSUME IInv, Effective, NEW p \in Procs, ReadStore(p)
  PROVE  Effective'
<1>. DEFINE c == Plain(p)
            s == From(p, Plain(p), "secrets")
<1>1. /\ UNCHANGED <<keyseed, enc, plain, setups, machine, mixed, good, sure, env, yolo, typed, saw>>
      /\ pc[p] = "store"
      /\ \/ enc = None /\ Begin(p, c, s) /\ blob' = blob
         \/ enc # None /\ blob' = [blob EXCEPT ![p] = enc] /\ Go(p, "open") /\ cfg' = cfg
  BY Zenon DEF ReadStore, disk, world, app
<1>2. Shaped /\ OnItsWay(p) /\ DOMAIN sure = Procs /\ DOMAIN blob = Procs
  BY Zenon DEF IInv, Effective, Typing
<1>3. CASE enc = None /\ Begin(p, c, s) /\ blob' = blob
  <2>1. \A q \in Procs \ {p} : pc'[q] = pc[q] /\ cfg'[q] = cfg[q]
    <3>. HIDE DEF c, s
    <3>. QED  BY <1>2, <1>3, BeginOthers
  <2>2. ASSUME sure[p] # None, NEW k \in Creds PROVE c[k] = good[k]
    <3>1. good # None  BY <1>2, <2>2, Zenon DEF OnItsWay
    <3>2. Had(k)  BY <2>2, <3>1, Zenon DEF Effective, StoreStands
    <3>3. plain # None /\ plain[k] # None /\ ParseValue(plain[k]) = good[k] /\ good[k] # Failed
      BY <1>3, <3>2, Zenon DEF Had
    <3>4. k \in Keys  BY <2>2, CredsAre, Zenon
    <3>. QED  BY <2>2, <3>3, <3>4, Zenon DEF Plain
  <2>3. pc[p] \in Loading  BY <1>1 DEF Loading
  <2>. HIDE DEF c, s
  <2>4. OnItsWay(p)' /\ pc'[p] = "running"  BY <1>1, <1>2, <1>3, <2>2, <2>3, BegunWay
  <2>5. pc'[p] \notin Writing  BY <2>4 DEF Writing
  <2>. QED  BY <1>1, <1>2, <1>3, <2>1, <2>4, <2>5, StepKeeps
<1>4. CASE enc # None /\ blob' = [blob EXCEPT ![p] = enc] /\ Go(p, "open") /\ cfg' = cfg
  <2>1. pc'[p] = "open" /\ \A q \in Procs \ {p} : pc'[q] = pc[q]  BY <1>2, <1>4, OthersStay
  <2>2. blob'[p] = enc /\ DOMAIN blob' = Procs /\ \A q \in Procs \ {p} : blob'[q] = blob[q]
    BY <1>2, <1>4, Zenon
  <2>3. pc'[p] \notin Writing /\ pc'[p] \in Loading /\ ~Runs(p)'  BY <2>1 DEF Writing, Loading, Runs
  <2>4. OnItsWay(p)'  BY <1>1, <1>2, <1>4, <2>1, <2>2, <2>3 DEF OnItsWay
  <2>. QED  BY <1>1, <1>2, <1>4, <2>1, <2>2, <2>3, <2>4, StepKeeps
<1>. QED  BY <1>1, <1>3, <1>4

LEMMA OpenKeeps ==
  ASSUME IInv, Effective, NEW p \in Procs, OpenStore(p)
  PROVE  Effective'
<1>. DEFINE c == Filled(p, blob[p])
            s == From(p, Filled(p, blob[p]), "secrets.enc")
<1>1. /\ UNCHANGED <<keyseed, enc, plain, setups, machine, mixed, good, sure, env, yolo, typed, saw>>
      /\ pc[p] = "open" /\ blob' = [blob EXCEPT ![p] = None]
      /\ \/ Begin(p, c, s)
         \/ ~Opens(blob[p], keyseed) /\ Go(p, "failed") /\ cfg' = cfg
  BY Zenon DEF OpenStore, disk, world, app
<1>2. Shaped /\ OnItsWay(p) /\ DOMAIN sure = Procs /\ DOMAIN blob = Procs
  BY Zenon DEF IInv, Effective, Typing
<1>3. DOMAIN blob' = Procs /\ \A q \in Procs \ {p} : blob'[q] = blob[q]  BY <1>1, <1>2, Zenon
<1>4. ASSUME sure[p] # None
      PROVE  Opens(blob[p], keyseed) /\ \A k \in Creds : blob[p][k] = good[k]
  <2>1. good # None /\ enc # None /\ blob[p] = enc  BY <1>1, <1>2, <1>4, Zenon DEF OnItsWay
  <2>2. \A k \in Creds : Had(k)  BY <2>1, Zenon DEF Effective, StoreStands
  <2>3. "url" \in Creds  BY DEF Creds
  <2>. QED  BY <2>1, <2>2, <2>3, Zenon DEF Had
<1>5. CASE Begin(p, c, s)
  <2>1. \A q \in Procs \ {p} : pc'[q] = pc[q] /\ cfg'[q] = cfg[q]
    <3>. HIDE DEF c, s
    <3>. QED  BY <1>2, <1>5, BeginOthers
  <2>2. ASSUME sure[p] # None, NEW k \in Creds
        PROVE  \/ c[k] = good[k]
               \/ Strongest(p, k)'[2] # "default" /\ c[k] = Strongest(p, k)'[1]
    <3>1. k \in Keys /\ Default[k] = <<>>  BY <2>2, CredsAre, Zenon
    <3>2. c[k] = IF cfg[p][k] = <<>> THEN blob[p][k] ELSE cfg[p][k]  BY <2>2, <3>1, Zenon DEF Filled
    <3>3. CASE cfg[p][k] = <<>>  BY <1>4, <2>2, <3>2, <3>3, Zenon
    <3>4. CASE cfg[p][k] # <<>>
      <4>1. <<cfg[p][k], src[p][k]>> = Strongest(p, k)  BY <1>1, <3>1 DEF IInv, ByLayers, Fits
      <4>2. Strongest(p, k)' = Strongest(p, k)  BY <1>1, StrongestStays
      <4>3. c[k] = Strongest(p, k)[1]  BY <3>2, <3>4, <4>1
      <4>4. Strongest(p, k)[2] = "default" => Strongest(p, k)[1] = <<>>  BY <3>1 DEF Strongest
      <4>. QED  BY <3>2, <3>4, <4>2, <4>3, <4>4
    <3>. QED  BY <3>3, <3>4
  <2>3. pc[p] \in Loading  BY <1>1 DEF Loading
  <2>. HIDE DEF c, s
  <2>4. OnItsWay(p)' /\ pc'[p] = "running"  BY <1>1, <1>2, <1>5, <2>2, <2>3, BegunWay
  <2>5. pc'[p] \notin Writing  BY <2>4 DEF Writing
  <2>. QED  BY <1>1, <1>2, <1>3, <2>1, <2>4, <2>5, StepKeeps
<1>6. CASE ~Opens(blob[p], keyseed) /\ Go(p, "failed") /\ cfg' = cfg
  <2>1. pc'[p] = "failed" /\ \A q \in Procs \ {p} : pc'[q] = pc[q]  BY <1>2, <1>6, OthersStay
  <2>2. pc'[p] \notin Writing  BY <2>1 DEF Writing
  <2>3. sure'[p] = None  BY <1>1, <1>4, <1>6
  <2>4. OnItsWay(p)'  BY <2>3, NotSure
  <2>. QED  BY <1>1, <1>2, <1>3, <1>6, <2>1, <2>2, <2>4, StepKeeps
<1>. QED  BY <1>1, <1>5, <1>6

LEMMA DieKeeps ==
  ASSUME IInv, Effective, NEW p \in Procs, Die(p)
  PROVE  Effective'
<1>1. /\ UNCHANGED <<keyseed, enc, plain, setups, machine, mixed, good, env, yolo, blob, cfg>>
      /\ Go(p, "failed") /\ typed' = [typed EXCEPT ![p] = None] /\ saw' = [saw EXCEPT ![p] = None]
      /\ sure' = [sure EXCEPT ![p] = None]
  BY Zenon DEF Die, disk, world, app
<1>2. Shaped /\ DOMAIN sure = Procs /\ DOMAIN blob = Procs  BY Zenon DEF IInv, Effective, Typing
<1>3. pc'[p] = "failed" /\ \A q \in Procs \ {p} : pc'[q] = pc[q]  BY <1>1, <1>2, OthersStay
<1>4. pc'[p] \notin Writing  BY <1>3 DEF Writing
<1>5. /\ DOMAIN sure' = Procs /\ sure'[p] = None
      /\ \A q \in Procs \ {p} : typed'[q] = typed[q] /\ saw'[q] = saw[q] /\ sure'[q] = sure[q]
  BY <1>1, <1>2, Zenon DEF Shaped
<1>6. OnItsWay(p)'  BY <1>5, NotSure
<1>. QED  BY <1>1, <1>2, <1>3, <1>4, <1>5, <1>6, StepKeeps

(* The switches are of no credential. *)
LEMMA SwitchKeeps ==
  ASSUME IInv, Effective, NEW p \in Procs,
         (\E m : SetApprovals(p, m)) \/ (\E v : NoteDebug(p, v)) \/ OpenSession(p)
  PROVE  Effective'
<1>1. UNCHANGED <<keyseed, enc, plain, setups, machine, mixed, good, sure, env, yolo, pc, typed, saw, blob>>
      /\ pc[p] = "running"
  BY Zenon DEF SetApprovals, NoteDebug, OpenSession, Switch, disk, world, own
<1>2. Shaped /\ OnItsWay(p) /\ DOMAIN sure = Procs /\ DOMAIN blob = Procs
  BY Zenon DEF IInv, Effective, Typing
<1>3. /\ \A q \in Procs \ {p} : cfg'[q] = cfg[q]
      /\ \A k \in Creds : cfg'[p][k] = cfg[p][k]
  <2>1. ASSUME NEW k \in Runtime, NEW v, Switch(p, k, v) PROVE <1>3
    <3>1. DOMAIN cfg = Procs /\ DOMAIN cfg[p] = Keys  BY <1>2, Zenon DEF Shaped
    <3>2. cfg' = [cfg EXCEPT ![p] = [cfg[p] EXCEPT ![k] = v]]  BY <2>1 DEF Switch
    <3>3. \A j \in Creds : j \in Keys /\ j # k  BY CredsAre, Zenon
    <3>. QED  BY <3>1, <3>2, <3>3, Zenon
  <2>2. ASSUME OpenSession(p) PROVE <1>3
    <3>1. /\ \A q \in Procs \ {p} : cfg'[q] = cfg[q]
          /\ cfg'[p] = Reset(p, start[p].cfg, cfg[p]) /\ DOMAIN cfg[p] = Keys
      BY <1>2, <2>2, OpenShape DEF Shaped
    <3>. QED  BY <3>1, KeysAre DEF Reset
  <2>3. "approve" \in Runtime /\ "debug" \in Runtime  BY DEF Runtime
  <2>. QED  BY <2>1, <2>2, <2>3, Zenon DEF SetApprovals, NoteDebug
<1>4. pc'[p] \notin Writing  BY <1>1 DEF Writing
<1>5. OnItsWay(p)'  BY <1>1, <1>2, <1>3, WayStays
<1>. QED  BY <1>1, <1>2, <1>3, <1>4, <1>5, StepKeeps

(* A step of no process. *)
LEMMA OutsideKeeps ==
  ASSUME Effective, UNCHANGED <<keyseed, enc, plain, setups, machine, mixed, good, sure, env, yolo, own, cfg>>
  PROVE  Effective'
<1>1. UNCHANGED <<pc, typed, saw, blob>>  BY DEF own
<1>2. Typing'  BY <1>1, Zenon DEF Effective, Typing
<1>3. Alone' /\ StoreStands'  BY <1>1, QuietStore, Zenon DEF Effective
<1>4. \A q \in Procs : OnItsWay(q)'  BY <1>1, WayStays, Zenon DEF Effective
<1>. QED  BY <1>2, <1>3, <1>4, Zenon DEF Effective

LEMMA MoveKeeps ==
  ASSUME IInv, Effective, NEW m \in Machines \cup {NoId}, Move(m)
  PROVE  Effective'
<1>1. /\ UNCHANGED <<keyseed, setups, mixed, sure, pc, typed, blob>> /\ machine' = m /\ good' = None
      /\ \A q \in Procs : pc[q] \in {"off", "failed"}
  BY Zenon DEF Move, disk, own
<1>2. Typing'  BY <1>1, Zenon DEF Effective, Typing
<1>3. Alone'  BY <1>1, Zenon DEF Effective, Alone
<1>4. StoreStands'  BY <1>1, Zenon DEF StoreStands
<1>5. ASSUME NEW q \in Procs PROVE OnItsWay(q)'
  <2>1. pc[q] \notin Loading \cup {"running", "ensure"}  BY <1>1, <1>5 DEF Loading
  <2>2. sure'[q] = None  BY <1>1, <1>5, <2>1, Zenon DEF Effective, OnItsWay
  <2>. QED  BY <2>2, NotSure
<1>. QED  BY <1>2, <1>3, <1>4, <1>5, Zenon DEF Effective

LEMMA EffectiveStep ==
  ASSUME IInv, Effective, [Next]_vars
  PROVE  Effective'
<1>1. ASSUME NEW k, NEW v, Edit(k, v) PROVE Effective'
  BY <1>1, OutsideKeeps DEF Edit, app
<1>2. CASE UNCHANGED vars
  BY <1>2, OutsideKeeps DEF vars, disk, world, own, app, history
<1>3. CASE Next
  BY <1>1, <1>3, SetupKeeps, EnsureKeeps, SeedKeeps, EncKeeps, PlainKeeps, StartKeeps, LoadKeeps, ReadKeeps,
     OpenKeeps, SwitchKeeps, DieKeeps, MoveKeeps, Zenon DEF Next
<1>. QED  BY <1>2, <1>3

(* A setup that finished undisturbed takes effect: a start after it does not
   fail, and has each credential as it was typed or as a stronger layer sets
   it (setup.go:129; secrets.go; config.go:163-186).                        *)
THEOREM SetupsTakeEffect == Spec => []SetupTakesEffect
<1>1. Init => Effective  BY EffectiveInit
<1>2. IInv /\ Effective /\ [Next]_vars => Effective'  BY EffectiveStep
<1>3. Effective => SetupTakesEffect
  <2>1. SUFFICES ASSUME Effective, NEW p \in Procs, sure[p] # None
                 PROVE  /\ pc[p] # "failed"
                        /\ pc[p] = "running" => \A k \in Creds : Took(p, k)
    BY Zenon DEF SetupTakesEffect, Took
  <2>2. OnItsWay(p)  BY <2>1, Zenon DEF Effective
  <2>3. "failed" \notin Loading \cup {"running", "ensure"}  BY DEF Loading
  <2>. QED  BY <2>1, <2>2, <2>3, Zenon DEF OnItsWay, Runs
<1>. QED  BY <1>1, <1>2, <1>3, InvariantHolds, PTL DEF Spec

=============================================================================
