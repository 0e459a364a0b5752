--------------------------- MODULE SessionProofs ---------------------------
(***************************************************************************)
(* The session store, for every number of processes and sessions: a record *)
(* is whole (RecordsStayWhole), a log stands (LogsStand) and a recap is    *)
(* readied (RecapsAreReadied), whatever fails, dies or is pruned in        *)
(* between.  Then one session (Keeper), for every length of its log: its   *)
(* checkpoints are numbered and never rewritten, what Hermes reads is      *)
(* whole (ReadsStayWhole) and its references resolve                       *)
(* (ReferencesAlwaysResolve), a request is up to date                      *)
(* (RequestsAreUpToDate) and what was sent stands (WhatWasSentStands).     *)
(***************************************************************************)
EXTENDS Store, Keeper, SequenceTheorems, FiniteSetTheorems, WellFoundedInduction, TLAPS

(* A set of naturals has a least element. *)
LEMMA Least ==
  ASSUME NEW D \in SUBSET Nat, D # {}
  PROVE  \E d \in D : \A n \in D : d <= n
<1>1. PICK d \in D : \A n \in D : <<n, d>> \notin OpToRel(<, Nat)
  BY NatLessThanWellFounded, WFMin, Zenon
<1>2. ASSUME NEW n \in D, n < d PROVE FALSE
  <2>1. n \in Nat /\ d \in Nat  OBVIOUS
  <2>2. <<n, d>> \in OpToRel(<, Nat)  BY <2>1, <1>2, Zenon DEF OpToRel
  <2>. QED  BY <2>2, <1>1, Zenon
<1>. QED  BY <1>2, SMT

LEMMA HighestIsBound ==
  ASSUME NEW N \in Nat, NEW S \in SUBSET (0..N)
  PROVE  Highest(S) \in 0..N /\ \A x \in S : x <= Highest(S)
<1>. DEFINE T == {0} \cup S
            D == {n \in Nat : N - n \in T}
<1>1. D \in SUBSET Nat /\ D # {}
  <2>1. N \in D  BY SMT
  <2>. QED  BY <2>1
<1>. HIDE DEF D
<1>2. PICK d \in D : \A n \in D : d <= n  BY <1>1, Least, Zenon
<1>3. \A x \in T : N - d >= x
  <2>. SUFFICES ASSUME NEW x \in T PROVE N - d >= x  OBVIOUS
  <2>1. N - x \in D  BY SMT DEF D
  <2>. QED  BY <2>1, <1>2, <1>1, SMT
<1>4. N - d \in T  BY <1>2 DEF D
<1>5. PICK m \in T : m = Max(T) /\ \A y \in T : m >= y
  <2>. HIDE DEF T
  <2>. QED  BY <1>3, <1>4, Zenon DEF Max
<1>. QED  BY <1>5, SMT DEF Highest

(* The log, when an event was to be put into it. *)
Grown(L, M, e) == \A i \in DOMAIN M : (i \in DOMAIN L /\ M[i] = L[i]) \/ (i = Len(L) + 1 /\ M[i] = e)

LEMMA FrontType ==
  ASSUME NEW L \in Seq(Events)
  PROVE  Front(L) \in Seq(Events) /\ \A e : Grown(L, Front(L), e)
<1>1. Len(L) \in Nat /\ DOMAIN L = 1..Len(L)  BY LenProperties, Zenon
<1>2. \A i \in 1..(Len(L) - 1) : L[i] \in Events  BY <1>1, ElementOfSeq, SMT
<1>3. /\ Front(L) \in Seq(Events)
      /\ Len(Front(L)) = IF 1 <= Len(L) - 1 THEN Len(L) - 1 ELSE 0
      /\ \A i \in 1..(Len(L) - 1) : Front(L)[i] = L[i]
  <2>. DEFINE n == Len(L) - 1
  <2>1. n \in Int /\ 1 \in Int /\ \A i \in 1..n : L[i] \in Events  BY <1>1, <1>2, SMT
  <2>. HIDE DEF n
  <2>2. /\ SubSeq(L, 1, n) \in Seq(Events)
        /\ Len(SubSeq(L, 1, n)) = IF 1 <= n THEN n - 1 + 1 ELSE 0
        /\ \A i \in 1..(n - 1 + 1) : SubSeq(L, 1, n)[i] = L[1 + i - 1]
    BY <2>1, SubSeqProperties, SMT
  <2>. QED  BY <1>1, <2>2, SMT DEF n, Front
<1>4. DOMAIN Front(L) = 1..Len(Front(L))  BY <1>3, LenProperties, Zenon
<1>5. \A i \in DOMAIN Front(L) : i \in DOMAIN L /\ Front(L)[i] = L[i]
  <2>. SUFFICES ASSUME NEW i \in 1..Len(Front(L)) PROVE i \in 1..Len(L) /\ Front(L)[i] = L[i]
    BY <1>1, <1>4, Zenon
  <2>1. i \in 1..(Len(L) - 1)
    <3>1. CASE 1 <= Len(L) - 1  BY <3>1, <1>3, Zenon
    <3>2. CASE ~(1 <= Len(L) - 1)  BY <3>2, <1>3, SMT
    <3>. QED  BY <3>1, <3>2
  <2>2. Front(L)[i] = L[i]  BY <2>1, <1>3, Zenon
  <2>. QED  BY <2>1, <2>2, <1>1, SMT
<1>. QED  BY <1>3, <1>5, Zenon DEF Grown

LEMMA AppendGrown ==
  ASSUME NEW L \in Seq(Events), NEW e \in Events
  PROVE  Append(L, e) \in Seq(Events) /\ Grown(L, Append(L, e), e)
<1>1. Len(L) \in Nat /\ DOMAIN L = 1..Len(L)  BY LenProperties, Zenon
<1>2. /\ Append(L, e) \in Seq(Events) /\ Len(Append(L, e)) = Len(L) + 1
      /\ \A i \in 1..Len(L) : Append(L, e)[i] = L[i]
      /\ Append(L, e)[Len(L) + 1] = e  BY AppendProperties, SMT
<1>3. DOMAIN Append(L, e) = 1..(Len(L) + 1)  BY <1>2, LenProperties, Zenon
<1>. QED  BY <1>1, <1>2, <1>3, SMT DEF Grown

LEMMA NumberType ==
  ASSUME NEW L \in Seq(Events)
  PROVE  /\ LastSeq(L) \in 0..MaxSeq /\ LastRef(L) \in 0..MaxSeq /\ LastTurn(L) \in 0..MaxSeq
         /\ \A i \in DOMAIN L : L[i] \in Events /\ L[i].ref <= LastRef(L) /\ L[i].turn <= LastTurn(L)
<1>. USE StoreAssumption DEF Bounds
<1>1. Len(L) \in Nat /\ DOMAIN L = 1..Len(L)  BY LenProperties, Zenon
<1>2. \A i \in DOMAIN L : L[i] \in Events  BY <1>1, ElementOfSeq, Zenon
<1>3. \A i \in DOMAIN L : L[i].ref \in 0..MaxSeq /\ L[i].turn \in 0..MaxSeq /\ L[i].seq \in 1..MaxSeq
  BY <1>2, SMT DEF Events
<1>4. LastSeq(L) \in 0..MaxSeq
  <2>1. CASE L = <<>>  BY <2>1, SMT DEF LastSeq
  <2>2. CASE L # <<>>
    <3>1. Len(L) \in DOMAIN L  BY <2>2, <1>1, EmptySeq, SMT
    <3>. QED  BY <3>1, <2>2, <1>3, SMT DEF LastSeq, Last
  <2>. QED  BY <2>1, <2>2
<1>5. LastRef(L) \in 0..MaxSeq /\ \A i \in DOMAIN L : L[i].ref <= LastRef(L)
  <2>. DEFINE S == {L[i].ref : i \in DOMAIN L}
  <2>1. S \in SUBSET (0..MaxSeq)  BY <1>3
  <2>2. Highest(S) \in 0..MaxSeq /\ \A x \in S : x <= Highest(S)
    <3>. HIDE DEF S
    <3>. QED BY <2>1, HighestIsBound, Zenon
  <2>. QED  BY <2>2, Zenon DEF LastRef
<1>6. LastTurn(L) \in 0..MaxSeq /\ \A i \in DOMAIN L : L[i].turn <= LastTurn(L)
  <2>. DEFINE S == {L[i].turn : i \in DOMAIN L}
  <2>1. S \in SUBSET (0..MaxSeq)  BY <1>3
  <2>2. Highest(S) \in 0..MaxSeq /\ \A x \in S : x <= Highest(S)
    <3>. HIDE DEF S
    <3>. QED BY <2>1, HighestIsBound, Zenon
  <2>. QED  BY <2>2, Zenon DEF LastTurn
<1>. QED  BY <1>2, <1>4, <1>5, <1>6

(* What an append does to the log of the process's session, whatever became of
   the write. *)
Entry(p, kind, t, r) == [seq |-> Stamp(p, open[p]), turn |-> t, kind |-> kind, ref |-> r, by |-> p]

Put(p, kind, t, r) ==
  /\ Stamp(p, open[p]) \in 1..MaxSeq /\ next' = [next EXCEPT ![p] = Stamp(p, open[p])]
  /\ log' \in [Sessions -> Seq(Events)]
  /\ \A u \in Sessions : u # open[p] => log'[u] = log[u]
  /\ Grown(log[open[p]], log'[open[p]], Entry(p, kind, t, r))
  /\ dir' = [dir EXCEPT ![open[p]] = TRUE]
  /\ tail' \in [Sessions -> {"whole", "torn", "open"}] /\ faults' \in 0..MaxFaults
  /\ UNCHANGED <<index, tmp, outs, held, open, rec, victims, note, clock, history>>

LEMMA AppendedPut ==
  ASSUME TypeOK, NEW p \in Procs, open[p] \in Sessions,
         NEW kind \in Kinds, NEW t \in 1..MaxSeq, NEW r \in 0..MaxSeq, Appended(p, kind, t, r)
  PROVE  Put(p, kind, t, r)
<1>. USE StoreAssumption DEF Bounds
<1>. DEFINE s == open[p]
            L == log[s]
            n == Stamp(p, s)
            e == Entry(p, kind, t, r)
<1>1. L \in Seq(Events)  BY DEF TypeOK
<1>2. n \in 1..MaxSeq
  <2>1. LastSeq(L) \in 0..MaxSeq  BY <1>1, NumberType, Zenon
  <2>2. next[p] \in -1..MaxSeq /\ n <= MaxSeq  BY DEF TypeOK, Appended
  <2>. QED  BY <2>1, <2>2, SMT DEF Stamp, Unread
<1>3. e \in Events  BY <1>2, SMT DEF Entry, Events
<1>4. \A M \in {L, Append(L, e), Joined(s)} : M \in Seq(Events) /\ Grown(L, M, e)
  <2>1. Grown(L, L, e)  BY DEF Grown
  <2>2. Append(L, e) \in Seq(Events) /\ Grown(L, Append(L, e), e)  BY <1>1, <1>3, AppendGrown, Zenon
  <2>3. Front(L) \in Seq(Events) /\ Grown(L, Front(L), e)  BY <1>1, FrontType, Zenon
  <2>. HIDE DEF e
  <2>. QED  BY <1>1, <2>1, <2>2, <2>3, Zenon DEF Joined
<1>5. \E M \in {L, Append(L, e), Joined(s)}, m \in {"whole", "torn", "open"} :
        log' = [log EXCEPT ![s] = M] /\ tail' = [tail EXCEPT ![s] = m]
  <2>. USE DEF TypeOK
  <2>1. log = [log EXCEPT ![s] = L] /\ tail = [tail EXCEPT ![s] = tail[s]] /\ tail[s] \in {"whole", "torn", "open"}
    OBVIOUS
  <2>2. \/ log' = [log EXCEPT ![s] = IF tail[s] = "whole" THEN Append(L, e) ELSE Joined(s)] /\ tail' = [tail EXCEPT ![s] = "whole"]
        \/ UNCHANGED <<log, tail>>
        \/ log' = [log EXCEPT ![s] = Joined(s)] /\ tail' = [tail EXCEPT ![s] = "torn"]
        \/ log' = [log EXCEPT ![s] = Append(L, e)] /\ tail' = [tail EXCEPT ![s] = "open"]
    BY DEF Appended, Entry
  <2>. HIDE DEF e, L
  <2>. QED  BY <2>1, <2>2, Zenon
<1>6. /\ log' \in [Sessions -> Seq(Events)] /\ tail' \in [Sessions -> {"whole", "torn", "open"}]
      /\ \A u \in Sessions : u # s => log'[u] = log[u]
      /\ Grown(L, log'[s], e)
  <2>1. PICK M \in {L, Append(L, e), Joined(s)}, m \in {"whole", "torn", "open"} :
          log' = [log EXCEPT ![s] = M] /\ tail' = [tail EXCEPT ![s] = m]
    BY <1>5
  <2>2. M \in Seq(Events) /\ Grown(L, M, e)  BY <1>4, Zenon
  <2>. HIDE DEF e, L
  <2>. QED  BY <2>1, <2>2, SMT DEF TypeOK
<1>7. faults' \in 0..MaxFaults  BY SMT DEF Appended, Fails, TypeOK
<1>. QED  BY <1>2, <1>6, <1>7 DEF Appended, Put

LEMMA EntryPut ==
  ASSUME TypeOK, Placed, NEW p \in Procs
  PROVE  /\ BeginTurn(p) => Put(p, "user", turn[p] + 1, 0)
         /\ Call(p) => Put(p, "call", turn[p], ref[p] + 1)
         /\ Result(p) => Put(p, IF pc[p] = "saved" THEN "result" ELSE "bare", turn[p], ref[p])
         /\ EndTurn(p) => \E kind \in {"answer", "turn_end"} :
                            Put(p, kind, turn[p], 0) /\ (kind = "answer" => pc[p] = "ran")
<1>. USE StoreAssumption DEF Bounds
<1>1. turn[p] \in 0..MaxSeq /\ ref[p] \in 0..MaxSeq  BY DEF TypeOK
<1>2. pc[p] \in Writing => open[p] \in Sessions  BY DEF Placed, Opened
<1>3. pc[p] \in Writing \ {"idle"} => turn[p] \in 1..MaxSeq  BY <1>1, SMT DEF Placed
<1>4. ASSUME BeginTurn(p) PROVE Put(p, "user", turn[p] + 1, 0)
  <2>1. turn[p] + 1 \in 1..MaxSeq /\ 0 \in 0..MaxSeq  BY <1>4, <1>1, SMT DEF BeginTurn
  <2>2. Appended(p, "user", turn[p] + 1, 0) /\ open[p] \in Sessions  BY <1>4, <1>2 DEF BeginTurn, Writing
  <2>. QED  BY <2>1, <2>2, AppendedPut, Zenon DEF Kinds
<1>5. ASSUME Call(p) PROVE Put(p, "call", turn[p], ref[p] + 1)
  <2>1. ref[p] + 1 \in 0..MaxSeq /\ turn[p] \in 1..MaxSeq  BY <1>5, <1>1, <1>3, SMT DEF Call, Writing
  <2>2. Appended(p, "call", turn[p], ref[p] + 1) /\ open[p] \in Sessions  BY <1>5, <1>2 DEF Call, Writing
  <2>. QED  BY <2>1, <2>2, AppendedPut, Zenon DEF Kinds
<1>6. ASSUME Result(p) PROVE Put(p, IF pc[p] = "saved" THEN "result" ELSE "bare", turn[p], ref[p])
  <2>. DEFINE kind == IF pc[p] = "saved" THEN "result" ELSE "bare"
  <2>1. turn[p] \in 1..MaxSeq  BY <1>6, <1>3, SMT DEF Result, Writing
  <2>2. Appended(p, kind, turn[p], ref[p]) /\ open[p] \in Sessions  BY <1>6, <1>2 DEF Result, Writing
  <2>3. kind \in Kinds  BY DEF Kinds
  <2>. HIDE DEF kind
  <2>4. Put(p, kind, turn[p], ref[p])  BY <2>1, <2>2, <2>3, <1>1, AppendedPut, Zenon
  <2>. QED  BY <2>4 DEF kind
<1>7. ASSUME EndTurn(p)
      PROVE  \E kind \in {"answer", "turn_end"} : Put(p, kind, turn[p], 0) /\ (kind = "answer" => pc[p] = "ran")
  <2>1. turn[p] \in 1..MaxSeq /\ 0 \in 0..MaxSeq  BY <1>7, <1>3, SMT DEF EndTurn, Writing
  <2>2. open[p] \in Sessions  BY <1>7, <1>2 DEF EndTurn, Writing
  <2>3. PICK kind \in IF pc[p] = "ran" THEN {"answer", "turn_end"} ELSE {"turn_end"} : Appended(p, kind, turn[p], 0)
    BY <1>7 DEF EndTurn
  <2>4. kind \in {"answer", "turn_end"} /\ (kind = "answer" => pc[p] = "ran") /\ kind \in Kinds  BY <2>3 DEF Kinds
  <2>5. Put(p, kind, turn[p], 0)  BY <2>1, <2>2, <2>3, <2>4, AppendedPut, Zenon
  <2>. QED  BY <2>4, <2>5
<1>. QED  BY <1>4, <1>5, <1>6, <1>7

(* A record's write: whole, or torn. *)
Wrote(p, s, r, then, orElse) ==
  /\ rec' = [rec EXCEPT ![p] = r] /\ dir' = [dir EXCEPT ![s] = TRUE]
  /\ \/ /\ tmp' = [tmp EXCEPT ![s] = r] /\ pc' = [pc EXCEPT ![p] = then]
        /\ UNCHANGED behind
     \/ /\ tmp' = [tmp EXCEPT ![s] = Torn] /\ pc' = [pc EXCEPT ![p] = orElse]
        /\ behind' = [behind EXCEPT ![s] = TRUE]
  /\ faults' \in 0..MaxFaults
  /\ UNCHANGED <<index, files, next, ref, turn, victims, clock, shared>>

LEMMA WriteWrote ==
  ASSUME TypeOK, NEW p, NEW s, NEW r, NEW then, NEW orElse, Write(p, s, r, then, orElse)
  PROVE  Wrote(p, s, r, then, orElse)
<1>1. faults' \in 0..MaxFaults
  <2>1. faults' = faults \/ Fails  BY Zenon DEF Write
  <2>. QED  BY <2>1, StoreAssumption, SMT DEF Bounds, Fails, TypeOK
<1>. QED  BY <1>1, Zenon DEF Write, Begun, Fails, Wrote

LEMMA WroteType ==
  ASSUME TypeOK, NEW p \in Procs, NEW s \in Sessions, NEW r \in Records,
         NEW then \in Opened, NEW orElse \in Opened \cup {"dead"}, Wrote(p, s, r, then, orElse),
         held' \in [Sessions -> BOOLEAN], open' \in [Procs -> Sessions \cup {None}], note' \in [Procs -> BOOLEAN]
  PROVE  TypeOK'
<1>. USE StoreAssumption DEF Bounds
<1>1. dir' \in [Sessions -> BOOLEAN] /\ rec' \in [Procs -> Records]  BY Zenon DEF Wrote, TypeOK
<1>2. tmp' \in [Sessions -> Records \cup {None, Torn}] /\ behind' \in [Sessions -> BOOLEAN]
  <2>1. CASE tmp' = [tmp EXCEPT ![s] = r] /\ UNCHANGED behind  BY <2>1, Zenon DEF TypeOK
  <2>2. CASE tmp' = [tmp EXCEPT ![s] = Torn] /\ behind' = [behind EXCEPT ![s] = TRUE]  BY <2>2, Zenon DEF TypeOK
  <2>. QED  BY <2>1, <2>2 DEF Wrote
<1>3. pc' \in [Procs -> {"new", "prune", "choose", "dead"} \cup Opened]
  BY ZenonT(30) DEF Wrote, TypeOK
<1>. QED  BY <1>1, <1>2, <1>3, Zenon DEF Wrote, TypeOK, files

LEMMA BumpedType ==
  ASSUME clock \in 0..MaxClock, NEW r \in Records
  PROVE  Bumped(r) \in Records /\ Bumped(r).turns = 1
<1>1. 1 \in {0, 1}  OBVIOUS
<1>2. Bumped(r) \in Records  BY <1>1, Zenon DEF Records, Bumped
<1>3. Bumped(r).turns = 1  BY SMT DEF Records, Bumped
<1>. QED  BY <1>2, <1>3

LEMMA TypeInit ==
  ASSUME Init
  PROVE  TypeOK /\ Placed
<1>. USE StoreAssumption DEF Bounds
<1>1. Bare \in Records  BY SMT DEF Bare, Record, Records
<1>2. <<>> \in Seq(Events)  BY EmptySeq
<1>3. TypeOK
  <2>. HIDE DEF Bare, Events, Records
  <2>. QED  BY <1>1, <1>2, SMT DEF Init, TypeOK, Refs
<1>4. Placed  BY DEF Init, Placed, Opened, Writing
<1>. QED  BY <1>3, <1>4

(* An event written moves its writer on and leaves the rest as it is. *)
LEMMA PutType ==
  ASSUME TypeOK, Placed, NEW p \in Procs, NEW kind, NEW t, NEW r, Put(p, kind, t, r),
         pc[p] \in Opened, NEW x \in Writing, pc' = [pc EXCEPT ![p] = x],
         ref' \in [Procs -> 0..MaxSeq], turn' \in [Procs -> 0..MaxSeq],
         \A q \in Procs : q # p => turn'[q] = turn[q],
         x # "idle" => turn'[p] # 0
  PROVE  TypeOK' /\ Placed'
<1>1. /\ pc \in [Procs -> {"new", "prune", "choose", "dead"} \cup Opened] /\ dir \in [Sessions -> BOOLEAN]
      /\ next \in [Procs -> -1..MaxSeq]
  BY DEF TypeOK
<1>2. x \in Opened  BY DEF Opened
<1>3. pc' \in [Procs -> {"new", "prune", "choose", "dead"} \cup Opened]  BY <1>1, <1>2, Zenon
<1>4. dir' \in [Sessions -> BOOLEAN]  BY <1>1, Zenon DEF Put
<1>5. next' \in [Procs -> -1..MaxSeq]
  <2>1. /\ next' = [next EXCEPT ![p] = Stamp(p, open[p])] /\ Stamp(p, open[p]) \in 1..MaxSeq  BY DEF Put
  <2>2. Stamp(p, open[p]) \in -1..MaxSeq  BY <2>1, SMT
  <2>. QED  BY <1>1, <2>1, <2>2, Zenon
<1>6. UNCHANGED <<index, tmp, outs, held, open, rec, victims, note, clock, shared, behind>>
  BY DEF Put, history
<1>7. TypeOK'  BY <1>3, <1>4, <1>5, <1>6, Zenon DEF Put, TypeOK, Refs
<1>8. Placed'
  <2>. SUFFICES ASSUME NEW q \in Procs
                PROVE  /\ pc'[q] \in Opened => open'[q] \in Sessions
                       /\ pc'[q] \in Writing \ {"idle"} => turn'[q] # 0
    BY DEF Placed, Opened, Writing
  <2>1. open'[q] = open[q]  BY <1>6
  <2>2. CASE q = p
    <3>1. pc'[p] = x  BY <1>1, Zenon
    <3>. QED  BY <2>1, <2>2, <3>1, Zenon DEF Placed
  <2>3. CASE q # p
    <3>1. pc'[q] = pc[q]  BY <1>1, <2>3, Zenon
    <3>. QED  BY <2>1, <2>3, <3>1, Zenon DEF Placed
  <2>. QED  BY <2>2, <2>3
<1>. QED  BY <1>7, <1>8

LEMMA TypeKept ==
  ASSUME TypeOK, Placed, [Next]_vars
  PROVE  TypeOK' /\ Placed'
<1>. USE StoreAssumption DEF Bounds
<1>. USE DEF disk, files, own, world, history, vars
<1>1. Bare \in Records /\ Record(clock) \in Records  BY SMT DEF Bare, Record, Records, TypeOK
<1>2. <<>> \in Seq(Events)  BY EmptySeq
<1>. DEFINE Safe == TypeOK /\ Placed
<1>3. ASSUME NEW p \in Procs, Step(p) PROVE Safe'
  <2>1. CASE Start(p)
    BY <2>1, SMT DEF Start, TypeOK, Placed, Opened, Writing, Idle
  <2>2. CASE Pruned(p)
    BY <2>2, SMT DEF Pruned, TypeOK, Placed, Opened, Writing
  <2>3. CASE Rename(p)
    <3>1. open[p] \in Sessions  BY <2>3 DEF Rename, Placed, Opened, Writing
    <3>2. tmp[open[p]] # None => tmp[open[p]] \in Records \cup {None, Torn}  BY <3>1 DEF TypeOK
    <3>3. index' \in [Sessions -> Records \cup {None, Torn}] /\ tmp' \in [Sessions -> Records \cup {None, Torn}]
      BY <2>3, <3>1, <3>2, ZenonT(30) DEF Rename, TypeOK
    <3>5. pc' \in [Procs -> {"new", "prune", "choose", "dead"} \cup Opened]
      <4>1. {"ran", "open"} \subseteq Opened  BY DEF Opened, Writing
      <4>2. PICK x \in {"ran", "open", "dead"} : pc' = [pc EXCEPT ![p] = x]  BY <2>3 DEF Rename
      <4>. QED  BY <4>1, <4>2, Zenon DEF TypeOK
    <3>6. TypeOK'  BY <2>3, <3>3, <3>5, Zenon DEF Rename, TypeOK
    <3>4. Placed'  BY <2>3, <3>1, SMT DEF Rename, TypeOK, Placed, Opened, Writing
    <3>. QED  BY <3>4, <3>6
  <2>4. CASE OpenSession(p)
    <3>1. open[p] \in Sessions  BY <2>4 DEF OpenSession, Placed, Opened, Writing
    <3>2. LastRef(log[open[p]]) \in 0..MaxSeq /\ LastTurn(log[open[p]]) \in 0..MaxSeq
      BY <3>1, NumberType, Zenon DEF TypeOK
    <3>4. note' \in [Procs -> BOOLEAN]
      <4>1. PICK has \in {held[open[p]], FALSE} : note' = [note EXCEPT ![p] = Recap(p, has)]  BY <2>4 DEF OpenSession
      <4>2. Recap(p, has) \in BOOLEAN  BY DEF Recap
      <4>. QED  BY <4>1, <4>2, Zenon DEF TypeOK
    <3>5. TypeOK'  BY <2>4, <3>1, <3>2, <3>4, SMT DEF OpenSession, TypeOK, Unread, Opened, Writing
    <3>6. Placed'  BY <2>4, <3>1, SMT DEF OpenSession, TypeOK, Placed, Opened, Writing
    <3>. QED  BY <3>5, <3>6
  <2>5. ASSUME NEW s \in Sessions, Delete(p, s) PROVE Safe'
    <3>1. TypeOK'  BY <2>5, <1>2, SMT DEF Delete, TypeOK
    <3>2. Placed'  BY <2>5, SMT DEF Delete, TypeOK, Placed, Opened, Writing
    <3>. QED  BY <3>1, <3>2
  <2>6. ASSUME NEW s \in Sessions, New(p, s) PROVE Safe'
    <3>3. Wrote(p, s, Record(clock), "created", "dead")  BY <2>6, WriteWrote DEF New
    <3>4. "created" \in Opened /\ "dead" \in Opened \cup {"dead"}  BY DEF Opened
    <3>5. held' \in [Sessions -> BOOLEAN] /\ open' \in [Procs -> Sessions \cup {None}] /\ note' \in [Procs -> BOOLEAN]
      BY <2>6, Zenon DEF New, TypeOK
    <3>1. TypeOK'  BY <1>1, <3>3, <3>4, <3>5, WroteType
    <3>2. Placed'  BY <2>6, SMT DEF New, Write, TypeOK, Placed, Opened, Writing
    <3>. QED  BY <3>1, <3>2
  <2>7. ASSUME NEW s \in Sessions, Resolve(p, s) PROVE Safe'
    <3>1. Readable(s) => index[s] \in Records  BY DEF Readable, TypeOK
    <3>2. TypeOK'  BY <2>7, <3>1, <1>1, SMT DEF Resolve, TypeOK, Opened, Writing
    <3>3. Placed'  BY <2>7, SMT DEF Resolve, TypeOK, Placed, Opened, Writing
    <3>. QED  BY <3>2, <3>3
  <2>8. CASE BumpTurn(p)
    <3>1. open[p] \in Sessions  BY <2>8 DEF BumpTurn, Placed, Opened, Writing
    <3>2. Bumped(rec[p]) \in Records  BY BumpedType DEF TypeOK
    <3>5. Wrote(p, open[p], Bumped(rec[p]), "rename", "ran")  BY <2>8, WriteWrote DEF BumpTurn
    <3>6. {"rename", "ran"} \subseteq Opened  BY DEF Opened, Writing
    <3>7. held' \in [Sessions -> BOOLEAN] /\ open' \in [Procs -> Sessions \cup {None}] /\ note' \in [Procs -> BOOLEAN]
      BY <2>8, Zenon DEF BumpTurn, TypeOK
    <3>3. TypeOK'  BY <3>1, <3>2, <3>5, <3>6, <3>7, WroteType
    <3>4. Placed'  BY <2>8, <3>1, SMT DEF BumpTurn, Write, TypeOK, Placed, Opened, Writing
    <3>. QED  BY <3>3, <3>4
  <2>9. CASE Save(p)
    <3>1. open[p] \in Sessions /\ rec[p] \in Records  BY <2>9 DEF Save, Placed, Opened, Writing, TypeOK
    <3>4. Wrote(p, open[p], rec[p], "rename", "ran")  BY <2>9, WriteWrote DEF Save
    <3>5. UNCHANGED <<held, open, note>> /\ {"rename", "ran"} \subseteq Opened  BY <2>9 DEF Save, Opened, Writing
    <3>6. held' \in [Sessions -> BOOLEAN] /\ open' \in [Procs -> Sessions \cup {None}] /\ note' \in [Procs -> BOOLEAN]
      BY <3>5, Zenon DEF TypeOK
    <3>2. TypeOK'  BY <3>1, <3>4, <3>5, <3>6, WroteType
    <3>3. Placed'  BY <2>9, <3>1, SMT DEF Save, Write, TypeOK, Placed, Opened, Writing
    <3>. QED  BY <3>2, <3>3
  <2>10. CASE BeginTurn(p)
    <3>1. Put(p, "user", turn[p] + 1, 0) /\ turn' = [turn EXCEPT ![p] = @ + 1] /\ turn[p] < MaxSeq
          /\ pc[p] = "idle" /\ pc' = [pc EXCEPT ![p] = "asked"] /\ UNCHANGED ref
      BY <2>10, EntryPut DEF BeginTurn
    <3>2. /\ turn' \in [Procs -> 0..MaxSeq] /\ turn'[p] # 0 /\ ref' \in [Procs -> 0..MaxSeq]
          /\ \A q \in Procs : q # p => turn'[q] = turn[q]
      <4>1. turn[p] + 1 \in 0..MaxSeq /\ turn[p] + 1 # 0  BY <3>1, SMT DEF TypeOK
      <4>. QED  BY <3>1, <4>1, Zenon DEF TypeOK
    <3>3. pc[p] \in Opened /\ "asked" \in Writing  BY <3>1 DEF Opened, Writing
    <3>. QED  BY <3>1, <3>2, <3>3, PutType, Zenon
  <2>11. CASE Call(p)
    <3>1. Put(p, "call", turn[p], ref[p] + 1) /\ ref' = [ref EXCEPT ![p] = @ + 1] /\ ref[p] < MaxSeq
          /\ pc[p] = "ran" /\ pc' = [pc EXCEPT ![p] = "called"] /\ UNCHANGED turn
      BY <2>11, EntryPut DEF Call
    <3>2. ref' \in [Procs -> 0..MaxSeq] /\ turn' \in [Procs -> 0..MaxSeq]
      <4>1. ref[p] + 1 \in 0..MaxSeq  BY <3>1, SMT DEF TypeOK
      <4>. QED  BY <3>1, <4>1, Zenon DEF TypeOK
    <3>3. pc[p] \in Opened /\ "called" \in Writing /\ turn'[p] # 0  BY <3>1 DEF Opened, Writing, Placed
    <3>4. \A q \in Procs : turn'[q] = turn[q]  BY <3>1
    <3>. QED  BY <3>1, <3>2, <3>3, <3>4, PutType, Zenon
  <2>12. CASE SaveOutput(p)
    <3>1. open[p] \in Sessions  BY <2>12 DEF SaveOutput, Placed, Opened, Writing
    <3>2. Stored(p) \in [Sessions -> [Refs -> Procs \cup {None}]]  BY <3>1 DEF Stored, TypeOK
    <3>3. outs' \in [Sessions -> [Refs -> Procs \cup {None}]] /\ faults' \in 0..MaxFaults
      BY <2>12, <3>2, SMT DEF SaveOutput, Fails, TypeOK
    <3>4. dir' \in [Sessions -> BOOLEAN]  BY <2>12, <3>1, Zenon DEF SaveOutput, TypeOK
    <3>5. pc' \in [Procs -> {"new", "prune", "choose", "dead"} \cup Opened]
      <4>1. "saved" \in Opened /\ "unsaved" \in Opened  BY DEF Opened, Writing
      <4>. QED  BY <2>12, <4>1, Zenon DEF SaveOutput, TypeOK
    <3>6. TypeOK'  BY <2>12, <3>3, <3>4, <3>5, Zenon DEF SaveOutput, TypeOK
    <3>7. Placed'  BY <2>12, <3>1, SMTT(20) DEF SaveOutput, TypeOK, Placed, Opened, Writing
    <3>. QED  BY <3>6, <3>7
  <2>13. CASE Result(p)
    <3>. DEFINE kind == IF pc[p] = "saved" THEN "result" ELSE "bare"
    <3>1. Put(p, kind, turn[p], ref[p]) /\ pc[p] \in {"saved", "unsaved"} /\ pc' = [pc EXCEPT ![p] = "ran"]
          /\ UNCHANGED <<ref, turn>>
      BY <2>13, EntryPut DEF Result
    <3>2. pc[p] \in Opened /\ "ran" \in Writing /\ turn'[p] # 0  BY <3>1 DEF Opened, Writing, Placed
    <3>3. ref' \in [Procs -> 0..MaxSeq] /\ turn' \in [Procs -> 0..MaxSeq] /\ \A q \in Procs : turn'[q] = turn[q]
      BY <3>1 DEF TypeOK
    <3>. HIDE DEF kind
    <3>. QED  BY <3>1, <3>2, <3>3, PutType, Zenon
  <2>14. CASE EndTurn(p)
    <3>1. PICK kind \in {"answer", "turn_end"} : Put(p, kind, turn[p], 0)
      BY <2>14, EntryPut, Zenon
    <3>2. pc[p] \in {"asked", "ran"} /\ pc' = [pc EXCEPT ![p] = "idle"] /\ UNCHANGED <<ref, turn>>
      BY <2>14 DEF EndTurn
    <3>3. pc[p] \in Opened /\ "idle" \in Writing  BY <3>2 DEF Opened, Writing
    <3>4. ref' \in [Procs -> 0..MaxSeq] /\ turn' \in [Procs -> 0..MaxSeq] /\ \A q \in Procs : turn'[q] = turn[q]
      BY <3>2 DEF TypeOK
    <3>. QED  BY <3>1, <3>2, <3>3, <3>4, PutType, Zenon
  <2>15. CASE Crash(p)
    BY <2>15, <1>1, SMT DEF Crash, TypeOK, Placed, Opened, Writing
  <2>. QED  BY <1>3, <2>1, <2>2, <2>3, <2>4, <2>5, <2>6, <2>7, <2>8, <2>9, <2>10, <2>11, <2>12, <2>13, <2>14, <2>15, Zenon
       DEF Step
<1>4. CASE Tick  BY <1>4, SMT DEF Tick, TypeOK, Placed
<1>5. ASSUME NEW s \in Sessions, Lose(s) PROVE Safe'
  BY <1>5, SMT DEF Lose, TypeOK, Placed
<1>6. CASE UNCHANGED vars  BY <1>6, SMT DEF TypeOK, Placed
<1>. QED  BY <1>3, <1>4, <1>5, <1>6 DEF Next

-----------------------------------------------------------------------------
(* The index: whole as long as one process at a time has the session.  Who
   writes a session's record has it open, so what it renames is what it wrote. *)
LEMMA WholeInit ==
  ASSUME Init
  PROVE  Alone /\ TmpWhole /\ IndexWhole
<1>. USE StoreAssumption DEF Bounds
<1>. QED  BY SMT DEF Init, Alone, TmpWhole, IndexWhole, Opened, Writing

(* A step of one process leaves the others where they are. *)
LEMMA AloneKept ==
  ASSUME TypeOK, Placed, Alone, [Next]_vars
  PROVE  Alone' /\ \A s \in Sessions : shared[s] => shared'[s]
<1>. USE DEF disk, files, own, world, history, vars
<1>. DEFINE Kept == Alone' /\ \A s \in Sessions : shared[s] => shared'[s]
<1>1. ASSUME NEW p \in Procs, UNCHANGED <<open, shared>>, \A q \in Procs : pc'[q] \in Opened => pc[q] \in Opened
      PROVE  Kept
  BY <1>1, Zenon DEF Alone
<1>2. ASSUME NEW p \in Procs, Step(p) PROVE Kept
  <2>1. CASE Start(p)
    <3>1. \A q \in Procs : pc'[q] \in Opened => pc[q] \in Opened
      BY <2>1, SMT DEF Start, TypeOK, Opened, Writing
    <3>. QED  BY <2>1, <3>1, <1>1 DEF Start
  <2>2. CASE Pruned(p)
    <3>1. \A q \in Procs : pc'[q] \in Opened => pc[q] \in Opened
      BY <2>2, SMT DEF Pruned, TypeOK, Opened, Writing
    <3>. QED  BY <2>2, <3>1, <1>1 DEF Pruned
  <2>3. CASE Rename(p)
    <3>1. \A q \in Procs : pc'[q] \in Opened => pc[q] \in Opened
      BY <2>3, SMT DEF Rename, TypeOK, Opened, Writing
    <3>. QED  BY <2>3, <3>1, <1>1 DEF Rename
  <2>4. CASE OpenSession(p)
    <3>1. \A q \in Procs : pc'[q] \in Opened => pc[q] \in Opened
      BY <2>4, SMT DEF OpenSession, TypeOK, Opened, Writing
    <3>. QED  BY <2>4, <3>1, <1>1 DEF OpenSession
  <2>5. CASE \E s \in Sessions : Delete(p, s)
    BY <2>5, <1>1 DEF Delete
  <2>6. ASSUME NEW s \in Sessions, New(p, s) PROVE Kept
    <3>1. /\ pc[p] \notin Opened /\ UNCHANGED shared /\ open' = [open EXCEPT ![p] = s]
          /\ \A q \in Procs : q # p => pc'[q] = pc[q]
      BY <2>6, SMT DEF New, Write, TypeOK, Opened, Writing
    <3>2. \A q \in Procs : pc[q] \in Opened => open[q] # s
      BY <2>6, SMT DEF New, Users, Opened, Writing
    <3>3. Alone'  BY <3>1, <3>2, SMT DEF Alone, TypeOK
    <3>. QED  BY <3>1, <3>3
  <2>7. ASSUME NEW s \in Sessions, Resolve(p, s) PROVE Kept
    <3>1. /\ pc[p] \notin Opened /\ open' = [open EXCEPT ![p] = s]
          /\ shared' = [shared EXCEPT ![s] = @ \/ Users(s) # {}]
          /\ \A q \in Procs : q # p => pc'[q] = pc[q]
      BY <2>7, SMT DEF Resolve, TypeOK, Opened, Writing
    <3>2. ASSUME NEW q \in Procs, pc[q] \in Opened, open[q] = s PROVE shared'[s]
      <4>1. q \in Users(s)  BY <3>2, SMT DEF Users, Opened, Writing
      <4>2. Users(s) # {}  BY <4>1
      <4>. QED  BY <4>2, <3>1, Zenon DEF TypeOK
    <3>3. \A u \in Sessions : shared[u] => shared'[u]  BY <3>1, SMT DEF TypeOK
    <3>4. ASSUME NEW q \in Procs, NEW w \in Procs, q # w, pc'[q] \in Opened, pc'[w] \in Opened, open'[q] = open'[w]
          PROVE  shared'[open'[q]]
      <4>1. CASE q = p
        <5>1. open'[q] = s /\ open[w] = s /\ pc[w] \in Opened  BY <3>1, <3>4, <4>1, SMT DEF TypeOK
        <5>. QED  BY <5>1, <3>2
      <4>2. CASE w = p
        <5>1. open'[q] = s /\ open[q] = s /\ pc[q] \in Opened  BY <3>1, <3>4, <4>2, SMT DEF TypeOK
        <5>. QED  BY <5>1, <3>2
      <4>3. CASE q # p /\ w # p
        <5>1. pc[q] \in Opened /\ pc[w] \in Opened /\ open[q] = open[w] /\ open'[q] = open[q]
          BY <3>1, <3>4, <4>3, SMT DEF TypeOK
        <5>2. open[q] \in Sessions  BY <5>1 DEF Placed
        <5>. QED  BY <5>1, <5>2, <3>3, <3>4 DEF Alone
      <4>. QED  BY <4>1, <4>2, <4>3
    <3>. QED  BY <3>3, <3>4 DEF Alone
  <2>8. CASE BumpTurn(p) \/ Save(p)
    <3>1. \A q \in Procs : pc'[q] \in Opened => pc[q] \in Opened
      BY <2>8, SMT DEF BumpTurn, Save, Write, TypeOK, Opened, Writing
    <3>. QED  BY <2>8, <3>1, <1>1 DEF BumpTurn, Save, Write
  <2>9. CASE BeginTurn(p) \/ Call(p) \/ Result(p) \/ EndTurn(p)
    <3>1. \A q \in Procs : pc'[q] \in Opened => pc[q] \in Opened
      BY <2>9, SMT DEF BeginTurn, Call, Result, EndTurn, TypeOK, Opened, Writing
    <3>. QED  BY <2>9, <3>1, <1>1 DEF BeginTurn, Call, Result, EndTurn, Appended
  <2>10. CASE SaveOutput(p)
    <3>1. \A q \in Procs : pc'[q] \in Opened => pc[q] \in Opened
      BY <2>10, SMT DEF SaveOutput, TypeOK, Opened, Writing
    <3>. QED  BY <2>10, <3>1, <1>1 DEF SaveOutput
  <2>11. CASE Crash(p)
    <3>1. /\ pc'[p] \notin Opened /\ UNCHANGED shared
          /\ \A q \in Procs : q # p => pc'[q] = pc[q] /\ open'[q] = open[q]
      BY <2>11, SMT DEF Crash, TypeOK, Opened, Writing
    <3>. QED  BY <3>1, Zenon DEF Alone
  <2>. QED  BY <1>2, <2>1, <2>2, <2>3, <2>4, <2>5, <2>6, <2>7, <2>8, <2>9, <2>10, <2>11, Zenon DEF Step
<1>3. CASE Tick \/ \E s \in Sessions : Lose(s)
  BY <1>3 DEF Tick, Lose, Alone
<1>4. CASE UNCHANGED vars  BY <1>4 DEF Alone
<1>. QED  BY <1>2, <1>3, <1>4 DEF Next

(* A session not shared now had one user, and still has. *)
LEMMA OtherUser ==
  ASSUME Alone, NEW p \in Procs, pc[p] \in Opened, ~shared[open[p]],
         NEW q \in Procs, q # p, pc[q] \in Opened
  PROVE  open[q] # open[p]
BY DEF Alone

LEMMA WholeKept ==
  ASSUME TypeOK, Placed, Alone, TmpWhole, IndexWhole, [Next]_vars
  PROVE  TmpWhole' /\ IndexWhole'
<1>. USE StoreAssumption DEF Bounds
<1>. USE DEF disk, files, own, world, history, vars
<1>. DEFINE Kept == TmpWhole' /\ IndexWhole'
            Renames == {"created", "rename"}
<1>0. \A s \in Sessions : shared[s] => shared'[s]  BY AloneKept
<1>1. ASSUME UNCHANGED <<index, tmp, open>>, \A q \in Procs : pc'[q] \in Renames => pc[q] \in Renames
      PROVE  Kept
  <2>1. \A q \in Procs : pc[q] \in Renames => open[q] \in Sessions  BY SMT DEF Placed, Opened, Writing
  <2>. QED  BY <1>0, <1>1, <2>1, Zenon DEF TmpWhole, IndexWhole
<1>2. ASSUME NEW p \in Procs, NEW s \in Sessions, NEW r \in Records, NEW then \in Renames,
             NEW x \in {"ran", "dead"}, Wrote(p, s, r, then, x), open'[p] = s, \A q \in Procs : q # p => open'[q] = open[q],
             \A q \in Procs : (q # p /\ pc[q] \in Opened /\ open[q] = s) => shared[s]
      PROVE  Kept
  <2>1. UNCHANGED <<index, shared>>  BY <1>2 DEF Wrote
  <2>2. IndexWhole'  BY <2>1 DEF IndexWhole
  <2>3. ASSUME NEW q \in Procs, pc'[q] \in Renames, ~shared'[open'[q]] PROVE tmp'[open'[q]] # Torn
    <3>1. CASE q = p
      <4>1. pc'[p] # x  BY <2>3, <3>1, <1>2
      <4>2. tmp' = [tmp EXCEPT ![s] = r]
        <5>1. pc' = [pc EXCEPT ![p] = x] => pc'[p] = x  BY Zenon DEF TypeOK
        <5>. QED  BY <4>1, <5>1, <1>2, Zenon DEF Wrote
      <4>3. tmp'[s] = r  BY <4>2, Zenon DEF TypeOK
      <4>. QED  BY <4>3, <3>1, <1>2, Zenon
    <3>2. CASE q # p
      <4>1. pc[q] = pc'[q]  BY <1>2, <3>2, ZenonT(30) DEF Wrote, TypeOK
      <4>2. pc[q] \in Opened /\ open[q] \in Sessions /\ open'[q] = open[q]
        BY <4>1, <2>3, <3>2, <1>2 DEF Opened, Writing, Placed
      <4>3. open[q] # s  BY <4>2, <3>2, <2>3, <2>1, <1>2, Zenon
      <4>4. tmp'[open[q]] = tmp[open[q]]
        <5>1. tmp' = [tmp EXCEPT ![s] = r] \/ tmp' = [tmp EXCEPT ![s] = Torn]  BY <1>2, Zenon DEF Wrote
        <5>. QED  BY <5>1, <4>2, <4>3, Zenon DEF TypeOK
      <4>. QED  BY <4>1, <4>2, <4>4, <2>1, <2>3, Zenon DEF TmpWhole
    <3>. QED  BY <3>1, <3>2
  <2>. QED  BY <2>2, <2>3, Zenon DEF TmpWhole
<1>3. ASSUME NEW p \in Procs, Step(p) PROVE Kept
  <2>1. CASE Start(p)
    BY <2>1, <1>1, SMT DEF Start, TypeOK
  <2>2. CASE Pruned(p)
    BY <2>2, <1>1, SMT DEF Pruned, TypeOK
  <2>3. CASE Rename(p)
    <3>. DEFINE s == open[p]
    <3>1. s \in Sessions /\ pc[p] \in Renames /\ UNCHANGED <<open, shared>>  BY <2>3 DEF Rename, Placed, Opened, Writing
    <3>2. \A q \in Procs : pc'[q] \in Renames => pc[q] \in Renames  BY <2>3, SMT DEF Rename, TypeOK
    <3>3. CASE tmp[s] = None
      BY <3>1, <3>2, <3>3, <2>3, <1>1 DEF Rename
    <3>4. CASE tmp[s] # None
      <4>1. index' = [index EXCEPT ![s] = tmp[s]] /\ tmp' = [tmp EXCEPT ![s] = None]  BY <2>3, <3>4 DEF Rename
      <4>2. tmp[s] = Torn => shared[s]  BY <3>1, Zenon DEF TmpWhole
      <4>3. IndexWhole'  BY <3>1, <4>1, <4>2, Zenon DEF IndexWhole, TypeOK
      <4>4. \A q \in Procs : pc[q] \in Renames => open[q] \in Sessions  BY SMT DEF Placed, Opened, Writing
      <4>5. TmpWhole'  BY <3>1, <3>2, <4>1, <4>4, Zenon DEF TmpWhole, TypeOK
      <4>. QED  BY <4>3, <4>5
    <3>. QED  BY <3>3, <3>4
  <2>4. CASE OpenSession(p)
    BY <2>4, <1>1, SMT DEF OpenSession, TypeOK
  <2>5. ASSUME NEW s \in Sessions, Delete(p, s) PROVE Kept
    <3>1. /\ index' = [index EXCEPT ![s] = None] /\ tmp' = [tmp EXCEPT ![s] = None]
          /\ UNCHANGED <<pc, open, shared>>
      BY <2>5 DEF Delete
    <3>2. IndexWhole'  BY <3>1, Zenon DEF IndexWhole, TypeOK
    <3>3. \A q \in Procs : pc[q] \in Renames => open[q] \in Sessions  BY SMT DEF Placed, Opened, Writing
    <3>4. TmpWhole'  BY <3>1, <3>3, Zenon DEF TmpWhole, TypeOK
    <3>. QED  BY <3>2, <3>4
  <2>6. ASSUME NEW s \in Sessions, New(p, s) PROVE Kept
    <3>1. Wrote(p, s, Record(clock), "created", "dead") /\ open' = [open EXCEPT ![p] = s]
      BY <2>6, WriteWrote DEF New
    <3>2. Record(clock) \in Records  BY SMT DEF Record, Records, TypeOK
    <3>3. \A q \in Procs : pc[q] \in Opened => open[q] # s
      BY <2>6, SMT DEF New, Users, Opened, Writing
    <3>4. open'[p] = s /\ \A q \in Procs : q # p => open'[q] = open[q]  BY <3>1, Zenon DEF TypeOK
    <3>. QED  BY <3>1, <3>2, <3>3, <3>4, <1>2
  <2>7. ASSUME NEW s \in Sessions, Resolve(p, s) PROVE Kept
    <3>1. /\ UNCHANGED <<index, tmp>>
          /\ \A q \in Procs : pc'[q] \in Renames => pc[q] = pc'[q] /\ open'[q] = open[q]
      BY <2>7, SMT DEF Resolve, TypeOK
    <3>2. \A q \in Procs : pc[q] \in Renames => open[q] \in Sessions  BY SMT DEF Placed, Opened, Writing
    <3>3. TmpWhole'  BY <3>1, <3>2, <1>0, Zenon DEF TmpWhole
    <3>4. IndexWhole'  BY <3>1, <1>0, Zenon DEF IndexWhole
    <3>. QED  BY <3>3, <3>4
  <2>8. CASE BumpTurn(p)
    <3>1. Wrote(p, open[p], Bumped(rec[p]), "rename", "ran") /\ UNCHANGED open  BY <2>8, WriteWrote DEF BumpTurn
    <3>2. open[p] \in Sessions /\ pc[p] \in Opened  BY <2>8 DEF BumpTurn, Placed, Opened, Writing
    <3>3. Bumped(rec[p]) \in Records  BY BumpedType DEF TypeOK
    <3>. QED  BY <3>1, <3>2, <3>3, <1>2, OtherUser
  <2>9. CASE Save(p)
    <3>1. Wrote(p, open[p], rec[p], "rename", "ran") /\ UNCHANGED open  BY <2>9, WriteWrote DEF Save
    <3>2. open[p] \in Sessions /\ pc[p] \in Opened /\ rec[p] \in Records  BY <2>9 DEF Save, Placed, Opened, Writing, TypeOK
    <3>. QED  BY <3>1, <3>2, <1>2, OtherUser
  <2>10. CASE BeginTurn(p) \/ Call(p) \/ Result(p) \/ EndTurn(p)
    <3>1. UNCHANGED <<index, tmp, open>>  BY <2>10 DEF BeginTurn, Call, Result, EndTurn, Appended
    <3>2. \A q \in Procs : pc'[q] \in Renames => pc[q] \in Renames
      BY <2>10, SMT DEF BeginTurn, Call, Result, EndTurn, TypeOK
    <3>. QED  BY <3>1, <3>2, <1>1
  <2>11. CASE SaveOutput(p)
    BY <2>11, <1>1, SMT DEF SaveOutput, TypeOK
  <2>12. CASE Crash(p)
    <3>1. /\ UNCHANGED <<index, tmp, shared>>
          /\ \A q \in Procs : pc'[q] \in Renames => pc[q] = pc'[q] /\ open'[q] = open[q]
      BY <2>12, SMT DEF Crash, TypeOK
    <3>. QED  BY <3>1, Zenon DEF TmpWhole, IndexWhole
  <2>. QED  BY <1>3, <2>1, <2>2, <2>3, <2>4, <2>5, <2>6, <2>7, <2>8, <2>9, <2>10, <2>11, <2>12, Zenon DEF Step
<1>4. CASE Tick \/ \E s \in Sessions : Lose(s)
  BY <1>4, <1>1 DEF Tick, Lose
<1>5. CASE UNCHANGED vars  BY <1>5, <1>1
<1>. QED  BY <1>3, <1>4, <1>5 DEF Next

(* A record is whole or not there, for every number of processes, sessions and
   faults: whenever a write fails or a process dies, what is renamed onto
   session.json is what one process wrote whole - unless two shared the session. *)
THEOREM RecordsStayWhole == Spec => []IndexWhole
<1>. DEFINE Inv == TypeOK /\ Placed /\ Alone /\ TmpWhole /\ IndexWhole
<1>1. Init => Inv  BY TypeInit, WholeInit
<1>2. Inv /\ [Next]_vars => Inv'  BY TypeKept, AloneKept, WholeKept
<1>3. Inv => IndexWhole  OBVIOUS
<1>. QED  BY <1>1, <1>2, <1>3, PTL DEF Spec

-----------------------------------------------------------------------------
(* The log: what each kind of step does to it and to the counters. *)
Early == {"new", "prune", "choose", "created", "open"}

Appends(p) ==
  /\ pc[p] \in Writing \ {"rename"} /\ pc'[p] \in Writing
  /\ \E kind \in Kinds, t \in 1..MaxSeq, r \in 0..MaxSeq :
       /\ Put(p, kind, t, r)
       /\ t = turn'[p] /\ turn[p] <= t /\ r <= ref'[p] /\ ref[p] <= ref'[p]
       /\ kind = "user" => turn[p] < t /\ pc'[p] = "asked"
       /\ kind # "user" => t = turn[p] /\ pc[p] # "idle" /\ (pc'[p] = "idle" \/ pc[p] # "asked")
       /\ kind = "answer" => pc[p] = "ran"
       /\ pc'[p] \in {"asked", "idle", "ran", "called"}
       /\ kind = "call" => ref[p] < r
       /\ kind = "result" => pc[p] = "saved" /\ r = ref[p]
       /\ pc'[p] \in {"called", "saved", "unsaved"} => pc'[p] = "called" /\ kind = "call" /\ ref[p] < ref'[p]

Silent(p) ==
  /\ UNCHANGED <<log, outs, next, ref, turn>>
  /\ pc'[p] \in Writing => pc[p] \in Writing /\ open'[p] = open[p]
  /\ pc'[p] \in Early => pc[p] \in Early
  /\ pc'[p] \notin {"called", "saved", "unsaved"}

Others(p) ==
  \A q \in Procs : q # p =>
    /\ pc'[q] = pc[q] /\ open'[q] = open[q] /\ rec'[q] = rec[q]
    /\ next'[q] = next[q] /\ ref'[q] = ref[q] /\ turn'[q] = turn[q]

LEMMA OthersStay ==
  ASSUME TypeOK, NEW p \in Procs, Step(p)
  PROVE  Others(p)
<1>. USE DEF disk, files, own, world, history
<1>1. /\ pc \in [Procs -> {"new", "prune", "choose", "dead"} \cup Opened] /\ open \in [Procs -> Sessions \cup {None}]
      /\ rec \in [Procs -> Records] /\ next \in [Procs -> -1..MaxSeq]
      /\ ref \in [Procs -> 0..MaxSeq] /\ turn \in [Procs -> 0..MaxSeq]
  BY DEF TypeOK
<1>2. CASE Start(p) \/ Pruned(p)
  BY <1>1, <1>2, Zenon DEF Start, Pruned, Others
<1>3. CASE Rename(p)
  <2>1. \E x : pc' = [pc EXCEPT ![p] = x]  BY <1>3 DEF Rename
  <2>. QED  BY <1>1, <1>3, <2>1, Zenon DEF Rename, Others
<1>4. CASE OpenSession(p)
  BY <1>1, <1>4, Zenon DEF OpenSession, Others
<1>5. CASE \E s \in Sessions : Delete(p, s)
  BY <1>5, Zenon DEF Delete, Others
<1>6. CASE \E s \in Sessions : New(p, s)
  BY <1>1, <1>6, Zenon DEF New, Write, Others
<1>7. CASE \E s \in Sessions : Resolve(p, s)
  BY <1>1, <1>7, Zenon DEF Resolve, Others
<1>8. CASE BumpTurn(p) \/ Save(p)
  BY <1>1, <1>8, Zenon DEF BumpTurn, Save, Write, Others
<1>9. CASE BeginTurn(p) \/ Call(p) \/ Result(p) \/ EndTurn(p)
  <2>1. \E x : next' = [next EXCEPT ![p] = x]  BY <1>9, Zenon DEF BeginTurn, Call, Result, EndTurn, Appended
  <2>2. \E x : pc' = [pc EXCEPT ![p] = x]  BY <1>9, Zenon DEF BeginTurn, Call, Result, EndTurn
  <2>3. \E x : ref' = [ref EXCEPT ![p] = x] \/ ref' = ref  BY <1>9, Zenon DEF BeginTurn, Call, Result, EndTurn
  <2>4. \E x : turn' = [turn EXCEPT ![p] = x] \/ turn' = turn  BY <1>9, Zenon DEF BeginTurn, Call, Result, EndTurn
  <2>5. UNCHANGED <<open, rec>>  BY <1>9, Zenon DEF BeginTurn, Call, Result, EndTurn, Appended
  <2>. QED  BY <1>1, <2>1, <2>2, <2>3, <2>4, <2>5, Zenon DEF Others
<1>10. CASE SaveOutput(p)
  BY <1>1, <1>10, Zenon DEF SaveOutput, Others
<1>11. CASE Crash(p)
  BY <1>1, <1>11, Zenon DEF Crash, Others
<1>. QED  BY <1>2, <1>3, <1>4, <1>5, <1>6, <1>7, <1>8, <1>9, <1>10, <1>11, Zenon DEF Step

LEMMA AppendsToo ==
  ASSUME TypeOK, Placed, NEW p \in Procs, BeginTurn(p) \/ Call(p) \/ Result(p) \/ EndTurn(p)
  PROVE  Appends(p)
<1>. USE StoreAssumption DEF Bounds
<1>1. turn[p] \in 0..MaxSeq /\ ref[p] \in 0..MaxSeq /\ (pc[p] \in Writing \ {"idle"} => turn[p] \in 1..MaxSeq)
  BY SMT DEF TypeOK, Placed
<1>2. CASE BeginTurn(p)
  <2>1. pc[p] = "idle" /\ turn[p] < MaxSeq /\ turn'[p] = turn[p] + 1 /\ pc'[p] = "asked" /\ ref' = ref
    BY <1>2, SMT DEF BeginTurn, TypeOK
  <2>2. Put(p, "user", turn[p] + 1, 0)  BY <1>2, EntryPut, Zenon
  <2>3. turn[p] + 1 \in 1..MaxSeq /\ 0 \in 0..MaxSeq /\ turn[p] <= turn[p] + 1 /\ turn[p] < turn[p] + 1
        /\ 0 <= ref'[p] /\ ref[p] <= ref'[p]
    BY <1>1, <2>1, SMT
  <2>4. pc[p] \in Writing \ {"rename"} /\ pc'[p] \in Writing /\ pc'[p] \notin {"called", "saved", "unsaved"}
        /\ pc'[p] \in {"asked", "idle", "ran", "called"}
    BY <2>1 DEF Writing
  <2>5. "user" \in Kinds /\ "user" # "call" /\ "user" # "result" /\ "user" # "answer"  BY DEF Kinds
  <2>6. Appends(p)  BY <2>1, <2>2, <2>3, <2>4, <2>5, Zenon DEF Appends
  <2>. QED  BY <2>6
<1>3. CASE Call(p)
  <2>1. pc[p] = "ran" /\ ref[p] < MaxSeq /\ ref'[p] = ref[p] + 1 /\ pc'[p] = "called" /\ turn'[p] = turn[p]
    BY <1>3, SMT DEF Call, TypeOK
  <2>2. Put(p, "call", turn[p], ref[p] + 1)  BY <1>3, EntryPut, Zenon
  <2>3. turn[p] \in 1..MaxSeq /\ ref[p] + 1 \in 0..MaxSeq /\ ref[p] < ref[p] + 1
        /\ turn[p] <= turn[p] /\ ref[p] + 1 <= ref'[p] /\ ref[p] <= ref'[p] /\ ref[p] < ref'[p]
    BY <1>1, <2>1, SMT DEF Writing
  <2>4. pc[p] \in Writing \ {"rename"} /\ pc'[p] \in Writing /\ pc[p] # "idle" /\ pc[p] # "asked"
        /\ pc'[p] \in {"asked", "idle", "ran", "called"}
    BY <2>1 DEF Writing
  <2>5. "call" \in Kinds /\ "call" # "user" /\ "call" # "result" /\ "call" # "answer"  BY DEF Kinds
  <2>6. Appends(p)  BY <2>1, <2>2, <2>3, <2>4, <2>5, Zenon DEF Appends
  <2>. QED  BY <2>6
<1>4. CASE Result(p)
  <2>. DEFINE kind == IF pc[p] = "saved" THEN "result" ELSE "bare"
  <2>1. pc[p] \in {"saved", "unsaved"} /\ pc'[p] = "ran" /\ turn'[p] = turn[p] /\ ref'[p] = ref[p]
    BY <1>4, SMT DEF Result, TypeOK
  <2>2. Put(p, kind, turn[p], ref[p])  BY <1>4, EntryPut, Zenon
  <2>3. turn[p] \in 1..MaxSeq /\ ref[p] \in 0..MaxSeq /\ turn[p] <= turn[p] /\ ref[p] <= ref'[p]
    BY <1>1, <2>1, SMT DEF Writing
  <2>4. pc[p] \in Writing \ {"rename"} /\ pc'[p] \in Writing /\ pc'[p] \notin {"called", "saved", "unsaved"}
        /\ pc[p] # "idle" /\ pc[p] # "asked" /\ pc'[p] \in {"asked", "idle", "ran", "called"}
    BY <2>1 DEF Writing
  <2>5. kind \in Kinds /\ kind # "user" /\ kind # "call" /\ kind # "answer" /\ (kind = "result" => pc[p] = "saved")  BY DEF Kinds
  <2>. HIDE DEF kind
  <2>6. Appends(p)  BY <2>1, <2>2, <2>3, <2>4, <2>5, Zenon DEF Appends
  <2>. QED  BY <2>6
<1>5. CASE EndTurn(p)
  <2>1. pc[p] \in {"asked", "ran"} /\ pc'[p] = "idle" /\ turn'[p] = turn[p] /\ ref'[p] = ref[p]
    BY <1>5, SMT DEF EndTurn, TypeOK
  <2>2. PICK kind \in {"answer", "turn_end"} : Put(p, kind, turn[p], 0) /\ (kind = "answer" => pc[p] = "ran")
    BY <1>5, EntryPut, Zenon
  <2>3. turn[p] \in 1..MaxSeq /\ 0 \in 0..MaxSeq /\ turn[p] <= turn[p] /\ 0 <= ref'[p] /\ ref[p] <= ref'[p]
    BY <1>1, <2>1, SMT DEF Writing
  <2>4. pc[p] \in Writing \ {"rename"} /\ pc'[p] \in Writing /\ pc'[p] \notin {"called", "saved", "unsaved"}
        /\ pc[p] # "idle" /\ pc'[p] \in {"asked", "idle", "ran", "called"}
    BY <2>1 DEF Writing
  <2>5. kind \in Kinds /\ kind # "user" /\ kind # "call" /\ kind # "result"  BY DEF Kinds
  <2>6. Appends(p)  BY <2>1, <2>2, <2>3, <2>4, <2>5, Zenon DEF Appends
  <2>. QED  BY <2>6
<1>. QED  BY <1>2, <1>3, <1>4, <1>5

LEMMA Steps ==
  ASSUME TypeOK, Placed, NEW p \in Procs, Step(p)
  PROVE  \/ Appends(p) \/ Silent(p)
         \/ OpenSession(p) \/ SaveOutput(p) \/ Crash(p) \/ \E s \in Sessions : Delete(p, s)
<1>. USE StoreAssumption DEF Bounds
<1>. USE DEF disk, files, own, world, history
<1>2. CASE Start(p) \/ Pruned(p)
  BY <1>2, SMT DEF Start, Pruned, Silent, Early, Writing, TypeOK
<1>3. CASE Rename(p)
  <2>1. pc[p] \in {"created", "rename"} /\ UNCHANGED <<log, outs, next, ref, turn, open>>  BY <1>3 DEF Rename
  <2>2. pc'[p] = IF pc[p] = "rename" THEN "ran" ELSE IF tmp[open[p]] = None THEN "dead" ELSE "open"
    BY <1>3, Zenon DEF Rename, TypeOK
  <2>. QED  BY <2>1, <2>2, SMT DEF Silent, Early, Writing
<1>4. CASE \E s \in Sessions : New(p, s)
  <2>1. pc[p] = "choose" /\ UNCHANGED <<log, outs, next, ref, turn>>  BY <1>4 DEF New, Write
  <2>2. pc' = [pc EXCEPT ![p] = "created"] \/ pc' = [pc EXCEPT ![p] = "dead"]  BY <1>4 DEF New, Write
  <2>3. pc'[p] \in {"created", "dead"}  BY <2>2, SMT DEF TypeOK
  <2>. QED  BY <2>1, <2>3, SMT DEF Silent, Early, Writing
<1>5. CASE \E s \in Sessions : Resolve(p, s)
  BY <1>5, SMT DEF Resolve, Silent, Early, Writing, TypeOK
<1>6. CASE BumpTurn(p) \/ Save(p)
  <2>1. pc[p] \in {"asked", "ran"} /\ UNCHANGED <<log, outs, next, ref, turn, open>>
    BY <1>6 DEF BumpTurn, Save, Write
  <2>2. pc'[p] \in {"rename", "ran"}  BY <1>6, Zenon DEF BumpTurn, Save, Write, TypeOK
  <2>. QED  BY <2>1, <2>2, SMT DEF Silent, Early, Writing
<1>7. CASE BeginTurn(p) \/ Call(p) \/ Result(p) \/ EndTurn(p)
  BY <1>7, AppendsToo
<1>. QED  BY <1>2, <1>3, <1>4, <1>5, <1>6, <1>7, Zenon DEF Step

LEMMA FreshKept ==
  ASSUME TypeOK, Placed, Fresh, NEW p \in Procs, Step(p)
  PROVE  Fresh'
<1>. USE StoreAssumption DEF Bounds
<1>1. Others(p)  BY OthersStay
<1>2. SUFFICES ASSUME NEW q \in Procs, pc'[q] \in Early \/ next'[q] = Unread,
                      NEW s \in Sessions, NEW i \in DOMAIN log'[s]
               PROVE  log'[s][i].by # q
  BY Zenon DEF Fresh, Early
<1>3. ASSUME pc[q] \in Early \/ next[q] = Unread PROVE \A u \in Sessions : \A j \in DOMAIN log[u] : log[u][j].by # q
  BY <1>3, Zenon DEF Fresh, Early
<1>4. ASSUME q # p PROVE pc[q] \in Early \/ next[q] = Unread
  BY <1>1, <1>2, <1>4, Zenon DEF Others
<1>5. CASE Appends(p)
  <2>1. PICK kind \in Kinds, t \in 1..MaxSeq, r \in 0..MaxSeq : Put(p, kind, t, r)  BY <1>5 DEF Appends
  <2>2. Entry(p, kind, t, r).by = p  BY DEF Entry
  <2>3. q # p
    <3>1. pc'[p] \in Writing  BY <1>5 DEF Appends
    <3>2. pc'[p] \notin Early  BY <3>1, SMT DEF Early, Writing
    <3>3. next'[p] \in 1..MaxSeq  BY <2>1, SMT DEF Put, TypeOK
    <3>4. next'[p] # Unread  BY <3>3, SMT DEF Unread
    <3>. QED  BY <1>2, <3>2, <3>4
  <2>4. CASE s # open[p]
    <3>1. log'[s] = log[s]  BY <2>1, <2>4, Zenon DEF Put
    <3>. QED  BY <3>1, <1>2, <1>3, <1>4, <2>3
  <2>5. CASE s = open[p]
    <3>1. (i \in DOMAIN log[s] /\ log'[s][i] = log[s][i]) \/ log'[s][i] = Entry(p, kind, t, r)
      BY <2>1, <2>5, Zenon DEF Put, Grown
    <3>. QED  BY <3>1, <2>2, <2>3, <1>3, <1>4, Zenon
  <2>. QED  BY <2>4, <2>5
<1>6. CASE Silent(p)
  <2>1. pc[q] \in Early \/ next[q] = Unread  BY <1>2, <1>4, <1>6, Zenon DEF Silent
  <2>. QED  BY <2>1, <1>3, <1>6, Zenon DEF Silent
<1>7. CASE OpenSession(p)
  <2>1. pc[p] \in Early /\ log' = log  BY <1>7 DEF OpenSession, Early, disk, files
  <2>2. pc[q] \in Early \/ next[q] = Unread  BY <1>4, <2>1
  <2>. QED  BY <2>1, <2>2, <1>3, Zenon
<1>8. CASE SaveOutput(p)
  <2>1. pc[q] \in Early \/ next[q] = Unread
    <3>1. pc'[p] \notin Early /\ next' = next  BY <1>8, SMT DEF SaveOutput, own, Early, TypeOK
    <3>. QED  BY <3>1, <1>2, <1>4
  <2>. QED  BY <2>1, <1>3, <1>8, Zenon DEF SaveOutput
<1>9. CASE Crash(p)
  <2>1. log' = log /\ pc'[p] = "dead" /\ next'[p] = 0  BY <1>9, SMT DEF Crash, disk, files, TypeOK
  <2>2. q # p  BY <2>1, <1>2, SMT DEF Early, Unread
  <2>. QED  BY <2>1, <2>2, <1>3, <1>4, Zenon
<1>10. ASSUME NEW u \in Sessions, Delete(p, u) PROVE log'[s][i].by # q
  <2>1. UNCHANGED <<pc, next>> /\ log' = [log EXCEPT ![u] = <<>>]  BY <1>10 DEF Delete
  <2>2. s # u
    <3>1. s = u => log'[s] = <<>>  BY <2>1, Zenon DEF TypeOK
    <3>. QED  BY <3>1, SMT
  <2>3. log'[s] = log[s]  BY <2>1, <2>2, Zenon DEF TypeOK
  <2>. QED  BY <2>1, <2>3, <1>2, <1>3, Zenon
<1>. QED  BY <1>5, <1>6, <1>7, <1>8, <1>9, <1>10, Steps, Zenon

(* The number an append takes is past every event it may be compared with. *)
LEMMA StampIsPast ==
  ASSUME TypeOK, Placed, Fresh, CountedPast, Numbered, NEW p \in Procs, pc[p] \in Writing,
         Stamp(p, open[p]) \in 1..MaxSeq,
         NEW i \in DOMAIN log[open[p]], log[open[p]][i].by = p \/ ~shared[open[p]]
  PROVE  log[open[p]][i].seq < Stamp(p, open[p])
<1>. USE StoreAssumption DEF Bounds
<1>. DEFINE s == open[p]
            L == log[s]
<1>1. s \in Sessions /\ L \in Seq(Events)  BY DEF Placed, Opened, TypeOK
<1>2. Len(L) \in Nat /\ DOMAIN L = 1..Len(L)  BY <1>1, LenProperties, Zenon
<1>3. \A j \in DOMAIN L : L[j] \in Events  BY <1>1, NumberType, Zenon
<1>4. CASE next[p] # Unread
  <2>1. L[i].seq <= next[p]  BY <1>4, Zenon DEF CountedPast
  <2>2. L[i].seq \in Int /\ next[p] \in Int  BY <1>3, SMT DEF Events, TypeOK
  <2>. QED  BY <1>4, <2>1, <2>2, SMT DEF Stamp
<1>5. CASE next[p] = Unread
  <2>1. L[i].by # p  BY <1>1, <1>5, Zenon DEF Fresh
  <2>2. Len(L) \in DOMAIN L /\ i <= Len(L) /\ L # <<>>  BY <1>2, SMT
  <2>3. L[i].seq \in Int /\ Last(L).seq \in Int  BY <1>3, <2>2, SMT DEF Events, Last
  <2>4. i < Len(L) => L[i].seq < Last(L).seq
    <3>1. ASSUME i < Len(L) PROVE L[i].seq < L[Len(L)].seq
      BY <1>1, <2>1, <2>2, <3>1, Zenon DEF Numbered
    <3>. QED  BY <3>1 DEF Last
  <2>5. L[i].seq <= Last(L).seq
    <3>1. CASE i = Len(L)  BY <3>1, <2>3, SMT DEF Last
    <3>2. CASE i < Len(L)  BY <3>2, <2>3, <2>4, SMT
    <3>. QED  BY <3>1, <3>2, <2>2, <1>2, SMT
  <2>6. Stamp(p, s) = Last(L).seq + 1  BY <1>5, <2>2, SMT DEF Stamp, LastSeq
  <2>. QED  BY <2>3, <2>5, <2>6, SMT
<1>. QED  BY <1>4, <1>5

LEMMA CountedKept ==
  ASSUME TypeOK, Placed, Alone, Alone', \A s \in Sessions : shared[s] => shared'[s],
         Fresh, CountedPast, Numbered, NEW p \in Procs, Step(p)
  PROVE  CountedPast'
<1>. USE StoreAssumption DEF Bounds
<1>1. Others(p)  BY OthersStay
<1>2. SUFFICES ASSUME NEW q \in Procs, pc'[q] \in Writing, NEW i \in DOMAIN log'[open'[q]],
                      log'[open'[q]][i].by = q \/ ~shared'[open'[q]]
               PROVE  /\ log'[open'[q]][i].turn <= turn'[q] /\ log'[open'[q]][i].ref <= ref'[q]
                      /\ next'[q] # Unread => log'[open'[q]][i].seq <= next'[q]
  BY Zenon DEF CountedPast
<1>. DEFINE Counts(e) == e.turn <= turn'[q] /\ e.ref <= ref'[q] /\ (next'[q] # Unread => e.seq <= next'[q])
<1>3. ASSUME pc[q] \in Writing, open'[q] = open[q], turn'[q] = turn[q], ref'[q] = ref[q], next'[q] = next[q],
             i \in DOMAIN log[open[q]], log'[open[q]][i] = log[open[q]][i]
      PROVE  Counts(log'[open'[q]][i])
  <2>1. open[q] \in Sessions  BY <1>3 DEF Placed, Opened
  <2>2. log[open[q]][i].by = q \/ ~shared[open[q]]  BY <1>2, <1>3, <2>1, Zenon
  <2>. QED  BY <1>3, <2>2, Zenon DEF CountedPast
<1>4. ASSUME pc[q] \in Writing, open'[q] = open[q], turn'[q] = turn[q], ref'[q] = ref[q], next'[q] = next[q], log' = log
      PROVE  Counts(log'[open'[q]][i])
  BY <1>2, <1>3, <1>4
<1>5. CASE Appends(p)
  <2>1. PICK kind \in Kinds, t \in 1..MaxSeq, r \in 0..MaxSeq :
           Put(p, kind, t, r) /\ t = turn'[p] /\ turn[p] <= t /\ r <= ref'[p] /\ ref[p] <= ref'[p]
    BY <1>5, Zenon DEF Appends
  <2>2. UNCHANGED <<open, shared>> /\ pc[p] \in Writing  BY <1>5, <2>1 DEF Put, history, Appends
  <2>3. open[p] \in Sessions  BY <2>2 DEF Placed, Opened
  <2>4. CASE q # p
    <3>1. pc[q] \in Writing /\ turn'[q] = turn[q] /\ ref'[q] = ref[q] /\ next'[q] = next[q] /\ open'[q] = open[q]
      BY <1>1, <1>2, <2>4, Zenon DEF Others
    <3>2. CASE open[q] # open[p]
      <4>1. open[q] \in Sessions  BY <3>1 DEF Placed, Opened
      <4>2. log'[open[q]] = log[open[q]]  BY <2>1, <3>2, <4>1, Zenon DEF Put
      <4>. QED  BY <1>2, <1>3, <3>1, <4>2
    <3>3. CASE open[q] = open[p]
      <4>1. shared[open[q]]  BY <2>2, <2>4, <3>1, <3>3 DEF Alone, Opened
      <4>2. log'[open[q]][i].by = q  BY <1>2, <2>2, <4>1
      <4>3. log'[open[q]][i] # Entry(p, kind, t, r)  BY <2>4, <4>2 DEF Entry
      <4>4. i \in DOMAIN log[open[q]] /\ log'[open[q]][i] = log[open[q]][i]
        BY <1>2, <2>1, <2>2, <3>3, <4>3, Zenon DEF Put, Grown
      <4>. QED  BY <1>3, <3>1, <4>4
    <3>. QED  BY <3>2, <3>3
  <2>5. CASE q = p
    <3>. DEFINE s == open[p]
                n == Stamp(p, s)
    <3>1. next'[p] = n /\ n \in 1..MaxSeq  BY <2>1, Zenon DEF Put, TypeOK
    <3>2. i \in DOMAIN log'[s] /\ (log'[s][i].by = p \/ ~shared[s])  BY <1>2, <2>2, <2>5
    <3>3. CASE i \in DOMAIN log[s] /\ log'[s][i] = log[s][i]
      <4>. DEFINE e == log[s][i]
      <4>1. e \in Events  BY <2>3, <3>3, NumberType, Zenon DEF TypeOK
      <4>2. e.by = p \/ ~shared[s]  BY <3>2, <3>3, Zenon
      <4>3. e.turn <= turn[p] /\ e.ref <= ref[p]  BY <2>2, <3>3, <4>2, Zenon DEF CountedPast
      <4>4. e.seq < n  BY <2>2, <3>1, <3>3, <4>2, StampIsPast, Zenon
      <4>5. e.turn \in Int /\ e.ref \in Int /\ e.seq \in Int /\ turn[p] \in Int /\ ref[p] \in Int /\ n \in Int
        <5>1. turn[p] \in 0..MaxSeq /\ ref[p] \in 0..MaxSeq  BY DEF TypeOK
        <5>. HIDE DEF e, n
        <5>. QED  BY <4>1, <3>1, <5>1, SMT DEF Events
      <4>6. turn'[p] \in Int /\ ref'[p] \in Int
        <5>1. TypeOK'  BY <2>1, TypeKept DEF Next
        <5>2. turn'[p] \in 0..MaxSeq /\ ref'[p] \in 0..MaxSeq  BY <5>1, Zenon DEF TypeOK
        <5>. QED  BY <5>2
      <4>7. Counts(e)  BY <2>1, <2>5, <3>1, <4>3, <4>4, <4>5, <4>6, SMT
      <4>. QED  BY <2>2, <2>5, <3>3, <4>7, Zenon
    <3>4. CASE log'[s][i] = Entry(p, kind, t, r)
      <4>1. Entry(p, kind, t, r).turn = t /\ Entry(p, kind, t, r).ref = r /\ Entry(p, kind, t, r).seq = n
        BY DEF Entry
      <4>2. Counts(Entry(p, kind, t, r))  BY <2>1, <2>5, <3>1, <4>1, SMT
      <4>. QED  BY <2>2, <2>5, <3>4, <4>2, Zenon
    <3>. QED  BY <3>2, <3>3, <3>4, <2>1, Zenon DEF Put, Grown
  <2>. QED  BY <2>4, <2>5
<1>6. CASE Silent(p)
  <2>1. pc[q] \in Writing /\ open'[q] = open[q]  BY <1>1, <1>2, <1>6, Zenon DEF Silent, Others
  <2>. QED  BY <1>4, <1>6, <2>1 DEF Silent
<1>7. CASE OpenSession(p)
  <2>1. log' = log /\ open' = open  BY <1>7 DEF OpenSession, disk, files
  <2>2. CASE q = p
    <3>. DEFINE s == open[p]
    <3>1. s \in Sessions  BY <1>7 DEF OpenSession, Placed, Opened
    <3>2. turn'[p] = LastTurn(log[s]) /\ ref'[p] = LastRef(log[s]) /\ next'[p] = Unread
      BY <1>7, Zenon DEF OpenSession, TypeOK
    <3>3. \A j \in DOMAIN log[s] : log[s][j].ref <= LastRef(log[s]) /\ log[s][j].turn <= LastTurn(log[s])
      BY <3>1, NumberType, Zenon DEF TypeOK
    <3>. QED  BY <1>2, <2>1, <2>2, <3>2, <3>3, Zenon
  <2>3. CASE q # p
    <3>1. pc[q] \in Writing /\ turn'[q] = turn[q] /\ ref'[q] = ref[q] /\ next'[q] = next[q] /\ open'[q] = open[q]
      BY <1>1, <1>2, <2>3, Zenon DEF Others
    <3>. QED  BY <3>1, <2>1, <1>4
  <2>. QED  BY <2>2, <2>3
<1>8. CASE SaveOutput(p)
  <2>1. UNCHANGED <<log, open, turn, ref, next>> /\ pc[p] \in Writing  BY <1>8 DEF SaveOutput, own, Writing
  <2>2. pc[q] \in Writing  BY <1>1, <1>2, <2>1, Zenon DEF Others
  <2>. QED  BY <2>1, <2>2, <1>4
<1>9. CASE Crash(p)
  <2>1. log' = log /\ pc'[p] = "dead"  BY <1>9, SMT DEF Crash, disk, files, TypeOK
  <2>2. q # p  BY <2>1, <1>2, SMT DEF Writing
  <2>3. pc[q] \in Writing /\ turn'[q] = turn[q] /\ ref'[q] = ref[q] /\ next'[q] = next[q] /\ open'[q] = open[q]
    BY <1>1, <1>2, <2>2, Zenon DEF Others
  <2>. QED  BY <2>1, <2>3, <1>4
<1>10. ASSUME NEW u \in Sessions, Delete(p, u) PROVE Counts(log'[open'[q]][i])
  <2>1. UNCHANGED <<pc, open, turn, ref, next>> /\ log' = [log EXCEPT ![u] = <<>>]  BY <1>10 DEF Delete
  <2>2. open[q] \in Sessions /\ pc[q] \in Writing  BY <1>2, <2>1 DEF Placed, Opened
  <2>3. open[q] # u
    <3>1. log'[u] = <<>>  BY <2>1, Zenon DEF TypeOK
    <3>. QED  BY <3>1, <1>2, <2>1, SMT
  <2>4. log'[open[q]] = log[open[q]]  BY <2>1, <2>2, <2>3, ZenonT(30) DEF TypeOK
  <2>. QED  BY <1>2, <1>3, <2>1, <2>2, <2>4
<1>. QED  BY <1>5, <1>6, <1>7, <1>8, <1>9, <1>10, Steps, Zenon

LEMMA NumberedKept ==
  ASSUME TypeOK, Placed, \A s \in Sessions : shared[s] => shared'[s],
         Fresh, CountedPast, Numbered, NEW p \in Procs, Step(p)
  PROVE  Numbered'
<1>. USE StoreAssumption DEF Bounds
<1>. DEFINE InRow(a, b) == /\ a.seq < b.seq /\ a.turn <= b.turn
                           /\ ~(a.kind = "call" /\ b.kind = "call" /\ a.ref = b.ref)
                           /\ ~(a.kind = "user" /\ b.kind = "user" /\ a.turn = b.turn)
<1>1. SUFFICES ASSUME NEW s \in Sessions, NEW i \in DOMAIN log'[s], NEW j \in DOMAIN log'[s], i < j,
                      log'[s][i].by = log'[s][j].by \/ ~shared'[s]
               PROVE  InRow(log'[s][i], log'[s][j])
  BY SMT DEF Numbered
<1>2. ASSUME i \in DOMAIN log[s], log'[s][i] = log[s][i], j \in DOMAIN log[s], log'[s][j] = log[s][j]
      PROVE  InRow(log'[s][i], log'[s][j])
  <2>1. log[s][i].by = log[s][j].by \/ ~shared[s]  BY <1>1, <1>2, Zenon
  <2>. QED  BY <1>1, <1>2, <2>1, Zenon DEF Numbered
<1>3. CASE log' = log
  BY <1>1, <1>2, <1>3
<1>4. CASE Appends(p)
  <2>1. PICK kind \in Kinds, t \in 1..MaxSeq, r \in 0..MaxSeq :
           /\ Put(p, kind, t, r) /\ turn[p] <= t
           /\ (kind = "user" => turn[p] < t) /\ (kind = "call" => ref[p] < r)
    BY <1>4, Zenon DEF Appends
  <2>2. UNCHANGED <<open, shared>> /\ pc[p] \in Writing  BY <1>4, <2>1 DEF Put, history, Appends
  <2>3. CASE s # open[p]
    <3>1. log'[s] = log[s]  BY <2>1, <2>3, Zenon DEF Put
    <3>. QED  BY <3>1, <1>1, <1>2
  <2>4. CASE s = open[p]
    <3>. DEFINE L == log[s]
                M == log'[s]
                e == Entry(p, kind, t, r)
    <3>1. L \in Seq(Events) /\ M \in Seq(Events)  BY <2>1, ZenonT(30) DEF Put, TypeOK
    <3>2. Len(L) \in Nat /\ DOMAIN L = 1..Len(L) /\ Len(M) \in Nat /\ DOMAIN M = 1..Len(M)
      BY <3>1, LenProperties, Zenon
    <3>3. \A k \in DOMAIN M : (k \in DOMAIN L /\ M[k] = L[k]) \/ (k = Len(L) + 1 /\ M[k] = e)
      BY <2>1, <2>4, Zenon DEF Put, Grown
    <3>4. i \in DOMAIN M /\ j \in DOMAIN M /\ i < j /\ i \in Int /\ j \in Int  BY <1>1, <3>2, SMT
    <3>5. i \in DOMAIN L /\ M[i] = L[i]
      <4>1. CASE i = Len(L) + 1
        <5>. HIDE DEF L, M
        <5>. QED  BY <3>2, <3>3, <3>4, <4>1, SMT
      <4>. QED  BY <4>1, <3>3, <3>4
    <3>6. CASE j \in DOMAIN L /\ M[j] = L[j]
      BY <3>5, <3>6, <1>2
    <3>7. CASE M[j] = e
      <4>. DEFINE a == L[i]
      <4>1. a \in Events  BY <3>1, <3>5, NumberType, Zenon
      <4>2. a.by = p \/ ~shared[s]
        <5>1. e.by = p  BY DEF Entry
        <5>. QED  BY <5>1, <1>1, <2>2, <3>5, <3>7, Zenon
      <4>3. Stamp(p, s) \in 1..MaxSeq  BY <2>1, <2>4 DEF Put
      <4>4. a.seq < Stamp(p, s)  BY <2>2, <2>4, <3>5, <4>2, <4>3, StampIsPast, Zenon
      <4>5. a.turn <= turn[p] /\ a.ref <= ref[p]  BY <2>2, <2>4, <3>5, <4>2, Zenon DEF CountedPast
      <4>6. turn[p] \in 0..MaxSeq /\ ref[p] \in 0..MaxSeq  BY DEF TypeOK
      <4>7. e.seq = Stamp(p, s) /\ e.turn = t /\ e.kind = kind /\ e.ref = r  BY <2>4 DEF Entry
      <4>8. a.turn \in Int /\ a.ref \in Int  BY <4>1, SMT DEF Events
      <4>9. InRow(a, e)
        <5>. HIDE DEF a, e
        <5>. QED  BY <2>1, <4>4, <4>5, <4>6, <4>7, <4>8, SMT
      <4>. QED  BY <3>5, <3>7, <4>9
    <3>. QED  BY <3>3, <3>4, <3>6, <3>7
  <2>. QED  BY <2>3, <2>4
<1>5. ASSUME NEW u \in Sessions, Delete(p, u) PROVE InRow(log'[s][i], log'[s][j])
  <2>1. log' = [log EXCEPT ![u] = <<>>]  BY <1>5 DEF Delete
  <2>2. s # u
    <3>1. s = u => log'[s] = <<>>  BY <2>1, Zenon DEF TypeOK
    <3>. QED  BY <3>1, <1>1, SMT
  <2>3. log'[s] = log[s]  BY <2>1, <2>2, Zenon DEF TypeOK
  <2>. QED  BY <1>1, <1>2, <2>3
<1>6. Silent(p) \/ OpenSession(p) \/ SaveOutput(p) \/ Crash(p) => log' = log
  BY DEF Silent, OpenSession, SaveOutput, Crash, disk, files
<1>. QED  BY <1>3, <1>4, <1>5, <1>6, Steps, Zenon

LEMMA OutputsKept ==
  ASSUME TypeOK, Placed, Alone, Alone', \A s \in Sessions : shared[s] => shared'[s],
         CountedPast, ResultsRefer, OutputNext, OutputsOwn, NEW p \in Procs, Step(p)
  PROVE  OutputNext' /\ OutputsOwn'
<1>. USE StoreAssumption DEF Bounds
<1>. DEFINE Mid == {"called", "saved", "unsaved"}
            Sound(s, M, O) == \A i \in DOMAIN M : M[i].kind = "result" => O[M[i].ref] \in {M[i].by, None}
            Spare(M, r) == \A i \in DOMAIN M : M[i].kind = "result" => M[i].ref # r
            NextOf(q) == /\ ref'[q] \in Refs
                         /\ ~shared'[open'[q]] =>
                              /\ pc'[q] = "called" => Spare(log'[open'[q]], ref'[q])
                              /\ pc'[q] = "saved" => outs'[open'[q]][ref'[q]] \in {q, None}
<1>1. Others(p)  BY OthersStay
<1>2. ASSUME NEW q \in Procs, pc[q] \in Mid, pc'[q] = pc[q], open'[q] = open[q], ref'[q] = ref[q],
             ~shared[open[q]] => log'[open[q]] = log[open[q]] /\ outs'[open[q]] = outs[open[q]]
      PROVE  NextOf(q)
  <2>1. open[q] \in Sessions  BY <1>2, SMT DEF Placed, Opened, Writing
  <2>. QED  BY <1>2, <2>1, ZenonT(30) DEF OutputNext
<1>3. ASSUME UNCHANGED <<log, outs>> PROVE OutputsOwn'
  BY <1>3, Zenon DEF OutputsOwn
<1>4. ASSUME NEW q \in Procs, q # p, pc'[q] \in Mid
      PROVE  pc[q] \in Mid /\ pc[q] = pc'[q] /\ open'[q] = open[q] /\ ref'[q] = ref[q]
  BY <1>1, <1>4, Zenon DEF Others
<1>5. ASSUME UNCHANGED <<log, outs>>, pc'[p] \notin Mid PROVE OutputNext' /\ OutputsOwn'
  <2>1. ASSUME NEW q \in Procs, pc'[q] \in Mid PROVE NextOf(q)
    BY <1>2, <1>4, <1>5, <2>1
  <2>. QED  BY <2>1, <1>3, <1>5, Zenon DEF OutputNext
<1>6. CASE Appends(p)
  <2>1. PICK kind \in Kinds, t \in 1..MaxSeq, r \in 0..MaxSeq :
           /\ Put(p, kind, t, r)
           /\ kind = "result" => pc[p] = "saved" /\ r = ref[p]
           /\ pc'[p] \in Mid => pc'[p] = "called" /\ kind = "call" /\ ref[p] < ref'[p]
    BY <1>6, Zenon DEF Appends
  <2>2. UNCHANGED <<open, shared, outs>> /\ pc[p] \in Writing  BY <1>6, <2>1 DEF Put, history, Appends
  <2>. DEFINE s == open[p]
              e == Entry(p, kind, t, r)
  <2>3. s \in Sessions  BY <2>2 DEF Placed, Opened
  <2>4. \A i \in DOMAIN log'[s] : (i \in DOMAIN log[s] /\ log'[s][i] = log[s][i]) \/ log'[s][i] = e
    BY <2>1, Zenon DEF Put, Grown
  <2>5. e.kind = kind /\ e.by = p /\ e.ref = r  BY DEF Entry
  <2>6. OutputsOwn'
    <3>1. ASSUME ~shared[s], NEW i \in DOMAIN log'[s], log'[s][i].kind = "result"
          PROVE  outs[s][log'[s][i].ref] \in {log'[s][i].by, None}
      <4>1. CASE i \in DOMAIN log[s] /\ log'[s][i] = log[s][i]
        BY <2>3, <3>1, <4>1, Zenon DEF OutputsOwn
      <4>2. CASE log'[s][i] = e
        <5>1. pc[p] = "saved" /\ r = ref[p]  BY <2>1, <2>5, <3>1, <4>2, Zenon
        <5>2. outs[s][ref[p]] \in {p, None}  BY <3>1, <5>1, Zenon DEF OutputNext
        <5>. QED  BY <2>5, <4>2, <5>1, <5>2, Zenon
      <4>. QED  BY <4>1, <4>2, <2>4, <3>1
    <3>2. ASSUME NEW u \in Sessions, u # s PROVE log'[u] = log[u]  BY <2>1, <3>2, Zenon DEF Put
    <3>3. ASSUME NEW u \in Sessions, ~shared[u], NEW i \in DOMAIN log'[u], log'[u][i].kind = "result"
          PROVE  outs[u][log'[u][i].ref] \in {log'[u][i].by, None}
      <4>1. CASE u = s  BY <3>1, <3>3, <4>1
      <4>2. CASE u # s  BY <3>2, <3>3, <4>2, Zenon DEF OutputsOwn
      <4>. QED  BY <4>1, <4>2
    <3>. QED  BY <2>2, <3>3, Zenon DEF OutputsOwn
  <2>7. ASSUME NEW q \in Procs, pc'[q] \in Mid PROVE NextOf(q)
    <3>1. CASE q # p
      <4>1. pc[q] \in Mid /\ pc[q] = pc'[q] /\ open'[q] = open[q] /\ ref'[q] = ref[q]  BY <1>4, <2>7, <3>1
      <4>2. pc[q] \in Opened /\ open[q] \in Sessions  BY <4>1, SMT DEF Opened, Writing, Placed
      <4>3. ~shared[open[q]] => open[q] # s  BY <2>2, <3>1, <4>2 DEF Alone, Opened
      <4>4. ~shared[open[q]] => log'[open[q]] = log[open[q]]  BY <2>1, <4>2, <4>3, Zenon DEF Put
      <4>. QED  BY <1>2, <2>2, <4>1, <4>4
    <3>2. CASE q = p
      <4>1. pc'[p] = "called" /\ kind = "call" /\ ref[p] < ref'[p]  BY <2>1, <2>7, <3>2
      <4>2. ref[p] \in 0..MaxSeq /\ ref'[p] \in 0..MaxSeq
        <5>1. TypeOK'  BY TypeKept DEF Next
        <5>. QED  BY <5>1 DEF TypeOK
      <4>3. ref'[p] \in Refs  BY <4>1, <4>2, SMT DEF Refs
      <4>4. ASSUME ~shared[s], NEW i \in DOMAIN log'[s], log'[s][i].kind = "result" PROVE log'[s][i].ref # ref'[p]
        <5>1. log'[s][i] # e  BY <2>5, <4>1, <4>4
        <5>2. i \in DOMAIN log[s] /\ log'[s][i] = log[s][i]  BY <2>4, <4>4, <5>1
        <5>3. log[s][i].ref <= ref[p]  BY <2>2, <4>4, <5>2, Zenon DEF CountedPast
        <5>4. log[s][i] \in Events  BY <2>3, <5>2, NumberType, Zenon DEF TypeOK
        <5>5. log[s][i].ref \in Int  BY <5>4, SMT DEF Events
        <5>6. log[s][i].ref # ref'[p]
          <6>. DEFINE x == log[s][i].ref
          <6>. HIDE DEF x
          <6>. QED  BY <4>1, <4>2, <5>3, <5>5, SMT DEF x
        <5>. QED  BY <5>2, <5>6
      <4>5. "called" # "saved"  OBVIOUS
      <4>. QED  BY <2>2, <3>2, <4>1, <4>3, <4>4, <4>5, Zenon
    <3>. QED  BY <3>1, <3>2
  <2>. QED  BY <2>6, <2>7, Zenon DEF OutputNext
<1>7. CASE Silent(p)
  BY <1>5, <1>7, Zenon DEF Silent
<1>8. CASE OpenSession(p)
  <2>1. UNCHANGED <<log, outs>> /\ pc'[p] = "idle"  BY <1>8, SMT DEF OpenSession, disk, files, TypeOK
  <2>. QED  BY <1>5, <2>1
<1>9. CASE Crash(p)
  <2>1. UNCHANGED <<log, outs>> /\ pc'[p] = "dead"  BY <1>9, SMT DEF Crash, disk, files, TypeOK
  <2>. QED  BY <1>5, <2>1
<1>10. CASE SaveOutput(p)
  <2>. DEFINE s == open[p]
              r == ref[p]
  <2>1. pc[p] = "called" /\ UNCHANGED <<log, open, ref, shared>>  BY <1>10 DEF SaveOutput, own, history
  <2>2. s \in Sessions /\ r \in Refs  BY <2>1 DEF Placed, Opened, Writing, OutputNext
  <2>3. \/ pc'[p] = "saved" /\ outs' = [outs EXCEPT ![s][r] = p]
        \/ pc'[p] = "unsaved" /\ outs' = outs
    BY <1>10, Zenon DEF SaveOutput, Stored, TypeOK
  <2>4. \A u \in Sessions : u # s => outs'[u] = outs[u]  BY <2>3, Zenon DEF TypeOK
  <2>5. \A x \in Refs : x # r => outs'[s][x] = outs[s][x]  BY <2>2, <2>3, SMT DEF TypeOK
  <2>7. \A i \in DOMAIN log[s] : log[s][i].kind = "result" => log[s][i].ref \in Refs  BY <2>2 DEF ResultsRefer
  <2>6. pc'[p] = "saved" => outs'[s][r] = p  BY <2>2, <2>3, SMT DEF TypeOK
  <2>8. ASSUME NEW u \in Sessions, ~shared[u], NEW i \in DOMAIN log[u], log[u][i].kind = "result"
        PROVE  outs'[u][log[u][i].ref] \in {log[u][i].by, None}
    <3>1. CASE u # s  BY <2>4, <2>8, <3>1, Zenon DEF OutputsOwn
    <3>2. CASE u = s
      <4>1. log[s][i].ref # r  BY <2>1, <2>8, <3>2, Zenon DEF OutputNext
      <4>2. outs'[s][log[s][i].ref] = outs[s][log[s][i].ref]  BY <2>5, <2>7, <2>8, <3>2, <4>1
      <4>. QED  BY <2>8, <3>2, <4>2, Zenon DEF OutputsOwn
    <3>. QED  BY <3>1, <3>2
  <2>9. OutputsOwn'  BY <2>1, <2>8, Zenon DEF OutputsOwn
  <2>10. ASSUME NEW q \in Procs, pc'[q] \in Mid PROVE NextOf(q)
    <3>1. CASE q # p
      <4>1. pc[q] \in Mid /\ pc[q] = pc'[q] /\ open'[q] = open[q] /\ ref'[q] = ref[q]  BY <1>4, <2>10, <3>1
      <4>2. pc[q] \in Opened /\ open[q] \in Sessions  BY <4>1, SMT DEF Opened, Writing, Placed
      <4>3. pc[p] \in Opened  BY <2>1 DEF Opened, Writing
      <4>4. ~shared[open[q]] => open[q] # s  BY <3>1, <4>2, <4>3 DEF Alone
      <4>5. ~shared[open[q]] => outs'[open[q]] = outs[open[q]]  BY <2>4, <4>2, <4>4
      <4>. QED  BY <1>2, <2>1, <4>1, <4>5
    <3>2. CASE q = p
      <4>1. pc'[p] # "called"  BY <2>3
      <4>. QED  BY <2>1, <2>2, <2>6, <3>2, <4>1, Zenon
    <3>. QED  BY <3>1, <3>2
  <2>. QED  BY <2>9, <2>10, Zenon DEF OutputNext
<1>11. ASSUME NEW u \in Sessions, Delete(p, u) PROVE OutputNext' /\ OutputsOwn'
  <2>1. /\ UNCHANGED <<pc, open, ref, shared>> /\ log' = [log EXCEPT ![u] = <<>>]
        /\ outs' = [outs EXCEPT ![u] = [r \in Refs |-> None]]
    BY <1>11 DEF Delete, history
  <2>2. log'[u] = <<>> /\ \A r \in Refs : outs'[u][r] = None  BY <2>1, Zenon DEF TypeOK
  <2>3. \A s \in Sessions : s # u => log'[s] = log[s] /\ outs'[s] = outs[s]  BY <2>1, Zenon DEF TypeOK
  <2>4. DOMAIN log'[u] = {}  BY <2>2, SMT
  <2>5. OutputsOwn'
    <3>1. ASSUME NEW s \in Sessions, ~shared[s], NEW i \in DOMAIN log'[s], log'[s][i].kind = "result"
          PROVE  outs'[s][log'[s][i].ref] \in {log'[s][i].by, None}
      <4>1. s # u  BY <2>4, <3>1
      <4>. QED  BY <2>3, <3>1, <4>1, Zenon DEF OutputsOwn
    <3>. QED  BY <2>1, <3>1, Zenon DEF OutputsOwn
  <2>6. ASSUME NEW q \in Procs, pc'[q] \in Mid PROVE NextOf(q)
    <3>1. pc[q] \in Mid /\ pc'[q] = pc[q] /\ open'[q] = open[q] /\ ref'[q] = ref[q]  BY <2>1, <2>6
    <3>2. open[q] \in Sessions /\ ref[q] \in Refs  BY <3>1, SMT DEF Placed, Opened, Writing, OutputNext
    <3>3. CASE open[q] # u  BY <1>2, <2>3, <3>1, <3>2, <3>3
    <3>4. CASE open[q] = u  BY <2>2, <2>4, <3>1, <3>2, <3>4, Zenon
    <3>. QED  BY <3>3, <3>4
  <2>. QED  BY <2>5, <2>6, Zenon DEF OutputNext
<1>. QED  BY <1>6, <1>7, <1>8, <1>9, <1>10, <1>11, Steps, Zenon

LEMMA ReferKept ==
  ASSUME TypeOK, Placed, ResultsRefer, OutputNext, NEW p \in Procs, Step(p)
  PROVE  ResultsRefer'
<1>1. SUFFICES ASSUME NEW s \in Sessions, NEW i \in DOMAIN log'[s], log'[s][i].kind = "result"
               PROVE  log'[s][i].ref \in Refs
  BY Zenon DEF ResultsRefer, Refs
<1>2. ASSUME i \in DOMAIN log[s], log'[s][i] = log[s][i] PROVE log'[s][i].ref \in Refs
  BY <1>1, <1>2, Zenon DEF ResultsRefer
<1>3. CASE Appends(p)
  <2>1. PICK kind \in Kinds, t \in 1..MaxSeq, r \in 0..MaxSeq :
           Put(p, kind, t, r) /\ (kind = "result" => pc[p] = "saved" /\ r = ref[p])
    BY <1>3, Zenon DEF Appends
  <2>2. Entry(p, kind, t, r).kind = "result" => Entry(p, kind, t, r).ref \in Refs
    BY <2>1, SMT DEF Entry, OutputNext
  <2>3. s # open[p] => log'[s] = log[s]  BY <2>1, Zenon DEF Put
  <2>4. s = open[p] => (i \in DOMAIN log[s] /\ log'[s][i] = log[s][i]) \/ log'[s][i] = Entry(p, kind, t, r)
    BY <2>1, Zenon DEF Put, Grown
  <2>. QED  BY <1>1, <1>2, <2>2, <2>3, <2>4
<1>4. ASSUME NEW u \in Sessions, Delete(p, u) PROVE log'[s][i].ref \in Refs
  <2>1. log' = [log EXCEPT ![u] = <<>>]  BY <1>4 DEF Delete
  <2>2. s # u
    <3>1. s = u => log'[s] = <<>>  BY <2>1, Zenon DEF TypeOK
    <3>. QED  BY <3>1, <1>1, SMT
  <2>3. log'[s] = log[s]  BY <2>1, <2>2, Zenon DEF TypeOK
  <2>. QED  BY <1>1, <1>2, <2>3
<1>5. Silent(p) \/ OpenSession(p) \/ SaveOutput(p) \/ Crash(p) => log' = log
  BY DEF Silent, OpenSession, SaveOutput, Crash, disk, files
<1>. QED  BY <1>1, <1>2, <1>3, <1>4, <1>5, Steps, Zenon

LEMMA LogInit ==
  ASSUME Init
  PROVE  Fresh /\ CountedPast /\ ResultsRefer /\ OutputNext /\ Numbered /\ OutputsOwn
<1>1. \A s \in Sessions : DOMAIN log[s] = {}  BY SMT DEF Init
<1>2. \A p \in Procs : pc[p] = "new"  BY DEF Init
<1>3. Fresh /\ ResultsRefer /\ Numbered /\ OutputsOwn
  BY <1>1, Zenon DEF Fresh, ResultsRefer, Numbered, OutputsOwn
<1>4. CountedPast /\ OutputNext  BY <1>2, SMT DEF CountedPast, OutputNext, Writing
<1>. QED  BY <1>3, <1>4

(* All that LogStands rests on. *)
Standing == Fresh /\ CountedPast /\ ResultsRefer /\ OutputNext /\ Numbered /\ OutputsOwn

LEMMA StandingKept ==
  ASSUME TypeOK, Placed, Alone, Standing, [Next]_vars
  PROVE  Standing'
<1>1. TypeOK' /\ Placed' /\ Alone' /\ \A s \in Sessions : shared[s] => shared'[s]
  BY TypeKept, AloneKept
<1>2. ASSUME NEW p \in Procs, Step(p) PROVE Standing'
  BY <1>1, <1>2, FreshKept, CountedKept, ReferKept, NumberedKept, OutputsKept DEF Standing
<1>3. ASSUME UNCHANGED <<log, outs, pc, open, next, ref, turn, shared>> PROVE Standing'
  <2>1. Fresh' /\ CountedPast'  BY <1>3, Zenon DEF Standing, Fresh, CountedPast
  <2>2. ResultsRefer' /\ OutputsOwn'  BY <1>3, Zenon DEF Standing, ResultsRefer, OutputsOwn, Refs
  <2>3. OutputNext'  BY <1>3, Zenon DEF Standing, OutputNext, Refs
  <2>4. Numbered'
    <3>1. log' = log /\ shared' = shared /\ Numbered  BY <1>3 DEF Standing
    <3>. QED  BY <3>1, SMT DEF Numbered
  <2>. QED  BY <2>1, <2>2, <2>3, <2>4 DEF Standing
<1>4. ASSUME NEW s \in Sessions, Lose(s) PROVE Standing'
  BY <1>3, <1>4 DEF Lose, disk, files, own, history
<1>5. CASE Tick \/ UNCHANGED vars
  <2>1. UNCHANGED <<log, outs, pc, open, next, ref, turn, shared>>
    BY <1>5 DEF Tick, vars, disk, files, own, history
  <2>. QED  BY <1>1, <1>3, <2>1
<1>. QED  BY <1>1, <1>2, <1>4, <1>5 DEF Next

(* A log stands, for every number of processes, sessions, events and faults:
   the counters a process read from the log, or counted up from there, are past
   whatever it may collide with, whatever was torn, lost or pruned meanwhile. *)
THEOREM LogsStand == Spec => []LogStands
<1>. DEFINE Inv == TypeOK /\ Placed /\ Alone /\ Standing
<1>1. Init => Inv  BY TypeInit, WholeInit, LogInit DEF Standing
<1>2. Inv /\ [Next]_vars => Inv'  BY TypeKept, AloneKept, StandingKept
<1>3. Inv => LogStands  BY DEF LogStands, Standing
<1>. QED  BY <1>1, <1>2, <1>3, PTL DEF Spec

-----------------------------------------------------------------------------
(* The recap: an answered turn is in the session's record. *)

(* What the log of the session at u, its record and the history say is left
   as it is. *)
Left(u) == log'[u] = log[u] /\ index'[u] = index[u] /\ tmp'[u] = tmp[u] /\ behind'[u] = behind[u]

LEMMA EmptyHas ==
  ASSUME NEW evs, evs = <<>>
  PROVE  ~Answered(evs) /\ \A kind, t : ~Has(evs, kind, t)
<1>1. DOMAIN evs = {}  BY SMT
<1>. QED  BY <1>1, Zenon DEF Answered, Has

(* Another process's session is touched only when it is pruned. *)
LEMMA Elsewhere ==
  ASSUME TypeOK, Placed, Alone, \A s \in Sessions : shared[s] => shared'[s],
         NEW p \in Procs, Step(p), NEW q \in Procs, q # p, pc[q] \in Opened, ~shared'[open[q]]
  PROVE  Left(open[q]) \/ Delete(p, open[q])
<1>. USE DEF disk, files, own, world, history
<1>. DEFINE Typed == /\ dir \in [Sessions -> BOOLEAN] /\ behind \in [Sessions -> BOOLEAN]
                     /\ index \in [Sessions -> Records \cup {None, Torn}] /\ tmp \in [Sessions -> Records \cup {None, Torn}]
                     /\ log \in [Sessions -> Seq(Events)] /\ pc \in [Procs -> {"new", "prune", "choose", "dead"} \cup Opened]
                     /\ open \in [Procs -> Sessions \cup {None}] /\ rec \in [Procs -> Records]
<1>0. Typed  BY DEF TypeOK
<1>. DEFINE u == open[q]
<1>1. u \in Sessions /\ ~shared[u]  BY DEF Placed
<1>2. pc[p] \in Opened => open[p] # u  BY <1>1 DEF Alone
<1>3. CASE Start(p) \/ Pruned(p) \/ OpenSession(p) \/ Crash(p) \/ \E s \in Sessions : Resolve(p, s)
  BY <1>3, Zenon DEF Start, Pruned, OpenSession, Crash, Resolve, Left
<1>4. CASE Rename(p)
  <2>1. open[p] # u  BY <1>2, <1>4 DEF Rename, Opened, Writing
  <2>2. UNCHANGED <<log, behind>>  BY <1>4 DEF Rename
  <2>3. index'[u] = index[u] /\ tmp'[u] = tmp[u]
    <3>1. \/ UNCHANGED <<index, tmp>>
          \/ index' = [index EXCEPT ![open[p]] = tmp[open[p]]] /\ tmp' = [tmp EXCEPT ![open[p]] = None]
      BY <1>4 DEF Rename
    <3>. QED  BY <1>0, <1>1, <2>1, <3>1, Zenon
  <2>. QED  BY <2>2, <2>3 DEF Left
<1>5. ASSUME NEW s \in Sessions, Delete(p, s) PROVE Left(u) \/ Delete(p, u)
  <2>1. /\ index' = [index EXCEPT ![s] = None] /\ tmp' = [tmp EXCEPT ![s] = None]
        /\ log' = [log EXCEPT ![s] = <<>>] /\ behind' = behind
    BY <1>5 DEF Delete
  <2>2. s # u => Left(u)  BY <1>0, <1>1, <2>1, Zenon DEF Left
  <2>. QED  BY <1>5, <2>2
<1>6. ASSUME NEW s, NEW r, NEW then, NEW x, Wrote(p, s, r, then, x), s # u PROVE Left(u)
  <2>1. UNCHANGED <<log, index>>  BY <1>6 DEF Wrote
  <2>2. \/ tmp' = [tmp EXCEPT ![s] = r] /\ UNCHANGED behind
        \/ tmp' = [tmp EXCEPT ![s] = Torn] /\ behind' = [behind EXCEPT ![s] = TRUE]
    BY <1>6, Zenon DEF Wrote
  <2>3. tmp'[u] = tmp[u] /\ behind'[u] = behind[u]  BY <1>0, <1>1, <1>6, <2>2, Zenon
  <2>. QED  BY <2>1, <2>3 DEF Left
<1>7. ASSUME NEW s \in Sessions, New(p, s) PROVE Left(u)
  <2>1. Wrote(p, s, Record(clock), "created", "dead")  BY <1>7, WriteWrote DEF New
  <2>2. s # u  BY <1>7, SMT DEF New, Users, Opened, Writing
  <2>. QED  BY <1>6, <2>1, <2>2
<1>8. CASE BumpTurn(p)
  <2>1. Wrote(p, open[p], Bumped(rec[p]), "rename", "ran")  BY <1>8, WriteWrote DEF BumpTurn
  <2>2. open[p] # u  BY <1>2, <1>8 DEF BumpTurn, Opened, Writing
  <2>. QED  BY <1>6, <2>1, <2>2
<1>9. CASE Save(p)
  <2>1. Wrote(p, open[p], rec[p], "rename", "ran")  BY <1>9, WriteWrote DEF Save
  <2>2. open[p] # u  BY <1>2, <1>9 DEF Save, Opened, Writing
  <2>. QED  BY <1>6, <2>1, <2>2
<1>10. CASE Appends(p)
  <2>1. PICK kind \in Kinds, t \in 1..MaxSeq, r \in 0..MaxSeq : Put(p, kind, t, r)  BY <1>10 DEF Appends
  <2>2. open[p] # u  BY <1>2, <1>10 DEF Appends, Opened
  <2>3. log'[u] = log[u]  BY <1>1, <2>1, <2>2, Zenon DEF Put
  <2>. QED  BY <2>1, <2>3 DEF Left, Put
<1>11. CASE SaveOutput(p)
  BY <1>11, Zenon DEF SaveOutput, Left
<1>12. CASE BeginTurn(p) \/ Call(p) \/ Result(p) \/ EndTurn(p)
  <2>1. pc[p] \in {"idle", "asked", "ran", "saved", "unsaved"}  BY <1>12 DEF BeginTurn, Call, Result, EndTurn
  <2>2. open[p] \in Sessions /\ open[p] # u  BY <1>2, <2>1 DEF Opened, Writing, Placed
  <2>3. \E kind, t, r : Put(p, kind, t, r)  BY <1>12, EntryPut, Zenon
  <2>4. log'[u] = log[u]  BY <1>1, <2>2, <2>3, Zenon DEF Put
  <2>. QED  BY <2>3, <2>4, Zenon DEF Left, Put
<1>. QED  BY <1>3, <1>4, <1>5, <1>7, <1>8, <1>9, <1>11, <1>12, Zenon DEF Step

(* An append's event. *)
LEMMA HasPut ==
  ASSUME NEW p, NEW kind, NEW t, NEW r, Put(p, kind, t, r)
  PROVE  \A k, v : Has(log'[open[p]], k, v) => Has(log[open[p]], k, v) \/ (k = kind /\ v = t)
<1>. DEFINE L == log[open[p]]
            M == log'[open[p]]
            e == Entry(p, kind, t, r)
<1>. SUFFICES ASSUME NEW k, NEW v, Has(M, k, v) PROVE Has(L, k, v) \/ (k = kind /\ v = t)
  OBVIOUS
<1>1. PICK i \in DOMAIN M : M[i].kind = k /\ M[i].turn = v  BY Zenon DEF Has
<1>2. e.kind = kind /\ e.turn = t  BY DEF Entry
<1>3. (i \in DOMAIN L /\ M[i] = L[i]) \/ M[i] = e  BY Zenon DEF Put, Grown
<1>. QED  BY <1>1, <1>2, <1>3, Zenon DEF Has

LEMMA RecordedKept ==
  ASSUME TypeOK, TypeOK', Placed, Alone, \A s \in Sessions : shared[s] => shared'[s],
         CountedPast, Recorded, NEW p \in Procs, Step(p)
  PROVE  Recorded'
<1>. USE StoreAssumption DEF Bounds
<1>. USE DEF disk, files, own, world, history
<1>. DEFINE Typed == /\ dir \in [Sessions -> BOOLEAN] /\ behind \in [Sessions -> BOOLEAN]
                     /\ index \in [Sessions -> Records \cup {None, Torn}] /\ tmp \in [Sessions -> Records \cup {None, Torn}]
                     /\ log \in [Sessions -> Seq(Events)] /\ pc \in [Procs -> {"new", "prune", "choose", "dead"} \cup Opened]
                     /\ open \in [Procs -> Sessions \cup {None}] /\ rec \in [Procs -> Records]
<1>0. Typed  BY DEF TypeOK
<1>1. Others(p)  BY OthersStay
<1>2. NoLogYet /\ RecordRan /\ \A q \in Procs : (pc[q] \in Opened /\ ~shared[open[q]]) => OwnRan(q)
  BY DEF Recorded
(* The others. *)
<1>3. ASSUME NEW q \in Procs, q # p, pc'[q] \in Opened, ~shared'[open'[q]] PROVE OwnRan(q)'
  <2>1. pc'[q] = pc[q] /\ open'[q] = open[q] /\ rec'[q] = rec[q] /\ turn'[q] = turn[q]
    BY <1>1, <1>3, Zenon DEF Others
  <2>2. open[q] \in Sessions /\ ~shared[open[q]]  BY <1>3, <2>1 DEF Placed
  <2>3. OwnRan(q)  BY <1>2, <1>3, <2>1, <2>2
  <2>4. CASE Left(open[q])
    <3>1. log'[open'[q]] = log[open[q]] /\ index'[open'[q]] = index[open[q]]
          /\ tmp'[open'[q]] = tmp[open[q]] /\ behind'[open'[q]] = behind[open[q]]
      BY <2>1, <2>4 DEF Left
    <3>. QED  BY <2>1, <2>3, <3>1, Zenon DEF OwnRan
  <2>5. CASE Delete(p, open[q])
    <3>1. log'[open'[q]] = <<>> /\ tmp'[open'[q]] = None /\ None # rec[q]
      <4>1. log' = [log EXCEPT ![open[q]] = <<>>] /\ tmp' = [tmp EXCEPT ![open[q]] = None]  BY <2>5 DEF Delete
      <4>2. None # rec[q]  BY <1>0
      <4>. QED  BY <1>0, <2>1, <2>2, <4>1, <4>2, Zenon
    <3>2. ~Answered(log'[open'[q]]) /\ \A kind, t : ~Has(log'[open'[q]], kind, t)
      BY <3>1, EmptyHas, Zenon
    <3>. QED  BY <2>1, <2>3, <3>1, <3>2, Zenon DEF OwnRan
  <2>. QED  BY <1>3, <2>1, <2>4, <2>5, Elsewhere
(* What p's step leaves of the log and the records. *)
<1>. DEFINE Goal(s) == /\ ~dir'[s] => log'[s] = <<>>
                       /\ (~shared'[s] /\ ~behind'[s] /\ Answered(log'[s])) => Ran(index'[s])
            Own == (pc'[p] \in Opened /\ ~shared'[open'[p]]) => OwnRan(p)'
<1>4. ASSUME NEW s \in Sessions, dir'[s] = dir[s] \/ dir'[s] = TRUE, log'[s] = log[s], index'[s] = index[s],
             behind'[s] = behind[s] \/ behind'[s] = TRUE
      PROVE  Goal(s)
  BY <1>2, <1>4, Zenon DEF NoLogYet, RecordRan
<1>5. ASSUME \A s \in Sessions : Goal(s), Own PROVE Recorded'
  <2>1. NoLogYet' /\ RecordRan'  BY <1>5, Zenon DEF NoLogYet, RecordRan, Ran, Records, Answered, Has
  <2>2. \A q \in Procs : (pc'[q] \in Opened /\ ~shared'[open'[q]]) => OwnRan(q)'  BY <1>3, <1>5
  <2>. QED  BY <2>1, <2>2, Zenon DEF Recorded, Opened, Writing
<1>6. pc[p] \in Opened => open[p] \in Sessions  BY DEF Placed
<1>7. CASE Start(p) \/ Pruned(p)
  <2>1. UNCHANGED <<dir, log, index, behind>> /\ pc'[p] \notin Opened
    BY <1>7, SMT DEF Start, Pruned, Opened, Writing, TypeOK
  <2>. QED  BY <1>4, <1>5, <2>1
<1>8. CASE Crash(p)
  <2>1. UNCHANGED <<dir, log, index, behind>> /\ pc'[p] \notin Opened
    BY <1>8, SMT DEF Crash, Opened, Writing, TypeOK
  <2>. QED  BY <1>4, <1>5, <2>1
<1>9. CASE OpenSession(p)
  <2>1. UNCHANGED <<dir, log, index, behind>> /\ pc'[p] = "idle"  BY <1>9, SMT DEF OpenSession, TypeOK
  <2>2. Own  BY <2>1, SMT DEF OwnRan, Worked
  <2>. QED  BY <1>4, <1>5, <2>1, <2>2
<1>10. CASE SaveOutput(p)
  <2>1. /\ pc[p] = "called" /\ UNCHANGED <<log, index, behind, open, shared, rec, turn>> /\ pc'[p] \in {"saved", "unsaved"}
    BY <1>10, SMT DEF SaveOutput, TypeOK
  <2>2. \A s \in Sessions : dir'[s] = dir[s] \/ dir'[s] = TRUE  BY <1>10, Zenon DEF SaveOutput, TypeOK
  <2>3. ~shared[open[p]] => OwnRan(p)  BY <1>2, <2>1 DEF Opened, Writing
  <2>4. Own
    <3>1. pc'[p] \notin {"created", "open", "rename"} /\ pc[p] \in Worked  BY <2>1 DEF Worked
    <3>. QED  BY <2>1, <2>3, <3>1, Zenon DEF OwnRan
  <2>. QED  BY <1>4, <1>5, <2>1, <2>2, <2>4
<1>11. CASE Rename(p)
  <2>. DEFINE s == open[p]
  <2>1. pc[p] \in {"created", "rename"} /\ UNCHANGED <<dir, log, behind, open, shared, rec, turn>> /\ s \in Sessions
    BY <1>6, <1>11 DEF Rename, Opened, Writing
  <2>2. pc[p] \in Opened /\ (~shared[s] => OwnRan(p))  BY <1>2, <2>1 DEF Opened, Writing
  <2>3. CASE tmp[s] = None
    <3>1. UNCHANGED <<index, tmp>> /\ (pc'[p] = IF pc[p] = "rename" THEN "ran" ELSE "dead")
      BY <1>11, <2>3, ZenonT(30) DEF Rename, TypeOK
    <3>2. CASE pc[p] = "rename"
      <4>1. pc'[p] = "ran"  BY <3>1, <3>2
      <4>2. ~shared[s] => ~Has(log[s], "user", turn[p]) /\ Ran(rec[p])  BY <2>2, <2>3, <3>2, Zenon DEF OwnRan
      <4>3. Own  BY <2>1, <3>1, <4>1, <4>2, SMT DEF OwnRan
      <4>. QED  BY <1>4, <1>5, <2>1, <3>1, <4>3
    <3>3. CASE pc[p] # "rename"
      <4>1. pc'[p] \notin Opened  BY <3>1, <3>3 DEF Opened, Writing
      <4>. QED  BY <1>4, <1>5, <2>1, <3>1, <4>1
    <3>. QED  BY <3>2, <3>3
  <2>4. CASE tmp[s] # None
    <3>1. /\ index' = [index EXCEPT ![s] = tmp[s]]
          /\ (pc'[p] = IF pc[p] = "rename" THEN "ran" ELSE "open")
      BY <1>11, <2>4, Zenon DEF Rename, TypeOK
    <3>2. index'[s] = tmp[s] /\ \A u \in Sessions : u # s => index'[u] = index[u]
      BY <1>0, <2>1, <3>1, Zenon
    <3>3. CASE pc[p] = "rename"
      <4>1. pc'[p] = "ran"  BY <3>1, <3>3
      <4>2. ~shared[s] => Ran(rec[p]) /\ tmp[s] = rec[p]  BY <2>2, <2>4, <3>3, Zenon DEF OwnRan
      <4>3. Goal(s)  BY <1>2, <2>1, <3>2, <4>2, Zenon DEF NoLogYet
      <4>4. Own  BY <2>1, <3>2, <4>1, <4>2, SMT DEF OwnRan
      <4>. QED  BY <1>4, <1>5, <2>1, <3>2, <4>3, <4>4
    <3>4. CASE pc[p] # "rename"
      <4>1. pc'[p] = "open" /\ pc[p] = "created"  BY <2>1, <3>1, <3>4
      <4>2. ~shared[s] => log[s] = <<>>  BY <2>2, <4>1, Zenon DEF OwnRan
      <4>3. ~shared[s] => ~Answered(log[s])  BY <4>2, EmptyHas, Zenon
      <4>4. Goal(s)  BY <1>2, <2>1, <4>3, Zenon DEF NoLogYet
      <4>5. Own  BY <2>1, <4>1, <4>3, SMT DEF OwnRan, Worked
      <4>. QED  BY <1>4, <1>5, <2>1, <3>2, <4>4, <4>5
    <3>. QED  BY <3>3, <3>4
  <2>. QED  BY <2>3, <2>4
<1>12. ASSUME NEW s \in Sessions, Delete(p, s) PROVE Recorded'
  <2>0. /\ dir' = [dir EXCEPT ![s] = FALSE] /\ log' = [log EXCEPT ![s] = <<>>]
        /\ index' = [index EXCEPT ![s] = None] /\ UNCHANGED <<pc, open, behind>> /\ pc[p] = "prune"
    BY <1>12 DEF Delete
  <2>1. UNCHANGED <<pc, open, behind>> /\ log'[s] = <<>> /\ pc[p] = "prune"  BY <1>0, <2>0, Zenon
  <2>2. ~Answered(log'[s])  BY <2>1, EmptyHas, Zenon
  <2>3. \A u \in Sessions : u # s => dir'[u] = dir[u] /\ log'[u] = log[u] /\ index'[u] = index[u]
    BY <1>0, <2>0, Zenon
  <2>4. pc'[p] \notin Opened  BY <2>1, SMT DEF Opened, Writing
  <2>. QED  BY <1>4, <1>5, <2>1, <2>2, <2>3, <2>4
<1>13. ASSUME NEW s \in Sessions, NEW r \in Records, NEW then \in {"created", "rename"}, NEW x \in {"dead", "ran"},
              Wrote(p, s, r, then, x), open'[p] = s
       PROVE  /\ \A u \in Sessions : Goal(u)
              /\ rec'[p] = r /\ turn' = turn /\ log' = log
              /\ \/ pc'[p] = then /\ tmp'[s] = r /\ tmp'[s] # None
                 \/ pc'[p] = x /\ behind'[s] = TRUE
  <2>1. UNCHANGED <<log, index, turn>> /\ rec'[p] = r
        /\ \A u \in Sessions : dir'[u] = dir[u] \/ dir'[u] = TRUE
    <3>1. rec' = [rec EXCEPT ![p] = r] /\ dir' = [dir EXCEPT ![s] = TRUE] /\ UNCHANGED <<log, index, turn>>
      BY <1>13 DEF Wrote
    <3>. QED  BY <1>0, <3>1, Zenon
  <2>2. CASE tmp' = [tmp EXCEPT ![s] = r] /\ pc' = [pc EXCEPT ![p] = then] /\ UNCHANGED behind
    <3>1. tmp'[s] = r /\ pc'[p] = then /\ r # None  BY <2>2, Zenon DEF TypeOK
    <3>. QED  BY <1>4, <2>1, <2>2, <3>1
  <2>3. CASE pc' = [pc EXCEPT ![p] = x] /\ behind' = [behind EXCEPT ![s] = TRUE]
    <3>1. pc'[p] = x /\ behind'[s] = TRUE /\ \A u \in Sessions : u # s => behind'[u] = behind[u]
      BY <2>3, ZenonT(30) DEF TypeOK
    <3>. QED  BY <1>4, <2>1, <3>1
  <2>. QED  BY <1>13, <2>2, <2>3, Zenon DEF Wrote
<1>14. ASSUME NEW s \in Sessions, New(p, s) PROVE Recorded'
  <2>1. Wrote(p, s, Record(clock), "created", "dead") /\ open' = [open EXCEPT ![p] = s] /\ ~dir[s]
    BY <1>14, WriteWrote DEF New
  <2>2. Record(clock) \in Records /\ open'[p] = s
    <3>1. clock \in 0..MaxClock /\ 0 \in {0, 1}  BY DEF TypeOK
    <3>. QED  BY <2>1, <3>1, Zenon DEF Record, Records, TypeOK
  <2>3. /\ \A u \in Sessions : Goal(u)
        /\ log' = log
        /\ pc'[p] \in {"created", "dead"}
    BY <1>13, <2>1, <2>2
  <2>4. log'[open'[p]] = <<>>  BY <1>2, <2>1, <2>2, <2>3, Zenon DEF NoLogYet
  <2>5. Own  BY <2>3, <2>4, SMT DEF OwnRan, Opened, Writing, Worked
  <2>. QED  BY <1>5, <2>3, <2>5
<1>15. CASE BumpTurn(p) \/ Save(p)
  <2>. DEFINE s == open[p]
  <2>1. pc[p] \in {"asked", "ran"} /\ s \in Sessions /\ open' = open  BY <1>6, <1>15 DEF BumpTurn, Save, Opened, Writing
  <2>2. rec[p] \in Records /\ clock \in 0..MaxClock  BY DEF TypeOK
  <2>3. PICK r \in Records : /\ Wrote(p, s, r, "rename", "ran")
                             /\ ~shared[s] => Ran(r)
    <3>1. CASE BumpTurn(p)
      <4>1. Wrote(p, s, Bumped(rec[p]), "rename", "ran")  BY <3>1, WriteWrote DEF BumpTurn
      <4>2. Bumped(rec[p]) \in Records /\ Bumped(rec[p]).turns = 1  BY <2>2, BumpedType
      <4>. QED  BY <4>1, <4>2 DEF Ran
    <3>2. CASE Save(p)
      <4>1. Wrote(p, s, rec[p], "rename", "ran") /\ pc[p] = "ran"  BY <3>2, WriteWrote DEF Save
      <4>2. ~shared[s] => OwnRan(p)  BY <1>2, <4>1 DEF Opened, Writing
      <4>3. ~shared[s] => Ran(rec[p])  BY <4>1, <4>2, Zenon DEF OwnRan, Worked
      <4>. QED  BY <2>2, <4>1, <4>3
    <3>. QED  BY <1>15, <3>1, <3>2
  <2>4. /\ \A u \in Sessions : Goal(u)
        /\ rec'[p] = r
        /\ \/ pc'[p] = "rename" /\ tmp'[s] = r /\ tmp'[s] # None
           \/ pc'[p] = "ran" /\ behind'[s] = TRUE
    BY <1>13, <2>1, <2>3
  <2>5. shared' = shared /\ open'[p] = s  BY <2>1, <2>3 DEF Wrote
  <2>6. Own  BY <2>3, <2>4, <2>5, SMT DEF OwnRan, Worked
  <2>. QED  BY <1>5, <2>4, <2>6
<1>16. ASSUME NEW s \in Sessions, Resolve(p, s) PROVE Recorded'
  <2>1. /\ UNCHANGED <<dir, log, index, behind>> /\ pc'[p] = "open" /\ open'[p] = s
        /\ rec'[p] = IF Readable(s) THEN index[s] ELSE Bare
    BY <1>16, ZenonT(30) DEF Resolve, TypeOK
  <2>2. Ran(index[s]) => Readable(s)  BY DEF Ran, Readable
  <2>3. ~shared'[s] => ~shared[s]  OBVIOUS
  <2>4. (~shared'[s] /\ ~behind[s] /\ Answered(log[s])) => Ran(rec'[p])
    BY <1>2, <2>1, <2>2, <2>3, Zenon DEF RecordRan
  <2>5. Own  BY <2>1, <2>4, SMT DEF OwnRan, Worked
  <2>. QED  BY <1>4, <1>5, <2>1, <2>5
<1>17. CASE Appends(p)
  <2>. DEFINE s == open[p]
  <2>1. PICK kind \in Kinds, t \in 1..MaxSeq, r \in 0..MaxSeq :
          /\ Put(p, kind, t, r) /\ t = turn'[p]
          /\ kind = "user" => turn[p] < t /\ pc'[p] = "asked"
          /\ kind # "user" => t = turn[p] /\ pc[p] # "idle" /\ (pc'[p] = "idle" \/ pc[p] # "asked")
          /\ kind = "answer" => pc[p] = "ran"
    BY <1>17, Zenon DEF Appends
  <2>2. pc[p] \in Writing /\ pc'[p] \in {"asked", "idle", "ran", "called"}  BY <1>17 DEF Appends
  <2>3. UNCHANGED <<index, tmp, behind, open, shared, rec>> /\ s \in Sessions  BY <1>6, <2>1, <2>2 DEF Put, Opened
  <2>4. dir'[s] = TRUE /\ \A u \in Sessions : u # s => dir'[u] = dir[u] /\ log'[u] = log[u]
    <3>1. dir' = [dir EXCEPT ![s] = TRUE] /\ \A u \in Sessions : u # s => log'[u] = log[u]  BY <2>1 DEF Put
    <3>. QED  BY <1>0, <2>3, <3>1, Zenon
  <2>5. ~shared[s] => OwnRan(p)  BY <1>2, <2>2 DEF Opened
  <2>. DEFINE Old(k, v) == Has(log'[s], k, v) => Has(log[s], k, v) \/ (k = kind /\ v = t)
  <2>11. \A k, v : Old(k, v)  BY <2>1, HasPut
  <2>6. ASSUME ~shared[s], ~behind[s], Answered(log'[s]) PROVE Ran(index[s])
    <3>1. PICK v \in 1..MaxSeq : Has(log'[s], "user", v) /\ Has(log'[s], "answer", v)  BY <2>6 DEF Answered
    <3>2. Has(log[s], "user", v) \/ (kind = "user" /\ v = t)  BY <2>11, <3>1, Zenon
    <3>3. Has(log[s], "answer", v) \/ (kind = "answer" /\ v = t)  BY <2>11, <3>1, Zenon
    <3>4. CASE Has(log[s], "user", v) /\ Has(log[s], "answer", v)
      BY <1>2, <2>3, <2>6, <3>4, Zenon DEF RecordRan, Answered
    <3>5. CASE kind = "user" /\ v = t /\ Has(log[s], "answer", v)
      <4>1. PICK i \in DOMAIN log[s] : log[s][i].turn = v  BY <3>5 DEF Has
      <4>2. log[s][i].turn <= turn[p]  BY <2>2, <2>6, <4>1, Zenon DEF CountedPast
      <4>3. turn[p] \in 0..MaxSeq  BY DEF TypeOK
      <4>. QED  BY <2>1, <3>5, <4>1, <4>2, <4>3, SMT
    <3>6. CASE kind = "answer" /\ v = t /\ Has(log[s], "user", v)
      <4>1. pc[p] = "ran" /\ v = turn[p]  BY <2>1, <3>6
      <4>. QED  BY <2>5, <2>6, <3>6, <4>1, Zenon DEF OwnRan, Worked
    <3>. QED  BY <3>2, <3>3, <3>4, <3>5, <3>6
  <2>7. ASSUME ~shared[s], ~behind[s], pc'[p] \in Worked, Has(log'[s], "user", turn'[p]) PROVE Ran(index[s])
    <3>1. pc[p] \in Worked \cup {"rename"} /\ kind # "user" /\ turn'[p] = turn[p]
      BY <2>1, <2>2, <2>7, SMT DEF Worked, Writing
    <3>2. Has(log[s], "user", turn[p])  BY <2>11, <2>7, <3>1, Zenon
    <3>3. pc[p] \in Worked  BY <1>17, <2>2, <3>1 DEF Appends, Worked
    <3>. QED  BY <2>5, <2>7, <3>2, <3>3, Zenon DEF OwnRan
  <2>8. ASSUME ~shared[s], pc'[p] \in Worked PROVE Ran(rec[p])
    <3>1. pc[p] \in Worked \cup {"rename"}  BY <2>1, <2>2, <2>8, SMT DEF Worked, Writing
    <3>. QED  BY <2>5, <2>8, <3>1, Zenon DEF OwnRan
  <2>9. Own  BY <2>2, <2>3, <2>7, <2>8, SMT DEF OwnRan
  <2>10. \A u \in Sessions : Goal(u)
    <3>1. Goal(s)  BY <2>3, <2>4, <2>6
    <3>2. \A u \in Sessions : u # s => Goal(u)  BY <1>4, <2>3, <2>4
    <3>. QED  BY <3>1, <3>2
  <2>. QED  BY <1>5, <2>9, <2>10
<1>18. CASE BeginTurn(p) \/ Call(p) \/ Result(p) \/ EndTurn(p)
  <2>1. Appends(p)  BY <1>18, AppendsToo
  <2>. QED  BY <1>17, <2>1
<1>. QED  BY <1>7, <1>8, <1>9, <1>10, <1>11, <1>12, <1>14, <1>15, <1>16, <1>18, Zenon DEF Step

LEMMA RecordedInit == Init => Recorded
<1>. SUFFICES ASSUME Init PROVE Recorded
  OBVIOUS
<1>1. \A s \in Sessions : log[s] = <<>>  BY Zenon DEF Init
<1>2. NoLogYet /\ RecordRan  BY <1>1, EmptyHas, Zenon DEF NoLogYet, RecordRan
<1>3. \A p \in Procs : pc[p] \notin Opened  BY SMT DEF Init, Opened, Writing
<1>. QED  BY <1>2, <1>3 DEF Recorded

(* Nothing of it is about the clock, or what the server has. *)
LEMMA RecordedStays ==
  ASSUME Recorded, UNCHANGED <<dir, log, index, tmp, pc, open, rec, turn, shared, behind>>
  PROVE  Recorded'
<1>1. NoLogYet' /\ RecordRan'
  <2>1. dir' = dir /\ log' = log /\ index' = index /\ shared' = shared /\ behind' = behind /\ NoLogYet /\ RecordRan
    BY DEF Recorded
  <2>. QED  BY <2>1, Zenon DEF NoLogYet, RecordRan
<1>2. ASSUME NEW p \in Procs, pc'[p] \in Opened, ~shared'[open'[p]] PROVE OwnRan(p)'
  <2>1. OwnRan(p)  BY <1>2, Zenon DEF Recorded
  <2>2. /\ pc'[p] = pc[p] /\ open'[p] = open[p] /\ rec'[p] = rec[p] /\ turn'[p] = turn[p]
        /\ log'[open'[p]] = log[open[p]] /\ index'[open'[p]] = index[open[p]]
        /\ tmp'[open'[p]] = tmp[open[p]] /\ behind'[open'[p]] = behind[open[p]]
    BY Zenon
  <2>. QED  BY <2>1, <2>2, Zenon DEF OwnRan
<1>. QED  BY <1>1, <1>2, Zenon DEF Recorded, Opened, Writing

(* Two events, the message and the answer of one turn. *)
LEMMA PairAnswers ==
  ASSUME TypeOK, NEW s \in Sessions,
         \E i, j \in DOMAIN log[s] :
           log[s][i].kind = "user" /\ log[s][j].kind = "answer" /\ log[s][i].turn = log[s][j].turn
  PROVE  Answered(log[s])
<1>1. PICK i, j \in DOMAIN log[s] :
        log[s][i].kind = "user" /\ log[s][j].kind = "answer" /\ log[s][i].turn = log[s][j].turn
  OBVIOUS
<1>2. log[s] \in Seq(Events)  BY Zenon DEF TypeOK
<1>3. log[s][i] \in Events  BY <1>1, <1>2, NumberType, Zenon
<1>4. log[s][i].turn \in 1..MaxSeq  BY <1>3, SMT DEF Events
<1>. QED  BY <1>1, <1>4, Zenon DEF Answered, Has

(* A session whose log has an answered message is never opened without the
   recap or a server that still has the conversation: the run was in the record
   before its reply was looked at, and the record reached the disk or is marked
   as behind. *)
THEOREM RecapsAreReadied == Spec => RecapWhenLost
<1>. USE DEF disk, files, own, world, history
<1>. DEFINE Inv == TypeOK /\ Placed /\ Alone /\ Standing /\ Recorded
<1>1. Init => Inv  BY TypeInit, WholeInit, LogInit, RecordedInit DEF Standing
<1>2. ASSUME Inv, [Next]_vars PROVE Inv'
  <2>1. TypeOK' /\ Placed' /\ Alone' /\ Standing' /\ \A s \in Sessions : shared[s] => shared'[s]
    BY <1>2, TypeKept, AloneKept, StandingKept
  <2>2. ASSUME NEW p \in Procs, Step(p) PROVE Recorded'
    BY <1>2, <2>1, <2>2, RecordedKept DEF Standing
  <2>3. ASSUME NEW s \in Sessions, Lose(s) PROVE Recorded'
    BY <1>2, <2>3, RecordedStays DEF Lose
  <2>4. CASE Tick \/ UNCHANGED vars
    <3>1. UNCHANGED <<dir, log, index, tmp, pc, open, rec, turn, shared, behind>>  BY <2>4 DEF Tick, vars
    <3>. QED  BY <1>2, <2>1, <3>1, RecordedStays
  <2>. QED  BY <1>2, <2>1, <2>2, <2>3, <2>4 DEF Next
<1>3. ASSUME Inv, NEW p \in Procs, OpenSession(p) PROVE Readied(p)
  <2>. DEFINE s == open[p]
  <2>. SUFFICES ASSUME \E i, j \in DOMAIN log[s] :
                         /\ log[s][i].kind = "user" /\ log[s][j].kind = "answer"
                         /\ log[s][i].turn = log[s][j].turn,
                       ~behind[s], ~shared[s], ~held[s]
                PROVE  note'[p]
    BY DEF Readied
  <2>1. pc[p] = "open" /\ pc[p] \in Opened  BY <1>3 DEF OpenSession, Opened
  <2>2. s \in Sessions  BY <1>3, <2>1 DEF Placed
  <2>3. Answered(log[s])  BY <1>3, <2>2, PairAnswers
  <2>4. Ran(rec[p])  BY <1>3, <2>1, <2>3, Zenon DEF Recorded, OwnRan
  <2>5. PICK has \in {held[s], FALSE} : note' = [note EXCEPT ![p] = Recap(p, has)]
    BY <1>3 DEF OpenSession
  <2>6. ~has  BY <2>5
  <2>7. Recap(p, has)
    <3>1. rec[p].turns > 0  BY <2>4, SMT DEF Ran
    <3>. QED  BY <2>6, <3>1, Zenon DEF Recap
  <2>8. note'[p] = Recap(p, has)  BY <1>3, <2>5, Zenon DEF TypeOK
  <2>. QED  BY <2>7, <2>8
<1>4. ASSUME Inv PROVE \A p \in Procs : OpenSession(p) => Readied(p)
  BY <1>3, <1>4
<1>. QED  BY <1>1, <1>2, <1>4, PTL DEF Spec, RecapWhenLost

-----------------------------------------------------------------------------
(* The context of one session (Keeper): a checkpoint an event names is never
   written again, for every bound, every set of outputs, and wherever in a
   compaction the process dies. *)
Named(e) == e.kind = "compact" => e.checkpoint \in DOMAIN checkpoints /\ e.checkpoint <= compactions

NamedIn(evs) ==
  /\ evs \in Seq(Range(evs))
  /\ \A i \in DOMAIN evs : Named(evs[i])

(* The number a compaction under way has taken: past every number named, and
   with the record written the one the record names.                        *)
Taken ==
  /\ {"kind", "seq", "checkpoint"} \subseteq DOMAIN job.event
  /\ job.event.checkpoint \in DOMAIN checkpoints
  /\ job.event.checkpoint = IF job.step = "save" THEN compactions + 1 ELSE compactions

(* Inductive: the numbers named in the log are files, none above the record's. *)
Checkpointed ==
  /\ compactions \in Nat /\ recorded = compactions
  /\ NamedIn(events)
  /\ DOMAIN job = {"step", "event"} /\ job.step \in {"none", "save", "note"}
  /\ job.step # "none" => Taken

-----------------------------------------------------------------------------
(* An event more, which names no checkpoint or one that is a file. *)
LEMMA StampedNamed ==
  ASSUME NEW evs, NamedIn(evs), NEW e, {"kind", "seq", "checkpoint"} \subseteq DOMAIN e, Named(e)
  PROVE  NamedIn(Stamped(evs, e))
<1> DEFINE st == [e EXCEPT !.seq = Len(evs) + 1]
           all == Append(evs, st)
<1>1. Named(st)
  <2>1. st.kind = e.kind /\ st.checkpoint = e.checkpoint
    OBVIOUS
  <2>2. QED
    BY <2>1 DEF Named
<1>2. evs \in Seq(Range(evs) \cup {st})
  BY DEF NamedIn
<1> HIDE DEF st
<1>3. /\ all \in Seq(Range(evs) \cup {st})
      /\ Len(all) = Len(evs) + 1 /\ Len(evs) \in Nat
      /\ DOMAIN all = 1..Len(all) /\ DOMAIN evs = 1..Len(evs)
      /\ \A i \in 1..Len(evs) : all[i] = evs[i]
      /\ all[Len(evs) + 1] = st
  BY <1>2, AppendProperties, LenProperties
<1>4. \A i \in DOMAIN all : all[i] \in Range(all)
  BY DEF Range
<1>5. all \in Seq(Range(all))
  BY <1>3, <1>4, SeqDef
<1>6. \A i \in DOMAIN all : Named(all[i])
  <2> TAKE i \in DOMAIN all
  <2>1. CASE i \in DOMAIN evs
    BY <2>1, <1>3 DEF NamedIn
  <2>2. CASE i = Len(evs) + 1
    BY <2>2, <1>1, <1>3
  <2>3. QED
    BY <2>1, <2>2, <1>3
<1>7. QED
  BY <1>5, <1>6 DEF NamedIn, Stamped, st

(* The same for the events of the turn itself: none of them is a compaction. *)
LEMMA EventNamed ==
  ASSUME NEW evs, NamedIn(evs), NEW e, {"kind", "seq", "checkpoint"} \subseteq DOMAIN e, e.kind # "compact"
  PROVE  NamedIn(Stamped(evs, e))
BY StampedNamed DEF Named

LEMMA TurnEvents ==
  ASSUME NEW t, NEW kind, kind # "compact"
  PROVE  LET e == Event(kind, t) IN
         {"kind", "seq", "checkpoint"} \subseteq DOMAIN e /\ e.kind # "compact"
BY DEF Event, Blank

LEMMA AnswerEvents ==
  ASSUME NEW ok
  PROVE  LET e == StoppedAnswer(ok) IN
         {"kind", "seq", "checkpoint"} \subseteq DOMAIN e /\ e.kind # "compact"
BY DEF StoppedAnswer, Event, Blank

LEMMA RoundEvents ==
  ASSUME NEW out
  PROVE  LET e == Round(out) IN
         {"kind", "seq", "checkpoint"} \subseteq DOMAIN e /\ e.kind # "compact"
BY DEF Round, Event, Blank

(* A step that writes no file and leaves the compaction alone. *)
LEMMA LogStep ==
  ASSUME Checkpointed, NamedIn(events'), checkpoints' = checkpoints, compactions' = compactions, recorded' = compactions, job' = job
  PROVE  Checkpointed'
BY DEF Checkpointed, NamedIn, Named, Taken

LEMMA TurningCheckpointed == Checkpointed /\ Turning => Checkpointed'
<1> SUFFICES ASSUME Checkpointed, Turning PROVE Checkpointed'
  OBVIOUS
<1>1. NamedIn(events) /\ recorded = compactions
  BY DEF Checkpointed
<1>2. /\ checkpoints' = checkpoints /\ compactions' = compactions /\ recorded' = compactions /\ job' = job
  BY <1>1 DEF Turning, StartTurn, TakeAdded, Ask, Calls, FinalAnswer, Nudge, AskAgain, Replies, RunCalls, context
<1>3. NamedIn(events')
  <2>1. CASE StartTurn
    BY <2>1, <1>1, TurnEvents, EventNamed DEF StartTurn
  <2>2. CASE TakeAdded
    BY <2>2, <1>1, TurnEvents, EventNamed DEF TakeAdded
  <2>3. CASE Ask
    BY <2>3, <1>1 DEF Ask
  <2>4. CASE Calls
    BY <2>4, <1>1, TurnEvents, EventNamed DEF Calls
  <2>5. CASE FinalAnswer
    <3>1. PICK ok \in BOOLEAN : events' = Stamped(Stamped(events, Event("reply", turns)), StoppedAnswer(ok))
      BY <2>5 DEF FinalAnswer, StoppedAnswer
    <3>2. NamedIn(Stamped(events, Event("reply", turns)))
      BY <1>1, TurnEvents, EventNamed
    <3>3. QED
      BY <3>1, <3>2, AnswerEvents, EventNamed
  <2>6. CASE Nudge
    BY <2>6, <1>1, TurnEvents, EventNamed DEF Nudge
  <2>7. CASE AskAgain
    BY <2>7, <1>1 DEF AskAgain
  <2>8. CASE RunCalls
    <3>1. PICK out \in Outputs : events' = Stamped(events, Round(out))
      BY <2>8 DEF RunCalls
    <3>2. QED
      BY <3>1, <1>1, RoundEvents, EventNamed
  <2>9. QED
    BY <2>1, <2>2, <2>3, <2>4, <2>5, <2>6, <2>7, <2>8 DEF Turning
<1>4. QED
  BY <1>2, <1>3, LogStep

LEMMA EndingCheckpointed == Checkpointed /\ Ending => Checkpointed'
<1> SUFFICES ASSUME Checkpointed, Ending PROVE Checkpointed'
  OBVIOUS
<1>1. NamedIn(events) /\ recorded = compactions
  BY DEF Checkpointed
<1>2. /\ checkpoints' = checkpoints /\ compactions' = compactions /\ recorded' = compactions /\ job' = job
  BY <1>1 DEF Ending, QuitTurn, Capped, Blocked, Interrupted, Ends, context
<1>3. NamedIn(events')
  <2>1. CASE QuitTurn
    <3>1. PICK out \in Short : events' = Stamped(Stamped(events, Round(out)), StoppedAnswer(TRUE))
      BY <2>1 DEF QuitTurn, Ends
    <3>2. NamedIn(Stamped(events, Round(out)))
      BY <1>1, RoundEvents, EventNamed
    <3>3. QED
      BY <3>1, <3>2, AnswerEvents, EventNamed
  <2>2. CASE Capped
    BY <2>2, <1>1, AnswerEvents, EventNamed DEF Capped, Ends
  <2>3. CASE Blocked
    BY <2>3, <1>1, AnswerEvents, EventNamed DEF Blocked, Ends
  <2>4. CASE Interrupted
    BY <2>4, <1>1 DEF Interrupted, Ends
  <2>5. QED
    BY <2>1, <2>2, <2>3, <2>4 DEF Ending
<1>4. QED
  BY <1>2, <1>3, LogStep

(* The checkpoint's file is a new one. *)
LEMMA CompactCheckpointed ==
  ASSUME Checkpointed, NEW depth, Compact(depth)
  PROVE  Checkpointed'
<1> DEFINE n == compactions + 1
<1>1. PICK c \in Compactable(depth) :
        LET ev == [Event("compact", turns) EXCEPT !.upto = c[1], !.collapse = c[2], !.checkpoint = n]
            cp == [seq |-> Covers(events, c[1]), messages |-> Transcript(events, ev)]
        IN  /\ checkpoints' = [m \in DOMAIN checkpoints \cup {n} |-> IF m = n THEN cp ELSE checkpoints[m]]
            /\ job' = [step |-> "save", event |-> ev]
  BY DEF Compact
<1> DEFINE ev == [Event("compact", turns) EXCEPT !.upto = c[1], !.collapse = c[2], !.checkpoint = n]
<1>2. job' = [step |-> "save", event |-> ev]
  BY <1>1
<1>3. {"kind", "seq", "checkpoint"} \subseteq DOMAIN ev /\ ev.checkpoint = n
  BY DEF Event, Blank
<1> HIDE DEF ev
<1>4. DOMAIN checkpoints' = DOMAIN checkpoints \cup {n} /\ \A m \in DOMAIN checkpoints : m # n => checkpoints'[m] = checkpoints[m]
  BY <1>1
<1>5. events' = events /\ compactions' = compactions /\ recorded' = recorded /\ compactions \in Nat
  BY DEF Compact, Checkpointed
<1>6. NamedIn(events)'
  BY <1>4, <1>5 DEF Checkpointed, NamedIn, Named
<1>7. Taken'
  BY <1>2, <1>3, <1>4, <1>5 DEF Taken
<1>8. QED
  BY <1>2, <1>4, <1>5, <1>6, <1>7 DEF Checkpointed

LEMMA CompactingCheckpointed == Checkpointed /\ Compacting => Checkpointed'
<1> SUFFICES ASSUME Checkpointed, Compacting PROVE Checkpointed'
  OBVIOUS
<1>1. CASE CompactAsked
  BY <1>1, CompactCheckpointed DEF CompactAsked
<1>2. CASE CompactDue
  BY <1>2, CompactCheckpointed DEF CompactDue
<1>3. CASE SaveRecord
  <2>1. Taken /\ job.event.checkpoint = compactions + 1 /\ compactions \in Nat
    BY <1>3 DEF SaveRecord, Checkpointed, Taken
  <2>2. /\ job'.step = "note" /\ job'.event = job.event /\ DOMAIN job' = {"step", "event"}
        /\ compactions' = compactions + 1 /\ recorded' = compactions + 1
        /\ events' = events /\ checkpoints' = checkpoints
    BY <2>1, <1>3 DEF SaveRecord, Saved, Checkpointed
  <2>3. NamedIn(events)'
    <3>1. events' = events /\ checkpoints' = checkpoints /\ compactions' = compactions + 1
      BY <2>2
    <3>2. QED
      BY <3>1, <2>1 DEF Checkpointed, NamedIn, Named
  <2>4. QED
    BY <2>1, <2>2, <2>3 DEF Checkpointed, Taken
<1>4. CASE NoteCompaction
  <2>1. Taken /\ job.event.checkpoint = compactions /\ compactions \in Nat /\ NamedIn(events)
    BY <1>4 DEF NoteCompaction, Checkpointed, Taken
  <2>2. Named(job.event)
    BY <2>1 DEF Named, Taken
  <2>3. NamedIn(Stamped(events, job.event))
    BY <2>1, <2>2, StampedNamed DEF Taken
  <2>4. /\ events' = Stamped(events, job.event) /\ job' = NoJob
        /\ checkpoints' = checkpoints /\ compactions' = compactions /\ recorded' = recorded
    BY <1>4 DEF NoteCompaction
  <2>5. NamedIn(events)'
    BY <2>3, <2>4 DEF NamedIn, Named
  <2>6. QED
    BY <2>4, <2>5 DEF Checkpointed, NoJob
<1>5. QED
  BY <1>1, <1>2, <1>3, <1>4 DEF Compacting

LEMMA RecoveringCheckpointed == Checkpointed /\ Recovering => Checkpointed'
<1> SUFFICES ASSUME Checkpointed, Recovering PROVE Checkpointed'
  OBVIOUS
<1>1. NamedIn(events)
  BY DEF Checkpointed
<1>2. CASE Refused
  BY <1>1, <1>2, LogStep DEF Refused, context, Checkpointed
<1>3. CASE RecoverCompact
  BY <1>3, CompactCheckpointed DEF RecoverCompact
<1>4. CASE RecoverRefit
  BY <1>1, <1>4, LogStep DEF RecoverRefit, context, Checkpointed
<1>5. CASE GiveUp
  BY <1>1, <1>5, LogStep, AnswerEvents, EventNamed DEF GiveUp, Ends, context, Checkpointed
<1>6. QED
  BY <1>2, <1>3, <1>4, <1>5 DEF Recovering

(* What the record says survives, and with it the last number taken. *)
LEMMA CrashCheckpointed == Checkpointed /\ Dies => Checkpointed'
<1> SUFFICES ASSUME Checkpointed, Dies PROVE Checkpointed'
  OBVIOUS
<1>1. NamedIn(events')
  BY RoundEvents, EventNamed DEF Dies, Checkpointed
<1>2. checkpoints' = checkpoints /\ compactions' = compactions /\ recorded' = recorded /\ job' = NoJob
  BY DEF Dies, Checkpointed
<1>3. NamedIn(events)'
  BY <1>1, <1>2 DEF NamedIn, Named
<1>4. QED
  BY <1>2, <1>3 DEF Checkpointed, NoJob

LEMMA InitCheckpointed == KInit => Checkpointed
BY DEF KInit, Checkpointed, NamedIn, NoJob, Range

LEMMA NextCheckpointed == Checkpointed /\ [KNext]_kvars => Checkpointed'
<1> SUFFICES ASSUME Checkpointed, [KNext]_kvars PROVE Checkpointed'
  OBVIOUS
<1>1. CASE UNCHANGED kvars
  BY <1>1 DEF kvars, context, Checkpointed, NamedIn, Named, Taken
<1>2. CASE KNext
  BY <1>2, TurningCheckpointed, EndingCheckpointed, CompactingCheckpointed, RecoveringCheckpointed, CrashCheckpointed DEF KNext
<1>3. QED
  BY <1>1, <1>2

(* Every number the log names is a checkpoint's file, and the next one taken is
   past them all, though the record is written apart from file and event.   *)
THEOREM CheckpointsAreNumbered == KSpec => []Checkpointed
<1>1. QED
  BY InitCheckpointed, NextCheckpointed, PTL DEF KSpec

(* A checkpoint Hermes' conversation opens with is never written again. *)
LEMMA StepStands ==
  ASSUME Checkpointed, [KNext]_kvars, NEW i \in DOMAIN events, events[i].kind = "compact"
  PROVE  checkpoints'[events[i].checkpoint] = checkpoints[events[i].checkpoint]
<1> DEFINE m == events[i].checkpoint
<1>1. m \in DOMAIN checkpoints /\ m <= compactions
  BY DEF Checkpointed, NamedIn, Named
<1>2. CASE checkpoints' = checkpoints
  BY <1>2
<1>3. CASE \E depth : Compact(depth)
  <2>1. PICK depth : Compact(depth)
    BY <1>3
  <2>2. QED
    BY <2>1, <1>1 DEF Compact, Quiet, Checkpointed
<1>4. QED
  BY <1>2, <1>3 DEF KNext, kvars, context, Turning, Ending,
     Compacting, Recovering, Dies, StartTurn, TakeAdded, Ask,
     Calls, FinalAnswer, Nudge, AskAgain, Replies, RunCalls,
     QuitTurn, Capped, Blocked, Interrupted, Ends, CompactAsked,
     CompactDue, SaveRecord, NoteCompaction, Refused, RecoverCompact,
     RecoverRefit, GiveUp

(* CheckpointsStand: what an event names no later step rewrites - the prefix
   Hermes and its prompt cache were given outlives a crash at any point.    *)
THEOREM CheckpointsNeverRewritten == KSpec => CheckpointsStand
<1>1. Checkpointed /\ [KNext]_kvars =>
        [\A i \in DOMAIN events : events[i].kind = "compact"
           => checkpoints'[events[i].checkpoint] = checkpoints[events[i].checkpoint]]_kvars
  BY StepStands
<1>2. QED
  BY <1>1, CheckpointsAreNumbered, PTL DEF KSpec, CheckpointsStand

(***************************************************************************)
(* What Hermes reads, and what it is sent.  The log is numbered and goes   *)
(* turn by turn (LogOf); the compaction in effect lies within it and its   *)
(* checkpoint is the conversation it left (EffectOf); what was sent begins *)
(* what is sent now (SentOf).  A transcript is its events' pieces put      *)
(* together: the lemmas come from that, piece by piece.                    *)
(***************************************************************************)
(* An event of the log, and a part of what is sent. *)
LogEvents == [seq : Nat, kind : EventKinds, turn : Nat, ref : Nat, out : Outputs \cup {NoResult},
              ok : BOOLEAN, upto : Nat, collapse : Nat, checkpoint : Nat]

Parts == [seq : Nat, role : {"user", "assistant"}, form : {"full", "cut", "line", "same", "gist"}, of : Nat]



(* A bounded set of numbers has a greatest one. *)
LEMMA Greatest ==
  ASSUME NEW n \in Nat, NEW D \in SUBSET (0..n), D # {}
  PROVE  \E d \in D : \A x \in D : x <= d
<1>. DEFINE M == {k \in Nat : n - k \in D}
<1>1. M \in SUBSET Nat /\ M # {}
  <2>1. PICK x : x \in D  OBVIOUS
  <2>2. n - x \in Nat /\ n - (n - x) = x  BY <2>1, SMT
  <2>3. n - x \in M  BY <2>1, <2>2, Zenon
  <2>. QED  BY <2>3
<1>. HIDE DEF M
<1>2. PICK k \in M : \A y \in M : k <= y  BY <1>1, Least, Zenon
<1>3. k \in Nat /\ n - k \in D  BY <1>2 DEF M
<1>4. ASSUME NEW x \in D PROVE x <= n - k
  <2>1. n - x \in Nat /\ n - (n - x) = x /\ x \in Nat  BY SMT
  <2>2. n - x \in M  BY <2>1, Zenon DEF M
  <2>3. k <= n - x  BY <1>2, <2>2, Zenon
  <2>. QED  BY <1>3, <2>1, <2>3, SMT
<1>. QED  BY <1>3, <1>4, Zenon


(* A set of naturals that holds 0 and, with each, the next. *)
LEMMA AllNaturals ==
  ASSUME NEW G \in SUBSET Nat, 0 \in G, \A n \in G : n + 1 \in G
  PROVE  G = Nat
<1>. DEFINE D == Nat \ G
<1>1. SUFFICES ASSUME D # {} PROVE FALSE
  OBVIOUS
<1>2. PICK d \in D : \A n \in D : <<n, d>> \notin OpToRel(<, Nat)
  BY <1>1, NatLessThanWellFounded, WFMin, Zenon
<1>3. d \in Nat /\ d # 0 /\ d - 1 \in Nat  BY SMT
<1>4. <<d - 1, d>> \in OpToRel(<, Nat)
  <2>1. d - 1 < d  BY <1>3
  <2>. QED  BY <2>1, <1>3, Zenon DEF OpToRel
<1>5. d - 1 \in G  BY <1>2, <1>3, <1>4, Zenon
<1>6. d - 1 + 1 \in G  BY <1>5, Zenon
<1>. QED  BY <1>3, <1>6, SMT

(* Pieces put together (FlattenSeq): f[i] is what the first i come to. *)
Flat(f, pieces, n) == f = [i \in 1..n |-> IF i = 1 THEN pieces[i] ELSE f[i - 1] \o pieces[i]]

Together(f, pieces, n) ==
  /\ f[1] = pieces[1]
  /\ \A i \in 1..n : i + 1 \in 1..n => f[i + 1] = f[i] \o pieces[i + 1]

LEMMA FlatAt ==
  ASSUME NEW pieces, NEW n \in Nat, n # 0, NEW f, Flat(f, pieces, n)
  PROVE  Together(f, pieces, n)
<1>. DEFINE h == [j \in 1..n |-> IF j = 1 THEN pieces[j] ELSE f[j - 1] \o pieces[j]]
<1>1. f = h  BY DEF Flat
<1>2. h[1] = pieces[1]
  <2>1. 1 \in 1..n  BY SMT
  <2>. QED  BY <2>1
<1>3. ASSUME NEW i \in 1..n, i + 1 \in 1..n PROVE h[i + 1] = f[i] \o pieces[i + 1]
  <2>1. i + 1 # 1 /\ i + 1 - 1 = i  BY SMT
  <2>2. h[i + 1] = IF i + 1 = 1 THEN pieces[i + 1] ELSE f[i + 1 - 1] \o pieces[i + 1]  BY <1>3
  <2>. HIDE DEF h
  <2>. QED  BY <2>1, <2>2, Zenon
<1>. HIDE DEF h
<1>. QED  BY <1>1, <1>2, <1>3 DEF Together

LEMMA FlatExists ==
  ASSUME NEW pieces, NEW n \in Nat
  PROVE  \E f : Flat(f, pieces, n)
<1>. DEFINE G == {k \in Nat : \E f : Flat(f, pieces, k)}
<1>1. 0 \in G
  <2>1. Flat(<<>>, pieces, 0)  BY SMT DEF Flat
  <2>. QED  BY <2>1
<1>2. ASSUME NEW k \in G PROVE k + 1 \in G
  <2>1. PICK f : Flat(f, pieces, k)  OBVIOUS
  <2>. DEFINE h == [j \in 1..k |-> IF j = 1 THEN pieces[j] ELSE f[j - 1] \o pieces[j]]
              g == [i \in 1..(k + 1) |-> IF i = k + 1 THEN IF i = 1 THEN pieces[i] ELSE f[i - 1] \o pieces[i] ELSE f[i]]
  <2>2. k \in Nat  OBVIOUS
  <2>3. \A i \in 1..k : f[i] = IF i = 1 THEN pieces[i] ELSE f[i - 1] \o pieces[i]
    <3>1. f = h  BY <2>1 DEF Flat
    <3>2. \A i \in 1..k : h[i] = IF i = 1 THEN pieces[i] ELSE f[i - 1] \o pieces[i]  OBVIOUS
    <3>. HIDE DEF h
    <3>. QED  BY <3>1, <3>2
  <2>4. \A i \in 1..(k + 1) : g[i] = IF i = 1 THEN pieces[i] ELSE g[i - 1] \o pieces[i]
    BY <2>2, <2>3, SMT
  <2>5. g = [i \in 1..(k + 1) |-> IF i = 1 THEN pieces[i] ELSE g[i - 1] \o pieces[i]]
    <3>1. g = [i \in 1..(k + 1) |-> g[i]]  OBVIOUS
    <3>. HIDE DEF g
    <3>. QED  BY <2>4, <3>1, Zenon
  <2>6. Flat(g, pieces, k + 1)  BY <2>5 DEF Flat
  <2>. HIDE DEF g
  <2>. QED  BY <2>2, <2>6
<1>3. G = Nat  BY <1>1, <1>2, AllNaturals
<1>. QED  BY <1>3, Zenon

LEMMA FlatIs ==
  ASSUME NEW S, NEW pieces \in Seq(Seq(S)), pieces # <<>>
  PROVE  \E f : Together(f, pieces, Len(pieces)) /\ FlattenSeq(pieces) = f[Len(pieces)]
<1>1. Len(pieces) \in Nat /\ Len(pieces) # 0  BY EmptySeq
<1>2. \E f : Flat(f, pieces, Len(pieces))  BY <1>1, FlatExists
<1>. DEFINE F == CHOOSE f : Flat(f, pieces, Len(pieces))
<1>3. Flat(F, pieces, Len(pieces))  BY <1>2, Zenon
<1>4. FlattenSeq(pieces) = F[Len(pieces)]  BY <1>1, Zenon DEF FlattenSeq, Flat
<1>. HIDE DEF F
<1>5. Together(F, pieces, Len(pieces))  BY <1>1, <1>3, FlatAt, Zenon
<1>. QED  BY <1>4, <1>5

(* Pieces, and more of them. *)
LEMMA TogetherAgrees ==
  ASSUME NEW pieces, NEW more, NEW n \in Nat, n # 0, \A i \in 1..n : pieces[i] = more[i],
         NEW f, Together(f, pieces, n), NEW g, Together(g, more, n + 1)
  PROVE  g[n + 1] = f[n] \o more[n + 1]
<1>. DEFINE G == {k \in Nat : k + 1 \in 1..n => f[k + 1] = g[k + 1]}
<1>1. 0 \in G
  <2>1. 1 \in 1..n  BY SMT
  <2>. QED  BY <2>1 DEF Together
<1>2. ASSUME NEW k \in G PROVE k + 1 \in G
  <2>1. k \in Nat /\ k + 1 \in Nat  BY SMT
  <2>2. ASSUME k + 1 + 1 \in 1..n PROVE f[k + 1 + 1] = g[k + 1 + 1]
    <3>1. k + 1 \in 1..n /\ k + 1 \in 1..(n + 1) /\ k + 1 + 1 \in 1..(n + 1)  BY <2>1, <2>2, SMT
    <3>2. f[k + 1 + 1] = f[k + 1] \o pieces[k + 1 + 1]  BY <2>2, <3>1, Zenon DEF Together
    <3>3. g[k + 1 + 1] = g[k + 1] \o more[k + 1 + 1]  BY <3>1, Zenon DEF Together
    <3>4. f[k + 1] = g[k + 1]  BY <3>1
    <3>5. pieces[k + 1 + 1] = more[k + 1 + 1]  BY <2>2, Zenon
    <3>. QED  BY <3>2, <3>3, <3>4, <3>5, Zenon
  <2>. QED  BY <2>1, <2>2
<1>3. G = Nat  BY <1>1, <1>2, AllNaturals
<1>4. n - 1 \in Nat /\ n - 1 + 1 = n /\ n \in 1..n /\ n \in 1..(n + 1) /\ n + 1 \in 1..(n + 1)  BY SMT
<1>5. f[n] = g[n]
  <2>1. n - 1 \in G  BY <1>3, <1>4, Zenon
  <2>2. n - 1 + 1 \in 1..n => f[n - 1 + 1] = g[n - 1 + 1]  BY <2>1
  <2>. QED  BY <1>4, <2>2, Zenon
<1>6. g[n + 1] = g[n] \o more[n + 1]  BY <1>4, Zenon DEF Together
<1>. QED  BY <1>5, <1>6, Zenon


LEMMA FlatEmpty == FlattenSeq(<<>>) = <<>>
BY DEF FlattenSeq

LEMMA FlatAppend ==
  ASSUME NEW S, NEW pieces \in Seq(Seq(S)), NEW piece \in Seq(S)
  PROVE  FlattenSeq(Append(pieces, piece)) = FlattenSeq(pieces) \o piece
<1>. DEFINE more == Append(pieces, piece)
            n == Len(pieces)
<1>1. /\ more \in Seq(Seq(S)) /\ Len(more) = n + 1 /\ n \in Nat /\ more # <<>>
      /\ \A i \in 1..n : pieces[i] = more[i]
      /\ more[n + 1] = piece
  BY AppendProperties, SMT
<1>. HIDE DEF more
<1>2. PICK g : Together(g, more, n + 1) /\ FlattenSeq(more) = g[n + 1]  BY <1>1, FlatIs
<1>3. CASE pieces = <<>>
  <2>1. n + 1 = 1  BY <1>3
  <2>2. FlattenSeq(more) = piece  BY <1>1, <1>2, <2>1, Zenon DEF Together
  <2>. QED  BY <1>3, <2>2, FlatEmpty, ConcatEmptySeq DEF more
<1>4. CASE pieces # <<>>
  <2>1. n # 0  BY <1>4, EmptySeq
  <2>2. PICK f : Together(f, pieces, n) /\ FlattenSeq(pieces) = f[n]  BY <1>4, FlatIs
  <2>3. g[n + 1] = f[n] \o more[n + 1]  BY <1>1, <1>2, <2>1, <2>2, TogetherAgrees, Zenon
  <2>. QED  BY <1>1, <1>2, <2>2, <2>3, Zenon DEF more
<1>. QED  BY <1>3, <1>4


(* A set of sequences that holds the empty one and, with each, the longer by
   one, is all of them. *)
LEMMA AllSequences ==
  ASSUME NEW T, NEW X \in SUBSET Seq(T), <<>> \in X, \A s \in X, e \in T : Append(s, e) \in X
  PROVE  X = Seq(T)
<1>. DEFINE G == {k \in Nat : \A s \in Seq(T) : Len(s) = k => s \in X}
<1>1. 0 \in G
  <2>1. \A s \in Seq(T) : Len(s) = 0 => s = <<>>  BY EmptySeq
  <2>. QED  BY <2>1
<1>2. ASSUME NEW k \in G PROVE k + 1 \in G
  <2>1. k \in Nat /\ k + 1 \in Nat  BY SMT
  <2>2. ASSUME NEW s \in Seq(T), Len(s) = k + 1 PROVE s \in X
    <3>1. PICK f \in Seq(T), e \in T : s = Append(f, e)
      <4>1. s # <<>>  BY <2>1, <2>2, EmptySeq, SMT
      <4>. QED  BY <4>1, SequenceEmptyOrAppend, Zenon
    <3>0. Len(f) = k
      <4>1. Len(s) = Len(f) + 1 /\ Len(f) \in Nat  BY <3>1, AppendProperties, LenProperties
      <4>. QED  BY <2>1, <2>2, <4>1, SMT
    <3>2. f \in X  BY <3>0
    <3>. QED  BY <3>1, <3>2, Zenon
  <2>. QED  BY <2>1, <2>2
<1>3. G = Nat
  <2>. HIDE DEF G
  <2>1. G \in SUBSET Nat  BY DEF G
  <2>. QED  BY <1>1, <1>2, <2>1, AllNaturals
<1>4. ASSUME NEW s \in Seq(T) PROVE s \in X
  <2>1. Len(s) \in G  BY <1>3, LenProperties
  <2>. QED  BY <2>1
<1>. QED  BY <1>4

LEMMA FlatType ==
  ASSUME NEW S, NEW P \in Seq(Seq(S))
  PROVE  FlattenSeq(P) \in Seq(S)
<1>. DEFINE X == {Q \in Seq(Seq(S)) : FlattenSeq(Q) \in Seq(S)}
<1>1. <<>> \in X  BY FlatEmpty, EmptySeq
<1>2. ASSUME NEW Q \in X, NEW x \in Seq(S) PROVE Append(Q, x) \in X
  <2>1. Q \in Seq(Seq(S)) /\ FlattenSeq(Q) \in Seq(S)  OBVIOUS
  <2>2. FlattenSeq(Append(Q, x)) = FlattenSeq(Q) \o x  BY <2>1, FlatAppend
  <2>3. FlattenSeq(Q) \o x \in Seq(S)  BY <2>1, ConcatProperties
  <2>4. Append(Q, x) \in Seq(Seq(S))  BY <2>1, AppendProperties
  <2>. QED  BY <2>2, <2>3, <2>4
<1>3. X \in SUBSET Seq(Seq(S))  OBVIOUS
<1>. HIDE DEF X
<1>4. X = Seq(Seq(S))  BY <1>1, <1>2, <1>3, AllSequences, Zenon
<1>. QED  BY <1>4 DEF X

LEMMA FlatConcat ==
  ASSUME NEW S, NEW P \in Seq(Seq(S)), NEW Q \in Seq(Seq(S))
  PROVE  FlattenSeq(P \o Q) = FlattenSeq(P) \o FlattenSeq(Q)
<1>. DEFINE X == {R \in Seq(Seq(S)) : FlattenSeq(P \o R) = FlattenSeq(P) \o FlattenSeq(R)}
<1>p. FlattenSeq(P) \in Seq(S)  BY FlatType
<1>1. <<>> \in X
  <2>1. P \o <<>> = P  BY ConcatEmptySeq
  <2>2. FlattenSeq(P) \o <<>> = FlattenSeq(P)  BY <1>p, ConcatEmptySeq
  <2>. QED  BY <2>1, <2>2, FlatEmpty, EmptySeq, Zenon
<1>2. ASSUME NEW R \in X, NEW x \in Seq(S) PROVE Append(R, x) \in X
  <2>1. R \in Seq(Seq(S)) /\ FlattenSeq(P \o R) = FlattenSeq(P) \o FlattenSeq(R)  OBVIOUS
  <2>2. P \o Append(R, x) = Append(P \o R, x)  BY <2>1, SMT
  <2>3. P \o R \in Seq(Seq(S)) /\ Append(R, x) \in Seq(Seq(S)) /\ FlattenSeq(R) \in Seq(S)  BY <2>1, FlatType, ConcatProperties, AppendProperties
  <2>4. FlattenSeq(Append(P \o R, x)) = FlattenSeq(P \o R) \o x  BY <2>3, FlatAppend
  <2>5. FlattenSeq(Append(R, x)) = FlattenSeq(R) \o x  BY <2>1, FlatAppend
  <2>6. (FlattenSeq(P) \o FlattenSeq(R)) \o x = FlattenSeq(P) \o (FlattenSeq(R) \o x)  BY <1>p, <2>3, ConcatAssociative
  <2>7. FlattenSeq(P \o Append(R, x)) = FlattenSeq(P) \o FlattenSeq(Append(R, x))
    BY <2>1, <2>2, <2>4, <2>5, <2>6, Zenon
  <2>. QED  BY <2>3, <2>7
<1>3. X \in SUBSET Seq(Seq(S))  OBVIOUS
<1>. HIDE DEF X
<1>4. X = Seq(Seq(S))  BY <1>1, <1>2, <1>3, AllSequences, Zenon
<1>. QED  BY <1>4 DEF X

(* Each piece's parts carry the event of its number: so the parts put together
   (F) are in the log's order, each found in its event's piece, and an event
   with one part is there once. *)
Owning(P) == \A k \in 1..Len(P) : \A j \in 1..Len(P[k]) : P[k][j].seq = k

Found(P, F) == \A i \in 1..Len(F) : F[i].seq \in 1..Len(P) /\ \E j \in 1..Len(P[F[i].seq]) : F[i] = P[F[i].seq][j]

Spread(P, F) == \A k \in 1..Len(P) : \A j \in 1..Len(P[k]) : \E i \in 1..Len(F) : F[i] = P[k][j]

InLine(F) == \A i, j \in 1..Len(F) : i <= j => F[i].seq <= F[j].seq

Single(P, F) == \A i, j \in 1..Len(F) : F[i].seq = F[j].seq /\ Len(P[F[i].seq]) <= 1 => i = j

Laid(P, F) == Found(P, F) /\ Spread(P, F) /\ InLine(F) /\ Single(P, F)

LEMMA LaidEmpty == Laid(<<>>, <<>>)
BY EmptySeq, SMT DEF Laid, Found, Spread, InLine, Single

(* One piece more. *)
LEMMA LaidMore ==
  ASSUME NEW P \in Seq(Seq(Parts)), NEW F \in Seq(Parts), NEW x \in Seq(Parts),
         Laid(P, F), \A j \in 1..Len(x) : x[j].seq = Len(P) + 1
  PROVE  Laid(Append(P, x), F \o x)
<1>. DEFINE R == Append(P, x)
            H == F \o x
            n == Len(P)
            m == Len(F)
            l == Len(x)
<1>1. /\ n \in Nat /\ m \in Nat /\ l \in Nat /\ Len(R) = n + 1 /\ Len(H) = m + l
      /\ \A k \in 1..n : R[k] = P[k]
      /\ R[n + 1] = x
  BY LenProperties, AppendProperties, ConcatProperties
<1>2. /\ \A i \in 1..m : H[i] = F[i]
      /\ \A j \in 1..l : H[m + j] = x[j]
  <2>1. \A i \in 1..(m + l) : H[i] = IF i <= m THEN F[i] ELSE x[i - m]  BY ConcatProperties
  <2>. HIDE DEF H, m, l
  <2>2. \A i \in 1..m : i \in 1..(m + l) /\ i <= m  BY <1>1, SMT
  <2>4. ASSUME NEW i \in 1..m PROVE H[i] = F[i]  BY <2>1, <2>2, Zenon
  <2>5. ASSUME NEW j \in 1..l PROVE H[m + j] = x[j]
    <3>0. m + j \in 1..(m + l) /\ ~(m + j <= m) /\ m + j - m = j  BY <1>1, SMT
    <3>1. PICK k \in 1..(m + l) : k = m + j /\ ~(k <= m) /\ k - m = j  BY <3>0, <1>1, SMT
    <3>2. H[k] = x[k - m]  BY <2>1, <3>1, Zenon
    <3>. QED  BY <3>1, <3>2, Zenon
  <2>. QED  BY <2>4, <2>5, Zenon
<1>. HIDE DEF R, H, n, m, l
<1>3. ASSUME NEW i \in 1..(m + l) PROVE i \in 1..m \/ \E j \in 1..l : i = m + j
  <2>1. CASE i <= m  BY <2>1, <1>1, SMT
  <2>2. CASE ~(i <= m)
    <3>1. i - m \in 1..l /\ i = m + (i - m)  BY <2>2, <1>1, SMT
    <3>. QED  BY <3>1, Zenon
  <2>. QED  BY <2>1, <2>2
<1>4. \A i \in 1..m : F[i].seq \in 1..n  BY Zenon DEF Laid, Found, n, m
<1>5. \A j \in 1..l : x[j].seq = n + 1  BY Zenon DEF n, l
<1>6. \A k \in 1..n : k \in 1..(n + 1) /\ k # n + 1 /\ k <= n + 1 /\ ~(n + 1 <= k)  BY <1>1, SMT
<1>7. n + 1 \in 1..(n + 1) /\ n + 1 <= n + 1  BY <1>1, SMT
<1>8. /\ \A i \in 1..m : i \in 1..(m + l)
      /\ \A j \in 1..l : m + j \in 1..(m + l)
      /\ \A i \in 1..m, j \in 1..l : ~(m + j <= i)
  BY <1>1, SMT
<1>9. Found(R, H)
  <2>. SUFFICES ASSUME NEW i \in 1..(m + l)
                PROVE  H[i].seq \in 1..(n + 1) /\ \E j \in 1..Len(R[H[i].seq]) : H[i] = R[H[i].seq][j]
    BY <1>1, Zenon DEF Found
  <2>1. CASE i \in 1..m
    <3>1. H[i] = F[i] /\ F[i].seq \in 1..n /\ \E j \in 1..Len(P[F[i].seq]) : F[i] = P[F[i].seq][j]
      BY <1>2, <2>1, Zenon DEF Laid, Found, n, m
    <3>2. R[F[i].seq] = P[F[i].seq]  BY <1>1, <3>1, Zenon
    <3>. QED  BY <1>6, <3>1, <3>2, Zenon
  <2>2. ASSUME NEW j \in 1..l, i = m + j
        PROVE  H[i].seq \in 1..(n + 1) /\ \E h \in 1..Len(R[H[i].seq]) : H[i] = R[H[i].seq][h]
    <3>1. H[i] = x[j] /\ x[j].seq = n + 1  BY <1>2, <1>5, <2>2, Zenon
    <3>2. R[n + 1] = x /\ j \in 1..Len(x)  BY <1>1 DEF l
    <3>. QED  BY <1>7, <3>1, <3>2, Zenon
  <2>. QED  BY <1>3, <2>1, <2>2, Zenon
<1>10. Spread(R, H)
  <2>. SUFFICES ASSUME NEW k \in 1..(n + 1), NEW j \in 1..Len(R[k])
                PROVE  \E i \in 1..(m + l) : H[i] = R[k][j]
    BY <1>1, Zenon DEF Spread
  <2>1. CASE k \in 1..n
    <3>1. R[k] = P[k]  BY <1>1, <2>1, Zenon
    <3>2. PICK i \in 1..m : F[i] = P[k][j]  BY <2>1, <3>1, Zenon DEF Laid, Spread, n, m
    <3>. QED  BY <1>2, <1>8, <3>1, <3>2, Zenon
  <2>2. CASE k = n + 1
    <3>1. R[k] = x /\ j \in 1..l  BY <1>1, <2>2, Zenon DEF l
    <3>. QED  BY <1>2, <1>8, <3>1, Zenon
  <2>3. k \in 1..n \/ k = n + 1  BY <1>1, SMT
  <2>. QED  BY <2>1, <2>2, <2>3
<1>11. InLine(H)
  <2>. SUFFICES ASSUME NEW i \in 1..(m + l), NEW j \in 1..(m + l), i <= j
                PROVE  H[i].seq <= H[j].seq
    BY <1>1, Zenon DEF InLine
  <2>1. CASE i \in 1..m /\ j \in 1..m
    BY <1>2, <2>1, Zenon DEF Laid, InLine, m
  <2>2. ASSUME i \in 1..m, NEW b \in 1..l, j = m + b PROVE H[i].seq <= H[j].seq
    BY <1>2, <1>4, <1>5, <1>6, <2>2, Zenon
  <2>3. ASSUME NEW a \in 1..l, i = m + a, NEW b \in 1..l, j = m + b PROVE H[i].seq <= H[j].seq
    BY <1>2, <1>5, <1>7, <2>3, Zenon
  <2>4. ASSUME NEW a \in 1..l, i = m + a, j \in 1..m PROVE FALSE
    BY <1>8, <2>4, Zenon
  <2>. QED  BY <1>3, <2>1, <2>2, <2>3, <2>4, Zenon
<1>12. Single(R, H)
  <2>. SUFFICES ASSUME NEW i \in 1..(m + l), NEW j \in 1..(m + l), H[i].seq = H[j].seq, Len(R[H[i].seq]) <= 1
                PROVE  i = j
    BY <1>1, Zenon DEF Single
  <2>1. CASE i \in 1..m /\ j \in 1..m
    <3>1. H[i] = F[i] /\ H[j] = F[j] /\ R[F[i].seq] = P[F[i].seq]  BY <1>1, <1>2, <1>4, <2>1, Zenon
    <3>. QED  BY <2>1, <3>1, Zenon DEF Laid, Single, m
  <2>2. ASSUME i \in 1..m, NEW b \in 1..l, j = m + b PROVE FALSE
    BY <1>2, <1>4, <1>5, <1>6, <2>2, Zenon
  <2>3. ASSUME NEW a \in 1..l, i = m + a, NEW b \in 1..l, j = m + b PROVE i = j
    <3>1. H[i].seq = n + 1 /\ R[n + 1] = x  BY <1>1, <1>2, <1>5, <2>3, Zenon
    <3>2. l <= 1  BY <3>1, Zenon DEF l
    <3>. QED  BY <1>1, <2>3, <3>2, SMT
  <2>4. ASSUME NEW a \in 1..l, i = m + a, j \in 1..m PROVE FALSE
    BY <1>2, <1>4, <1>5, <1>6, <2>4, Zenon
  <2>. QED  BY <1>3, <2>1, <2>2, <2>3, <2>4, Zenon
<1>. QED  BY <1>9, <1>10, <1>11, <1>12 DEF Laid, R, H

LEMMA FlatLaid ==
  ASSUME NEW P \in Seq(Seq(Parts)), Owning(P)
  PROVE  Laid(P, FlattenSeq(P))
<1>. DEFINE X == {Q \in Seq(Seq(Parts)) : Owning(Q) => Laid(Q, FlattenSeq(Q))}
<1>1. <<>> \in X  BY FlatEmpty, LaidEmpty, EmptySeq
<1>2. ASSUME NEW Q \in X, NEW x \in Seq(Parts) PROVE Append(Q, x) \in X
  <2>1. Q \in Seq(Seq(Parts))  OBVIOUS
  <2>2. /\ Append(Q, x) \in Seq(Seq(Parts)) /\ Len(Append(Q, x)) = Len(Q) + 1 /\ Len(Q) \in Nat
        /\ \A k \in 1..Len(Q) : Append(Q, x)[k] = Q[k]
        /\ Append(Q, x)[Len(Q) + 1] = x
    BY <2>1, AppendProperties, LenProperties
  <2>3. ASSUME Owning(Append(Q, x)) PROVE Laid(Append(Q, x), FlattenSeq(Append(Q, x)))
    <3>1. 1..Len(Q) \subseteq 1..(Len(Q) + 1) /\ Len(Q) + 1 \in 1..(Len(Q) + 1)  BY <2>2, SMT
    <3>2. Owning(Q) /\ \A j \in 1..Len(x) : x[j].seq = Len(Q) + 1
      BY <2>2, <2>3, <3>1, Zenon DEF Owning
    <3>3. Laid(Q, FlattenSeq(Q))  BY <3>2
    <3>4. FlattenSeq(Q) \in Seq(Parts) /\ FlattenSeq(Append(Q, x)) = FlattenSeq(Q) \o x
      BY <2>1, FlatType, FlatAppend
    <3>5. Laid(Append(Q, x), FlattenSeq(Q) \o x)  BY <2>1, <3>2, <3>3, <3>4, LaidMore
    <3>. QED  BY <3>4, <3>5
  <2>. QED  BY <2>2, <2>3
<1>3. X \in SUBSET Seq(Seq(Parts))  OBVIOUS
<1>. HIDE DEF X
<1>4. X = Seq(Seq(Parts))  BY <1>1, <1>2, <1>3, AllSequences, Zenon
<1>. QED  BY <1>4 DEF X

(* A function on 1..n is a sequence. *)
Runs(h, n) == h = [i \in 1..n |-> h[i]]

LEMMA RunsIsSeq ==
  ASSUME NEW S, NEW n \in Nat, NEW h, Runs(h, n), \A i \in 1..n : h[i] \in S
  PROVE  h \in Seq(S) /\ Len(h) = n /\ DOMAIN h = 1..n
<1>1. h = [i \in 1..n |-> h[i]]  BY DEF Runs
<1>2. h \in [1..n -> S]  BY <1>1, Zenon
<1>3. h \in Seq(S)  BY <1>2, SeqDef, Zenon
<1>4. Len(h) \in Nat /\ 1..Len(h) = 1..n /\ DOMAIN h = 1..n  BY <1>2, <1>3, LenProperties, Zenon
<1>5. Len(h) = n  BY <1>4, SMT
<1>. QED  BY <1>3, <1>4, <1>5

(* The shape of parts put together is that of the pieces, put together. *)
Shapes == Nat \X {"user", "assistant"} \X BOOLEAN

ShapeOf(part) == <<part.seq, part.role, part.form \in {"line", "gist"}>>

LEMMA ShapeType ==
  ASSUME NEW parts \in Seq(Parts)
  PROVE  /\ Shape(parts) \in Seq(Shapes) /\ Len(Shape(parts)) = Len(parts)
         /\ \A i \in 1..Len(parts) : Shape(parts)[i] = ShapeOf(parts[i])
<1>1. Len(parts) \in Nat /\ DOMAIN parts = 1..Len(parts) /\ \A i \in 1..Len(parts) : parts[i] \in Parts
  BY LenProperties, ElementOfSeq
<1>2. ASSUME NEW part \in Parts PROVE ShapeOf(part) \in Shapes
  <2>1. part.seq \in Nat /\ part.role \in {"user", "assistant"} /\ (part.form \in {"line", "gist"}) \in BOOLEAN
    BY DEF Parts
  <2>. QED  BY <2>1, Zenon DEF Shapes, ShapeOf
<1>3. Shape(parts) = [i \in 1..Len(parts) |-> ShapeOf(parts[i])]
  BY <1>1, Zenon DEF Shape, ShapeOf
<1>4. \A i \in 1..Len(parts) : ShapeOf(parts[i]) \in Shapes  BY <1>1, <1>2
<1>5. Shape(parts) \in Seq(Shapes) /\ Len(Shape(parts)) = Len(parts)
  <2>. DEFINE n == Len(parts)
              h == [i \in 1..n |-> ShapeOf(parts[i])]
  <2>1. n \in Nat /\ \A i \in 1..n : h[i] \in Shapes  BY <1>1, <1>4
  <2>2. Runs(h, n)  BY DEF Runs
  <2>3. Shape(parts) = h  BY <1>3, Zenon
  <2>. HIDE DEF h, n
  <2>4. h \in Seq(Shapes) /\ Len(h) = n  BY <2>1, <2>2, RunsIsSeq, Zenon
  <2>. QED  BY <2>3, <2>4, Zenon DEF n
<1>. QED  BY <1>3, <1>5

LEMMA ShapeConcat ==
  ASSUME NEW s \in Seq(Parts), NEW t \in Seq(Parts)
  PROVE  Shape(s \o t) = Shape(s) \o Shape(t)
<1>1. /\ s \o t \in Seq(Parts) /\ Len(s \o t) = Len(s) + Len(t)
      /\ \A i \in 1..(Len(s) + Len(t)) : (s \o t)[i] = IF i <= Len(s) THEN s[i] ELSE t[i - Len(s)]
      /\ Len(s) \in Nat /\ Len(t) \in Nat
  BY ConcatProperties, LenProperties
<1>2. /\ Shape(s) \in Seq(Shapes) /\ Len(Shape(s)) = Len(s) /\ \A i \in 1..Len(s) : Shape(s)[i] = ShapeOf(s[i])
      /\ Shape(t) \in Seq(Shapes) /\ Len(Shape(t)) = Len(t) /\ \A i \in 1..Len(t) : Shape(t)[i] = ShapeOf(t[i])
  BY ShapeType
<1>3. /\ Shape(s \o t) \in Seq(Shapes) /\ Len(Shape(s \o t)) = Len(s) + Len(t)
      /\ \A i \in 1..(Len(s) + Len(t)) : Shape(s \o t)[i] = ShapeOf((s \o t)[i])
  <2>1. Len(s \o t) = Len(s) + Len(t) /\ s \o t \in Seq(Parts)  BY <1>1
  <2>. QED  BY <2>1, ShapeType, Zenon
<1>4. /\ Shape(s) \o Shape(t) \in Seq(Shapes) /\ Len(Shape(s) \o Shape(t)) = Len(s) + Len(t)
      /\ \A i \in 1..(Len(s) + Len(t)) :
           (Shape(s) \o Shape(t))[i] = IF i <= Len(s) THEN Shape(s)[i] ELSE Shape(t)[i - Len(s)]
  <2>. DEFINE u == Shape(s)
              v == Shape(t)
  <2>1. u \in Seq(Shapes) /\ v \in Seq(Shapes) /\ Len(u) = Len(s) /\ Len(v) = Len(t)  BY <1>2
  <2>. HIDE DEF u, v
  <2>2. /\ u \o v \in Seq(Shapes) /\ Len(u \o v) = Len(u) + Len(v)
        /\ \A i \in 1..(Len(u) + Len(v)) : (u \o v)[i] = IF i <= Len(u) THEN u[i] ELSE v[i - Len(u)]
    BY <2>1, ConcatProperties
  <2>. QED  BY <2>1, <2>2, Zenon DEF u, v
<1>5. ASSUME NEW i \in 1..(Len(s) + Len(t)) PROVE Shape(s \o t)[i] = (Shape(s) \o Shape(t))[i]
  <2>1. CASE i <= Len(s)
    <3>1. i \in 1..Len(s)  BY <1>1, <2>1, SMT
    <3>. QED  BY <1>1, <1>2, <1>3, <1>4, <2>1, <3>1, Zenon
  <2>2. CASE ~(i <= Len(s))
    <3>1. i - Len(s) \in 1..Len(t)  BY <1>1, <2>2, SMT
    <3>. QED  BY <1>1, <1>2, <1>3, <1>4, <2>2, <3>1, Zenon
  <2>. QED  BY <2>1, <2>2
<1>. QED  BY <1>3, <1>4, <1>5, SeqEqual, Zenon

Shaped(P) == [k \in 1..Len(P) |-> Shape(P[k])]

LEMMA ShapedMore ==
  ASSUME NEW P \in Seq(Seq(Parts)), NEW x \in Seq(Parts)
  PROVE  /\ Shaped(P) \in Seq(Seq(Shapes))
         /\ Shaped(Append(P, x)) = Append(Shaped(P), Shape(x))
<1>1. /\ Append(P, x) \in Seq(Seq(Parts)) /\ Len(Append(P, x)) = Len(P) + 1 /\ Len(P) \in Nat
      /\ \A k \in 1..Len(P) : Append(P, x)[k] = P[k]
      /\ Append(P, x)[Len(P) + 1] = x
  BY AppendProperties, LenProperties
<1>2. ASSUME NEW Q \in Seq(Seq(Parts)) PROVE Shaped(Q) \in Seq(Seq(Shapes)) /\ Len(Shaped(Q)) = Len(Q)
  <2>. DEFINE n == Len(Q)
              h == [i \in 1..n |-> Shape(Q[i])]
  <2>1. n \in Nat /\ \A i \in 1..n : Q[i] \in Seq(Parts)  BY LenProperties, ElementOfSeq
  <2>2. \A i \in 1..n : h[i] \in Seq(Shapes)  BY <2>1, ShapeType
  <2>3. Runs(h, n)  BY DEF Runs
  <2>4. Shaped(Q) = h  BY DEF Shaped
  <2>. HIDE DEF h, n
  <2>5. h \in Seq(Seq(Shapes)) /\ Len(h) = n  BY <2>1, <2>2, <2>3, RunsIsSeq
  <2>. QED  BY <2>4, <2>5, Zenon DEF n
<1>3. Shape(x) \in Seq(Shapes)  BY ShapeType
<1>. DEFINE a == Shaped(Append(P, x))
            b == Append(Shaped(P), Shape(x))
            m == Len(P)
<1>4. a \in Seq(Seq(Shapes)) /\ Len(a) = m + 1 /\ Shaped(P) \in Seq(Seq(Shapes)) /\ Len(Shaped(P)) = m
  BY <1>1, <1>2
<1>5. b \in Seq(Seq(Shapes)) /\ Len(b) = m + 1 /\ b[m + 1] = Shape(x) /\ \A k \in 1..m : b[k] = Shaped(P)[k]
  BY <1>3, <1>4, AppendProperties
<1>6. \A k \in 1..(m + 1) : a[k] = Shape(Append(P, x)[k])  BY <1>1 DEF Shaped
<1>7. \A k \in 1..m : Shaped(P)[k] = Shape(P[k])  BY DEF Shaped
<1>8. ASSUME NEW k \in 1..(m + 1) PROVE a[k] = b[k]
  <2>1. CASE k \in 1..m
    BY <1>1, <1>5, <1>6, <1>7, <2>1, Zenon
  <2>2. CASE k = m + 1
    BY <1>1, <1>5, <1>6, <2>2, Zenon
  <2>3. k \in 1..m \/ k = m + 1  BY <1>1, SMT
  <2>. QED  BY <2>1, <2>2, <2>3
<1>9. a = b
  <2>. HIDE DEF a, b, m
  <2>. QED  BY <1>4, <1>5, <1>8, SeqEqual, Zenon
<1>. QED  BY <1>4, <1>9

LEMMA FlatShape ==
  ASSUME NEW P \in Seq(Seq(Parts))
  PROVE  Shape(FlattenSeq(P)) = FlattenSeq(Shaped(P))
<1>. DEFINE X == {Q \in Seq(Seq(Parts)) : Shape(FlattenSeq(Q)) = FlattenSeq(Shaped(Q))}
<1>1. <<>> \in X
  <2>1. Shaped(<<>>) = <<>> /\ Shape(<<>>) = <<>>  BY DEF Shaped, Shape
  <2>. QED  BY <2>1, FlatEmpty, EmptySeq
<1>2. ASSUME NEW Q \in X, NEW x \in Seq(Parts) PROVE Append(Q, x) \in X
  <2>1. Q \in Seq(Seq(Parts)) /\ Shape(FlattenSeq(Q)) = FlattenSeq(Shaped(Q))  OBVIOUS
  <2>2. FlattenSeq(Append(Q, x)) = FlattenSeq(Q) \o x /\ FlattenSeq(Q) \in Seq(Parts)  BY <2>1, FlatAppend, FlatType
  <2>3. Shape(FlattenSeq(Q) \o x) = Shape(FlattenSeq(Q)) \o Shape(x)  BY <2>2, ShapeConcat
  <2>4. Shaped(Append(Q, x)) = Append(Shaped(Q), Shape(x)) /\ Shaped(Q) \in Seq(Seq(Shapes)) /\ Shape(x) \in Seq(Shapes)
    BY <2>1, ShapedMore, ShapeType
  <2>5. FlattenSeq(Append(Shaped(Q), Shape(x))) = FlattenSeq(Shaped(Q)) \o Shape(x)  BY <2>4, FlatAppend
  <2>6. Append(Q, x) \in Seq(Seq(Parts))  BY <2>1, AppendProperties
  <2>. QED  BY <2>1, <2>2, <2>3, <2>4, <2>5, <2>6, Zenon
<1>3. X \in SUBSET Seq(Seq(Parts))  OBVIOUS
<1>. HIDE DEF X
<1>4. X = Seq(Seq(Parts))  BY <1>1, <1>2, <1>3, AllSequences, Zenon
<1>. QED  BY <1>4 DEF X

LEMMA ShapesAgree ==
  ASSUME NEW P \in Seq(Seq(Parts)), NEW Q \in Seq(Seq(Parts)), Len(P) = Len(Q),
         \A k \in 1..Len(P) : Shape(P[k]) = Shape(Q[k])
  PROVE  Shape(FlattenSeq(P)) = Shape(FlattenSeq(Q))
<1>1. Shaped(P) = Shaped(Q)  BY Zenon DEF Shaped
<1>. QED  BY <1>1, FlatShape, Zenon

-----------------------------------------------------------------------------
(* What History leaves out: nothing up to the last word of Hermes'. *)
Upto(parts, m) ==
  /\ m \in 0..Len(parts)
  /\ \A i \in 1..Len(parts) : parts[i].role = "assistant" => i <= m
  /\ m # 0 => parts[m].role = "assistant"

LEMMA WithoutInputIs ==
  ASSUME NEW parts \in Seq(Parts)
  PROVE  \E m : Upto(parts, m) /\ WithoutInput(parts) = SubSeq(parts, 1, m)
<1>. DEFINE said == {i \in 1..Len(parts) : parts[i].role = "assistant"}
<1>1. Len(parts) \in Nat /\ DOMAIN parts = 1..Len(parts)  BY LenProperties
<1>2. CASE said = {}
  <2>1. WithoutInput(parts) = <<>>  BY <1>1, <1>2, Zenon DEF WithoutInput
  <2>2. SubSeq(parts, 1, 0) = <<>>  BY SubSeqEmpty, SMT
  <2>3. Upto(parts, 0)
    <3>1. 0 \in 0..Len(parts)  BY <1>1, SMT
    <3>. QED  BY <1>2, <3>1 DEF Upto
  <2>. QED  BY <2>1, <2>2, <2>3, Zenon
<1>3. CASE said # {}
  <2>1. said \in SUBSET (0..Len(parts))  BY <1>1, SMT
  <2>2. PICK m \in said : \A j \in said : j <= m
    <3>. HIDE DEF said
    <3>. QED  BY <1>1, <1>3, <2>1, Greatest, Zenon
  <2>. DEFINE c == CHOOSE i \in said : \A j \in said : j <= i
  <2>4. c \in said /\ \A j \in said : j <= c  BY <2>2, Zenon
  <2>5. WithoutInput(parts) = SubSeq(parts, 1, c)  BY <1>1, <1>3, Zenon DEF WithoutInput
  <2>. HIDE DEF c
  <2>6. c \in 1..Len(parts) /\ c \in 0..Len(parts)  BY <1>1, <2>4, SMT
  <2>7. Upto(parts, c)  BY <2>4, <2>6, Zenon DEF Upto
  <2>. QED  BY <2>5, <2>7, Zenon
<1>. QED  BY <1>2, <1>3

(* The history, part by part. *)
LEMMA WithoutInputOf ==
  ASSUME NEW parts \in Seq(Parts), NEW m, Upto(parts, m), WithoutInput(parts) = SubSeq(parts, 1, m)
  PROVE  /\ WithoutInput(parts) \in Seq(Parts) /\ Len(WithoutInput(parts)) = m
         /\ \A i \in 1..m : WithoutInput(parts)[i] = parts[i] /\ i \in 1..Len(parts)
<1>1. Len(parts) \in Nat /\ m \in 0..Len(parts) /\ \A i \in 1..Len(parts) : parts[i] \in Parts
  BY LenProperties, ElementOfSeq DEF Upto
<1>2. 1 \in Int /\ m \in Int /\ \A i \in 1..m : i \in 1..Len(parts)  BY <1>1, SMT
<1>3. \A i \in 1..m : parts[i] \in Parts  BY <1>1, <1>2
<1>4. /\ SubSeq(parts, 1, m) \in Seq(Parts)
      /\ Len(SubSeq(parts, 1, m)) = IF 1 <= m THEN m - 1 + 1 ELSE 0
      /\ \A i \in 1..(m - 1 + 1) : SubSeq(parts, 1, m)[i] = parts[1 + i - 1]
  BY <1>2, <1>3, SubSeqProperties
<1>5. (IF 1 <= m THEN m - 1 + 1 ELSE 0) = m /\ m - 1 + 1 = m /\ \A i \in 1..m : 1 + i - 1 = i  BY <1>1, SMT
<1>. QED  BY <1>2, <1>4, <1>5, Zenon

(* What is added behind only adds to the history. *)
LEMMA WithoutInputGrows ==
  ASSUME NEW parts \in Seq(Parts), NEW more \in Seq(Parts)
  PROVE  IsPrefix(WithoutInput(parts), WithoutInput(parts \o more))
<1>. DEFINE all == parts \o more
<1>1. /\ all \in Seq(Parts) /\ Len(all) = Len(parts) + Len(more) /\ Len(parts) \in Nat /\ Len(more) \in Nat
      /\ \A i \in 1..Len(parts) : all[i] = parts[i] /\ i \in 1..Len(all)
  <2>1. \A i \in 1..(Len(parts) + Len(more)) : all[i] = IF i <= Len(parts) THEN parts[i] ELSE more[i - Len(parts)]
    BY ConcatProperties
  <2>2. all \in Seq(Parts) /\ Len(all) = Len(parts) + Len(more) /\ Len(parts) \in Nat /\ Len(more) \in Nat
    BY ConcatProperties, LenProperties
  <2>. HIDE DEF all
  <2>3. \A i \in 1..Len(parts) : i \in 1..(Len(parts) + Len(more)) /\ i <= Len(parts)  BY <2>2, SMT
  <2>. QED  BY <2>1, <2>2, <2>3, Zenon
<1>. HIDE DEF all
<1>2. PICK m : Upto(parts, m) /\ WithoutInput(parts) = SubSeq(parts, 1, m)  BY WithoutInputIs
<1>3. PICK n : Upto(all, n) /\ WithoutInput(all) = SubSeq(all, 1, n)  BY <1>1, WithoutInputIs
<1>. DEFINE s == WithoutInput(parts)
            t == WithoutInput(all)
<1>4. s \in Seq(Parts) /\ Len(s) = m /\ \A i \in 1..m : s[i] = parts[i] /\ i \in 1..Len(parts)
  BY <1>2, WithoutInputOf
<1>5. t \in Seq(Parts) /\ Len(t) = n /\ \A i \in 1..n : t[i] = all[i]
  BY <1>1, <1>3, WithoutInputOf
<1>6. m \in Nat /\ n \in Nat /\ m <= n
  <2>1. m \in 0..Len(parts) /\ n \in 0..Len(all)  BY <1>2, <1>3 DEF Upto
  <2>2. CASE m = 0  BY <1>1, <2>1, <2>2, SMT
  <2>3. CASE m # 0
    <3>1. m \in 1..Len(parts) /\ parts[m].role = "assistant"
      <4>1. m \in 1..Len(parts)  BY <1>1, <2>1, <2>3, SMT
      <4>. QED  BY <1>2, <2>3, <4>1 DEF Upto
    <3>2. m <= n  BY <1>1, <1>3, <3>1, Zenon DEF Upto
    <3>. QED  BY <1>1, <2>1, <3>2, SMT
  <2>. QED  BY <2>2, <2>3
<1>7. \A i \in 1..m : s[i] = t[i]
  <2>1. \A i \in 1..m : i \in 1..n  BY <1>6, SMT
  <2>. QED  BY <1>1, <1>4, <1>5, <2>1, Zenon
<1>. HIDE DEF s, t
<1>8. SubSeq(s, 1, Len(s)) = s  BY <1>4, SubSeqFull
<1>9. SubSeq(t, 1, m) \in Seq(Parts) /\ Len(SubSeq(t, 1, m)) = m /\ \A i \in 1..m : SubSeq(t, 1, m)[i] = t[i]
  BY <1>5, <1>6, SMT
<1>10. SubSeq(t, 1, m) = s  BY <1>4, <1>7, <1>9, SeqEqual, Zenon
<1>. QED  BY <1>4, <1>5, <1>6, <1>8, <1>10, Zenon DEF IsPrefix, s, t, all

-----------------------------------------------------------------------------
(* The pieces of a transcript. *)
LEMMA FirstIs ==
  ASSUME NEW refs \in SUBSET Nat, refs # {}
  PROVE  First(refs) \in refs /\ \A s \in refs : First(refs) <= s
<1>1. \E r \in refs : \A s \in refs : r <= s  BY Least
<1>. QED  BY <1>1, Zenon DEF First

LEMMA SeenType ==
  ASSUME NEW A \in Seq(LogEvents), NEW e, NEW o
  PROVE  Seen(A, e, o) \in SUBSET Nat
<1>1. \A i \in DOMAIN A : A[i] \in LogEvents  BY LenProperties, ElementOfSeq
<1>2. \A i \in DOMAIN A : A[i].ref \in Nat  BY <1>1, Zenon DEF LogEvents
<1>. QED  BY <1>2, Zenon DEF Seen

(* One part, of e. *)
Says(P, e, role, forms) ==
  \E part \in Parts : P = <<part>> /\ part.seq = e.seq /\ part.role = role /\ part.form \in forms

LEMMA PartSays ==
  ASSUME NEW e \in LogEvents, NEW role \in {"user", "assistant"},
         NEW form \in {"full", "cut", "line", "same", "gist"}, NEW of \in Nat
  PROVE  /\ Part(e, role, form, of) \in Parts
         /\ Part(e, role, form, of).seq = e.seq /\ Part(e, role, form, of).role = role
         /\ Part(e, role, form, of).form = form /\ Part(e, role, form, of).of = of
<1>1. e.seq \in Nat  BY DEF LogEvents
<1>. QED  BY <1>1, Zenon DEF Part, Parts

LEMMA UserSays ==
  ASSUME NEW e \in LogEvents, NEW form \in {"full", "cut", "line", "same", "gist"}
  PROVE  Says(User(e, form), e, "user", {form}) /\ Says(Assistant(e, form), e, "assistant", {form})
<1>1. 0 \in Nat  OBVIOUS
<1>2. /\ Part(e, "user", form, 0) \in Parts /\ Part(e, "user", form, 0).seq = e.seq
      /\ Part(e, "user", form, 0).role = "user" /\ Part(e, "user", form, 0).form = form
  BY <1>1, PartSays
<1>3. /\ Part(e, "assistant", form, 0) \in Parts /\ Part(e, "assistant", form, 0).seq = e.seq
      /\ Part(e, "assistant", form, 0).role = "assistant" /\ Part(e, "assistant", form, 0).form = form
  BY <1>1, PartSays
<1>4. Says(User(e, form), e, "user", {form})  BY <1>2, Zenon DEF Says, User
<1>5. Says(Assistant(e, form), e, "assistant", {form})  BY <1>3, Zenon DEF Says, Assistant
<1>. QED  BY <1>4, <1>5

LEMMA OnePart ==
  ASSUME NEW P, NEW e, NEW role, NEW forms, Says(P, e, role, forms)
  PROVE  /\ P \in Seq(Parts) /\ Len(P) = 1 /\ 1 \in 1..Len(P)
         /\ \A j \in 1..Len(P) : j = 1 /\ P[j].seq = e.seq /\ P[j].role = role /\ P[j].form \in forms
<1>1. PICK part \in Parts : P = <<part>> /\ part.seq = e.seq /\ part.role = role /\ part.form \in forms
  BY DEF Says
<1>2. P \in Seq(Parts) /\ Len(P) = 1 /\ P[1] = part  BY <1>1
<1>3. 1 \in 1..Len(P) /\ \A j \in 1..Len(P) : j = 1  BY <1>2, SMT
<1>4. ASSUME NEW j \in 1..Len(P) PROVE P[j].seq = e.seq /\ P[j].role = role /\ P[j].form \in forms
  <2>1. P[j] = part  BY <1>2, <1>3
  <2>. QED  BY <1>1, <2>1
<1>. QED  BY <1>2, <1>3, <1>4

(* A round's results, not elided: a reference to the first time they went, or
   whole.                                                                   *)
Repeats(P, A, e, o) ==
  \A j \in 1..Len(P) : P[j].form = "same" =>
    e.out \in Hashed /\ Seen(A, e, o) # {} /\ P[j].of = First(Seen(A, e, o))

LEMMA ResultsAre ==
  ASSUME NEW A \in Seq(LogEvents), NEW e \in LogEvents, NEW o
  PROVE  /\ Elided(e, o) => Says(Results(A, e, o), e, "user", {IF e.out \in Short THEN "full" ELSE "line"})
         /\ ~Elided(e, o) => Says(Results(A, e, o), e, "user", {"full", "cut", "same"})
         /\ ~Elided(e, o) /\ (e.out \notin Hashed \/ Seen(A, e, o) = {}) => Says(Results(A, e, o), e, "user", {"full", "cut"})
         /\ Repeats(Results(A, e, o), A, e, o)
<1>. DEFINE P == Results(A, e, o)
<1>1. ASSUME Elided(e, o)
      PROVE  Says(P, e, "user", {IF e.out \in Short THEN "full" ELSE "line"}) /\ Repeats(P, A, e, o)
  <2>1. P = User(e, IF e.out \in Short THEN "full" ELSE "line")  BY <1>1, Zenon DEF Results, AsLine
  <2>2. Says(P, e, "user", {IF e.out \in Short THEN "full" ELSE "line"})
    BY <2>1, UserSays
  <2>3. \A j \in 1..Len(P) : P[j].form \in {IF e.out \in Short THEN "full" ELSE "line"}
    BY <2>2, OnePart, Zenon
  <2>4. \A j \in 1..Len(P) : P[j].form # "same"
    BY <2>3
  <2>. QED  BY <2>2, <2>4, Zenon DEF Repeats
<1>2. ASSUME ~Elided(e, o), e.out \in Hashed, Seen(A, e, o) # {}
      PROVE  Says(P, e, "user", {"same"}) /\ Repeats(P, A, e, o)
  <2>. DEFINE of == First(Seen(A, e, o))
              part == Part(e, "user", "same", of)
  <2>1. P = <<part>>  BY <1>2, Zenon DEF Results
  <2>2. of \in Nat
    <3>1. Seen(A, e, o) \in SUBSET Nat  BY SeenType
    <3>. QED  BY <1>2, <3>1, FirstIs, Zenon
  <2>. HIDE DEF of
  <2>3. part \in Parts /\ part.seq = e.seq /\ part.role = "user" /\ part.form = "same" /\ part.of = of
    BY <2>2, PartSays
  <2>. HIDE DEF part
  <2>4. Says(P, e, "user", {"same"})  BY <2>1, <2>3, Zenon DEF Says
  <2>5. \A j \in 1..Len(P) : j = 1  BY <2>4, OnePart
  <2>6. P[1] = part  BY <2>1
  <2>7. \A j \in 1..Len(P) : P[j].of = of  BY <2>3, <2>5, <2>6, Zenon
  <2>. QED  BY <1>2, <2>4, <2>7, Zenon DEF Repeats, of
<1>3. ASSUME ~Elided(e, o), e.out \notin Hashed \/ Seen(A, e, o) = {}
      PROVE  Says(P, e, "user", {"full", "cut"}) /\ Repeats(P, A, e, o)
  <2>1. P = User(e, IF e.out \in Huge THEN "cut" ELSE "full")  BY <1>3, Zenon DEF Results, Fitted
  <2>2. Says(P, e, "user", {IF e.out \in Huge THEN "cut" ELSE "full"})  BY <2>1, UserSays
  <2>3. Says(P, e, "user", {"full", "cut"})  BY <2>2, Zenon DEF Says
  <2>4. \A j \in 1..Len(P) : P[j].form \in {"full", "cut"}  BY <2>3, OnePart, Zenon
  <2>5. \A j \in 1..Len(P) : P[j].form # "same"  BY <2>4
  <2>. QED  BY <2>3, <2>5, Zenon DEF Repeats
<1>4. ASSUME Says(P, e, "user", {"same"}) \/ Says(P, e, "user", {"full", "cut"})
      PROVE  Says(P, e, "user", {"full", "cut", "same"})
  BY <1>4, Zenon DEF Says
<1>. QED  BY <1>1, <1>2, <1>3, <1>4, Zenon

LEMMA PieceWhole ==
  ASSUME NEW A \in Seq(LogEvents), NEW e \in LogEvents, NEW o, ~Collapsed(e, o)
  PROVE  LET P == Piece(A, e, o) IN
         /\ e.kind \in {"user", "added"} => Says(P, e, "user", {"full"})
         /\ e.kind = "reply" => Says(P, e, "assistant", {IF e.seq <= o.upto THEN "line" ELSE "full"})
         /\ e.kind = "round" => P = Results(A, e, o)
         /\ e.kind = "answer" => P = <<>> \/ Says(P, e, "user", {"full"}) \/ Says(P, e, "assistant", {"full"})
         /\ e.kind = "compact" => P = <<>>
<1>. DEFINE P == Piece(A, e, o)
<1>1. P = InTurn(A, e, o)  BY Zenon DEF Piece
<1>2. ASSUME e.kind \in {"user", "added"} PROVE Says(P, e, "user", {"full"})
  <2>1. P = User(e, "full")  BY <1>1, <1>2, Zenon DEF InTurn
  <2>. QED  BY <2>1, UserSays
<1>3. ASSUME e.kind = "reply" PROVE Says(P, e, "assistant", {IF e.seq <= o.upto THEN "line" ELSE "full"})
  <2>1. P = Assistant(e, IF e.seq <= o.upto THEN "line" ELSE "full")  BY <1>1, <1>3 DEF InTurn, Reply
  <2>. QED  BY <2>1, UserSays
<1>4. ASSUME e.kind = "round" PROVE P = Results(A, e, o)
  BY <1>1, <1>4 DEF InTurn
<1>5. ASSUME e.kind = "answer" PROVE P = <<>> \/ Says(P, e, "user", {"full"}) \/ Says(P, e, "assistant", {"full"})
  <2>1. P = Closing(A, e)  BY <1>1, <1>5 DEF InTurn
  <2>2. P = <<>> \/ P = User(e, "full") \/ P = Assistant(e, "full")  BY <2>1, Zenon DEF Closing
  <2>. QED  BY <2>2, UserSays
<1>6. ASSUME e.kind = "compact" PROVE P = <<>>
  BY <1>1, <1>6 DEF InTurn
<1>. QED  BY <1>2, <1>3, <1>4, <1>5, <1>6, Zenon

Asked(e) == e.kind \in {"user", "added"}

(* Two pieces of a collapsed event at the most: what the operator said, the
   turn's gist.                                                             *)
LEMMA PieceCollapsed ==
  ASSUME NEW A \in Seq(LogEvents), NEW e \in LogEvents, NEW o, Collapsed(e, o)
  PROVE  LET P == Piece(A, e, o) IN
         /\ P \in Seq(Parts)
         /\ \A j \in 1..Len(P) :
              /\ P[j].seq = e.seq
              /\ \/ Asked(e) /\ P[j].form = "full"
                 \/ P[j].form = "gist" /\ P[j].of = e.turn /\ P[j].role = "assistant"
         /\ EndsTurn(A, e) => \E j \in 1..Len(P) : P[j].form = "gist"
<1>. DEFINE P == Piece(A, e, o)
            a == User(e, "full")
            part == Part(e, "assistant", "gist", e.turn)
            b == <<part>>
            Fits(x) == x.seq = e.seq /\ (\/ Asked(e) /\ x.form = "full"
                                         \/ x.form = "gist" /\ x.of = e.turn /\ x.role = "assistant")
<1>1. P = (IF Asked(e) THEN a ELSE <<>>) \o (IF EndsTurn(A, e) THEN b ELSE <<>>)
  BY Zenon DEF Piece, InCollapsed, Asked
<1>2. a \in Seq(Parts) /\ Len(a) = 1 /\ (Asked(e) => Fits(a[1]))
  <2>1. Says(a, e, "user", {"full"})  BY UserSays
  <2>. HIDE DEF a
  <2>2. a \in Seq(Parts) /\ Len(a) = 1 /\ a[1].seq = e.seq /\ a[1].form \in {"full"}  BY <2>1, OnePart
  <2>. QED  BY <2>2
<1>3. b \in Seq(Parts) /\ Len(b) = 1 /\ Fits(b[1]) /\ b[1].form = "gist"
  <2>1. e.turn \in Nat  BY DEF LogEvents
  <2>2. part \in Parts /\ part.seq = e.seq /\ part.role = "assistant" /\ part.form = "gist" /\ part.of = e.turn
    BY <2>1, PartSays
  <2>. HIDE DEF part
  <2>3. b \in Seq(Parts) /\ Len(b) = 1 /\ b[1] = part  BY <2>2
  <2>. QED  BY <2>2, <2>3
<1>. HIDE DEF P, a, b, Fits
<1>4. CASE Asked(e) /\ EndsTurn(A, e)
  <2>1. P = a \o b  BY <1>1, <1>4, Zenon
  <2>2. P \in Seq(Parts) /\ Len(P) = 2 /\ P[1] = a[1] /\ P[2] = b[1]
    <3>1. /\ a \o b \in Seq(Parts) /\ Len(a \o b) = Len(a) + Len(b)
          /\ \A i \in 1..(Len(a) + Len(b)) : (a \o b)[i] = IF i <= Len(a) THEN a[i] ELSE b[i - Len(a)]
      BY <1>2, <1>3, ConcatProperties
    <3>2. Len(a) = 1 /\ Len(b) = 1  BY <1>2, <1>3
    <3>3. \A i \in 1..2 : (a \o b)[i] = IF i <= 1 THEN a[i] ELSE b[i - 1]  BY <3>1, <3>2
    <3>4. (a \o b)[1] = a[1] /\ (a \o b)[2] = b[1]
      <4>1. 1 \in 1..2 /\ 2 \in 1..2 /\ 1 <= 1 /\ ~(2 <= 1) /\ 2 - 1 = 1  BY SMT
      <4>2. (a \o b)[1] = a[1]  BY <3>3, <4>1
      <4>3. (a \o b)[2] = b[1]
        <5>. DEFINE ab == a \o b
        <5>1. \A i \in 1..2 : ab[i] = IF i <= 1 THEN a[i] ELSE b[i - 1]  BY <3>3
        <5>. HIDE DEF ab
        <5>2. ab[2] = b[2 - 1]  BY <4>1, <5>1
        <5>. QED  BY <4>1, <5>2, Zenon DEF ab
      <4>. QED  BY <4>2, <4>3
    <3>. QED  BY <2>1, <3>1, <3>2, <3>4
  <2>3. \A j \in 1..Len(P) : j = 1 \/ j = 2  BY <2>2, SMT
  <2>4. \A j \in 1..Len(P) : Fits(P[j])  BY <1>2, <1>3, <1>4, <2>2, <2>3, Zenon
  <2>5. 2 \in 1..Len(P) /\ P[2].form = "gist"  BY <1>3, <2>2
  <2>. QED  BY <2>2, <2>4, <2>5, Zenon DEF P, Fits
<1>5. CASE Asked(e) /\ ~EndsTurn(A, e)
  <2>1. P = a  BY <1>1, <1>2, <1>5, ConcatEmptySeq, Zenon
  <2>2. \A j \in 1..Len(P) : j = 1  BY <1>2, <2>1, SMT
  <2>3. \A j \in 1..Len(P) : Fits(P[j])  BY <1>2, <1>5, <2>1, <2>2, Zenon
  <2>. QED  BY <1>2, <1>5, <2>1, <2>3, Zenon DEF P, Fits
<1>6. CASE ~Asked(e) /\ EndsTurn(A, e)
  <2>1. P = b  BY <1>1, <1>3, <1>6, ConcatEmptySeq, Zenon
  <2>2. 1 \in 1..Len(P) /\ \A j \in 1..Len(P) : j = 1  BY <1>3, <2>1, SMT
  <2>3. \A j \in 1..Len(P) : Fits(P[j])  BY <1>3, <2>1, <2>2, Zenon
  <2>. QED  BY <1>3, <2>1, <2>2, <2>3, Zenon DEF P, Fits
<1>7. CASE ~Asked(e) /\ ~EndsTurn(A, e)
  <2>1. P = <<>>
    <3>1. <<>> \o <<>> = <<>>  OBVIOUS
    <3>. QED  BY <1>1, <1>7, <3>1, Zenon
  <2>2. P \in Seq(Parts) /\ \A j \in 1..Len(P) : FALSE  BY <2>1
  <2>. QED  BY <1>7, <2>2, Zenon DEF P
<1>. QED  BY <1>4, <1>5, <1>6, <1>7, Zenon

(* What a compaction sends short of e, and what it does not. *)
GoesShort(e, o) ==
  \/ e.kind = "reply" /\ e.seq <= o.upto
  \/ e.kind = "round" /\ e.out \notin Short /\ Elided(e, o)

(* A part of e's piece. *)
PartSo(part, A, e, o) ==
  /\ part.seq = e.seq
  /\ part.form = "gist" => Collapsed(e, o) /\ part.of = e.turn /\ part.role = "assistant"
  /\ part.form = "line" => GoesShort(e, o)
  /\ part.form \in {"full", "cut", "same"} => ~GoesShort(e, o)
  /\ part.form = "same" => /\ e.kind = "round" /\ ~Collapsed(e, o) /\ ~Elided(e, o) /\ e.out \in Hashed
                           /\ Seen(A, e, o) # {} /\ part.of = First(Seen(A, e, o))

PieceSo(P, A, e, o) ==
  /\ P \in Seq(Parts)
  /\ \A j \in 1..Len(P) : PartSo(P[j], A, e, o)
  /\ ~Collapsed(e, o) => Len(P) <= 1 /\ (InConversation(e) => Len(P) = 1)
  /\ ~Collapsed(e, o) /\ e.kind = "reply" => \A j \in 1..Len(P) : P[j].role = "assistant"
  /\ ~Collapsed(e, o) /\ e.kind = "round" /\ ~Elided(e, o) /\ Seen(A, e, o) = {} =>
       \A j \in 1..Len(P) : P[j].form \in {"full", "cut"}
  /\ Collapsed(e, o) /\ EndsTurn(A, e) => \E j \in 1..Len(P) : P[j].form = "gist"

(* A piece of an event that is not collapsed. *)
LEMMA PlainIs ==
  ASSUME NEW A, NEW e, NEW o, NEW P \in Seq(Parts), ~Collapsed(e, o), Len(P) <= 1, InConversation(e) => Len(P) = 1,
         \A j \in 1..Len(P) : PartSo(P[j], A, e, o),
         e.kind = "reply" => \A j \in 1..Len(P) : P[j].role = "assistant",
         e.kind = "round" /\ ~Elided(e, o) /\ Seen(A, e, o) = {} => \A j \in 1..Len(P) : P[j].form \in {"full", "cut"}
  PROVE  PieceSo(P, A, e, o)
BY Zenon DEF PieceSo

(* One part, sent whole or short as a compaction leaves e. *)
LEMMA SaidIs ==
  ASSUME NEW A, NEW e, NEW o, NEW P, ~Collapsed(e, o), NEW role,
         e.kind # "round", e.kind = "reply" => role = "assistant",
         \/ Says(P, e, role, {"full"}) /\ ~GoesShort(e, o)
         \/ Says(P, e, role, {"line"}) /\ GoesShort(e, o)
  PROVE  PieceSo(P, A, e, o)
<1>1. /\ P \in Seq(Parts) /\ Len(P) = 1
      /\ \A j \in 1..Len(P) : /\ P[j].seq = e.seq /\ P[j].role = role
                               /\ P[j].form \in (IF GoesShort(e, o) THEN {"line"} ELSE {"full"})
  <2>1. CASE GoesShort(e, o)
    <3>1. Says(P, e, role, {"line"})  BY <2>1
    <3>. QED  BY <2>1, <3>1, OnePart
  <2>2. CASE ~GoesShort(e, o)
    <3>1. Says(P, e, role, {"full"})  BY <2>2
    <3>. QED  BY <2>2, <3>1, OnePart
  <2>. QED  BY <2>1, <2>2
<1>2. ASSUME NEW j \in 1..Len(P) PROVE PartSo(P[j], A, e, o)
  <2>1. P[j].form = IF GoesShort(e, o) THEN "line" ELSE "full"  BY <1>1
  <2>2. P[j].form # "gist" /\ P[j].form # "same"  BY <2>1
  <2>3. P[j].form = "line" => GoesShort(e, o)  BY <2>1
  <2>4. P[j].form \in {"full", "cut", "same"} => ~GoesShort(e, o)  BY <2>1
  <2>5. PartSo(P[j], A, e, o)  BY <1>1, <2>2, <2>3, <2>4, Zenon DEF PartSo
  <2>. QED  BY <2>5
<1>3. Len(P) <= 1 /\ P \in Seq(Parts) /\ Len(P) = 1  BY <1>1
<1>4. e.kind = "reply" => \A j \in 1..Len(P) : P[j].role = "assistant"  BY <1>1
<1>. QED  BY <1>2, <1>3, <1>4, PlainIs, Zenon

LEMMA PieceIs ==
  ASSUME NEW A \in Seq(LogEvents), NEW e \in LogEvents, NEW o
  PROVE  PieceSo(Piece(A, e, o), A, e, o)
<1>. DEFINE P == Piece(A, e, o)
<1>k. e.kind \in EventKinds  BY DEF LogEvents
<1>1. CASE Collapsed(e, o)
  <2>1. /\ P \in Seq(Parts)
        /\ \A j \in 1..Len(P) :
              /\ P[j].seq = e.seq
              /\ \/ Asked(e) /\ P[j].form = "full"
                 \/ P[j].form = "gist" /\ P[j].of = e.turn /\ P[j].role = "assistant"
        /\ EndsTurn(A, e) => \E j \in 1..Len(P) : P[j].form = "gist"
    BY <1>1, PieceCollapsed
  <2>. HIDE DEF P
  <2>2. Asked(e) => ~GoesShort(e, o)  BY DEF Asked, GoesShort
  <2>3. ASSUME NEW j \in 1..Len(P) PROVE PartSo(P[j], A, e, o)
    <3>1. CASE Asked(e) /\ P[j].form = "full"
      <4>1. P[j].form # "gist" /\ P[j].form # "line" /\ P[j].form # "same"  BY <3>1
      <4>. QED  BY <2>1, <2>2, <3>1, <4>1, Zenon DEF PartSo
    <3>2. CASE P[j].form = "gist" /\ P[j].of = e.turn /\ P[j].role = "assistant"
      <4>1. P[j].form \notin {"full", "cut", "same"} /\ P[j].form # "line" /\ P[j].form # "same"  BY <3>2
      <4>. QED  BY <1>1, <2>1, <3>2, <4>1, Zenon DEF PartSo
    <3>. QED  BY <2>1, <3>1, <3>2, Zenon
  <2>. QED  BY <1>1, <2>1, <2>3, Zenon DEF PieceSo, P
<1>3. CASE ~Collapsed(e, o) /\ e.kind \in {"user", "added"}
  <2>1. Says(P, e, "user", {"full"})  BY <1>3, PieceWhole
  <2>2. e.kind # "round" /\ e.kind # "reply" /\ ~GoesShort(e, o)  BY <1>3 DEF GoesShort
  <2>. HIDE DEF P
  <2>3. PieceSo(P, A, e, o)  BY <1>3, <2>1, <2>2, SaidIs, Zenon
  <2>. QED  BY <2>3 DEF P
<1>4. CASE ~Collapsed(e, o) /\ e.kind = "reply"
  <2>1. Says(P, e, "assistant", {IF e.seq <= o.upto THEN "line" ELSE "full"})  BY <1>4, PieceWhole
  <2>2. e.kind # "round" /\ (GoesShort(e, o) <=> e.seq <= o.upto)  BY <1>4 DEF GoesShort
  <2>. HIDE DEF P
  <2>3. \/ Says(P, e, "assistant", {"full"}) /\ ~GoesShort(e, o)
        \/ Says(P, e, "assistant", {"line"}) /\ GoesShort(e, o)
    BY <2>1, <2>2
  <2>4. PieceSo(P, A, e, o)  BY <1>4, <2>2, <2>3, SaidIs, Zenon
  <2>. QED  BY <2>4 DEF P
<1>5. CASE ~Collapsed(e, o) /\ e.kind \in {"answer", "compact"}
  <2>1. P = <<>> \/ Says(P, e, "user", {"full"}) \/ Says(P, e, "assistant", {"full"})  BY <1>5, PieceWhole
  <2>2. e.kind # "round" /\ e.kind # "reply" /\ ~GoesShort(e, o) /\ ~InConversation(e)  BY <1>5 DEF GoesShort, InConversation
  <2>. HIDE DEF P
  <2>3. PieceSo(P, A, e, o)
    <3>1. CASE P = <<>>
      <4>1. P \in Seq(Parts) /\ Len(P) <= 1 /\ \A j \in 1..Len(P) : FALSE  BY <3>1
      <4>. QED  BY <1>5, <2>2, <4>1, PlainIs, Zenon
    <3>2. CASE Says(P, e, "user", {"full"})
      BY <1>5, <2>2, <3>2, SaidIs, Zenon
    <3>3. CASE Says(P, e, "assistant", {"full"})
      BY <1>5, <2>2, <3>3, SaidIs, Zenon
    <3>. QED  BY <2>1, <3>1, <3>2, <3>3
  <2>. QED  BY <2>3 DEF P
<1>7. CASE ~Collapsed(e, o) /\ e.kind = "round"
  <2>1. /\ P = Results(A, e, o)
        /\ e.kind # "reply" /\ (GoesShort(e, o) <=> e.out \notin Short /\ Elided(e, o))
    <3>1. P = Results(A, e, o)  BY <1>7, PieceWhole
    <3>. QED  BY <1>7, <3>1 DEF GoesShort
  <2>. HIDE DEF P
  <2>2. /\ Elided(e, o) => Says(P, e, "user", {IF e.out \in Short THEN "full" ELSE "line"})
        /\ ~Elided(e, o) => Says(P, e, "user", {"full", "cut", "same"})
        /\ ~Elided(e, o) /\ (e.out \notin Hashed \/ Seen(A, e, o) = {}) => Says(P, e, "user", {"full", "cut"})
        /\ Repeats(P, A, e, o)
    BY <2>1, ResultsAre
  <2>3. P \in Seq(Parts) /\ Len(P) = 1 /\ \A j \in 1..Len(P) : P[j].seq = e.seq
    <3>1. CASE Elided(e, o)  BY <2>2, <3>1, OnePart
    <3>2. CASE ~Elided(e, o)  BY <2>2, <3>2, OnePart
    <3>. QED  BY <3>1, <3>2
  <2>4. ASSUME NEW j \in 1..Len(P) PROVE PartSo(P[j], A, e, o)
    <3>1. CASE Elided(e, o)
      <4>1. P[j].form \in {IF e.out \in Short THEN "full" ELSE "line"}  BY <2>2, <3>1, OnePart
      <4>2. /\ P[j].form # "gist" /\ P[j].form # "same"
            /\ P[j].form = "line" => e.out \notin Short
            /\ P[j].form \in {"full", "cut", "same"} => e.out \in Short
        BY <4>1
      <4>. QED  BY <2>1, <2>3, <3>1, <4>2, Zenon DEF PartSo
    <3>2. CASE ~Elided(e, o)
      <4>1. P[j].form \in {"full", "cut", "same"}  BY <2>2, <3>2, OnePart
      <4>2. P[j].form # "gist" /\ P[j].form # "line"  BY <4>1
      <4>. QED  BY <1>7, <2>1, <2>2, <2>3, <3>2, <4>2, Zenon DEF PartSo, Repeats
    <3>. QED  BY <3>1, <3>2
  <2>5. ASSUME ~Elided(e, o), Seen(A, e, o) = {} PROVE \A j \in 1..Len(P) : P[j].form \in {"full", "cut"}
    <3>1. Says(P, e, "user", {"full", "cut"})  BY <2>2, <2>5, Zenon
    <3>. QED  BY <3>1, OnePart
  <2>6. Len(P) <= 1  BY <2>3
  <2>7. PieceSo(P, A, e, o)  BY <1>7, <2>1, <2>3, <2>4, <2>5, <2>6, PlainIs, Zenon
  <2>. QED  BY <2>7 DEF P
<1>. QED  BY <1>k, <1>1, <1>3, <1>4, <1>5, <1>7 DEF EventKinds

(* The log evs with one event more, e. *)
OneMore(evs, more, e) ==
  /\ more \in Seq(LogEvents) /\ Len(more) = Len(evs) + 1
  /\ \A i \in 1..Len(evs) : more[i] = evs[i]
  /\ more[Len(evs) + 1] = [e EXCEPT !.seq = Len(evs) + 1]

LEMMA StampedIs ==
  ASSUME NEW evs \in Seq(LogEvents), NEW e \in LogEvents
  PROVE  OneMore(evs, Stamped(evs, e), e)
<1>. DEFINE st == [e EXCEPT !.seq = Len(evs) + 1]
<1>1. st \in LogEvents
  <2>1. Len(evs) + 1 \in Nat  BY LenProperties, SMT
  <2>. QED  BY <2>1, Zenon DEF LogEvents
<1>2. Stamped(evs, e) = Append(evs, st)  BY Zenon DEF Stamped
<1>. HIDE DEF st
<1>3. /\ Append(evs, st) \in Seq(LogEvents) /\ Len(Append(evs, st)) = Len(evs) + 1
      /\ \A i \in 1..Len(evs) : Append(evs, st)[i] = evs[i]
      /\ Append(evs, st)[Len(evs) + 1] = st
  BY <1>1, AppendProperties
<1>. QED  BY <1>2, <1>3, Zenon DEF OneMore, st

LEMMA StampIs ==
  ASSUME NEW e \in LogEvents, NEW n \in Nat
  PROVE  LET st == [e EXCEPT !.seq = n] IN
         /\ st \in LogEvents /\ st.seq = n /\ st.kind = e.kind /\ st.turn = e.turn /\ st.ref = e.ref /\ st.out = e.out
         /\ st.ok = e.ok /\ st.upto = e.upto /\ st.collapse = e.collapse /\ st.checkpoint = e.checkpoint
BY DEF LogEvents

(* What the new event is, and which the places in the log are. *)
LEMMA MoreIs ==
  ASSUME NEW evs \in Seq(LogEvents), NEW e \in LogEvents, NEW more, OneMore(evs, more, e)
  PROVE  LET n == Len(evs)
             l == more[n + 1] IN
         /\ n \in Nat /\ DOMAIN evs = 1..n /\ DOMAIN more = 1..(n + 1)
         /\ \A i \in 1..(n + 1) : i \in 1..n \/ i = n + 1
         /\ \A i \in 1..n : i \in 1..(n + 1) /\ i # n + 1 /\ i < n + 1
         /\ l \in LogEvents /\ l.seq = n + 1 /\ l.kind = e.kind /\ l.turn = e.turn /\ l.ref = e.ref /\ l.out = e.out
         /\ l.ok = e.ok /\ l.upto = e.upto /\ l.collapse = e.collapse /\ l.checkpoint = e.checkpoint
<1>. DEFINE n == Len(evs)
            l == more[n + 1]
<1>1. n \in Nat /\ DOMAIN evs = 1..n  BY LenProperties
<1>2. more \in Seq(LogEvents) /\ Len(more) = n + 1  BY DEF OneMore
<1>3. DOMAIN more = 1..(n + 1)  BY <1>2, LenProperties, Zenon
<1>4. n + 1 \in Nat /\ \A i \in 1..(n + 1) : i \in 1..n \/ i = n + 1  BY <1>1, SMT
<1>5. \A i \in 1..n : i \in 1..(n + 1) /\ i # n + 1 /\ i < n + 1  BY <1>1, SMT
<1>6. l = [e EXCEPT !.seq = n + 1]  BY DEF OneMore
<1>. HIDE DEF n, l
<1>7. /\ l \in LogEvents /\ l.seq = n + 1 /\ l.kind = e.kind /\ l.turn = e.turn /\ l.ref = e.ref /\ l.out = e.out
      /\ l.ok = e.ok /\ l.upto = e.upto /\ l.collapse = e.collapse /\ l.checkpoint = e.checkpoint
  BY <1>4, <1>6, StampIs
<1>. QED  BY <1>1, <1>3, <1>4, <1>5, <1>7, Zenon DEF n, l

LEMMA LogType ==
  ASSUME NEW evs \in Seq(LogEvents)
  PROVE  /\ Len(evs) \in Nat /\ DOMAIN evs = 1..Len(evs)
         /\ \A i \in 1..Len(evs) : /\ evs[i] \in LogEvents /\ evs[i].seq \in Nat /\ evs[i].turn \in Nat /\ evs[i].ref \in Nat
                                   /\ evs[i].upto \in Nat /\ evs[i].collapse \in Nat /\ evs[i].checkpoint \in Nat
<1>1. Len(evs) \in Nat /\ DOMAIN evs = 1..Len(evs)  BY LenProperties
<1>2. \A i \in 1..Len(evs) : evs[i] \in LogEvents  BY ElementOfSeq
<1>. QED  BY <1>1, <1>2 DEF LogEvents

LEMMA LatestTurnMore ==
  ASSUME NEW evs \in Seq(LogEvents), NEW e \in LogEvents, NEW more, OneMore(evs, more, e)
  PROVE  LatestTurn(more) = e.turn
<1>1. Len(evs) \in Nat /\ more[Len(evs) + 1].turn = e.turn  BY MoreIs
<1>2. Len(more) = Len(evs) + 1 /\ more \in Seq(LogEvents)  BY DEF OneMore
<1>3. more # <<>>  BY <1>1, <1>2, EmptySeq, SMT
<1>. QED  BY <1>1, <1>2, <1>3, Zenon DEF LatestTurn

(* The latest reference. *)
LEMMA LatestRefIs ==
  ASSUME NEW evs \in Seq(LogEvents)
  PROVE  /\ RefsOf(evs) \in SUBSET Nat
         /\ LatestRef(evs) \in RefsOf(evs) /\ \A r \in RefsOf(evs) : r <= LatestRef(evs)
<1>. DEFINE X == {s \in Seq(LogEvents) : \E m \in RefsOf(s) : m \in Nat /\ \A r \in RefsOf(s) : r \in Nat /\ r <= m}
<1>1. <<>> \in X
  <2>1. RefsOf(<<>>) = {0}  BY DEF RefsOf
  <2>2. 0 \in RefsOf(<<>>) /\ 0 \in Nat /\ \A r \in RefsOf(<<>>) : r \in Nat /\ r <= 0  BY <2>1
  <2>. QED  BY <2>2, EmptySeq
<1>2. ASSUME NEW s \in X, NEW e \in LogEvents PROVE Append(s, e) \in X
  <2>. DEFINE t == Append(s, e)
  <2>1. s \in Seq(LogEvents)  OBVIOUS
  <2>2. PICK m \in RefsOf(s) : m \in Nat /\ \A r \in RefsOf(s) : r \in Nat /\ r <= m  OBVIOUS
  <2>3. /\ t \in Seq(LogEvents) /\ Len(t) = Len(s) + 1 /\ Len(s) \in Nat /\ DOMAIN s = 1..Len(s) /\ e.ref \in Nat
        /\ \A i \in 1..Len(s) : t[i] = s[i]
        /\ t[Len(s) + 1] = e
    BY <2>1, AppendProperties, LenProperties DEF LogEvents
  <2>. HIDE DEF t, X
  <2>4. DOMAIN t = 1..(Len(s) + 1)  BY <2>3, LenProperties, Zenon
  <2>5. /\ \A i \in 1..(Len(s) + 1) : i \in 1..Len(s) \/ i = Len(s) + 1
        /\ \A i \in 1..Len(s) : i \in 1..(Len(s) + 1)
        /\ Len(s) + 1 \in 1..(Len(s) + 1)
    BY <2>3, SMT
  <2>6. \A r \in RefsOf(t) : r \in RefsOf(s) \/ r = e.ref
    BY <2>3, <2>4, <2>5, Zenon DEF RefsOf
  <2>7. e.ref \in RefsOf(t) /\ m \in RefsOf(t)
    BY <2>2, <2>3, <2>4, <2>5, Zenon DEF RefsOf
  <2>8. \E k \in RefsOf(t) : k \in Nat /\ \A r \in RefsOf(t) : r \in Nat /\ r <= k
    <3>1. CASE e.ref <= m
      <4>1. \A r \in RefsOf(t) : r \in Nat /\ r <= m  BY <2>2, <2>3, <2>6, <3>1, Zenon
      <4>. QED  BY <2>2, <2>7, <4>1
    <3>2. CASE ~(e.ref <= m)
      <4>1. ASSUME NEW r \in RefsOf(t) PROVE r \in Nat /\ r <= e.ref
        <5>1. CASE r = e.ref  BY <2>3, <5>1, SMT
        <5>2. CASE r \in RefsOf(s)
          <6>1. r \in Nat /\ r <= m  BY <2>2, <5>2
          <6>. QED  BY <2>2, <2>3, <3>2, <6>1, SMT
        <5>. QED  BY <2>6, <5>1, <5>2
      <4>. QED  BY <2>3, <2>7, <4>1
    <3>. QED  BY <3>1, <3>2
  <2>. QED  BY <2>3, <2>8, Zenon DEF t, X
<1>3. X \in SUBSET Seq(LogEvents)  OBVIOUS
<1>4. X = Seq(LogEvents)
  <2>. HIDE DEF X
  <2>. QED  BY <1>1, <1>2, <1>3, AllSequences, Zenon
<1>5. PICK m \in RefsOf(evs) : m \in Nat /\ \A r \in RefsOf(evs) : r \in Nat /\ r <= m  BY <1>4
<1>6. LatestRef(evs) \in RefsOf(evs) /\ \A r \in RefsOf(evs) : r <= LatestRef(evs)
  BY <1>5, Zenon DEF LatestRef
<1>. QED  BY <1>5, <1>6, Zenon

LEMMA RefsMore ==
  ASSUME NEW evs \in Seq(LogEvents), NEW e \in LogEvents, NEW more, OneMore(evs, more, e)
  PROVE  /\ e.ref = 0 => LatestRef(more) = LatestRef(evs)
         /\ e.ref = LatestRef(evs) + 1 => LatestRef(more) = e.ref
         /\ \A i \in 1..Len(evs) : evs[i].ref <= LatestRef(evs)
<1>1. /\ RefsOf(evs) \in SUBSET Nat /\ LatestRef(evs) \in RefsOf(evs)
      /\ \A r \in RefsOf(evs) : r <= LatestRef(evs)
  BY LatestRefIs
<1>2. more \in Seq(LogEvents)  BY DEF OneMore
<1>3. /\ RefsOf(more) \in SUBSET Nat /\ LatestRef(more) \in RefsOf(more)
      /\ \A r \in RefsOf(more) : r <= LatestRef(more)
  BY <1>2, LatestRefIs
<1>4. /\ Len(evs) \in Nat /\ DOMAIN evs = 1..Len(evs) /\ DOMAIN more = 1..(Len(evs) + 1)
      /\ \A i \in 1..(Len(evs) + 1) : i \in 1..Len(evs) \/ i = Len(evs) + 1
      /\ \A i \in 1..Len(evs) : i \in 1..(Len(evs) + 1) /\ more[i] = evs[i]
      /\ more[Len(evs) + 1].ref = e.ref
  BY MoreIs DEF OneMore
<1>5. Len(evs) + 1 \in 1..(Len(evs) + 1)  BY <1>4, SMT
<1>6. \A r : r \in RefsOf(more) <=> r \in RefsOf(evs) \/ r = e.ref
  BY <1>4, <1>5, Zenon DEF RefsOf
<1>7. ASSUME e.ref = 0 PROVE LatestRef(more) = LatestRef(evs)
  <2>1. 0 \in RefsOf(evs)  BY DEF RefsOf
  <2>2. LatestRef(more) \in RefsOf(evs) /\ LatestRef(evs) \in RefsOf(more)  BY <1>1, <1>3, <1>6, <1>7, <2>1, Zenon
  <2>3. /\ LatestRef(more) <= LatestRef(evs) /\ LatestRef(evs) <= LatestRef(more)
        /\ LatestRef(more) \in Nat /\ LatestRef(evs) \in Nat
    BY <1>1, <1>3, <2>2, Zenon
  <2>. QED  BY <2>3, SMT
<1>8. ASSUME e.ref = LatestRef(evs) + 1 PROVE LatestRef(more) = e.ref
  <2>1. e.ref \in RefsOf(more) /\ LatestRef(evs) \in Nat /\ LatestRef(more) \in Nat  BY <1>1, <1>3, <1>6
  <2>2. e.ref <= LatestRef(more)  BY <1>3, <2>1
  <2>3. LatestRef(more) = e.ref \/ LatestRef(more) <= LatestRef(evs)  BY <1>1, <1>3, <1>6
  <2>. QED  BY <1>8, <2>1, <2>2, <2>3, SMT
<1>9. \A i \in 1..Len(evs) : evs[i].ref \in RefsOf(evs)  BY <1>4, Zenon DEF RefsOf
<1>. QED  BY <1>1, <1>7, <1>8, <1>9, Zenon

(* The compaction in effect. *)
LastIn(evs, p) ==
  /\ p \in 1..Len(evs) /\ evs[p].kind = "compact"
  /\ \A q \in 1..Len(evs) : evs[q].kind = "compact" => q <= p

LEMMA LastCompactIs ==
  ASSUME NEW evs \in Seq(LogEvents)
  PROVE  /\ \A p : LastIn(evs, p) => LastCompact(evs) = evs[p] /\ LastCompact(evs) # Blank
         /\ (\A p : ~LastIn(evs, p)) => LastCompact(evs) = Blank /\ \A i \in 1..Len(evs) : evs[i].kind # "compact"
<1>. DEFINE C == {i \in DOMAIN evs : evs[i].kind = "compact"}
<1>1. Len(evs) \in Nat /\ DOMAIN evs = 1..Len(evs)  BY LogType
<1>2. LastCompact(evs) = IF C = {} THEN Blank ELSE evs[CHOOSE i \in C : \A j \in C : j <= i]
  BY Zenon DEF LastCompact
<1>3. ASSUME NEW p, LastIn(evs, p) PROVE LastCompact(evs) = evs[p] /\ LastCompact(evs) # Blank
  <2>1. p \in C /\ \A j \in C : j <= p  BY <1>1, <1>3, Zenon DEF LastIn
  <2>. DEFINE c == CHOOSE i \in C : \A j \in C : j <= i
  <2>2. c \in C /\ \A j \in C : j <= c  BY <2>1, Zenon
  <2>3. LastCompact(evs) = evs[c]  BY <1>2, <2>1, Zenon
  <2>4. c \in Nat /\ p \in Nat /\ c <= p /\ p <= c
    <3>. HIDE DEF c
    <3>1. c \in 1..Len(evs) /\ p \in 1..Len(evs)  BY <1>1, <2>1, <2>2
    <3>2. c <= p /\ p <= c  BY <2>1, <2>2, Zenon
    <3>. QED  BY <1>1, <3>1, <3>2, SMT
  <2>. HIDE DEF c, C
  <2>5. c = p  BY <2>4, SMT
  <2>6. evs[p].kind = "compact"  BY <1>3 DEF LastIn
  <2>7. Blank.kind = ""  BY DEF Blank
  <2>8. evs[p] # Blank  BY <2>6, <2>7
  <2>. QED  BY <2>3, <2>5, <2>8, Zenon
<1>4. ASSUME \A p : ~LastIn(evs, p) PROVE LastCompact(evs) = Blank /\ \A i \in 1..Len(evs) : evs[i].kind # "compact"
  <2>1. C = {}
    <3>. SUFFICES ASSUME C # {} PROVE FALSE  OBVIOUS
    <3>1. C \in SUBSET (0..Len(evs))  BY <1>1, SMT
    <3>2. PICK p \in C : \A x \in C : x <= p
      <4>. HIDE DEF C
      <4>. QED  BY <1>1, <3>1, Greatest, Zenon
    <3>3. LastIn(evs, p)  BY <1>1, <3>2, Zenon DEF LastIn
    <3>. QED  BY <1>4, <3>3, Zenon
  <2>. QED  BY <1>1, <1>2, <2>1, Zenon
<1>. QED  BY <1>3, <1>4, Zenon

LEMMA LastMore ==
  ASSUME NEW evs \in Seq(LogEvents), NEW e \in LogEvents, NEW more, OneMore(evs, more, e)
  PROVE  /\ e.kind = "compact" => \A p : LastIn(more, p) <=> p = Len(evs) + 1
         /\ e.kind # "compact" => (\A p : LastIn(more, p) <=> LastIn(evs, p)) /\ LastCompact(more) = LastCompact(evs)
<1>1. /\ Len(evs) \in Nat /\ more \in Seq(LogEvents) /\ Len(more) = Len(evs) + 1
      /\ \A i \in 1..(Len(evs) + 1) : i \in 1..Len(evs) \/ i = Len(evs) + 1
      /\ \A i \in 1..Len(evs) : i \in 1..(Len(evs) + 1) /\ i # Len(evs) + 1 /\ i < Len(evs) + 1 /\ more[i] = evs[i]
      /\ more[Len(evs) + 1].kind = e.kind
  BY MoreIs DEF OneMore
<1>2. Len(evs) + 1 \in 1..(Len(evs) + 1) /\ \A i \in 1..(Len(evs) + 1) : i <= Len(evs) + 1 /\ (Len(evs) + 1 <= i => i = Len(evs) + 1)
  BY <1>1, SMT
<1>3. ASSUME e.kind = "compact", NEW p PROVE LastIn(more, p) <=> p = Len(evs) + 1
  BY <1>1, <1>2, <1>3, Zenon DEF LastIn
<1>4. ASSUME e.kind # "compact", NEW p PROVE LastIn(more, p) <=> LastIn(evs, p)
  BY <1>1, <1>4, Zenon DEF LastIn
<1>5. ASSUME e.kind # "compact" PROVE LastCompact(more) = LastCompact(evs)
  <2>1. \A p : LastIn(more, p) <=> LastIn(evs, p)  BY <1>4, <1>5
  <2>2. CASE \E p : LastIn(evs, p)
    <3>1. PICK p : LastIn(evs, p)  BY <2>2
    <3>2. LastCompact(evs) = evs[p] /\ LastCompact(more) = more[p]  BY <1>1, <2>1, <3>1, LastCompactIs, Zenon
    <3>3. p \in 1..Len(evs)  BY <3>1 DEF LastIn
    <3>. QED  BY <1>1, <3>2, <3>3, Zenon
  <2>3. CASE \A p : ~LastIn(evs, p)
    <3>1. LastCompact(evs) = Blank /\ LastCompact(more) = Blank  BY <1>1, <2>1, <2>3, LastCompactIs, Zenon
    <3>. QED  BY <3>1
  <2>. QED  BY <2>2, <2>3
<1>. QED  BY <1>3, <1>4, <1>5

(* An answer the loop gave: right behind the reply it was, or that was the last
   one, or behind the one call of that reply the operator quit at.          *)
EndedBy(evs, n, t) ==
  /\ n > 0 /\ evs[n].turn = t
  /\ \/ evs[n].kind = "reply"
     \/ n > 1 /\ evs[n].kind = "round" /\ evs[n - 1].kind = "reply" /\ evs[n - 1].turn = t

(* The log: numbered, turn by turn, each call under a ref above all before. *)
LogOf(evs, t) ==
  /\ evs \in Seq(LogEvents) /\ t = LatestTurn(evs)
  /\ \A i \in 1..Len(evs) : evs[i].seq = i /\ evs[i].turn > 0
  /\ \A i, j \in 1..Len(evs) : i <= j => evs[i].turn <= evs[j].turn
  /\ \A i, j \in 1..Len(evs) : i < j /\ evs[j].kind = "round" => evs[i].ref < evs[j].ref
  /\ \A k \in 1..Len(evs) : evs[k].kind = "answer" /\ evs[k].ok => EndedBy(evs, k - 1, evs[k].turn)

LEMMA TurnUpto ==
  ASSUME NEW evs, NEW t, LogOf(evs, t)
  PROVE  /\ t \in Nat /\ (evs # <<>> => t > 0 /\ t = evs[Len(evs)].turn /\ Len(evs) \in 1..Len(evs))
         /\ \A i \in 1..Len(evs) : evs[i].turn <= t
<1>1. evs \in Seq(LogEvents) /\ t = LatestTurn(evs)  BY DEF LogOf
<1>2. Len(evs) \in Nat /\ \A i \in 1..Len(evs) : evs[i].turn \in Nat  BY <1>1, LogType
<1>3. CASE evs = <<>>
  <2>1. t = 0 /\ Len(evs) = 0  BY <1>1, <1>3, EmptySeq DEF LatestTurn
  <2>. QED  BY <1>3, <2>1, SMT
<1>4. CASE evs # <<>>
  <2>1. t = evs[Len(evs)].turn  BY <1>1, <1>4 DEF LatestTurn
  <2>2. Len(evs) # 0  BY <1>1, <1>4, EmptySeq
  <2>3. Len(evs) \in 1..Len(evs) /\ \A i \in 1..Len(evs) : i <= Len(evs)  BY <1>2, <2>2, SMT
  <2>4. t \in Nat /\ t > 0  BY <1>2, <2>1, <2>3 DEF LogOf
  <2>5. \A i \in 1..Len(evs) : evs[i].turn <= t  BY <2>1, <2>3, Zenon DEF LogOf
  <2>. QED  BY <2>1, <2>3, <2>4, <2>5
<1>. QED  BY <1>3, <1>4

LEMMA LogMore ==
  ASSUME NEW evs, NEW t, LogOf(evs, t), NEW e \in LogEvents, NEW more, OneMore(evs, more, e),
         e.turn > 0, t <= e.turn,
         e.kind = "round" => e.ref = LatestRef(evs) + 1,
         e.kind = "answer" /\ e.ok => EndedBy(evs, Len(evs), e.turn)
  PROVE  LogOf(more, e.turn)
<1>. DEFINE n == Len(evs)
<1>1. evs \in Seq(LogEvents) /\ t = LatestTurn(evs)  BY DEF LogOf
<1>2. /\ n \in Nat
      /\ \A i \in 1..(n + 1) : i \in 1..n \/ i = n + 1
      /\ \A i \in 1..n : i \in 1..(n + 1) /\ i # n + 1 /\ i < n + 1
      /\ \A i \in 1..n : more[i] = evs[i]
      /\ more \in Seq(LogEvents) /\ Len(more) = n + 1
      /\ more[n + 1].seq = n + 1 /\ more[n + 1].kind = e.kind /\ more[n + 1].turn = e.turn /\ more[n + 1].ref = e.ref
      /\ more[n + 1].ok = e.ok
  BY <1>1, MoreIs DEF OneMore
<1>3. e.turn = LatestTurn(more)  BY <1>1, LatestTurnMore
<1>4. ASSUME NEW i \in 1..(n + 1) PROVE more[i].seq = i /\ more[i].turn > 0
  BY <1>2 DEF LogOf
<1>5. e.turn \in Nat /\ \A i \in 1..n : evs[i].turn \in Nat /\ evs[i].ref \in Nat /\ evs[i].turn <= t
  BY <1>1, LogType, TurnUpto DEF LogEvents
<1>6. t \in Nat  BY TurnUpto
<1>7. \A i \in 1..n : evs[i].turn <= e.turn
  <2>1. ASSUME NEW i \in 1..n PROVE evs[i].turn <= e.turn
    <3>1. evs[i].turn \in Nat /\ evs[i].turn <= t  BY <1>5
    <3>. QED  BY <1>5, <1>6, <3>1, SMT
  <2>. QED  BY <2>1
<1>8. ASSUME NEW i \in 1..(n + 1), NEW j \in 1..(n + 1), i <= j PROVE more[i].turn <= more[j].turn
  <2>1. CASE i \in 1..n /\ j \in 1..n  BY <1>2, <1>8, <2>1, Zenon DEF LogOf
  <2>2. CASE i \in 1..n /\ j = n + 1  BY <1>2, <1>7, <2>2, Zenon
  <2>3. CASE i = n + 1 /\ j \in 1..n  BY <1>2, <1>8, <2>3, SMT
  <2>4. CASE i = n + 1 /\ j = n + 1
    <3>1. e.turn <= e.turn  BY <1>5, SMT
    <3>. QED  BY <1>2, <2>4, <3>1
  <2>. QED  BY <1>2, <2>1, <2>2, <2>3, <2>4, Zenon
<1>9. ASSUME NEW i \in 1..(n + 1), NEW j \in 1..(n + 1), i < j, more[j].kind = "round" PROVE more[i].ref < more[j].ref
  <2>1. CASE i \in 1..n /\ j \in 1..n  BY <1>2, <1>9, <2>1, Zenon DEF LogOf
  <2>2. CASE i \in 1..n /\ j = n + 1
    <3>1. evs[i].ref <= LatestRef(evs) /\ evs[i].ref \in Nat  BY <1>1, <1>5, <2>2, RefsMore
    <3>2. e.ref = LatestRef(evs) + 1  BY <1>2, <1>9, <2>2
    <3>3. LatestRef(evs) \in Nat  BY <1>1, LatestRefIs
    <3>4. evs[i].ref < e.ref  BY <3>1, <3>2, <3>3, SMT
    <3>. QED  BY <1>2, <2>2, <3>4
  <2>3. CASE i = n + 1
    <3>1. ~(i < j)  BY <1>2, <2>3, SMT
    <3>. QED  BY <1>9, <3>1
  <2>. QED  BY <1>2, <2>1, <2>2, <2>3, Zenon
<1>10. ASSUME NEW k \in 1..(n + 1), more[k].kind = "answer", more[k].ok PROVE EndedBy(more, k - 1, more[k].turn)
  <2>1. \A x : x > 0 /\ x \in Int => 1 <= x  BY SMT
  <2>2. ASSUME NEW x \in Int, x <= n, NEW y, EndedBy(evs, x, y) PROVE EndedBy(more, x, y)
    <3>1. x > 0  BY <2>2 DEF EndedBy
    <3>2. x \in 1..n /\ (x > 1 => x - 1 \in 1..n)  BY <1>2, <2>2, <3>1, SMT
    <3>3. more[x] = evs[x] /\ (x > 1 => more[x - 1] = evs[x - 1])  BY <1>2, <3>2
    <3>. QED  BY <2>2, <3>3 DEF EndedBy
  <2>3. CASE k \in 1..n
    <3>1. EndedBy(evs, k - 1, evs[k].turn)  BY <1>2, <1>10, <2>3 DEF LogOf
    <3>2. k - 1 \in Int /\ k - 1 <= n  BY <1>2, <2>3, SMT
    <3>. QED  BY <1>2, <2>2, <2>3, <3>1, <3>2
  <2>4. CASE k = n + 1
    <3>1. k - 1 = n /\ n \in Int /\ n <= n  BY <1>2, <2>4, SMT
    <3>2. EndedBy(evs, n, e.turn)  BY <1>2, <1>10, <2>4
    <3>3. EndedBy(more, n, e.turn)  BY <2>2, <3>1, <3>2
    <3>. QED  BY <1>2, <2>4, <3>1, <3>3
  <2>. QED  BY <1>2, <2>3, <2>4
<1>. QED  BY <1>2, <1>3, <1>4, <1>8, <1>9, <1>10 DEF LogOf

(* The log up to p, and from there on. *)
Pre(evs, p)  == SubSeq(evs, 1, p - 1)
Post(evs, p) == SubSeq(evs, p, Len(evs))

LEMMA PrePost ==
  ASSUME NEW evs \in Seq(LogEvents), NEW p \in 1..Len(evs)
  PROVE  /\ p - 1 \in Nat /\ Len(evs) - p + 1 \in Nat
         /\ Pre(evs, p) \in Seq(LogEvents) /\ Len(Pre(evs, p)) = p - 1
         /\ \A i \in 1..(p - 1) : Pre(evs, p)[i] = evs[i] /\ i \in 1..Len(evs) /\ i < p
         /\ Post(evs, p) \in Seq(LogEvents) /\ Len(Post(evs, p)) = Len(evs) - p + 1
         /\ \A i \in 1..(Len(evs) - p + 1) : /\ Post(evs, p)[i] = evs[p + i - 1]
                                             /\ p + i - 1 \in 1..Len(evs) /\ p <= p + i - 1
<1>1. Len(evs) \in Nat /\ \A i \in 1..Len(evs) : evs[i] \in LogEvents  BY LogType
<1>2. p - 1 \in Nat /\ Len(evs) - p + 1 \in Nat /\ p \in Int /\ 1 \in Int /\ p - 1 \in Int /\ Len(evs) \in Int  BY <1>1, SMT
<1>3. \A i \in 1..(p - 1) : i \in 1..Len(evs) /\ i < p  BY <1>1, SMT
<1>4. \A i \in 1..(Len(evs) - p + 1) : p + i - 1 \in 1..Len(evs) /\ p <= p + i - 1  BY <1>1, SMT
<1>5. \A i \in p..Len(evs) : i \in 1..Len(evs)  BY <1>1, SMT
<1>6. \A i \in 1..(p - 1) : evs[i] \in LogEvents  BY <1>1, <1>3
<1>7. \A i \in p..Len(evs) : evs[i] \in LogEvents  BY <1>1, <1>5
<1>8. /\ Pre(evs, p) \in Seq(LogEvents) /\ Len(Pre(evs, p)) = (IF 1 <= p - 1 THEN p - 1 - 1 + 1 ELSE 0)
      /\ \A i \in 1..(p - 1 - 1 + 1) : Pre(evs, p)[i] = evs[1 + i - 1]
  BY <1>2, <1>6, SubSeqProperties DEF Pre
<1>9. /\ Post(evs, p) \in Seq(LogEvents) /\ Len(Post(evs, p)) = (IF p <= Len(evs) THEN Len(evs) - p + 1 ELSE 0)
      /\ \A i \in 1..(Len(evs) - p + 1) : Post(evs, p)[i] = evs[p + i - 1]
  BY <1>2, <1>7, SubSeqProperties DEF Post
<1>10. /\ (IF 1 <= p - 1 THEN p - 1 - 1 + 1 ELSE 0) = p - 1 /\ p - 1 - 1 + 1 = p - 1 /\ p <= Len(evs)
       /\ \A i \in 1..(p - 1) : 1 + i - 1 = i
  BY <1>1, SMT
<1>11. Len(Pre(evs, p)) = p - 1 /\ \A i \in 1..(p - 1) : Pre(evs, p)[i] = evs[i]
  BY <1>8, <1>10, Zenon
<1>. QED  BY <1>2, <1>3, <1>4, <1>8, <1>9, <1>10, <1>11, Zenon

(* The events numbered above q, in a log numbered from 1. *)
AfterIs(s, q) ==
  /\ After(s, q) \in Seq(LogEvents)
  /\ Len(After(s, q)) = IF Len(s) <= q THEN 0 ELSE Len(s) - q
  /\ \A i \in 1..(Len(s) - q) : After(s, q)[i] = s[q + i]

AfterPieces(s, q) == [i \in DOMAIN s |-> IF s[i].seq > q THEN <<s[i]>> ELSE <<>>]

LEMMA AfterMore ==
  ASSUME NEW q, NEW s \in Seq(LogEvents), NEW e \in LogEvents
  PROVE  /\ AfterPieces(s, q) \in Seq(Seq(LogEvents))
         /\ After(Append(s, e), q) = After(s, q) \o (IF e.seq > q THEN <<e>> ELSE <<>>)
<1>. DEFINE t == Append(s, e)
            g(x) == IF x.seq > q THEN <<x>> ELSE <<>>
<1>1. ASSUME NEW u \in Seq(LogEvents)
      PROVE  /\ AfterPieces(u, q) \in Seq(Seq(LogEvents)) /\ Len(AfterPieces(u, q)) = Len(u)
             /\ \A i \in 1..Len(u) : AfterPieces(u, q)[i] = g(u[i])
  <2>. DEFINE n == Len(u)
              h == [i \in 1..n |-> g(u[i])]
  <2>1. n \in Nat /\ DOMAIN u = 1..n /\ \A i \in 1..n : u[i] \in LogEvents  BY LogType
  <2>2. \A x \in LogEvents : g(x) \in Seq(LogEvents)  OBVIOUS
  <2>3. AfterPieces(u, q) = h  BY <2>1, Zenon DEF AfterPieces
  <2>. HIDE DEF g
  <2>4. \A i \in 1..n : h[i] = g(u[i]) /\ h[i] \in Seq(LogEvents)  BY <2>1, <2>2
  <2>5. Runs(h, n)  BY DEF Runs
  <2>. HIDE DEF h, n
  <2>6. h \in Seq(Seq(LogEvents)) /\ Len(h) = n  BY <2>1, <2>4, <2>5, RunsIsSeq, Zenon
  <2>. QED  BY <2>3, <2>4, <2>6, Zenon DEF n
<1>2. /\ t \in Seq(LogEvents) /\ Len(t) = Len(s) + 1 /\ Len(s) \in Nat
      /\ \A i \in 1..Len(s) : t[i] = s[i]
      /\ t[Len(s) + 1] = e
  BY AppendProperties, LenProperties
<1>3. g(e) \in Seq(LogEvents)  OBVIOUS
<1>. HIDE DEF t, g
<1>4. AfterPieces(t, q) = Append(AfterPieces(s, q), g(e))
  <2>. DEFINE a == AfterPieces(t, q)
              b == Append(AfterPieces(s, q), g(e))
              m == Len(s)
  <2>1. a \in Seq(Seq(LogEvents)) /\ Len(a) = m + 1 /\ \A i \in 1..(m + 1) : a[i] = g(t[i])  BY <1>1, <1>2
  <2>2. /\ b \in Seq(Seq(LogEvents)) /\ Len(b) = m + 1 /\ b[m + 1] = g(e)
        /\ \A i \in 1..m : b[i] = AfterPieces(s, q)[i]
    BY <1>1, <1>3, AppendProperties
  <2>3. \A i \in 1..m : AfterPieces(s, q)[i] = g(s[i])  BY <1>1
  <2>4. \A i \in 1..(m + 1) : i \in 1..m \/ i = m + 1  BY <1>2, SMT
  <2>. HIDE DEF a, b, m
  <2>5. \A i \in 1..m : t[i] = s[i]  BY <1>2 DEF m
  <2>6. t[m + 1] = e  BY <1>2 DEF m
  <2>7. \A i \in 1..(m + 1) : a[i] = b[i]  BY <2>1, <2>2, <2>3, <2>4, <2>5, <2>6, Zenon
  <2>8. a = b  BY <2>1, <2>2, <2>7, SeqEqual, Zenon
  <2>. QED  BY <2>8 DEF a, b
<1>5. AfterPieces(s, q) \in Seq(Seq(LogEvents))  BY <1>1
<1>6. FlattenSeq(AfterPieces(t, q)) = FlattenSeq(AfterPieces(s, q)) \o g(e)  BY <1>3, <1>4, <1>5, FlatAppend, Zenon
<1>7. \A u : After(u, q) = FlattenSeq(AfterPieces(u, q))  BY Zenon DEF After, AfterPieces
<1>8. After(t, q) = After(s, q) \o g(e)  BY <1>6, <1>7, Zenon
<1>. QED  BY <1>5, <1>8, Zenon DEF t, g

LEMMA AfterOf ==
  ASSUME NEW q \in Nat, NEW evs \in Seq(LogEvents), \A i \in 1..Len(evs) : evs[i].seq = i
  PROVE  AfterIs(evs, q)
<1>. DEFINE X == {s \in Seq(LogEvents) : (\A i \in 1..Len(s) : s[i].seq = i) => AfterIs(s, q)}
<1>1. <<>> \in X
  <2>1. After(<<>>, q) = <<>>
    <3>1. [i \in DOMAIN <<>> |-> IF <<>>[i].seq > q THEN <<<<>>[i]>> ELSE <<>>] = <<>>  OBVIOUS
    <3>. QED  BY <3>1, FlatEmpty, Zenon DEF After
  <2>2. Len(<<>>) = 0 /\ <<>> \in Seq(LogEvents)  OBVIOUS
  <2>3. 0 <= q /\ \A i \in 1..(0 - q) : FALSE  BY SMT
  <2>4. Len(<<>>) <= q /\ \A i \in 1..(Len(<<>>) - q) : FALSE  BY <2>2, <2>3
  <2>5. Len(After(<<>>, q)) = IF Len(<<>>) <= q THEN 0 ELSE Len(<<>>) - q  BY <2>1, <2>2, <2>3
  <2>6. AfterIs(<<>>, q)  BY <2>1, <2>2, <2>4, <2>5 DEF AfterIs
  <2>. QED  BY <2>2, <2>6
<1>2. ASSUME NEW s \in X, NEW e \in LogEvents PROVE Append(s, e) \in X
  <2>. DEFINE t == Append(s, e)
              n == Len(s)
  <2>1. /\ t \in Seq(LogEvents) /\ Len(t) = n + 1 /\ n \in Nat
        /\ \A i \in 1..n : t[i] = s[i]
        /\ t[n + 1] = e
    BY AppendProperties, LenProperties
  <2>2. s \in Seq(LogEvents)  OBVIOUS
  <2>3. ASSUME \A i \in 1..Len(t) : t[i].seq = i PROVE AfterIs(t, q)
    <3>1. 1..n \subseteq 1..(n + 1) /\ n + 1 \in 1..(n + 1)  BY <2>1, SMT
    <3>2. e.seq = n + 1 /\ \A i \in 1..n : s[i].seq = i  BY <2>1, <2>3, <3>1
    <3>3. AfterIs(s, q)  BY <3>2
    <3>4. After(t, q) = After(s, q) \o (IF e.seq > q THEN <<e>> ELSE <<>>)  BY <2>2, AfterMore
    <3>. DEFINE a == After(s, q)
    <3>5. a \in Seq(LogEvents) /\ Len(a) = (IF n <= q THEN 0 ELSE n - q) /\ \A i \in 1..(n - q) : a[i] = s[q + i]
      BY <3>3 DEF AfterIs
    <3>. HIDE DEF t, n, X, a
    <3>6. CASE n < q
      <4>1. ~(e.seq > q) /\ n <= q /\ n + 1 <= q  BY <2>1, <3>2, <3>6, SMT
      <4>2. After(t, q) = a  BY <3>4, <3>5, <4>1, ConcatEmptySeq DEF a
      <4>3. \A i \in 1..(n + 1 - q) : FALSE  BY <2>1, <3>6, SMT
      <4>4. Len(t) <= q /\ \A i \in 1..(Len(t) - q) : FALSE  BY <2>1, <4>1, <4>3
      <4>5. a \in Seq(LogEvents) /\ Len(a) = 0  BY <3>5, <4>1
      <4>. QED  BY <4>2, <4>4, <4>5, Zenon DEF AfterIs
    <3>7. CASE ~(n < q)
      <4>1. e.seq > q /\ ~(n + 1 <= q) /\ Len(a) = n - q /\ n - q \in Nat /\ n + 1 - q = n - q + 1
        BY <2>1, <3>2, <3>5, <3>7, SMT
      <4>2. After(t, q) = Append(a, e)  BY <3>4, <3>5, <4>1 DEF a
      <4>3. /\ Append(a, e) \in Seq(LogEvents) /\ Len(Append(a, e)) = n - q + 1
            /\ \A i \in 1..(n - q) : Append(a, e)[i] = a[i]
            /\ Append(a, e)[n - q + 1] = e
        BY <3>5, <4>1, AppendProperties
      <4>4. \A i \in 1..(n - q) : q + i \in 1..n  BY <2>1, <3>7, SMT
      <4>5. \A i \in 1..(n + 1 - q) : i \in 1..(n - q) \/ (i = n - q + 1 /\ q + i = n + 1)  BY <2>1, <3>7, SMT
      <4>6. \A i \in 1..(n + 1 - q) : Append(a, e)[i] = t[q + i]
        BY <2>1, <3>5, <4>3, <4>4, <4>5, Zenon
      <4>7. ~(Len(t) <= q) /\ Len(t) - q = n - q + 1 /\ \A i \in 1..(Len(t) - q) : Append(a, e)[i] = t[q + i]
        <5>1. Len(t) = n + 1  BY <2>1
        <5>2. n + 1 - q = Len(t) - q /\ ~(Len(t) <= q) /\ Len(t) - q = n - q + 1  BY <2>1, <4>1, <5>1, SMT
        <5>3. 1..(n + 1 - q) = 1..(Len(t) - q)  BY <5>2
        <5>4. \A i \in 1..(Len(t) - q) : Append(a, e)[i] = t[q + i]  BY <4>6, <5>3, Zenon
        <5>. QED  BY <5>2, <5>4
      <4>8. Append(a, e) \in Seq(LogEvents) /\ Len(Append(a, e)) = Len(t) - q  BY <4>3, <4>7, Zenon
      <4>. QED  BY <4>2, <4>7, <4>8, Zenon DEF AfterIs
    <3>. QED  BY <3>6, <3>7
  <2>. QED  BY <2>1, <2>3
<1>3. X \in SUBSET Seq(LogEvents)  OBVIOUS
<1>. HIDE DEF X
<1>4. X = Seq(LogEvents)  BY <1>1, <1>2, <1>3, AllSequences, Zenon
<1>. QED  BY <1>4 DEF X

LEMMA AfterPost ==
  ASSUME NEW evs, NEW t, LogOf(evs, t), NEW p \in 1..Len(evs)
  PROVE  After(evs, p - 1) = Post(evs, p)
<1>1. evs \in Seq(LogEvents) /\ \A i \in 1..Len(evs) : evs[i].seq = i  BY DEF LogOf
<1>2. /\ p - 1 \in Nat /\ Post(evs, p) \in Seq(LogEvents) /\ Len(Post(evs, p)) = Len(evs) - p + 1
      /\ \A i \in 1..(Len(evs) - p + 1) : Post(evs, p)[i] = evs[p + i - 1]
  BY <1>1, PrePost
<1>3. AfterIs(evs, p - 1)  BY <1>1, <1>2, AfterOf
<1>. DEFINE a == After(evs, p - 1)
            b == Post(evs, p)
            m == Len(evs) - p + 1
<1>4. /\ ~(Len(evs) <= p - 1) /\ Len(evs) - (p - 1) = m /\ m \in Nat
      /\ \A i \in 1..m : p - 1 + i = p + i - 1
  <2>1. Len(evs) \in Nat  BY <1>1, LogType
  <2>. QED  BY <2>1, SMT
<1>5. a \in Seq(LogEvents) /\ Len(a) = m /\ \A i \in 1..m : a[i] = evs[p - 1 + i]
  BY <1>3, <1>4, Zenon DEF AfterIs
<1>. HIDE DEF a, b, m
<1>6. b \in Seq(LogEvents) /\ Len(b) = m /\ \A i \in 1..m : b[i] = evs[p + i - 1]  BY <1>2 DEF b, m
<1>7. \A i \in 1..m : a[i] = b[i]  BY <1>4, <1>5, <1>6, Zenon
<1>8. a = b  BY <1>5, <1>6, <1>7, SeqEqual, Zenon
<1>. QED  BY <1>8 DEF a, b

(* A transcript is its events' pieces put together. *)
Pieces(A, o) == [i \in 1..Len(A) |-> Piece(A, A[i], o)]

LEMMA PiecesAre ==
  ASSUME NEW A \in Seq(LogEvents), NEW o
  PROVE  /\ Pieces(A, o) \in Seq(Seq(Parts)) /\ Len(Pieces(A, o)) = Len(A)
         /\ \A i \in 1..Len(A) : Pieces(A, o)[i] = Piece(A, A[i], o) /\ PieceSo(Piece(A, A[i], o), A, A[i], o)
         /\ Transcript(A, o) = FlattenSeq(Pieces(A, o)) /\ Transcript(A, o) \in Seq(Parts)
<1>. DEFINE n == Len(A)
            h == [i \in 1..n |-> Piece(A, A[i], o)]
<1>1. n \in Nat /\ DOMAIN A = 1..n /\ \A i \in 1..n : A[i] \in LogEvents  BY LogType
<1>2. \A i \in 1..n : PieceSo(Piece(A, A[i], o), A, A[i], o)  BY <1>1, PieceIs
<1>3. \A i \in 1..n : h[i] = Piece(A, A[i], o) /\ h[i] \in Seq(Parts)  BY <1>2 DEF PieceSo
<1>4. Runs(h, n)  BY DEF Runs
<1>5. Pieces(A, o) = h  BY DEF Pieces
<1>6. Transcript(A, o) = FlattenSeq(Pieces(A, o))  BY <1>1, Zenon DEF Transcript, Pieces
<1>. HIDE DEF h, n
<1>7. h \in Seq(Seq(Parts)) /\ Len(h) = n  BY <1>1, <1>3, <1>4, RunsIsSeq, Zenon
<1>8. FlattenSeq(Pieces(A, o)) \in Seq(Parts)  BY <1>5, <1>7, FlatType, Zenon
<1>. QED  BY <1>2, <1>3, <1>5, <1>6, <1>7, <1>8, Zenon DEF n

(* B is A and events numbered above: an event of A goes the same in both. *)
Longer(A, B) ==
  /\ A \in Seq(LogEvents) /\ B \in Seq(LogEvents)
  /\ \A i \in 1..Len(A) : i \in 1..Len(B) /\ B[i] = A[i]
  /\ \A i \in 1..Len(B) : i \in 1..Len(A) \/ \A k \in 1..Len(A) : ~(B[i].seq < A[k].seq)

LEMMA GoesTheSame ==
  ASSUME NEW A, NEW B, Longer(A, B), NEW k \in 1..Len(A), NEW o
  PROVE  InTurn(B, A[k], o) = InTurn(A, A[k], o)
<1>. DEFINE e == A[k]
<1>1. /\ DOMAIN A = 1..Len(A) /\ DOMAIN B = 1..Len(B)
      /\ \A i : i \in 1..Len(B) /\ B[i].seq < e.seq => i \in 1..Len(A) /\ B[i] = A[i]
      /\ \A i \in 1..Len(A) : i \in 1..Len(B) /\ B[i] = A[i]
  BY LogType, Zenon DEF Longer
<1>. HIDE DEF e
<1>2. Seen(B, e, o) = Seen(A, e, o)
  <2>1. ASSUME NEW r \in Seen(B, e, o) PROVE r \in Seen(A, e, o)
    <3>1. PICK j \in 1..Len(B) : /\ HasRun(B[j]) /\ B[j].seq < e.seq /\ B[j].out = e.out
                                 /\ ~Collapsed(B[j], o) /\ ~Elided(B[j], o) /\ r = B[j].ref
      BY <1>1, <2>1, Zenon DEF Seen
    <3>2. j \in 1..Len(A) /\ B[j] = A[j]  BY <1>1, <3>1, Zenon
    <3>. QED  BY <1>1, <3>1, <3>2, Zenon DEF Seen
  <2>2. ASSUME NEW r \in Seen(A, e, o) PROVE r \in Seen(B, e, o)
    <3>1. PICK j \in 1..Len(A) : /\ HasRun(A[j]) /\ A[j].seq < e.seq /\ A[j].out = e.out
                                 /\ ~Collapsed(A[j], o) /\ ~Elided(A[j], o) /\ r = A[j].ref
      BY <1>1, <2>2, Zenon DEF Seen
    <3>2. j \in 1..Len(B) /\ B[j] = A[j]  BY <1>1, <3>1, Zenon
    <3>. QED  BY <1>1, <3>1, <3>2, Zenon DEF Seen
  <2>. QED  BY <2>1, <2>2
<1>3. ASSUME NEW kinds PROVE Before(B, e, kinds) = Before(A, e, kinds)
  <2>1. ASSUME NEW i PROVE i \in Before(B, e, kinds) <=> i \in Before(A, e, kinds)
    BY <1>1, Zenon DEF Before
  <2>. QED  BY <2>1, Zenon
<1>4. Closing(B, e) = Closing(A, e)
  <2>1. Before(B, e, {"reply"}) = Before(A, e, {"reply"}) /\ Before(B, e, {"reply", "round"}) = Before(A, e, {"reply", "round"})
    BY <1>3
  <2>2. Replied(B, e) = Replied(A, e)  BY <2>1, Zenon DEF Replied
  <2>3. Final(B, e) = Final(A, e)  BY <2>1, Zenon DEF Final
  <2>. QED  BY <2>2, <2>3, Zenon DEF Closing
<1>5. Results(B, e, o) = Results(A, e, o)  BY <1>2, Zenon DEF Results
<1>6. InTurn(B, e, o) = InTurn(A, e, o)  BY <1>4, <1>5, Zenon DEF InTurn
<1>. QED  BY <1>6 DEF e

(* Nothing is collapsed by no compaction. *)
LEMMA NotCollapsed ==
  ASSUME NEW e \in LogEvents, e.turn > 0
  PROVE  ~Collapsed(e, Blank)
<1>1. e.turn \in Nat /\ Blank.collapse = 0  BY DEF LogEvents, Blank
<1>. QED  BY <1>1 DEF Collapsed

LEMMA TranscriptMore ==
  ASSUME NEW A \in Seq(LogEvents), NEW e \in LogEvents, Longer(A, Append(A, e)),
         e.turn > 0, \A i \in 1..Len(A) : A[i].turn > 0
  PROVE  \E x \in Seq(Parts) : Transcript(Append(A, e), Blank) = Transcript(A, Blank) \o x
<1>. DEFINE B == Append(A, e)
            n == Len(A)
            x == Piece(B, e, Blank)
<1>1. /\ B \in Seq(LogEvents) /\ Len(B) = n + 1 /\ n \in Nat
      /\ \A i \in 1..n : B[i] = A[i]
      /\ B[n + 1] = e
  BY AppendProperties, LenProperties
<1>2. \A i \in 1..n : A[i] \in LogEvents  BY LogType
<1>. HIDE DEF B, n
<1>3. \A i \in 1..n : Piece(B, A[i], Blank) = Piece(A, A[i], Blank)
  <2>1. \A i \in 1..n : ~Collapsed(A[i], Blank)  BY <1>2, NotCollapsed DEF n
  <2>2. \A i \in 1..n : InTurn(B, A[i], Blank) = InTurn(A, A[i], Blank)  BY GoesTheSame DEF n, B
  <2>. QED  BY <2>1, <2>2, Zenon DEF Piece
<1>4. /\ Pieces(A, Blank) \in Seq(Seq(Parts)) /\ Len(Pieces(A, Blank)) = n
      /\ \A i \in 1..n : Pieces(A, Blank)[i] = Piece(A, A[i], Blank)
      /\ Transcript(A, Blank) = FlattenSeq(Pieces(A, Blank))
  BY PiecesAre, Zenon DEF n
<1>5. /\ Pieces(B, Blank) \in Seq(Seq(Parts)) /\ Len(Pieces(B, Blank)) = n + 1
      /\ \A i \in 1..(n + 1) : Pieces(B, Blank)[i] = Piece(B, B[i], Blank)
      /\ Transcript(B, Blank) = FlattenSeq(Pieces(B, Blank))
  BY <1>1, PiecesAre
<1>6. x \in Seq(Parts)  BY <1>1, PieceIs DEF PieceSo
<1>. HIDE DEF x
<1>7. Pieces(B, Blank) = Append(Pieces(A, Blank), x)
  <2>. DEFINE a == Pieces(B, Blank)
              c == Pieces(A, Blank)
              b == Append(c, x)
  <2>1. c \in Seq(Seq(Parts)) /\ Len(c) = n  BY <1>4
  <2>. HIDE DEF c
  <2>2. /\ b \in Seq(Seq(Parts)) /\ Len(b) = n + 1 /\ b[n + 1] = x
        /\ \A i \in 1..n : b[i] = c[i]
    BY <1>6, <2>1, AppendProperties
  <2>3. \A i \in 1..(n + 1) : i \in 1..n \/ i = n + 1  BY <1>1, SMT
  <2>4. \A i \in 1..(n + 1) : a[i] = Piece(B, B[i], Blank)  BY <1>5
  <2>5. \A i \in 1..n : c[i] = Piece(A, A[i], Blank)  BY <1>4 DEF c
  <2>. HIDE DEF a, b
  <2>6. \A i \in 1..(n + 1) : a[i] = b[i]
    <3>1. ASSUME NEW i \in 1..(n + 1) PROVE a[i] = b[i]
      <4>1. CASE i \in 1..n
        <5>1. B[i] = A[i] /\ Piece(B, A[i], Blank) = Piece(A, A[i], Blank)  BY <1>1, <1>3, <4>1, Zenon
        <5>. QED  BY <2>2, <2>4, <2>5, <4>1, <5>1, Zenon
      <4>2. CASE i = n + 1
        BY <1>1, <2>2, <2>4, <4>2, Zenon DEF x
      <4>. QED  BY <2>3, <4>1, <4>2
    <3>. QED  BY <3>1
  <2>7. a \in Seq(Seq(Parts)) /\ Len(a) = n + 1  BY <1>5 DEF a
  <2>8. a = b  BY <2>2, <2>6, <2>7, SeqEqual, Zenon
  <2>. QED  BY <2>8 DEF a, b, c
<1>8. FlattenSeq(Append(Pieces(A, Blank), x)) = FlattenSeq(Pieces(A, Blank)) \o x  BY <1>4, <1>6, FlatAppend, Zenon
<1>9. Transcript(B, Blank) = Transcript(A, Blank) \o x  BY <1>4, <1>5, <1>7, <1>8, Zenon
<1>. QED  BY <1>6, <1>9, Zenon DEF B

-----------------------------------------------------------------------------
(* What Hermes reads of evs, compacted at p: the conversation as the compaction
   left it, and what came after. *)
Reads(evs, p) == Transcript(Pre(evs, p), evs[p]) \o Transcript(Post(evs, p), Blank)

ReadPieces(evs, p) == Pieces(Pre(evs, p), evs[p]) \o Pieces(Post(evs, p), Blank)

Stretch(evs, p, k) == IF k < p THEN Pre(evs, p) ELSE Post(evs, p)

BoundsAt(evs, p, k) == IF k < p THEN evs[p] ELSE Blank

PieceAt(evs, p, k) == Piece(Stretch(evs, p, k), evs[k], BoundsAt(evs, p, k))

ReadSo(evs, p, Q, F) ==
  /\ Q \in Seq(Seq(Parts)) /\ Len(Q) = Len(evs)
  /\ \A k \in 1..Len(evs) : /\ Q[k] = PieceAt(evs, p, k)
                            /\ PieceSo(Q[k], Stretch(evs, p, k), evs[k], BoundsAt(evs, p, k))
  /\ F \in Seq(Parts) /\ F = FlattenSeq(Q)
  /\ Laid(Q, F)

LEMMA ReadsAre ==
  ASSUME NEW evs, NEW t, LogOf(evs, t), NEW p \in 1..Len(evs)
  PROVE  ReadSo(evs, p, ReadPieces(evs, p), Reads(evs, p))
<1>. DEFINE A == Pre(evs, p)
            B == Post(evs, p)
            P == Pieces(A, evs[p])
            R == Pieces(B, Blank)
            Q == ReadPieces(evs, p)
            F == Reads(evs, p)
            n == Len(evs)
<1>1. evs \in Seq(LogEvents) /\ \A i \in 1..n : evs[i].seq = i  BY DEF LogOf
<1>2. /\ p - 1 \in Nat /\ n - p + 1 \in Nat
      /\ A \in Seq(LogEvents) /\ Len(A) = p - 1
      /\ \A i \in 1..(p - 1) : A[i] = evs[i] /\ i \in 1..n /\ i < p
      /\ B \in Seq(LogEvents) /\ Len(B) = n - p + 1
      /\ \A i \in 1..(n - p + 1) : B[i] = evs[p + i - 1] /\ p + i - 1 \in 1..n /\ p <= p + i - 1
  BY <1>1, PrePost
<1>. HIDE DEF A, B, n
<1>3. /\ P \in Seq(Seq(Parts)) /\ Len(P) = p - 1
      /\ \A i \in 1..(p - 1) : P[i] = Piece(A, A[i], evs[p]) /\ PieceSo(Piece(A, A[i], evs[p]), A, A[i], evs[p])
      /\ Transcript(A, evs[p]) = FlattenSeq(P)
  BY <1>2, PiecesAre
<1>4. /\ R \in Seq(Seq(Parts)) /\ Len(R) = n - p + 1
      /\ \A i \in 1..(n - p + 1) : R[i] = Piece(B, B[i], Blank) /\ PieceSo(Piece(B, B[i], Blank), B, B[i], Blank)
      /\ Transcript(B, Blank) = FlattenSeq(R)
  BY <1>2, PiecesAre
<1>5. Q = P \o R /\ F = FlattenSeq(P) \o FlattenSeq(R)
  <2>1. Q = P \o R  BY DEF ReadPieces, A, B
  <2>2. F = Transcript(A, evs[p]) \o Transcript(B, Blank)  BY DEF Reads, A, B
  <2>. QED  BY <1>3, <1>4, <2>1, <2>2, Zenon
<1>. HIDE DEF P, R, Q, F
<1>6. F = FlattenSeq(Q)  BY <1>3, <1>4, <1>5, FlatConcat, Zenon
<1>7. /\ P \o R \in Seq(Seq(Parts)) /\ Len(P \o R) = p - 1 + (n - p + 1)
      /\ \A i \in 1..(p - 1 + (n - p + 1)) : (P \o R)[i] = IF i <= p - 1 THEN P[i] ELSE R[i - (p - 1)]
  <2>1. P \in Seq(Seq(Parts)) /\ R \in Seq(Seq(Parts)) /\ Len(P) = p - 1 /\ Len(R) = n - p + 1  BY <1>3, <1>4
  <2>2. /\ P \o R \in Seq(Seq(Parts)) /\ Len(P \o R) = Len(P) + Len(R)
        /\ \A i \in 1..(Len(P) + Len(R)) : (P \o R)[i] = IF i <= Len(P) THEN P[i] ELSE R[i - Len(P)]
    BY <2>1, ConcatProperties
  <2>. QED  BY <2>1, <2>2, Zenon
<1>8. n \in Nat /\ p - 1 + (n - p + 1) = n /\ p \in 1..n
  <2>1. n \in Nat /\ p \in 1..n  BY <1>1, LogType DEF n
  <2>. QED  BY <2>1, SMT
<1>9. /\ Q \in Seq(Seq(Parts)) /\ Len(Q) = n
      /\ \A i \in 1..n : Q[i] = IF i <= p - 1 THEN P[i] ELSE R[i - (p - 1)]
  BY <1>5, <1>7, <1>8, Zenon
<1>10. ASSUME NEW k \in 1..n
       PROVE  Q[k] = PieceAt(evs, p, k) /\ PieceSo(Q[k], Stretch(evs, p, k), evs[k], BoundsAt(evs, p, k))
  <2>1. CASE k < p
    <3>1. k <= p - 1 /\ k \in 1..(p - 1)  BY <1>8, <2>1, SMT
    <3>2. Q[k] = P[k] /\ A[k] = evs[k]  BY <1>2, <1>9, <3>1, Zenon
    <3>3. Stretch(evs, p, k) = A /\ BoundsAt(evs, p, k) = evs[p]  BY <2>1 DEF Stretch, BoundsAt, A
    <3>. QED  BY <1>3, <3>1, <3>2, <3>3, Zenon DEF PieceAt
  <2>2. CASE ~(k < p)
    <3>1. ~(k <= p - 1) /\ k - (p - 1) \in 1..(n - p + 1) /\ p + (k - (p - 1)) - 1 = k  BY <1>8, <2>2, SMT
    <3>2. Q[k] = R[k - (p - 1)] /\ B[k - (p - 1)] = evs[k]  BY <1>2, <1>9, <3>1, Zenon
    <3>3. Stretch(evs, p, k) = B /\ BoundsAt(evs, p, k) = Blank  BY <2>2 DEF Stretch, BoundsAt, B
    <3>. QED  BY <1>4, <3>1, <3>2, <3>3, Zenon DEF PieceAt
  <2>. QED  BY <2>1, <2>2
<1>11. Owning(Q)
  <2>1. ASSUME NEW k \in 1..n, NEW j \in 1..Len(Q[k]) PROVE Q[k][j].seq = k
    <3>1. PartSo(Q[k][j], Stretch(evs, p, k), evs[k], BoundsAt(evs, p, k))  BY <1>10, Zenon DEF PieceSo
    <3>. QED  BY <1>1, <3>1, Zenon DEF PartSo
  <2>. QED  BY <1>9, <2>1, Zenon DEF Owning
<1>12. Laid(Q, F) /\ F \in Seq(Parts)  BY <1>6, <1>9, <1>11, FlatLaid, FlatType, Zenon
<1>. QED  BY <1>6, <1>9, <1>10, <1>12, Zenon DEF ReadSo, Q, F, n

(* A compaction at p: within the log before it, below that log's latest turn. *)
CutAt(evs, p) ==
  /\ p \in 1..Len(evs) /\ evs[p].kind = "compact"
  /\ evs[p].upto <= p - 1 /\ evs[p].collapse < LatestTurn(Pre(evs, p))

LEMMA CutIs ==
  ASSUME NEW evs, NEW t, LogOf(evs, t), NEW p, CutAt(evs, p)
  PROVE  /\ p \in 1..Len(evs) /\ evs[p].collapse < t
         /\ \A k \in 1..Len(evs) : evs[k].turn <= evs[p].collapse => k < p - 1
         /\ \A k \in 1..Len(evs) : Collapsed(evs[k], BoundsAt(evs, p, k)) <=> evs[k].turn <= evs[p].collapse
<1>. DEFINE c == evs[p].collapse
            A == Pre(evs, p)
<1>1. /\ evs \in Seq(LogEvents) /\ p \in 1..Len(evs)
      /\ \A i \in 1..Len(evs) : evs[i].turn > 0
      /\ \A i, j \in 1..Len(evs) : i <= j => evs[i].turn <= evs[j].turn
  BY DEF LogOf, CutAt
<1>2. /\ p - 1 \in Nat /\ A \in Seq(LogEvents) /\ Len(A) = p - 1
      /\ \A i \in 1..(p - 1) : A[i] = evs[i] /\ i \in 1..Len(evs)
  BY <1>1, PrePost
<1>3. /\ Len(evs) \in Nat /\ c \in Nat /\ \A k \in 1..Len(evs) : evs[k].turn \in Nat /\ evs[k] \in LogEvents
  BY <1>1, LogType
<1>4. c < LatestTurn(A)  BY DEF CutAt
<1>. HIDE DEF A, c
<1>5. A # <<>>
  <2>1. A = <<>> => LatestTurn(A) = 0  BY DEF LatestTurn
  <2>. QED  BY <1>3, <1>4, <2>1, SMT
<1>6. p - 1 \in 1..(p - 1) /\ LatestTurn(A) = A[p - 1].turn
  <2>1. Len(A) # 0  BY <1>2, <1>5, EmptySeq
  <2>2. p - 1 \in 1..(p - 1)  BY <1>1, <1>2, <1>3, <2>1, SMT
  <2>. QED  BY <1>2, <1>5, <2>2 DEF LatestTurn
<1>7. c < evs[p - 1].turn /\ p - 1 \in 1..Len(evs)
  BY <1>2, <1>4, <1>6
<1>8. ASSUME NEW k \in 1..Len(evs), evs[k].turn <= c PROVE k < p - 1
  <2>1. evs[k].turn \in Nat /\ evs[p - 1].turn \in Nat  BY <1>3, <1>7
  <2>2. ~(evs[p - 1].turn <= evs[k].turn)  BY <1>3, <1>7, <1>8, <2>1, SMT
  <2>3. ~(p - 1 <= k)  BY <1>1, <1>7, <2>2, Zenon
  <2>. QED  BY <1>2, <2>3, SMT
<1>9. ASSUME NEW k \in 1..Len(evs) PROVE Collapsed(evs[k], BoundsAt(evs, p, k)) <=> evs[k].turn <= c
  <2>1. CASE k < p
    BY <2>1 DEF BoundsAt, Collapsed, c
  <2>2. CASE ~(k < p)
    <3>1. ~Collapsed(evs[k], Blank)  BY <1>1, <1>3, NotCollapsed
    <3>2. ~(k < p - 1)  BY <1>1, <1>3, <2>2, SMT
    <3>3. ~(evs[k].turn <= c)  BY <1>8, <3>2
    <3>. QED  BY <2>2, <3>1, <3>3 DEF BoundsAt
  <2>. QED  BY <2>1, <2>2
<1>10. c < t
  <2>1. evs[p - 1].turn <= t /\ t \in Nat  BY <1>7, TurnUpto
  <2>2. evs[p - 1].turn \in Nat  BY <1>3, <1>7
  <2>. QED  BY <1>3, <1>7, <2>1, <2>2, SMT
<1>. QED  BY <1>1, <1>8, <1>9, <1>10 DEF c

(* The last event of a turn a compaction collapsed. *)
LEMMA TurnEnds ==
  ASSUME NEW evs, NEW t, LogOf(evs, t), NEW p, CutAt(evs, p), NEW i \in 1..Len(evs), evs[i].turn <= evs[p].collapse
  PROVE  \E k \in 1..Len(evs) : /\ i <= k /\ k < p /\ evs[k].turn = evs[i].turn
                                /\ EndsTurn(Pre(evs, p), evs[k])
<1>. DEFINE D == {j \in 1..(p - 1) : evs[j].turn = evs[i].turn}
            A == Pre(evs, p)
<1>1. p \in 1..Len(evs) /\ i < p - 1  BY CutIs
<1>2. evs \in Seq(LogEvents) /\ \A j \in 1..Len(evs) : evs[j].seq = j  BY DEF LogOf
<1>3. /\ p - 1 \in Nat /\ A \in Seq(LogEvents) /\ Len(A) = p - 1
      /\ \A j \in 1..(p - 1) : A[j] = evs[j] /\ j \in 1..Len(evs) /\ j < p
  BY <1>1, <1>2, PrePost
<1>4. i \in D /\ D \in SUBSET (0..(p - 1))
  <2>1. i \in 1..(p - 1) /\ \A j \in 1..(p - 1) : j \in 0..(p - 1)  BY <1>1, <1>3, SMT
  <2>. QED  BY <2>1
<1>. HIDE DEF A
<1>5. PICK k \in D : \A j \in D : j <= k
  <2>. HIDE DEF D
  <2>. QED  BY <1>3, <1>4, Greatest, Zenon
<1>6. DOMAIN A = 1..(p - 1)  BY <1>3, LogType, Zenon
<1>7. EndsTurn(A, evs[k])
  <2>1. ASSUME NEW j \in DOMAIN A, A[j].turn = evs[k].turn PROVE A[j].seq <= evs[k].seq
    <3>1. j \in D  BY <1>3, <1>6, <2>1
    <3>2. j <= k /\ A[j] = evs[j] /\ j \in 1..Len(evs) /\ k \in 1..Len(evs)  BY <1>3, <1>5, <1>6, <2>1, <3>1
    <3>. QED  BY <1>2, <3>2
  <2>. QED  BY <2>1 DEF EndsTurn
<1>. QED  BY <1>3, <1>4, <1>5, <1>7 DEF A

(* Where what Hermes reads has event i: in the gist of its turn, or once. *)
OnceIn(evs, F, i) ==
  \E x \in 1..Len(F) : /\ At(F, evs[i]) = {x} /\ F[x].seq = i
                       /\ evs[i].kind = "reply" => F[x].role = "assistant"

GistIn(evs, F, i) ==
  \E x \in 1..Len(F) : F[x].form = "gist" /\ F[x].of = evs[i].turn /\ F[x].role = "assistant"

LEMMA ReadParts ==
  ASSUME NEW evs, NEW t, LogOf(evs, t), NEW p, CutAt(evs, p), NEW x \in 1..Len(Reads(evs, p))
  PROVE  LET F == Reads(evs, p)
             k == F[x].seq IN
         /\ k \in 1..Len(evs) /\ F[x] \in Parts
         /\ PartSo(F[x], Stretch(evs, p, k), evs[k], BoundsAt(evs, p, k))
         /\ F[x].form = "gist" => F[x].of <= evs[p].collapse /\ F[x].of = evs[k].turn
<1>. DEFINE F == Reads(evs, p)
            Q == ReadPieces(evs, p)
            k == F[x].seq
<1>1. p \in 1..Len(evs)  BY DEF CutAt
<1>2. ReadSo(evs, p, Q, F)  BY <1>1, ReadsAre
<1>. HIDE DEF F, Q
<1>3. k \in 1..Len(evs) /\ \E j \in 1..Len(Q[k]) : F[x] = Q[k][j]
  BY <1>2, Zenon DEF ReadSo, Laid, Found, F
<1>4. F[x] \in Parts  BY <1>2, ElementOfSeq DEF ReadSo, F
<1>. HIDE DEF k
<1>5. PartSo(F[x], Stretch(evs, p, k), evs[k], BoundsAt(evs, p, k))
  <2>1. PieceSo(Q[k], Stretch(evs, p, k), evs[k], BoundsAt(evs, p, k))  BY <1>2, <1>3, Zenon DEF ReadSo
  <2>. QED  BY <1>3, <2>1, Zenon DEF PieceSo
<1>6. F[x].form = "gist" => F[x].of <= evs[p].collapse /\ F[x].of = evs[k].turn
  BY <1>3, <1>5, CutIs, Zenon DEF PartSo
<1>. QED  BY <1>3, <1>4, <1>5, <1>6 DEF F, k

LEMMA ReadThere ==
  ASSUME NEW evs, NEW t, LogOf(evs, t), NEW p, CutAt(evs, p), NEW i \in 1..Len(evs), InConversation(evs[i])
  PROVE  IF evs[i].turn <= evs[p].collapse THEN GistIn(evs, Reads(evs, p), i) ELSE OnceIn(evs, Reads(evs, p), i)
<1>. DEFINE F == Reads(evs, p)
            Q == ReadPieces(evs, p)
            n == Len(evs)
<1>1. p \in 1..n  BY DEF CutAt
<1>2. ReadSo(evs, p, Q, F)  BY <1>1, ReadsAre
<1>3. evs \in Seq(LogEvents) /\ \A j \in 1..n : evs[j].seq = j  BY DEF LogOf
<1>4. \A x \in 1..Len(F) : /\ F[x].seq \in 1..n
                           /\ F[x].form = "gist" => F[x].of <= evs[p].collapse /\ F[x].of = evs[F[x].seq].turn
                           /\ F[x].form = "gist" => F[x].role = "assistant"
  <2>1. ASSUME NEW x \in 1..Len(F) PROVE /\ F[x].seq \in 1..n
                                         /\ F[x].form = "gist" => F[x].of <= evs[p].collapse /\ F[x].of = evs[F[x].seq].turn
                                         /\ F[x].form = "gist" => F[x].role = "assistant"
    <3>1. F[x].seq \in 1..n /\ (F[x].form = "gist" => F[x].of <= evs[p].collapse /\ F[x].of = evs[F[x].seq].turn)
      BY ReadParts
    <3>2. PartSo(F[x], Stretch(evs, p, F[x].seq), evs[F[x].seq], BoundsAt(evs, p, F[x].seq))  BY ReadParts
    <3>. QED  BY <3>1, <3>2, Zenon DEF PartSo
  <2>. QED  BY <2>1
<1>. HIDE DEF F, Q, n
<1>5. /\ \A k \in 1..n : PieceSo(Q[k], Stretch(evs, p, k), evs[k], BoundsAt(evs, p, k))
      /\ \A k \in 1..n : \A j \in 1..Len(Q[k]) : \E x \in 1..Len(F) : F[x] = Q[k][j]
      /\ Single(Q, F) /\ F \in Seq(Parts)
  BY <1>2, Zenon DEF ReadSo, Laid, Spread, n
<1>6. CASE evs[i].turn <= evs[p].collapse
  <2>1. PICK k \in 1..n : k < p /\ evs[k].turn = evs[i].turn /\ EndsTurn(Pre(evs, p), evs[k])  BY <1>6, TurnEnds DEF n
  <2>2. Collapsed(evs[k], BoundsAt(evs, p, k))  BY <1>6, <2>1, CutIs DEF n
  <2>3. Stretch(evs, p, k) = Pre(evs, p)  BY <2>1 DEF Stretch
  <2>4. PICK j \in 1..Len(Q[k]) : Q[k][j].form = "gist"  BY <1>5, <2>1, <2>2, <2>3, Zenon DEF PieceSo
  <2>5. PICK x \in 1..Len(F) : F[x] = Q[k][j]  BY <1>5
  <2>6. PartSo(Q[k][j], Stretch(evs, p, k), evs[k], BoundsAt(evs, p, k))  BY <1>5, Zenon DEF PieceSo
  <2>7. F[x].form = "gist" /\ F[x].of = evs[i].turn /\ F[x].role = "assistant"
    BY <2>1, <2>4, <2>5, <2>6, Zenon DEF PartSo
  <2>. QED  BY <1>6, <2>7, Zenon DEF GistIn, F
<1>7. CASE ~(evs[i].turn <= evs[p].collapse)
  <2>0. i \in 1..n  BY DEF n
  <2>1. ~Collapsed(evs[i], BoundsAt(evs, p, i))  BY <1>7, CutIs
  <2>2. /\ Len(Q[i]) = 1 /\ (evs[i].kind = "reply" => \A j \in 1..Len(Q[i]) : Q[i][j].role = "assistant")
        /\ PartSo(Q[i][1], Stretch(evs, p, i), evs[i], BoundsAt(evs, p, i)) /\ 1 \in 1..Len(Q[i])
    <3>1. PieceSo(Q[i], Stretch(evs, p, i), evs[i], BoundsAt(evs, p, i))  BY <1>5, <2>0
    <3>2. Len(Q[i]) = 1  BY <2>1, <3>1, Zenon DEF PieceSo
    <3>3. 1 \in 1..Len(Q[i])  BY <3>2
    <3>. QED  BY <2>1, <3>1, <3>2, <3>3, Zenon DEF PieceSo
  <2>3. PICK x \in 1..Len(F) : F[x] = Q[i][1]  BY <1>5, <2>0, <2>2, Zenon
  <2>4. F[x].seq = i  BY <1>3, <2>0, <2>2, <2>3 DEF PartSo
  <2>5. DOMAIN F = 1..Len(F)  BY <1>5, LenProperties, Zenon
  <2>6. x \in At(F, evs[i])  BY <1>3, <2>0, <2>4, <2>5, Zenon DEF At
  <2>7. ASSUME NEW y \in At(F, evs[i]) PROVE y = x
    <3>1. y \in 1..Len(F) /\ (F[y].seq = i \/ (F[y].form = "gist" /\ F[y].of = evs[i].turn))
      BY <1>3, <2>0, <2>5, <2>7, Zenon DEF At
    <3>2. F[y].seq = i  BY <1>4, <1>7, <3>1, Zenon
    <3>3. Len(Q[i]) <= 1  BY <2>2
    <3>4. Len(Q[F[y].seq]) <= 1  BY <3>2, <3>3, Zenon
    <3>. QED  BY <1>5, <2>4, <3>1, <3>2, <3>4, Zenon DEF Single
  <2>8. At(F, evs[i]) = {x}  BY <2>6, <2>7
  <2>9. evs[i].kind = "reply" => F[x].role = "assistant"  BY <2>2, <2>3, Zenon
  <2>. QED  BY <1>7, <2>4, <2>8, <2>9, Zenon DEF OnceIn, F
<1>. QED  BY <1>6, <1>7 DEF F

(* One part's shape. *)
ShapedAs(P, e, role, b) == Shape(P) = <<<<e.seq, role, b>>>>

LEMMA ShapeSays ==
  ASSUME NEW P, NEW e, NEW role
  PROVE  /\ Says(P, e, role, {"line"}) => ShapedAs(P, e, role, TRUE)
         /\ Says(P, e, role, {"full", "cut", "same"}) => ShapedAs(P, e, role, FALSE)
<1>1. ASSUME NEW part \in Parts, P = <<part>>, part.seq = e.seq, part.role = role,
             NEW b \in BOOLEAN, (part.form \in {"line", "gist"}) = b
      PROVE  Shape(P) = <<<<e.seq, role, b>>>>
  <2>1. Shape(P) = [i \in DOMAIN P |-> <<P[i].seq, P[i].role, P[i].form \in {"line", "gist"}>>]  BY DEF Shape
  <2>2. DOMAIN P = {1} /\ P[1] = part  BY <1>1
  <2>3. \A i \in DOMAIN P : <<P[i].seq, P[i].role, P[i].form \in {"line", "gist"}>> = <<e.seq, role, b>>
    <3>1. ASSUME NEW i \in DOMAIN P PROVE P[i] = part  BY <2>2
    <3>. QED  BY <1>1, <3>1
  <2>4. Shape(P) = [i \in {1} |-> <<e.seq, role, b>>]  BY <2>1, <2>2, <2>3, Zenon
  <2>5. [i \in {1} |-> <<e.seq, role, b>>] = <<<<e.seq, role, b>>>>  OBVIOUS
  <2>. QED  BY <2>4, <2>5, Zenon
<1>2. ASSUME Says(P, e, role, {"line"}) PROVE ShapedAs(P, e, role, TRUE)
  <2>1. PICK part \in Parts : P = <<part>> /\ part.seq = e.seq /\ part.role = role /\ part.form \in {"line"}
    BY <1>2 DEF Says
  <2>2. (part.form \in {"line", "gist"}) = TRUE /\ TRUE \in BOOLEAN  BY <2>1
  <2>3. Shape(P) = <<<<e.seq, role, TRUE>>>>  BY <1>1, <2>1, <2>2
  <2>. QED  BY <2>3 DEF ShapedAs
<1>3. ASSUME Says(P, e, role, {"full", "cut", "same"}) PROVE ShapedAs(P, e, role, FALSE)
  <2>1. PICK part \in Parts : P = <<part>> /\ part.seq = e.seq /\ part.role = role /\ part.form \in {"full", "cut", "same"}
    BY <1>3 DEF Says
  <2>2. (part.form \in {"line", "gist"}) = FALSE /\ FALSE \in BOOLEAN  BY <2>1
  <2>3. Shape(P) = <<<<e.seq, role, FALSE>>>>  BY <1>1, <2>1, <2>2
  <2>. QED  BY <2>3 DEF ShapedAs
<1>. QED  BY <1>2, <1>3

(* A round's results and a reply: short in both or in neither. *)
LEMMA RoundShape ==
  ASSUME NEW A \in Seq(LogEvents), NEW B \in Seq(LogEvents), NEW e \in LogEvents, NEW o, NEW u,
         Elided(e, o) <=> Elided(e, u)
  PROVE  Shape(Results(A, e, o)) = Shape(Results(B, e, u))
<1>. DEFINE P == Results(A, e, o)
            Q == Results(B, e, u)
            Alike(b) == ShapedAs(P, e, "user", b) /\ ShapedAs(Q, e, "user", b)
<1>1. CASE Elided(e, o) /\ Elided(e, u)
  <2>1. CASE e.out \notin Short
    <3>1. Says(P, e, "user", {"line"}) /\ Says(Q, e, "user", {"line"})  BY <1>1, <2>1, ResultsAre
    <3>2. Alike(TRUE)  BY <3>1, ShapeSays, Zenon
    <3>. QED  BY <3>2, Zenon DEF ShapedAs
  <2>2. CASE e.out \in Short
    <3>1. Says(P, e, "user", {"full"}) /\ Says(Q, e, "user", {"full"})  BY <1>1, <2>2, ResultsAre
    <3>2. Says(P, e, "user", {"full", "cut", "same"}) /\ Says(Q, e, "user", {"full", "cut", "same"})
      BY <3>1, Zenon DEF Says
    <3>3. Alike(FALSE)  BY <3>2, ShapeSays, Zenon
    <3>. QED  BY <3>3, Zenon DEF ShapedAs
  <2>. QED  BY <2>1, <2>2
<1>2. CASE ~Elided(e, o) /\ ~Elided(e, u)
  <2>1. Says(P, e, "user", {"full", "cut", "same"}) /\ Says(Q, e, "user", {"full", "cut", "same"})
    BY <1>2, ResultsAre
  <2>2. Alike(FALSE)  BY <2>1, ShapeSays, Zenon
  <2>. QED  BY <2>2, Zenon DEF ShapedAs
<1>. QED  BY <1>1, <1>2

(* What an event's turn has before it, of a log numbered from d. *)
LEMMA ClosesTheSame ==
  ASSUME NEW A \in Seq(LogEvents), NEW d \in Nat, \A i \in 1..Len(A) : A[i].seq = i + d,
         NEW k \in 1..Len(A), A[k].ok, EndedBy(A, k - 1, A[k].turn)
  PROVE  Closing(A, A[k]) = IF A[k - 1].kind = "reply" THEN <<>> ELSE User(A[k], "full")
<1>. DEFINE e == A[k]
<1>1. Len(A) \in Nat /\ DOMAIN A = 1..Len(A)  BY LogType
<1>2. k - 1 \in 1..Len(A) /\ k - 1 + d < k + d /\ k - 2 + d < k + d /\ k - 1 - 1 = k - 2
  <2>1. k - 1 > 0  BY DEF EndedBy
  <2>. QED  BY <1>1, <2>1, SMT
<1>3. ASSUME NEW kinds PROVE Before(A, e, kinds) = {i \in 1..Len(A) : A[i].turn = e.turn /\ i < k /\ A[i].kind \in kinds}
  <2>1. \A i \in 1..Len(A) : A[i].seq < e.seq <=> i < k
    <3>1. ASSUME NEW i \in 1..Len(A) PROVE A[i].seq < e.seq <=> i < k
      <4>1. A[i].seq = i + d /\ e.seq = k + d  OBVIOUS
      <4>. QED  BY <1>1, <4>1, SMT
    <3>. QED  BY <3>1
  <2>. HIDE DEF e
  <2>. QED  BY <1>1, <2>1, Zenon DEF Before
<1>4. A[k - 1].turn = e.turn /\ e.ok  BY DEF EndedBy
<1>5. CASE A[k - 1].kind = "reply"
  <2>1. k - 1 < k /\ \A j \in 1..Len(A) : j < k => j <= k - 1  BY <1>1, <1>2, SMT
  <2>2. k - 1 \in Before(A, e, {"reply"})  BY <1>2, <1>3, <1>4, <1>5, <2>1
  <2>3. Replied(A, e)  BY <2>2 DEF Replied
  <2>4. Final(A, e)
    <3>1. \A j \in Before(A, e, {"reply", "round"}) : j <= k - 1  BY <1>3, <2>1
    <3>. QED  BY <2>2, <3>1, Zenon DEF Final
  <2>. QED  BY <1>4, <1>5, <2>3, <2>4 DEF Closing
<1>6. CASE A[k - 1].kind # "reply"
  <2>1. k - 1 > 1 /\ A[k - 1].kind = "round" /\ A[k - 2].kind = "reply" /\ A[k - 2].turn = e.turn
    BY <1>2, <1>6 DEF EndedBy
  <2>2. k - 2 \in 1..Len(A) /\ k - 2 < k /\ k - 1 < k  BY <1>1, <1>2, <2>1, SMT
  <2>3. k - 2 \in Before(A, e, {"reply"})  BY <1>3, <2>1, <2>2
  <2>4. k - 1 \in Before(A, e, {"reply", "round"})  BY <1>2, <1>3, <1>4, <2>1, <2>2
  <2>5. Replied(A, e)  BY <2>3 DEF Replied
  <2>6. ~Final(A, e)
    <3>1. ASSUME NEW i \in Before(A, e, {"reply"}), k - 1 <= i PROVE FALSE
      <4>1. i \in 1..Len(A) /\ i < k /\ A[i].kind = "reply"  BY <1>3, <3>1
      <4>2. i = k - 1  BY <1>1, <1>2, <3>1, <4>1, SMT
      <4>. QED  BY <1>6, <4>1, <4>2
    <3>. QED  BY <2>4, <3>1, Zenon DEF Final
  <2>. QED  BY <1>4, <1>6, <2>5, <2>6 DEF Closing
<1>. QED  BY <1>5, <1>6

(* An event goes in the same shape, rendered anew with the compaction's bounds
   and in what Hermes reads.                                                *)
LEMMA PreShape ==
  ASSUME NEW evs, NEW t, LogOf(evs, t), NEW p, CutAt(evs, p), NEW k \in 1..Len(evs), k < p
  PROVE  Piece(evs, evs[k], evs[p]) = PieceAt(evs, p, k)
<1>. DEFINE A == Pre(evs, p)
            e == evs[k]
            o == evs[p]
<1>1. /\ evs \in Seq(LogEvents) /\ p \in 1..Len(evs)
      /\ \A i \in 1..Len(evs) : evs[i].seq = i
      /\ \A i, j \in 1..Len(evs) : i <= j => evs[i].turn <= evs[j].turn
  BY DEF LogOf, CutAt
<1>2. /\ p - 1 \in Nat /\ A \in Seq(LogEvents) /\ Len(A) = p - 1
      /\ \A i \in 1..(p - 1) : A[i] = evs[i] /\ i \in 1..Len(evs) /\ i < p
  BY <1>1, PrePost
<1>3. Len(evs) \in Nat /\ DOMAIN evs = 1..Len(evs)  BY <1>1, LogType
<1>. HIDE DEF A, e, o
<1>4. DOMAIN A = 1..(p - 1)  BY <1>2, LogType, Zenon
<1>5. k \in 1..(p - 1) /\ \A i \in 1..Len(evs) : i \in 1..(p - 1) \/ p <= i  BY <1>1, <1>3, SMT
<1>6. PieceAt(evs, p, k) = Piece(A, e, o)  BY Zenon DEF PieceAt, Stretch, BoundsAt, A, e, o
<1>7. A[k] = e  BY <1>2, <1>5 DEF e
<1>8. InTurn(evs, e, o) = InTurn(A, e, o)
  <2>1. ASSUME NEW i \in 1..Len(evs), p <= i, NEW j \in 1..Len(A) PROVE ~(evs[i].seq < A[j].seq)
    <3>1. evs[i].seq = i /\ A[j].seq = j /\ j < p  BY <1>1, <1>2
    <3>. QED  BY <1>1, <1>2, <1>3, <2>1, <3>1, SMT
  <2>2. Longer(A, evs)  BY <1>1, <1>2, <1>5, <2>1, Zenon DEF Longer
  <2>3. k \in 1..Len(A)  BY <1>2, <1>5
  <2>4. InTurn(evs, A[k], o) = InTurn(A, A[k], o)  BY <2>2, <2>3, GoesTheSame
  <2>. QED  BY <1>7, <2>4, Zenon
<1>9. ASSUME Collapsed(e, o) PROVE EndsTurn(evs, e) <=> EndsTurn(A, e)
  <2>1. evs[k].turn <= evs[p].collapse  BY <1>9 DEF Collapsed, e, o
  <2>2. ASSUME NEW i \in 1..Len(evs), p <= i, evs[i].turn = e.turn PROVE FALSE
    <3>1. i < p - 1  BY <2>1, <2>2, CutIs DEF e
    <3>. QED  BY <1>1, <1>3, <2>2, <3>1, SMT
  <2>. QED  BY <1>2, <1>3, <1>4, <1>5, <2>2, Zenon DEF EndsTurn
<1>10. InCollapsed(evs, e) = InCollapsed(A, e) \/ ~Collapsed(e, o)
  BY <1>9, Zenon DEF InCollapsed
<1>11. Piece(evs, e, o) = Piece(A, e, o)  BY <1>8, <1>10, Zenon DEF Piece
<1>. QED  BY <1>6, <1>11, Zenon DEF e, o

LEMMA PostShape ==
  ASSUME NEW evs, NEW t, LogOf(evs, t), NEW p, CutAt(evs, p), NEW k \in 1..Len(evs), ~(k < p)
  PROVE  Shape(Piece(evs, evs[k], evs[p])) = Shape(PieceAt(evs, p, k))
<1>. DEFINE B == Post(evs, p)
            e == evs[k]
            o == evs[p]
            d == p - 1
            m == Len(evs) - d
<1>1. /\ evs \in Seq(LogEvents) /\ p \in 1..Len(evs) /\ evs[p].kind = "compact" /\ o.upto <= d
      /\ \A i \in 1..Len(evs) : evs[i].seq = i
      /\ \A i \in 1..Len(evs) : evs[i].kind = "answer" /\ evs[i].ok => EndedBy(evs, i - 1, evs[i].turn)
  BY DEF LogOf, CutAt
<1>2. Len(evs) \in Nat /\ DOMAIN evs = 1..Len(evs) /\ \A i \in 1..Len(evs) : evs[i] \in LogEvents /\ evs[i].upto \in Nat
  BY <1>1, LogType
<1>3. /\ d \in Nat /\ m \in Nat /\ Len(evs) - p + 1 = m /\ d + 1 = p /\ k - d \in 1..m /\ k - d + d = k
      /\ \A i \in 1..m : p + i - 1 = i + d
      /\ \A i \in 1..m : i + d \in 1..Len(evs)
  BY <1>1, <1>2, SMT
<1>4. /\ B \in Seq(LogEvents) /\ Len(B) = m
      /\ \A i \in 1..m : B[i] = evs[i + d]
  <2>1. /\ B \in Seq(LogEvents) /\ Len(B) = Len(evs) - p + 1
        /\ \A i \in 1..(Len(evs) - p + 1) : B[i] = evs[p + i - 1]
    BY <1>1, PrePost
  <2>. HIDE DEF B, d, m
  <2>. QED  BY <1>3, <2>1, Zenon
<1>5. \A i \in 1..m : B[i].seq = i + d  BY <1>1, <1>3, <1>4
<1>6. ~Collapsed(e, o) /\ ~Collapsed(e, Blank)
  <2>1. BoundsAt(evs, p, k) = Blank  BY DEF BoundsAt
  <2>2. ~(e.turn <= o.collapse)
    <3>1. e.turn <= o.collapse => k < p - 1  BY CutIs
    <3>. QED  BY <1>1, <1>2, <3>1, SMT
  <2>3. ~Collapsed(e, BoundsAt(evs, p, k))  BY <2>2, CutIs
  <2>. QED  BY <2>1, <2>2, <2>3 DEF Collapsed
<1>7. ~(e.seq <= o.upto) /\ ~(e.seq <= Blank.upto) /\ e \in LogEvents
  <2>1. e.seq = k /\ Blank.upto = 0 /\ o.upto \in Nat /\ o.upto <= p - 1  BY <1>1, <1>2 DEF Blank
  <2>. QED  BY <1>1, <1>2, <2>1, SMT
<1>8. B[k - d] = e  BY <1>3, <1>4
<1>9. PieceAt(evs, p, k) = InTurn(B, e, Blank)
  <2>1. Stretch(evs, p, k) = B /\ BoundsAt(evs, p, k) = Blank  BY DEF Stretch, BoundsAt
  <2>. QED  BY <1>6, <2>1, Zenon DEF PieceAt, Piece
<1>10. Piece(evs, e, o) = InTurn(evs, e, o)  BY <1>6, Zenon DEF Piece
<1>11. CASE e.kind # "round" /\ e.kind # "answer"
  <2>1. Reply(e, o) = Reply(e, Blank)  BY <1>7, Zenon DEF Reply
  <2>. HIDE DEF e, o, B
  <2>2. InTurn(evs, e, o) = InTurn(B, e, Blank)  BY <1>11, <2>1, Zenon DEF InTurn
  <2>. QED  BY <1>9, <1>10, <2>2, Zenon DEF e, o
<1>12. CASE e.kind = "round"
  <2>1. Elided(e, o) <=> Elided(e, Blank)  BY <1>7, Zenon DEF Elided
  <2>2. InTurn(evs, e, o) = Results(evs, e, o) /\ InTurn(B, e, Blank) = Results(B, e, Blank)  BY <1>12 DEF InTurn
  <2>. HIDE DEF e, o, B
  <2>3. Shape(Results(evs, e, o)) = Shape(Results(B, e, Blank))  BY <1>1, <1>4, <1>7, <2>1, RoundShape
  <2>. QED  BY <1>9, <1>10, <2>2, <2>3, Zenon DEF e, o
<1>13. CASE e.kind = "answer"
  <2>1. InTurn(evs, e, o) = Closing(evs, e) /\ InTurn(B, e, Blank) = Closing(B, e)  BY <1>13 DEF InTurn
  <2>2. CASE ~e.ok
    <3>1. Closing(evs, e) = User(e, "full") /\ Closing(B, e) = User(e, "full")  BY <2>2, Zenon DEF Closing
    <3>. QED  BY <1>9, <1>10, <2>1, <3>1, Zenon
  <2>3. CASE e.ok
    <3>1. EndedBy(evs, k - 1, e.turn)  BY <1>1, <1>13, <2>3
    <3>2. evs[k - 1].kind # "compact" /\ k # p /\ (evs[k - 1].kind = "round" => evs[k - 2].kind = "reply" /\ k - 1 > 1 /\ evs[k - 2].turn = e.turn)
          /\ k - 1 > 0
      <4>1. k - 1 - 1 = k - 2  BY <1>2, SMT
      <4>2. evs[k - 1].kind \in {"reply", "round"} /\ (evs[k - 1].kind = "round" => evs[k - 2].kind = "reply" /\ k - 1 > 1 /\ evs[k - 2].turn = e.turn)
            /\ k - 1 > 0
        BY <3>1, <4>1 DEF EndedBy
      <4>. QED  BY <1>1, <1>13, <4>2
    <3>3. k - 1 # p  BY <1>1, <3>2
    <3>4. k - 1 - d \in 1..m /\ k - 1 - d + d = k - 1 /\ k - d - 1 = k - 1 - d /\ k - 1 - d > 0
          /\ (k - 2 # p => (k - 1 - d > 1 /\ k - 2 - d \in 1..m /\ k - 2 - d + d = k - 2)) /\ k - 1 - d - 1 = k - 2 - d
      <4>1. k # p /\ k - 1 # p /\ ~(k < p)  BY <3>2, <3>3
      <4>. QED  BY <1>1, <1>2, <4>1, SMT
    <3>5. B[k - d - 1] = evs[k - 1]  BY <1>4, <3>4
    <3>6. evs[k - 1].kind = "round" => k - 2 # p /\ B[k - 2 - d] = evs[k - 2] /\ k - 1 - d > 1
      <4>1. evs[k - 1].kind = "round" => k - 2 # p  BY <1>1, <3>2
      <4>. QED  BY <1>4, <3>4, <4>1
    <3>7. EndedBy(B, k - d - 1, B[k - d].turn)
      <4>1. evs[k - 1].turn = e.turn /\ (evs[k - 1].kind = "reply" \/ evs[k - 1].kind = "round")  BY <3>1 DEF EndedBy
      <4>. QED  BY <1>8, <3>2, <3>4, <3>5, <3>6, <4>1 DEF EndedBy
    <3>8. Closing(B, B[k - d]) = IF B[k - d - 1].kind = "reply" THEN <<>> ELSE User(B[k - d], "full")
      <4>1. B[k - d].ok /\ k - d \in 1..Len(B) /\ \A i \in 1..Len(B) : B[i].seq = i + d  BY <1>3, <1>4, <1>5, <1>8, <2>3
      <4>. HIDE DEF B, d
      <4>. QED  BY <1>3, <1>4, <3>7, <4>1, ClosesTheSame, Zenon
    <3>9. Closing(evs, e) = IF evs[k - 1].kind = "reply" THEN <<>> ELSE User(e, "full")
      <4>1. 0 \in Nat /\ \A i \in 1..Len(evs) : evs[i].seq = i + 0  BY <1>1, <1>2, SMT
      <4>. QED  BY <1>1, <2>3, <3>1, <4>1, ClosesTheSame
    <3>10. Closing(evs, e) = Closing(B, e)  BY <1>8, <3>5, <3>8, <3>9, Zenon
    <3>. QED  BY <1>9, <1>10, <2>1, <3>10, Zenon
  <2>. QED  BY <2>2, <2>3
<1>. QED  BY <1>11, <1>12, <1>13

LEMMA RendersAlike ==
  ASSUME NEW evs, NEW t, LogOf(evs, t), NEW p, CutAt(evs, p)
  PROVE  Shape(Transcript(evs, evs[p])) = Shape(Reads(evs, p))
<1>. DEFINE P == Pieces(evs, evs[p])
            Q == ReadPieces(evs, p)
            n == Len(evs)
<1>1. evs \in Seq(LogEvents) /\ p \in 1..n  BY DEF LogOf, CutAt
<1>2. /\ P \in Seq(Seq(Parts)) /\ Len(P) = n
      /\ \A k \in 1..n : P[k] = Piece(evs, evs[k], evs[p])
      /\ Transcript(evs, evs[p]) = FlattenSeq(P)
  BY <1>1, PiecesAre
<1>3. ReadSo(evs, p, Q, Reads(evs, p))  BY <1>1, ReadsAre
<1>. HIDE DEF P, Q, n
<1>4. /\ Q \in Seq(Seq(Parts)) /\ Len(Q) = n
      /\ \A k \in 1..n : Q[k] = PieceAt(evs, p, k)
      /\ Reads(evs, p) = FlattenSeq(Q)
  BY <1>3, Zenon DEF ReadSo, n
<1>5. ASSUME NEW k \in 1..n PROVE Shape(Piece(evs, evs[k], evs[p])) = Shape(PieceAt(evs, p, k))
  <2>1. CASE k < p  BY <2>1, PreShape DEF n
  <2>2. CASE ~(k < p)  BY <2>2, PostShape DEF n
  <2>. QED  BY <2>1, <2>2
<1>6. Len(P) = Len(Q) /\ \A k \in 1..Len(P) : Shape(P[k]) = Shape(Q[k])
  BY <1>2, <1>4, <1>5, Zenon
<1>7. Shape(FlattenSeq(P)) = Shape(FlattenSeq(Q))  BY <1>2, <1>4, <1>6, ShapesAgree, Zenon
<1>. QED  BY <1>2, <1>4, <1>7, Zenon

(* The events a part is rendered among are of the log, on its side of the cut. *)
LEMMA StretchIs ==
  ASSUME NEW evs \in Seq(LogEvents), NEW p \in 1..Len(evs), NEW k \in 1..Len(evs)
  PROVE  /\ Stretch(evs, p, k) \in Seq(LogEvents)
         /\ \A j \in DOMAIN Stretch(evs, p, k) :
              \E i \in 1..Len(evs) : /\ Stretch(evs, p, k)[j] = evs[i]
                                    /\ Stretch(evs, p, i) = Stretch(evs, p, k)
                                    /\ BoundsAt(evs, p, i) = BoundsAt(evs, p, k)
<1>. DEFINE n == Len(evs)
            A == Stretch(evs, p, k)
            o == BoundsAt(evs, p, k)
<1>1. n \in Nat  BY LogType
<1>2. /\ A \in Seq(LogEvents)
      /\ \A j \in DOMAIN A : \E i \in 1..n : A[j] = evs[i] /\ Stretch(evs, p, i) = A /\ BoundsAt(evs, p, i) = o
  <2>1. /\ p - 1 \in Nat /\ Pre(evs, p) \in Seq(LogEvents) /\ Len(Pre(evs, p)) = p - 1
        /\ \A i \in 1..(p - 1) : Pre(evs, p)[i] = evs[i] /\ i \in 1..n /\ i < p
        /\ Post(evs, p) \in Seq(LogEvents) /\ Len(Post(evs, p)) = n - p + 1
        /\ \A i \in 1..(n - p + 1) : Post(evs, p)[i] = evs[p + i - 1] /\ p + i - 1 \in 1..n /\ p <= p + i - 1
    BY PrePost
  <2>2. DOMAIN Pre(evs, p) = 1..(p - 1) /\ DOMAIN Post(evs, p) = 1..(n - p + 1)  BY <2>1, LogType, Zenon
  <2>3. CASE k < p
    <3>1. A = Pre(evs, p) /\ o = evs[p]  BY <2>3 DEF Stretch, BoundsAt
    <3>2. \A i \in 1..(p - 1) : Stretch(evs, p, i) = A /\ BoundsAt(evs, p, i) = o
      BY <2>1, <3>1, Zenon DEF Stretch, BoundsAt
    <3>. HIDE DEF A, o, n
    <3>. QED  BY <2>1, <2>2, <3>1, <3>2, Zenon
  <2>4. CASE ~(k < p)
    <3>1. A = Post(evs, p) /\ o = Blank  BY <2>4 DEF Stretch, BoundsAt
    <3>2. \A i \in 1..n : p <= i => ~(i < p)  BY <1>1, SMT
    <3>3. \A i \in 1..n : p <= i => Stretch(evs, p, i) = A /\ BoundsAt(evs, p, i) = o
      BY <3>1, <3>2, Zenon DEF Stretch, BoundsAt
    <3>. HIDE DEF A, o, n
    <3>4. ASSUME NEW j \in 1..(n - p + 1)
          PROVE  \E i \in 1..n : A[j] = evs[i] /\ Stretch(evs, p, i) = A /\ BoundsAt(evs, p, i) = o
      <4>1. A[j] = evs[p + j - 1] /\ p + j - 1 \in 1..n /\ p <= p + j - 1  BY <2>1, <3>1, Zenon
      <4>. QED  BY <3>3, <4>1, Zenon
    <3>. QED  BY <2>1, <2>2, <3>1, <3>4, Zenon
  <2>. QED  BY <2>3, <2>4
<1>. HIDE DEF A, o, n
<1>. QED  BY <1>2 DEF A, o, n

(* A repeat refers to an output before it, sent whole. *)
LEMMA RefersBack ==
  ASSUME NEW evs, NEW t, LogOf(evs, t), NEW p, CutAt(evs, p),
         NEW x \in 1..Len(Reads(evs, p)), Reads(evs, p)[x].form = "same"
  PROVE  \E y \in 1..(x - 1) : /\ y \in 1..Len(Reads(evs, p))
                               /\ evs[Reads(evs, p)[y].seq].ref = Reads(evs, p)[x].of
                               /\ Reads(evs, p)[y].form \in {"full", "cut"}
<1>. DEFINE F == Reads(evs, p)
            Q == ReadPieces(evs, p)
            n == Len(evs)
            k == F[x].seq
            A == Stretch(evs, p, k)
            o == BoundsAt(evs, p, k)
            e == evs[k]
            S == Seen(A, e, o)
<1>1. /\ evs \in Seq(LogEvents) /\ p \in 1..n
      /\ \A i \in 1..n : evs[i].seq = i
      /\ \A i, j \in 1..n : i < j /\ evs[j].kind = "round" => evs[i].ref < evs[j].ref
  BY DEF LogOf, CutAt
<1>2. ReadSo(evs, p, Q, F)  BY <1>1, ReadsAre
<1>3. k \in 1..n /\ PartSo(F[x], A, e, o)  BY ReadParts
<1>4. n \in Nat  BY <1>1, LogType
<1>5. /\ A \in Seq(LogEvents)
      /\ \A j \in DOMAIN A : \E i \in 1..n : A[j] = evs[i] /\ Stretch(evs, p, i) = A /\ BoundsAt(evs, p, i) = o
  BY <1>1, <1>3, StretchIs, Zenon
<1>6. F[x].form = "same"  OBVIOUS
<1>. HIDE DEF F, Q, n, k, A, o, e
<1>7. e.kind = "round" /\ S # {} /\ F[x].of = First(S)  BY <1>3, <1>6, Zenon DEF PartSo
<1>8. First(S) \in S /\ \A s \in S : First(S) <= s
  <2>1. S \in SUBSET Nat  BY <1>5, SeenType
  <2>. HIDE DEF S
  <2>. QED  BY <1>7, <2>1, FirstIs, Zenon
<1>9. PICK j \in DOMAIN A : /\ HasRun(A[j]) /\ A[j].seq < e.seq /\ A[j].out = e.out
                            /\ ~Collapsed(A[j], o) /\ ~Elided(A[j], o) /\ First(S) = A[j].ref
  BY <1>8, Zenon DEF Seen
<1>10. PICK i \in 1..n : A[j] = evs[i] /\ Stretch(evs, p, i) = A /\ BoundsAt(evs, p, i) = o  BY <1>5
<1>11. Seen(A, evs[i], o) = {}
  <2>1. ASSUME NEW s \in Seen(A, evs[i], o) PROVE FALSE
    <3>1. PICK l \in DOMAIN A : /\ HasRun(A[l]) /\ A[l].seq < evs[i].seq /\ A[l].out = evs[i].out
                                /\ ~Collapsed(A[l], o) /\ ~Elided(A[l], o)
      BY <2>1, Zenon DEF Seen
    <3>2. PICK h \in 1..n : A[l] = evs[h]  BY <1>5
    <3>3. evs[h].seq = h /\ evs[i].seq = i /\ e.seq = k  BY <1>1, <1>3 DEF e
    <3>4. h < i /\ i < k /\ h < k
      <4>1. h < i /\ i < k  BY <1>9, <1>10, <3>1, <3>2, <3>3
      <4>. QED  BY <1>3, <1>4, <4>1, SMT
    <3>5. A[l].ref \in S
      <4>1. A[l].seq < e.seq  BY <3>2, <3>3, <3>4
      <4>2. A[l].out = e.out  BY <1>9, <1>10, <3>1
      <4>. QED  BY <3>1, <4>1, <4>2, Zenon DEF S, Seen
    <3>6. First(S) <= evs[h].ref  BY <1>8, <3>2, <3>5, Zenon
    <3>7. evs[i].kind = "round"  BY <1>9, <1>10, Zenon DEF HasRun
    <3>8. evs[h].ref < evs[i].ref  BY <1>1, <3>4, <3>7, Zenon
    <3>9. evs[h].ref \in Nat /\ evs[i].ref \in Nat  BY <1>1, LogType DEF n
    <3>. QED  BY <1>9, <1>10, <3>6, <3>8, <3>9, SMT
  <2>. QED  BY <2>1
<1>12. /\ Len(Q[i]) = 1 /\ \A l \in 1..Len(Q[i]) : Q[i][l].form \in {"full", "cut"} /\ Q[i][l].seq = i
  <2>1. PieceSo(Q[i], A, evs[i], o)  BY <1>2, <1>10, Zenon DEF ReadSo, n
  <2>2. evs[i].kind = "round" /\ ~Collapsed(evs[i], o) /\ ~Elided(evs[i], o)  BY <1>9, <1>10, Zenon DEF HasRun
  <2>3. InConversation(evs[i])  BY <2>2 DEF InConversation
  <2>4. Len(Q[i]) = 1 /\ \A l \in 1..Len(Q[i]) : Q[i][l].form \in {"full", "cut"}
    BY <1>11, <2>1, <2>2, <2>3, Zenon DEF PieceSo
  <2>5. \A l \in 1..Len(Q[i]) : Q[i][l].seq = evs[i].seq  BY <2>1, Zenon DEF PieceSo, PartSo
  <2>. QED  BY <1>1, <2>4, <2>5
<1>13. 1 \in 1..Len(Q[i])  BY <1>12
<1>14. PICK y \in 1..Len(F) : F[y] = Q[i][1]  BY <1>2, <1>13, Zenon DEF ReadSo, Laid, Spread, n
<1>15. F[y].seq = i /\ F[y].form \in {"full", "cut"}  BY <1>12, <1>13, <1>14, Zenon
<1>16. evs[i].ref = F[x].of  BY <1>7, <1>9, <1>10
<1>17. x \in 1..Len(F) /\ F \in Seq(Parts) /\ InLine(F)  BY <1>2, Zenon DEF ReadSo, Laid, F
<1>18. y \in 1..(x - 1)
  <2>1. i < k  BY <1>1, <1>3, <1>9, <1>10 DEF e
  <2>2. ~(x <= y)
    <3>1. x <= y => F[x].seq <= F[y].seq  BY <1>17, Zenon DEF InLine
    <3>2. ~(k <= i)  BY <1>3, <1>4, <2>1, SMT
    <3>. QED  BY <1>15, <3>1, <3>2 DEF k
  <2>3. Len(F) \in Nat  BY <1>17, LenProperties
  <2>. QED  BY <1>17, <2>2, <2>3, SMT
<1>. QED  BY <1>14, <1>15, <1>16, <1>18, Zenon DEF F

-----------------------------------------------------------------------------
(* The session. *)
InLog == LogOf(events, turns) /\ (at # "idle" => events # <<>>)

(* The compaction o of evs: within it, below its latest turn, its checkpoint
   the conversation as o leaves it.                                         *)
Frozen(evs, o) ==
  /\ o.upto <= Len(evs) /\ o.collapse < LatestTurn(evs)
  /\ checkpoints[o.checkpoint] = [seq |-> Len(evs), messages |-> Transcript(evs, o)]

(* The compaction in effect... *)
EffectOf(evs) == \A p : LastIn(evs, p) => Frozen(Pre(evs, p), evs[p])

InEffect == EffectOf(events)

(* ... and the one under way, which goes further. *)
UnderWay ==
  job.step # "none" =>
    /\ at \in {"idle", "ready", "refused"}
    /\ job.event \in LogEvents /\ job.event.kind = "compact" /\ job.event.turn = turns /\ turns > 0
    /\ job.event.ref = 0
    /\ Frozen(events, job.event)
    /\ LastCompact(events).upto <= job.event.upto
    /\ sent.checkpoint < job.event.checkpoint

LEMMA OwnedAt ==
  ASSUME InLog, Owned
  PROVE  \E p : LastIn(events, p) /\ p \in 1..Len(events) /\ LastCompact(events) = events[p]
<1>1. events \in Seq(LogEvents)  BY DEF InLog, LogOf
<1>2. PICK p : LastIn(events, p)  BY <1>1, LastCompactIs DEF Owned
<1>3. LastCompact(events) = events[p]  BY <1>1, <1>2, LastCompactIs, Zenon
<1>. QED  BY <1>2, <1>3, Zenon DEF LastIn

(* What Hermes reads, by the log alone. *)
LEMMA NowReads ==
  ASSUME InLog, InEffect, NEW p, LastIn(events, p)
  PROVE  /\ Owned /\ LastCompact(events) = events[p] /\ CutAt(events, p)
         /\ Current = Reads(events, p) /\ Rendered = Transcript(events, events[p])
         /\ Checkpoint = [seq |-> p - 1, messages |-> Transcript(Pre(events, p), events[p])]
<1>1. events \in Seq(LogEvents) /\ LogOf(events, turns)  BY DEF InLog, LogOf
<1>2. LastCompact(events) = events[p] /\ LastCompact(events) # Blank  BY <1>1, LastCompactIs, Zenon
<1>3. p \in 1..Len(events) /\ events[p].kind = "compact"  BY DEF LastIn
<1>4. Len(Pre(events, p)) = p - 1  BY <1>1, <1>3, PrePost
<1>5. Frozen(Pre(events, p), events[p])  BY DEF InEffect, EffectOf
<1>6. CutAt(events, p)  BY <1>3, <1>4, <1>5, Zenon DEF CutAt, Frozen
<1>7. Checkpoint = [seq |-> p - 1, messages |-> Transcript(Pre(events, p), events[p])]
  BY <1>2, <1>4, <1>5, Zenon DEF Checkpoint, Frozen
<1>8. Checkpoint.seq = p - 1 /\ Checkpoint.messages = Transcript(Pre(events, p), events[p])  BY <1>7
<1>9. After(events, p - 1) = Post(events, p)  BY <1>1, <1>3, AfterPost
<1>10. Current = Reads(events, p)  BY <1>8, <1>9, Zenon DEF Current, Reads
<1>. QED  BY <1>2, <1>6, <1>7, <1>10, Zenon DEF Owned, Rendered

(* Every event is read, once or in its turn's gist (ReadWhole). *)
LEMMA GoingWhole == InLog /\ InEffect => ReadWhole
<1>. SUFFICES ASSUME InLog, InEffect, Owned PROVE ReadOnce /\ RenderedAgrees /\ LatestTurnWhole
  BY Zenon DEF ReadWhole, ReadOnce, RenderedAgrees, LatestTurnWhole
<1>1. PICK p : LastIn(events, p) /\ p \in 1..Len(events)  BY OwnedAt
<1>2. /\ LastCompact(events) = events[p] /\ CutAt(events, p) /\ Current = Reads(events, p)
      /\ Rendered = Transcript(events, events[p])
  BY <1>1, NowReads
<1>3. LogOf(events, turns) /\ turns = LatestTurn(events) /\ events \in Seq(LogEvents)  BY DEF InLog, LogOf
<1>. DEFINE F == Reads(events, p)
<1>4. F \in Seq(Parts) /\ DOMAIN F = 1..Len(F) /\ DOMAIN events = 1..Len(events)
  <2>1. ReadSo(events, p, ReadPieces(events, p), F)  BY <1>1, <1>3, ReadsAre
  <2>2. F \in Seq(Parts)  BY <2>1, Zenon DEF ReadSo
  <2>. QED  BY <1>3, <2>2, LenProperties, Zenon
<1>5. ReadOnce
  <2>1. ASSUME NEW i \in Told
        PROVE  LET here == At(F, events[i]) IN
               here # {} /\ (Cardinality(here) = 1 \/ events[i].turn <= LastCompact(events).collapse)
    <3>1. i \in 1..Len(events) /\ InConversation(events[i])  BY <1>4, Zenon DEF Told
    <3>2. CASE events[i].turn <= events[p].collapse
      <4>1. GistIn(events, F, i)  BY <1>2, <1>3, <3>1, <3>2, ReadThere
      <4>. HIDE DEF F
      <4>2. PICK x \in 1..Len(F) : F[x].form = "gist" /\ F[x].of = events[i].turn  BY <4>1, Zenon DEF GistIn
      <4>3. x \in At(F, events[i])  BY <1>4, <4>2, Zenon DEF At
      <4>. QED  BY <1>2, <3>2, <4>3
    <3>3. CASE ~(events[i].turn <= events[p].collapse)
      <4>1. OnceIn(events, F, i)  BY <1>2, <1>3, <3>1, <3>3, ReadThere
      <4>. HIDE DEF F
      <4>2. PICK x : At(F, events[i]) = {x}  BY <4>1, Zenon DEF OnceIn
      <4>3. Cardinality({x}) = 1  BY FS_Singleton
      <4>. QED  BY <4>2, <4>3
    <3>. QED  BY <3>2, <3>3
  <2>. HIDE DEF F
  <2>. QED  BY <1>2, <2>1, Zenon DEF ReadOnce, F
<1>6. RenderedAgrees
  <2>1. Shape(Transcript(events, events[p])) = Shape(F)  BY <1>2, <1>3, RendersAlike
  <2>. QED  BY <1>2, <2>1, Zenon DEF RenderedAgrees
<1>7. LatestTurnWhole
  <2>1. ASSUME NEW x \in 1..Len(F), F[x].form = "gist" PROVE F[x].of < turns
    <3>1. F[x].of <= events[p].collapse /\ F[x] \in Parts  BY <1>2, <1>3, <2>1, ReadParts
    <3>2. F[x].of \in Nat  BY <3>1 DEF Parts
    <3>3. events[p].collapse < turns /\ turns \in Nat  BY <1>2, <1>3, CutIs, TurnUpto
    <3>4. events[p].collapse \in Nat  BY <1>1, <1>3, LogType
    <3>. QED  BY <3>1, <3>2, <3>3, <3>4, SMT
  <2>. HIDE DEF F
  <2>. QED  BY <1>2, <1>3, <1>4, <2>1, Zenon DEF LatestTurnWhole, F
<1>. QED  BY <1>5, <1>6, <1>7

(* Every reference in what Hermes reads finds the result it names. *)
LEMMA GoingResolves ==
  ASSUME InLog, InEffect, Owned
  PROVE  \A x \in DOMAIN Current : Current[x].form = "same" => Gives(Current, x - 1, Current[x].of)
<1>1. PICK p : LastIn(events, p) /\ p \in 1..Len(events)  BY OwnedAt
<1>2. CutAt(events, p) /\ Current = Reads(events, p)  BY <1>1, NowReads
<1>3. LogOf(events, turns) /\ events \in Seq(LogEvents)  BY DEF InLog, LogOf
<1>. DEFINE F == Reads(events, p)
<1>4. DOMAIN F = 1..Len(F)
  <2>1. ReadSo(events, p, ReadPieces(events, p), F)  BY <1>1, <1>3, ReadsAre
  <2>2. F \in Seq(Parts)  BY <2>1, Zenon DEF ReadSo
  <2>. QED  BY <2>2, LenProperties, Zenon
<1>5. ASSUME NEW x \in 1..Len(F), F[x].form = "same"
      PROVE  \E y \in 1..(x - 1) : events[F[y].seq].ref = F[x].of /\ F[y].form \in {"full", "cut"}
  BY <1>2, <1>3, <1>5, RefersBack
<1>. HIDE DEF F
<1>. QED  BY <1>2, <1>4, <1>5, Zenon DEF Gives, F

(* A round of the turn at work that no reply has answered... *)
Unanswered(evs, t, i) ==
  /\ evs[i].kind = "round" /\ evs[i].turn = t
  /\ \A r \in 1..Len(evs) : evs[r].kind = "reply" => ~(i < r)

(* ... is what the next request carries or names. *)
Carried ==
  /\ at = "calls" => events # <<>> /\ events[Len(events)].kind = "reply"
  /\ at \in {"ready", "settled", "asked", "refused"} =>
       \A i \in 1..Len(events) :
         Unanswered(events, turns, i) => i \in send \/ (repeat # 0 /\ events[i].ref = LatestRef(events))

(* What was sent short is what the compaction in effect still cuts short. *)
LeftShort(evs, n) ==
  /\ n \in 1..Len(evs)
  /\ \/ evs[n].kind = "reply" /\ n <= LastCompact(evs).upto
     \/ /\ evs[n].kind = "round" /\ evs[n].out \notin Short
        /\ evs[n].out = NoResult \/ n <= LastCompact(evs).upto

(* What was sent begins what is sent now, up to the next compaction, and what
   was short in it stays so.                                                *)
SentOf(evs) ==
  /\ \A p : LastIn(evs, p) /\ sent.checkpoint = evs[p].checkpoint
         => IsPrefix(sent.parts, WithoutInput(Reads(evs, p)))
  /\ \A n \in ShortIn(sent.parts) : LeftShort(evs, n)

SentSo ==
  /\ sent.parts \in Seq(Parts) /\ sent.checkpoint \in Nat /\ sent.checkpoint <= compactions
  /\ SentOf(events)

(* Up to Hermes' last word the history has what Hermes reads. *)
LEMMA HistoryGives ==
  ASSUME InLog, InEffect, NEW p, LastIn(events, p), NEW i \in 1..Len(events), InConversation(events[i]),
         NEW r \in 1..Len(events), events[r].kind = "reply", i <= r
  PROVE  At(History, events[i]) # {}
<1>. DEFINE F == Reads(events, p)
            H == WithoutInput(F)
<1>1. CutAt(events, p) /\ Current = F /\ Owned  BY NowReads
<1>2. /\ LogOf(events, turns) /\ \A j \in 1..Len(events) : events[j].seq = j
      /\ \A j, k \in 1..Len(events) : j <= k => events[j].turn <= events[k].turn
  BY DEF InLog, LogOf
<1>3. p \in 1..Len(events) /\ events \in Seq(LogEvents)  BY <1>1, <1>2 DEF CutAt, LogOf
<1>4. F \in Seq(Parts) /\ InLine(F)
  <2>1. ReadSo(events, p, ReadPieces(events, p), F)  BY <1>2, <1>3, ReadsAre
  <2>. QED  BY <2>1, Zenon DEF ReadSo, Laid
<1>5. PICK m : Upto(F, m) /\ H = SubSeq(F, 1, m)  BY <1>4, WithoutInputIs
<1>6. H \in Seq(Parts) /\ Len(H) = m /\ \A x \in 1..m : H[x] = F[x]  BY <1>4, <1>5, WithoutInputOf
<1>7. DOMAIN H = 1..m  BY <1>6, LenProperties, Zenon
<1>8. History = H  BY <1>1, Zenon DEF History
<1>9. m \in 0..Len(F) /\ Len(F) \in Nat /\ \A x \in 1..Len(F) : F[x].role = "assistant" => x <= m
  <2>1. Len(F) \in Nat  BY <1>4, LenProperties
  <2>. QED  BY <1>5, <2>1, Zenon DEF Upto
<1>10. ASSUME NEW x \in 1..Len(F), x <= m, F[x].seq = i \/ (F[x].form = "gist" /\ F[x].of = events[i].turn)
       PROVE  At(History, events[i]) # {}
  <2>1. x \in 1..m  BY <1>9, <1>10, SMT
  <2>2. H[x].seq = events[i].seq \/ (H[x].form = "gist" /\ H[x].of = events[i].turn)  BY <1>2, <1>6, <1>10, <2>1
  <2>. HIDE DEF H
  <2>. QED  BY <1>7, <1>8, <2>1, <2>2, Zenon DEF At
<1>11. CASE events[i].turn <= events[p].collapse
  <2>1. GistIn(events, F, i)  BY <1>1, <1>2, <1>11, ReadThere
  <2>2. PICK x \in 1..Len(F) : F[x].form = "gist" /\ F[x].of = events[i].turn /\ F[x].role = "assistant"
    BY <2>1, Zenon DEF GistIn
  <2>. HIDE DEF F
  <2>. QED  BY <1>9, <1>10, <2>2
<1>12. CASE ~(events[i].turn <= events[p].collapse)
  <2>1. OnceIn(events, F, i)  BY <1>1, <1>2, <1>12, ReadThere
  <2>2. PICK x \in 1..Len(F) : At(F, events[i]) = {x} /\ F[x].seq = i  BY <2>1, Zenon DEF OnceIn
  <2>3. ~(events[r].turn <= events[p].collapse)
    <3>1. events[i].turn <= events[r].turn  BY <1>2
    <3>2. events[i].turn \in Nat /\ events[r].turn \in Nat /\ events[p].collapse \in Nat  BY <1>3, LogType
    <3>. QED  BY <1>12, <3>1, <3>2, SMT
  <2>4. InConversation(events[r])  BY DEF InConversation
  <2>5. OnceIn(events, F, r)  BY <1>1, <1>2, <2>3, <2>4, ReadThere
  <2>6. PICK y \in 1..Len(F) : At(F, events[r]) = {y} /\ F[y].seq = r /\ F[y].role = "assistant"
    BY <2>5, Zenon DEF OnceIn
  <2>. HIDE DEF F
  <2>7. x <= y
    <3>1. CASE i = r
      <4>1. {x} = {y}  BY <2>2, <2>6, <3>1
      <4>2. x = y  BY <4>1
      <4>. QED  BY <1>9, <4>2, SMT
    <3>2. CASE i # r
      <4>1. ~(r <= i)  BY <3>2, SMT
      <4>2. y <= x => F[y].seq <= F[x].seq  BY <1>4, <2>2, <2>6, Zenon DEF InLine
      <4>3. ~(y <= x)  BY <2>2, <2>6, <4>1, <4>2
      <4>. QED  BY <1>9, <4>3, SMT
    <3>. QED  BY <3>1, <3>2
  <2>8. y <= m  BY <1>9, <2>6
  <2>9. x <= m  BY <1>9, <2>7, <2>8, SMT
  <2>. QED  BY <1>10, <2>2, <2>9
<1>. QED  BY <1>11, <1>12

-----------------------------------------------------------------------------
(* The results a request carries, and what they name. *)

(* The earliest copy of its output beyond what a compaction has elided. *)
FirstCopy(evs, upto, k) ==
  /\ ~(k <= upto)
  /\ \A j \in 1..Len(evs) : j < k /\ HasRun(evs[j]) /\ evs[j].out = evs[k].out => j <= upto

(* It was whole in what Hermes reads when the results were put together, and
   is so still or was elided by a compaction since.                         *)
NamedBy(evs, name, k) ==
  /\ k \in 1..Len(evs) /\ HasRun(evs[k]) /\ evs[k].ref = name
  /\ \E r \in 1..Len(evs) : k < r /\ evs[r].kind = "reply"
  /\ \/ FirstCopy(evs, LastCompact(evs).upto, k)
     \/ /\ k <= LastCompact(evs).upto
        /\ \A j \in 1..Len(evs) : evs[j].kind = "round" => j < LastCompact(evs).seq

(* A compaction elides what it collapses. *)
Reaches(evs, o, n) == \A i \in 1..Len(evs) : i < n /\ evs[i].turn <= o.collapse => i <= o.upto

ReachOf(evs) == \A p : LastIn(evs, p) => Reaches(evs, evs[p], p)

Naming ==
  /\ ReachOf(events)
  /\ job.step # "none" => Reaches(events, job.event, Len(events) + 1)
  /\ at \in {"ready", "settled", "asked", "refused"} /\ repeat # 0 => \E k : NamedBy(events, repeat, k)

(* The output it names goes whole, in the history sent along. *)
LEMMA NameFound ==
  ASSUME InLog, InEffect, ReachOf(events), NEW p, LastIn(events, p),
         NEW name, NEW k, NamedBy(events, name, k), FirstCopy(events, events[p].upto, k)
  PROVE  Gives(History, Len(History), name)
<1>. DEFINE F == Reads(events, p)
            H == WithoutInput(F)
            Q == ReadPieces(events, p)
            n == Len(events)
            A == Stretch(events, p, k)
            o == BoundsAt(events, p, k)
<1>1. CutAt(events, p) /\ Current = F /\ Owned  BY NowReads
<1>2. LogOf(events, turns) /\ \A j \in 1..n : events[j].seq = j
  BY DEF InLog, LogOf
<1>3. p \in 1..n /\ events \in Seq(LogEvents) /\ n \in Nat  BY <1>1, <1>2, LogType DEF CutAt, LogOf
<1>4. k \in 1..n /\ HasRun(events[k]) /\ events[k].ref = name /\ events[k].kind = "round" /\ events[k].seq = k
  BY <1>2 DEF NamedBy, HasRun
<1>5. ReadSo(events, p, Q, F)  BY <1>2, <1>3, ReadsAre
<1>6. F \in Seq(Parts)  BY <1>5, Zenon DEF ReadSo
<1>7. PICK m : Upto(F, m) /\ H = SubSeq(F, 1, m)  BY <1>6, WithoutInputIs
<1>8. H \in Seq(Parts) /\ Len(H) = m /\ \A x \in 1..m : H[x] = F[x] /\ x \in 1..Len(F)  BY <1>6, <1>7, WithoutInputOf
<1>9. DOMAIN H = 1..m /\ History = H
  <2>1. DOMAIN H = 1..m  BY <1>8, LenProperties, Zenon
  <2>. QED  BY <1>1, <2>1, Zenon DEF History
<1>10. At(History, events[k]) # {}
  <2>1. PICK r \in 1..n : k < r /\ events[r].kind = "reply"  BY DEF NamedBy
  <2>2. k <= r  BY <1>3, <1>4, <2>1, SMT
  <2>3. InConversation(events[k])  BY <1>4 DEF InConversation
  <2>. QED  BY <1>4, <2>1, <2>2, <2>3, HistoryGives
<1>11. PICK x \in 1..m : H[x].seq = k \/ (H[x].form = "gist" /\ H[x].of = events[k].turn)
  <2>. HIDE DEF H
  <2>. QED  BY <1>4, <1>9, <1>10, Zenon DEF At
<1>12. ~(events[k].turn <= events[p].collapse)
  <2>. SUFFICES ASSUME events[k].turn <= events[p].collapse PROVE FALSE  OBVIOUS
  <2>1. k < p - 1  BY <1>1, <1>2, <1>4, CutIs
  <2>2. k < p  BY <1>3, <1>4, <2>1, SMT
  <2>. QED  BY <1>4, <2>2 DEF ReachOf, Reaches, FirstCopy
<1>13. F[x].seq = k
  <2>1. F[x].form = "gist" => F[x].of <= events[p].collapse  BY <1>1, <1>2, <1>8, ReadParts
  <2>. QED  BY <1>8, <1>11, <1>12, <2>1
<1>14. PICK j \in 1..Len(Q[k]) : F[x] = Q[k][j]
  BY <1>5, <1>8, <1>13, Zenon DEF ReadSo, Laid, Found
<1>15. PieceSo(Q[k], A, events[k], o)  BY <1>4, <1>5, Zenon DEF ReadSo
<1>16. ~Collapsed(events[k], o)  BY <1>1, <1>2, <1>4, <1>12, CutIs
<1>17. events[p].upto \in Nat /\ events[p].upto <= p - 1  BY <1>1, <1>3, LogType DEF CutAt
<1>18. ~Elided(events[k], o)
  <2>1. ~(k <= o.upto)
    <3>1. CASE k < p  BY <3>1 DEF BoundsAt, FirstCopy
    <3>2. CASE ~(k < p)
      <4>1. o.upto = 0  BY <3>2 DEF BoundsAt, Blank
      <4>2. ~(k <= 0)  BY <1>4, SMT
      <4>. QED  BY <4>1, <4>2
    <3>. QED  BY <3>1, <3>2
  <2>. QED  BY <1>4, <2>1 DEF Elided, HasRun
<1>19. Seen(A, events[k], o) = {}
  <2>. SUFFICES ASSUME NEW s \in Seen(A, events[k], o) PROVE FALSE  OBVIOUS
  <2>1. PICK l \in DOMAIN A : /\ HasRun(A[l]) /\ A[l].seq < events[k].seq /\ A[l].out = events[k].out
                              /\ ~Elided(A[l], o)
    BY Zenon DEF Seen
  <2>2. PICK i \in 1..n : A[l] = events[i] /\ Stretch(events, p, i) = A /\ BoundsAt(events, p, i) = o
    BY <1>3, <1>4, StretchIs
  <2>3. i < k  BY <1>2, <1>4, <2>1, <2>2
  <2>4. i <= events[p].upto  BY <2>1, <2>2, <2>3 DEF FirstCopy
  <2>5. i < p  BY <1>3, <1>17, <2>4, SMT
  <2>6. o = events[p]  BY <2>2, <2>5 DEF BoundsAt
  <2>. QED  BY <1>2, <2>1, <2>2, <2>4, <2>6 DEF Elided
<1>20. F[x].form \in {"full", "cut"}
  BY <1>4, <1>14, <1>15, <1>16, <1>18, <1>19, Zenon DEF PieceSo
<1>21. events[History[x].seq].ref = name /\ History[x].form \in {"full", "cut"}
  BY <1>4, <1>8, <1>9, <1>13, <1>20
<1>22. x \in 1..Len(History)  BY <1>8, <1>9
<1>. QED  BY <1>21, <1>22, Zenon DEF Gives

-----------------------------------------------------------------------------
LEMMA GoingUpToDate == InLog /\ InEffect /\ Carried => RequestUpToDate
<1>. SUFFICES ASSUME InLog, InEffect, Carried, at = "asked", Owned,
                     NEW i \in Told, events[i].turn = turns \/ \E r \in ReplySeqs(events) : i <= r
              PROVE  i \in Requested
  BY Zenon DEF RequestUpToDate
<1>1. PICK p : LastIn(events, p)  BY OwnedAt
<1>2. /\ events \in Seq(LogEvents) /\ DOMAIN events = 1..Len(events)
      /\ \A j \in 1..Len(events) : events[j].seq = j
  BY LenProperties DEF InLog, LogOf
<1>3. i \in 1..Len(events) /\ InConversation(events[i])  BY <1>2, Zenon DEF Told
<1>4. ReplySeqs(events) = {r \in 1..Len(events) : events[r].kind = "reply"}
  BY <1>2, Zenon DEF ReplySeqs
<1>5. CASE \E r \in 1..Len(events) : events[r].kind = "reply" /\ i <= r
  <2>1. At(History, events[i]) # {}  BY <1>1, <1>3, <1>5, HistoryGives
  <2>. QED  BY <2>1, Zenon DEF Requested
<1>6. CASE ~\E r \in 1..Len(events) : events[r].kind = "reply" /\ i <= r
  <2>1. events[i].turn = turns  BY <1>4, <1>6, Zenon
  <2>0. i \in Nat /\ Len(events) \in Nat  BY <1>2, <1>3, LenProperties, SMT
  <2>2. events[i].kind # "reply"
    <3>1. i <= i  BY <2>0, SMT
    <3>. QED  BY <1>3, <1>6, <3>1
  <2>3. CASE events[i].kind = "round"
    <3>1. \A r \in 1..Len(events) : i < r => i <= r  BY <2>0, SMT
    <3>2. Unanswered(events, turns, i)  BY <1>6, <2>1, <2>3, <3>1 DEF Unanswered
    <3>3. i \in send \/ (repeat # 0 /\ events[i].ref = LatestRef(events))  BY <1>3, <3>2, Zenon DEF Carried
    <3>. QED  BY <2>3, <3>3, Zenon DEF Requested
  <2>4. CASE events[i].kind # "round"
    <3>1. events[i].kind \in {"user", "added"}  BY <1>3, <2>2, <2>4 DEF InConversation
    <3>. QED  BY <2>1, <3>1, Zenon DEF Requested
  <2>. QED  BY <2>3, <2>4
<1>. QED  BY <1>5, <1>6

LEMMA GoingStands == InLog /\ InEffect /\ SentSo => SentStands
<1>. SUFFICES ASSUME InLog, InEffect, SentSo, Owned
              PROVE  /\ sent.checkpoint = LastCompact(events).checkpoint => IsPrefix(sent.parts, History)
                     /\ \A s \in ShortIn(sent.parts) : s \notin WholeIn(Current)
  BY Zenon DEF SentStands, PrefixFrozen, ElidedStays
<1>1. PICK p : LastIn(events, p)  BY OwnedAt
<1>. DEFINE F == Reads(events, p)
<1>2. CutAt(events, p) /\ Current = F /\ LastCompact(events) = events[p]  BY <1>1, NowReads
<1>3. /\ LogOf(events, turns) /\ events \in Seq(LogEvents) /\ p \in 1..Len(events)
      /\ \A j \in 1..Len(events) : events[j].seq = j
  BY <1>2 DEF InLog, LogOf, CutAt
<1>4. DOMAIN F = 1..Len(F)
  <2>1. ReadSo(events, p, ReadPieces(events, p), F)  BY <1>3, ReadsAre
  <2>2. F \in Seq(Parts)  BY <2>1, Zenon DEF ReadSo
  <2>. QED  BY <2>2, LenProperties, Zenon
<1>5. sent.checkpoint = LastCompact(events).checkpoint => IsPrefix(sent.parts, History)
  <2>1. sent.checkpoint = events[p].checkpoint => IsPrefix(sent.parts, WithoutInput(F))
    BY <1>1, Zenon DEF SentSo, SentOf
  <2>2. History = WithoutInput(F)  BY <1>2, Zenon DEF History
  <2>. QED  BY <1>2, <2>1, <2>2, Zenon
<1>6. ASSUME NEW s \in ShortIn(sent.parts), s \in WholeIn(Current) PROVE FALSE
  <2>1. PICK x \in 1..Len(F) : s = F[x].seq /\ F[x].form \in {"full", "cut", "same"}
    <3>1. s \in WholeIn(F)  BY <1>2, <1>6
    <3>. HIDE DEF F
    <3>. QED  BY <1>4, <3>1, Zenon DEF WholeIn
  <2>2. ~GoesShort(events[s], BoundsAt(events, p, s))
    <3>1. PartSo(F[x], Stretch(events, p, s), events[s], BoundsAt(events, p, s))  BY <1>2, <1>3, <2>1, ReadParts
    <3>. QED  BY <2>1, <3>1, Zenon DEF PartSo
  <2>3. LeftShort(events, s)  BY Zenon DEF SentSo, SentOf
  <2>4. s \in 1..Len(events) /\ events[s].seq = s  BY <1>3, <2>3 DEF LeftShort
  <2>5. CASE s <= events[p].upto
    <3>1. s < p
      <4>1. events[p].upto <= p - 1 /\ events[p].upto \in Nat  BY <1>2, <1>3, LogType DEF CutAt
      <4>. QED  BY <1>3, <2>4, <2>5, <4>1, SMT
    <3>2. BoundsAt(events, p, s) = events[p]  BY <3>1 DEF BoundsAt
    <3>. QED  BY <1>2, <2>2, <2>3, <2>4, <2>5, <3>2 DEF LeftShort, GoesShort, Elided
  <2>6. CASE ~(s <= events[p].upto)
    <3>1. events[s].kind = "round" /\ events[s].out \notin Short /\ events[s].out = NoResult
      BY <1>2, <2>3, <2>6, Zenon DEF LeftShort
    <3>. QED  BY <2>2, <3>1, Zenon DEF GoesShort, Elided
  <2>. QED  BY <2>5, <2>6
<1>. QED  BY <1>5, <1>6, Zenon

-----------------------------------------------------------------------------
(* By induction: what the turns add to the log disturbs none of this. *)
Stable(evs, t) == LogOf(evs, t) /\ EffectOf(evs) /\ SentOf(evs)

LEMMA PrefixOf ==
  ASSUME NEW s \in Seq(Parts), NEW t \in Seq(Parts), NEW u \in Seq(Parts)
  PROVE  /\ IsPrefix(s, s)
         /\ IsPrefix(s, t) /\ IsPrefix(t, u) => IsPrefix(s, u)
<1>1. Len(s) \in Nat /\ Len(t) \in Nat /\ Len(u) \in Nat  BY LenProperties
<1>2. IsPrefix(s, s)  BY <1>1, SMT DEF IsPrefix
<1>3. ASSUME IsPrefix(s, t), IsPrefix(t, u) PROVE IsPrefix(s, u)
  <2>1. Len(s) <= Len(t) /\ Len(t) <= Len(u) /\ Len(s) <= Len(u)  BY <1>1, <1>3, SMT DEF IsPrefix
  <2>2. /\ SubSeq(t, 1, Len(s)) \in Seq(Parts) /\ Len(SubSeq(t, 1, Len(s))) = Len(s)
        /\ \A i \in 1..Len(s) : SubSeq(t, 1, Len(s))[i] = t[i]
    BY <1>1, <2>1, SMT
  <2>3. /\ SubSeq(u, 1, Len(s)) \in Seq(Parts) /\ Len(SubSeq(u, 1, Len(s))) = Len(s)
        /\ \A i \in 1..Len(s) : SubSeq(u, 1, Len(s))[i] = u[i]
    BY <1>1, <2>1, SMT
  <2>4. /\ \A i \in 1..Len(t) : SubSeq(u, 1, Len(t))[i] = u[i]
        /\ \A i \in 1..Len(t) : SubSeq(t, 1, Len(t))[i] = t[i]
    BY <1>1, <2>1, SMT
  <2>5. SubSeq(t, 1, Len(t)) = SubSeq(u, 1, Len(t))  BY <1>3 DEF IsPrefix
  <2>6. \A i \in 1..Len(t) : t[i] = u[i]  BY <2>4, <2>5, Zenon
  <2>7. \A i \in 1..Len(s) : i \in 1..Len(t)  BY <1>1, <2>1, SMT
  <2>8. SubSeq(t, 1, Len(s)) = SubSeq(u, 1, Len(s))
    <3>. DEFINE a == SubSeq(t, 1, Len(s))
                b == SubSeq(u, 1, Len(s))
    <3>1. a \in Seq(Parts) /\ b \in Seq(Parts) /\ Len(a) = Len(s) /\ Len(b) = Len(s)  BY <2>2, <2>3
    <3>2. \A i \in 1..Len(s) : a[i] = b[i]  BY <2>2, <2>3, <2>6, <2>7, Zenon
    <3>. HIDE DEF a, b
    <3>3. a = b  BY <3>1, <3>2, SeqEqual, Zenon
    <3>. QED  BY <3>3 DEF a, b
  <2>. QED  BY <1>3, <2>1, <2>8 DEF IsPrefix
<1>. QED  BY <1>2, <1>3

(* The log after a compaction, with one event more. *)
LEMMA PostMore ==
  ASSUME NEW evs, NEW t, LogOf(evs, t), NEW e \in LogEvents, NEW more, OneMore(evs, more, e), NEW p \in 1..Len(evs)
  PROVE  /\ Pre(more, p) = Pre(evs, p) /\ more[p] = evs[p]
         /\ Post(more, p) = Append(Post(evs, p), more[Len(evs) + 1])
         /\ Longer(Post(evs, p), Append(Post(evs, p), more[Len(evs) + 1]))
<1>. DEFINE n == Len(evs)
            l == more[n + 1]
            A == Post(evs, p)
            B == Append(A, l)
            m == n - p + 1
<1>1. /\ evs \in Seq(LogEvents) /\ more \in Seq(LogEvents) /\ Len(more) = n + 1 /\ n \in Nat /\ l \in LogEvents
      /\ \A i \in 1..n : more[i] = evs[i] /\ i \in 1..(n + 1)
      /\ \A i \in 1..n : evs[i].seq = i
      /\ l.seq = n + 1
  <2>1. evs \in Seq(LogEvents)  BY DEF LogOf
  <2>. QED  BY <2>1, MoreIs DEF OneMore, LogOf
<1>2. p \in 1..(n + 1) /\ p \in 1..Len(more) /\ p \in Nat  BY <1>1, SMT
<1>3. /\ Pre(evs, p) \in Seq(LogEvents) /\ Len(Pre(evs, p)) = p - 1
      /\ \A i \in 1..(p - 1) : Pre(evs, p)[i] = evs[i] /\ i \in 1..n /\ i < p
      /\ A \in Seq(LogEvents) /\ Len(A) = m /\ m \in Nat
      /\ \A i \in 1..m : A[i] = evs[p + i - 1] /\ p + i - 1 \in 1..n
  BY <1>1, PrePost
<1>4. /\ Pre(more, p) \in Seq(LogEvents) /\ Len(Pre(more, p)) = p - 1
      /\ \A i \in 1..(p - 1) : Pre(more, p)[i] = more[i]
      /\ Post(more, p) \in Seq(LogEvents) /\ Len(Post(more, p)) = n + 1 - p + 1
      /\ \A i \in 1..(n + 1 - p + 1) : Post(more, p)[i] = more[p + i - 1]
  <2>1. /\ Pre(more, p) \in Seq(LogEvents) /\ Len(Pre(more, p)) = p - 1
        /\ \A i \in 1..(p - 1) : Pre(more, p)[i] = more[i]
        /\ Post(more, p) \in Seq(LogEvents) /\ Len(Post(more, p)) = Len(more) - p + 1
        /\ \A i \in 1..(Len(more) - p + 1) : Post(more, p)[i] = more[p + i - 1]
    <3>1. more \in Seq(LogEvents) /\ p \in 1..Len(more)  BY <1>1, <1>2
    <3>. QED  BY <3>1, PrePost
  <2>2. Len(more) - p + 1 = n + 1 - p + 1  BY <1>1
  <2>. QED  BY <2>1, <2>2
<1>. HIDE DEF l, A
<1>5. /\ B \in Seq(LogEvents) /\ Len(B) = m + 1 /\ B[m + 1] = l
      /\ \A i \in 1..m : B[i] = A[i]
  <2>1. A \in Seq(LogEvents) /\ l \in LogEvents /\ Len(A) = m  BY <1>1, <1>3 DEF l
  <2>. HIDE DEF m
  <2>. QED  BY <2>1, AppendProperties
<1>6. Pre(more, p) = Pre(evs, p)
  <2>1. \A i \in 1..(p - 1) : Pre(more, p)[i] = Pre(evs, p)[i]  BY <1>1, <1>3, <1>4, Zenon
  <2>. QED  BY <1>3, <1>4, <2>1, SeqEqual, Zenon
<1>7. Post(more, p) = B
  <2>1. n + 1 - p + 1 = m + 1 /\ p + (m + 1) - 1 = n + 1  BY <1>1, <1>2, SMT
  <2>2. \A i \in 1..(m + 1) : i \in 1..m \/ i = m + 1
    <3>1. m \in Nat  BY <1>3
    <3>. HIDE DEF m
    <3>. QED  BY <3>1, SMT
  <2>3. ASSUME NEW i \in 1..(m + 1) PROVE Post(more, p)[i] = B[i]
    <3>1. Post(more, p)[i] = more[p + i - 1]  BY <1>4, <2>1, <2>3, Zenon
    <3>2. CASE i \in 1..m
      <4>1. A[i] = evs[p + i - 1] /\ p + i - 1 \in 1..n  BY <1>3, <3>2 DEF A
      <4>2. more[p + i - 1] = evs[p + i - 1]  BY <1>1, <4>1
      <4>. QED  BY <1>5, <3>1, <3>2, <4>1, <4>2
    <3>3. CASE i = m + 1
      <4>1. p + i - 1 = n + 1  BY <2>1, <3>3
      <4>2. more[p + i - 1] = l  BY <4>1 DEF l
      <4>. QED  BY <1>5, <3>1, <3>3, <4>2
    <3>. QED  BY <2>2, <3>2, <3>3
  <2>4. Len(Post(more, p)) = m + 1  BY <1>4, <2>1, Zenon
  <2>. HIDE DEF B, m
  <2>. QED  BY <1>4, <1>5, <2>3, <2>4, SeqEqual, Zenon
<1>8. Longer(A, B)
  <2>1. \A i \in 1..m : i \in 1..(m + 1) /\ ~(n + 1 < p + i - 1)  BY <1>1, <1>2, <1>3, SMT
  <2>2. \A i \in 1..m : A[i].seq = p + i - 1  BY <1>1, <1>3 DEF A
  <2>3. \A i \in 1..(m + 1) : i \in 1..m \/ i = m + 1
    <3>1. m \in Nat  BY <1>3
    <3>. HIDE DEF m
    <3>. QED  BY <3>1, SMT
  <2>4. l.seq = n + 1 /\ Len(A) = m /\ A \in Seq(LogEvents)  BY <1>1, <1>3 DEF l, A
  <2>5. \A k \in 1..m : ~(B[m + 1].seq < A[k].seq)  BY <1>5, <2>1, <2>2, <2>4, Zenon
  <2>. HIDE DEF B, m
  <2>. QED  BY <1>5, <2>1, <2>3, <2>4, <2>5, Zenon DEF Longer
<1>. QED  BY <1>1, <1>6, <1>7, <1>8 DEF A, B, l

LEMMA ConcatInARow ==
  ASSUME NEW S, NEW r \in Seq(S), NEW s \in Seq(S), NEW t \in Seq(S), NEW x, x = r \o s
  PROVE  x \o t = r \o (s \o t)
BY ConcatAssociative

LEMMA ReadsMore ==
  ASSUME NEW evs, NEW t, LogOf(evs, t), NEW e \in LogEvents, NEW more, OneMore(evs, more, e), e.turn > 0,
         NEW p \in 1..Len(evs)
  PROVE  \E x \in Seq(Parts) : Reads(more, p) = Reads(evs, p) \o x
<1>. DEFINE A == Post(evs, p)
            l == more[Len(evs) + 1]
            o == evs[p]
<1>1. /\ evs \in Seq(LogEvents) /\ l \in LogEvents /\ l.turn > 0
      /\ \A i \in 1..Len(evs) : evs[i].turn > 0
  <2>1. evs \in Seq(LogEvents)  BY DEF LogOf
  <2>2. l \in LogEvents /\ l.turn = e.turn  BY <2>1, MoreIs
  <2>. QED  BY <2>1, <2>2 DEF LogOf
<1>2. /\ Pre(more, p) = Pre(evs, p) /\ more[p] = o
      /\ Post(more, p) = Append(A, l) /\ Longer(A, Append(A, l))
  BY PostMore
<1>3. /\ A \in Seq(LogEvents) /\ Pre(evs, p) \in Seq(LogEvents)
      /\ \A i \in 1..Len(A) : A[i].turn > 0
  <2>1. /\ A \in Seq(LogEvents) /\ Len(A) = Len(evs) - p + 1 /\ Pre(evs, p) \in Seq(LogEvents)
        /\ \A i \in 1..(Len(evs) - p + 1) : A[i] = evs[p + i - 1] /\ p + i - 1 \in 1..Len(evs)
    BY <1>1, PrePost
  <2>2. \A i \in 1..(Len(evs) - p + 1) : A[i].turn > 0  BY <1>1, <2>1
  <2>. HIDE DEF A
  <2>. QED  BY <2>1, <2>2, Zenon
<1>. HIDE DEF A, l
<1>4. PICK x \in Seq(Parts) : Transcript(Append(A, l), Blank) = Transcript(A, Blank) \o x
  BY <1>1, <1>2, <1>3, TranscriptMore
<1>5. /\ Transcript(Pre(evs, p), o) \in Seq(Parts) /\ Transcript(A, Blank) \in Seq(Parts)
  BY <1>3, PiecesAre
<1>. DEFINE a == Transcript(Pre(evs, p), o)
            b == Transcript(A, Blank)
<1>6. Reads(evs, p) = a \o b  BY DEF Reads, A
<1>7. Reads(evs, p) \o x = a \o (b \o x)
  <2>1. a \in Seq(Parts) /\ b \in Seq(Parts) /\ x \in Seq(Parts)  BY <1>5
  <2>. HIDE DEF a, b
  <2>. QED  BY <1>6, <2>1, ConcatInARow
<1>8. Reads(more, p) = a \o (b \o x)  BY <1>2, <1>4, Zenon DEF Reads
<1>. QED  BY <1>6, <1>7, <1>8, Zenon

LEMMA StableMore ==
  ASSUME NEW evs, NEW t, Stable(evs, t), sent.parts \in Seq(Parts),
         NEW e \in LogEvents, NEW more, OneMore(evs, more, e), e.kind # "compact", e.turn > 0, t <= e.turn,
         e.kind = "round" => e.ref = LatestRef(evs) + 1,
         e.kind = "answer" /\ e.ok => EndedBy(evs, Len(evs), e.turn)
  PROVE  Stable(more, e.turn)
<1>1. LogOf(evs, t) /\ EffectOf(evs) /\ SentOf(evs) /\ evs \in Seq(LogEvents)  BY DEF Stable, LogOf
<1>2. LogOf(more, e.turn)  BY <1>1, LogMore
<1>3. (\A p : LastIn(more, p) <=> LastIn(evs, p)) /\ LastCompact(more) = LastCompact(evs)  BY <1>1, LastMore
<1>4. \A p : LastIn(evs, p) => p \in 1..Len(evs)  BY DEF LastIn
<1>5. \A p \in 1..Len(evs) : Pre(more, p) = Pre(evs, p) /\ more[p] = evs[p]  BY <1>1, PostMore
<1>6. EffectOf(more)
  BY <1>1, <1>3, <1>4, <1>5, Zenon DEF EffectOf
<1>7. ASSUME NEW p, LastIn(more, p), sent.checkpoint = more[p].checkpoint
      PROVE  IsPrefix(sent.parts, WithoutInput(Reads(more, p)))
  <2>1. p \in 1..Len(evs) /\ LastIn(evs, p) /\ more[p] = evs[p]  BY <1>3, <1>4, <1>5, <1>7
  <2>2. IsPrefix(sent.parts, WithoutInput(Reads(evs, p)))  BY <1>1, <1>7, <2>1, Zenon DEF SentOf
  <2>3. PICK x \in Seq(Parts) : Reads(more, p) = Reads(evs, p) \o x  
    <3>1. LogOf(evs, t) /\ OneMore(evs, more, e) /\ e.turn > 0 /\ p \in 1..Len(evs)  BY <1>1, <2>1
    <3>. QED  BY <3>1, ReadsMore
  <2>4. Reads(evs, p) \in Seq(Parts)
    <3>1. ReadSo(evs, p, ReadPieces(evs, p), Reads(evs, p))  BY <1>1, <2>1, ReadsAre
    <3>. QED  BY <3>1, Zenon DEF ReadSo
  <2>5. Reads(more, p) \in Seq(Parts)
    <3>1. p \in 1..Len(more)  BY <1>7 DEF LastIn
    <3>2. ReadSo(more, p, ReadPieces(more, p), Reads(more, p))  BY <1>2, <3>1, ReadsAre
    <3>. QED  BY <3>2, Zenon DEF ReadSo
  <2>6. IsPrefix(WithoutInput(Reads(evs, p)), WithoutInput(Reads(more, p)))
    <3>1. IsPrefix(WithoutInput(Reads(evs, p)), WithoutInput(Reads(evs, p) \o x))  BY <2>4, WithoutInputGrows
    <3>. QED  BY <2>3, <3>1, Zenon
  <2>7. WithoutInput(Reads(evs, p)) \in Seq(Parts) /\ WithoutInput(Reads(more, p)) \in Seq(Parts)
    <3>1. PICK m : Upto(Reads(evs, p), m) /\ WithoutInput(Reads(evs, p)) = SubSeq(Reads(evs, p), 1, m)
      BY <2>4, WithoutInputIs
    <3>2. PICK n : Upto(Reads(more, p), n) /\ WithoutInput(Reads(more, p)) = SubSeq(Reads(more, p), 1, n)
      BY <2>5, WithoutInputIs
    <3>. QED  BY <2>4, <2>5, <3>1, <3>2, WithoutInputOf
  <2>. QED  BY <2>2, <2>6, <2>7, PrefixOf
<1>8. \A n \in ShortIn(sent.parts) : LeftShort(more, n)
  <2>1. \A i \in 1..Len(evs) : i \in 1..Len(more) /\ more[i] = evs[i]
    <3>1. \A i \in 1..Len(evs) : i \in 1..(Len(evs) + 1)  BY <1>1, MoreIs
    <3>. QED  BY <3>1 DEF OneMore
  <2>2. \A n \in ShortIn(sent.parts) : LeftShort(evs, n)  BY <1>1 DEF SentOf
  <2>. QED  BY <1>3, <2>1, <2>2, Zenon DEF LeftShort
<1>9. SentOf(more)  BY <1>7, <1>8, Zenon DEF SentOf
<1>. QED  BY <1>2, <1>6, <1>9 DEF Stable

(* A compaction's bounds are all a transcript takes of it. *)
LEMMA ByBounds ==
  ASSUME NEW evs, NEW o, NEW u, o.upto = u.upto, o.collapse = u.collapse
  PROVE  Transcript(evs, o) = Transcript(evs, u)
<1>1. \A e : Collapsed(e, o) = Collapsed(e, u)  BY Zenon DEF Collapsed
<1>2. \A e : Elided(e, o) = Elided(e, u) /\ Reply(e, o) = Reply(e, u)  BY Zenon DEF Elided, Reply
<1>3. \A e : Seen(evs, e, o) = Seen(evs, e, u)  BY <1>1, <1>2, Zenon DEF Seen
<1>4. \A e : Results(evs, e, o) = Results(evs, e, u)  BY <1>2, <1>3, Zenon DEF Results
<1>5. \A e : InTurn(evs, e, o) = InTurn(evs, e, u)
  <2>. TAKE e
  <2>1. Reply(e, o) = Reply(e, u) /\ Results(evs, e, o) = Results(evs, e, u)  BY <1>2, <1>4
  <2>. QED  BY <2>1, Zenon DEF InTurn
<1>6. \A e : Piece(evs, e, o) = Piece(evs, e, u)  BY <1>1, <1>5, Zenon DEF Piece
<1>. QED  BY <1>6, Zenon DEF Transcript

(* The compaction in effect, or none, is within the log. *)
LEMMA PrevIs ==
  ASSUME NEW evs, NEW t, LogOf(evs, t), EffectOf(evs), t > 0
  PROVE  LET prev == LastCompact(evs) IN
         /\ prev.upto \in Nat /\ prev.upto <= Len(evs)
         /\ prev.collapse \in Nat /\ prev.collapse < t
         /\ prev.checkpoint \in Nat
<1>1. evs \in Seq(LogEvents)  BY DEF LogOf
<1>2. t \in Nat /\ Len(evs) \in Nat  BY <1>1, TurnUpto, LenProperties
<1>3. CASE \E p : LastIn(evs, p)
  <2>1. PICK p : LastIn(evs, p)  BY <1>3
  <2>2. LastCompact(evs) = evs[p] /\ p \in 1..Len(evs) /\ evs[p].kind = "compact"
    BY <1>1, <2>1, LastCompactIs DEF LastIn
  <2>3. Len(Pre(evs, p)) = p - 1  BY <1>1, <2>2, PrePost
  <2>4. Frozen(Pre(evs, p), evs[p])  BY <2>1 DEF EffectOf
  <2>5. CutAt(evs, p)  BY <2>2, <2>3, <2>4, Zenon DEF CutAt, Frozen
  <2>6. evs[p].collapse < t  BY <2>5, CutIs
  <2>7. evs[p].upto \in Nat /\ evs[p].collapse \in Nat /\ evs[p].checkpoint \in Nat  BY <1>1, <2>2, LogType
  <2>8. evs[p].upto <= p - 1  BY <2>5 DEF CutAt
  <2>9. evs[p].upto <= Len(evs)  BY <1>2, <2>2, <2>7, <2>8, SMT
  <2>. QED  BY <2>2, <2>6, <2>7, <2>9
<1>4. CASE ~\E p : LastIn(evs, p)
  <2>1. LastCompact(evs) = Blank  BY <1>1, <1>4, LastCompactIs
  <2>2. LastCompact(evs).upto = 0 /\ LastCompact(evs).collapse = 0 /\ LastCompact(evs).checkpoint = 0
    <3>1. Blank.upto = 0 /\ Blank.collapse = 0 /\ Blank.checkpoint = 0  BY DEF Blank
    <3>. QED  BY <2>1, <3>1
  <2>. QED  BY <1>2, <2>2, SMT
<1>. QED  BY <1>3, <1>4

LEMMA KeepFromIs ==
  ASSUME NEW evs, NEW t, LogOf(evs, t)
  PROVE  KeepFrom(evs) \in Nat /\ KeepFrom(evs) <= Len(evs)
<1>1. evs \in Seq(LogEvents) /\ DOMAIN evs = 1..Len(evs) /\ Len(evs) \in Nat /\ \A i \in 1..Len(evs) : evs[i].seq = i
  BY LenProperties DEF LogOf
<1>. DEFINE kept == {s \in ReplySeqs(evs) : Cardinality({r \in ReplySeqs(evs) : r >= s}) = KeepRounds}
<1>2. \A s \in kept : s \in 1..Len(evs)
  <2>1. \A s \in ReplySeqs(evs) : s \in 1..Len(evs)  BY <1>1, Zenon DEF ReplySeqs
  <2>. QED  BY <2>1
<1>3. KeepFrom(evs) = IF kept = {} THEN Len(evs) ELSE (CHOOSE s \in kept : TRUE) - 1  BY DEF KeepFrom
<1>. HIDE DEF kept
<1>4. CASE kept = {}  BY <1>1, <1>3, <1>4, SMT
<1>5. CASE kept # {}
  <2>. DEFINE s == CHOOSE s \in kept : TRUE
  <2>1. s \in kept  BY <1>5
  <2>2. s \in 1..Len(evs)  BY <1>2, <2>1
  <2>3. KeepFrom(evs) = s - 1  BY <1>3, <1>5
  <2>. HIDE DEF s
  <2>. QED  BY <1>1, <2>2, <2>3, SMT
<1>. QED  BY <1>4, <1>5

(* What a compaction comes to: no less than the one before, within the log, and
   not its latest turn. *)
LEMMA CutsAre ==
  ASSUME NEW evs, NEW t, LogOf(evs, t), EffectOf(evs), t > 0,
         NEW depth \in {"auto", "now", "aggressive"}, NEW c \in Cuts(evs, LastCompact(evs), depth)
  PROVE  /\ c[1] \in Nat /\ c[1] <= Len(evs) /\ LastCompact(evs).upto <= c[1]
         /\ c[2] \in Nat /\ c[2] < LatestTurn(evs)
<1>. DEFINE prev == LastCompact(evs)
            n == Len(evs)
            k == OldestKept(evs)
<1>1. /\ prev.upto \in Nat /\ prev.upto <= n /\ prev.collapse \in Nat /\ prev.collapse < t  BY PrevIs
<1>2. t \in Nat /\ n \in Nat /\ LatestTurn(evs) = t /\ k = t - 1
  <2>1. evs \in Seq(LogEvents) /\ t = LatestTurn(evs)  BY DEF LogOf
  <2>. QED  BY <2>1, TurnUpto, LenProperties DEF OldestKept
<1>3. KeepFrom(evs) \in Nat /\ KeepFrom(evs) <= n  BY KeepFromIs
<1>. HIDE DEF prev, n, k
<1>4. ASSUME NEW x \in {prev.collapse} \cup (prev.collapse..k) PROVE x \in Nat /\ x < t
  BY <1>1, <1>2, SMT
<1>. DEFINE all == {<<n, x>> : x \in {prev.collapse} \cup (prev.collapse..k)}
<1>5. c \in all \/ c = <<AutoUpto(evs, prev), prev.collapse>> \/ c = <<n, Larger(prev.collapse, k)>>
  <2>1. c \in Cuts(evs, prev, depth)  BY DEF prev
  <2>2. Cuts(evs, prev, depth) = CASE depth = "auto"       -> {<<AutoUpto(evs, prev), prev.collapse>>} \cup all
                                   [] depth = "now"        -> all
                                   [] depth = "aggressive" -> {<<n, Larger(prev.collapse, k)>>}
    BY Zenon DEF Cuts, n, k
  <2>. HIDE DEF all
  <2>3. CASE depth = "auto"  BY <2>1, <2>2, <2>3
  <2>4. CASE depth = "now"  BY <2>1, <2>2, <2>4
  <2>5. CASE depth = "aggressive"  BY <2>1, <2>2, <2>5
  <2>. QED  BY <2>3, <2>4, <2>5
<1>6. CASE c \in all
  <2>1. PICK x \in {prev.collapse} \cup (prev.collapse..k) : c = <<n, x>>  BY <1>6
  <2>2. c[1] = n /\ c[2] = x  BY <2>1
  <2>3. c[1] \in Nat /\ c[1] <= n /\ prev.upto <= c[1]  BY <1>1, <1>2, <2>2
  <2>. QED  BY <1>2, <1>4, <2>2, <2>3 DEF prev, n
<1>7. CASE c = <<AutoUpto(evs, prev), prev.collapse>>
  <2>1. c[1] = AutoUpto(evs, prev) /\ c[2] = prev.collapse  BY <1>7
  <2>2. /\ AutoUpto(evs, prev) \in Nat /\ AutoUpto(evs, prev) <= n /\ prev.upto <= AutoUpto(evs, prev)
    BY <1>1, <1>2, <1>3, SMT DEF AutoUpto, Larger
  <2>. QED  BY <1>1, <1>2, <2>1, <2>2 DEF prev, n
<1>8. CASE c = <<n, Larger(prev.collapse, k)>>
  <2>1. c[1] = n /\ c[2] = Larger(prev.collapse, k)  BY <1>8
  <2>2. Larger(prev.collapse, k) \in Nat /\ Larger(prev.collapse, k) < t  BY <1>1, <1>2, SMT DEF Larger
  <2>3. n \in Nat /\ n <= n /\ prev.upto <= n  BY <1>1, <1>2
  <2>. QED  BY <1>2, <2>1, <2>2, <2>3 DEF prev, n
<1>. QED  BY <1>5, <1>6, <1>7, <1>8

(* The compaction noted. *)
LEMMA StableNoted ==
  ASSUME NEW evs, NEW t, Stable(evs, t), t > 0, NEW c \in LogEvents, c.kind = "compact", c.turn = t,
         Frozen(evs, c), LastCompact(evs).upto <= c.upto, sent.checkpoint \in Nat, sent.checkpoint < c.checkpoint,
         NEW more, OneMore(evs, more, c)
  PROVE  Stable(more, t)
<1>. DEFINE n == Len(evs)
            l == more[n + 1]
<1>1. LogOf(evs, t) /\ EffectOf(evs) /\ SentOf(evs) /\ evs \in Seq(LogEvents) /\ t \in Nat
  <2>1. LogOf(evs, t)  BY DEF Stable
  <2>. QED  BY <2>1, TurnUpto DEF Stable, LogOf
<1>2. LogOf(more, t)
  <2>1. c.turn > 0 /\ t <= c.turn  BY <1>1, SMT
  <2>2. LogOf(more, c.turn)  BY <1>1, <2>1, LogMore
  <2>. QED  BY <2>2
<1>3. /\ n \in Nat /\ l.upto = c.upto /\ l.collapse = c.collapse /\ l.checkpoint = c.checkpoint
      /\ \A i \in 1..n : i \in 1..(n + 1) /\ more[i] = evs[i]
      /\ n + 1 \in 1..Len(more) /\ Len(more) = n + 1
  <2>1. /\ n \in Nat /\ l.upto = c.upto /\ l.collapse = c.collapse /\ l.checkpoint = c.checkpoint
        /\ \A i \in 1..n : i \in 1..(n + 1)
    BY <1>1, MoreIs
  <2>2. Len(more) = n + 1 /\ \A i \in 1..n : more[i] = evs[i]  BY DEF OneMore
  <2>3. n + 1 \in 1..(n + 1)  BY <2>1, SMT
  <2>. QED  BY <2>1, <2>2, <2>3
<1>4. \A p : LastIn(more, p) <=> p = n + 1  BY <1>1, LastMore
<1>5. Pre(more, n + 1) = evs
  <2>1. /\ Pre(more, n + 1) \in Seq(LogEvents) /\ Len(Pre(more, n + 1)) = n + 1 - 1
        /\ \A i \in 1..(n + 1 - 1) : Pre(more, n + 1)[i] = more[i]
    <3>1. more \in Seq(LogEvents)  BY DEF OneMore
    <3>2. n + 1 \in 1..Len(more)  BY <1>3
    <3>. DEFINE p == n + 1
    <3>. HIDE DEF p
    <3>3. p \in 1..Len(more)  BY <3>2 DEF p
    <3>4. /\ Pre(more, p) \in Seq(LogEvents) /\ Len(Pre(more, p)) = p - 1
          /\ \A i \in 1..(p - 1) : Pre(more, p)[i] = more[i]
      BY <3>1, <3>3, PrePost
    <3>. QED  BY <3>4 DEF p
  <2>2. n + 1 - 1 = n  BY <1>3, SMT
  <2>3. \A i \in 1..n : Pre(more, n + 1)[i] = evs[i]  BY <1>3, <2>1, <2>2
  <2>. QED  BY <1>1, <2>1, <2>2, <2>3, SeqEqual, Zenon
<1>6. EffectOf(more)
  <2>1. Frozen(evs, l)
    <3>1. Transcript(evs, l) = Transcript(evs, c)  BY <1>3, ByBounds
    <3>. HIDE DEF l
    <3>. QED  BY <1>3, <3>1, Zenon DEF Frozen
  <2>. HIDE DEF l
  <2>2. Frozen(Pre(more, n + 1), more[n + 1])  BY <1>5, <2>1 DEF l
  <2>. QED  BY <1>4, <2>2, Zenon DEF EffectOf
<1>7. \A p : LastIn(more, p) => sent.checkpoint # more[p].checkpoint
  <2>1. sent.checkpoint # c.checkpoint
    <3>1. c.checkpoint \in Nat  BY DEF LogEvents
    <3>. QED  BY <3>1, SMT
  <2>. QED  BY <1>3, <1>4, <2>1, Zenon
<1>8. LastCompact(more) = l
  <2>1. more \in Seq(LogEvents)  BY DEF OneMore
  <2>2. LastIn(more, n + 1)  BY <1>4
  <2>. QED  BY <2>1, <2>2, LastCompactIs
<1>9. ASSUME NEW s \in ShortIn(sent.parts) PROVE LeftShort(more, s)
  <2>1. LeftShort(evs, s)  BY <1>1 DEF SentOf
  <2>2. s \in 1..n /\ s \in 1..Len(more) /\ more[s] = evs[s]
    <3>1. s \in 1..n  BY <2>1 DEF LeftShort
    <3>. QED  BY <1>3, <3>1
  <2>3. s <= LastCompact(evs).upto => s <= l.upto
    <3>1. LastCompact(evs).upto \in Nat /\ c.upto \in Nat  BY <1>1, PrevIs DEF LogEvents
    <3>. HIDE DEF l, n
    <3>. QED  BY <1>3, <2>2, <3>1, SMT
  <2>. HIDE DEF l, n
  <2>. QED  BY <1>8, <2>1, <2>2, <2>3, Zenon DEF LeftShort
<1>10. SentOf(more)  BY <1>7, <1>9, Zenon DEF SentOf
<1>. QED  BY <1>2, <1>6, <1>10 DEF Stable

(* What a request sends is what Hermes reads, short where the compaction in
   effect cuts it. *)
LEMMA HistoryIs ==
  ASSUME InLog, InEffect
  PROVE  /\ History \in Seq(Parts)
         /\ \A p : LastIn(events, p) => IsPrefix(History, WithoutInput(Reads(events, p)))
         /\ \A s \in ShortIn(History) : LeftShort(events, s)
<1>1. /\ LogOf(events, turns) /\ events \in Seq(LogEvents)
      /\ \A j \in 1..Len(events) : events[j].seq = j
  BY DEF InLog, LogOf
<1>2. CASE ~\E p : LastIn(events, p)
  <2>1. LastCompact(events) = Blank  BY <1>1, <1>2, LastCompactIs
  <2>2. History = <<>>  BY <2>1, Zenon DEF History, Owned
  <2>3. ShortIn(<<>>) = {}
    <3>1. DOMAIN <<>> = {}  OBVIOUS
    <3>. QED  BY <3>1, Zenon DEF ShortIn
  <2>4. <<>> \in Seq(Parts)  OBVIOUS
  <2>. QED  BY <1>2, <2>2, <2>3, <2>4, Zenon
<1>3. CASE \E p : LastIn(events, p)
  <2>1. PICK p : LastIn(events, p)  BY <1>3
  <2>. DEFINE F == Reads(events, p)
              H == WithoutInput(F)
  <2>2. Owned /\ LastCompact(events) = events[p] /\ CutAt(events, p) /\ Current = F /\ p \in 1..Len(events)
    BY <2>1, NowReads DEF LastIn
  <2>3. F \in Seq(Parts)
    <3>1. ReadSo(events, p, ReadPieces(events, p), F)  BY <1>1, <2>2, ReadsAre
    <3>. QED  BY <3>1, Zenon DEF ReadSo
  <2>4. PICK m : Upto(F, m) /\ H = SubSeq(F, 1, m)  BY <2>3, WithoutInputIs
  <2>5. H \in Seq(Parts) /\ Len(H) = m /\ \A x \in 1..m : H[x] = F[x] /\ x \in 1..Len(F)  BY <2>3, <2>4, WithoutInputOf
  <2>6. DOMAIN H = 1..m  BY <2>5, LenProperties, Zenon
  <2>7. History = H  BY <2>2, Zenon DEF History
  <2>8. \A q : LastIn(events, q) => q = p
    <3>1. ASSUME NEW q, LastIn(events, q) PROVE q = p
      <4>1. q <= p /\ p <= q /\ q \in 1..Len(events)  BY <2>1, <3>1 DEF LastIn
      <4>. QED  BY <2>2, <4>1, SMT
    <3>. QED  BY <3>1
  <2>9. IsPrefix(H, H)  BY <2>5, PrefixOf
  <2>10. ASSUME NEW s \in ShortIn(H) PROVE LeftShort(events, s)
    <3>1. PICK x \in 1..m : s = H[x].seq /\ H[x].form = "line"
      <4>. HIDE DEF H
      <4>. QED  BY <2>6, Zenon DEF ShortIn
    <3>2. x \in 1..Len(F) /\ s = F[x].seq /\ F[x].form = "line"  BY <2>5, <3>1
    <3>3. s \in 1..Len(events) /\ PartSo(F[x], Stretch(events, p, s), events[s], BoundsAt(events, p, s))
      BY <1>1, <2>2, <3>2, ReadParts
    <3>4. GoesShort(events[s], BoundsAt(events, p, s))  BY <3>2, <3>3, Zenon DEF PartSo
    <3>5. s <= BoundsAt(events, p, s).upto => s <= events[p].upto
      <4>1. CASE s < p  BY <4>1 DEF BoundsAt
      <4>2. CASE ~(s < p)
        <5>1. BoundsAt(events, p, s).upto = 0  BY <4>2 DEF BoundsAt, Blank
        <5>2. ~(s <= 0)  BY <3>3, SMT
        <5>. QED  BY <5>1, <5>2
      <4>. QED  BY <4>1, <4>2
    <3>6. events[s].seq = s  BY <1>1, <3>3
    <3>. QED  BY <2>2, <3>3, <3>4, <3>5, <3>6, Zenon DEF LeftShort, GoesShort, Elided
  <2>. HIDE DEF H
  <2>11. \A q : LastIn(events, q) => IsPrefix(History, WithoutInput(Reads(events, q)))
    BY <2>7, <2>8, <2>9, Zenon DEF H
  <2>. QED  BY <2>5, <2>7, <2>10, <2>11, Zenon
<1>. QED  BY <1>2, <1>3

(* The invariant: the log, its compaction in effect and what was sent of it are
   sound, a compaction under way goes further, and the next request carries
   what no reply has answered.                                             *)
Going ==
  /\ Stable(events, turns) /\ (at # "idle" => events # <<>>)
  /\ sent.parts \in Seq(Parts) /\ sent.checkpoint \in Nat /\ sent.checkpoint <= compactions
  /\ UnderWay /\ Carried

LEMMA GoingWell == Going => InLog /\ InEffect /\ Carried /\ SentSo
BY Zenon DEF Going, Stable, InLog, InEffect, SentSo

(* The events of the turns. *)
LEMMA EventIs ==
  ASSUME NEW kind \in EventKinds, NEW t \in Nat
  PROVE  LET e == Event(kind, t) IN
         e \in LogEvents /\ e.kind = kind /\ e.turn = t /\ e.ref = 0
<1>1. NoResult \in Outputs \cup {NoResult} /\ FALSE \in BOOLEAN /\ 0 \in Nat  OBVIOUS
<1>. QED  BY <1>1 DEF Event, Blank, LogEvents

LEMMA AnswerIs ==
  ASSUME turns \in Nat, NEW ok \in BOOLEAN
  PROVE  LET e == StoppedAnswer(ok) IN
         e \in LogEvents /\ e.kind = "answer" /\ e.turn = turns /\ e.ok = ok
<1>1. Event("answer", turns) \in LogEvents /\ Event("answer", turns).kind = "answer" /\ Event("answer", turns).turn = turns
  BY EventIs DEF EventKinds
<1>. QED  BY <1>1 DEF StoppedAnswer, LogEvents

LEMMA RoundIs ==
  ASSUME turns \in Nat, events \in Seq(LogEvents), NEW out \in Outputs \cup {NoResult}
  PROVE  LET e == Round(out) IN
         /\ e \in LogEvents /\ e.kind = "round" /\ e.turn = turns /\ e.ref = LatestRef(events) + 1
         /\ e.ref # 0
<1>1. Event("round", turns) \in LogEvents /\ Event("round", turns).kind = "round" /\ Event("round", turns).turn = turns
  BY EventIs DEF EventKinds
<1>2. LatestRef(events) \in Nat  BY LatestRefIs
<1>3. LatestRef(events) + 1 \in Nat /\ LatestRef(events) + 1 # 0  BY <1>2
<1>. QED  BY <1>1, <1>3 DEF Round, LogEvents

LEMMA StableStamped ==
  ASSUME NEW evs, NEW t, Stable(evs, t), sent.parts \in Seq(Parts),
         NEW e \in LogEvents, e.kind # "compact", e.turn > 0, t <= e.turn,
         e.kind = "round" => e.ref = LatestRef(evs) + 1,
         e.kind = "answer" /\ e.ok => EndedBy(evs, Len(evs), e.turn)
  PROVE  /\ Stable(Stamped(evs, e), e.turn) /\ Stamped(evs, e) # <<>>
         /\ evs \in Seq(LogEvents) /\ OneMore(evs, Stamped(evs, e), e)
<1>1. evs \in Seq(LogEvents)  BY DEF Stable, LogOf
<1>2. OneMore(evs, Stamped(evs, e), e)  BY <1>1, StampedIs
<1>3. Stable(Stamped(evs, e), e.turn)  BY <1>2, StableMore
<1>4. Stamped(evs, e) # <<>>
  <2>1. Len(Stamped(evs, e)) = Len(evs) + 1 /\ Len(evs) \in Nat  BY <1>1, <1>2, LenProperties DEF OneMore
  <2>2. Len(Stamped(evs, e)) # 0  BY <2>1, SMT
  <2>. QED  BY <2>2
<1>. QED  BY <1>1, <1>2, <1>3, <1>4

(* The state the turns leave it in. *)
LEMMA Moves ==
  ASSUME Going, Stable(events', turns'), checkpoints' = checkpoints, compactions' = compactions, sent' = sent,
         job'.step = "none", at' # "idle" => events' # <<>>, Carried'
  PROVE  Going'
<1>1. EffectOf(events)'  BY Zenon DEF Stable, EffectOf, Frozen
<1>2. SentOf(events)'  BY Zenon DEF Stable, SentOf
<1>3. UnderWay'  BY DEF UnderWay
<1>4. LogOf(events', turns')  BY DEF Stable
<1>. QED  BY <1>1, <1>2, <1>3, <1>4, Zenon DEF Going, Stable

(* What waits for a reply, with an event more. *)
LEMMA WaitsMore ==
  ASSUME NEW evs \in Seq(LogEvents), NEW e \in LogEvents, NEW more, OneMore(evs, more, e), NEW t,
         NEW i \in 1..Len(more), Unanswered(more, t, i)
  PROVE  /\ i \in 1..Len(evs) \/ i = Len(evs) + 1
         /\ i \in 1..Len(evs) => Unanswered(evs, t, i) /\ more[i] = evs[i]
         /\ i = Len(evs) + 1 => e.kind = "round" /\ more[i].ref = e.ref
         /\ e.kind # "reply"
         /\ evs # <<>> /\ evs[Len(evs)].kind = "reply" => i = Len(evs) + 1
<1>. DEFINE n == Len(evs)
<1>1. /\ n \in Nat /\ Len(more) = n + 1
      /\ i \in 1..n \/ i = n + 1
      /\ \A j \in 1..n : j \in 1..(n + 1) /\ j # n + 1 /\ j < n + 1 /\ more[j] = evs[j]
      /\ more[n + 1].kind = e.kind /\ more[n + 1].ref = e.ref
  <2>1. Len(more) = n + 1  BY DEF OneMore
  <2>2. /\ n \in Nat /\ \A j \in 1..(n + 1) : j \in 1..n \/ j = n + 1
        /\ \A j \in 1..n : j \in 1..(n + 1) /\ j # n + 1 /\ j < n + 1
        /\ more[n + 1].kind = e.kind /\ more[n + 1].ref = e.ref
    BY MoreIs
  <2>. QED  BY <2>1, <2>2 DEF OneMore
<1>. HIDE DEF n
<1>2. /\ more[i].kind = "round" /\ more[i].turn = t
      /\ \A r \in 1..(n + 1) : more[r].kind = "reply" => ~(i < r)
  BY <1>1, Zenon DEF Unanswered
<1>3. i \in 1..n => Unanswered(evs, t, i)
  BY <1>1, <1>2, Zenon DEF Unanswered, n
<1>4. i = n + 1 => e.kind = "round"  BY <1>1, <1>2
<1>5. e.kind # "reply"
  <2>1. n + 1 \in 1..(n + 1)  BY <1>1, SMT
  <2>2. CASE i = n + 1  BY <1>1, <1>2, <2>2
  <2>3. CASE i # n + 1
    <3>1. i < n + 1  BY <1>1, <2>3, Zenon
    <3>. QED  BY <1>1, <1>2, <2>1, <3>1, Zenon
  <2>. QED  BY <2>2, <2>3
<1>6. ASSUME evs # <<>>, evs[n].kind = "reply" PROVE i = n + 1
  <2>1. n # 0  BY <1>6, EmptySeq DEF n
  <2>2. n \in 1..n /\ n \in 1..(n + 1)  BY <1>1, <2>1, SMT
  <2>3. more[n].kind = "reply"  BY <1>1, <1>6, <2>2
  <2>4. ~(i < n) /\ i # n  BY <1>2, <2>2, <2>3
  <2>. QED  BY <1>1, <2>4, SMT
<1>. QED  BY <1>1, <1>3, <1>4, <1>5, <1>6 DEF n

(* At work: the log ends with an event of the turn. *)
LEMMA AtWork ==
  ASSUME Going
  PROVE  /\ events \in Seq(LogEvents) /\ turns \in Nat /\ LogOf(events, turns) /\ Len(events) \in Nat
         /\ at # "idle" => turns > 0 /\ Len(events) > 0 /\ events[Len(events)].turn = turns
         /\ at \in {"settled", "asked", "calls"} \/ Quiet => job.step = "none"
         /\ at = "calls" => events[Len(events)].kind = "reply" /\ events # <<>>
<1>1. LogOf(events, turns) /\ events \in Seq(LogEvents)  BY DEF Going, Stable, LogOf
<1>2. turns \in Nat /\ Len(events) \in Nat  BY <1>1, TurnUpto, LenProperties
<1>3. at # "idle" => turns > 0 /\ Len(events) > 0 /\ events[Len(events)].turn = turns
  <2>. SUFFICES ASSUME at # "idle" PROVE turns > 0 /\ Len(events) > 0 /\ events[Len(events)].turn = turns  OBVIOUS
  <2>1. events # <<>>  BY DEF Going
  <2>2. turns > 0 /\ turns = events[Len(events)].turn /\ Len(events) \in 1..Len(events)  BY <1>1, <2>1, TurnUpto
  <2>3. Len(events) > 0  BY <1>2, <2>2, SMT
  <2>. QED  BY <2>2, <2>3
<1>4. at \in {"settled", "asked", "calls"} \/ Quiet => job.step = "none"
  <2>1. Quiet => job.step = "none"  BY DEF Quiet, NoJob
  <2>2. at \in {"settled", "asked", "calls"} => job.step = "none"  BY DEF Going, UnderWay
  <2>. QED  BY <2>1, <2>2
<1>5. at = "calls" => events[Len(events)].kind = "reply" /\ events # <<>>  BY DEF Going, Carried
<1>. QED  BY <1>1, <1>2, <1>3, <1>4, <1>5

(* An event of the turn at work. *)
LEMMA TurnAdds ==
  ASSUME Going, turns > 0, NEW evs, Stable(evs, turns),
         NEW e \in LogEvents, e.kind # "compact", e.turn = turns,
         e.kind = "round" => e.ref = LatestRef(evs) + 1,
         e.kind = "answer" /\ e.ok => EndedBy(evs, Len(evs), turns)
  PROVE  /\ Stable(Stamped(evs, e), turns) /\ Stamped(evs, e) # <<>>
         /\ evs \in Seq(LogEvents) /\ OneMore(evs, Stamped(evs, e), e)
<1>1. turns \in Nat /\ sent.parts \in Seq(Parts)  BY AtWork DEF Going
<1>2. e.turn > 0 /\ turns <= e.turn  BY <1>1, SMT
<1>. QED  BY <1>1, <1>2, StableStamped

(* A reply, and what may follow it at once. *)
LEMMA ReplyAdds ==
  ASSUME Going, turns > 0
  PROVE  LET evs == Stamped(events, Event("reply", turns)) IN
         /\ Stable(evs, turns) /\ evs # <<>> /\ evs \in Seq(LogEvents) /\ events \in Seq(LogEvents)
         /\ evs[Len(evs)].kind = "reply" /\ EndedBy(evs, Len(evs), turns)
         /\ \A i \in 1..Len(evs) : ~Unanswered(evs, turns, i)
<1>. DEFINE e == Event("reply", turns)
            evs == Stamped(events, e)
<1>1. events \in Seq(LogEvents) /\ turns \in Nat /\ Stable(events, turns)  BY AtWork DEF Going
<1>2. e \in LogEvents /\ e.kind = "reply" /\ e.turn = turns  BY <1>1, EventIs DEF EventKinds
<1>. HIDE DEF e
<1>3. /\ Stable(evs, turns) /\ evs # <<>> /\ OneMore(events, evs, e)
  BY <1>1, <1>2, TurnAdds
<1>. HIDE DEF evs
<1>4. evs \in Seq(LogEvents) /\ Len(evs) = Len(events) + 1  BY <1>3 DEF OneMore
<1>5. evs[Len(events) + 1].kind = "reply" /\ evs[Len(events) + 1].turn = turns /\ Len(events) \in Nat
  BY <1>1, <1>2, <1>3, MoreIs
<1>6. evs[Len(evs)].kind = "reply" /\ evs[Len(evs)].turn = turns /\ Len(evs) > 0
  <2>1. Len(events) + 1 > 0  BY <1>5, SMT
  <2>. QED  BY <1>4, <1>5, <2>1
<1>7. EndedBy(evs, Len(evs), turns)  BY <1>6 DEF EndedBy
<1>8. ASSUME NEW i \in 1..Len(evs) PROVE ~Unanswered(evs, turns, i)
  BY <1>1, <1>2, <1>3, WaitsMore
<1>. QED  BY <1>1, <1>3, <1>4, <1>6, <1>7, <1>8 DEF evs, e

LEMMA StartGoes == Going /\ StartTurn => Going'
<1>. SUFFICES ASSUME Going, StartTurn PROVE Going'  OBVIOUS
<1>. DEFINE e == Event("user", turns + 1)
<1>1. events \in Seq(LogEvents) /\ turns \in Nat /\ Stable(events, turns) /\ LogOf(events, turns) /\ sent.parts \in Seq(Parts)
  BY AtWork DEF Going
<1>2. e \in LogEvents /\ e.kind = "user" /\ e.turn = turns + 1
  <2>1. turns + 1 \in Nat  BY <1>1
  <2>. QED  BY <2>1, EventIs DEF EventKinds
<1>3. e.turn > 0 /\ turns <= e.turn  BY <1>1, <1>2, SMT
<1>. HIDE DEF e
<1>4. /\ Stable(Stamped(events, e), turns + 1) /\ Stamped(events, e) # <<>>
      /\ OneMore(events, Stamped(events, e), e)
  BY <1>1, <1>2, <1>3, StableStamped
<1>5. /\ events' = Stamped(events, e) /\ turns' = turns + 1 /\ at' = "ready" /\ job = NoJob /\ job' = job
      /\ checkpoints' = checkpoints /\ compactions' = compactions /\ sent' = sent
  BY DEF StartTurn, Quiet, context, e
<1>6. job'.step = "none"  BY <1>5 DEF NoJob
<1>7. ASSUME NEW i \in 1..Len(Stamped(events, e)) PROVE ~Unanswered(Stamped(events, e), turns + 1, i)
  <2>. SUFFICES ASSUME Unanswered(Stamped(events, e), turns + 1, i) PROVE FALSE  OBVIOUS
  <2>1. i \in 1..Len(events) /\ Unanswered(events, turns + 1, i)  BY <1>1, <1>2, <1>4, WaitsMore
  <2>2. events[i].turn <= turns /\ events[i].turn = turns + 1  BY <1>1, <2>1, TurnUpto DEF Unanswered
  <2>. QED  BY <1>1, <2>2, SMT
<1>8. Carried'  BY <1>5, <1>7, Zenon DEF Carried
<1>. QED  BY <1>4, <1>5, <1>6, <1>8, Moves

LEMMA AddedGoes == Going /\ TakeAdded => Going'
<1>. SUFFICES ASSUME Going, TakeAdded PROVE Going'  OBVIOUS
<1>. DEFINE e == Event("added", turns)
            evs == Stamped(events, e)
<1>1. events \in Seq(LogEvents) /\ turns \in Nat /\ Stable(events, turns)  BY AtWork DEF Going
<1>2. at = "ready" /\ turns > 0  BY AtWork DEF TakeAdded
<1>3. e \in LogEvents /\ e.kind = "added" /\ e.turn = turns /\ e.ref = 0  BY <1>1, EventIs DEF EventKinds
<1>. HIDE DEF e
<1>4. /\ Stable(evs, turns) /\ evs # <<>> /\ OneMore(events, evs, e)  BY <1>1, <1>2, <1>3, TurnAdds
<1>5. /\ events' = evs /\ turns' = turns /\ at' = at /\ job = NoJob /\ job' = job
      /\ checkpoints' = checkpoints /\ compactions' = compactions /\ sent' = sent
      /\ repeat' = repeat /\ send \subseteq send'
  BY DEF TakeAdded, Quiet, context, e
<1>6. job'.step = "none"  BY <1>5 DEF NoJob
<1>. HIDE DEF evs
<1>7. LatestRef(evs) = LatestRef(events)  BY <1>1, <1>3, <1>4, RefsMore
<1>8. ASSUME NEW i \in 1..Len(evs), Unanswered(evs, turns, i)
      PROVE  i \in send' \/ (repeat' # 0 /\ evs[i].ref = LatestRef(evs))
  <2>1. i \in 1..Len(events) /\ Unanswered(events, turns, i) /\ evs[i] = events[i]
    BY <1>1, <1>3, <1>4, <1>8, WaitsMore
  <2>2. i \in send \/ (repeat # 0 /\ events[i].ref = LatestRef(events))
    BY <1>2, <2>1, Zenon DEF Going, Carried
  <2>. QED  BY <1>5, <1>7, <2>1, <2>2
<1>9. Carried'  BY <1>2, <1>5, <1>8, Zenon DEF Carried
<1>. QED  BY <1>4, <1>5, <1>6, <1>9, Moves

LEMMA AskGoes == Checkpointed /\ Going /\ Ask => Going'
<1>. SUFFICES ASSUME Checkpointed, Going, Ask PROVE Going'  OBVIOUS
<1>1. /\ events' = events /\ turns' = turns /\ at \in {"ready", "settled"} /\ at' = "asked" /\ job = NoJob /\ job' = job
      /\ checkpoints' = checkpoints /\ compactions' = compactions /\ send' = send /\ repeat' = repeat
      /\ sent'.checkpoint = LastCompact(events).checkpoint /\ sent'.parts = History
  BY DEF Ask, Quiet, context, request
<1>2. InLog /\ InEffect  BY GoingWell
<1>3. /\ History \in Seq(Parts)
      /\ \A p : LastIn(events, p) => IsPrefix(History, WithoutInput(Reads(events, p)))
      /\ \A s \in ShortIn(History) : LeftShort(events, s)
  BY <1>2, HistoryIs
<1>4. LogOf(events, turns) /\ EffectOf(events) /\ turns > 0 /\ events \in Seq(LogEvents) /\ Len(events) \in Nat
  BY <1>1, AtWork DEF Going, Stable
<1>5. LastCompact(events).checkpoint \in Nat  BY <1>4, PrevIs
<1>6. LastCompact(events).checkpoint <= compactions
  <2>0. compactions \in Nat  BY DEF Checkpointed
  <2>1. CASE \E p : LastIn(events, p)
    <3>1. PICK p : LastIn(events, p)  BY <2>1
    <3>2. LastCompact(events) = events[p]  BY <1>4, <3>1, LastCompactIs, Zenon
    <3>3. p \in DOMAIN events /\ events[p].kind = "compact"  BY <1>4, <3>1, LenProperties, Zenon DEF LastIn
    <3>. QED  BY <3>2, <3>3, Zenon DEF Checkpointed, NamedIn, Named
  <2>2. CASE ~\E p : LastIn(events, p)
    <3>1. LastCompact(events) = Blank  BY <1>4, <2>2, LastCompactIs
    <3>2. Blank.checkpoint = 0  BY DEF Blank
    <3>. QED  BY <2>0, <3>1, <3>2, SMT
  <2>. QED  BY <2>1, <2>2
<1>7. SentOf(events)'
  BY <1>1, <1>3, Zenon DEF SentOf, LeftShort
<1>8. EffectOf(events)'  BY <1>1, <1>4, Zenon DEF EffectOf, Frozen
<1>9. UnderWay'  BY <1>1 DEF UnderWay, NoJob
<1>10. Carried'  BY <1>1, Zenon DEF Going, Carried
<1>11. events # <<>>  BY <1>1, Zenon DEF Going
<1>. QED  BY <1>1, <1>3, <1>4, <1>5, <1>6, <1>7, <1>8, <1>9, <1>10, <1>11, Zenon DEF Going, Stable

LEMMA RepliesGo ==
  ASSUME Going, Calls \/ FinalAnswer \/ Nudge \/ AskAgain, recorded = compactions
  PROVE  Going'
<1>1. events \in Seq(LogEvents) /\ turns \in Nat /\ Stable(events, turns)  BY AtWork DEF Going
<1>2. /\ turns' = turns /\ at = "asked" /\ job' = job
      /\ checkpoints' = checkpoints /\ compactions' = compactions /\ sent' = sent
  BY DEF Calls, FinalAnswer, Nudge, AskAgain, Replies
<1>3. turns > 0 /\ job'.step = "none"  BY <1>2, AtWork
<1>. DEFINE evs == Stamped(events, Event("reply", turns))
<1>4. /\ Stable(evs, turns) /\ evs # <<>>
      /\ evs[Len(evs)].kind = "reply" /\ EndedBy(evs, Len(evs), turns)
      /\ \A i \in 1..Len(evs) : ~Unanswered(evs, turns, i)
  BY <1>3, ReplyAdds
<1>5. CASE Calls
  <2>1. events' = evs /\ at' = "calls"  BY <1>5 DEF Calls, Replies
  <2>. HIDE DEF evs
  <2>2. Carried'  BY <1>4, <2>1, Zenon DEF Carried
  <2>. QED  BY <1>2, <1>3, <1>4, <2>1, <2>2, Moves
<1>6. CASE Nudge
  <2>1. events' = evs /\ at' = "ready"  BY <1>6 DEF Nudge, Replies
  <2>. HIDE DEF evs
  <2>2. Carried'  BY <1>2, <1>4, <2>1, Zenon DEF Carried
  <2>. QED  BY <1>2, <1>3, <1>4, <2>1, <2>2, Moves
<1>7. CASE FinalAnswer
  <2>1. PICK ok \in BOOLEAN : events' = Stamped(evs, StoppedAnswer(ok))
    BY <1>7 DEF FinalAnswer, StoppedAnswer
  <2>2. at' = "idle"  BY <1>7 DEF FinalAnswer, Replies
  <2>. DEFINE e == StoppedAnswer(ok)
  <2>3. e \in LogEvents /\ e.kind = "answer" /\ e.turn = turns  BY <1>1, AnswerIs
  <2>. HIDE DEF evs, e
  <2>4. Stable(Stamped(evs, e), turns)  BY <1>3, <1>4, <2>3, TurnAdds
  <2>5. Carried'  BY <2>2, Zenon DEF Carried
  <2>6. events' = Stamped(evs, e)  BY <2>1 DEF e
  <2>. QED  BY <1>2, <1>3, <2>2, <2>4, <2>5, <2>6, Moves
<1>8. CASE AskAgain
  <2>1. events' = events /\ at' = "ready" /\ send' = send /\ repeat' = repeat  BY <1>8 DEF AskAgain, Replies
  <2>2. Carried'  BY <1>2, <2>1, Zenon DEF Going, Carried
  <2>3. events # <<>>  BY <1>2 DEF Going
  <2>. QED  BY <1>1, <1>2, <1>3, <2>1, <2>2, <2>3, Moves
<1>. QED  BY <1>5, <1>6, <1>7, <1>8

LEMMA CallsGo == Going /\ RunCalls => Going'
<1>. SUFFICES ASSUME Going, RunCalls PROVE Going'  OBVIOUS
<1>1. events \in Seq(LogEvents) /\ turns \in Nat /\ Stable(events, turns) /\ Len(events) \in Nat  BY AtWork DEF Going
<1>2. /\ at = "calls" /\ at' = "ready" /\ turns' = turns /\ job' = job
      /\ checkpoints' = checkpoints /\ compactions' = compactions /\ sent' = sent
  BY DEF RunCalls, context
<1>3. turns > 0 /\ job'.step = "none" /\ events # <<>> /\ events[Len(events)].kind = "reply"  BY <1>2, AtWork
<1>4. PICK out \in Outputs : LET evs == Stamped(events, Round(out))
                                 first == FirstVerbatim(evs, out)
                                 dup == first # 0 /\ first < LatestRef(evs)
                             IN  /\ events' = evs
                                 /\ send' = IF dup THEN {} ELSE {Len(evs)}
                                 /\ repeat' = IF dup THEN first ELSE 0
  BY DEF RunCalls
<1>. DEFINE e == Round(out)
            evs == Stamped(events, e)
<1>5. events' = evs /\ (send' = {Len(evs)} \/ repeat' # 0)  BY <1>4, Zenon
<1>6. e \in LogEvents /\ e.kind = "round" /\ e.turn = turns /\ e.ref = LatestRef(events) + 1  BY <1>1, RoundIs
<1>. HIDE DEF e
<1>7. /\ Stable(evs, turns) /\ evs # <<>> /\ OneMore(events, evs, e)  BY <1>1, <1>3, <1>6, TurnAdds
<1>. HIDE DEF evs
<1>8. LatestRef(evs) = e.ref  BY <1>1, <1>6, <1>7, RefsMore
<1>9. Len(evs) = Len(events) + 1  BY <1>7 DEF OneMore
<1>10. ASSUME NEW i \in 1..Len(evs), Unanswered(evs, turns, i)
       PROVE  i \in send' \/ (repeat' # 0 /\ evs[i].ref = LatestRef(evs))
  <2>1. i = Len(events) + 1 /\ evs[i].ref = e.ref  BY <1>1, <1>3, <1>6, <1>7, <1>10, WaitsMore
  <2>. QED  BY <1>5, <1>8, <1>9, <2>1
<1>11. Carried'  BY <1>2, <1>5, <1>10, Zenon DEF Carried
<1>. QED  BY <1>2, <1>3, <1>5, <1>7, <1>11, Moves

(* The turn ends. *)
LEMMA EndsGo ==
  ASSUME Going, NEW evs, Ends(evs), Stable(evs, turns), job.step = "none"
  PROVE  Going'
<1>1. /\ at' = "idle" /\ events' = evs /\ turns' = turns /\ job' = job
      /\ checkpoints' = checkpoints /\ compactions' = compactions /\ sent' = sent
  BY DEF Ends, context
<1>2. Carried'  BY <1>1, Zenon DEF Carried
<1>. QED  BY <1>1, <1>2, Moves

LEMMA EndingGoes == Going /\ (Ending \/ GiveUp) => Going'
<1>. SUFFICES ASSUME Going, Ending \/ GiveUp PROVE Going'  OBVIOUS
<1>1. events \in Seq(LogEvents) /\ turns \in Nat /\ Stable(events, turns) /\ Len(events) \in Nat  BY AtWork DEF Going
<1>2. at # "idle"  BY DEF Ending, GiveUp, QuitTurn, Capped, Blocked, Interrupted
<1>3. turns > 0 /\ Len(events) > 0 /\ events[Len(events)].turn = turns  BY <1>2, AtWork
<1>4. job.step = "none"  BY AtWork DEF Ending, GiveUp, QuitTurn, Capped, Blocked, Interrupted
<1>5. CASE QuitTurn
  <2>1. PICK out \in Short : Ends(Stamped(Stamped(events, Round(out)), StoppedAnswer(TRUE)))  BY <1>5 DEF QuitTurn
  <2>. DEFINE r == Round(out)
              evs == Stamped(events, r)
              e == StoppedAnswer(TRUE)
  <2>2. /\ r \in LogEvents /\ r.kind = "round" /\ r.turn = turns /\ r.ref = LatestRef(events) + 1
    <3>1. out \in Outputs \cup {NoResult}  BY DEF Outputs
    <3>. QED  BY <1>1, <3>1, RoundIs
  <2>3. e \in LogEvents /\ e.kind = "answer" /\ e.turn = turns  BY <1>1, AnswerIs
  <2>4. Ends(Stamped(evs, e))  BY <2>1
  <2>. HIDE DEF r
  <2>5. Stable(evs, turns) /\ OneMore(events, evs, r)  BY <1>1, <1>3, <2>2, TurnAdds
  <2>. HIDE DEF evs, e
  <2>6. events[Len(events)].kind = "reply"  BY <1>5, AtWork DEF QuitTurn
  <2>7. EndedBy(evs, Len(evs), turns)
    <3>1. Len(evs) = Len(events) + 1 /\ \A i \in 1..Len(events) : evs[i] = events[i]  BY <2>5 DEF OneMore
    <3>2. evs[Len(events) + 1].kind = "round" /\ evs[Len(events) + 1].turn = turns  BY <1>1, <2>2, <2>5, MoreIs
    <3>3. Len(events) \in 1..Len(events) /\ Len(events) + 1 > 1 /\ Len(events) + 1 - 1 = Len(events) /\ Len(events) + 1 > 0
      BY <1>1, <1>3, SMT
    <3>4. evs[Len(events)] = events[Len(events)]  BY <3>1, <3>3
    <3>5. Len(evs) > 1 /\ Len(evs) > 0 /\ Len(evs) - 1 = Len(events)  BY <3>1, <3>3
    <3>6. evs[Len(evs)].kind = "round" /\ evs[Len(evs)].turn = turns  BY <3>1, <3>2
    <3>7. evs[Len(evs) - 1].kind = "reply" /\ evs[Len(evs) - 1].turn = turns  BY <1>3, <2>6, <3>4, <3>5
    <3>. QED  BY <3>5, <3>6, <3>7 DEF EndedBy
  <2>8. Stable(Stamped(evs, e), turns)  BY <1>3, <2>3, <2>5, <2>7, TurnAdds
  <2>. QED  BY <1>4, <2>4, <2>8, EndsGo
<1>6. CASE Capped
  <2>. DEFINE e == StoppedAnswer(TRUE)
  <2>1. e \in LogEvents /\ e.kind = "answer" /\ e.turn = turns  BY <1>1, AnswerIs
  <2>2. EndedBy(events, Len(events), turns)  BY <1>3, <1>6, AtWork DEF Capped, EndedBy
  <2>3. Ends(Stamped(events, e))  BY <1>6 DEF Capped
  <2>. HIDE DEF e
  <2>4. Stable(Stamped(events, e), turns)  BY <1>1, <1>3, <2>1, <2>2, TurnAdds
  <2>. QED  BY <1>4, <2>3, <2>4, EndsGo
<1>7. CASE Blocked \/ GiveUp
  <2>. DEFINE e == StoppedAnswer(FALSE)
  <2>1. e \in LogEvents /\ e.kind = "answer" /\ e.turn = turns /\ ~e.ok  BY <1>1, AnswerIs
  <2>2. Ends(Stamped(events, e))  BY <1>7 DEF Blocked, GiveUp
  <2>. HIDE DEF e
  <2>3. Stable(Stamped(events, e), turns)  BY <1>1, <1>3, <2>1, TurnAdds
  <2>. QED  BY <1>4, <2>2, <2>3, EndsGo
<1>8. CASE Interrupted
  <2>1. Ends(events)  BY <1>8 DEF Interrupted
  <2>. QED  BY <1>1, <1>4, <2>1, EndsGo
<1>. QED  BY <1>5, <1>6, <1>7, <1>8 DEF Ending

(* A compaction: its file first, further than the one before. *)
LEMMA CompactGoes ==
  ASSUME Checkpointed, Going, NEW depth \in {"auto", "now", "aggressive"}, Compact(depth),
         at \in {"idle", "ready", "refused"}
  PROVE  Going'
<1>. DEFINE n == compactions + 1
            prev == LastCompact(events)
<1>1. /\ events' = events /\ turns' = turns /\ at' = at /\ send' = send /\ repeat' = repeat
      /\ compactions' = compactions /\ sent' = sent
  BY DEF Compact, request
<1>2. PICK c \in Compactable(depth) :
        LET ev == [Event("compact", turns) EXCEPT !.upto = c[1], !.collapse = c[2], !.checkpoint = n]
            cp == [seq |-> Covers(events, c[1]), messages |-> Transcript(events, ev)]
        IN  /\ checkpoints' = [m \in DOMAIN checkpoints \cup {n} |-> IF m = n THEN cp ELSE checkpoints[m]]
            /\ job' = [step |-> "save", event |-> ev]
  BY DEF Compact
<1>. DEFINE ev == [Event("compact", turns) EXCEPT !.upto = c[1], !.collapse = c[2], !.checkpoint = n]
<1>3. job'.event = ev  BY <1>2
<1>4. /\ LogOf(events, turns) /\ EffectOf(events) /\ SentOf(events)
      /\ turns \in Nat /\ turns = LatestTurn(events) /\ events \in Seq(LogEvents) /\ DOMAIN events = 1..Len(events)
  BY AtWork, LenProperties DEF Going, Stable, LogOf
<1>5. c \in Cuts(events, prev, depth) /\ turns # 0  BY <1>4, Zenon DEF Compactable
<1>6. turns > 0  BY <1>4, <1>5, SMT
<1>7. c[1] \in Nat /\ c[1] <= Len(events) /\ prev.upto <= c[1] /\ c[2] \in Nat /\ c[2] < LatestTurn(events)
  BY <1>4, <1>5, <1>6, CutsAre
<1>8. n \in Nat /\ compactions \in Nat /\ n > compactions
  <2>1. compactions \in Nat  BY DEF Checkpointed
  <2>. QED  BY <2>1, SMT
<1>9. /\ ev \in LogEvents /\ ev.kind = "compact" /\ ev.turn = turns /\ ev.ref = 0
      /\ ev.upto = c[1] /\ ev.collapse = c[2] /\ ev.checkpoint = n
  <2>. DEFINE u == c[1]
              v == c[2]
  <2>1. ev = [Event("compact", turns) EXCEPT !.upto = u, !.collapse = v, !.checkpoint = n]  OBVIOUS
  <2>2. turns \in Nat /\ u \in Nat /\ v \in Nat /\ n \in Nat  BY <1>4, <1>7, <1>8
  <2>. HIDE DEF n, ev, u, v
  <2>3. /\ ev \in LogEvents /\ ev.kind = "compact" /\ ev.turn = turns /\ ev.ref = 0
        /\ ev.upto = u /\ ev.collapse = v /\ ev.checkpoint = n
    <3>1. NoResult \in Outputs \cup {NoResult} /\ FALSE \in BOOLEAN /\ 0 \in Nat  OBVIOUS
    <3>. QED  BY <2>1, <2>2, <3>1 DEF Event, Blank, LogEvents, EventKinds
  <2>. QED  BY <2>3 DEF u, v
<1>10. /\ checkpoints'[n] = [seq |-> Len(events), messages |-> Transcript(events, ev)]
       /\ \A m \in DOMAIN checkpoints : m # n => checkpoints'[m] = checkpoints[m]
  BY <1>2, Zenon DEF Covers
<1>. HIDE DEF ev, n, prev
<1>11. Frozen(events, job.event)'
  <2>1. ev.upto <= Len(events) /\ ev.collapse < LatestTurn(events)  BY <1>7, <1>9
  <2>. QED  BY <1>1, <1>3, <1>9, <1>10, <2>1, Zenon DEF Frozen
<1>12. EffectOf(events)'
  <2>1. ASSUME NEW p, LastIn(events, p) PROVE checkpoints'[events[p].checkpoint] = checkpoints[events[p].checkpoint]
    <3>1. p \in DOMAIN events /\ events[p].kind = "compact"  BY <1>4, <2>1 DEF LastIn
    <3>2. events[p].checkpoint \in DOMAIN checkpoints /\ events[p].checkpoint <= compactions
      BY <3>1, Zenon DEF Checkpointed, NamedIn, Named
    <3>3. events[p].checkpoint \in Nat  BY <1>4, <3>1, LogType
    <3>4. events[p].checkpoint # n  BY <1>8, <3>2, <3>3, SMT
    <3>. QED  BY <1>10, <3>2, <3>4
  <2>. QED  BY <1>1, <1>4, <2>1, Zenon DEF EffectOf, Frozen
<1>13. SentOf(events)'  BY <1>1, <1>4, Zenon DEF SentOf
<1>14. UnderWay'
  <2>1. sent.checkpoint < n
    <3>1. sent.checkpoint \in Nat /\ sent.checkpoint <= compactions  BY DEF Going
    <3>. QED  BY <1>8, <3>1, SMT
  <2>2. LastCompact(events').upto <= ev.upto  BY <1>1, <1>7, <1>9 DEF prev
  <2>. QED  BY <1>1, <1>3, <1>6, <1>9, <1>11, <2>1, <2>2, Zenon DEF UnderWay
<1>15. Carried'  BY <1>1, Zenon DEF Going, Carried
<1>. QED  BY <1>1, <1>4, <1>12, <1>13, <1>14, <1>15, Zenon DEF Going, Stable

LEMMA SaveGoes == Checkpointed /\ Going /\ SaveRecord => Going'
<1>. SUFFICES ASSUME Checkpointed, Going, SaveRecord PROVE Going'  OBVIOUS
<1>1. /\ events' = events /\ turns' = turns /\ at' = at /\ send' = send /\ repeat' = repeat
      /\ checkpoints' = checkpoints /\ sent' = sent /\ compactions' = job.event.checkpoint /\ job.step = "save"
  BY DEF SaveRecord, request
<1>2. job'.event = job.event  BY DEF SaveRecord, Checkpointed
<1>3. job.event.checkpoint = compactions + 1 /\ compactions \in Nat  BY <1>1 DEF Checkpointed, Taken
<1>4. UnderWay  BY DEF Going
<1>5. UnderWay'
  <2>1. job.step # "none"  BY <1>1
  <2>. QED  BY <1>1, <1>2, <1>4, <2>1, Zenon DEF UnderWay, Frozen
<1>6. sent'.checkpoint <= compactions'
  <2>1. sent.checkpoint \in Nat /\ sent.checkpoint <= compactions  BY DEF Going
  <2>2. sent.checkpoint <= compactions + 1  BY <1>3, <2>1, SMT
  <2>. QED  BY <1>1, <1>3, <2>2
<1>7. Stable(events, turns)'  BY <1>1, Zenon DEF Going, Stable, EffectOf, Frozen, SentOf
<1>8. Carried'  BY <1>1, Zenon DEF Going, Carried
<1>. QED  BY <1>1, <1>5, <1>6, <1>7, <1>8, Zenon DEF Going

LEMMA NoteGoes == Going /\ NoteCompaction => Going'
<1>. SUFFICES ASSUME Going, NoteCompaction PROVE Going'  OBVIOUS
<1>. DEFINE c == job.event
            evs == Stamped(events, c)
<1>1. /\ events' = evs /\ turns' = turns /\ job' = NoJob /\ send' = send /\ repeat' = repeat
      /\ checkpoints' = checkpoints /\ compactions' = compactions /\ sent' = sent
      /\ at' = IF at = "idle" THEN "idle" ELSE "settled"
  BY DEF NoteCompaction, request
<1>2. job'.step = "none"  BY <1>1 DEF NoJob
<1>3. /\ at \in {"idle", "ready", "refused"} /\ turns > 0
      /\ c \in LogEvents /\ c.kind = "compact" /\ c.turn = turns /\ c.ref = 0
      /\ Frozen(events, c) /\ LastCompact(events).upto <= c.upto /\ sent.checkpoint < c.checkpoint
  <2>1. job.step # "none"  BY DEF NoteCompaction
  <2>. QED  BY <2>1 DEF Going, UnderWay
<1>4. events \in Seq(LogEvents) /\ Stable(events, turns) /\ sent.checkpoint \in Nat  BY AtWork DEF Going
<1>. HIDE DEF c
<1>5. OneMore(events, evs, c)  BY <1>3, <1>4, StampedIs
<1>6. Stable(evs, turns)  BY <1>3, <1>4, <1>5, StableNoted
<1>7. evs # <<>>
  <2>1. Len(evs) = Len(events) + 1 /\ Len(events) \in Nat  BY <1>4, <1>5, LenProperties DEF OneMore
  <2>2. Len(evs) # 0  BY <2>1, SMT
  <2>. QED  BY <2>2
<1>. HIDE DEF evs
<1>8. LatestRef(evs) = LatestRef(events)  BY <1>3, <1>4, <1>5, RefsMore
<1>9. ASSUME NEW i \in 1..Len(evs), Unanswered(evs, turns, i), at \in {"ready", "refused"}
      PROVE  i \in send \/ (repeat # 0 /\ evs[i].ref = LatestRef(evs))
  <2>1. i \in 1..Len(events) /\ Unanswered(events, turns, i) /\ evs[i] = events[i]
    BY <1>3, <1>4, <1>5, <1>9, WaitsMore
  <2>2. i \in send \/ (repeat # 0 /\ events[i].ref = LatestRef(events))
    BY <1>9, <2>1, Zenon DEF Going, Carried
  <2>. QED  BY <1>8, <2>1, <2>2
<1>10. Carried'
  <2>1. CASE at = "idle"
    <3>1. at' = "idle"  BY <1>1, <2>1
    <3>. QED  BY <3>1, Zenon DEF Carried
  <2>2. CASE at \in {"ready", "refused"}
    <3>1. at' = "settled"  BY <1>1, <2>2
    <3>. QED  BY <1>1, <1>9, <2>2, <3>1, Zenon DEF Carried
  <2>. QED  BY <1>3, <2>1, <2>2
<1>. QED  BY <1>1, <1>2, <1>6, <1>7, <1>10, Moves

LEMMA CompactingGoes == Checkpointed /\ Going /\ (Compacting \/ RecoverCompact) => Going'
<1>1. ASSUME Checkpointed, Going, CompactAsked PROVE Going'
  <2>1. PICK depth \in {"now", "aggressive"} : Compact(depth)  BY <1>1 DEF CompactAsked
  <2>2. depth \in {"auto", "now", "aggressive"} /\ at \in {"idle", "ready", "refused"}  BY <1>1 DEF CompactAsked
  <2>. QED  BY <1>1, <2>1, <2>2, CompactGoes
<1>2. ASSUME Checkpointed, Going, CompactDue PROVE Going'
  <2>1. Compact("auto") /\ at \in {"idle", "ready", "refused"}  BY <1>2 DEF CompactDue
  <2>. QED  BY <1>2, <2>1, CompactGoes
<1>3. ASSUME Checkpointed, Going, RecoverCompact PROVE Going'
  <2>1. Compact("aggressive") /\ at \in {"idle", "ready", "refused"}  BY <1>3 DEF RecoverCompact
  <2>. QED  BY <1>3, <2>1, CompactGoes
<1>. QED  BY <1>1, <1>2, <1>3, SaveGoes, NoteGoes DEF Compacting

LEMMA RecoveringGoes == Going /\ (Refused \/ RecoverRefit) => Going'
<1>. SUFFICES ASSUME Going, Refused \/ RecoverRefit PROVE Going'  OBVIOUS
<1>1. /\ events' = events /\ turns' = turns /\ at' \in {"refused", "settled"} /\ at \in {"asked", "refused"}
      /\ send' = send /\ repeat' = repeat /\ job' = job
      /\ checkpoints' = checkpoints /\ compactions' = compactions /\ sent' = sent
  BY DEF Refused, RecoverRefit, context
<1>2. job'.step = "none"  BY <1>1, AtWork DEF Refused, RecoverRefit
<1>3. Stable(events, turns) /\ events # <<>>  BY <1>1 DEF Going
<1>4. Carried'  BY <1>1, Zenon DEF Going, Carried
<1>. QED  BY <1>1, <1>2, <1>3, <1>4, Moves

(* The process dies: the log is what it was, or ends with the call it was at. *)
LEMMA CrashGoes == Checkpointed /\ Going /\ Dies => Going'
<1>. SUFFICES ASSUME Checkpointed, Going, Dies PROVE Going'  OBVIOUS
<1>1. events \in Seq(LogEvents) /\ turns \in Nat /\ Stable(events, turns) /\ LogOf(events, turns)  BY AtWork DEF Going
<1>2. /\ turns' = LatestTurn(events) /\ at' = "idle" /\ job' = NoJob /\ compactions' = recorded
      /\ checkpoints' = checkpoints /\ sent' = sent
      /\ events' = events \/ (at = "calls" /\ events' = Stamped(events, Round(NoResult)))
  BY DEF Dies
<1>3. turns' = turns /\ compactions' = compactions  BY <1>1, <1>2 DEF LogOf, Checkpointed
<1>4. job'.step = "none"  BY <1>2 DEF NoJob
<1>5. Carried'  BY <1>2, Zenon DEF Carried
<1>6. Stable(events', turns)
  <2>1. CASE events' = events  BY <1>1, <2>1
  <2>2. CASE at = "calls" /\ events' = Stamped(events, Round(NoResult))
    <3>. DEFINE e == Round(NoResult)
    <3>1. e \in LogEvents /\ e.kind = "round" /\ e.turn = turns /\ e.ref = LatestRef(events) + 1
      BY <1>1, RoundIs
    <3>2. turns > 0  BY <2>2, AtWork
    <3>. HIDE DEF e
    <3>3. Stable(Stamped(events, e), turns)  BY <1>1, <3>1, <3>2, TurnAdds
    <3>. QED  BY <2>2, <3>3 DEF e
  <2>. QED  BY <1>2, <2>1, <2>2
<1>. QED  BY <1>2, <1>3, <1>4, <1>5, <1>6, Moves

LEMMA InitGoes == KInit => Going
<1>. SUFFICES ASSUME KInit PROVE Going  OBVIOUS
<1>1. /\ events = <<>> /\ compactions = 0 /\ turns = 0 /\ at = "idle" /\ job = NoJob
      /\ sent.checkpoint = 0 /\ sent.parts = <<>>
  BY DEF KInit
<1>2. LogOf(events, turns)
  <2>1. Len(events) = 0 /\ events \in Seq(LogEvents) /\ LatestTurn(events) = 0  BY <1>1 DEF LatestTurn
  <2>2. \A i \in 1..0 : FALSE  BY SMT
  <2>. QED  BY <1>1, <2>1, <2>2, Zenon DEF LogOf
<1>3. \A p : ~LastIn(events, p)
  <2>1. 1..Len(events) = {}  BY <1>1
  <2>. QED  BY <2>1 DEF LastIn
<1>4. EffectOf(events)  BY <1>3 DEF EffectOf
<1>5. SentOf(events)
  <2>1. ShortIn(<<>>) = {}
    <3>1. DOMAIN <<>> = {}  OBVIOUS
    <3>. QED  BY <3>1, Zenon DEF ShortIn
  <2>. QED  BY <1>1, <1>3, <2>1, Zenon DEF SentOf
<1>6. UnderWay  BY <1>1 DEF UnderWay, NoJob
<1>7. Carried  BY <1>1 DEF Carried
<1>8. sent.parts \in Seq(Parts) /\ sent.checkpoint \in Nat /\ sent.checkpoint <= compactions  BY <1>1
<1>. QED  BY <1>1, <1>2, <1>4, <1>5, <1>6, <1>7, <1>8, Zenon DEF Going, Stable

LEMMA NextGoes == Checkpointed /\ Going /\ [KNext]_kvars => Going'
<1>. SUFFICES ASSUME Checkpointed, Going, [KNext]_kvars PROVE Going'  OBVIOUS
<1>1. CASE Turning
  <2>1. recorded = compactions  BY DEF Checkpointed
  <2>. QED  BY <1>1, <2>1, StartGoes, AddedGoes, AskGoes, RepliesGo, CallsGo, Zenon DEF Turning
<1>2. CASE Ending  BY <1>2, EndingGoes
<1>3. CASE Compacting  BY <1>3, CompactingGoes
<1>4. CASE Recovering  BY <1>4, CompactingGoes, RecoveringGoes, EndingGoes, Zenon DEF Recovering
<1>5. CASE Dies  BY <1>5, CrashGoes
<1>6. CASE UNCHANGED kvars
  <2>1. /\ events' = events /\ turns' = turns /\ at' = at /\ send' = send /\ repeat' = repeat
        /\ checkpoints' = checkpoints /\ compactions' = compactions /\ job' = job /\ sent' = sent
    BY <1>6 DEF kvars, context, request
  <2>2. Stable(events, turns)'  BY <2>1, Zenon DEF Going, Stable, EffectOf, Frozen, SentOf
  <2>3. UnderWay'  BY <2>1, Zenon DEF Going, UnderWay, Frozen
  <2>4. Carried'  BY <2>1, Zenon DEF Going, Carried
  <2>. QED  BY <2>1, <2>2, <2>3, <2>4, Zenon DEF Going
<1>. QED  BY <1>1, <1>2, <1>3, <1>4, <1>5, <1>6 DEF KNext

(* What the results at hand name, with events of the turns added to the log. *)
LEMMA ReachMore ==
  ASSUME NEW evs \in Seq(LogEvents), ReachOf(evs), NEW e \in LogEvents, e.kind # "compact"
  PROVE  ReachOf(Stamped(evs, e)) /\ Stamped(evs, e) \in Seq(LogEvents)
<1>. DEFINE more == Stamped(evs, e)
<1>1. OneMore(evs, more, e)  BY StampedIs
<1>. HIDE DEF more
<1>2. /\ more \in Seq(LogEvents) /\ Len(more) = Len(evs) + 1
      /\ \A i \in 1..Len(evs) : more[i] = evs[i]
  BY <1>1 DEF OneMore
<1>3. \A p : LastIn(more, p) <=> LastIn(evs, p)  BY <1>1, LastMore
<1>4. /\ Len(evs) \in Nat /\ \A i \in 1..(Len(evs) + 1) : i \in 1..Len(evs) \/ i = Len(evs) + 1
  BY <1>1, MoreIs
<1>5. ASSUME NEW p, LastIn(more, p), NEW i \in 1..Len(more), i < p, more[i].turn <= more[p].collapse
      PROVE  i <= more[p].upto
  <2>1. LastIn(evs, p) /\ p \in 1..Len(evs)  BY <1>3, <1>5 DEF LastIn
  <2>2. i \in 1..Len(evs)
    <3>1. i # Len(evs) + 1  BY <1>4, <1>5, <2>1, SMT
    <3>. QED  BY <1>2, <1>4, <3>1
  <2>. QED  BY <1>2, <1>5, <2>1, <2>2 DEF ReachOf, Reaches
<1>6. ReachOf(more)  BY <1>5 DEF ReachOf, Reaches
<1>. QED  BY <1>2, <1>6 DEF more

LEMMA NameMore ==
  ASSUME NEW evs \in Seq(LogEvents), NEW name, NEW k, NamedBy(evs, name, k),
         NEW e \in LogEvents, e.kind \notin {"compact", "round"}
  PROVE  NamedBy(Stamped(evs, e), name, k)
<1>. DEFINE more == Stamped(evs, e)
<1>1. OneMore(evs, more, e)  BY StampedIs
<1>. HIDE DEF more
<1>2. /\ Len(evs) \in Nat /\ \A i \in 1..(Len(evs) + 1) : i \in 1..Len(evs) \/ i = Len(evs) + 1
      /\ \A i \in 1..Len(evs) : i \in 1..(Len(evs) + 1)
      /\ more[Len(evs) + 1].kind = e.kind
  BY <1>1, MoreIs
<1>3. /\ Len(more) = Len(evs) + 1 /\ \A i \in 1..Len(evs) : more[i] = evs[i] /\ i \in 1..Len(more)
      /\ \A i \in 1..Len(more) : more[i].kind = "round" => i \in 1..Len(evs)
  BY <1>1, <1>2 DEF OneMore
<1>4. LastCompact(more) = LastCompact(evs)  BY <1>1, LastMore
<1>. DEFINE o == LastCompact(evs)
<1>. HIDE DEF o
<1>5. k \in 1..Len(more) /\ HasRun(more[k]) /\ more[k].ref = name /\ more[k] = evs[k] /\ k \in 1..Len(evs)
  BY <1>3 DEF NamedBy
<1>6. \E r \in 1..Len(more) : k < r /\ more[r].kind = "reply"
  BY <1>3, Zenon DEF NamedBy
<1>7. FirstCopy(evs, o.upto, k) => FirstCopy(more, o.upto, k)
  BY <1>3, <1>5, Zenon DEF FirstCopy, HasRun
<1>8. (\A j \in 1..Len(evs) : evs[j].kind = "round" => j < o.seq)
        => \A j \in 1..Len(more) : more[j].kind = "round" => j < o.seq
  BY <1>3, Zenon
<1>9. FirstCopy(evs, o.upto, k) \/ (k <= o.upto /\ \A j \in 1..Len(evs) : evs[j].kind = "round" => j < o.seq)
  BY DEF NamedBy, o
<1>10. FirstCopy(more, o.upto, k) \/ (k <= o.upto /\ \A j \in 1..Len(more) : more[j].kind = "round" => j < o.seq)
  BY <1>7, <1>8, <1>9
<1>. QED  BY <1>4, <1>5, <1>6, <1>10, Zenon DEF NamedBy, o, more

(* The compaction noted: what the results name is whole still, or elided now. *)
LEMMA NameNoted ==
  ASSUME NEW evs \in Seq(LogEvents), NEW name, NEW k, NamedBy(evs, name, k), LastCompact(evs).upto \in Nat,
         NEW c \in LogEvents, c.kind = "compact", LastCompact(evs).upto <= c.upto
  PROVE  NamedBy(Stamped(evs, c), name, k)
<1>. DEFINE more == Stamped(evs, c)
            n == Len(evs)
            l == more[n + 1]
            b == LastCompact(evs).upto
<1>1. OneMore(evs, more, c)  BY StampedIs
<1>. HIDE DEF more
<1>2. /\ n \in Nat /\ \A i \in 1..(n + 1) : i \in 1..n \/ i = n + 1
      /\ \A i \in 1..n : i \in 1..(n + 1) /\ i < n + 1
      /\ l.kind = c.kind /\ l.upto = c.upto /\ l.seq = n + 1
  BY <1>1, MoreIs
<1>3. /\ more \in Seq(LogEvents) /\ Len(more) = n + 1 /\ \A i \in 1..n : more[i] = evs[i]
      /\ \A i \in 1..Len(more) : more[i].kind = "round" => i \in 1..n
  BY <1>1, <1>2 DEF OneMore
<1>4. LastCompact(more) = l
  <2>1. LastIn(more, n + 1)  BY <1>1, LastMore
  <2>. QED  BY <1>3, <2>1, LastCompactIs
<1>. HIDE DEF n, l
<1>5. k \in 1..Len(more) /\ HasRun(more[k]) /\ more[k].ref = name /\ more[k] = evs[k] /\ k \in 1..n
  BY <1>2, <1>3 DEF NamedBy, n
<1>6. \E r \in 1..Len(more) : k < r /\ more[r].kind = "reply"
  <2>1. PICK r \in 1..n : k < r /\ evs[r].kind = "reply"  BY DEF NamedBy, n
  <2>. QED  BY <1>2, <1>3, <2>1
<1>7. \A j \in 1..Len(more) : more[j].kind = "round" => j < l.seq  BY <1>2, <1>3
<1>8. b \in Nat /\ b <= l.upto /\ l.upto \in Nat  BY <1>2 DEF LogEvents
<1>9. \A j \in 1..n : j <= b => j <= l.upto  
  <2>. HIDE DEF b
  <2>. QED  BY <1>2, <1>8, SMT
<1>10. CASE k <= l.upto
  <2>1. k <= LastCompact(more).upto  BY <1>4, <1>10
  <2>2. \A j \in 1..Len(more) : more[j].kind = "round" => j < LastCompact(more).seq  BY <1>4, <1>7, Zenon
  <2>. QED  BY <1>5, <1>6, <2>1, <2>2, Zenon DEF NamedBy, more
<1>11. CASE ~(k <= l.upto)
  <2>1. FirstCopy(evs, b, k)  BY <1>5, <1>9, <1>11 DEF NamedBy
  <2>2. FirstCopy(more, l.upto, k)
    <3>1. ASSUME NEW j \in 1..Len(more), j < k, HasRun(more[j]), more[j].out = more[k].out PROVE j <= l.upto
      <4>1. j \in 1..n  BY <1>3, <3>1 DEF HasRun
      <4>2. HasRun(evs[j]) /\ evs[j].out = evs[k].out  BY <1>3, <1>5, <3>1, <4>1
      <4>3. j <= b  BY <2>1, <3>1, <4>1, <4>2 DEF FirstCopy, n
      <4>. QED  BY <1>9, <4>1, <4>3
    <3>. QED  BY <1>11, <3>1 DEF FirstCopy
  <2>3. FirstCopy(more, LastCompact(more).upto, k)  BY <1>4, <2>2
  <2>. QED  BY <1>5, <1>6, <2>3, Zenon DEF NamedBy, more
<1>. QED  BY <1>10, <1>11 DEF more

(* A repeat is named by its earliest whole copy, before the last reply. *)
LEMMA NameNew ==
  ASSUME NEW evs, NEW t, LogOf(evs, t), NEW n, n + 1 = Len(evs), n \in Nat, n # 0, evs[n].kind = "reply",
         LastCompact(evs).upto \in Nat,
         NEW out, FirstVerbatim(evs, out) # 0, FirstVerbatim(evs, out) < LatestRef(evs),
         evs[n + 1].ref = LatestRef(evs)
  PROVE  \E k : NamedBy(evs, FirstVerbatim(evs, out), k)
<1>. DEFINE D == {j \in DOMAIN evs : /\ HasRun(evs[j]) /\ evs[j].out = out
                                     /\ evs[j].seq > LastCompact(evs).upto}
            refs == {evs[i].ref : i \in D}
            f == FirstVerbatim(evs, out)
            b == LastCompact(evs).upto
<1>1. /\ evs \in Seq(LogEvents) /\ DOMAIN evs = 1..Len(evs) /\ \A i \in 1..Len(evs) : evs[i].ref \in Nat
      /\ \A i \in 1..Len(evs) : evs[i].seq = i
      /\ \A i, j \in 1..Len(evs) : i < j /\ evs[j].kind = "round" => evs[i].ref < evs[j].ref
  <2>1. evs \in Seq(LogEvents)  BY DEF LogOf
  <2>. QED  BY <2>1, LogType DEF LogOf
<1>2. f = First(refs) /\ refs # {}
  <2>1. f = IF out \notin Hashed \/ refs = {} THEN 0 ELSE First(refs)  BY Zenon DEF FirstVerbatim
  <2>2. f # 0  OBVIOUS
  <2>. HIDE DEF refs, f
  <2>. QED  BY <2>1, <2>2
<1>3. refs \in SUBSET Nat
  BY <1>1
<1>4. f \in refs /\ \A s \in refs : f <= s
  <2>. HIDE DEF refs, f
  <2>. QED  BY <1>2, <1>3, FirstIs
<1>5. PICK k \in D : f = evs[k].ref  BY <1>4
<1>6. k \in 1..Len(evs) /\ HasRun(evs[k]) /\ evs[k].out = out /\ k > b /\ evs[k].kind = "round"
  BY <1>1, <1>5 DEF HasRun
<1>. HIDE DEF f, b
<1>7. ~(k <= b) /\ b \in Nat
  <2>1. b \in Nat  BY DEF b
  <2>2. k \in Nat  BY <1>6, SMT
  <2>. QED  BY <1>6, <2>1, <2>2, SMT
<1>8. ASSUME NEW j \in 1..Len(evs), j < k, HasRun(evs[j]), evs[j].out = evs[k].out PROVE j <= b
  <2>. SUFFICES ASSUME ~(j <= b) PROVE FALSE  OBVIOUS
  <2>1. j > b  BY <1>7, SMT
  <2>2. evs[j].ref \in refs  BY <1>1, <1>6, <1>8, <2>1 DEF b
  <2>3. evs[k].ref <= evs[j].ref  BY <1>4, <1>5, <2>2
  <2>4. evs[j].ref < evs[k].ref  BY <1>1, <1>6, <1>8
  <2>5. evs[j].ref \in Nat /\ evs[k].ref \in Nat  BY <1>1, <1>6
  <2>. QED  BY <2>3, <2>4, <2>5, SMT
<1>9. FirstCopy(evs, b, k)  BY <1>7, <1>8 DEF FirstCopy
<1>10. k < n /\ n \in 1..Len(evs)
  <2>1. k # n + 1
    <3>1. evs[k].ref # evs[n + 1].ref
      <4>1. evs[k].ref \in Nat /\ f < evs[n + 1].ref  BY <1>1, <1>6 DEF f
      <4>2. f # evs[n + 1].ref  BY <1>5, <4>1, SMT
      <4>. QED  BY <1>5, <4>2
    <3>. QED  BY <3>1
  <2>2. k # n
    <3>1. "reply" # "round"  OBVIOUS
    <3>. QED  BY <1>6, <3>1
  <2>. QED  BY <1>6, <2>1, <2>2, SMT
<1>. QED  BY <1>5, <1>6, <1>9, <1>10, Zenon DEF NamedBy, f, b

(* What is named when the round's results are put together. *)
LEMMA CallsName == Going /\ Naming /\ RunCalls => Naming'
<1>. SUFFICES ASSUME Going, Naming, RunCalls PROVE Naming'  OBVIOUS
<1>1. /\ events \in Seq(LogEvents) /\ turns \in Nat /\ Stable(events, turns) /\ Len(events) \in Nat
      /\ LogOf(events, turns) /\ EffectOf(events)
  BY AtWork DEF Going, Stable
<1>2. at = "calls" /\ job' = job  BY DEF RunCalls, context
<1>3. turns > 0 /\ job'.step = "none" /\ events[Len(events)].kind = "reply" /\ Len(events) > 0  BY <1>2, AtWork
<1>4. PICK out \in Outputs : LET evs == Stamped(events, Round(out))
                                 first == FirstVerbatim(evs, out)
                                 dup == first # 0 /\ first < LatestRef(evs)
                             IN  /\ events' = evs
                                 /\ repeat' = IF dup THEN first ELSE 0
  BY DEF RunCalls
<1>. DEFINE e == Round(out)
            evs == Stamped(events, e)
            first == FirstVerbatim(evs, out)
<1>5. e \in LogEvents /\ e.kind = "round" /\ e.turn = turns /\ e.ref = LatestRef(events) + 1  BY <1>1, RoundIs
<1>6. e.kind # "compact"
  <2>1. "round" # "compact"  OBVIOUS
  <2>. QED  BY <1>5, <2>1
<1>7. events' = evs /\ (repeat' # 0 => repeat' = first /\ first # 0 /\ first < LatestRef(evs))
  BY <1>4, Zenon
<1>. HIDE DEF e
<1>8. /\ Stable(evs, turns) /\ OneMore(events, evs, e)  BY <1>1, <1>3, <1>5, <1>6, TurnAdds
<1>9. ReachOf(evs)  BY <1>1, <1>5, <1>6, ReachMore DEF Naming
<1>. HIDE DEF evs
<1>10. LatestRef(evs) = e.ref  BY <1>1, <1>5, <1>8, RefsMore
<1>11. /\ Len(evs) = Len(events) + 1 /\ evs[Len(events) + 1].ref = e.ref
       /\ evs[Len(events)].kind = "reply" /\ Len(events) # 0
  <2>1. Len(events) # 0 /\ Len(events) \in 1..Len(events)  BY <1>1, <1>3, SMT
  <2>2. evs[Len(events) + 1].ref = e.ref  BY <1>1, <1>5, <1>8, MoreIs
  <2>. QED  BY <1>3, <1>8, <2>1, <2>2 DEF OneMore
<1>12. LastCompact(evs).upto \in Nat
  <2>1. LastCompact(evs) = LastCompact(events)  BY <1>1, <1>5, <1>6, <1>8, LastMore
  <2>2. LastCompact(events).upto \in Nat  BY <1>1, <1>3, PrevIs
  <2>. QED  BY <2>1, <2>2
<1>13. LogOf(evs, turns)  BY <1>8 DEF Stable
<1>14. repeat' # 0 => \E k : NamedBy(evs, repeat', k)
  <2>. SUFFICES ASSUME repeat' # 0 PROVE \E k : NamedBy(evs, repeat', k)  OBVIOUS
  <2>1. repeat' = first /\ first # 0 /\ first < LatestRef(evs)  BY <1>7
  <2>2. \E k : NamedBy(evs, FirstVerbatim(evs, out), k)  BY <1>1, <1>10, <1>11, <1>12, <1>13, <2>1, NameNew
  <2>. QED  BY <2>1, <2>2
<1>. QED  BY <1>3, <1>7, <1>9, <1>14, Zenon DEF Naming

(* The turn's other events name nothing anew. *)
LEMMA TurnsName ==
  ASSUME Going, Naming,
         StartTurn \/ TakeAdded \/ Ask \/ Calls \/ FinalAnswer \/ Nudge \/ AskAgain \/ Refused \/ RecoverRefit
  PROVE  Naming'
<1>1. /\ events \in Seq(LogEvents) /\ turns \in Nat /\ ReachOf(events)
      /\ (at \in {"settled", "asked", "calls"} \/ Quiet => job.step = "none")
  BY AtWork DEF Naming
<1>. DEFINE reply == Event("reply", turns)
<1>2. reply \in LogEvents /\ reply.kind = "reply"  BY <1>1, EventIs DEF EventKinds
<1>3. reply.kind # "compact"
  <2>1. "reply" # "compact"  OBVIOUS
  <2>. QED  BY <1>2, <2>1
<1>. HIDE DEF reply
<1>4. ReachOf(Stamped(events, reply)) /\ Stamped(events, reply) \in Seq(LogEvents)  BY <1>1, <1>2, <1>3, ReachMore
<1>5. CASE StartTurn
  <2>. DEFINE e == Event("user", turns + 1)
  <2>1. /\ events' = Stamped(events, e) /\ repeat' = 0 /\ job' = job /\ job.step = "none"
    BY <1>1, <1>5 DEF StartTurn, context
  <2>2. e \in LogEvents /\ e.kind = "user"
    <3>1. turns + 1 \in Nat  BY <1>1
    <3>. QED  BY <3>1, EventIs DEF EventKinds
  <2>3. e.kind # "compact"
    <3>1. "user" # "compact"  OBVIOUS
    <3>. QED  BY <2>2, <3>1
  <2>. HIDE DEF e
  <2>4. ReachOf(Stamped(events, e))  BY <1>1, <2>2, <2>3, ReachMore
  <2>. QED  BY <2>1, <2>4, Zenon DEF Naming
<1>6. CASE TakeAdded
  <2>. DEFINE e == Event("added", turns)
  <2>1. /\ events' = Stamped(events, e) /\ repeat' = repeat /\ job' = job /\ job.step = "none" /\ at = "ready"
    BY <1>1, <1>6 DEF TakeAdded, context
  <2>2. e \in LogEvents /\ e.kind = "added"  BY <1>1, EventIs DEF EventKinds
  <2>3. e.kind # "compact" /\ e.kind \notin {"compact", "round"}
    <3>1. "added" # "compact" /\ "added" # "round"  OBVIOUS
    <3>. QED  BY <2>2, <3>1
  <2>. HIDE DEF e
  <2>4. ReachOf(Stamped(events, e))  BY <1>1, <2>2, <2>3, ReachMore
  <2>5. repeat # 0 => \E k : NamedBy(Stamped(events, e), repeat, k)
    <3>. SUFFICES ASSUME repeat # 0 PROVE \E k : NamedBy(Stamped(events, e), repeat, k)  OBVIOUS
    <3>1. PICK k : NamedBy(events, repeat, k)  BY <2>1 DEF Naming
    <3>2. NamedBy(Stamped(events, e), repeat, k)  BY <1>1, <2>2, <2>3, <3>1, NameMore
    <3>. QED  BY <3>2
  <2>. QED  BY <2>1, <2>4, <2>5, Zenon DEF Naming
<1>7. CASE Ask \/ AskAgain \/ Refused \/ RecoverRefit
  <2>1. events' = events /\ repeat' = repeat  BY <1>7 DEF Ask, AskAgain, Refused, RecoverRefit, Replies, request, context
  <2>2. job' = job  BY <1>7 DEF Ask, AskAgain, Refused, RecoverRefit, Replies, request, context
  <2>3. at \in {"ready", "settled", "asked", "refused"}
    BY <1>7 DEF Ask, AskAgain, Refused, RecoverRefit, Replies
  <2>. QED  BY <1>1, <2>1, <2>2, <2>3, Zenon DEF Naming
<1>8. CASE Calls \/ Nudge
  <2>1. /\ events' = Stamped(events, reply) /\ job' = job /\ at = "asked"
        /\ at' = "calls" \/ repeat' = 0
    BY <1>8 DEF Calls, Nudge, Replies, reply
  <2>2. job.step = "none"  BY <1>1, <2>1
  <2>3. at' = "calls" => at' \notin {"ready", "settled", "asked", "refused"}  OBVIOUS
  <2>. QED  BY <1>4, <2>1, <2>2, <2>3, Zenon DEF Naming
<1>9. CASE FinalAnswer
  <2>1. PICK ok \in BOOLEAN : events' = Stamped(Stamped(events, reply), StoppedAnswer(ok))
    BY <1>9 DEF FinalAnswer, StoppedAnswer, reply
  <2>2. at' = "idle" /\ job' = job /\ job.step = "none"  BY <1>1, <1>9 DEF FinalAnswer, Replies
  <2>. DEFINE e == StoppedAnswer(ok)
  <2>3. e \in LogEvents /\ e.kind = "answer"  BY <1>1, AnswerIs
  <2>4. e.kind # "compact"
    <3>1. "answer" # "compact"  OBVIOUS
    <3>. QED  BY <2>3, <3>1
  <2>. HIDE DEF e
  <2>5. ReachOf(Stamped(Stamped(events, reply), e))  BY <1>4, <2>3, <2>4, ReachMore
  <2>6. events' = Stamped(Stamped(events, reply), e)  BY <2>1 DEF e
  <2>7. at' \notin {"ready", "settled", "asked", "refused"}  BY <2>2
  <2>. QED  BY <2>2, <2>5, <2>6, <2>7, Zenon DEF Naming
<1>. QED  BY <1>5, <1>6, <1>7, <1>8, <1>9

(* Nothing is named once the turn is over. *)
LEMMA OverNames ==
  ASSUME Going, Naming, Ending \/ GiveUp \/ Dies
  PROVE  Naming'
<1>1. /\ events \in Seq(LogEvents) /\ turns \in Nat /\ ReachOf(events)
      /\ (at \in {"settled", "asked", "calls"} \/ Quiet => job.step = "none")
  BY AtWork DEF Naming
<1>2. at' = "idle" /\ job'.step = "none"
  <2>1. CASE Dies  BY <2>1 DEF Dies, NoJob
  <2>2. CASE Ending \/ GiveUp
    <3>1. at' = "idle" /\ job' = job  BY <2>2 DEF Ending, GiveUp, QuitTurn, Capped, Blocked, Interrupted, Ends, context
    <3>2. job.step = "none"  BY <1>1, <2>2 DEF Ending, GiveUp, QuitTurn, Capped, Blocked, Interrupted
    <3>. QED  BY <3>1, <3>2
  <2>. QED  BY <2>1, <2>2
<1>3. ASSUME NEW evs \in Seq(LogEvents), ReachOf(evs), NEW ok \in BOOLEAN
      PROVE  ReachOf(Stamped(evs, StoppedAnswer(ok)))
  <2>. DEFINE e == StoppedAnswer(ok)
  <2>1. e \in LogEvents /\ e.kind = "answer"  BY <1>1, AnswerIs
  <2>2. e.kind # "compact"
    <3>1. "answer" # "compact"  OBVIOUS
    <3>. QED  BY <2>1, <3>1
  <2>. HIDE DEF e
  <2>3. ReachOf(Stamped(evs, e))  BY <1>3, <2>1, <2>2, ReachMore
  <2>. QED  BY <2>3 DEF e
<1>4. ASSUME NEW out \in Outputs \cup {NoResult}
      PROVE  ReachOf(Stamped(events, Round(out))) /\ Stamped(events, Round(out)) \in Seq(LogEvents)
  <2>. DEFINE e == Round(out)
  <2>1. e \in LogEvents /\ e.kind = "round"  BY <1>1, RoundIs
  <2>2. e.kind # "compact"
    <3>1. "round" # "compact"  OBVIOUS
    <3>. QED  BY <2>1, <3>1
  <2>. HIDE DEF e
  <2>3. ReachOf(Stamped(events, e)) /\ Stamped(events, e) \in Seq(LogEvents)  BY <1>1, <2>1, <2>2, ReachMore
  <2>. QED  BY <2>3 DEF e
<1>5. ReachOf(events')
  <2>1. CASE QuitTurn
    <3>1. PICK out \in Short : events' = Stamped(Stamped(events, Round(out)), StoppedAnswer(TRUE))
      BY <2>1 DEF QuitTurn, Ends
    <3>2. out \in Outputs \cup {NoResult} /\ TRUE \in BOOLEAN  BY DEF Outputs
    <3>. QED  BY <1>3, <1>4, <3>1, <3>2
  <2>2. CASE Capped \/ Blocked \/ GiveUp
    <3>1. events' = Stamped(events, StoppedAnswer(TRUE)) \/ events' = Stamped(events, StoppedAnswer(FALSE))
      BY <2>2 DEF Capped, Blocked, GiveUp, Ends
    <3>2. TRUE \in BOOLEAN /\ FALSE \in BOOLEAN  OBVIOUS
    <3>. QED  BY <1>1, <1>3, <3>1, <3>2
  <2>3. CASE Interrupted  BY <1>1, <2>3 DEF Interrupted, Ends
  <2>4. CASE Dies
    <3>1. events' = events \/ events' = Stamped(events, Round(NoResult))
      <4>1. events' \in {events} \cup IF at = "calls" THEN {Stamped(events, Round(NoResult))} ELSE {}
        BY <2>4 DEF Dies
      <4>. QED  BY <4>1, Zenon
    <3>2. NoResult \in Outputs \cup {NoResult}  OBVIOUS
    <3>. QED  BY <1>1, <1>4, <3>1, <3>2
  <2>. QED  BY <2>1, <2>2, <2>3, <2>4 DEF Ending
<1>6. at' \notin {"ready", "settled", "asked", "refused"}  BY <1>2
<1>. QED  BY <1>2, <1>5, <1>6, Zenon DEF Naming

(* What a compaction may collapse it elides; what is named stays named. *)
LEMMA CompactNames ==
  ASSUME Checkpointed, Going, Naming, NEW depth \in {"auto", "now", "aggressive"}, Compact(depth)
  PROVE  Naming'
<1>. DEFINE n == compactions + 1
            prev == LastCompact(events)
<1>1. events' = events /\ at' = at /\ repeat' = repeat  BY DEF Compact, request
<1>2. PICK c \in Compactable(depth) :
        job' = [step |-> "save",
                event |-> [Event("compact", turns) EXCEPT !.upto = c[1], !.collapse = c[2], !.checkpoint = n]]
  BY Zenon DEF Compact
<1>3. job'.event.upto = c[1] /\ job'.event.collapse = c[2]  BY <1>2 DEF Event, Blank
<1>4. /\ LogOf(events, turns) /\ EffectOf(events) /\ InLog /\ InEffect
      /\ turns \in Nat /\ turns = LatestTurn(events) /\ events \in Seq(LogEvents) /\ Len(events) \in Nat
  BY AtWork, GoingWell DEF Going, Stable, LogOf
<1>5. c \in Cuts(events, prev, depth) /\ turns # 0  BY <1>4, Zenon DEF Compactable
<1>6. turns > 0  BY <1>4, <1>5, SMT
<1>7. c[1] \in Nat /\ c[1] <= Len(events) /\ prev.upto <= c[1]  BY <1>4, <1>5, <1>6, CutsAre
<1>8. c[1] = Len(events) \/ c[2] = prev.collapse
  <2>. DEFINE m == Len(events)
              u == AutoUpto(events, prev)
  <2>1. c \in {<<u, prev.collapse>>} \/ c[1] = m
    <3>. DEFINE all == {<<m, d>> : d \in {prev.collapse} \cup (prev.collapse..OldestKept(events))}
    <3>1. c \in {<<u, prev.collapse>>} \/ c \in all \/ c \in {<<m, Larger(prev.collapse, OldestKept(events))>>}
      BY <1>5 DEF Cuts
    <3>. QED  BY <3>1
  <2>. HIDE DEF u, prev
  <2>. QED  BY <2>1 DEF m
<1>9. ASSUME NEW i \in 1..Len(events), events[i].turn <= c[2] PROVE i <= c[1]
  <2>1. CASE c[1] = Len(events)
    <3>1. i <= Len(events)  BY <1>4, <1>9, SMT
    <3>. QED  BY <2>1, <3>1
  <2>2. CASE c[2] = prev.collapse /\ \E p : LastIn(events, p)
    <3>1. PICK p : LastIn(events, p)  BY <2>2
    <3>2. prev = events[p] /\ CutAt(events, p)  BY <1>4, <3>1, NowReads
    <3>3. p \in 1..Len(events) /\ i < p - 1  BY <1>4, <1>9, <2>2, <3>2, CutIs
    <3>4. i < p  BY <1>4, <3>3, SMT
    <3>5. i <= prev.upto  BY <1>9, <2>2, <3>1, <3>2, <3>4 DEF Naming, ReachOf, Reaches
    <3>6. prev.upto \in Nat  BY <1>4, <1>6, PrevIs
    <3>. HIDE DEF prev
    <3>. QED  BY <1>7, <3>5, <3>6, SMT
  <2>3. CASE c[2] = prev.collapse /\ ~\E p : LastIn(events, p)
    <3>1. prev = Blank  BY <1>4, <2>3, LastCompactIs
    <3>2. c[2] = 0
      <4>1. Blank.collapse = 0  BY DEF Blank
      <4>. QED  BY <2>3, <3>1, <4>1
    <3>3. events[i].turn > 0 /\ events[i].turn \in Nat  BY <1>4, <1>9, LogType DEF LogOf
    <3>. QED  BY <1>9, <3>2, <3>3, SMT
  <2>. QED  BY <1>8, <2>1, <2>2, <2>3
<1>10. Reaches(events, job'.event, Len(events) + 1)
  BY <1>3, <1>9 DEF Reaches
<1>. QED  BY <1>1, <1>10, Zenon DEF Naming

(* The compaction's record; its event, which the results may now name past. *)
LEMMA JobNames ==
  ASSUME Checkpointed, Going, Naming, SaveRecord \/ NoteCompaction
  PROVE  Naming'
<1>1. CASE SaveRecord
  <2>1. events' = events /\ at' = at /\ repeat' = repeat /\ job.step = "save"  BY <1>1 DEF SaveRecord, request
  <2>2. job'.event = job.event  BY <1>1 DEF SaveRecord, Checkpointed
  <2>3. job.step # "none"  BY <2>1
  <2>. QED  BY <2>1, <2>2, <2>3, Zenon DEF Naming
<1>2. CASE NoteCompaction
  <2>. DEFINE c == job.event
              evs == Stamped(events, c)
              m == Len(events)
  <2>1. /\ events' = evs /\ job' = NoJob /\ repeat' = repeat /\ job.step # "none"
        /\ at' = IF at = "idle" THEN "idle" ELSE "settled"
    BY <1>2 DEF NoteCompaction, request
  <2>2. job'.step = "none"  BY <2>1 DEF NoJob
  <2>3. /\ at \in {"idle", "ready", "refused"} /\ turns > 0
        /\ c \in LogEvents /\ c.kind = "compact" /\ LastCompact(events).upto <= c.upto
        /\ Reaches(events, c, m + 1)
    BY <2>1, Zenon DEF Going, UnderWay, Naming
  <2>4. events \in Seq(LogEvents) /\ LogOf(events, turns) /\ EffectOf(events)  BY AtWork DEF Going, Stable
  <2>. HIDE DEF c
  <2>5. OneMore(events, evs, c)  BY <2>3, <2>4, StampedIs
  <2>. HIDE DEF evs
  <2>6. /\ m \in Nat /\ \A i \in 1..(m + 1) : i \in 1..m \/ i = m + 1
        /\ evs[m + 1].turn = c.turn /\ evs[m + 1].collapse = c.collapse /\ evs[m + 1].upto = c.upto
    BY <2>3, <2>4, <2>5, MoreIs
  <2>7. Len(evs) = m + 1 /\ \A i \in 1..m : evs[i] = events[i]  BY <2>5 DEF OneMore
  <2>8. ReachOf(evs)
    <3>1. ASSUME NEW p, LastIn(evs, p), NEW i \in 1..Len(evs), i < p, evs[i].turn <= evs[p].collapse
          PROVE  i <= evs[p].upto
      <4>1. p = m + 1  BY <2>3, <2>4, <2>5, <3>1, LastMore
      <4>2. i \in 1..m
        <5>1. i # m + 1  BY <2>6, <3>1, <4>1, SMT
        <5>. QED  BY <2>6, <2>7, <3>1, <5>1
      <4>3. i < m + 1 /\ events[i].turn <= c.collapse  BY <2>6, <2>7, <3>1, <4>1, <4>2
      <4>4. i <= c.upto  BY <2>3, <4>2, <4>3 DEF Reaches
      <4>. QED  BY <2>6, <4>1, <4>4
    <3>. QED  BY <3>1 DEF ReachOf, Reaches
  <2>9. at # "idle" /\ repeat # 0 => \E k : NamedBy(evs, repeat, k)
    <3>. SUFFICES ASSUME at # "idle", repeat # 0 PROVE \E k : NamedBy(evs, repeat, k)  OBVIOUS
    <3>1. at \in {"ready", "settled", "asked", "refused"}  BY <2>3
    <3>2. PICK k : NamedBy(events, repeat, k)  BY <3>1 DEF Naming
    <3>3. LastCompact(events).upto \in Nat  BY <2>3, <2>4, PrevIs
    <3>4. NamedBy(Stamped(events, c), repeat, k)  BY <2>3, <2>4, <3>2, <3>3, NameNoted
    <3>. QED  BY <3>4 DEF evs
  <2>10. at = "idle" => at' \notin {"ready", "settled", "asked", "refused"}  BY <2>1
  <2>. QED  BY <2>1, <2>2, <2>8, <2>9, <2>10, Zenon DEF Naming
<1>. QED  BY <1>1, <1>2

LEMMA InitNames == KInit => Naming
<1>. SUFFICES ASSUME KInit PROVE Naming  OBVIOUS
<1>1. events = <<>> /\ at = "idle" /\ job = NoJob  BY DEF KInit
<1>2. \A p : ~LastIn(events, p)
  <2>1. 1..Len(events) = {}  BY <1>1
  <2>. QED  BY <2>1 DEF LastIn
<1>3. job.step = "none" /\ at \notin {"ready", "settled", "asked", "refused"}  BY <1>1 DEF NoJob
<1>. QED  BY <1>2, <1>3, Zenon DEF Naming, ReachOf

LEMMA NextNames == Checkpointed /\ Going /\ Naming /\ [KNext]_kvars => Naming'
<1>. SUFFICES ASSUME Checkpointed, Going, Naming, [KNext]_kvars PROVE Naming'  OBVIOUS
<1>1. CASE Turning  BY <1>1, CallsName, TurnsName, Zenon DEF Turning
<1>2. CASE Ending \/ GiveUp \/ Dies  BY <1>2, OverNames
<1>3. CASE CompactAsked \/ CompactDue \/ RecoverCompact
  <2>1. PICK depth \in {"auto", "now", "aggressive"} : Compact(depth)
    BY <1>3 DEF CompactAsked, CompactDue, RecoverCompact
  <2>. QED  BY <2>1, CompactNames
<1>4. CASE SaveRecord \/ NoteCompaction  BY <1>4, JobNames
<1>5. CASE Refused \/ RecoverRefit  BY <1>5, TurnsName
<1>6. CASE UNCHANGED kvars
  <2>1. events' = events /\ at' = at /\ job' = job /\ repeat' = repeat  BY <1>6 DEF kvars, context, request
  <2>. QED  BY <2>1, Zenon DEF Naming
<1>. QED  BY <1>1, <1>2, <1>3, <1>4, <1>5, <1>6, Zenon DEF KNext, Compacting, Recovering

(* With Checkpointed, every step of the session keeps it. *)
LEMMA AlwaysGoing == KSpec => [](Checkpointed /\ Going)
BY InitCheckpointed, NextCheckpointed, InitGoes, NextGoes, PTL DEF KSpec

(* Nothing of the log is missing from what Hermes reads of it, from a checkpoint
   or rendered again (ReadWhole). *)
THEOREM ReadsStayWhole == KSpec => []ReadWhole
<1>1. Going => ReadWhole  BY GoingWell, GoingWhole
<1>. QED  BY <1>1, AlwaysGoing, PTL

LEMMA AlwaysNaming == KSpec => [](Going /\ Naming)
BY InitCheckpointed, NextCheckpointed, InitGoes, NextGoes, InitNames, NextNames, PTL DEF KSpec

LEMMA NamingResolves == Going /\ Naming => ReferencesResolve
<1>. SUFFICES ASSUME Going, Naming, Owned PROVE ReferencesResolve  BY DEF ReferencesResolve
<1>1. InLog /\ InEffect  BY GoingWell
<1>2. \A x \in DOMAIN Current : Current[x].form = "same" => Gives(Current, x - 1, Current[x].of)
  BY <1>1, GoingResolves
<1>3. ASSUME at = "asked", repeat # 0
      PROVE  Gives(History, Len(History), repeat) \/ ElidedSince(repeat)
  <2>1. PICK p : LastIn(events, p) /\ p \in 1..Len(events) /\ LastCompact(events) = events[p]  BY <1>1, OwnedAt
  <2>2. PICK k : NamedBy(events, repeat, k)  BY <1>3 DEF Naming
  <2>3. CASE FirstCopy(events, events[p].upto, k)
    <3>1. ReachOf(events)  BY DEF Naming
    <3>2. Gives(History, Len(History), repeat)  BY <1>1, <2>1, <2>2, <2>3, <3>1, NameFound
    <3>. QED  BY <3>2
  <2>4. CASE /\ k <= events[p].upto
             /\ \A j \in 1..Len(events) : events[j].kind = "round" => j < events[p].seq
    <3>1. events \in Seq(LogEvents) /\ LogOf(events, turns)  BY AtWork
    <3>2. DOMAIN events = 1..Len(events)  BY <3>1, LogType
    <3>3. k \in 1..Len(events) /\ events[k].ref = repeat  BY <2>2 DEF NamedBy
    <3>4. events[k].seq = k  BY <3>1, <3>3 DEF LogOf
    <3>. QED  BY <2>1, <2>4, <3>2, <3>3, <3>4, Zenon DEF ElidedSince
  <2>. QED  BY <2>1, <2>2, <2>3, <2>4 DEF NamedBy
<1>. QED  BY <1>2, <1>3, Zenon DEF ReferencesResolve

(* A result sent as the same as an earlier one has that one before it, whole: in
   the conversation Hermes reads, and from the results a request carries into
   the history sent with it, but for what the request's own compaction elides
   after they were put together (ReferencesResolve).                        *)
THEOREM ReferencesAlwaysResolve == KSpec => []ReferencesResolve
BY NamingResolves, AlwaysNaming, PTL

(* The request put together has everything up to Hermes' last reply and of the
   turn at work, or names it as sent before (RequestUpToDate).              *)
THEOREM RequestsAreUpToDate == KSpec => []RequestUpToDate
<1>1. Going => RequestUpToDate  BY GoingWell, GoingUpToDate
<1>. QED  BY <1>1, AlwaysGoing, PTL

(* What was sent stays as it was, up to the next compaction, and what a
   compaction cut short is never sent whole again (SentStands).             *)
THEOREM WhatWasSentStands == KSpec => []SentStands
<1>1. Going => SentStands  BY GoingWell, GoingStands
<1>. QED  BY <1>1, AlwaysGoing, PTL
=============================================================================
