---------------------------- MODULE GitSyncProofs ----------------------------
(***************************************************************************)
(* Proofs about GitSync: its inductive invariant, that a sync that ends in *)
(* success has its commit in force, and that syncs that do not overlap     *)
(* never take a server back to an earlier configuration.                   *)
(***************************************************************************)
EXTENDS GitSync, TLAPS

(* Two tests that every stage of p passes when its own fields are as they  *)
(* were, the clone is no older and nothing is taken out of force.          *)
LEMMA ReadyKept ==
    ASSUME SyncAssumption, TypeOK, TypeOK', NEW q \in Syncer, Ready(q),
           pc'[q] = pc[q],
           job'[q].ok = job[q].ok,
           job'[q].commit = job[q].commit,
           job'[q].file = job[q].file,
           head[ServerOf[q]] <= head'[ServerOf[q]],
           reach'[ServerOf[q]] = reach[ServerOf[q]],
           reloaded[ServerOf[q]] \subseteq reloaded'[ServerOf[q]]
    PROVE  Ready(q)'
<1> DEFINE s == ServerOf[q]
<1>1. s \in Server
  BY DEF SyncAssumption
<1>2. head[s] \in Nat /\ head'[s] \in Nat
  BY <1>1 DEF TypeOK, Commit
<1>3. job[q].commit \in Nat /\ job[q].file \in Nat
  BY DEF TypeOK, Job, Commit
<1>4. pc'[q] \in {"decide", "read", "list", "apply", "reload", "record"} =>
        job'[q].commit \in Commit /\ job'[q].commit <= head'[s] /\ ~job'[q].ok
  BY <1>2, <1>3 DEF Ready
<1>5. /\ pc'[q] \in {"idle", "pull"} => ~job'[q].ok
      /\ pc'[q] \in {"list", "apply", "reload", "record"} =>
            /\ job'[q].file \in Commit /\ Config[job'[q].file].valid
            /\ job'[q].commit <= job'[q].file /\ job'[q].file <= head'[s]
      /\ pc'[q] = "reload" => reach'[s] # "none"
      /\ pc'[q] = "record" /\ reach'[s] = "all" => job'[q].file \in reloaded'[s]
      /\ pc'[q] = "finish" /\ job'[q].ok /\ reach'[s] = "all" =>
            \E d \in reloaded'[s] : d >= job'[q].commit
  BY <1>2, <1>3 DEF Ready
<1> QED
  BY <1>4, <1>5 DEF Ready

(* A step that starts no sync, moves no clone and puts nothing newer than  *)
(* the clone in force keeps Alone, if what p has read is still what the    *)
(* clone is at.                                                            *)
LEMMA AloneKept ==
    ASSUME SyncAssumption, Alone,
           remote' = remote, head' = head, overlap' = overlap,
           \A s \in Server : running'[s] <= head[s],
           \A q \in Syncer : pc[q] = "idle" => pc'[q] = "idle",
           \A q \in Syncer : /\ ServerOf[q] \notin overlap
                             /\ pc'[q] \in {"list", "apply", "reload"}
                             => job'[q].file = head[ServerOf[q]]
    PROVE  Alone'
BY DEF Alone
-----------------------------------------------------------------------------
(***************************************************************************)
(* One lemma for each action.                                              *)
(***************************************************************************)
LEMMA InitHolds ==
    ASSUME SyncAssumption, Init
    PROVE  IInv
<1>1. 1 \in Commit
  BY DEF SyncAssumption, Commit
<1>2. NoJob \in Job
  BY DEF NoJob, Job
<1>3. TypeOK
  BY <1>1, <1>2 DEF Init, TypeOK, SyncAssumption, Stage
<1>4. Applied /\ Alone
  BY DEF Init, Applied, Alone, SyncAssumption
<1>5. \A p \in Syncer : Ready(p)
  BY DEF Init, Ready, NoJob
<1> QED
  BY <1>3, <1>4, <1>5 DEF IInv

LEMMA BeginKeeps ==
    ASSUME SyncAssumption, IInv, NEW p \in Syncer, Begin(p)
    PROVE  IInv'
<1> USE DEF IInv
<1>1. NoJob \in Job
  BY DEF NoJob, Job
<1>2. TypeOK'
  BY <1>1 DEF Begin, TypeOK, Goto, Set, Config0, Stage, SyncAssumption
<1>3. Applied'
  BY DEF Begin, Applied, Config0
<1>4. ASSUME NEW q \in Syncer PROVE Ready(q)'
  <2>1. CASE q = p
    BY <2>1 DEF Begin, Goto, Set, TypeOK, Ready, NoJob
  <2>2. CASE q # p
    <3>1. pc'[q] = pc[q] /\ job'[q] = job[q]
      BY <2>2 DEF Begin, Goto, Set, TypeOK
    <3>2. head'[ServerOf[q]] = head[ServerOf[q]] /\ head[ServerOf[q]] \in Nat
      BY DEF Begin, TypeOK, Commit, SyncAssumption
    <3>3. reloaded' = reloaded /\ reach' = reach
      BY DEF Begin, Config0
    <3> QED
      BY <1>2, <3>1, <3>2, <3>3, ReadyKept
  <2> QED
    BY <2>1, <2>2
<1>5. Alone'
  <2>1. remote' = remote /\ head' = head /\ running' = running
    BY DEF Begin, Config0
  <2>2. pc' = [pc EXCEPT ![p] = "pull"] /\ pc[p] = "idle" /\ job' = [job EXCEPT ![p] = NoJob]
    BY DEF Begin, Goto, Set
  <2>3. ASSUME NEW s \in Server PROVE head'[s] <= remote' /\ running'[s] <= head'[s]
    BY <2>1 DEF Alone
  <2>4. ASSUME NEW s \in Server, s \notin overlap',
               NEW q \in Syncer, ServerOf[q] = s
        PROVE  pc'[q] \in {"list", "apply", "reload"} => job'[q].file = head'[s]
    BY <2>1, <2>2, <2>4 DEF Alone, Begin, TypeOK
  <2>5. ASSUME NEW s \in Server, s \notin overlap',
               NEW q \in Syncer, ServerOf[q] = s,
               NEW r \in Syncer \ {q}, ServerOf[r] = s
        PROVE  pc'[q] = "idle" \/ pc'[r] = "idle"
    <3>1. s \notin overlap
      BY <2>5 DEF Begin
    <3>2. ASSUME NEW x \in Syncer \ {p}, ServerOf[x] = ServerOf[p], ServerOf[x] = s
          PROVE  pc[x] = "idle"
      BY <2>5, <3>2 DEF Begin
    <3>3. pc[q] = "idle" \/ pc[r] = "idle"
      BY <3>1, <2>5 DEF Alone
    <3> QED
      BY <3>2, <3>3, <2>2, <2>5 DEF TypeOK
  <2> QED
    BY <2>3, <2>4, <2>5 DEF Alone
<1> QED
  BY <1>2, <1>3, <1>4, <1>5

(* A later step of the sync p runs, with no pull: what is left to see is   *)
(* p's own stage, currentHash and what is in force.                        *)
LEMMA StepKeeps ==
    ASSUME SyncAssumption, IInv, NEW p \in Syncer, TypeOK',
           pc[p] # "idle",
           remote' = remote, head' = head, overlap' = overlap, reach' = reach,
           \A q \in Syncer \ {p} : pc'[q] = pc[q] /\ job'[q] = job[q],
           \A s \in Server : reloaded[s] \subseteq reloaded'[s],
           \A s \in Server : running'[s] <= head[s],
           Applied',
           Ready(p)',
           ServerOf[p] \notin overlap /\ pc'[p] \in {"list", "apply", "reload"}
              => job'[p].file = head[ServerOf[p]]
    PROVE  IInv'
<1> USE DEF IInv
<1>1. ASSUME NEW q \in Syncer PROVE Ready(q)'
  <2>1. CASE q = p
    BY <2>1
  <2>2. CASE q # p
    <3>1. head'[ServerOf[q]] = head[ServerOf[q]] /\ head[ServerOf[q]] \in Nat
      BY DEF TypeOK, Commit, SyncAssumption
    <3>2. reloaded[ServerOf[q]] \subseteq reloaded'[ServerOf[q]]
      BY DEF SyncAssumption
    <3> QED
      BY <2>2, <3>1, <3>2, ReadyKept
  <2> QED
    BY <2>1, <2>2
<1>2. Alone'
  <2>1. \A q \in Syncer : pc[q] = "idle" => pc'[q] = "idle"
    OBVIOUS
  <2>2. ASSUME NEW q \in Syncer, ServerOf[q] \notin overlap,
               pc'[q] \in {"list", "apply", "reload"}
        PROVE  job'[q].file = head[ServerOf[q]]
    BY <2>2 DEF Alone, SyncAssumption
  <2> QED
    BY <2>1, <2>2, AloneKept
<1> QED
  BY <1>1, <1>2

(* What the steps of p that put nothing into force need of StepKeeps.      *)
LEMMA QuietKeeps ==
    ASSUME SyncAssumption, IInv, NEW p \in Syncer, TypeOK',
           pc[p] # "idle",
           remote' = remote, head' = head, overlap' = overlap,
           current' = current, reach' = reach,
           running' = running, reloaded' = reloaded,
           \A q \in Syncer \ {p} : pc'[q] = pc[q] /\ job'[q] = job[q],
           Ready(p)',
           ServerOf[p] \notin overlap /\ pc'[p] \in {"list", "apply", "reload"}
              => job'[p].file = head[ServerOf[p]]
    PROVE  IInv'
<1>1. Applied'
  BY DEF IInv, Applied
<1>2. \A s \in Server : running'[s] <= head[s]
  BY DEF IInv, Alone
<1> QED
  BY <1>1, <1>2, StepKeeps

(* The steps that a sync takes on its own, up to the reservations.         *)
(* What a step stores in the local variables is of their type.            *)
LEMMA JobFields ==
    ASSUME NEW j \in Job
    PROVE  /\ [j EXCEPT !.ok = TRUE] \in Job
           /\ [j EXCEPT !.row = FALSE] \in Job
           /\ [j EXCEPT !.cancelled = TRUE] \in Job
           /\ \A c \in Commit : /\ [j EXCEPT !.commit = c] \in Job
                               /\ [j EXCEPT !.file = c] \in Job
           /\ \A k \in [MAC -> Row \cup {NoRow}] : [j EXCEPT !.known = k] \in Job
           /\ \A m \in MAC : [j EXCEPT !.known[m] = NoRow] \in Job
           /\ \A m : [j EXCEPT !.next = @ + 1, !.known = Forget(@, m)] \in Job
<1>1. \A m \in MAC : [j.known EXCEPT ![m] = NoRow] \in [MAC -> Row \cup {NoRow}]
  BY DEF Job
<1>2. j.next + 1 \in Nat \ {0}
  BY DEF Job
<1>3. /\ [j EXCEPT !.ok = TRUE] \in Job
      /\ [j EXCEPT !.row = FALSE] \in Job
      /\ [j EXCEPT !.cancelled = TRUE] \in Job
  BY DEF Job
<1>4. ASSUME NEW c \in Commit
      PROVE  [j EXCEPT !.commit = c] \in Job /\ [j EXCEPT !.file = c] \in Job
  BY DEF Job
<1>5. ASSUME NEW k \in [MAC -> Row \cup {NoRow}]
      PROVE  [j EXCEPT !.known = k] \in Job
  BY DEF Job
<1>6. ASSUME NEW m \in MAC PROVE [j EXCEPT !.known[m] = NoRow] \in Job
  BY <1>1 DEF Job
<1>7. ASSUME NEW m PROVE [j EXCEPT !.next = @ + 1, !.known = Forget(@, m)] \in Job
  <2>1. Forget(j.known, m) \in [MAC -> Row \cup {NoRow}]
    BY DEF Job, Forget
  <2> QED
    BY <1>2, <2>1 DEF Job
<1> QED
  BY <1>3, <1>4, <1>5, <1>6, <1>7

LEMMA FaultsTyped ==
    ASSUME SyncAssumption, TypeOK, NEW p \in Syncer, Succeeds(p) \/ Breaks(p)
    PROVE  faults' \in 0 .. MaxFaults
BY DEF SyncAssumption, TypeOK, Succeeds, Breaks

LEMMA DecideKeeps ==
    ASSUME SyncAssumption, IInv, NEW p \in Syncer, Decide(p)
    PROVE  IInv'
<1> DEFINE s == ServerOf[p]
<1>1. s \in Server /\ TypeOK /\ Ready(p) /\ Applied
  BY DEF SyncAssumption, IInv
<1>2. TypeOK'
  <2> DEFINE j == [job[p] EXCEPT !.ok = TRUE]
  <2>1. j \in Job
    BY <1>1, JobFields DEF TypeOK
  <2>4. job' = job \/ job' = [job EXCEPT ![p] = j]
    BY DEF Decide, Set
  <2> HIDE DEF j
  <2>2. job' \in [Syncer -> Job]
    BY <1>1, <2>1, <2>4 DEF TypeOK
  <2>3. pc' \in [Syncer -> Stage]
    BY <1>1 DEF Decide, Goto, TypeOK, Stage
  <2> QED
    BY <1>1, <2>2, <2>3 DEF Decide, TypeOK, Config0
<1>3. Ready(p)'
  <2>1. CASE current[s] = job[p].commit
    <3>1. /\ pc'[p] = "finish" /\ job'[p].commit = job[p].commit
          /\ reloaded' = reloaded /\ reach' = reach
      BY <1>1, <2>1 DEF Decide, Goto, Set, Config0, TypeOK, Job
    <3>2. job[p].commit \in Commit
      BY <1>1 DEF Decide, Ready
    <3>3. reach[s] = "all" => \E d \in reloaded[s] : d >= job[p].commit
      BY <1>1, <2>1, <3>2 DEF Applied, Commit
    <3> QED
      BY <3>1, <3>3 DEF Ready
  <2>2. CASE current[s] # job[p].commit
    BY <1>1, <2>2 DEF Decide, Goto, Set, Config0, TypeOK, Ready
  <2> QED
    BY <2>1, <2>2
<1>4. pc[p] # "idle" /\ pc'[p] \in {"read", "finish"}
  BY <1>1 DEF Decide, Goto, TypeOK
<1>5. \A q \in Syncer \ {p} : pc'[q] = pc[q] /\ job'[q] = job[q]
  BY <1>1 DEF Decide, Goto, Set, TypeOK
<1>6. UNCHANGED <<remote, head, overlap, current, reach, running, reloaded>>
  BY DEF Decide, Config0
<1> QED
  BY <1>2, <1>3, <1>4, <1>5, <1>6, QuietKeeps

LEMMA ReadKeeps ==
    ASSUME SyncAssumption, IInv, NEW p \in Syncer, Read(p)
    PROVE  IInv'
<1> DEFINE s == ServerOf[p]
<1>1. s \in Server /\ TypeOK /\ Ready(p)
  BY DEF SyncAssumption, IInv
<1>2. TypeOK'
  <2>1. head[s] \in Commit
    BY <1>1 DEF TypeOK
  <2>2. job[p] \in Job
    BY <1>1 DEF TypeOK
  <2> DEFINE j == [job[p] EXCEPT !.file = head[s]]
  <2>6. j \in Job
    BY <2>1, <2>2, JobFields
  <2>7. job' = job \/ job' = [job EXCEPT ![p] = j]
    BY DEF Read, Set
  <2> HIDE DEF j
  <2>3. job' \in [Syncer -> Job]
    BY <1>1, <2>6, <2>7 DEF TypeOK
  <2>4. pc' \in [Syncer -> Stage]
    BY <1>1 DEF Read, Goto, TypeOK, Stage
  <2>5. faults' \in 0 .. MaxFaults
    BY <1>1 DEF Read, TypeOK, SyncAssumption
  <2> QED
    BY <1>1, <2>3, <2>4, <2>5 DEF Read, TypeOK, Config0
<1>3. /\ pc[p] = "read" /\ pc'[p] \in {"list", "finish"}
      /\ pc'[p] = "list" => job'[p].file = head[s] /\ Config[head[s]].valid
      /\ job'[p].commit = job[p].commit /\ job'[p].ok = job[p].ok
  BY <1>1 DEF Read, Goto, Set, TypeOK, Job
<1>4. UNCHANGED <<remote, head, overlap, current, reach, running, reloaded>>
  BY DEF Read, Config0
<1>5. Ready(p)'
  <2>1. head[s] \in Commit /\ head[s] \in Nat
    BY <1>1 DEF TypeOK, Commit
  <2> QED
    BY <1>1, <1>3, <1>4, <2>1 DEF Ready
<1>6. \A q \in Syncer \ {p} : pc'[q] = pc[q] /\ job'[q] = job[q]
  BY <1>1 DEF Read, Goto, Set, TypeOK
<1> QED
  BY <1>2, <1>3, <1>4, <1>5, <1>6, QuietKeeps

(* A step from a stage that has a file to the next one or to the end, with *)
(* the same file and commit: all those of applyConfig but the reload.      *)
LEMMA SameFileKeeps ==
    ASSUME SyncAssumption, IInv, NEW p \in Syncer, TypeOK',
           pc[p] \in {"list", "apply"},
           pc'[p] \in {"list", "apply", "reload", "record", "finish"},
           pc'[p] = "record" => reach[ServerOf[p]] = "none",
           pc'[p] = "reload" => reach[ServerOf[p]] # "none",
           job'[p].file = job[p].file,
           job'[p].commit = job[p].commit,
           job'[p].ok = job[p].ok,
           remote' = remote, head' = head, overlap' = overlap,
           current' = current, reach' = reach,
           running' = running, reloaded' = reloaded,
           \A q \in Syncer \ {p} : pc'[q] = pc[q] /\ job'[q] = job[q]
    PROVE  IInv'
<1>1. ServerOf[p] \in Server /\ Ready(p) /\ Alone
  BY DEF SyncAssumption, IInv
<1>2. Ready(p)'
  BY <1>1 DEF Ready
<1>3. ServerOf[p] \notin overlap => job'[p].file = head[ServerOf[p]]
  BY <1>1 DEF Alone
<1> QED
  BY <1>2, <1>3, QuietKeeps

LEMMA ListKeeps ==
    ASSUME SyncAssumption, IInv, NEW p \in Syncer, List(p)
    PROVE  IInv'
<1>1. TypeOK
  BY DEF IInv
<1>2. TypeOK'
  <2> DEFINE j == [job[p] EXCEPT !.known = table]
  <2>1. j \in Job
    BY <1>1, JobFields DEF TypeOK
  <2>5. job' = job \/ job' = [job EXCEPT ![p] = j]
    BY DEF List, Set
  <2> HIDE DEF j
  <2>2. job' \in [Syncer -> Job]
    BY <1>1, <2>1, <2>5 DEF TypeOK
  <2>3. pc' \in [Syncer -> Stage]
    BY <1>1 DEF List, Goto, TypeOK, Stage
  <2>4. faults' \in 0 .. MaxFaults
    BY <1>1, FaultsTyped DEF List
  <2> QED
    BY <1>1, <2>2, <2>3, <2>4 DEF List, TypeOK, Config0
<1>3. /\ pc[p] = "list" /\ pc'[p] \in {"apply", "finish"}
      /\ job'[p].file = job[p].file
      /\ job'[p].commit = job[p].commit /\ job'[p].ok = job[p].ok
  BY <1>1 DEF List, Goto, Set, TypeOK, Job
<1>4. UNCHANGED <<remote, head, overlap, current, reach, running, reloaded>>
  BY DEF List, Config0
<1>5. \A q \in Syncer \ {p} : pc'[q] = pc[q] /\ job'[q] = job[q]
  BY <1>1 DEF List, Goto, Set, TypeOK
<1> QED
  BY <1>2, <1>3, <1>4, <1>5, SameFileKeeps

(* The statements of applyConfig keep the table a table: what is stored is *)
(* an entry that parses.                                                   *)
LEMMA StoredTable ==
    ASSUME SyncAssumption, TypeOK, NEW p \in Syncer, NEW e \in Entry, Stored(p, e)
    PROVE  table' \in [MAC -> Row \cup {NoRow}]
<1>1. table \in [MAC -> Row \cup {NoRow}] /\ UnusedIds \subseteq RowId
  BY DEF TypeOK, UnusedIds
<1>2. ASSUME NEW id \in RowId, Accepts(e) PROVE e.mac \in MAC /\ NewRow(e, id) \in Row
  BY <1>2 DEF Accepts, Storable, Entry, NewRow, Row
<1>3. CASE Known(p, e.mac) # NoRow
  <2>1. CASE table' = table
    BY <1>1, <2>1
  <2>2. CASE table' # table
    <3>1. /\ table' = [table EXCEPT ![e.mac] = NewRow(e, Known(p, e.mac).id)]
          /\ Accepts(e) /\ table[e.mac] # NoRow
          /\ table[e.mac].id = Known(p, e.mac).id
      BY <1>3, <2>2 DEF Stored
    <3>2. e.mac \in MAC /\ table[e.mac].id \in RowId
      BY <1>1, <3>1 DEF Accepts, Storable, Entry, Row
    <3> QED
      BY <1>1, <1>2, <3>1, <3>2
  <2> QED
    BY <2>1, <2>2
<1>4. CASE Known(p, e.mac) = NoRow
  <2>1. CASE table' = table
    BY <1>1, <2>1
  <2>2. CASE table' # table
    <3>1. Accepts(e)
      BY <1>4, <2>2 DEF Stored
    <3>2. PICK id \in UnusedIds : table' = [table EXCEPT ![e.mac] = NewRow(e, id)]
      BY <1>4, <2>2, <3>1 DEF Stored
    <3> QED
      BY <1>1, <1>2, <3>1, <3>2
  <2> QED
    BY <2>1, <2>2
<1> QED
  BY <1>3, <1>4

(* The entry p is at.                                                      *)
LEMMA EntryTyped ==
    ASSUME SyncAssumption, IInv, NEW p \in Syncer,
           pc[p] = "apply", job[p].next <= Len(Res(p))
    PROVE  /\ Res(p) \in Seq(Entry) /\ job[p].next \in 1 .. Len(Res(p))
           /\ Res(p)[job[p].next] \in Entry
<1>1. TypeOK /\ Ready(p)
  BY DEF IInv
<1>2. Config[job[p].file] \in ConfigFile
  BY <1>1 DEF Ready, SyncAssumption, Commit
<1>3. Res(p) \in Seq(Entry)
  BY <1>2 DEF Res, ConfigFile
<1>4. job[p].next \in 1 .. Len(Res(p))
  BY <1>1, <1>3 DEF TypeOK, Job
<1>5. ASSUME NEW S, NEW r \in Seq(S), NEW n \in 1 .. Len(r)
      PROVE  r[n] \in S
  OBVIOUS
<1> QED
  BY <1>3, <1>4, <1>5

LEMMA UpsertStep ==
    ASSUME SyncAssumption, IInv, NEW p \in Syncer, Upsert(p)
    PROVE  IInv'
<1> DEFINE e == Res(p)[job[p].next]
<1>1. TypeOK /\ Ready(p)
  BY DEF IInv
<1>2. e \in Entry
  BY EntryTyped DEF Upsert
<1>5. job[p] \in Job
  BY <1>1 DEF TypeOK
<1>7. table' \in [MAC -> Row \cup {NoRow}]
  <2>1. table' = table \/ Stored(p, e)
    BY DEF Upsert
  <2> QED
    BY <1>1, <1>2, <2>1, StoredTable DEF TypeOK
<1> DEFINE j == [job[p] EXCEPT !.next = @ + 1, !.known = Forget(@, e.mac)]
<1>8. /\ j \in Job
      /\ j.file = job[p].file /\ j.commit = job[p].commit /\ j.ok = job[p].ok
  <2>1. j \in Job
    BY <1>5, JobFields
  <2> QED
    BY <1>5, <2>1 DEF Job
<1>9. pc[p] = "apply" /\ job' = [job EXCEPT ![p] = j]
  BY DEF Upsert, Set
<1>10. UNCHANGED <<remote, head, log, pc, overlap, current, reach, shown, running, reloaded>>
  BY DEF Upsert, Config0
<1>11. faults' \in 0 .. MaxFaults
  BY <1>1, FaultsTyped DEF Upsert, TypeOK
<1>12. TypeOK'
  <2> HIDE DEF j
  <2> QED
    BY <1>1, <1>7, <1>8, <1>9, <1>10, <1>11 DEF TypeOK
<1>13. \A q \in Syncer \ {p} : pc'[q] = pc[q] /\ job'[q] = job[q]
  BY <1>1, <1>9, <1>10 DEF TypeOK
<1>14. job'[p] = j
  BY <1>1, <1>9 DEF TypeOK
<1> HIDE DEF j
<1> QED
  BY <1>8, <1>9, <1>10, <1>12, <1>13, <1>14, SameFileKeeps

LEMMA DeleteKeeps ==
    ASSUME SyncAssumption, IInv, NEW p \in Syncer, NEW m \in MAC, Delete(p, m)
    PROVE  IInv'
<1> DEFINE j == [job[p] EXCEPT !.known[m] = NoRow]
<1>1. TypeOK
  BY DEF IInv
<1>2. j \in Job /\ j.file = job[p].file /\ j.commit = job[p].commit /\ j.ok = job[p].ok
  <2>1. job[p] \in Job
    BY <1>1 DEF TypeOK
  <2>2. j \in Job
    BY <2>1, JobFields
  <2> QED
    BY <2>1, <2>2 DEF Job
<1>3. table' \in [MAC -> Row \cup {NoRow}]
  BY <1>1 DEF Delete, TypeOK
<1>4. pc[p] = "apply" /\ job' = [job EXCEPT ![p] = j]
  BY DEF Delete, Set
<1>5. UNCHANGED <<remote, head, log, pc, overlap, current, reach, shown, running, reloaded>>
  BY DEF Delete, Config0
<1>6. faults' \in 0 .. MaxFaults
  BY <1>1, FaultsTyped DEF Delete
<1>7. job'[p] = j /\ \A q \in Syncer \ {p} : pc'[q] = pc[q] /\ job'[q] = job[q]
  BY <1>1, <1>4, <1>5 DEF TypeOK
<1> HIDE DEF j
<1>8. TypeOK'
  BY <1>1, <1>2, <1>3, <1>4, <1>5, <1>6 DEF TypeOK
<1> QED
  BY <1>2, <1>4, <1>5, <1>7, <1>8, SameFileKeeps

LEMMA ShowKeeps ==
    ASSUME SyncAssumption, IInv, NEW p \in Syncer, Show(p)
    PROVE  IInv'
<1>1. TypeOK /\ ServerOf[p] \in Server /\ Ready(p)
  BY DEF IInv, SyncAssumption
<1>2. /\ pc[p] = "apply"
      /\ \/ pc' = [pc EXCEPT ![p] = "reload"] /\ reach[ServerOf[p]] # "none"
         \/ pc' = [pc EXCEPT ![p] = "record"] /\ reach[ServerOf[p]] = "none"
  BY DEF Show, Goto
<1>3. UNCHANGED <<remote, head, table, log, job, faults, overlap, current, reach,
                  running, reloaded>>
  BY DEF Show
<1>4. job[p].file \in Commit
  BY <1>1, <1>2 DEF Ready
<1>5. shown' \in [Server -> Commit \cup {0}]
  BY <1>1, <1>4 DEF Show, TypeOK
<1>6. pc' \in [Syncer -> Stage]
  BY <1>1, <1>2 DEF TypeOK, Stage
<1>7. TypeOK'
  BY <1>1, <1>3, <1>5, <1>6 DEF TypeOK
<1>8. /\ pc'[p] \in {"reload", "record"}
      /\ pc'[p] = "record" => reach[ServerOf[p]] = "none"
      /\ pc'[p] = "reload" => reach[ServerOf[p]] # "none"
      /\ \A q \in Syncer \ {p} : pc'[q] = pc[q]
  BY <1>1, <1>2 DEF TypeOK
<1> QED
  BY <1>2, <1>3, <1>7, <1>8, SameFileKeeps
-----------------------------------------------------------------------------
(* What is in force grows up to the clone.                                 *)
LEMMA ReloadKeeps ==
    ASSUME SyncAssumption, IInv, NEW p \in Syncer, Reload(p)
    PROVE  IInv'
<1> DEFINE s == ServerOf[p]
           f == job[p].file
<1>1. TypeOK /\ s \in Server /\ Ready(p) /\ Applied /\ Alone
  BY DEF IInv, SyncAssumption
<1>2. pc[p] = "reload"
  BY DEF Reload
<1>3. f \in Commit
  BY <1>1, <1>2 DEF Ready
<1>4. UNCHANGED <<remote, head, table, log, job, faults, overlap, current, reach, shown>>
  BY DEF Reload
<1>5. \/ /\ running' = [running EXCEPT ![s] = f]
         /\ reloaded' = [reloaded EXCEPT ![s] = @ \cup {f}]
         /\ pc' = [pc EXCEPT ![p] = "record"]
      \/ /\ running' = running /\ reloaded' = reloaded
         /\ \/ pc' = [pc EXCEPT ![p] = "finish"]
            \/ pc' = [pc EXCEPT ![p] = "record"] /\ reach[s] # "all"
  BY DEF Reload, ReloadSubnets, Goto
<1> HIDE DEF f
<1>6. TypeOK'
  <2>1. running' \in [Server -> Commit \cup {0}]
    <3>1. running \in [Server -> Commit \cup {0}]
      BY <1>1 DEF TypeOK
    <3>2. running' = running \/ running' = [running EXCEPT ![s] = f]
      BY <1>5
    <3> QED
      BY <1>1, <1>3, <3>1, <3>2
  <2>2. reloaded' \in [Server -> SUBSET Commit]
    <3>1. reloaded \in [Server -> SUBSET Commit]
      BY <1>1 DEF TypeOK
    <3>2. reloaded[s] \cup {f} \in SUBSET Commit
      BY <1>1, <1>3, <3>1
    <3>3. \/ reloaded' = reloaded
          \/ reloaded' = [reloaded EXCEPT ![s] = reloaded[s] \cup {f}]
      BY <1>5
    <3> QED
      BY <1>1, <3>1, <3>2, <3>3
  <2>3. pc' \in [Syncer -> Stage]
    BY <1>1, <1>5 DEF TypeOK, Stage
  <2> QED
    BY <1>1, <1>4, <2>1, <2>2, <2>3 DEF TypeOK
<1>7. ASSUME NEW r \in Server PROVE reloaded[r] \subseteq reloaded'[r]
  <2>1. \/ reloaded' = reloaded
        \/ reloaded' = [reloaded EXCEPT ![s] = reloaded[s] \cup {f}]
    BY <1>5
  <2>2. reloaded \in [Server -> SUBSET Commit]
    BY <1>1 DEF TypeOK
  <2>3. CASE r = s
    BY <1>1, <2>1, <2>2, <2>3
  <2>4. CASE r # s
    BY <1>1, <2>1, <2>2, <2>4
  <2> QED
    BY <2>3, <2>4
<1>8. \A r \in Server : running'[r] <= head[r]
  <2>1. f <= head[s]
    BY <1>1, <1>2 DEF Ready, f
  <2>2. \A r \in Server : running[r] <= head[r]
    BY <1>1 DEF Alone
  <2> QED
    BY <1>1, <1>5, <2>1, <2>2 DEF TypeOK
<1>9. Applied'
  BY <1>1, <1>4, <1>7 DEF Applied
<1>10. /\ pc'[p] \in {"record", "finish"}
       /\ pc'[p] = "record" /\ reach[s] = "all" => f \in reloaded'[s]
       /\ \A q \in Syncer \ {p} : pc'[q] = pc[q] /\ job'[q] = job[q]
  BY <1>1, <1>4, <1>5 DEF TypeOK
<1>11. Ready(p)'
  BY <1>1, <1>2, <1>4, <1>10 DEF Ready, f
<1> QED
  BY <1>2, <1>4, <1>6, <1>7, <1>8, <1>9, <1>10, <1>11, StepKeeps

(* currentHash becomes the commit of p, whose file is in force.            *)
LEMMA RecordKeeps ==
    ASSUME SyncAssumption, IInv, NEW p \in Syncer, Record(p)
    PROVE  IInv'
<1> DEFINE s == ServerOf[p]
           j == [job[p] EXCEPT !.ok = TRUE]
<1>1. TypeOK /\ s \in Server /\ Ready(p) /\ Applied /\ Alone
  BY DEF IInv, SyncAssumption
<1>2. pc[p] = "record" /\ pc' = [pc EXCEPT ![p] = "finish"]
  BY DEF Record, Goto
<1>3. job' = [job EXCEPT ![p] = j] /\ current' = [current EXCEPT ![s] = job[p].commit]
  BY DEF Record, Set
<1>4. UNCHANGED <<remote, head, table, log, faults, overlap, reach, shown, running, reloaded>>
  BY DEF Record
<1>5. j \in Job /\ j.commit = job[p].commit
  <2>1. job[p] \in Job
    BY <1>1 DEF TypeOK
  <2>2. j \in Job
    BY <2>1, JobFields
  <2> QED
    BY <2>1, <2>2 DEF Job
<1>6. /\ job[p].commit \in Commit /\ job[p].commit \in Nat
      /\ reach[s] = "all" => \E d \in reloaded[s] : d >= job[p].commit
  <2>1. job[p].commit \in Commit /\ job[p].commit \in Nat
    BY <1>1, <1>2 DEF Ready, Commit
  <2>2. /\ job[p].file \in Nat /\ job[p].commit <= job[p].file
        /\ reach[s] = "all" => job[p].file \in reloaded[s]
    BY <1>1, <1>2 DEF Ready, Commit
  <2> QED
    BY <2>1, <2>2
<1> HIDE DEF j
<1>7. /\ pc'[p] = "finish" /\ job'[p] = j
      /\ \A q \in Syncer \ {p} : pc'[q] = pc[q] /\ job'[q] = job[q]
  BY <1>1, <1>2, <1>3 DEF TypeOK
<1>8. TypeOK'
  <2>1. current' \in [Server -> Commit \cup {0}]
    <3>1. current \in [Server -> Commit \cup {0}]
      BY <1>1 DEF TypeOK
    <3> QED
      BY <1>1, <1>3, <1>6, <3>1
  <2>2. job' \in [Syncer -> Job] /\ pc' \in [Syncer -> Stage]
    BY <1>1, <1>2, <1>3, <1>5 DEF TypeOK, Stage
  <2> QED
    BY <1>1, <1>4, <2>1, <2>2 DEF TypeOK
<1>9. Applied'
  <2>1. ASSUME NEW r \in Server, reach[r] = "all", current'[r] # 0
        PROVE  \E d \in reloaded[r] : d >= current'[r]
    <3>1. CASE r = s
      BY <1>1, <1>3, <1>6, <2>1, <3>1 DEF TypeOK
    <3>2. CASE r # s
      BY <1>1, <1>3, <2>1, <3>2 DEF TypeOK, Applied
    <3> QED
      BY <3>1, <3>2
  <2> QED
    BY <1>4, <2>1 DEF Applied
<1>10. Ready(p)'
  BY <1>4, <1>5, <1>6, <1>7 DEF Ready
<1>11. \A r \in Server : running'[r] <= head[r]
  BY <1>1, <1>4 DEF Alone
<1> QED
  BY <1>2, <1>4, <1>7, <1>8, <1>9, <1>10, <1>11, StepKeeps

LEMMA FinishKeeps ==
    ASSUME SyncAssumption, IInv, NEW p \in Syncer, Finish(p)
    PROVE  IInv'
<1>1. TypeOK /\ ServerOf[p] \in Server
  BY DEF IInv, SyncAssumption
<1>2. /\ pc[p] = "finish" /\ pc' = [pc EXCEPT ![p] = "idle"]
      /\ job' = [job EXCEPT ![p] = NoJob]
  BY DEF Finish, Goto, Set
<1>3. UNCHANGED <<remote, head, table, overlap, current, reach, shown, running, reloaded>>
  BY DEF Finish, Config0
<1>4. NoJob \in Job /\ ~NoJob.ok
  BY DEF NoJob, Job
<1>5. pc' \in [Syncer -> Stage] /\ job' \in [Syncer -> Job]
  BY <1>1, <1>2, <1>4 DEF TypeOK, Stage
<1>6. log' \subseteq LogRow
  <2>1. job[p].commit \in Commit \cup {0}
    BY <1>1 DEF TypeOK, Job
  <2>2. /\ [status |-> "success", commit |-> job[p].commit] \in LogRow
        /\ [status |-> "failed", commit |-> 0] \in LogRow
        /\ [status |-> "in_progress", commit |-> 0] \in LogRow
    BY <2>1 DEF LogRow
  <2>3. log \subseteq LogRow
    BY <1>1 DEF TypeOK
  <2> QED
    BY <2>2, <2>3 DEF Finish
<1>7. faults' \in 0 .. MaxFaults
  BY <1>1, FaultsTyped DEF Finish
<1>8. TypeOK'
  BY <1>1, <1>3, <1>5, <1>6, <1>7 DEF TypeOK
<1>9. /\ pc'[p] = "idle" /\ job'[p] = NoJob
      /\ \A q \in Syncer \ {p} : pc'[q] = pc[q] /\ job'[q] = job[q]
  BY <1>1, <1>2 DEF TypeOK
<1>10. Ready(p)'
  BY <1>4, <1>9 DEF Ready
<1> QED
  BY <1>2, <1>3, <1>8, <1>9, <1>10, QuietKeeps

(* Pull moves the clone: in a server without overlap no other sync has     *)
(* read it.                                                                *)
LEMMA PullKeeps ==
    ASSUME SyncAssumption, IInv, NEW p \in Syncer, Pull(p)
    PROVE  IInv'
<1> DEFINE s == ServerOf[p]
           j == [job[p] EXCEPT !.commit = remote]
<1>1. TypeOK /\ s \in Server /\ Ready(p) /\ Applied /\ Alone
  BY DEF IInv, SyncAssumption
<1>2. pc[p] = "pull" /\ ~job[p].ok
  BY <1>1 DEF Pull, Ready
<1>3. UNCHANGED <<remote, table, log, overlap, current, reach, shown, running, reloaded>>
  BY DEF Pull, Config0
<1>4. faults' \in 0 .. MaxFaults
  BY <1>1, FaultsTyped DEF Pull
<1>5. remote \in Commit /\ remote \in Nat /\ \A r \in Server : head[r] \in Nat /\ head[r] <= remote
  BY <1>1 DEF TypeOK, Alone, Commit
<1>6. j \in Job /\ j.commit = remote /\ j.ok = job[p].ok
  <2>1. job[p] \in Job
    BY <1>1 DEF TypeOK
  <2>2. j \in Job
    BY <1>5, <2>1, JobFields
  <2> QED
    BY <2>1, <2>2 DEF Job
<1>7. \/ /\ head' = [head EXCEPT ![s] = remote]
         /\ job' = [job EXCEPT ![p] = j]
         /\ pc' = [pc EXCEPT ![p] = "decide"] \/ pc' = [pc EXCEPT ![p] = "read"]
      \/ head' = head /\ job' = job /\ pc' = [pc EXCEPT ![p] = "finish"]
  BY DEF Pull, Set, Goto
<1> HIDE DEF j
<1>8. TypeOK'
  <2>1. head' \in [Server -> Commit]
    <3>1. head \in [Server -> Commit]
      BY <1>1 DEF TypeOK
    <3>2. head' = head \/ head' = [head EXCEPT ![s] = remote]
      BY <1>7
    <3> QED
      BY <1>1, <1>5, <3>1, <3>2
  <2>2. job' \in [Syncer -> Job]
    BY <1>1, <1>6, <1>7 DEF TypeOK
  <2>3. pc' \in [Syncer -> Stage]
    BY <1>1, <1>7 DEF TypeOK, Stage
  <2> QED
    BY <1>1, <1>3, <1>4, <2>1, <2>2, <2>3 DEF TypeOK
<1>9. \A q \in Syncer \ {p} : pc'[q] = pc[q] /\ job'[q] = job[q]
  BY <1>1, <1>7 DEF TypeOK
<1>10. CASE head' = head /\ job' = job /\ pc' = [pc EXCEPT ![p] = "finish"]
  <2>1. pc'[p] = "finish"
    BY <1>1, <1>10 DEF TypeOK
  <2>2. Ready(p)'
    BY <1>2, <1>10, <2>1 DEF Ready
  <2> QED
    BY <1>2, <1>3, <1>8, <1>9, <1>10, <2>1, <2>2, QuietKeeps
<1>11. CASE /\ head' = [head EXCEPT ![s] = remote]
            /\ job' = [job EXCEPT ![p] = j]
            /\ pc' = [pc EXCEPT ![p] = "decide"] \/ pc' = [pc EXCEPT ![p] = "read"]
  <2>1. /\ pc'[p] \in {"decide", "read"} /\ job'[p] = j
        /\ head'[s] = remote /\ \A r \in Server \ {s} : head'[r] = head[r]
    BY <1>1, <1>11 DEF TypeOK
  <2>2. Ready(p)'
    BY <1>2, <1>5, <1>6, <2>1 DEF Ready
  <2>3. ASSUME NEW q \in Syncer \ {p} PROVE Ready(q)'
    <3>1. ServerOf[q] \in Server
      BY DEF SyncAssumption
    <3>2. head[ServerOf[q]] <= head'[ServerOf[q]]
      BY <1>5, <2>1, <3>1
    <3> QED
      BY <1>1, <1>3, <1>8, <1>9, <3>2, ReadyKept DEF IInv
  <2>4. Applied'
    BY <1>1, <1>3 DEF Applied
  <2>5. ASSUME NEW r \in Server
        PROVE  head'[r] <= remote' /\ running'[r] <= head'[r]
    <3>1. running[r] \in Nat /\ running[r] <= head[r]
      BY <1>1 DEF Alone, TypeOK, Commit
    <3> QED
      BY <1>3, <1>5, <2>1, <3>1
  <2>6. ASSUME NEW r \in Server, r \notin overlap',
               NEW q \in Syncer, ServerOf[q] = r
        PROVE  /\ \A x \in Syncer \ {q} :
                    ServerOf[x] = r => pc'[q] = "idle" \/ pc'[x] = "idle"
               /\ pc'[q] \in {"list", "apply", "reload"} => job'[q].file = head'[r]
    <3>1. \A x \in Syncer : pc[x] = "idle" => pc'[x] = "idle"
      BY <1>2, <1>9
    <3>2. \A x \in Syncer \ {q} :
             ServerOf[x] = r => pc'[q] = "idle" \/ pc'[x] = "idle"
      BY <1>1, <1>3, <2>6, <3>1 DEF Alone
    <3>3. CASE q = p
      BY <2>1, <3>2, <3>3
    <3>4. CASE q # p /\ r = s
      BY <2>1, <2>6, <3>2, <3>4
    <3>5. CASE q # p /\ r # s
      BY <1>1, <1>3, <1>9, <2>1, <2>6, <3>2, <3>5 DEF Alone
    <3> QED
      BY <3>3, <3>4, <3>5
  <2>7. Alone'
    BY <2>5, <2>6 DEF Alone
  <2> QED
    BY <1>8, <2>2, <2>3, <2>4, <2>7 DEF IInv
<1> QED
  BY <1>7, <1>10, <1>11

(* A cancelled request stays where it is.                                  *)
LEMMA CancelKeeps ==
    ASSUME SyncAssumption, IInv, NEW p \in Syncer, Cancel(p)
    PROVE  IInv'
<1> DEFINE j == [job[p] EXCEPT !.cancelled = TRUE]
<1>1. TypeOK /\ ServerOf[p] \in Server /\ Alone /\ Ready(p)
  BY DEF IInv, SyncAssumption
<1>2. pc[p] # "idle" /\ job' = [job EXCEPT ![p] = j]
  BY DEF Cancel, Set
<1>3. UNCHANGED <<remote, head, table, log, pc, overlap, current, reach, shown, running, reloaded>>
  BY DEF Cancel, Config0
<1>4. /\ j \in Job
      /\ j.file = job[p].file /\ j.commit = job[p].commit /\ j.ok = job[p].ok
  <2>1. job[p] \in Job
    BY <1>1 DEF TypeOK
  <2>2. j \in Job
    BY <2>1, JobFields
  <2> QED
    BY <2>1, <2>2 DEF Job
<1>5. faults' \in 0 .. MaxFaults
  BY <1>1 DEF Cancel, TypeOK, SyncAssumption
<1> HIDE DEF j
<1>6. job'[p] = j /\ \A q \in Syncer \ {p} : pc'[q] = pc[q] /\ job'[q] = job[q]
  BY <1>1, <1>2, <1>3 DEF TypeOK
<1>7. TypeOK'
  BY <1>1, <1>2, <1>3, <1>4, <1>5 DEF TypeOK
<1>8. Ready(p)'
  BY <1>1, <1>3, <1>4, <1>6 DEF Ready
<1>9. ServerOf[p] \notin overlap /\ pc'[p] \in {"list", "apply", "reload"}
         => job'[p].file = head[ServerOf[p]]
  BY <1>1, <1>3, <1>4, <1>6 DEF Alone
<1> QED
  BY <1>2, <1>3, <1>6, <1>7, <1>8, <1>9, QuietKeeps

(* A restart ends the syncs of its server and what they put into force.    *)
LEMMA RestartKeeps ==
    ASSUME SyncAssumption, IInv, NEW s \in Server, Restart(s)
    PROVE  IInv'
<1> DEFINE dropped(q) == [job[q] EXCEPT !.row = FALSE]
<1>1. TypeOK /\ Applied /\ Alone
  BY DEF IInv
<1>2. /\ pc' = [q \in Syncer |-> IF ServerOf[q] = s THEN "idle" ELSE pc[q]]
      /\ job' = [q \in Syncer |-> IF ServerOf[q] = s THEN NoJob ELSE dropped(q)]
  BY DEF Restart
<1>3. /\ current' = [current EXCEPT ![s] = 0]
      /\ shown' = [shown EXCEPT ![s] = 0]
      /\ running' = [running EXCEPT ![s] = 0]
      /\ reloaded' = [reloaded EXCEPT ![s] = {}]
      /\ overlap' = overlap \ {s} /\ log' = {}
      /\ \E r \in Reach : reach' = [reach EXCEPT ![s] = r]
      /\ UNCHANGED <<remote, head, table>>
  BY DEF Restart
<1>4. NoJob \in Job /\ ~NoJob.ok
  BY DEF NoJob, Job
<1>5. ASSUME NEW q \in Syncer
      PROVE  /\ dropped(q) \in Job
             /\ dropped(q).ok = job[q].ok
             /\ dropped(q).commit = job[q].commit
             /\ dropped(q).file = job[q].file
  <2>1. job[q] \in Job
    BY <1>1 DEF TypeOK
  <2>2. dropped(q) \in Job
    BY <2>1, JobFields
  <2> QED
    BY <2>1, <2>2 DEF Job
<1> HIDE DEF dropped
<1>6. faults' \in 0 .. MaxFaults
  BY <1>1 DEF Restart, TypeOK, SyncAssumption
<1>7. TypeOK'
  <2>1. job' \in [Syncer -> Job]
    BY <1>2, <1>4, <1>5
  <2>2. pc' \in [Syncer -> Stage]
    BY <1>1, <1>2 DEF TypeOK, Stage
  <2>3. /\ current' \in [Server -> Commit \cup {0}]
        /\ reach' \in [Server -> Reach]
        /\ shown' \in [Server -> Commit \cup {0}]
        /\ running' \in [Server -> Commit \cup {0}]
        /\ reloaded' \in [Server -> SUBSET Commit]
    BY <1>1, <1>3 DEF TypeOK
  <2>4. overlap' \subseteq Server /\ log' \subseteq LogRow
    BY <1>1, <1>3 DEF TypeOK
  <2> QED
    BY <1>1, <1>3, <1>6, <2>1, <2>2, <2>3, <2>4 DEF TypeOK
<1>8. \A r \in Server \ {s} : /\ current'[r] = current[r]
                             /\ reach'[r] = reach[r]
                             /\ running'[r] = running[r]
                             /\ reloaded'[r] = reloaded[r]
  BY <1>1, <1>3 DEF TypeOK
<1>9. current'[s] = 0 /\ running'[s] = 0
  BY <1>1, <1>3 DEF TypeOK
<1>10. ASSUME NEW q \in Syncer PROVE Ready(q)'
  <2>1. CASE ServerOf[q] = s
    BY <1>2, <1>4, <2>1 DEF Ready
  <2>2. CASE ServerOf[q] # s
    <3>1. ServerOf[q] \in Server \ {s}
      BY <2>2 DEF SyncAssumption
    <3>2. head[ServerOf[q]] <= head'[ServerOf[q]]
      BY <1>1, <1>3, <3>1 DEF TypeOK, Commit
    <3>3. pc'[q] = pc[q] /\ job'[q] = dropped(q)
      BY <1>2, <2>2
    <3>4. /\ reloaded[ServerOf[q]] \subseteq reloaded'[ServerOf[q]]
          /\ reach'[ServerOf[q]] = reach[ServerOf[q]]
      BY <1>8, <3>1
    <3> QED
      BY <1>1, <1>5, <1>7, <3>2, <3>3, <3>4, ReadyKept DEF IInv
  <2> QED
    BY <2>1, <2>2
<1>11. Applied'
  BY <1>1, <1>8, <1>9 DEF Applied
<1>12. Alone'
  <2>1. ASSUME NEW r \in Server
        PROVE  head'[r] <= remote' /\ running'[r] <= head'[r]
    <3>1. head[r] \in Nat
      BY <1>1 DEF TypeOK, Commit
    <3> QED
      BY <1>1, <1>3, <1>8, <1>9, <3>1 DEF Alone
  <2>2. ASSUME NEW r \in Server, r \notin overlap',
               NEW q \in Syncer, ServerOf[q] = r
        PROVE  /\ \A x \in Syncer \ {q} :
                    ServerOf[x] = r => pc'[q] = "idle" \/ pc'[x] = "idle"
               /\ pc'[q] \in {"list", "apply", "reload"} => job'[q].file = head'[r]
    <3>1. CASE r = s
      BY <1>2, <2>2, <3>1
    <3>2. CASE r # s
      <4>1. r \notin overlap
        BY <1>3, <2>2, <3>2
      <4>2. \A x \in Syncer : ServerOf[x] = r => pc'[x] = pc[x]
        BY <1>2, <3>2
      <4>3. job'[q].file = job[q].file /\ head'[r] = head[r]
        BY <1>2, <1>3, <1>5, <2>2, <3>2
      <4> QED
        BY <1>1, <2>2, <4>1, <4>2, <4>3 DEF Alone
    <3> QED
      BY <3>1, <3>2
  <2> QED
    BY <2>1, <2>2 DEF Alone
<1> QED
  BY <1>7, <1>10, <1>11, <1>12 DEF IInv

LEMMA PushKeeps ==
    ASSUME SyncAssumption, IInv, Push
    PROVE  IInv'
<1>1. TypeOK /\ Applied /\ Alone
  BY DEF IInv
<1>2. UNCHANGED <<head, table, log, pc, job, faults, overlap,
                  current, reach, shown, running, reloaded>>
  BY DEF Push, Config0
<1>3. remote' \in Commit /\ remote <= remote' /\ remote \in Nat /\ remote' \in Nat
  BY <1>1 DEF Push, TypeOK, Commit, SyncAssumption
<1>4. TypeOK'
  BY <1>1, <1>2, <1>3 DEF TypeOK
<1>5. ASSUME NEW r \in Server PROVE head[r] \in Nat /\ head[r] <= remote'
  BY <1>1, <1>3 DEF Alone, TypeOK, Commit
<1>6. Alone'
  BY <1>1, <1>2, <1>5 DEF Alone
<1>7. Applied' /\ \A q \in Syncer : Ready(q)'
  BY <1>1, <1>2 DEF Applied, Ready, IInv
<1> QED
  BY <1>4, <1>6, <1>7 DEF IInv

LEMMA StutterKeeps ==
    ASSUME IInv, UNCHANGED vars
    PROVE  IInv'
BY DEF IInv, vars, TypeOK, Applied, Alone, Ready
-----------------------------------------------------------------------------
(* Every step keeps the inductive invariant.                               *)
LEMMA IInvStep == IInv /\ [Next]_vars => IInv'
<1> SUFFICES ASSUME IInv, [Next]_vars PROVE IInv'
  OBVIOUS
<1> USE SyncAssumption
<1>1. ASSUME NEW p \in Syncer, Begin(p) PROVE IInv'
  BY <1>1, BeginKeeps
<1>2. ASSUME NEW p \in Syncer, Proceed(p) PROVE IInv'
  BY <1>2, PullKeeps, DecideKeeps, ReadKeeps, ListKeeps, UpsertStep, DeleteKeeps,
     ShowKeeps, ReloadKeeps, RecordKeeps, FinishKeeps DEF Proceed
<1>3. ASSUME NEW p \in Api, Cancel(p) PROVE IInv'
  BY <1>3, CancelKeeps DEF SyncAssumption
<1>4. ASSUME NEW s \in Server, Restart(s) PROVE IInv'
  BY <1>4, RestartKeeps
<1>5. CASE Push
  BY <1>5, PushKeeps
<1>6. CASE UNCHANGED vars
  BY <1>6, StutterKeeps
<1> QED
  BY <1>1, <1>2, <1>3, <1>4, <1>5, <1>6 DEF Next

(* Type correctness of the synchronisation, whatever the servers, syncs,   *)
(* commits and faults, with the invariant on its stages                    *)
(* (gitops/sync.go:49-132).                                                *)
THEOREM InvariantHolds == Spec => []IInv
BY InitHolds, IInvStep, SyncAssumption, PTL DEF Spec

(* A sync that ends in success has its commit, or one after it, put into   *)
(* force in its server since the server started, if that has a web         *)
(* interface and a DHCP server: however many syncs run at once, with any   *)
(* faults, and however the servers start again                             *)
(* (gitops/sync.go:73-131, cmd/godhcp/main.go:149-190).                    *)
THEOREM SuccessImpliesReloaded == Spec => []SuccessMeansReloaded
<1>1. IInv => SuccessMeansReloaded
  BY SyncAssumption DEF IInv, Ready, SuccessMeansReloaded, SyncAssumption
<1> QED
  BY <1>1, InvariantHolds, PTL

(* What is in force changes by a reload, which only moves forward without  *)
(* overlap, or by a restart.                                               *)
LEMMA RunningStep ==
    ASSUME IInv, [Next]_vars, NEW s \in Server, s \notin overlap
    PROVE  running'[s] >= running[s] \/ running'[s] = 0
<1> USE SyncAssumption
<1>1. TypeOK /\ Alone /\ running[s] \in Nat /\ head[s] \in Nat /\ running[s] <= head[s]
  BY DEF IInv, Alone, TypeOK, Commit
<1>2. CASE running' = running
  BY <1>1, <1>2
<1>3. ASSUME NEW p \in Syncer, Reload(p), running' # running
      PROVE  running'[s] >= running[s]
  <2>1. running' = [running EXCEPT ![ServerOf[p]] = job[p].file] /\ pc[p] = "reload"
    BY <1>3 DEF Reload, ReloadSubnets
  <2>2. CASE ServerOf[p] = s
    <3>1. job[p].file = head[s]
      BY <1>1, <2>1, <2>2 DEF Alone
    <3> QED
      BY <1>1, <2>1, <2>2, <3>1 DEF TypeOK
  <2>3. CASE ServerOf[p] # s
    BY <1>1, <2>1, <2>3 DEF TypeOK
  <2> QED
    BY <2>2, <2>3
<1>4. ASSUME NEW r \in Server, Restart(r)
      PROVE  running'[s] >= running[s] \/ running'[s] = 0
  BY <1>1, <1>4 DEF Restart, TypeOK
<1>5. ASSUME NEW p \in Syncer, Begin(p) \/ Proceed(p), ~Reload(p)
      PROVE  running' = running
  BY <1>5 DEF Begin, Proceed, Pull, Decide, Read, List, Upsert, Delete, Show, Record,
              Finish, Config0
<1>6. ASSUME NEW p \in Api, Cancel(p) PROVE running' = running
  BY <1>6 DEF Cancel, Config0
<1>7. CASE Push \/ UNCHANGED vars
  BY <1>2, <1>7 DEF Push, vars, Config0
<1> QED
  BY <1>2, <1>3, <1>4, <1>5, <1>6, <1>7 DEF Next

(* As long as syncs do not overlap, no server goes back to the             *)
(* configuration of an earlier commit, except by a restart                 *)
(* (gitops/sync.go:66-129, dhcp/server.go:275).                            *)
THEOREM NeverRollsBack == Spec => NoRollback
<1>1. IInv /\ [Next]_vars =>
        [\A s \in Server :
           s \notin overlap => running'[s] >= running[s] \/ running'[s] = 0]_vars
  BY RunningStep
<1> QED
  BY <1>1, InvariantHolds, PTL DEF Spec, NoRollback
-----------------------------------------------------------------------------
(***************************************************************************)
(* The servers implement Deployment.                                       *)
(***************************************************************************)
LEMMA BeginDeploys ==
    ASSUME NEW p \in Syncer, Begin(p) PROVE D!Next \/ UNCHANGED D!vars
<1> DEFINE s == ServerOf[p]
<1>1. s \in Server
  BY SyncAssumption DEF SyncAssumption
<1>2. UNCHANGED <<remote, head, reach, running>> /\ overlap' \in {overlap, overlap \cup {s}}
  BY DEF Begin, Config0
<1>3. CASE overlap' = overlap \cup {s}
  BY <1>1, <1>2, <1>3 DEF D!Next, D!Muddle
<1> QED
  BY <1>2, <1>3 DEF D!vars

LEMMA PullDeploys ==
    ASSUME NEW p \in Syncer, Pull(p) PROVE D!Next \/ UNCHANGED D!vars
<1> DEFINE s == ServerOf[p]
<1>1. s \in Server
  BY SyncAssumption DEF SyncAssumption
<1>2. /\ UNCHANGED <<remote, overlap, reach, running>>
      /\ head' = head \/ head' = [head EXCEPT ![s] = remote]
  BY DEF Pull, Config0
<1>3. CASE head' = [head EXCEPT ![s] = remote]
  BY <1>1, <1>2, <1>3 DEF D!Next, D!Fetch
<1> QED
  BY <1>2, <1>3 DEF D!vars

(* What is reloaded was validated when it was read, and parses; without    *)
(* overlap no pull has moved the clone since.                              *)
LEMMA ReloadDeploys ==
    ASSUME IInv, NEW p \in Syncer, Reload(p) PROVE D!Next \/ UNCHANGED D!vars
<1> DEFINE s == ServerOf[p]
           c == job[p].file
<1>1. s \in Server /\ Ready(p) /\ Alone /\ pc[p] = "reload"
  BY SyncAssumption DEF SyncAssumption, IInv, Reload
<1>2. UNCHANGED <<remote, head, reach, overlap>>
  BY DEF Reload
<1>3. CASE reach[s] = "all" /\ Parses(c)
  <2>1. running' = [running EXCEPT ![s] = c]
    BY <1>3 DEF Reload, ReloadSubnets
  <2>2. c \in Commit /\ Applicable(c) /\ c <= head[s]
    BY <1>1, <1>3 DEF Ready, Applicable, Parses
  <2>3. s \notin overlap => c = head[s]
    BY <1>1 DEF Alone
  <2>4. D!Deploy(s, c)
    BY <1>1, <1>2, <1>3, <2>1, <2>2, <2>3 DEF D!Deploy
  <2> QED
    BY <1>1, <2>2, <2>4 DEF D!Next, Commit
<1>4. CASE ~(reach[s] = "all" /\ Parses(c))
  BY <1>2, <1>4 DEF Reload, D!vars
<1> QED
  BY <1>3, <1>4

(* A server that starts again may have a DHCP server, or not.              *)
LEMMA RestartDeploys == ASSUME IInv, NEW s \in Server, Restart(s) PROVE D!Next
<1> DEFINE able(r) == {x \in Server : r[x] = "all"}
<1>1. PICK r \in Reach : reach' = [reach EXCEPT ![s] = r]
  BY DEF Restart
<1>2. able(reach') \in {able(reach) \cup {s}, able(reach) \ {s}}
  BY <1>1 DEF IInv, TypeOK
<1>3. D!Restart(s)
  BY <1>2 DEF Restart, D!Restart
<1> QED
  BY <1>3 DEF D!Next

LEMMA StepDeploys ==
    ASSUME IInv, [Next]_vars PROVE D!Next \/ UNCHANGED D!vars
<1>1. ASSUME NEW p \in Syncer, Begin(p) PROVE D!Next \/ UNCHANGED D!vars
  BY <1>1, BeginDeploys
<1>2. ASSUME NEW p \in Syncer, Proceed(p) PROVE D!Next \/ UNCHANGED D!vars
  <2>1. CASE Pull(p) \/ Reload(p)
    BY <2>1, PullDeploys, ReloadDeploys
  <2>2. CASE Decide(p) \/ Read(p) \/ List(p)
    BY <2>2 DEF Decide, Read, List, Config0, D!vars
  <2>3. CASE Upsert(p) \/ (\E m \in MAC : Delete(p, m))
    BY <2>3 DEF Upsert, Delete, Config0, D!vars
  <2>4. CASE Show(p) \/ Record(p) \/ Finish(p)
    BY <2>4 DEF Show, Record, Finish, Config0, D!vars
  <2> QED
    BY <1>2, <2>1, <2>2, <2>3, <2>4 DEF Proceed
<1>3. ASSUME NEW p \in Api, Cancel(p) PROVE UNCHANGED D!vars
  BY <1>3 DEF Cancel, Config0, D!vars
<1>4. ASSUME NEW s \in Server, Restart(s) PROVE D!Next
  BY <1>4, RestartDeploys
<1>5. CASE Push
  BY <1>5 DEF Push, Config0, D!Next, D!Publish
<1>6. CASE UNCHANGED vars
  BY <1>6 DEF vars, D!vars
<1> QED
  BY <1>1, <1>2, <1>3, <1>4, <1>5, <1>6 DEF Next

(* What the servers run comes from the branch by way of their clones,      *)
(* validated and whole, for any number of servers, syncs, commits and      *)
(* failures; without overlap it is the commit the clone is at              *)
(* (gitops/sync.go:66-129, 219-328).                                       *)
THEOREM ImplementsDeployment == Spec => Implements
<1>1. Init => D!Init
  BY DEF Init, D!Init
<1>2. IInv /\ [Next]_vars => [D!Next]_(D!vars)
  BY StepDeploys
<1> QED
  BY <1>1, <1>2, InvariantHolds, PTL DEF Spec, Implements, D!Spec

=============================================================================
