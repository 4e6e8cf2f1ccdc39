--------------------------- MODULE GitRecordProofs ---------------------------
(***************************************************************************)
(* What a lone server keeps of its synchronisations, for every number of   *)
(* syncs, commits and reservations: each configuration it has put into     *)
(* force is accounted for in the log, and, as long as nothing fails or     *)
(* overlaps, the reservations are those of the configuration it runs.      *)
(***************************************************************************)
EXTENDS GitSyncProofs, SequenceTheorems

(***************************************************************************)
(* A step moves one sync at most.                                          *)
(***************************************************************************)
LEMMA ProceedAlone ==
    ASSUME TypeOK, NEW p \in Syncer, NEW q \in Syncer \ {p}, Proceed(p) \/ Begin(p)
    PROVE  pc'[q] = pc[q] /\ job'[q] = job[q]
<1>1. ASSUME NEW stage, Goto(p, stage) PROVE pc'[q] = pc[q]
  BY <1>1 DEF Goto, TypeOK
<1>2. ASSUME NEW j, Set(p, j) PROVE job'[q] = job[q]
  BY <1>2 DEF Set, TypeOK
<1>3. CASE Begin(p) \/ Pull(p) \/ Decide(p) \/ Read(p) \/ List(p)
  BY <1>1, <1>2, <1>3 DEF Begin, Pull, Decide, Read, List
<1>4. CASE Upsert(p) \/ (\E m \in MAC : Delete(p, m))
  BY <1>2, <1>4 DEF Upsert, Delete
<1>5. CASE Show(p) \/ Reload(p) \/ Record(p) \/ Finish(p)
  BY <1>1, <1>2, <1>5 DEF Show, Reload, Record, Finish
<1> QED
  BY <1>3, <1>4, <1>5 DEF Proceed

(* What Read, List and the statements of applyConfig leave of the local    *)
(* variables.                                                              *)
LEMMA ReadJob ==
    ASSUME NEW j \in Job, NEW f, NEW k, k = [j EXCEPT !.file = f]
    PROVE  /\ k.row = j.row /\ k.ok = j.ok /\ k.cancelled = j.cancelled
           /\ k.file = f /\ k.known = j.known /\ k.next = j.next
BY DEF Job

LEMMA ListJob ==
    ASSUME NEW j \in Job, NEW t, NEW k, k = [j EXCEPT !.known = t]
    PROVE  /\ k.row = j.row /\ k.ok = j.ok /\ k.cancelled = j.cancelled
           /\ k.file = j.file /\ k.known = t /\ k.next = j.next
BY DEF Job

LEMMA ApplyJob ==
    ASSUME NEW j \in Job, NEW m \in MAC, NEW k,
           k = [j EXCEPT !.known[m] = NoRow]
    PROVE  /\ k.row = j.row /\ k.ok = j.ok /\ k.cancelled = j.cancelled
           /\ k.file = j.file /\ k.next = j.next
           /\ k.known = [j.known EXCEPT ![m] = NoRow]
BY DEF Job

LEMMA ForgetJob ==
    ASSUME NEW j \in Job, NEW m, NEW k,
           k = [j EXCEPT !.next = @ + 1, !.known = Forget(@, m)]
    PROVE  /\ k.row = j.row /\ k.ok = j.ok /\ k.cancelled = j.cancelled
           /\ k.file = j.file /\ k.next = j.next + 1
           /\ k.known = Forget(j.known, m)
BY DEF Job

(* What the file p has read holds.                                         *)
LEMMA ListedTyped ==
    ASSUME IInv, NEW p \in Syncer, pc[p] \in {"list", "apply", "reload", "record"}
    PROVE  /\ job[p].file \in Commit /\ Config[job[p].file].valid
           /\ Len(Res(p)) \in Nat
           /\ \A i \in 1 .. Len(Res(p)) : Res(p)[i] \in Entry
<1>1. job[p].file \in Commit /\ Config[job[p].file].valid
  BY DEF IInv, Ready
<1>2. Config[job[p].file] \in ConfigFile
  BY <1>1, SyncAssumption DEF SyncAssumption, Commit
<1>3. Res(p) \in Seq(Entry)
  BY <1>2 DEF Res, ConfigFile
<1>4. /\ Len(Res(p)) \in Nat
      /\ \A i \in 1 .. Len(Res(p)) : Res(p)[i] \in Entry
  BY <1>3, LenProperties, ElementOfSeq
<1> QED
  BY <1>1, <1>4

(* In a lone server every sync is the server's.                            *)
LEMMA LoneServer ==
    ASSUME NEW s \in Server, Lone(s), NEW p \in Syncer PROVE ServerOf[p] = s
BY SyncAssumption DEF Lone, SyncAssumption
-----------------------------------------------------------------------------
(***************************************************************************)
(* The log.                                                                *)
(***************************************************************************)
(* The part of Audited about s.                                            *)
AuditedAt(s) ==
    /\ \A p \in Syncer :
          /\ job[p].row
          /\ pc[p] \in {"pull", "decide", "read"} => job[p].file = 0
          /\ pc[p] = "finish" /\ job[p].ok /\ job[p].file # 0 =>
                job[p].commit <= job[p].file
    /\ \A c \in reloaded[s] : Logged(c) \/ \E p \in Syncer : Reports(p, c)

LEMMA InitAudited == Init => Audited
BY DEF Init, Audited, NoJob

(* A step of p that neither ends it nor puts anything into force.          *)
LEMMA AuditKept ==
    ASSUME TypeOK, NEW s \in Server, AuditedAt(s), NEW p \in Syncer,
           \A q \in Syncer \ {p} : pc'[q] = pc[q] /\ job'[q] = job[q],
           log' = log, reloaded'[s] = reloaded[s],
           job'[p].row,
           pc'[p] \in {"pull", "decide", "read"} => job'[p].file = 0,
           pc'[p] = "finish" /\ job'[p].ok /\ job'[p].file # 0 =>
              job'[p].commit <= job'[p].file,
           \A c \in reloaded[s] : Reports(p, c) => Reports(p, c)'
    PROVE  AuditedAt(s)'
<1>1. ASSUME NEW c \in reloaded'[s]
      PROVE  Logged(c)' \/ \E q \in Syncer : Reports(q, c)'
  <2>1. CASE Logged(c)
    BY <2>1 DEF Logged
  <2>2. ASSUME NEW q \in Syncer, Reports(q, c) PROVE Reports(q, c)'
    BY <1>1, <2>2 DEF Reports
  <2> QED
    BY <1>1, <2>1, <2>2 DEF AuditedAt
<1> QED
  BY <1>1 DEF AuditedAt

LEMMA ProceedAudited ==
    ASSUME IInv, NEW s \in Server, Lone(s), AuditedAt(s), NEW p \in Syncer,
           Proceed(p) \/ Begin(p)
    PROVE  AuditedAt(s)'
<1> USE SyncAssumption
<1>1. /\ TypeOK /\ Ready(p) /\ ServerOf[p] = s /\ job[p] \in Job /\ job[p].row
      /\ job \in [Syncer -> Job] /\ pc \in [Syncer -> Stage]
      /\ reloaded \in [Server -> SUBSET Commit]
  BY LoneServer DEF IInv, TypeOK, AuditedAt
<1>2. \A q \in Syncer \ {p} : pc'[q] = pc[q] /\ job'[q] = job[q]
  BY <1>1, ProceedAlone
<1>3. CASE Begin(p)
  <2>1. /\ pc[p] = "idle" /\ pc'[p] = "pull" /\ job'[p] = NoJob
        /\ log' = log /\ reloaded' = reloaded
    BY <1>1, <1>3 DEF Begin, Goto, Set, Config0
  <2>2. NoJob.row /\ NoJob.file = 0
    BY DEF NoJob
  <2> QED
    BY <1>1, <1>2, <2>1, <2>2, AuditKept DEF Reports
<1>4. CASE Pull(p)
  <2>1. /\ pc[p] = "pull" /\ pc'[p] \in {"decide", "read", "finish"}
        /\ log' = log /\ reloaded' = reloaded
    BY <1>1, <1>4 DEF Pull, Goto, Config0
  <2>2. job'[p].row /\ job'[p].file = job[p].file
    <3>1. job'[p] = job[p] \/ job'[p] = [job[p] EXCEPT !.commit = remote]
      BY <1>1, <1>4 DEF Pull, Set
    <3> QED
      BY <1>1, <3>1 DEF Job
  <2> QED
    BY <1>1, <1>2, <2>1, <2>2, AuditKept DEF Reports, AuditedAt
<1>5. CASE Decide(p)
  <2>1. /\ pc[p] = "decide" /\ pc'[p] \in {"read", "finish"}
        /\ log' = log /\ reloaded' = reloaded
    BY <1>1, <1>5 DEF Decide, Goto, Config0
  <2>2. job'[p].row /\ job'[p].file = job[p].file
    <3>1. job'[p] = job[p] \/ job'[p] = [job[p] EXCEPT !.ok = TRUE]
      BY <1>1, <1>5 DEF Decide, Set
    <3> QED
      BY <1>1, <3>1 DEF Job
  <2> QED
    BY <1>1, <1>2, <2>1, <2>2, AuditKept DEF Reports, AuditedAt
<1>6. CASE Read(p) \/ List(p)
  <2>1. /\ pc[p] \in {"read", "list"} /\ pc'[p] \in {"list", "apply", "finish"}
        /\ log' = log /\ reloaded' = reloaded
    BY <1>1, <1>6 DEF Read, List, Goto, Config0
  <2>2. \/ job'[p] = job[p]
        \/ job'[p] = [job[p] EXCEPT !.file = head[s]]
        \/ job'[p] = [job[p] EXCEPT !.known = table]
    BY <1>1, <1>6 DEF Read, List, Set
  <2>3. job'[p].row = job[p].row /\ job'[p].ok = job[p].ok
    <3>1. CASE job'[p] = [job[p] EXCEPT !.file = head[s]]
      BY <1>1, <3>1 DEF Job
    <3>2. CASE job'[p] = [job[p] EXCEPT !.known = table]
      BY <1>1, <3>2 DEF Job
    <3> QED
      BY <2>2, <3>1, <3>2
  <2> QED
    BY <1>1, <1>2, <2>1, <2>3, AuditKept DEF Reports, Ready
<1>7. CASE Upsert(p) \/ (\E m \in MAC : Delete(p, m))
  <2>1. /\ pc[p] = "apply" /\ pc' = pc /\ log' = log /\ reloaded' = reloaded
    BY <1>7 DEF Upsert, Delete, Config0
  <2>2. \/ \E m : job'[p] = [job[p] EXCEPT !.next = @ + 1, !.known = Forget(@, m)]
        \/ \E m \in MAC : job'[p] = [job[p] EXCEPT !.known[m] = NoRow]
    BY <1>1, <1>7 DEF Upsert, Delete, Set
  <2>3. job'[p].row = job[p].row
    BY <1>1, <2>2, ApplyJob, ForgetJob
  <2> QED
    BY <1>1, <1>2, <2>1, <2>3, AuditKept DEF Reports
<1>8. CASE Show(p)
  <2>1. /\ pc[p] = "apply" /\ pc'[p] \in {"reload", "record"} /\ job' = job
        /\ log' = log /\ reloaded' = reloaded
    BY <1>1, <1>8 DEF Show, Goto
  <2> QED
    BY <1>1, <1>2, <2>1, AuditKept DEF Reports
<1>9. CASE Reload(p)
  <2>1. /\ pc[p] = "reload" /\ job' = job /\ log' = log
    BY <1>9 DEF Reload
  <2>2. CASE reach[s] = "all" /\ Parses(job[p].file)
    <3>1. pc'[p] = "record" /\ reloaded'[s] = reloaded[s] \cup {job[p].file}
      BY <1>1, <1>9, <2>2 DEF Reload, ReloadSubnets, Goto
    <3>2. ASSUME NEW c \in reloaded'[s]
          PROVE  Logged(c)' \/ \E q \in Syncer : Reports(q, c)'
      <4>1. CASE c = job[p].file
        BY <2>1, <3>1, <4>1 DEF Reports
      <4>2. CASE Logged(c)
        BY <2>1, <4>2 DEF Logged
      <4>3. ASSUME NEW q \in Syncer, Reports(q, c) PROVE Reports(q, c)'
        BY <1>2, <2>1, <4>3 DEF Reports
      <4> QED
        BY <3>1, <3>2, <4>1, <4>2, <4>3 DEF AuditedAt
    <3> QED
      BY <1>2, <2>1, <3>1, <3>2 DEF AuditedAt
  <2>3. CASE ~(reach[s] = "all" /\ Parses(job[p].file))
    <3>1. pc'[p] \in {"record", "finish"} /\ reloaded' = reloaded
      BY <1>1, <1>9, <2>3 DEF Reload, Goto
    <3> QED
      BY <1>1, <1>2, <2>1, <3>1, AuditKept DEF Reports, Ready
  <2> QED
    BY <2>2, <2>3
<1>10. CASE Record(p)
  <2>1. /\ pc[p] = "record" /\ pc'[p] = "finish" /\ log' = log /\ reloaded' = reloaded
        /\ job'[p] = [job[p] EXCEPT !.ok = TRUE]
    BY <1>1, <1>10 DEF Record, Goto, Set
  <2>2. /\ job'[p].row /\ job'[p].ok
        /\ job'[p].file = job[p].file /\ job'[p].commit = job[p].commit
    BY <1>1, <2>1 DEF Job
  <2> QED
    BY <1>1, <1>2, <2>1, <2>2, AuditKept DEF Reports, Ready
<1>11. CASE Finish(p)
  <2>1. /\ pc[p] = "finish" /\ pc'[p] = "idle" /\ job'[p] = NoJob /\ reloaded' = reloaded
    BY <1>1, <1>11 DEF Finish, Goto, Set, Config0
  <2>2. NoJob.row
    BY DEF NoJob
  <2>3. log \subseteq log'
    BY <1>11 DEF Finish
  <2>4. ASSUME NEW c \in reloaded[s], Reports(p, c) PROVE Logged(c)'
    <3>1. job[p].ok /\ job[p].file = c /\ c \in Commit
      BY <1>1, <2>1, <2>4 DEF Reports
    <3>2. job[p].commit <= c
      BY <2>1, <3>1 DEF AuditedAt, Commit
    <3>3. \/ [status |-> "success", commit |-> job[p].commit] \in log'
          \/ [status |-> "in_progress", commit |-> 0] \in log'
      BY <1>1, <1>11, <3>1 DEF Finish
    <3> QED
      BY <3>2, <3>3 DEF Logged
  <2>5. ASSUME NEW c \in reloaded'[s]
        PROVE  Logged(c)' \/ \E q \in Syncer : Reports(q, c)'
    <3>1. ASSUME Logged(c) PROVE Logged(c)'
      BY <2>3, <3>1 DEF Logged
    <3>2. ASSUME NEW q \in Syncer \ {p}, Reports(q, c) PROVE Reports(q, c)'
      BY <1>2, <3>2 DEF Reports
    <3> QED
      BY <2>1, <2>4, <2>5, <3>1, <3>2 DEF AuditedAt
  <2> QED
    BY <1>2, <2>1, <2>2, <2>5 DEF AuditedAt
<1> QED
  BY <1>3, <1>4, <1>5, <1>6, <1>7, <1>8, <1>9, <1>10, <1>11 DEF Proceed

LEMMA AuditedStep == ASSUME IInv, Audited, [Next]_vars PROVE Audited'
<1> USE SyncAssumption
<1> SUFFICES ASSUME NEW s \in Server, Lone(s) PROVE AuditedAt(s)'
  BY DEF Audited, AuditedAt, Lone
<1>1. AuditedAt(s) /\ TypeOK
  BY DEF Audited, AuditedAt, IInv
<1>2. ASSUME NEW p \in Syncer, Begin(p) \/ Proceed(p) PROVE AuditedAt(s)'
  BY <1>1, <1>2, ProceedAudited
<1>3. ASSUME NEW p \in Syncer, Cancel(p) PROVE AuditedAt(s)'
  <2>1. /\ pc' = pc /\ log' = log /\ reloaded' = reloaded
        /\ \A q \in Syncer \ {p} : job'[q] = job[q]
        /\ job'[p] = [job[p] EXCEPT !.cancelled = TRUE]
    BY <1>1, <1>3 DEF Cancel, Set, Config0, TypeOK
  <2>2. /\ job'[p].row = job[p].row /\ job'[p].ok = job[p].ok
        /\ job'[p].file = job[p].file /\ job'[p].commit = job[p].commit
    BY <1>1, <2>1 DEF TypeOK, Job
  <2>3. /\ job'[p].row
        /\ pc'[p] \in {"pull", "decide", "read"} => job'[p].file = 0
        /\ pc'[p] = "finish" /\ job'[p].ok /\ job'[p].file # 0 =>
              job'[p].commit <= job'[p].file
    BY <1>1, <2>1, <2>2 DEF AuditedAt
  <2> QED
    BY <1>1, <2>1, <2>2, <2>3, AuditKept DEF Reports
<1>4. ASSUME NEW r \in Server, Restart(r) PROVE AuditedAt(s)'
  <2>1. r = s /\ \A p \in Syncer : ServerOf[p] = s
    BY LoneServer DEF Lone
  <2>2. /\ \A p \in Syncer : pc'[p] = "idle" /\ job'[p] = NoJob
        /\ reloaded'[s] = {}
    BY <1>1, <1>4, <2>1 DEF Restart, TypeOK
  <2>3. NoJob.row
    BY DEF NoJob
  <2> QED
    BY <2>2, <2>3 DEF AuditedAt
<1>5. CASE UNCHANGED <<pc, job, log, reloaded>>
  BY <1>1, <1>5 DEF AuditedAt, Logged, Reports
<1> QED
  BY <1>2, <1>3, <1>4, <1>5 DEF Next, Push, Config0, vars, SyncAssumption

(* The row of a lone server's sync is there until the sync completes it,   *)
(* and what has been put into force is in a completed row or in the hands  *)
(* of a sync that has a row to complete (gitops/sync.go:49-132, 330-346).  *)
THEOREM AuditHolds == Spec => []Audited
<1>1. IInv /\ Audited /\ [Next]_vars => Audited'
  BY AuditedStep
<1> QED
  BY <1>1, InitHolds, IInvStep, InitAudited, SyncAssumption, PTL DEF Spec

(* Whatever a lone server has put into force since it started is accounted *)
(* for in the log, however many syncs run at once and whatever fails       *)
(* (gitops/sync.go:49-132, 330-346).                                       *)
THEOREM LogAccounts == Spec => []AuditCovers
<1>1. Audited => AuditCovers
  BY DEF Audited, AuditCovers, Logged, Reports
<1> QED
  BY <1>1, AuditHolds, PTL
-----------------------------------------------------------------------------
(***************************************************************************)
(* The reservations.                                                       *)
(***************************************************************************)
(* The part of Synced about s.                                             *)
SyncedAt(s) ==
    /\ reach[s] = "none" => shown[s] = 0
    /\ RowsWanted
    /\ \A p \in Syncer : Undisturbed(p)
    /\ \/ \E p \in Syncer : pc[p] = "apply"
       \/ shown[s] # 0 => Follows(shown[s])

LEMMA InitSynced == Init => Synced
<1> SUFFICES ASSUME Init, NEW s \in Server PROVE SyncedAt(s)
  BY DEF Synced, SyncedAt
<1>1. ~NoJob.cancelled /\ NoJob.next = 1
  BY DEF NoJob
<1> QED
  BY <1>1 DEF Init, SyncedAt, RowsWanted, Undisturbed

(* Faults and overlaps are not forgotten, except by a restart, which is a  *)
(* fault itself.                                                           *)
LEMMA FaultsCount ==
    ASSUME TypeOK, [Next]_vars PROVE faults' >= faults
<1> USE SyncAssumption DEF SyncAssumption
<1>1. faults \in Nat /\ faults + 1 >= faults
  BY DEF TypeOK
<1>2. ASSUME NEW p \in Syncer, Begin(p) \/ Proceed(p) PROVE faults' >= faults
  <2>1. ASSUME Succeeds(p) \/ Breaks(p) PROVE faults' >= faults
    BY <1>1, <2>1 DEF Succeeds, Breaks
  <2>2. CASE Begin(p) \/ Pull(p) \/ Decide(p) \/ Read(p) \/ List(p)
    BY <1>1, <2>1, <2>2 DEF Begin, Pull, Decide, Read, List
  <2>3. CASE Upsert(p) \/ (\E m \in MAC : Delete(p, m))
    <3>1. CASE Upsert(p)
      BY <1>1, <2>1, <3>1 DEF Upsert
    <3>2. ASSUME NEW m \in MAC, Delete(p, m) PROVE faults' >= faults
      BY <1>1, <2>1, <3>2 DEF Delete
    <3> QED
      BY <2>3, <3>1, <3>2
  <2>4. CASE Show(p) \/ Reload(p) \/ Record(p) \/ Finish(p)
    BY <1>1, <2>1, <2>4 DEF Show, Reload, Record, Finish
  <2> QED
    BY <1>2, <2>2, <2>3, <2>4 DEF Proceed
<1>3. ASSUME NEW p \in Syncer, Cancel(p) PROVE faults' >= faults
  BY <1>1, <1>3 DEF Cancel
<1>4. ASSUME NEW s \in Server, Restart(s) PROVE faults' >= faults
  BY <1>1, <1>4 DEF Restart
<1>5. CASE Push \/ UNCHANGED vars
  BY <1>1, <1>5 DEF Push, vars
<1> QED
  BY <1>2, <1>3, <1>4, <1>5 DEF Next

LEMMA SmoothBefore ==
    ASSUME TypeOK, [Next]_vars, NEW s \in Server, Smooth(s)'
    PROVE  Smooth(s) /\ faults = 0 /\ faults' = 0
<1> USE SyncAssumption DEF SyncAssumption
<1>1. faults = 0 /\ faults' = 0 /\ Lone(s) /\ s \notin overlap'
  BY FaultsCount DEF Smooth, Lone, TypeOK
<1>2. ASSUME NEW r \in Server, Restart(r) PROVE FALSE
  BY <1>1, <1>2 DEF Restart
<1>3. ASSUME NEW p \in Syncer, Begin(p) PROVE overlap \subseteq overlap'
  BY <1>3 DEF Begin
<1>4. ASSUME NEW p \in Syncer, Proceed(p) PROVE overlap' = overlap
  <2>1. CASE Pull(p) \/ Decide(p) \/ Read(p) \/ List(p)
    BY <2>1 DEF Pull, Decide, Read, List
  <2>2. CASE Upsert(p) \/ (\E m \in MAC : Delete(p, m))
    BY <2>2 DEF Upsert, Delete
  <2>3. CASE Show(p) \/ Reload(p) \/ Record(p) \/ Finish(p)
    BY <2>3 DEF Show, Reload, Record, Finish
  <2> QED
    BY <1>4, <2>1, <2>2, <2>3 DEF Proceed
<1>5. overlap \subseteq overlap'
  BY <1>2, <1>3, <1>4 DEF Next, Cancel, Push, vars
<1> QED
  BY <1>1, <1>5 DEF Smooth

(* A lone server without overlaps runs one sync at a time.                 *)
LEMMA Sole ==
    ASSUME IInv, [Next]_vars, NEW s \in Server, Smooth(s)', NEW p \in Syncer,
           pc[p] # "idle" \/ Begin(p), NEW q \in Syncer \ {p}
    PROVE  pc[q] = "idle"
<1>1. Smooth(s) /\ ServerOf[p] = s /\ ServerOf[q] = s
  BY SmoothBefore, LoneServer DEF IInv, Smooth
<1>2. CASE pc[p] # "idle"
  BY <1>1, <1>2 DEF IInv, Alone, Smooth
<1>3. CASE Begin(p)
  BY <1>1, <1>3 DEF Begin, Smooth
<1> QED
  BY <1>2, <1>3

(* A step of the only sync there is.                                       *)
LEMMA SyncedKept ==
    ASSUME NEW s \in Server, SyncedAt(s), NEW p \in Syncer,
           \A q \in Syncer \ {p} :
              pc[q] = "idle" /\ pc'[q] = pc[q] /\ job'[q] = job[q],
           Undisturbed(p)', RowsWanted',
           reach'[s] = "none" => shown'[s] = 0,
           \/ pc'[p] = "apply"
           \/ shown'[s] # 0 => Follows(shown[s])'
    PROVE  SyncedAt(s)'
<1>1. ASSUME NEW q \in Syncer \ {p} PROVE Undisturbed(q)'
  BY <1>1 DEF SyncedAt, Undisturbed
<1> QED
  BY <1>1 DEF SyncedAt

(* One that touches neither the reservations nor a configuration.          *)
LEMMA SyncedQuiet ==
    ASSUME NEW s \in Server, SyncedAt(s), NEW p \in Syncer,
           \A q \in Syncer \ {p} :
              pc[q] = "idle" /\ pc'[q] = pc[q] /\ job'[q] = job[q],
           table' = table, shown' = shown, reach' = reach,
           pc[p] # "apply",
           Undisturbed(p)'
    PROVE  SyncedAt(s)'
<1>1. RowsWanted'
  BY DEF SyncedAt, RowsWanted
<1>2. shown[s] # 0 => Follows(shown[s])
  BY DEF SyncedAt
<1>3. shown'[s] # 0 => Follows(shown[s])'
  BY <1>2 DEF Follows
<1> QED
  BY <1>1, <1>3, SyncedKept DEF SyncedAt

(* A row that is kept because its address and texts are those of the file  *)
(* is in the subnet of the file.                                           *)
LEMMA SameHolds ==
    ASSUME NeverRenumbered, RowsWanted, NEW e \in Wanted, e.mac \in MAC,
           table[e.mac] # NoRow, Same(table[e.mac], e)
    PROVE  Holds(table[e.mac], e)
<1>1. PICK d \in Wanted : d.mac = e.mac /\ Holds(table[e.mac], d)
  BY DEF RowsWanted
<1>2. d.net = e.net
  BY <1>1 DEF NeverRenumbered, Holds, Same
<1> QED
  BY <1>1, <1>2 DEF Holds, Same

(* No row of another client is in the way of what a file asks for.         *)
LEMMA WantedAccepted ==
    ASSUME NeverMoved, RowsWanted, NEW e \in Wanted
    PROVE  Accepts(e)
<1>1. ASSUME NEW n \in MAC \ {e.mac}, table[n] # NoRow
      PROVE  table[n].ip # e.ip \/ table[n].net # e.net
  <2>1. PICK d \in Wanted : d.mac = n /\ Holds(table[n], d)
    BY <1>1 DEF RowsWanted
  <2> QED
    BY <1>1, <2>1 DEF NeverMoved, Holds
<1> QED
  BY <1>1 DEF Accepts, Wanted

(* What a statement that nothing breaks leaves of the table.               *)
LEMMA StoredRow ==
    ASSUME TypeOK, NEW p \in Syncer, NEW e \in Entry, Stored(p, e),
           Accepts(e), Known(p, e.mac) = table[e.mac]
    PROVE  /\ \A k \in MAC \ {e.mac} : table'[k] = table[k]
           /\ Holds(table'[e.mac], e)
<1> USE SyncAssumption DEF SyncAssumption
<1>1. table \in [MAC -> Row \cup {NoRow}] /\ e.mac \in MAC
  BY DEF TypeOK, Accepts, Storable, Entry
<1>2. ASSUME NEW id \in RowId PROVE NewRow(e, id) # NoRow /\ Holds(NewRow(e, id), e)
  BY DEF NewRow, Row, Holds, Accepts, Storable, Entry
<1>3. PICK id \in RowId : table' = [table EXCEPT ![e.mac] = NewRow(e, id)]
  <2>1. CASE table[e.mac] # NoRow
    BY <1>1, <2>1 DEF Stored, Row
  <2>2. CASE table[e.mac] = NoRow
    BY <2>2 DEF Stored, UnusedIds
  <2> QED
    BY <2>1, <2>2
<1> QED
  BY <1>1, <1>2, <1>3

(* The next statement of a sync that nothing disturbs.                     *)
LEMMA UpsertSynced ==
    ASSUME OneEach, NeverMoved, NeverRenumbered, IInv, NEW p \in Syncer, Upsert(p),
           Undisturbed(p), RowsWanted, faults = 0, faults' = 0
    PROVE  RowsWanted' /\ Undisturbed(p)'
<1> USE SyncAssumption
<1> DEFINE c == job[p].file
           n == job[p].next
           e == Res(p)[n]
<1>1. /\ TypeOK /\ pc[p] = "apply" /\ pc' = pc /\ job[p] \in Job
      /\ Applying(p) /\ ~job[p].cancelled
  BY DEF IInv, TypeOK, Upsert, Undisturbed
<1>2. /\ c \in Commit /\ Config[c].valid /\ n \in 1 .. Len(Res(p))
      /\ Len(Res(p)) \in Nat /\ e \in Entry
  BY <1>1, ListedTyped DEF Upsert, Job
<1>3. job'[p] = [job[p] EXCEPT !.next = @ + 1, !.known = Forget(@, e.mac)]
  BY <1>1 DEF Upsert, Set, TypeOK
<1>4. /\ job'[p].next = n + 1 /\ ~job'[p].cancelled /\ job'[p].file = c
      /\ job'[p].known = Forget(job[p].known, e.mac) /\ Res(p)' = Res(p)
  <2> DEFINE k == job'[p]
             m == e.mac
  <2>1. k = [job[p] EXCEPT !.next = @ + 1, !.known = Forget(@, m)]
    BY <1>3
  <2> HIDE DEF k, m
  <2>2. /\ k.next = n + 1 /\ k.cancelled = job[p].cancelled /\ k.file = c
        /\ k.known = Forget(job[p].known, m)
    BY <1>1, <2>1 DEF Job
  <2> QED
    BY <1>1, <2>2 DEF k, m, Res
<1>5. ASSUME NEW i \in 1 .. Len(Res(p)), Res(p)[i].mac = e.mac, e.mac # Bad PROVE i = n
  BY <1>2, <1>5 DEF OneEach, Res
<1>6. ASSUME Storable(e) PROVE e \in Wanted
  BY <1>2, <1>6 DEF Wanted, Entries, Res
<1>7. /\ ~Storable(e) => table' = table
      /\ \A k \in MAC \ {e.mac} : table'[k] = table[k]
      /\ Storable(e) => Holds(table'[e.mac], e)
  <2>1. CASE e.mac = Bad
    <3>1. ~Storable(e) /\ ~Accepts(e) /\ Known(p, e.mac) = NoRow
      BY <2>1 DEF Storable, Accepts, Known
    <3> QED
      BY <1>1, <3>1 DEF Upsert, Breaks, Stored
  <2>2. CASE e.mac # Bad
    <3>1. e.mac \in MAC /\ ~Done(p, e.mac)
      BY <1>2, <1>5, <2>2 DEF Entry, Done
    <3>2. Known(p, e.mac) = table[e.mac]
      BY <1>1, <2>2, <3>1 DEF Known, Applying
    <3>3. CASE table[e.mac] # NoRow /\ Same(table[e.mac], e)
      <4>1. table' = table
        BY <3>2, <3>3 DEF Upsert
      <4> QED
        BY <1>6, <3>1, <3>3, <4>1, SameHolds
    <3>4. CASE ~(table[e.mac] # NoRow /\ Same(table[e.mac], e))
      <4>1. Stored(p, e)
        BY <1>1, <3>2, <3>4 DEF Upsert, Breaks
      <4>2. CASE Storable(e)
        BY <1>1, <1>2, <1>6, <3>2, <4>1, <4>2, WantedAccepted, StoredRow
      <4>3. CASE ~Storable(e)
        BY <4>1, <4>3 DEF Stored, Accepts
      <4> QED
        BY <4>2, <4>3
    <3> QED
      BY <3>3, <3>4
  <2> QED
    BY <2>1, <2>2
<1>8. RowsWanted'
  <2>1. ASSUME NEW k \in MAC, table'[k] # NoRow
        PROVE  \E d \in Wanted : d.mac = k /\ Holds(table'[k], d)
    <3>1. CASE table'[k] = table[k]
      BY <2>1, <3>1 DEF RowsWanted, Holds
    <3>2. CASE table'[k] # table[k]
      BY <1>6, <1>7, <3>2
    <3> QED
      BY <3>1, <3>2
  <2> QED
    BY <2>1 DEF RowsWanted, Holds
<1>9. Applying(p)'
  <2>1. ASSUME NEW i \in 1 .. Len(Res(p)), i < n + 1, Storable(Res(p)[i])
        PROVE  Holds(table'[Res(p)[i].mac], Res(p)[i])
    <3>1. CASE i = n
      BY <1>7, <2>1, <3>1
    <3>2. CASE i # n
      <4>1. Res(p)[i] \in Entry /\ i < n
        BY <1>1, <1>2, <2>1, <3>2, ListedTyped
      <4>2. Res(p)[i].mac # Bad /\ Res(p)[i].mac \in MAC \ {e.mac}
        BY <1>5, <2>1, <3>2, <4>1 DEF Storable, Entry
      <4>3. Holds(table[Res(p)[i].mac], Res(p)[i])
        BY <1>1, <2>1, <4>1 DEF Applying
      <4> QED
        BY <1>7, <4>2, <4>3
    <3> QED
      BY <3>1, <3>2
  <2>2. ASSUME NEW k \in MAC PROVE Done(p, k)' <=> (Done(p, k) \/ k = e.mac)
    <3>1. \A i \in 1 .. Len(Res(p)) : i < n + 1 <=> i < n \/ i = n
      BY <1>2
    <3> QED
      BY <1>2, <1>4, <3>1 DEF Done
  <2>3. ASSUME NEW k \in MAC
        PROVE  job'[p].known[k] = IF Done(p, k)' THEN NoRow ELSE table'[k]
    BY <1>1, <1>4, <1>7, <2>2 DEF Applying, Forget
  <2> QED
    BY <1>4, <2>1, <2>3 DEF Applying, Holds
<1> QED
  BY <1>1, <1>4, <1>8, <1>9 DEF Undisturbed

LEMMA DeleteSynced ==
    ASSUME IInv, NEW p \in Syncer, NEW m \in MAC, Delete(p, m),
           Undisturbed(p), RowsWanted, faults = 0, faults' = 0
    PROVE  RowsWanted' /\ Undisturbed(p)'
<1> USE SyncAssumption
<1>1. /\ TypeOK /\ pc[p] = "apply" /\ pc' = pc /\ job[p] \in Job
      /\ Applying(p) /\ ~job[p].cancelled
  BY DEF IInv, TypeOK, Delete, Undisturbed
<1>2. job'[p] = [job[p] EXCEPT !.known[m] = NoRow]
  BY <1>1 DEF Delete, Set, TypeOK
<1>3. /\ job'[p].next = job[p].next /\ ~job'[p].cancelled /\ Res(p)' = Res(p)
      /\ job'[p].known = [job[p].known EXCEPT ![m] = NoRow]
      /\ job[p].known \in [MAC -> Row \cup {NoRow}]
  BY <1>1, <1>2, ApplyJob DEF Res, Job
<1>4. ~Done(p, m) /\ job[p].known[m] = table[m]
  BY <1>1 DEF Delete, Applying
<1>5. table' = [table EXCEPT ![m] = NoRow] /\ table \in [MAC -> Row \cup {NoRow}]
  BY <1>1, <1>4 DEF Delete, Breaks, TypeOK
<1>6. \A k \in MAC : Done(p, k)' <=> Done(p, k)
  BY <1>3 DEF Done
<1>7. Applying(p)'
  <2>1. ASSUME NEW i \in 1 .. Len(Res(p)), i < job[p].next, Storable(Res(p)[i])
        PROVE  Holds(table'[Res(p)[i].mac], Res(p)[i])
    <3>1. Res(p)[i].mac # m
      BY <1>4, <2>1 DEF Done
    <3>2. Res(p)[i].mac \in MAC
      BY <1>1, <2>1, ListedTyped DEF Storable, Entry
    <3>3. Holds(table[Res(p)[i].mac], Res(p)[i])
      BY <1>1, <2>1 DEF Applying
    <3> QED
      BY <1>5, <3>1, <3>2, <3>3
  <2>2. ASSUME NEW k \in MAC
        PROVE  job'[p].known[k] = IF Done(p, k)' THEN NoRow ELSE table'[k]
    BY <1>1, <1>3, <1>5, <1>6 DEF Applying
  <2> QED
    BY <1>3, <2>1, <2>2 DEF Applying, Holds
<1>8. RowsWanted'
  BY <1>5 DEF RowsWanted, Holds
<1> QED
  BY <1>1, <1>3, <1>7, <1>8 DEF Undisturbed

(* When the loops are over the table is what the file asks for.            *)
LEMMA AppliedFollows ==
    ASSUME IInv, NEW p \in Syncer, pc[p] = "apply", Undisturbed(p),
           job[p].next > Len(Res(p)), \A m \in MAC : job[p].known[m] = NoRow
    PROVE  Follows(job[p].file)
<1>1. Len(Res(p)) \in Nat /\ job[p].next \in Nat /\ Applying(p)
  BY ListedTyped DEF Undisturbed, IInv, TypeOK, Job
<1>2. \A i \in 1 .. Len(Res(p)) : i < job[p].next
  BY <1>1
<1>3. \A e \in Entries(job[p].file) : Storable(e) => Holds(table[e.mac], e)
  BY <1>1, <1>2 DEF Applying, Entries, Res
<1>4. \A m \in MAC : table[m] # NoRow => \E e \in Entries(job[p].file) : e.mac = m
  <2>1. \A m \in MAC : table[m] # NoRow => Done(p, m)
    BY <1>1 DEF Applying
  <2> QED
    BY <2>1 DEF Done, Entries, Res
<1> QED
  BY <1>3, <1>4 DEF Follows

LEMMA ProceedSynced ==
    ASSUME OneEach, NeverMoved, NeverRenumbered, IInv, [Next]_vars,
           NEW s \in Server, Smooth(s)', SyncedAt(s),
           NEW p \in Syncer, Proceed(p) \/ Begin(p)
    PROVE  SyncedAt(s)'
<1> USE SyncAssumption
<1>1. /\ TypeOK /\ Undisturbed(p) /\ RowsWanted /\ ServerOf[p] = s
      /\ faults = 0 /\ faults' = 0 /\ job[p] \in Job
      /\ job \in [Syncer -> Job] /\ pc \in [Syncer -> Stage]
      /\ reach[s] = "none" => shown[s] = 0
  BY SmoothBefore, LoneServer DEF IInv, TypeOK, SyncedAt, Smooth, Ready
<1>2. \A q \in Syncer \ {p} : pc[q] = "idle" /\ pc'[q] = pc[q] /\ job'[q] = job[q]
  <2>1. pc[p] # "idle" \/ Begin(p)
    BY DEF Proceed, Pull, Decide, Read, List, Upsert, Delete, Show, Reload, Record, Finish
  <2> QED
    BY <1>1, <2>1, Sole, ProceedAlone
<1>3. ~Breaks(p)
  BY <1>1 DEF Breaks, Undisturbed
<1>4. CASE Begin(p)
  <2>1. /\ pc[p] = "idle" /\ pc'[p] = "pull" /\ job'[p] = NoJob
        /\ table' = table /\ shown' = shown /\ reach' = reach
    BY <1>1, <1>4 DEF Begin, Goto, Set, Config0
  <2>2. ~NoJob.cancelled /\ NoJob.next = 1
    BY DEF NoJob
  <2> QED
    BY <1>2, <2>1, <2>2, SyncedQuiet DEF Undisturbed
<1>5. CASE Pull(p) \/ Decide(p)
  <2>1. /\ pc[p] \in {"pull", "decide"} /\ pc'[p] \in {"decide", "read", "finish"}
        /\ table' = table /\ shown' = shown /\ reach' = reach
    BY <1>1, <1>5 DEF Pull, Decide, Goto, Config0
  <2>2. \/ job'[p] = job[p]
        \/ job'[p] = [job[p] EXCEPT !.commit = remote]
        \/ job'[p] = [job[p] EXCEPT !.ok = TRUE]
    BY <1>1, <1>5 DEF Pull, Decide, Set
  <2>3. job'[p].cancelled = job[p].cancelled /\ job'[p].next = job[p].next
    BY <1>1, <2>2 DEF Job
  <2> QED
    BY <1>1, <1>2, <2>1, <2>3, SyncedQuiet DEF Undisturbed
<1>6. CASE Read(p)
  <2>1. /\ pc[p] = "read" /\ table' = table /\ shown' = shown /\ reach' = reach
        /\ \/ /\ pc'[p] = "list"
              /\ job'[p] = [job[p] EXCEPT !.file = head[s]]
           \/ pc'[p] = "finish" /\ job'[p] = job[p]
    BY <1>1, <1>6 DEF Read, Goto, Set, Config0
  <2>2. Undisturbed(p)'
    <3>1. CASE pc'[p] = "list" /\ job'[p] = [job[p] EXCEPT !.file = head[s]]
      <4>1. /\ job'[p].cancelled = job[p].cancelled /\ job'[p].next = job[p].next
            /\ job'[p].file = head[s]
        BY <1>1, <3>1, ReadJob
      <4> QED
        BY <1>1, <2>1, <3>1, <4>1 DEF Undisturbed
    <3>2. CASE pc'[p] = "finish" /\ job'[p] = job[p]
      BY <1>1, <3>2 DEF Undisturbed
    <3> QED
      BY <2>1, <3>1, <3>2
  <2> QED
    BY <1>2, <2>1, <2>2, SyncedQuiet
<1>7. CASE List(p)
  <2>1. /\ pc[p] = "list" /\ pc'[p] = "apply"
        /\ job'[p] = [job[p] EXCEPT !.known = table]
        /\ table' = table /\ shown' = shown /\ reach' = reach
    BY <1>1, <1>3, <1>7 DEF List, Goto, Set, Config0
  <2>2. /\ job'[p].cancelled = job[p].cancelled /\ job'[p].file = job[p].file
        /\ job'[p].known = table /\ job'[p].next = 1
    BY <1>1, <2>1, ListJob DEF Undisturbed
  <2>3. \A m \in MAC : ~Done(p, m)'
    BY <2>2 DEF Done
  <2>4. Applying(p)'
    BY <2>1, <2>2, <2>3 DEF Applying
  <2> QED
    BY <1>1, <1>2, <2>1, <2>2, <2>4, SyncedQuiet DEF Undisturbed
<1>8. CASE Upsert(p) \/ (\E m \in MAC : Delete(p, m))
  <2>1. RowsWanted' /\ Undisturbed(p)'
    BY <1>1, <1>8, UpsertSynced, DeleteSynced
  <2>2. pc[p] = "apply" /\ pc' = pc /\ shown' = shown /\ reach' = reach
    BY <1>8 DEF Upsert, Delete, Config0
  <2> QED
    BY <1>1, <1>2, <2>1, <2>2, SyncedKept
<1>9. CASE Show(p)
  <2>1. /\ pc[p] = "apply" /\ job' = job /\ table' = table /\ reach' = reach
        /\ pc'[p] \in {"reload", "record"}
        /\ \/ reach[s] # "none" /\ shown'[s] = job[p].file
           \/ reach[s] = "none" /\ shown' = shown
    BY <1>1, <1>9 DEF Show, Goto, TypeOK
  <2>2. RowsWanted' /\ Undisturbed(p)'
    BY <1>1, <2>1 DEF RowsWanted, Undisturbed
  <2>3. Follows(job[p].file)
    BY <1>1, <1>9, <2>1, AppliedFollows DEF Show
  <2>4. /\ reach'[s] = "none" => shown'[s] = 0
        /\ shown'[s] # 0 => Follows(shown[s])'
    BY <1>1, <2>1, <2>3 DEF Follows
  <2> QED
    BY <1>1, <1>2, <2>2, <2>4, SyncedKept
<1>10. CASE Reload(p)
  <2>1. /\ pc[p] = "reload" /\ pc'[p] \in {"record", "finish"} /\ job' = job
        /\ table' = table /\ shown' = shown /\ reach' = reach
    BY <1>1, <1>10 DEF Reload, Goto
  <2> QED
    BY <1>1, <1>2, <2>1, SyncedQuiet DEF Undisturbed
<1>11. CASE Record(p) \/ Finish(p)
  <2>1. /\ pc[p] \in {"record", "finish"} /\ pc'[p] \in {"finish", "idle"}
        /\ table' = table /\ shown' = shown /\ reach' = reach
        /\ \/ job'[p] = [job[p] EXCEPT !.ok = TRUE]
           \/ job'[p] = NoJob
    BY <1>1, <1>11 DEF Record, Finish, Goto, Set, Config0
  <2>2. ~NoJob.cancelled
    BY DEF NoJob
  <2>3. ~job'[p].cancelled
    BY <1>1, <2>1, <2>2 DEF Undisturbed, Job
  <2> QED
    BY <1>2, <2>1, <2>3, SyncedQuiet DEF Undisturbed
<1> QED
  BY <1>4, <1>5, <1>6, <1>7, <1>8, <1>9, <1>10, <1>11 DEF Proceed

LEMMA SyncedStep ==
    ASSUME OneEach, NeverMoved, NeverRenumbered, IInv, Synced, [Next]_vars
    PROVE  Synced'
<1> SUFFICES ASSUME NEW s \in Server, Smooth(s)' PROVE SyncedAt(s)'
  BY DEF Synced, SyncedAt
<1>1. /\ TypeOK /\ Smooth(s) /\ SyncedAt(s) /\ faults = 0 /\ faults' = 0
      /\ s \notin overlap' /\ Server = {s}
  BY SmoothBefore DEF IInv, Synced, SyncedAt, Smooth, Lone
<1>2. ASSUME NEW p \in Syncer, Begin(p) \/ Proceed(p) PROVE SyncedAt(s)'
  BY <1>1, <1>2, ProceedSynced
<1>3. ASSUME NEW p \in Syncer, Cancel(p) PROVE FALSE
  BY <1>1, <1>3 DEF Cancel
<1>4. ASSUME NEW r \in Server, Restart(r) PROVE FALSE
  BY <1>1, <1>4 DEF Restart
<1>5. CASE UNCHANGED <<pc, job, table, shown, reach>>
  <2>1. ASSUME NEW p \in Syncer PROVE Undisturbed(p)'
    <3>1. Undisturbed(p)
      BY <1>1 DEF SyncedAt
    <3>2. Applying(p) => Applying(p)'
      BY <1>5 DEF Applying, Done, Res
    <3> QED
      BY <1>5, <3>1, <3>2 DEF Undisturbed, Follows
  <2>2. RowsWanted'
    BY <1>1, <1>5 DEF SyncedAt, RowsWanted
  <2> QED
    BY <1>1, <1>5, <2>1, <2>2 DEF SyncedAt, Follows
<1> QED
  BY <1>2, <1>3, <1>4, <1>5, SyncAssumption DEF Next, Push, Config0, vars, SyncAssumption

(* How far applyConfig has come, under the same hypotheses on the history  *)
(* of the configuration: what it has gone through is stored, and of what   *)
(* it has not it knows the rows as they are (gitops/sync.go:219-327).      *)
THEOREM SyncedHolds ==
    ASSUME OneEach, NeverMoved, NeverRenumbered
    PROVE  Spec => []Synced
<1>1. IInv /\ Synced /\ [Next]_vars => Synced'
  BY SyncedStep
<1> QED
  BY <1>1, InitHolds, IInvStep, InitSynced, SyncAssumption, PTL DEF Spec

(* If no file reserves two addresses for one client, no address is ever    *)
(* given to another client, and a reservation whose subnet is renumbered   *)
(* changes in something else too, then a lone server that no fault and no  *)
(* overlap disturbs has stored what the configuration of its API server    *)
(* asks for, also if entries of it do not parse, or it could not be        *)
(* reloaded (gitops/sync.go:219-327).                                      *)
THEOREM ReservationsAgree ==
    ASSUME OneEach, NeverMoved, NeverRenumbered
    PROVE  Spec => []ReservationsFollow
<1>1. Synced => ReservationsFollow
  BY DEF Synced, ReservationsFollow
<1> QED
  BY <1>1, SyncedHolds, PTL
=============================================================================
