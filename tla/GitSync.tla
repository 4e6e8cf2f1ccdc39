------------------------------- MODULE GitSync -------------------------------
(***************************************************************************)
(* The synchronisation of the configuration from Git (gitops/sync.go,      *)
(* poller.go, repository.go, storage/git_sync.go): several servers, each   *)
(* with a clone of the repository, a poller and API requests that sync at  *)
(* the same time, a shared table of reservations and a shared log.         *)
(*                                                                         *)
(* Sync has no lock.  Its stages are                                       *)
(*                                                                         *)
(*   pull     the row of the log is there; pull from the remote            *)
(*   decide   skip the sync if the commit has been applied                 *)
(*   read     read and validate the file of the clone                      *)
(*   list     read the reservations                                        *)
(*   apply    one INSERT, UPDATE or DELETE after the other, and the new    *)
(*            configuration for the API server, if there is one            *)
(*   reload   give the DHCP server its subnets, if it has been started     *)
(*   record   set currentHash                                              *)
(*   finish   complete the row of the log                                  *)
(*                                                                         *)
(* Commits are numbered along the branch; 0 is none, and the configuration *)
(* of config.yaml where a configuration is meant.                          *)
(***************************************************************************)
EXTENDS Integers, Sequences, FiniteSets

CONSTANTS Server,       \* processes sharing the database
          Syncer,       \* goroutines that run Sync, one at a time each
          ServerOf,     \* ServerOf[p]: the server p runs in
          Api,          \* those of API requests, which may be cancelled
          MAC, IP,      \* clients and addresses of the reservations
          Net,          \* networks of subnets
          Text,         \* hostname, description and boot options
          Bad,          \* a string that is no client, address or network:
                        \* Go or PostgreSQL does not parse it
          RowId,        \* values of the BIGSERIAL column id
          Config,       \* Config[c]: the configuration file of commit c
          MaxFaults,    \* failures, cancellations and restarts, all together
          NoRow

Entry == [mac : MAC \cup {Bad}, ip : IP \cup {Bad}, net : Net \cup {Bad}, text : Text]

ConfigFile == [valid : BOOLEAN,     \* validateConfig accepts it
               nets : SUBSET (Net \cup {Bad}),
               res : Seq(Entry)]    \* of all subnets, in the order of the file

Row == [id : RowId, ip : IP, net : Net, text : Text]

ASSUME SyncAssumption ==
    /\ ServerOf \in [Syncer -> Server]
    /\ Api \subseteq Syncer
    /\ RowId \subseteq Nat
    /\ Bad \notin MAC \cup IP \cup Net
    /\ NoRow \notin Row
    /\ Config \in Seq(ConfigFile) /\ Len(Config) > 0
    /\ \A c \in 1 .. Len(Config) : \A i \in 1 .. Len(Config[c].res) :
          Config[c].res[i].net \in Config[c].nets
    /\ MaxFaults \in Nat

VARIABLES remote,    \* the latest commit of the branch
          head,      \* HEAD of each server's clone
          current,   \* currentHash of each server
          reach,     \* what the reload function of each server reaches
          shown,     \* the configuration the API server has
          running,   \* the configuration the DHCP server's subnets are of
          table,     \* the reservations table; UNIQUE(mac), UNIQUE(ip, subnet)
          log,       \* the rows of git_sync_log no sync will write to
          pc,        \* the stage of each syncer
          job,       \* its local variables
          faults,    \* failures so far
          reloaded,  \* history: commits the server has run since it started
          overlap    \* history: servers in which two syncs have run at once

vars == <<remote, head, current, reach, shown, running, table, log, pc, job,
          faults, reloaded, overlap>>

Commit == 1 .. Len(Config)

(* There is no reload function without the web interface; with it, it      *)
(* reaches the API server, and the DHCP server too unless that failed to   *)
(* start.                                                                  *)
Reach == {"none", "api", "all"}

Stage == {"idle", "pull", "decide", "read", "list", "apply",
          "reload", "record", "finish"}

Job == [row : BOOLEAN,                     \* the row of the log still exists
        cancelled : BOOLEAN,               \* the request's context is done
        commit : Commit \cup {0},          \* commitInfo
        file : Commit \cup {0},            \* the commit whose file was read
        known : [MAC -> Row \cup {NoRow}], \* existingMap
        next : Nat \ {0},                  \* position in the file
        ok : BOOLEAN]                      \* result.Success

NoJob == [row |-> TRUE, cancelled |-> FALSE, commit |-> 0,
          file |-> 0, known |-> [m \in MAC |-> NoRow], next |-> 1, ok |-> FALSE]

LogRow == [status : {"in_progress", "success", "failed"}, commit : Commit \cup {0}]

TypeOK ==
    /\ remote \in Commit
    /\ head \in [Server -> Commit]
    /\ current \in [Server -> Commit \cup {0}]
    /\ reach \in [Server -> Reach]
    /\ shown \in [Server -> Commit \cup {0}]
    /\ running \in [Server -> Commit \cup {0}]
    /\ table \in [MAC -> Row \cup {NoRow}]
    /\ log \subseteq LogRow
    /\ pc \in [Syncer -> Stage]
    /\ job \in [Syncer -> Job]
    /\ faults \in 0 .. MaxFaults
    /\ reloaded \in [Server -> SUBSET Commit]
    /\ overlap \subseteq Server

Init ==
    /\ remote = 1
    /\ head = [s \in Server |-> 1]
    /\ current = [s \in Server |-> 0]
    /\ reach \in [Server -> Reach]
    /\ shown = [s \in Server |-> 0]
    /\ running = [s \in Server |-> 0]
    /\ table = [m \in MAC |-> NoRow]
    /\ log = {}
    /\ pc = [p \in Syncer |-> "idle"]
    /\ job = [p \in Syncer |-> NoJob]
    /\ faults = 0
    /\ reloaded = [s \in Server |-> {}]
    /\ overlap = {}
-----------------------------------------------------------------------------
Goto(p, stage) == pc' = [pc EXCEPT ![p] = stage]
Set(p, j) == job' = [job EXCEPT ![p] = j]
Config0 == <<current, reach, shown, running, reloaded>>

(* A call that takes p's context goes through, or fails: always once the   *)
(* context is cancelled.                                                   *)
Succeeds(p) == ~job[p].cancelled /\ UNCHANGED faults
Breaks(p) == \/ job[p].cancelled /\ UNCHANGED faults
             \/ faults < MaxFaults /\ faults' = faults + 1

(* Sync starts, at the start of the server, on a tick of the poller or for *)
(* a request: CreateGitSyncLog.  If that fails nothing else happens.       *)
Begin(p) ==
    /\ pc[p] = "idle"
    /\ Goto(p, "pull")
    /\ Set(p, NoJob)
    /\ overlap' = overlap \cup
         {ServerOf[q] : q \in {r \in Syncer \ {p} :
                                 pc[r] # "idle" /\ ServerOf[r] = ServerOf[p]}}
    /\ UNCHANGED <<remote, head, table, log, faults, Config0>>

(* Mutant: a forced pull, also from a mirror that is behind.               *)
PullForced(p) ==
    /\ pc[p] = "pull"
    /\ Succeeds(p)
    /\ \E c \in 1 .. remote :
         /\ head' = [head EXCEPT ![ServerOf[p]] = c]
         /\ Set(p, [job[p] EXCEPT !.commit = c])
    /\ Goto(p, "decide")
    /\ UNCHANGED <<remote, table, log, overlap, Config0>>

(* Repository.Pull fast-forwards the clone and reads its HEAD.  When there *)
(* were changes the sync cannot be skipped.  That go-git moves HEAD and the *)
(* files of the clone together is assumed.                                 *)
Pull(p) ==
    /\ pc[p] = "pull"
    /\ LET s == ServerOf[p]
       IN  \/ /\ Succeeds(p)
              /\ head' = [head EXCEPT ![s] = remote]
              /\ Set(p, [job[p] EXCEPT !.commit = remote])
              /\ Goto(p, IF head[s] = remote THEN "decide" ELSE "read")
           \/ /\ Breaks(p)
              /\ Goto(p, "finish")
              /\ UNCHANGED <<head, job>>
    /\ UNCHANGED <<remote, table, log, overlap, Config0>>

(* Mutant: a sync without changes is skipped, whatever currentHash is.     *)
DecideSkips(p) ==
    /\ pc[p] = "decide"
    /\ Goto(p, "finish") /\ Set(p, [job[p] EXCEPT !.ok = TRUE])
    /\ UNCHANGED <<remote, head, table, log, faults, overlap, Config0>>

(* No changes, and currentHash is the commit: done.                        *)
Decide(p) ==
    /\ pc[p] = "decide"
    /\ IF current[ServerOf[p]] = job[p].commit
       THEN Goto(p, "finish") /\ Set(p, [job[p] EXCEPT !.ok = TRUE])
       ELSE Goto(p, "read") /\ UNCHANGED job
    /\ UNCHANGED <<remote, head, table, log, faults, overlap, Config0>>

(* validateConfig reads the file the clone has now, if it can.             *)
Read(p) ==
    /\ pc[p] = "read"
    /\ LET file == head[ServerOf[p]]
       IN  \/ /\ Config[file].valid
              /\ Goto(p, "list")
              /\ Set(p, [job[p] EXCEPT !.file = file])
              /\ UNCHANGED faults
           \/ /\ \/ ~Config[file].valid /\ UNCHANGED faults
                 \/ faults < MaxFaults /\ faults' = faults + 1
              /\ Goto(p, "finish")
              /\ UNCHANGED job
    /\ UNCHANGED <<remote, head, table, log, overlap, Config0>>

(* GetAllReservations.                                                     *)
List(p) ==
    /\ pc[p] = "list"
    /\ \/ /\ Succeeds(p)
          /\ Set(p, [job[p] EXCEPT !.known = table])
          /\ Goto(p, "apply")
       \/ /\ Breaks(p)
          /\ Goto(p, "finish")
          /\ UNCHANGED job
    /\ UNCHANGED <<remote, head, table, log, overlap, Config0>>
-----------------------------------------------------------------------------
(***************************************************************************)
(* applyConfig.  The error of a statement is logged and the loop goes on.  *)
(***************************************************************************)
Res(p) == Config[job[p].file].res

UnusedIds == RowId \ ({table[m].id : m \in {n \in MAC : table[n] # NoRow}}
                        \cup UNION {{job[p].known[m].id :
                                     m \in {n \in MAC : job[p].known[n] # NoRow}}
                               : p \in Syncer})

(* An error of ParseCIDR, ParseMAC or ParseIP is dropped, and the statement *)
(* that gets the value fails.                                              *)
Storable(e) == e.mac # Bad /\ e.ip # Bad /\ e.net # Bad

(* So does one that breaks UNIQUE(ip, subnet).                             *)
Accepts(e) ==
    /\ Storable(e)
    /\ \A n \in MAC \ {e.mac} :
          table[n] # NoRow => table[n].ip # e.ip \/ table[n].net # e.net

Known(p, m) == IF m = Bad THEN NoRow ELSE job[p].known[m]

(* Mutant: the texts are not compared.                                     *)
SameAddress(old, e) == old.ip = e.ip

(* The row is left as it is; its subnet is not compared.                   *)
Same(old, e) == old.ip = e.ip /\ old.text = e.text

NewRow(e, id) == [id |-> id, ip |-> e.ip, net |-> e.net, text |-> e.text]

(* The UPDATE, by id, of a known reservation, or the INSERT of a new one.  *)
Stored(p, e) ==
    LET old == Known(p, e.mac)
    IN  \/ /\ old # NoRow
           /\ table' = IF Accepts(e) /\ table[e.mac] # NoRow /\ table[e.mac].id = old.id
                       THEN [table EXCEPT ![e.mac] = NewRow(e, old.id)] ELSE table
        \/ /\ old = NoRow
           /\ IF Accepts(e) /\ table[e.mac] = NoRow
              THEN \E id \in UnusedIds :
                     /\ \A other \in UnusedIds : id <= other
                     /\ table' = [table EXCEPT ![e.mac] = NewRow(e, id)]
              ELSE UNCHANGED table

(* Mutant: a reservation that is found stays in existingMap.               *)
Keep(known, m) == known

(* It is taken out of existingMap, whether its statement failed or not.    *)
Forget(known, m) == [n \in MAC |-> IF n = m THEN NoRow ELSE known[n]]

(* The next reservation of the file.                                       *)
Upsert(p) ==
    /\ pc[p] = "apply"
    /\ job[p].next <= Len(Res(p))
    /\ LET e == Res(p)[job[p].next]
           old == Known(p, e.mac)
       IN  /\ IF old # NoRow /\ Same(old, e)
              THEN UNCHANGED <<table, faults>>
              ELSE \/ Succeeds(p) /\ Stored(p, e)
                   \/ Breaks(p) /\ UNCHANGED table
           /\ Set(p, [job[p] EXCEPT !.next = @ + 1, !.known = Forget(@, e.mac)])
    /\ UNCHANGED <<remote, head, log, pc, overlap, Config0>>

(* After them, a reservation the file does not have.                       *)
Delete(p, m) ==
    /\ pc[p] = "apply"
    /\ job[p].next > Len(Res(p))
    /\ job[p].known[m] # NoRow
    /\ \/ /\ Succeeds(p)
          /\ table' = IF table[m] # NoRow /\ table[m].id = job[p].known[m].id
                      THEN [table EXCEPT ![m] = NoRow] ELSE table
       \/ Breaks(p) /\ UNCHANGED table
    /\ Set(p, [job[p] EXCEPT !.known[m] = NoRow])
    /\ UNCHANGED <<remote, head, log, pc, overlap, Config0>>

(* Mutant: currentHash is set before the reload.                           *)
ShowRecords(p) ==
    /\ pc[p] = "apply"
    /\ job[p].next > Len(Res(p))
    /\ \A m \in MAC : job[p].known[m] = NoRow
    /\ shown' = [shown EXCEPT ![ServerOf[p]] = job[p].file]
    /\ current' = [current EXCEPT ![ServerOf[p]] = job[p].commit]
    /\ Goto(p, "reload")
    /\ UNCHANGED <<remote, head, table, log, job, faults, overlap, reach, running, reloaded>>

(* reloadFunc, if it is set: the API server first.                         *)
Show(p) ==
    /\ pc[p] = "apply"
    /\ job[p].next > Len(Res(p))
    /\ \A m \in MAC : job[p].known[m] = NoRow
    /\ LET s == ServerOf[p]
       IN  IF reach[s] # "none"
           THEN shown' = [shown EXCEPT ![s] = job[p].file] /\ Goto(p, "reload")
           ELSE UNCHANGED shown /\ Goto(p, "record")
    /\ UNCHANGED <<remote, head, table, log, job, faults, overlap, current, reach,
                   running, reloaded>>

(* Mutant: a network that does not parse is skipped.                       *)
ParsesSome(c) == Config[c].nets # {Bad}

(* ReloadSubnets refuses a configuration one network of which does not     *)
(* parse, although the reservations of its other subnets are stored.       *)
Parses(c) == Bad \notin Config[c].nets

(* It replaces all subnets.                                                *)
ReloadSubnets(s, c) ==
    /\ running' = [running EXCEPT ![s] = c]
    /\ reloaded' = [reloaded EXCEPT ![s] = @ \cup {c}]

(* The rest of the reload function: the DHCP server's subnets, and nothing *)
(* when there is no DHCP server.                                           *)
Reload(p) ==
    /\ pc[p] = "reload"
    /\ LET s == ServerOf[p]
       IN  \/ /\ reach[s] = "all" /\ Parses(job[p].file)
              /\ ReloadSubnets(s, job[p].file)
              /\ Goto(p, "record")
           \/ /\ reach[s] = "all" /\ ~Parses(job[p].file)
              /\ Goto(p, "finish")
              /\ UNCHANGED <<running, reloaded>>
           \/ /\ reach[s] # "all"
              /\ Goto(p, "record")
              /\ UNCHANGED <<running, reloaded>>
    /\ UNCHANGED <<remote, head, table, log, job, faults, overlap, current, reach, shown>>

Record(p) ==
    /\ pc[p] = "record"
    /\ current' = [current EXCEPT ![ServerOf[p]] = job[p].commit]
    /\ Set(p, [job[p] EXCEPT !.ok = TRUE])
    /\ Goto(p, "finish")
    /\ UNCHANGED <<remote, head, table, log, faults, overlap, reach, shown, running, reloaded>>

(* Mutant: the row is inserted when the sync is over.                      *)
FinishInserts(p) ==
    /\ pc[p] = "finish"
    /\ \/ /\ Succeeds(p)
          /\ log' = log \cup {[status |-> IF job[p].ok THEN "success" ELSE "failed",
                               commit |-> job[p].commit]}
       \/ Breaks(p) /\ UNCHANGED log
    /\ Goto(p, "idle")
    /\ Set(p, NoJob)
    /\ UNCHANGED <<remote, head, table, overlap, Config0>>

(* finalizeSyncLog.  If it fails, the row is in progress for ever.  The    *)
(* commit of a failed sync is not kept here.                               *)
Finish(p) ==
    LET Leaves(status, commit) ==
            log' = IF job[p].row THEN log \cup {[status |-> status, commit |-> commit]}
                   ELSE log
    IN  /\ pc[p] = "finish"
        /\ \/ /\ Succeeds(p)
              /\ IF job[p].ok THEN Leaves("success", job[p].commit) ELSE Leaves("failed", 0)
           \/ Breaks(p) /\ Leaves("in_progress", 0)
        /\ Goto(p, "idle")
        /\ Set(p, NoJob)
        /\ UNCHANGED <<remote, head, table, overlap, Config0>>

Proceed(p) == \/ Pull(p) \/ Decide(p) \/ Read(p) \/ List(p)
              \/ Upsert(p) \/ (\E m \in MAC : Delete(p, m))
              \/ Show(p) \/ Reload(p) \/ Record(p) \/ Finish(p)
-----------------------------------------------------------------------------
(* The operator pushes the next commit.                                    *)
Push ==
    /\ remote < Len(Config)
    /\ remote' = remote + 1
    /\ UNCHANGED <<head, table, log, pc, job, faults, overlap, Config0>>

(* The client of an API request goes away.                                 *)
Cancel(p) ==
    /\ pc[p] # "idle" /\ ~job[p].cancelled
    /\ faults < MaxFaults /\ faults' = faults + 1
    /\ Set(p, [job[p] EXCEPT !.cancelled = TRUE])
    /\ UNCHANGED <<remote, head, table, log, pc, overlap, Config0>>

(* Mutant: currentHash is read back from the last successful sync.         *)
RestartRemembers(s) ==
    LET Dead == {p \in Syncer : ServerOf[p] = s}
    IN  /\ faults < MaxFaults /\ faults' = faults + 1
        /\ pc' = [p \in Syncer |-> IF p \in Dead THEN "idle" ELSE pc[p]]
        /\ job' = [p \in Syncer |-> IF p \in Dead THEN NoJob ELSE job[p]]
        /\ \E r \in Reach : reach' = [reach EXCEPT ![s] = r]
        /\ shown' = [shown EXCEPT ![s] = 0]
        /\ running' = [running EXCEPT ![s] = 0]
        /\ reloaded' = [reloaded EXCEPT ![s] = {}]
        /\ overlap' = overlap \ {s}
        /\ UNCHANGED <<remote, head, table, current, log>>

(* A server dies and starts again, perhaps without the web interface or    *)
(* with a DHCP server that fails to start.  The clone stays; the           *)
(* migrations drop and create git_sync_log, whose rows all servers share.  *)
Restart(s) ==
    LET Dead == {p \in Syncer : ServerOf[p] = s}
    IN  /\ faults < MaxFaults /\ faults' = faults + 1
        /\ pc' = [p \in Syncer |-> IF p \in Dead THEN "idle" ELSE pc[p]]
        /\ job' = [p \in Syncer |-> IF p \in Dead THEN NoJob
                                    ELSE [job[p] EXCEPT !.row = FALSE]]
        /\ current' = [current EXCEPT ![s] = 0]
        /\ \E r \in Reach : reach' = [reach EXCEPT ![s] = r]
        /\ shown' = [shown EXCEPT ![s] = 0]
        /\ running' = [running EXCEPT ![s] = 0]
        /\ reloaded' = [reloaded EXCEPT ![s] = {}]
        /\ overlap' = overlap \ {s}
        /\ log' = {}
        /\ UNCHANGED <<remote, head, table>>

Next == \/ \E p \in Syncer : Begin(p) \/ Proceed(p)
        \/ \E p \in Api : Cancel(p)
        \/ \E s \in Server : Restart(s)
        \/ Push

Spec == Init /\ [][Next]_vars

(* The poller syncs at every tick; a sync that can go on does.             *)
FairSpec == /\ Spec
            /\ \A p \in Syncer : WF_vars(Proceed(p))
            /\ \A p \in Syncer \ Api : WF_vars(Begin(p))
-----------------------------------------------------------------------------
(* A sync that ends in success has its commit, or one after it, put into   *)
(* force in its server since the server started, whether it applied it or  *)
(* was skipped, and whatever other syncs did between its steps, if the     *)
(* reload function reaches a DHCP server. Without one a sync is a success  *)
(* as well (gitops/sync.go:73-131, cmd/godhcp/main.go:176-188).            *)
SuccessMeansReloaded ==
    \A p \in Syncer :
        pc[p] = "finish" /\ job[p].ok /\ reach[ServerOf[p]] = "all"
        => \E c \in reloaded[ServerOf[p]] : c >= job[p].commit

(* Commits whose file is accepted by validateConfig and ReloadSubnets.     *)
Applicable(c) == Config[c].valid /\ Bad \notin Config[c].nets

(* The servers deploy what is pushed as Deployment says: whatever overlaps *)
(* or fails between the pull and the reload, what runs is a file of the    *)
(* branch that was validated and parsed as a whole, and without overlap it *)
(* is the one the clone is at (gitops/sync.go:66-129, 219-328).            *)
D == INSTANCE Deployment WITH
        able <- {s \in Server : reach[s] = "all"}, Last <- Len(Config),
        Usable <- {c \in Commit : Applicable(c)},
        published <- remote, fetched <- head, inForce <- running, muddled <- overlap

Implements == D!Spec

(* As long as syncs do not overlap, a server never goes back to the        *)
(* configuration of an earlier commit, except by a restart                 *)
(* (gitops/sync.go:66-129, dhcp/server.go:275).                            *)
NoRollback ==
    [][\A s \in Server :
          s \notin overlap => running'[s] >= running[s] \/ running'[s] = 0]_vars

(* s has the database for itself.                                          *)
Lone(s) == Server = {s}

(* Every configuration a lone server has put into force is accounted for   *)
(* in the log: by a success row of the commit or of an earlier one, by a   *)
(* row that was never completed, or by the sync that is about to complete  *)
(* its row (gitops/sync.go:58-62, 330-346).                                *)
AuditCovers ==
    \A s \in Server, c \in Commit :
        Lone(s) /\ c \in reloaded[s]
        => \/ \E r \in log : \/ r.status = "in_progress"
                             \/ r.status = "success" /\ r.commit <= c
           \/ \E p \in Syncer : /\ pc[p] \in {"record", "finish"}
                                /\ job[p].row /\ job[p].file = c

(* The reservations of a lone server that has synced without faults and    *)
(* overlaps are those of the file the API server has, also if its subnets  *)
(* could not be reloaded: what can be stored is stored, and every row is   *)
(* of a client the file names (gitops/sync.go:219-327).                    *)
Entries(c) == {Config[c].res[i] : i \in 1 .. Len(Config[c].res)}

Holds(row, e) == row # NoRow /\ row.ip = e.ip /\ row.net = e.net /\ row.text = e.text

Follows(c) ==
    /\ \A e \in Entries(c) : Storable(e) => Holds(table[e.mac], e)
    /\ \A m \in MAC : table[m] # NoRow => \E e \in Entries(c) : e.mac = m

Smooth(s) == Lone(s) /\ faults = 0 /\ s \notin overlap

ReservationsFollow ==
    \A s \in Server :
        /\ Smooth(s)
        /\ \A p \in Syncer : pc[p] # "apply"
        /\ shown[s] # 0
        => Follows(shown[s])

(* When no more is pushed, every server that can reload comes to run the   *)
(* last commit, if it can be applied, whatever failed before: a failed     *)
(* sync is tried again at the next tick. Syncs that overlap may leave an   *)
(* older one in force (gitops/poller.go:66-87, gitops/sync.go:87).         *)
Converges ==
    \A s \in Server :
        <>[](\/ s \in overlap
             \/ reach[s] # "all"
             \/ ~Applicable(remote)
             \/ running[s] = remote)
-----------------------------------------------------------------------------
(***************************************************************************)
(* The inductive invariant behind SuccessMeansReloaded and NoRollback.     *)
(***************************************************************************)
(* What p has read is valid and no newer than its clone; what it runs it   *)
(* has put into force; it succeeds only when its commit or a later one was. *)
Ready(p) ==
    LET s == ServerOf[p]
        Through(c) == reach[s] = "all" => \E d \in reloaded[s] : d >= c
    IN  /\ pc[p] \in {"decide", "read", "list", "apply", "reload", "record"} =>
              job[p].commit \in Commit /\ job[p].commit <= head[s] /\ ~job[p].ok
        /\ pc[p] \in {"idle", "pull"} => ~job[p].ok
        /\ pc[p] \in {"list", "apply", "reload", "record"} =>
              /\ job[p].file \in Commit /\ Config[job[p].file].valid
              /\ job[p].commit <= job[p].file /\ job[p].file <= head[s]
        /\ pc[p] = "reload" => reach[s] # "none"
        /\ pc[p] = "record" /\ reach[s] = "all" => job[p].file \in reloaded[s]
        /\ pc[p] = "finish" /\ job[p].ok => Through(job[p].commit)

(* currentHash is a commit that, or one after which, is in force.          *)
Applied == \A s \in Server :
              reach[s] = "all" /\ current[s] # 0
              => \E d \in reloaded[s] : d >= current[s]

(* Without overlap one sync runs in a server, the clone is still at the    *)
(* commit it read, and no later commit is in force.                        *)
Alone ==
    \A s \in Server :
        /\ head[s] <= remote /\ running[s] <= head[s]
        /\ s \notin overlap =>
              \A p \in {q \in Syncer : ServerOf[q] = s} :
                 /\ \A q \in Syncer \ {p} :
                      ServerOf[q] = s => pc[p] = "idle" \/ pc[q] = "idle"
                 /\ pc[p] \in {"list", "apply", "reload"} => job[p].file = head[s]

IInv == TypeOK /\ Applied /\ Alone /\ \A p \in Syncer : Ready(p)
-----------------------------------------------------------------------------
(***************************************************************************)
(* The invariant behind AuditCovers.                                       *)
(***************************************************************************)
(* c is accounted for by a row nobody writes to any more.                  *)
Logged(c) == \E r \in log : \/ r.status = "in_progress"
                            \/ r.status = "success" /\ r.commit <= c

(* p has put c into force and is about to say so.                          *)
Reports(p, c) ==
    /\ job[p].file = c
    /\ pc[p] = "record" \/ (pc[p] = "finish" /\ job[p].ok)

Audited ==
    \A s \in Server : Lone(s) =>
        /\ \A p \in Syncer :
              /\ job[p].row
              /\ pc[p] \in {"pull", "decide", "read"} => job[p].file = 0
              /\ pc[p] = "finish" /\ job[p].ok /\ job[p].file # 0 =>
                    job[p].commit <= job[p].file
        /\ \A c \in reloaded[s] : Logged(c) \/ \E p \in Syncer : Reports(p, c)
-----------------------------------------------------------------------------
(***************************************************************************)
(* The invariant behind ReservationsFollow, and what the history of the    *)
(* configuration has to be like: validateConfig looks for none of it.      *)
(***************************************************************************)
(* No file has two reservations for one client.                            *)
OneEach ==
    \A c \in Commit : \A i, j \in 1 .. Len(Config[c].res) :
        /\ Config[c].valid
        /\ Config[c].res[i].mac = Config[c].res[j].mac /\ Config[c].res[i].mac # Bad
        => i = j

(* The reservations of all files that are applied and can be stored.       *)
Wanted == {e \in UNION {Entries(c) : c \in {d \in Commit : Config[d].valid}} : Storable(e)}

(* No address is reserved for two clients, at once or in turn: the former  *)
(* row, which is deleted last, makes UNIQUE(ip, subnet) refuse the new one. *)
NeverMoved ==
    \A d, e \in Wanted : d.ip = e.ip /\ d.net = e.net => d.mac = e.mac

(* A reservation whose subnet is renumbered changes its address or a text  *)
(* too: sync.go:257-259 does not compare the subnet, and leaves a row that *)
(* differs in nothing else under the old one.                              *)
NeverRenumbered ==
    \A d, e \in Wanted :
        d.mac = e.mac /\ d.ip = e.ip /\ d.text = e.text => d.net = e.net

(* p has gone through the reservation of m.                                *)
Done(p, m) == \E i \in 1 .. Len(Res(p)) : i < job[p].next /\ Res(p)[i].mac = m

(* applyConfig has stored every reservation it has gone through, if it can *)
(* be stored, and knows the rows of all other clients.                     *)
Applying(p) ==
    /\ \A i \in 1 .. Len(Res(p)) :
          i < job[p].next /\ Storable(Res(p)[i]) => Holds(table[Res(p)[i].mac], Res(p)[i])
    /\ \A m \in MAC : job[p].known[m] = IF Done(p, m) THEN NoRow ELSE table[m]

(* How far a sync has come that nothing disturbs.                          *)
Undisturbed(p) ==
    /\ ~job[p].cancelled
    /\ pc[p] \in {"pull", "decide", "read", "list"} => job[p].next = 1
    /\ pc[p] = "apply" => Applying(p)

(* Every row comes from a file that has been applied.                      *)
RowsWanted ==
    \A m \in MAC : table[m] # NoRow =>
        \E e \in Wanted : e.mac = m /\ Holds(table[m], e)

Synced ==
    \A s \in Server : Smooth(s) =>
        /\ reach[s] = "none" => shown[s] = 0
        /\ RowsWanted
        /\ \A p \in Syncer : Undisturbed(p)
        /\ \/ \E p \in Syncer : pc[p] = "apply"
           \/ shown[s] # 0 => Follows(shown[s])
=============================================================================
