---------------------------- MODULE WebInterface ----------------------------
(***************************************************************************)
(* The web interface in the tabs of one browser (web/src), and what the    *)
(* API server (api/server.go, handlers.go, auth.go) answers.               *)
(*                                                                         *)
(* The tabs share localStorage; each has an APIClient with a token in      *)
(* memory, and one page.  A call is one run of an asynchronous function of *)
(* a page (fetchData, handleManualSync, handleSubmit): it sends requests,  *)
(* and goes on when the answers are there.  Leaving a page does not stop   *)
(* its calls: what they set is ignored, but a 401 still clears the tokens. *)
(*                                                                         *)
(* Of the data only the age counts: version grows when leases, subnets or  *)
(* reservations change, and an answer carries the version it was made of.  *)
(* A server with authentication disabled is the case in which no token     *)
(* dies.  Activity's stream of events is in module ActivityStream.         *)
(***************************************************************************)
EXTENDS Integers, FiniteSets

CONSTANTS Tab,          \* the browser's tabs
          Token,        \* session tokens GenerateToken can return
          MaxCalls,     \* calls in flight, all together
          Visits,       \* Visits[t]: the pages tab t's user goes to
          GitOps,       \* the server has a Git poller
          MaxVersion,   \* changes of the data
          NullDns,      \* versions with a subnet without dns_servers
          MaxFaults,    \* lost or failed requests and restarts, all together
          NoToken, NoTab

DataPage == {"dashboard", "leases", "subnets", "config", "git"}
Page == DataPage \cup {"activity"}

(* Requests with an answer that a page shows; POSTs.                       *)
Shown == {"stats", "health", "leases", "subnets", "reservations", "status", "logs"}
Endpoint == Shown \cup {"sync", "login"}

Place == 1 .. MaxCalls
Version == 0 .. MaxVersion

ASSUME WebAssumption ==
    /\ MaxCalls \in Nat \ {0}
    /\ Visits \in [Tab -> SUBSET Page]
    /\ GitOps \in BOOLEAN
    /\ MaxVersion \in Nat \ {0}
    /\ NullDns \subseteq Version
    /\ MaxFaults \in Nat
    /\ NoToken \notin Token
    /\ NoTab \notin Tab

VARIABLES token,     \* of each token: not issued yet, valid, expired or forgotten
          version,   \* the version of the data
          lost,      \* a row is left in progress, of a cancelled request
          faults,    \* failures so far
          stored,    \* localStorage's auth_token
          memory,    \* authToken of each tab's APIClient
          page,      \* the page of each tab and its state
          shown,     \* the data that page keeps
          call,      \* the calls in flight
          req        \* their requests

server == <<token, version, lost, faults>>
vars == <<token, version, lost, faults, stored, memory, page, shown,
          call, req>>

Datum == [v : Version, null : BOOLEAN]
NoDatum == [v |-> 0, null |-> FALSE]

(* choice is the filter; rows are the leases on the screen: of which load, *)
(* filtered by what; stale says that the effect that filters has to run.   *)
PageState == [at : Page \cup {"login", "blank"}, loading : BOOLEAN, syncing : BOOLEAN,
              choice : {"all", "active"},
              rows : [of : Version, by : {"all", "active"}], stale : BOOLEAN,
              entered : Version]      \* history: the version at the mount

(* overlaps is a history variable: this page has had another call in       *)
(* flight together with this one.                                          *)
Call == [tab : Tab \cup {NoTab}, fn : {"none", "fetch", "sync", "refresh", "login"},
         mounted : BOOLEAN, overlaps : BOOLEAN, token : Token \cup {NoToken}]
NoCall == [tab |-> NoTab, fn |-> "none", mounted |-> FALSE, overlaps |-> FALSE,
           token |-> NoToken]

Request == [st : {"none", "sent", "running", "ok", "unauthorized", "failed"},
            v : Version, null : BOOLEAN]
NoRequest == [st |-> "none", v |-> 0, null |-> FALSE]
Sent == [NoRequest EXCEPT !.st = "sent"]
Failed == [NoRequest EXCEPT !.st = "failed"]
Rejected == [NoRequest EXCEPT !.st = "unauthorized"]
NoRequests == [e \in Endpoint |-> NoRequest]

TypeOK ==
    /\ token \in [Token -> {"new", "live", "dead"}]
    /\ version \in 1 .. MaxVersion
    /\ lost \in BOOLEAN
    /\ faults \in 0 .. MaxFaults
    /\ stored \in Token \cup {NoToken}
    /\ memory \in [Tab -> Token \cup {NoToken}]
    /\ page \in [Tab -> PageState]
    /\ shown \in [Tab -> [Shown -> Datum]]
    /\ call \in [Place -> Call]
    /\ req \in [Place -> [Endpoint -> Request]]
-----------------------------------------------------------------------------
(***************************************************************************)
(* The pages.                                                              *)
(***************************************************************************)
DashboardRequests == {"stats", "health"}
LeasesRequests == {"leases"}
SubnetsRequests == {"subnets"}
ConfigRequests == {"reservations"}
GitRequests == {"status", "logs"}

Asks(p) == CASE p = "dashboard" -> DashboardRequests
             [] p = "leases" -> LeasesRequests
             [] p = "subnets" -> SubnetsRequests
             [] p = "config" -> ConfigRequests
             [] p = "git" -> GitRequests
             [] OTHER -> {}

(* Pages with an interval.                                                 *)
Polls(p) == p \in DataPage \ {"config"}

(* What a page puts on the screen: the versions of its data.               *)
DashboardView(t) == {shown[t]["stats"].v, shown[t]["health"].v}
LeasesView(t) == {page[t].rows.of, shown[t]["leases"].v}    \* table; its count
SubnetsView(t) == {shown[t]["subnets"].v}
ConfigView(t) == {shown[t]["reservations"].v}
GitView(t) == {shown[t]["status"].v, shown[t]["logs"].v}

View(t) ==
    IF page[t].loading THEN {}
    ELSE (CASE page[t].at = "dashboard" -> DashboardView(t)
            [] page[t].at = "leases" -> LeasesView(t)
            [] page[t].at = "subnets" -> SubnetsView(t)
            [] page[t].at = "config" -> ConfigView(t)
            [] page[t].at = "git" -> GitView(t)
            [] OTHER -> {}) \ {0}

(* logs.map and dns_servers.join throw when the server sent null; there is *)
(* no error boundary, so that React removes the whole page.                *)
Throws(p, d) == \/ p = "git" /\ d["logs"].null
                \/ p = "subnets" /\ d["subnets"].null

Mounted(p, v) == [at |-> p, loading |-> p \in DataPage, syncing |-> FALSE,
                  choice |-> "all", rows |-> [of |-> 0, by |-> "all"],
                  stale |-> FALSE, entered |-> IF p \in DataPage THEN v ELSE 0]

NothingShown == [e \in Shown |-> NoDatum]

Init ==
    /\ token = [k \in Token |-> "new"]
    /\ version = 1
    /\ lost = FALSE
    /\ faults = 0
    /\ stored = NoToken
    /\ memory = [t \in Tab |-> NoToken]
    /\ page = [t \in Tab |-> Mounted("login", 1)]
    /\ shown = [t \in Tab |-> NothingShown]
    /\ call = [s \in Place |-> NoCall]
    /\ req = [s \in Place |-> NoRequests]
-----------------------------------------------------------------------------
(***************************************************************************)
(* APIClient.                                                              *)
(***************************************************************************)
(* getAuthToken: the token in memory, or the stored one, which it keeps.   *)
Held(t) == IF memory[t] # NoToken THEN memory[t] ELSE stored
ReadToken(t) == memory' = [memory EXCEPT ![t] = Held(t)]

setAuthToken(t, k) ==
    /\ memory' = [memory EXCEPT ![t] = k]
    /\ stored' = k

clearAuthToken(t) == setAuthToken(t, NoToken)

Spare(s) == /\ call[s].fn = "none"
            /\ \A r \in 1 .. s - 1 : call[r].fn # "none"

(* A call of the page of t that will set its data.                         *)
Loads(s, t) == call[s].tab = t /\ call[s].mounted /\ call[s].fn \in {"fetch", "refresh"}

Requests(E) == [e \in Endpoint |-> IF e \in E THEN Sent ELSE NoRequest]

(* t's page starts a call, or the next part of one: it sends requests with *)
(* the token of this moment.  on is FALSE if the page has been left.       *)
Send(s, t, fn, on, E) ==
    LET others == {r \in Place \ {s} : Loads(r, t)}
        loads == on /\ fn \in {"fetch", "refresh"}
    IN  /\ call' = [r \in Place |->
              IF r = s
              THEN [tab |-> t, fn |-> fn, mounted |-> on, token |-> Held(t),
                    overlaps |-> loads /\ others # {}]
              ELSE IF loads /\ r \in others THEN [call[r] EXCEPT !.overlaps = TRUE]
              ELSE call[r]]
        /\ req' = [req EXCEPT ![s] = Requests(E)]
        /\ ReadToken(t)

End(s) == /\ call' = [call EXCEPT ![s] = NoCall]
          /\ req' = [req EXCEPT ![s] = NoRequests]

SetPage(t, st) == page' = [page EXCEPT ![t] = st]

(* Data that arrive for a page that has been left are as good as none.     *)
Unread(on, r) == IF ~on /\ r.st = "ok" THEN Failed ELSE r

(* The page of tab t is gone: its calls go on without it.                  *)
Leave(r, t) == IF call[r].tab = t
               THEN [call[r] EXCEPT !.mounted = FALSE, !.overlaps = FALSE] ELSE call[r]
LeaveRequests(r, t) ==
    IF call[r].tab = t
    THEN [e \in Endpoint |-> Unread(e \notin Shown, req[r][e])] ELSE req[r]

(* Page p is mounted and sends its first requests, from place s; token k   *)
(* is the one the tab has then.                                            *)
Enter(s, t, p, k) ==
    /\ SetPage(t, Mounted(p, version))
    /\ shown' = [shown EXCEPT ![t] = NothingShown]
    /\ call' = [r \in Place |->
           IF r = s /\ p \in DataPage
           THEN [tab |-> t, fn |-> "fetch", mounted |-> TRUE, overlaps |-> FALSE,
                 token |-> k]
           ELSE IF r = s THEN NoCall
           ELSE Leave(r, t)]
    /\ req' = [r \in Place |-> IF r = s THEN Requests(Asks(p)) ELSE LeaveRequests(r, t)]
-----------------------------------------------------------------------------
(***************************************************************************)
(* The user and the timers.                                                *)
(***************************************************************************)
(* Mutant: the calls of the page that is left can still set data.          *)
NavigateKeepsCalls(t, p) ==
    \E s \in Place :
      /\ Spare(s)
      /\ page[t].at \in Page
      /\ p \in Visits[t] \ {page[t].at}
      /\ SetPage(t, Mounted(p, version))
      /\ shown' = [shown EXCEPT ![t] = NothingShown]
      /\ call' = [call EXCEPT ![s] =
             IF p \in DataPage
             THEN [NoCall EXCEPT !.tab = t, !.fn = "fetch", !.mounted = TRUE,
                                 !.token = Held(t)]
             ELSE NoCall]
      /\ req' = [req EXCEPT ![s] = Requests(Asks(p))]
      /\ ReadToken(t)
      /\ UNCHANGED <<server, stored>>

(* A link of the layout.  ProtectedRoute has been rendered when the layout *)
(* was, and is not asked again.                                            *)
Navigate(t, p) ==
    \E s \in Place :
      /\ Spare(s)
      /\ page[t].at \in Page
      /\ p \in Visits[t] \ {page[t].at}
      /\ Enter(s, t, p, Held(t))
      /\ ReadToken(t)
      /\ UNCHANGED <<server, stored>>

(* The browser loads the application: memory and calls are gone.  A sync   *)
(* whose request is cancelled leaves its row in progress.                  *)
Reset(t) ==
    /\ shown' = [shown EXCEPT ![t] = NothingShown]
    /\ lost' = (lost \/ \E r \in Place : call[r].tab = t /\ req[r]["sync"].st = "running")

Aborted(r, t) == call[r].tab = t

(* ProtectedRoute lets a page through.                                     *)
ProtectedRoute(t) == stored # NoToken

ToLogin(t) ==
    /\ SetPage(t, Mounted("login", version))
    /\ call' = [r \in Place |-> IF Aborted(r, t) THEN NoCall ELSE call[r]]
    /\ req' = [r \in Place |-> IF Aborted(r, t) THEN NoRequests ELSE req[r]]

(* The browser loads p from its address.  (Not the page it shows: so that  *)
(* a user who reloads for ever is no counterexample to liveness.)          *)
Load(t, p) ==
    /\ p \in Visits[t] \ {page[t].at}
    /\ Reset(t)
    /\ memory' = [memory EXCEPT ![t] = stored]
    /\ \/ ~ProtectedRoute(t) /\ ToLogin(t)
       \/ /\ ProtectedRoute(t)
          /\ \E s \in Place :
               /\ Spare(s)
               /\ SetPage(t, Mounted(p, version))
               /\ call' = [r \in Place |->
                     IF r = s /\ p \in DataPage
                     THEN [NoCall EXCEPT !.tab = t, !.fn = "fetch", !.mounted = TRUE,
                                         !.token = stored]
                     ELSE IF Aborted(r, t) THEN NoCall ELSE call[r]]
               /\ req' = [r \in Place |->
                     IF r = s THEN Requests(Asks(p))
                     ELSE IF Aborted(r, t) THEN NoRequests ELSE req[r]]
    /\ UNCHANGED <<token, version, faults, stored>>

(* handleLogout: the tokens are cleared, and /login is loaded.  The server *)
(* is not told.                                                            *)
Logout(t) ==
    /\ page[t].at \in Page
    /\ clearAuthToken(t)
    /\ Reset(t)
    /\ ToLogin(t)
    /\ UNCHANGED <<token, version, faults>>

(* handleSubmit, up to the answer.                                         *)
Submit(t) ==
    \E s \in Place :
      /\ Spare(s)
      /\ page[t].at = "login" /\ ~page[t].loading
      /\ SetPage(t, [page[t] EXCEPT !.loading = TRUE])
      /\ Send(s, t, "login", TRUE, {"login"})
      /\ UNCHANGED <<server, stored, shown>>

(* Mutant: the interval of a page does nothing while its data is there.    *)
TickOnce(t) ==
    \E s \in Place :
      /\ Spare(s)
      /\ Polls(page[t].at)
      /\ page[t].loading
      /\ Send(s, t, "fetch", TRUE, Asks(page[t].at))
      /\ UNCHANGED <<server, stored, page, shown>>

(* The interval of a page.                                                 *)
Tick(t) ==
    \E s \in Place :
      /\ Spare(s)
      /\ Polls(page[t].at)
      /\ Send(s, t, "fetch", TRUE, Asks(page[t].at))
      /\ UNCHANGED <<server, stored, page, shown>>

(* Mutant: the button is not disabled.                                     *)
ManualSyncAgain(t) ==
    \E s \in Place :
      /\ Spare(s)
      /\ page[t].at = "git" /\ ~page[t].loading
      /\ SetPage(t, [page[t] EXCEPT !.syncing = TRUE])
      /\ Send(s, t, "sync", TRUE, {"sync"})
      /\ UNCHANGED <<server, stored, shown>>

(* handleManualSync, up to the answer.                                     *)
ManualSync(t) ==
    \E s \in Place :
      /\ Spare(s)
      /\ page[t].at = "git" /\ ~page[t].loading /\ ~page[t].syncing
      /\ SetPage(t, [page[t] EXCEPT !.syncing = TRUE])
      /\ Send(s, t, "sync", TRUE, {"sync"})
      /\ UNCHANGED <<server, stored, shown>>

(* Another filter; the effect that filters depends on it.                  *)
Choose(t, f) ==
    /\ page[t].at = "leases" /\ ~page[t].loading /\ page[t].choice # f
    /\ SetPage(t, [page[t] EXCEPT !.choice = f, !.stale = TRUE])
    /\ UNCHANGED <<server, stored, memory, shown, call, req>>

(* The effect.                                                             *)
Refilter(t) ==
    /\ page[t].stale
    /\ SetPage(t, [page[t] EXCEPT !.stale = FALSE,
                     !.rows = [of |-> shown[t]["leases"].v, by |-> page[t].choice]])
    /\ UNCHANGED <<server, stored, memory, shown, call, req>>
-----------------------------------------------------------------------------
(***************************************************************************)
(* The server.                                                             *)
(***************************************************************************)
ValidateToken(k) == k \in Token /\ token[k] = "live"

Answer(s, e, r) ==
    /\ req' = [req EXCEPT ![s][e] = r]
    /\ UNCHANGED <<stored, memory, page, shown>>

(* Rows in progress have no error message, and GetRecentGitSyncLogs cannot *)
(* read them: those of a sync of a call here, or one left by a call.       *)
InProgress == lost \/ \E r \in Place : req[r]["sync"].st = "running"

(* Absent lists that are encoded as null.  The poller's first sync writes  *)
(* a row as soon as the server has started.                                *)
Null(e) == \/ e = "logs" /\ ~GitOps
           \/ e = "subnets" /\ version \in NullDns

(* A GET.  /health is public.  The poller may be in a sync at any moment.  *)
Serve(s, e) ==
    /\ e \in Shown
    /\ req[s][e].st = "sent"
    /\ \/ /\ e # "health" /\ ~ValidateToken(call[s].token)
          /\ Answer(s, e, Rejected)
       \/ /\ e = "health" \/ ValidateToken(call[s].token)
          /\ \/ e = "logs" /\ (InProgress \/ GitOps) /\ Answer(s, e, Failed)
             \/ /\ ~(e = "logs" /\ InProgress)
                /\ Answer(s, e, Unread(call[s].mounted,
                     [st |-> "ok", v |-> version, null |-> Null(e)]))
    /\ UNCHANGED <<server, call>>

(* handleLogin.                                                            *)
handleLogin(s) ==
    /\ req[s]["login"].st = "sent"
    /\ \/ \E k \in Token :
            /\ token[k] = "new"
            /\ token' = [token EXCEPT ![k] = "live"]
            /\ call' = [call EXCEPT ![s].token = k]
            /\ Answer(s, "login", [NoRequest EXCEPT !.st = "ok"])
       \/ /\ Answer(s, "login", Rejected)
          /\ UNCHANGED <<token, call>>
    /\ UNCHANGED <<version, lost, faults>>

(* handleGitSync, up to the sync.                                          *)
handleGitSync(s) ==
    /\ req[s]["sync"].st = "sent"
    /\ IF ~ValidateToken(call[s].token)
       THEN Answer(s, "sync", Rejected)
       ELSE IF ~GitOps THEN Answer(s, "sync", Failed)
       ELSE Answer(s, "sync", [NoRequest EXCEPT !.st = "running"])
    /\ UNCHANGED <<token, version, lost, faults, call>>

MayChange == version' \in {version} \cup ({version + 1} \cap Version)

(* The sync ends.                                                          *)
SyncEnds(s) ==
    /\ req[s]["sync"].st = "running"
    /\ MayChange
    /\ \E st \in {"ok", "failed"} : Answer(s, "sync", [NoRequest EXCEPT !.st = st])
    /\ UNCHANGED <<token, lost, faults, call>>

browser == <<stored, memory, page, shown, call>>

(* Leases come and go, and the poller syncs.                               *)
Change ==
    /\ version < MaxVersion
    /\ version' = version + 1
    /\ UNCHANGED <<token, lost, faults, browser, req>>

(* A token is 24 hours old.                                                *)
Expire(k) ==
    /\ token[k] = "live"
    /\ token' = [token EXCEPT ![k] = "dead"]
    /\ UNCHANGED <<version, lost, faults, browser, req>>

(* A restart forgets the tokens and, by migration 003, the log.            *)
Restart ==
    /\ faults < MaxFaults
    /\ faults' = faults + 1
    /\ token' = [k \in Token |-> IF token[k] = "live" THEN "dead" ELSE token[k]]
    /\ lost' = FALSE
    /\ req' = [s \in Place |-> [e \in Endpoint |->
                 IF req[s][e].st \in {"sent", "running"} THEN Failed ELSE req[s][e]]]
    /\ UNCHANGED <<version, browser>>

(* A request fails: no connection, no database.                            *)
Fail(s, e) ==
    /\ faults < MaxFaults
    /\ faults' = faults + 1
    /\ req[s][e].st = "sent"
    /\ Answer(s, e, Failed)
    /\ UNCHANGED <<token, version, lost, call>>
-----------------------------------------------------------------------------
(***************************************************************************)
(* The answers.                                                            *)
(***************************************************************************)
(* Mutant: any failure ends the session in the browser.                    *)
RejectAny(s, e) ==
    /\ req[s][e].st \in {"unauthorized", "failed"}
    /\ clearAuthToken(call[s].tab)
    /\ req' = [req EXCEPT ![s][e] = Failed]
    /\ UNCHANGED <<server, page, shown, call>>

(* Mutant: a 401 is an error like others.                                  *)
RejectIgnored(s, e) ==
    /\ req[s][e].st = "unauthorized"
    /\ req' = [req EXCEPT ![s][e] = Failed]
    /\ UNCHANGED <<server, stored, memory, page, shown, call>>

(* fetch clears the tokens on a 401, whichever token was sent, and throws. *)
Reject(s, e) ==
    /\ req[s][e].st = "unauthorized"
    /\ clearAuthToken(call[s].tab)
    /\ req' = [req EXCEPT ![s][e] = Failed]
    /\ UNCHANGED <<server, page, shown, call>>

Waits(s) == \E e \in Endpoint : req[s][e].st \in {"sent", "running", "unauthorized"}
Broken(s) == \E e \in Endpoint : req[s][e].st = "failed"

(* handleSubmit goes on: the token is kept and the dashboard is next, or   *)
(* the form is there again.                                                *)
LoggedIn(s) ==
    LET t == call[s].tab
    IN  /\ call[s].fn = "login" /\ req[s]["login"].st = "ok"
        /\ setAuthToken(t, call[s].token)
        /\ Enter(s, t, "dashboard", call[s].token)
        /\ UNCHANGED server

(* Mutant: the button stays disabled after a failed login.                 *)
LoginFailsSilently(s) ==
    /\ call[s].fn = "login" /\ req[s]["login"].st = "failed"
    /\ End(s)
    /\ UNCHANGED <<server, stored, memory, page, shown>>

LoginFails(s) ==
    LET t == call[s].tab
    IN  /\ call[s].fn = "login" /\ req[s]["login"].st = "failed"
        /\ SetPage(t, [page[t] EXCEPT !.loading = FALSE])
        /\ End(s)
        /\ UNCHANGED <<server, stored, memory, shown>>

(* handleManualSync goes on: fetchData after a success.                    *)
SyncAnswered(s) ==
    LET t == call[s].tab
    IN  /\ call[s].fn = "sync" /\ req[s]["sync"].st = "ok"
        /\ Send(s, t, "refresh", call[s].mounted, GitRequests)
        /\ UNCHANGED <<server, stored, page, shown>>

SyncFails(s) ==
    LET t == call[s].tab
    IN  /\ call[s].fn = "sync" /\ req[s]["sync"].st = "failed"
        /\ IF call[s].mounted THEN SetPage(t, [page[t] EXCEPT !.syncing = FALSE])
                              ELSE UNCHANGED page
        /\ End(s)
        /\ UNCHANGED <<server, stored, memory, shown>>

(* Mutant: what fails leaves no data, on any page.                         *)
GotNothing(s, t) ==
    [e \in Shown |->
       IF e \notin Asks(page[t].at) THEN shown[t][e]
       ELSE IF req[s][e].st = "ok" THEN [v |-> req[s][e].v, null |-> req[s][e].null]
       ELSE NoDatum]

(* The page gets its data.  On the Git page a request that fails counts as *)
(* no data; on the others the data stay what they are.                     *)
Got(s, t) ==
    [e \in Shown |->
       IF e \notin Asks(page[t].at) \/ (page[t].at # "git" /\ Broken(s)) THEN shown[t][e]
       ELSE IF req[s][e].st = "ok" THEN [v |-> req[s][e].v, null |-> req[s][e].null]
       ELSE NoDatum]

(* Mutant: the loaded rows replace the filtered ones for good.             *)
AfterUnfiltered(s, t) ==
    LET p == page[t]
        fresh == p.at = "leases" /\ ~Broken(s)
    IN  [p EXCEPT !.loading = FALSE,
                  !.syncing = p.syncing /\ call[s].fn # "refresh",
                  !.rows = IF fresh THEN [of |-> req[s]["leases"].v, by |-> "all"]
                                    ELSE p.rows]

(* Mutant: setLoading(false) at the end of the try block.                  *)
AfterSuccess(s, t) ==
    LET p == page[t]
        fresh == p.at = "leases" /\ ~Broken(s)
    IN  [p EXCEPT !.loading = p.loading /\ Broken(s),
                  !.syncing = p.syncing /\ call[s].fn # "refresh",
                  !.rows = IF fresh THEN [of |-> req[s]["leases"].v, by |-> "all"]
                                    ELSE p.rows,
                  !.stale = p.stale \/ fresh]

(* The state of the page with them; new leases are shown unfiltered until  *)
(* the effect runs.                                                        *)
After(s, t) ==
    LET p == page[t]
        fresh == p.at = "leases" /\ ~Broken(s)
    IN  [p EXCEPT !.loading = FALSE,
                  !.syncing = p.syncing /\ call[s].fn # "refresh",
                  !.rows = IF fresh THEN [of |-> req[s]["leases"].v, by |-> "all"]
                                    ELSE p.rows,
                  !.stale = p.stale \/ fresh]

(* fetchData goes on when all answers are there, on the dashboard at the   *)
(* first failure.  A page that cannot be rendered is lost with its state.  *)
Settle(s) ==
    LET t == call[s].tab
        left == Waits(s)
        gone == Throws(page[t].at, Got(s, t))
    IN  /\ t \in Tab /\ Loads(s, t)
        /\ left => page[t].at # "git" /\ Broken(s)
        /\ SetPage(t, IF gone THEN Mounted("blank", version) ELSE After(s, t))
        /\ shown' = [shown EXCEPT ![t] = IF gone THEN NothingShown ELSE Got(s, t)]
        /\ call' = [r \in Place |->
              IF r # s THEN IF gone THEN Leave(r, t) ELSE call[r]
              ELSE IF left THEN Leave(s, t) ELSE NoCall]
        /\ req' = [r \in Place |->
              IF r # s THEN IF gone THEN LeaveRequests(r, t) ELSE req[r]
              ELSE IF left THEN LeaveRequests(s, t) ELSE NoRequests]
        /\ UNCHANGED <<server, stored, memory>>

(* The last answer to a call whose page has been left, or which threw.     *)
Discard(s) ==
    /\ call[s].fn \in {"fetch", "refresh"} /\ ~call[s].mounted /\ ~Waits(s)
    /\ End(s)
    /\ UNCHANGED <<server, stored, memory, page, shown>>

User(t) == \/ \E p \in Page : Navigate(t, p) \/ Load(t, p)
           \/ Logout(t) \/ Submit(t) \/ ManualSync(t)
           \/ \E f \in {"all", "active"} : Choose(t, f)

Api(s) == (\E e \in Shown : Serve(s, e)) \/ handleLogin(s) \/ handleGitSync(s) \/ SyncEnds(s)

Client(s) == \/ \E e \in Endpoint : Reject(s, e)
             \/ LoggedIn(s) \/ LoginFails(s) \/ SyncAnswered(s) \/ SyncFails(s)
             \/ Settle(s) \/ Discard(s)

Next ==
    \/ \E t \in Tab : User(t) \/ Tick(t) \/ Refilter(t)
    \/ \E s \in Place : Api(s) \/ Client(s) \/ \E e \in Endpoint : Fail(s, e)
    \/ \E k \in Token : Expire(k)
    \/ Change \/ Restart

Spec == Init /\ [][Next]_vars

(* Requests are answered and the answers handled, effects run, and an      *)
(* interval fires again and again: whenever a place for a call is free,    *)
(* which is a bound of the model only.                                     *)
FairSpec ==
    /\ Spec
    /\ \A s \in Place : WF_vars(Client(s)) /\ WF_vars(Api(s))
    /\ \A t \in Tab : WF_vars(Refilter(t)) /\ SF_vars(Tick(t))
-----------------------------------------------------------------------------
(***************************************************************************)
(* Properties.                                                             *)
(***************************************************************************)
Asked(s) == {e \in Endpoint : req[s][e].st # "none"}
Syncs(s, t) == call[s].tab = t /\ call[s].mounted /\ call[s].fn \in {"sync", "refresh"}
LogsIn(s, t) == call[s].tab = t /\ call[s].fn = "login"
Issued(k) == k # NoToken => token[k] # "new"

(* What each kind of call has in flight, and the page it is of; its token  *)
(* has been issued, is not valid if it is refused, and is the answer to a  *)
(* login.                                                                  *)
CallMatches(s) ==
    /\ call[s].fn = "none" => call[s] = NoCall /\ req[s] = NoRequests
    /\ call[s].fn # "none" => call[s].tab \in Tab
    /\ call[s].fn = "login" => /\ call[s].mounted /\ Asked(s) = {"login"}
                               /\ page[call[s].tab].at = "login"
                               /\ page[call[s].tab].loading
                               /\ req[s]["login"].st = "ok" => call[s].token # NoToken
    /\ call[s].fn = "sync" => Asked(s) = {"sync"}
    /\ call[s].fn = "refresh" => Asked(s) = GitRequests
    /\ call[s].fn = "fetch" => Asked(s) \subseteq Shown
    /\ call[s].fn = "fetch" /\ call[s].mounted =>
          /\ page[call[s].tab].at \in DataPage
          /\ Asked(s) = Asks(page[call[s].tab].at)
    /\ call[s].fn \in {"sync", "refresh"} /\ call[s].mounted =>
          page[call[s].tab].at = "git" /\ page[call[s].tab].syncing
    /\ Issued(call[s].token)
    /\ \A e \in Shown \cup {"sync"} :
         req[s][e].st = "unauthorized" => ~ValidateToken(call[s].token)

(* A page says "Loading..." only as long as a call of this mount that will *)
(* end it is in flight, the login form is disabled as long as its own      *)
(* request is, and the button of the Git page as long as exactly one       *)
(* manual sync of this mount is.  So a lost answer, an early failure       *)
(* (Promise.all), a page that is left and entered again or a call that     *)
(* outlives its page never leaves a page loading for ever, or with two     *)
(* syncs behind the button (GitSync.tsx:12-43, Login.tsx:13-27).           *)
Backed(t) ==
    /\ page[t].loading =>
         \E s \in Place : IF page[t].at = "login" THEN LogsIn(s, t) ELSE Loads(s, t)
    /\ page[t].syncing /\ page[t].at = "git" => \E s \in Place : Syncs(s, t)
    /\ \A r, s \in Place : Syncs(r, t) /\ Syncs(s, t) => r = s
    /\ \A r, s \in Place : LogsIn(r, t) /\ LogsIn(s, t) => r = s

SpinnerBacked == \A t \in Tab : Backed(t)

(* A page never shows data older than its own opening: answers to calls of *)
(* a page that has been left do not show up on the next one                *)
(* (Dashboard.tsx:11-31 and the like).                                     *)
FreshSinceMount == \A t \in Tab : \A v \in View(t) : v >= page[t].entered

(* Unless the effect has yet to run, the leases on the screen are those of *)
(* the latest load that are in the chosen state: a load that comes between *)
(* a choice and its effect, or the other way round, does not undo it       *)
(* (Leases.tsx:13-52).                                                     *)
Filtered(t) ==
    page[t].at = "leases" /\ ~page[t].stale =>
      page[t].rows = [of |-> shown[t]["leases"].v, by |-> page[t].choice]

FilterApplied == \A t \in Tab : Filtered(t)

(* Versions: of the mount, of the data shown, and of the rows.             *)
SinceMount(t, v) == v = 0 \/ v \in page[t].entered .. version

DataInOrder(t) ==
    /\ page[t].entered <= version
    /\ \A e \in Shown : SinceMount(t, shown[t][e].v)
    /\ SinceMount(t, page[t].rows.of)

(* Of answers; a call that shares the page with no other brings no older   *)
(* data than the page has.                                                 *)
LoadInOrder(s, t) ==
    /\ \A e \in Shown : req[s][e].st = "ok" =>
         /\ req[s][e].v \in page[t].entered .. version
         /\ call[s].overlaps \/ req[s][e].v >= shown[t][e].v
    /\ call[s].overlaps \/ \A r \in Place : Loads(r, t) => r = s

TabMatches(t) ==
    /\ Issued(memory[t])
    /\ Backed(t)
    /\ Filtered(t)
    /\ DataInOrder(t)
    /\ \A s \in Place : Loads(s, t) => LoadInOrder(s, t)

(* The inductive invariant.                                                *)
IInv ==
    /\ TypeOK
    /\ Issued(stored)
    /\ \A s \in Place : CallMatches(s)
    /\ \A t \in Tab : TabMatches(t)

(* Data on a page goes back to an older version only by a call that was in *)
(* flight together with another one of the same page (the intervals do not *)
(* wait for the answer to the previous request); or to nothing, when the   *)
(* page is mounted anew or a request of the Git page fails.                *)
NeverBack ==
    [][\A t \in Tab, e \in Shown : shown'[t][e].v < shown[t][e].v =>
          \/ page'[t] = Mounted(page'[t].at, version)
          \/ page[t].at = "git" /\ shown'[t][e] = NoDatum
          \/ \E s \in Place : Loads(s, t) /\ call[s].overlaps /\ call'[s] # call[s]]_vars

Rejects(k) == \E s \in Place, e \in Endpoint :
                /\ req[s][e].st = "unauthorized" /\ req'[s][e].st = "failed"
                /\ e = "login" \/ call[s].token # k

(* A valid token leaves a tab's memory only when the tab goes to the login *)
(* page, and localStorage only by a logout, but for two cases: the server  *)
(* refuses a login, or a request that was sent with another token.  Errors *)
(* of other kinds, in this tab or another one, do not end a session.       *)
SessionKept ==
    [][/\ \A t \in Tab : /\ ValidateToken(memory[t]) /\ memory'[t] = NoToken
                         /\ page'[t].at # "login"
                         => Rejects(memory[t])
       /\ ValidateToken(stored) /\ stored' = NoToken /\ ~Rejects(stored) =>
            \E t \in Tab : page[t].at \in Page /\ page'[t].at = "login"]_vars

(* Every page stops loading, and the button of the Git page and the login  *)
(* form work again, whatever becomes of the requests.                      *)
SpinnersStop ==
    \A t \in Tab :
      /\ \A p \in DataPage \cup {"login"} : []<>~(page[t].at = p /\ page[t].loading)
      /\ []<>~page[t].syncing

(* While a page with an interval is open and its tab has a valid token, it *)
(* shows the present data again and again, whatever failed before.  (The   *)
(* Git page does not: its log cannot be read while a row is in progress.)  *)
CatchesUp ==
    \A t \in Tab, p \in {"dashboard", "leases", "subnets"} :
      []<>(page[t].at = p /\ ValidateToken(memory[t]) =>
             ~page[t].loading /\ View(t) = {version})

(* A tab on a page with an interval finds out that its token has died.     *)
DeadTokenDropped ==
    \A t \in Tab, k \in Token :
      []<>~(memory[t] = k /\ token[k] = "dead" /\ Polls(page[t].at))

=============================================================================
