------------------------- MODULE WebInterfaceProofs -------------------------
(***************************************************************************)
(* Proofs about WebInterface: its inductive invariant, hence that what     *)
(* says "Loading..." is backed by a call, that the filter is applied and   *)
(* that a page shows nothing older than its opening; and that data go back *)
(* and sessions end only where the two action properties say.              *)
(***************************************************************************)
EXTENDS WebInterface, TLAPS

-----------------------------------------------------------------------------
(***************************************************************************)
(* Types.                                                                  *)
(***************************************************************************)
LEMMA Versions ==
    ASSUME WebAssumption
    PROVE  /\ MaxVersion \in Nat /\ 0 \in Version /\ 1 \in Version
           /\ 1 .. MaxVersion \subseteq Version
           /\ \A v \in Version : v \in Int
BY DEF WebAssumption, Version

LEMMA Constants ==
    ASSUME WebAssumption
    PROVE  /\ NoCall \in Call /\ NoRequest \in Request /\ Sent \in Request
           /\ Failed \in Request /\ Rejected \in Request
           /\ Sent.st = "sent" /\ Failed.st = "failed" /\ Rejected.st = "unauthorized"
           /\ NoRequests \in [Endpoint -> Request]
           /\ NothingShown \in [Shown -> Datum]
           /\ Shown \subseteq Endpoint /\ "sync" \in Endpoint /\ "login" \in Endpoint
           /\ "sync" \notin Shown /\ "login" \notin Shown
           /\ \A E : Requests(E) \in [Endpoint -> Request]
<1>1. 0 \in Version
  BY Versions
<1>2. NoRequest \in Request /\ NoCall \in Call /\ NoDatum \in Datum
  BY <1>1 DEF NoRequest, Request, NoCall, Call, NoDatum, Datum
<1>3. Sent \in Request /\ Sent.st = "sent"
  BY <1>2 DEF Sent, Request
<1>4. /\ Failed \in Request /\ Failed.st = "failed"
      /\ Rejected \in Request /\ Rejected.st = "unauthorized"
  BY <1>2 DEF Failed, Rejected, Request
<1>5. NoRequests \in [Endpoint -> Request] /\ NothingShown \in [Shown -> Datum]
  BY <1>2 DEF NoRequests, NothingShown
<1>6. ASSUME NEW E PROVE Requests(E) \in [Endpoint -> Request]
  BY <1>2, <1>3 DEF Requests
<1> QED
  BY <1>2, <1>3, <1>4, <1>5, <1>6 DEF Shown, Endpoint

LEMMA Typed ==
    ASSUME WebAssumption, TypeOK
    PROVE  /\ version \in Version /\ version \in Nat
           /\ \A t \in Tab : /\ page[t] \in PageState
                             /\ memory[t] \in Token \cup {NoToken}
                             /\ shown[t] \in [Shown -> Datum]
                             /\ \A e \in Shown : shown[t][e].v \in Int
                             /\ page[t].entered \in Int /\ page[t].rows.of \in Int
           /\ \A s \in Place : /\ call[s] \in Call
                               /\ req[s] \in [Endpoint -> Request]
                               /\ \A e \in Endpoint : /\ req[s][e] \in Request
                                                      /\ req[s][e].v \in Int
<1>1. version \in Version /\ version \in Nat
  BY Versions DEF TypeOK, Version
<1>2. ASSUME NEW t \in Tab
      PROVE  /\ page[t] \in PageState
             /\ memory[t] \in Token \cup {NoToken}
             /\ shown[t] \in [Shown -> Datum]
  BY DEF TypeOK
<1>3. ASSUME NEW t \in Tab
      PROVE  page[t].entered \in Version /\ page[t].rows.of \in Version
  BY <1>2 DEF PageState
<1>4. ASSUME NEW t \in Tab, NEW e \in Shown
      PROVE  shown[t][e].v \in Version
  BY <1>2 DEF Datum
<1>5. ASSUME NEW s \in Place
      PROVE  call[s] \in Call /\ req[s] \in [Endpoint -> Request]
  BY DEF TypeOK
<1>6. ASSUME NEW s \in Place, NEW e \in Endpoint
      PROVE  req[s][e] \in Request /\ req[s][e].v \in Version
  BY <1>5 DEF Request
<1> QED
  BY <1>1, <1>2, <1>3, <1>4, <1>5, <1>6, Versions

(* The pages ask for what they show.                                       *)
LEMMA Asking ==
    /\ \A p : Asks(p) \subseteq Shown
    /\ \A p : p \notin DataPage => Asks(p) = {}
    /\ Asks("git") = GitRequests /\ GitRequests \subseteq Shown
    /\ DataPage \subseteq Page /\ "login" \notin Page /\ "blank" \notin Page
    /\ "git" \in DataPage /\ "dashboard" \in DataPage /\ "leases" \in DataPage
BY DEF Asks, DataPage, Page, Shown, DashboardRequests, LeasesRequests, SubnetsRequests,
       ConfigRequests, GitRequests

LEMMA MountedPage ==
    ASSUME WebAssumption, NEW v \in Version, NEW p \in Page \cup {"login", "blank"}
    PROVE  Mounted(p, v) \in PageState
BY Versions DEF Mounted, PageState

(* A page that has just been mounted.                                      *)
LEMMA MountedFields ==
    ASSUME NEW v, NEW p, NEW q, q = Mounted(p, v)
    PROVE  /\ q.at = p /\ (q.loading <=> p \in DataPage) /\ ~q.syncing
           /\ q.choice = "all" /\ q.rows = [of |-> 0, by |-> "all"] /\ ~q.stale
           /\ q.entered \in {0, v}
BY DEF Mounted

LEMMA RequestsSent ==
    ASSUME NEW E, E \subseteq Endpoint, NEW f, f = Requests(E)
    PROVE  /\ {e \in Endpoint : f[e].st # "none"} = E
           /\ \A e \in Endpoint : f[e].st \in {"none", "sent"}
BY DEF Requests, Sent, NoRequest

-----------------------------------------------------------------------------
(***************************************************************************)
(* What leaves a call as the invariant wants it.                           *)
(***************************************************************************)
(* Tokens do not come back.                                                *)
TokensAge == \A k \in Token : /\ token[k] # "new" => token'[k] # "new"
                              /\ token[k] = "dead" => token'[k] = "dead"

IssuedNext(k) == k # NoToken => token'[k] # "new"
ValidNext(k) == k \in Token /\ token'[k] = "live"
TokenIssued(s) == IssuedNext(call'[s].token)
MemoryIssued(t) == IssuedNext(memory'[t])
KeepsToken(s) == \/ /\ call'[s].token = call[s].token
                    /\ req'[s]["login"].st = "ok" => req[s]["login"].st = "ok"
                 \/ call[s].fn = "login" /\ TokenIssued(s) /\ call'[s].token # NoToken

(* The page of a call is where it was, as far as the call is concerned.    *)
SamePage(s) ==
    LET t == call[s].tab
    IN  /\ page'[t].at = page[t].at
        /\ call[s].fn = "login" /\ page[t].loading => page'[t].loading
        /\ /\ call[s].fn \in {"sync", "refresh"} /\ call[s].mounted
           /\ page[t].syncing
           => page'[t].syncing

LEMMA Age ==
    ASSUME WebAssumption, TypeOK, TokensAge, NEW k, Issued(k), k \in Token \cup {NoToken}
    PROVE  IssuedNext(k) /\ (~ValidateToken(k) => ~ValidNext(k))
BY DEF IssuedNext, ValidNext, TokensAge, Issued, ValidateToken, WebAssumption, TypeOK

LEMMA AgeSame ==
    ASSUME UNCHANGED token
    PROVE  TokensAge
BY DEF TokensAge

(* A call goes on: with the answers to its requests, it may get a token,   *)
(* and another call beside it.                                             *)
LEMMA CallKept ==
    ASSUME WebAssumption, TypeOK, TokensAge, NEW s \in Place, CallMatches(s),
           call[s].fn = "none" => call'[s] = call[s] /\ req'[s] = req[s],
           call'[s].tab = call[s].tab, call'[s].fn = call[s].fn,
           call'[s].mounted = call[s].mounted,
           KeepsToken(s),
           call[s].tab \in Tab => SamePage(s),
           \A e \in Endpoint : req'[s][e].st = "none" <=> req[s][e].st = "none",
           \A e \in Shown \cup {"sync"} :
             req'[s][e].st = "unauthorized" =>
               req[s][e].st = "unauthorized" \/ ~ValidNext(call[s].token)
    PROVE  CallMatches(s)'
<1>1. Asked(s)' = Asked(s)
  BY DEF Asked
<1>2. call[s].token \in Token \cup {NoToken}
  BY Typed DEF Call
<1>3. IssuedNext(call[s].token) /\ TokenIssued(s)
  <2>1. IssuedNext(call[s].token)
    BY <1>2, Age DEF CallMatches
  <2> QED
    BY <2>1 DEF KeepsToken, TokenIssued, IssuedNext
<1>4. call[s].fn = "login" => Asked(s) = {"login"}
  BY DEF CallMatches
<1>5. ASSUME NEW e \in Shown \cup {"sync"}, req'[s][e].st = "unauthorized"
      PROVE  call'[s].token = call[s].token /\ ~ValidNext(call[s].token)
  <2>1. e \in Endpoint /\ e # "login" /\ req[s][e].st # "none"
    BY <1>5 DEF Shown, Endpoint
  <2>2. call[s].fn # "login"
    BY <2>1, <1>4 DEF Asked
  <2>3. call'[s].token = call[s].token
    BY <2>2 DEF KeepsToken
  <2> QED
    BY <1>5, <2>3, <1>2, Age DEF CallMatches
<1>6. /\ call'[s].fn = "none" => call'[s] = NoCall /\ req'[s] = NoRequests
      /\ call'[s].fn # "none" => call'[s].tab \in Tab
  BY DEF CallMatches
<1>7. call[s].fn = "login" /\ req'[s]["login"].st = "ok" => call'[s].token # NoToken
  BY DEF KeepsToken, CallMatches
<1> QED
  BY <1>1, <1>3, <1>5, <1>6, <1>7 DEF SamePage, TokenIssued, CallMatches, Issued,
         IssuedNext, ValidateToken, ValidNext

(* A call that nothing happens to.                                         *)
LEMMA CallSame ==
    ASSUME WebAssumption, TypeOK, TokensAge, NEW s \in Place, CallMatches(s),
           call'[s] = call[s] /\ req'[s] = req[s],
           call[s].tab \in Tab => SamePage(s)
    PROVE  CallMatches(s)'
<1>1. /\ call'[s].tab = call[s].tab /\ call'[s].fn = call[s].fn
      /\ call'[s].mounted = call[s].mounted /\ call'[s].token = call[s].token
  OBVIOUS
<1>2. \A e : req'[s][e] = req[s][e]
  OBVIOUS
<1> QED
  BY <1>1, <1>2, CallKept DEF KeepsToken

(* Its page is left.                                                       *)
LEMMA CallLeft ==
    ASSUME WebAssumption, TypeOK, TokensAge, NEW t \in Tab, NEW s \in Place,
           CallMatches(s), call[s].tab = t, call[s].fn # "login",
           call'[s] = Leave(s, t), req'[s] = LeaveRequests(s, t)
    PROVE  CallMatches(s)' /\ ~call'[s].mounted
<1>1. /\ call'[s].tab = t /\ call'[s].fn = call[s].fn
      /\ ~call'[s].mounted /\ call'[s].token = call[s].token
  BY Typed DEF Leave, Call
<1>2. ASSUME NEW e \in Endpoint
      PROVE  /\ req'[s][e].st = "none" <=> req[s][e].st = "none"
             /\ req'[s][e].st = "unauthorized" <=> req[s][e].st = "unauthorized"
  BY Constants DEF LeaveRequests, Unread
<1>3. call[s].fn # "none"
  BY DEF CallMatches, NoCall, WebAssumption
<1>4. Asked(s)' = Asked(s)
  BY <1>2 DEF Asked
<1>5. call[s].token \in Token \cup {NoToken} /\ Issued(call[s].token)
  BY Typed DEF Call, CallMatches
<1>6. \A e \in Shown \cup {"sync"} : req'[s][e].st = "unauthorized" =>
        ~ValidNext(call[s].token)
  BY <1>2, <1>5, Age, Constants DEF CallMatches
<1> QED
  BY <1>1, <1>3, <1>4, <1>5, <1>6, Age DEF CallMatches, Issued, IssuedNext, ValidateToken,
       ValidNext

LEMMA CallEnded ==
    ASSUME WebAssumption, NEW s \in Place,
           call'[s] = NoCall, req'[s] = NoRequests
    PROVE  CallMatches(s)'
BY DEF CallMatches, NoCall, NoRequests, NoRequest, Issued, Endpoint, Shown

(* A call is new, or goes on with other requests.                          *)
LEMMA CallSent ==
    ASSUME WebAssumption, NEW s \in Place, NEW t \in Tab, NEW E \in SUBSET Endpoint,
           call'[s].tab = t, TokenIssued(s), req'[s] = Requests(E),
           \/ /\ call'[s].fn = "login" /\ call'[s].mounted /\ E = {"login"}
              /\ page'[t].at = "login" /\ page'[t].loading
           \/ /\ call'[s].fn = "sync" /\ call'[s].mounted /\ E = {"sync"}
              /\ page'[t].at = "git" /\ page'[t].syncing
           \/ /\ call'[s].fn = "refresh" /\ E = GitRequests
              /\ call'[s].mounted => page'[t].at = "git" /\ page'[t].syncing
           \/ /\ call'[s].fn = "fetch" /\ E = Asks(page'[t].at)
              /\ page'[t].at \in DataPage
    PROVE  CallMatches(s)'
<1>1. Asked(s)' = E
  BY RequestsSent DEF Asked
<1>2. /\ \A e \in Shown \cup {"sync"} : req'[s][e].st # "unauthorized"
      /\ req'[s]["login"].st # "ok"
  BY RequestsSent, Constants
<1> QED
  BY <1>1, <1>2, Asking DEF TokenIssued, CallMatches, Issued, IssuedNext, ValidateToken,
       ValidNext

-----------------------------------------------------------------------------
(***************************************************************************)
(* What leaves a page as the invariant wants it.                           *)
(***************************************************************************)
(* Nothing happens to the page; its calls get answers, and some that do    *)
(* not set its data end.                                                   *)
LEMMA TabKept ==
    ASSUME WebAssumption, TypeOK, NEW t \in Tab, TabMatches(t),
           page'[t] = page[t], shown'[t] = shown[t],
           version' \in Int, version <= version', MemoryIssued(t),
           \A s \in Place :
             /\ Loads(s, t)' <=> Loads(s, t)
             /\ Syncs(s, t)' <=> Syncs(s, t)
             /\ LogsIn(s, t)' <=> LogsIn(s, t)
             /\ Loads(s, t) => call'[s].overlaps = call[s].overlaps
             /\ Loads(s, t) => \A e \in Shown :
                  req'[s][e].st = "ok" =>
                    \/ req[s][e].st = "ok" /\ req'[s][e].v = req[s][e].v
                    \/ req'[s][e].v = version
    PROVE  TabMatches(t)'
<1>1. Issued(memory[t])'
  BY DEF Issued, IssuedNext, MemoryIssued
<1>2. Backed(t)'
  BY DEF TabMatches, Backed
<1>3. Filtered(t)'
  BY DEF TabMatches, Filtered
<1>4. DataInOrder(t)'
  BY Typed DEF TabMatches, DataInOrder, SinceMount
<1>5. ASSUME NEW s \in Place, Loads(s, t) PROVE LoadInOrder(s, t)'
  <2>1. LoadInOrder(s, t) /\ DataInOrder(t)
    BY <1>5 DEF TabMatches
  <2>2. ASSUME NEW e \in Shown, req'[s][e].st = "ok"
        PROVE  /\ req'[s][e].v \in page[t].entered .. version'
               /\ call[s].overlaps \/ req'[s][e].v >= shown[t][e].v
    <3>1. e \in Endpoint
      BY Constants
    <3>2. CASE req[s][e].st = "ok" /\ req'[s][e].v = req[s][e].v
      BY <2>1, <3>1, <3>2, Typed DEF LoadInOrder
    <3>3. CASE req'[s][e].v = version
      BY <2>1, <3>3, Typed DEF DataInOrder, SinceMount
    <3> QED
      BY <1>5, <2>2, <3>2, <3>3
  <2>3. call[s].overlaps \/ \A r \in Place : Loads(r, t) => r = s
    BY <2>1 DEF LoadInOrder
  <2> QED
    BY <1>5, <2>2, <2>3 DEF LoadInOrder
<1> QED
  BY <1>1, <1>2, <1>3, <1>4, <1>5 DEF TabMatches

(* Nothing at all happens to it, or to its calls.                          *)
LEMMA TabSame ==
    ASSUME WebAssumption, TypeOK, NEW t \in Tab, TabMatches(t),
           page'[t] = page[t], shown'[t] = shown[t],
           version' \in Int, version <= version', MemoryIssued(t),
           \A s \in Place : call[s].tab = t \/ call'[s].tab = t =>
             call'[s] = call[s] /\ req'[s] = req[s]
    PROVE  TabMatches(t)'
<1>1. ASSUME NEW s \in Place
      PROVE  /\ Loads(s, t)' <=> Loads(s, t)
             /\ Syncs(s, t)' <=> Syncs(s, t)
             /\ LogsIn(s, t)' <=> LogsIn(s, t)
             /\ Loads(s, t) => call'[s] = call[s] /\ req'[s] = req[s]
  BY DEF Loads, Syncs, LogsIn
<1> QED
  BY <1>1, TabKept

(* A page is mounted: of the calls only one that starts with it is its.    *)
LEMMA TabEntered ==
    ASSUME WebAssumption, TypeOK, NEW t \in Tab, NEW s \in Place,
           NEW p \in Page \cup {"login", "blank"},
           page'[t] = Mounted(p, version), shown'[t] = NothingShown,
           version' = version, MemoryIssued(t),
           p \in DataPage => Loads(s, t)',
           \A r \in Place : ~LogsIn(r, t)' /\ ~Syncs(r, t)',
           \A r \in Place : Loads(r, t)' => r = s,
           p \in DataPage => \A e \in Endpoint : req'[s][e].st # "ok",
           p \notin DataPage => \A r \in Place : ~Loads(r, t)'
    PROVE  TabMatches(t)'
<1>1. Issued(memory[t])'
  BY DEF Issued, IssuedNext, MemoryIssued
<1>2. /\ page'[t].at = p /\ (page'[t].loading <=> p \in DataPage) /\ ~page'[t].syncing
      /\ page'[t].choice = "all" /\ page'[t].rows = [of |-> 0, by |-> "all"]
      /\ page'[t].rows.of = 0
      /\ page'[t].entered \in {0, version}
  BY MountedFields
<1>3. \A e \in Shown : shown'[t][e].v = 0
  BY DEF NothingShown, NoDatum
<1>4. Backed(t)'
  BY <1>2, Asking DEF Backed
<1>5. Filtered(t)'
  BY <1>2, <1>3 DEF Filtered, Shown
<1>6. DataInOrder(t)'
  BY <1>2, <1>3, Typed DEF DataInOrder, SinceMount
<1>7. ASSUME NEW r \in Place, Loads(r, t)' PROVE LoadInOrder(r, t)'
  BY <1>7, Constants DEF LoadInOrder
<1> QED
  BY <1>1, <1>4, <1>5, <1>6, <1>7 DEF TabMatches

-----------------------------------------------------------------------------
(***************************************************************************)
(* The server's steps, and the answers that set no data.                   *)
(***************************************************************************)
(* The call s is where it was, but for the token of a login.               *)
CallStays(s) ==
    /\ call'[s].tab = call[s].tab /\ call'[s].fn = call[s].fn
    /\ call'[s].mounted = call[s].mounted /\ call'[s].overlaps = call[s].overlaps
    /\ KeepsToken(s)
    /\ call[s].fn = "none" => call'[s] = call[s] /\ req'[s] = req[s]

(* A refusal is of a token that is not valid, and data are of the present  *)
(* version.                                                                *)
AnswerComes(s, e) ==
    /\ req'[s][e].st = "none" <=> req[s][e].st = "none"
    /\ req'[s][e].st = "unauthorized" /\ e # "login" =>
         req[s][e].st = "unauthorized" \/ ~ValidNext(call[s].token)
    /\ req'[s][e].st = "ok" =>
         \/ req[s][e].st = "ok" /\ req'[s][e].v = req[s][e].v
         \/ e \in Shown => req'[s][e].v = version

AnswersOnly ==
    /\ UNCHANGED <<page, shown>>
    /\ version' \in Int /\ version <= version'
    /\ \A t \in Tab : MemoryIssued(t)
    /\ \A s \in Place : CallStays(s) /\ \A e \in Endpoint : AnswerComes(s, e)

LEMMA AnswersMatch ==
    ASSUME WebAssumption, IInv, TokensAge, AnswersOnly
    PROVE  /\ \A s \in Place : CallMatches(s)'
           /\ \A t \in Tab : TabMatches(t)'
<1>1. TypeOK /\ page' = page /\ shown' = shown
  BY DEF IInv, AnswersOnly
<1>2. ASSUME NEW s \in Place PROVE CallMatches(s)'
  <2>1. CallMatches(s) /\ CallStays(s) /\ \A e \in Endpoint : AnswerComes(s, e)
    BY DEF IInv, AnswersOnly
  <2>2. call[s].tab \in Tab => SamePage(s)
    BY <1>1 DEF SamePage
  <2>3. \A e \in Endpoint : req'[s][e].st = "none" <=> req[s][e].st = "none"
    BY <2>1 DEF AnswerComes
  <2>4. \A e \in Shown \cup {"sync"} :
          req'[s][e].st = "unauthorized" =>
            req[s][e].st = "unauthorized" \/ ~ValidNext(call[s].token)
    BY <2>1, Constants DEF AnswerComes
  <2>5. /\ call'[s].tab = call[s].tab /\ call'[s].fn = call[s].fn
        /\ call'[s].mounted = call[s].mounted /\ KeepsToken(s)
        /\ call[s].fn = "none" => call'[s] = call[s] /\ req'[s] = req[s]
    BY <2>1 DEF CallStays
  <2> QED
    BY <1>1, <2>1, <2>2, <2>3, <2>4, <2>5, CallKept
<1>3. ASSUME NEW t \in Tab PROVE TabMatches(t)'
  <2>1. ASSUME NEW s \in Place
        PROVE  /\ Loads(s, t)' <=> Loads(s, t)
               /\ Syncs(s, t)' <=> Syncs(s, t)
               /\ LogsIn(s, t)' <=> LogsIn(s, t)
               /\ call'[s].overlaps = call[s].overlaps
    BY DEF AnswersOnly, CallStays, Loads, Syncs, LogsIn
  <2>2. ASSUME NEW s \in Place, NEW e \in Shown, req'[s][e].st = "ok"
        PROVE  \/ req[s][e].st = "ok" /\ req'[s][e].v = req[s][e].v
               \/ req'[s][e].v = version
    BY <2>2, Constants DEF AnswersOnly, AnswerComes
  <2>3. TabMatches(t) /\ MemoryIssued(t) /\ version' \in Int /\ version <= version'
    BY DEF IInv, AnswersOnly
  <2> QED
    BY <1>1, <2>1, <2>2, <2>3, TabKept
<1> QED
  BY <1>2, <1>3

(* What does not move.                                                     *)
LEMMA NoAnswer ==
    ASSUME WebAssumption, NEW s \in Place, req'[s] = req[s]
    PROVE  \A e \in Endpoint : AnswerComes(s, e)
BY DEF AnswerComes

LEMMA NoMove ==
    ASSUME WebAssumption, NEW s \in Place, call'[s] = call[s],
           call[s].fn = "none" => req'[s] = req[s],
           req'[s]["login"].st = "ok" => req[s]["login"].st = "ok"
    PROVE  CallStays(s)
BY DEF CallStays, KeepsToken

LEMMA MemoryKept ==
    ASSUME WebAssumption, IInv, TokensAge
    PROVE  /\ IssuedNext(NoToken) /\ IssuedNext(stored)
           /\ \A t \in Tab : /\ IssuedNext(memory[t]) /\ IssuedNext(Held(t))
                             /\ memory'[t] \in {memory[t], Held(t), stored, NoToken}
                                  => MemoryIssued(t)
<1>1. TypeOK /\ Issued(stored) /\ \A t \in Tab : Issued(memory[t])
  BY DEF IInv, TabMatches
<1>2. stored \in Token \cup {NoToken} /\ \A t \in Tab : memory[t] \in Token \cup {NoToken}
  BY <1>1 DEF TypeOK
<1>3. IssuedNext(stored) /\ IssuedNext(NoToken)
  BY <1>1, <1>2, Age DEF IssuedNext
<1>4. ASSUME NEW t \in Tab PROVE IssuedNext(memory[t]) /\ IssuedNext(Held(t))
  <2>1. IssuedNext(memory[t])
    BY <1>1, <1>2, Age
  <2> QED
    BY <2>1, <1>3 DEF Held
<1>5. ASSUME NEW t \in Tab, memory'[t] \in {memory[t], Held(t), stored, NoToken}
      PROVE  MemoryIssued(t)
  BY <1>3, <1>4, <1>5 DEF MemoryIssued, IssuedNext
<1> QED
  BY <1>3, <1>4, <1>5

LEMMA StoredKept ==
    ASSUME WebAssumption, IInv, TokensAge, stored' = stored \/ stored' = NoToken
    PROVE  Issued(stored)'
BY MemoryKept DEF Issued, IssuedNext

LEMMA OneAnswer ==
    ASSUME WebAssumption, TypeOK, NEW s \in Place, NEW e \in Endpoint, NEW r \in Request,
           req' = [req EXCEPT ![s][e] = r]
    PROVE  /\ req' \in [Place -> [Endpoint -> Request]]
           /\ \A q \in Place : q # s => req'[q] = req[q]
           /\ \A f \in Endpoint : req'[s][f] = IF f = e THEN r ELSE req[s][f]
<1>1. req \in [Place -> [Endpoint -> Request]] /\ req[s] \in [Endpoint -> Request]
  BY DEF TypeOK
<1>2. [req[s] EXCEPT ![e] = r] \in [Endpoint -> Request]
  BY <1>1
<1>3. req' = [req EXCEPT ![s] = [req[s] EXCEPT ![e] = r]]
  OBVIOUS
<1> QED
  BY <1>1, <1>2, <1>3

(* A request of s for e is answered with r; only call s may change, by the *)
(* token of a login.                                                       *)
LEMMA AnswerMatches ==
    ASSUME WebAssumption, IInv, TokensAge, NEW s \in Place, NEW e \in Endpoint,
           NEW r \in Request, req' = [req EXCEPT ![s][e] = r],
           UNCHANGED <<page, shown>>,
           call'[s].tab = call[s].tab, call'[s].fn = call[s].fn,
           call'[s].mounted = call[s].mounted, call'[s].overlaps = call[s].overlaps,
           KeepsToken(s),
           \A q \in Place : q # s => call'[q] = call[q],
           version' \in Int, version <= version',
           \A t \in Tab : MemoryIssued(t),
           req[s][e].st # "none", r.st # "none",
           r.st = "unauthorized" /\ e # "login" => ~ValidNext(call[s].token),
           r.st = "ok" /\ e \in Shown => r.v = version
    PROVE  /\ req' \in [Place -> [Endpoint -> Request]]
           /\ \A q \in Place : CallMatches(q)'
           /\ \A t \in Tab : TabMatches(t)'
<1>1. TypeOK /\ CallMatches(s)
  BY DEF IInv
<1>2. /\ req' \in [Place -> [Endpoint -> Request]]
      /\ \A q \in Place : q # s => req'[q] = req[q]
      /\ \A f \in Endpoint : req'[s][f] = IF f = e THEN r ELSE req[s][f]
  BY <1>1, OneAnswer
<1>3. call[s].fn # "none"
  BY <1>1 DEF CallMatches, NoRequests, NoRequest
<1>4. ASSUME NEW q \in Place PROVE CallStays(q)
  BY <1>2, <1>3, NoMove DEF CallStays
<1>5. ASSUME NEW q \in Place, NEW f \in Endpoint PROVE AnswerComes(q, f)
  <2>1. CASE q # s
    BY <2>1, <1>2, NoAnswer
  <2>2. CASE q = s
    BY <2>2, <1>2 DEF AnswerComes
  <2> QED
    BY <2>1, <2>2
<1>6. AnswersOnly
  BY <1>4, <1>5 DEF AnswersOnly
<1> QED
  BY <1>2, <1>6, AnswersMatch

(* The same, of a step that changes neither calls nor tokens.              *)
LEMMA PlainAnswer ==
    ASSUME WebAssumption, IInv, NEW s \in Place, NEW e \in Endpoint,
           NEW r \in Request, req' = [req EXCEPT ![s][e] = r],
           UNCHANGED <<token, page, shown, call>>,
           stored' = stored \/ stored' = NoToken,
           memory' \in [Tab -> Token \cup {NoToken}],
           \A t \in Tab : memory'[t] \in {memory[t], NoToken},
           version' \in 1 .. MaxVersion, version <= version',
           lost' \in BOOLEAN, faults' \in 0 .. MaxFaults,
           req[s][e].st # "none", r.st # "none",
           r.st = "unauthorized" /\ e # "login" => ~ValidateToken(call[s].token),
           r.st = "ok" => e # "login" /\ (e \in Shown => r.v = version)
    PROVE  IInv'
<1>1. TypeOK /\ TokensAge /\ CallMatches(s)
  BY AgeSame DEF IInv
<1>2. version' \in Int /\ \A t \in Tab : MemoryIssued(t)
  BY <1>1, MemoryKept
<1>3. r.st = "unauthorized" /\ e # "login" => ~ValidNext(call[s].token)
  BY DEF ValidateToken, ValidNext
<1>4. KeepsToken(s)
  <2>1. req'[s]["login"].st = "ok" => req[s]["login"].st = "ok"
    BY <1>1, OneAnswer, Constants
  <2> QED
    BY <2>1 DEF KeepsToken
<1>5. /\ req' \in [Place -> [Endpoint -> Request]]
      /\ \A q \in Place : CallMatches(q)'
      /\ \A t \in Tab : TabMatches(t)'
  BY <1>1, <1>2, <1>3, <1>4, AnswerMatches
<1>6. Issued(stored)'
  BY <1>1, StoredKept
<1>7. stored' \in Token \cup {NoToken}
  BY <1>1 DEF TypeOK
<1>8. TypeOK'
  BY <1>1, <1>5, <1>7 DEF TypeOK
<1> QED
  BY <1>5, <1>6, <1>8 DEF IInv

LEMMA Served ==
    ASSUME WebAssumption, IInv, NEW s \in Place, NEW e \in Shown, Serve(s, e)
    PROVE  IInv'
<1>1. TypeOK /\ e \in Endpoint /\ e # "login"
  BY Constants DEF IInv
<1>2. PICK r \in Request :
        /\ req' = [req EXCEPT ![s][e] = r]
        /\ r.st # "none"
        /\ r.st = "unauthorized" => ~ValidateToken(call[s].token)
        /\ r.st = "ok" => r.v = version
  <2>1. CASE ~ValidateToken(call[s].token) /\ Answer(s, e, Rejected)
    BY <2>1, Constants DEF Answer
  <2>2. CASE Answer(s, e, Failed)
    BY <2>2, Constants DEF Answer
  <2>3. CASE Answer(s, e, Unread(call[s].mounted,
                     [st |-> "ok", v |-> version, null |-> Null(e)]))
    <3>1. Null(e) \in BOOLEAN /\ version \in Version
      BY <1>1, Typed DEF Null
    <3>2. [st |-> "ok", v |-> version, null |-> Null(e)] \in Request
      BY <3>1 DEF Request
    <3> QED
      BY <2>3, <3>2, Constants DEF Answer, Unread
  <2> QED
    BY <2>1, <2>2, <2>3 DEF Serve
<1>3. UNCHANGED <<token, version, lost, faults, stored, memory, page, shown, call>>
  BY DEF Serve, Answer, server
<1>4. req[s][e].st # "none"
  BY DEF Serve
<1>5. /\ memory' \in [Tab -> Token \cup {NoToken}]
      /\ version' \in 1 .. MaxVersion /\ version <= version'
      /\ lost' \in BOOLEAN /\ faults' \in 0 .. MaxFaults
  BY <1>1, <1>3, Typed DEF TypeOK
<1> QED
  BY <1>1, <1>2, <1>3, <1>4, <1>5, PlainAnswer

LEMMA RequestFails ==
    ASSUME WebAssumption, IInv, NEW s \in Place, NEW e \in Endpoint, Fail(s, e)
    PROVE  IInv'
<1>1. TypeOK
  BY DEF IInv
<1>2. faults' \in 0 .. MaxFaults
  BY <1>1 DEF Fail, TypeOK, WebAssumption
<1>3. /\ UNCHANGED <<token, version, lost, stored, memory, page, shown, call>>
      /\ req' = [req EXCEPT ![s][e] = Failed] /\ req[s][e].st = "sent"
  BY DEF Fail, Answer
<1>4. /\ memory' \in [Tab -> Token \cup {NoToken}]
      /\ version' \in 1 .. MaxVersion /\ version <= version' /\ lost' \in BOOLEAN
  BY <1>1, <1>3, Typed DEF TypeOK
<1> QED
  BY <1>2, <1>3, <1>4, PlainAnswer, Constants

LEMMA Rejects401 ==
    ASSUME WebAssumption, IInv, NEW s \in Place, NEW e \in Endpoint, Reject(s, e)
    PROVE  IInv'
<1>1. TypeOK
  BY DEF IInv
<1>2. /\ UNCHANGED <<token, version, lost, faults, page, shown, call>>
      /\ req' = [req EXCEPT ![s][e] = Failed] /\ req[s][e].st = "unauthorized"
      /\ stored' = NoToken /\ memory' = [memory EXCEPT ![call[s].tab] = NoToken]
  BY DEF Reject, clearAuthToken, setAuthToken, server
<1>3. /\ memory' \in [Tab -> Token \cup {NoToken}]
      /\ \A t \in Tab : memory'[t] \in {memory[t], NoToken}
  BY <1>1, <1>2 DEF TypeOK
<1>4. /\ version' \in 1 .. MaxVersion /\ version <= version'
      /\ lost' \in BOOLEAN /\ faults' \in 0 .. MaxFaults
  BY <1>1, <1>2, Typed DEF TypeOK
<1> QED
  BY <1>2, <1>3, <1>4, PlainAnswer, Constants

LEMMA SyncAccepted ==
    ASSUME WebAssumption, IInv, NEW s \in Place, handleGitSync(s)
    PROVE  IInv'
<1>1. TypeOK /\ "sync" \in Endpoint /\ "sync" \notin Shown
  BY Constants DEF IInv
<1>2. PICK r \in Request :
        /\ req' = [req EXCEPT ![s]["sync"] = r]
        /\ r.st \notin {"none", "ok"}
        /\ r.st = "unauthorized" => ~ValidateToken(call[s].token)
  <2>1. /\ [NoRequest EXCEPT !.st = "running"] \in Request
        /\ [NoRequest EXCEPT !.st = "running"].st = "running"
    BY Constants DEF Request
  <2> QED
    BY <2>1, Constants DEF handleGitSync, Answer
<1>3. /\ UNCHANGED <<token, version, lost, faults, stored, memory, page, shown, call>>
      /\ req[s]["sync"].st # "none"
  BY DEF handleGitSync, Answer
<1>4. /\ memory' \in [Tab -> Token \cup {NoToken}]
      /\ version' \in 1 .. MaxVersion /\ version <= version'
      /\ lost' \in BOOLEAN /\ faults' \in 0 .. MaxFaults
  BY <1>1, <1>3, Typed DEF TypeOK
<1> QED
  BY <1>1, <1>2, <1>3, <1>4, PlainAnswer

LEMMA SyncEnded ==
    ASSUME WebAssumption, IInv, NEW s \in Place, SyncEnds(s)
    PROVE  IInv'
<1>1. TypeOK /\ "sync" \in Endpoint /\ "sync" \notin Shown
  BY Constants DEF IInv
<1>2. PICK r \in Request :
        req' = [req EXCEPT ![s]["sync"] = r] /\ r.st \in {"ok", "failed"}
  <2>1. ASSUME NEW st \in {"ok", "failed"}
        PROVE  /\ [NoRequest EXCEPT !.st = st] \in Request
               /\ [NoRequest EXCEPT !.st = st].st = st
    BY <2>1, Constants DEF Request
  <2> QED
    BY <2>1 DEF SyncEnds, Answer
<1>3. /\ UNCHANGED <<token, lost, faults, stored, memory, page, shown, call>>
      /\ req[s]["sync"].st # "none"
  BY DEF SyncEnds, Answer
<1>4. version' \in 1 .. MaxVersion /\ version <= version'
  BY <1>1, Versions DEF SyncEnds, MayChange, TypeOK, Version
<1>5. /\ memory' \in [Tab -> Token \cup {NoToken}]
      /\ lost' \in BOOLEAN /\ faults' \in 0 .. MaxFaults
  BY <1>1, <1>3 DEF TypeOK
<1> QED
  BY <1>1, <1>2, <1>3, <1>4, <1>5, PlainAnswer

LEMMA LoginAnswered ==
    ASSUME WebAssumption, IInv, NEW s \in Place, handleLogin(s)
    PROVE  IInv'
<1>1. TypeOK /\ "login" \in Endpoint /\ "login" \notin Shown /\ CallMatches(s)
  BY Constants DEF IInv
<1>2. UNCHANGED <<version, lost, faults, stored, memory, page, shown>>
  BY DEF handleLogin, Answer
<1>3. version' \in 1 .. MaxVersion /\ version' \in Int /\ version <= version'
  BY <1>1, <1>2, Typed DEF TypeOK
<1>4. \A t \in Tab : memory'[t] \in {memory[t]}
  BY <1>2
<1>5. CASE Answer(s, "login", Rejected) /\ UNCHANGED <<token, call>>
  <2>1. req' = [req EXCEPT ![s]["login"] = Rejected]
    BY <1>5 DEF Answer
  <2>2. req[s]["login"].st # "none"
    BY DEF handleLogin
  <2>3. /\ memory' \in [Tab -> Token \cup {NoToken}]
        /\ lost' \in BOOLEAN /\ faults' \in 0 .. MaxFaults
    BY <1>1, <1>2 DEF TypeOK
  <2> QED
    BY <1>1, <1>2, <1>3, <1>4, <1>5, <2>1, <2>2, <2>3, PlainAnswer, Constants
<1>6. ASSUME NEW k \in Token, token[k] = "new", token' = [token EXCEPT ![k] = "live"],
             call' = [call EXCEPT ![s].token = k],
             Answer(s, "login", [NoRequest EXCEPT !.st = "ok"])
      PROVE  IInv'
  <2>1. PICK r \in Request : req' = [req EXCEPT ![s]["login"] = r] /\ r.st = "ok"
    <3>1. /\ [NoRequest EXCEPT !.st = "ok"] \in Request
          /\ [NoRequest EXCEPT !.st = "ok"].st = "ok"
      BY Constants DEF Request
    <3> QED
      BY <1>6, <3>1 DEF Answer
  <2>2. token' \in [Token -> {"new", "live", "dead"}] /\ token'[k] = "live"
    BY <1>1, <1>6 DEF TypeOK
  <2>3. TokensAge
    BY <1>1, <1>6 DEF TypeOK, TokensAge
  <2>4. call[s] \in Call /\ call \in [Place -> Call] /\ req[s]["login"].st = "sent"
    BY <1>1 DEF TypeOK, handleLogin
  <2>5. call[s].fn = "login"
    <3>1. "login" \in Asked(s)
      BY <1>1, <2>4 DEF Asked
    <3>2. call[s].fn # "none"
      BY <1>1, <2>4 DEF CallMatches, NoRequests, NoRequest
    <3>3. "login" \notin GitRequests /\ "login" \notin Shown
      BY Constants, Asking
    <3> QED
      BY <1>1, <2>4, <3>1, <3>2, <3>3 DEF CallMatches, Call
  <2>6. /\ call'[s].tab = call[s].tab /\ call'[s].fn = call[s].fn
        /\ call'[s].mounted = call[s].mounted /\ call'[s].overlaps = call[s].overlaps
        /\ call'[s].token = k
        /\ \A q \in Place : q # s => call'[q] = call[q]
    BY <1>6, <2>4 DEF Call
  <2>7. call' \in [Place -> Call]
    BY <1>6, <2>4 DEF Call
  <2>8. KeepsToken(s)
    BY <2>2, <2>5, <2>6 DEF KeepsToken, TokenIssued, IssuedNext
  <2>9. \A t \in Tab : MemoryIssued(t)
    BY <1>4, <2>3, MemoryKept
  <2>10. /\ req' \in [Place -> [Endpoint -> Request]]
         /\ \A q \in Place : CallMatches(q)'
         /\ \A t \in Tab : TabMatches(t)'
    BY <1>1, <1>2, <1>3, <2>1, <2>3, <2>4, <2>6, <2>8, <2>9, AnswerMatches
  <2>11. Issued(stored)'
    BY <1>2, <2>3, StoredKept
  <2>12. TypeOK'
    BY <1>1, <1>2, <2>2, <2>7, <2>10 DEF TypeOK
  <2> QED
    BY <2>10, <2>11, <2>12 DEF IInv
<1> QED
  BY <1>5, <1>6 DEF handleLogin

(* Steps of which no request takes notice.                                 *)
LEMMA ServerMatches ==
    ASSUME WebAssumption, IInv, TokensAge, UNCHANGED <<browser, req>>,
           token' \in [Token -> {"new", "live", "dead"}],
           version' \in 1 .. MaxVersion, version <= version',
           lost' \in BOOLEAN, faults' \in 0 .. MaxFaults
    PROVE  IInv'
<1>1. TypeOK
  BY DEF IInv
<1>2. UNCHANGED <<stored, memory, page, shown, call, req>>
  BY DEF browser
<1>3. version' \in Int
  OBVIOUS
<1>4. \A t \in Tab : MemoryIssued(t)
  BY <1>2, MemoryKept
<1>5. ASSUME NEW s \in Place PROVE CallStays(s) /\ \A e \in Endpoint : AnswerComes(s, e)
  BY <1>2, NoMove, NoAnswer
<1>6. AnswersOnly
  BY <1>2, <1>3, <1>4, <1>5 DEF AnswersOnly
<1>7. Issued(stored)'
  BY <1>2, StoredKept
<1>8. TypeOK'
  BY <1>1, <1>2 DEF TypeOK
<1> QED
  BY <1>6, <1>7, <1>8, AnswersMatch DEF IInv

LEMMA DataChange ==
    ASSUME WebAssumption, IInv, Change
    PROVE  IInv'
<1>1. version' \in 1 .. MaxVersion /\ version <= version' /\ TokensAge
  BY Versions, AgeSame DEF IInv, TypeOK, Change
<1> QED
  BY <1>1, ServerMatches DEF IInv, TypeOK, Change

LEMMA TokenExpires ==
    ASSUME WebAssumption, IInv, NEW k \in Token, Expire(k)
    PROVE  IInv'
<1>1. TypeOK
  BY DEF IInv
<1>2. token' \in [Token -> {"new", "live", "dead"}] /\ TokensAge
  BY <1>1 DEF TypeOK, Expire, TokensAge
<1>3. version' \in 1 .. MaxVersion /\ version <= version'
  BY <1>1, Typed DEF TypeOK, Expire
<1> QED
  BY <1>1, <1>2, <1>3, ServerMatches DEF TypeOK, Expire

LEMMA ServerRestarts ==
    ASSUME WebAssumption, IInv, Restart
    PROVE  IInv'
<1>1. TypeOK
  BY DEF IInv
<1>2. /\ UNCHANGED <<version, stored, memory, page, shown, call>>
      /\ version' \in 1 .. MaxVersion /\ version' \in Int /\ version <= version'
  BY <1>1, Typed DEF TypeOK, Restart, browser
<1>3. token' \in [Token -> {"new", "live", "dead"}] /\ TokensAge
  BY <1>1 DEF TypeOK, Restart, TokensAge
<1>4. faults' \in 0 .. MaxFaults /\ lost' \in BOOLEAN
  <2>1. /\ faults \in 0 .. MaxFaults /\ MaxFaults \in Nat /\ faults < MaxFaults
        /\ faults' = faults + 1
    BY <1>1 DEF TypeOK, Restart, WebAssumption
  <2>2. faults' \in 0 .. MaxFaults
    BY <2>1
  <2>3. lost' = FALSE
    BY DEF Restart
  <2> QED
    BY <2>2, <2>3
<1>5. req' = [s \in Place |-> [e \in Endpoint |->
                 IF req[s][e].st \in {"sent", "running"} THEN Failed ELSE req[s][e]]]
  BY DEF Restart
<1>6. ASSUME NEW s \in Place, NEW e \in Endpoint
      PROVE  /\ req[s][e] \in Request
             /\ req'[s][e] = IF req[s][e].st \in {"sent", "running"}
                             THEN Failed ELSE req[s][e]
  BY <1>1, <1>5, Typed
<1>7. req' \in [Place -> [Endpoint -> Request]]
  BY <1>5, <1>6, Constants
<1>8. ASSUME NEW s \in Place, NEW e \in Endpoint PROVE AnswerComes(s, e)
  BY <1>6, Constants DEF AnswerComes
<1>9. ASSUME NEW s \in Place PROVE CallStays(s)
  <2>1. CASE call[s].fn = "none"
    <3>1. req[s] = NoRequests
      BY <2>1 DEF IInv, CallMatches
    <3>2. ASSUME NEW e \in Endpoint PROVE req'[s][e] = NoRequests[e]
      <4>1. req[s][e] = NoRequests[e] /\ req[s][e].st = "none"
        BY <3>1 DEF NoRequests, NoRequest
      <4> QED
        BY <1>6, <4>1
    <3>3. req'[s] = NoRequests
      BY <1>7, <3>2 DEF NoRequests
    <3> QED
      BY <1>2, <3>1, <3>3, NoMove
  <2>2. CASE call[s].fn # "none"
    <3>1. req'[s]["login"].st = "ok" => req[s]["login"].st = "ok"
      BY <1>6, Constants
    <3> QED
      BY <1>2, <2>2, <3>1, NoMove
  <2> QED
    BY <2>1, <2>2
<1>10. \A t \in Tab : MemoryIssued(t)
  BY <1>2, <1>3, MemoryKept
<1>11. AnswersOnly
  BY <1>2, <1>8, <1>9, <1>10 DEF AnswersOnly
<1>12. Issued(stored)'
  BY <1>2, <1>3, StoredKept
<1>13. TypeOK'
  BY <1>1, <1>2, <1>3, <1>4, <1>7 DEF TypeOK
<1> QED
  BY <1>3, <1>11, <1>12, <1>13, AnswersMatch DEF IInv

-----------------------------------------------------------------------------
(***************************************************************************)
(* Pages come and go.                                                      *)
(***************************************************************************)
(* What becomes of a call when t's page changes to p: it is of another     *)
(* tab; it ends, or was none; it goes on without its page; it starts.      *)
Stays(r, t) == call[r].tab # t /\ call'[r] = call[r] /\ req'[r] = req[r]
Drops(r, t) == call[r].tab \in {t, NoTab} /\ call'[r] = NoCall /\ req'[r] = NoRequests
Leaves(r, t) == /\ call[r].tab = t /\ call[r].fn # "login"
                /\ call'[r] = Leave(r, t) /\ req'[r] = LeaveRequests(r, t)
Starts(r, t, p) == /\ call[r].tab \in {t, NoTab} /\ p \in DataPage
                   /\ call'[r] \in Call /\ call'[r].tab = t /\ call'[r].fn = "fetch"
                   /\ call'[r].mounted /\ TokenIssued(r)
                   /\ req'[r] = Requests(Asks(p))

LEMMA LeftTypes ==
    ASSUME WebAssumption, TypeOK, NEW r \in Place, NEW t \in Tab
    PROVE  Leave(r, t) \in Call /\ LeaveRequests(r, t) \in [Endpoint -> Request]
<1>1. call[r] \in Call /\ req[r] \in [Endpoint -> Request]
  BY Typed
<1>2. Leave(r, t) \in Call
  BY <1>1 DEF Leave, Call
<1>3. \A e \in Endpoint : Unread(e \notin Shown, req[r][e]) \in Request
  BY <1>1, Constants DEF Unread
<1> QED
  BY <1>1, <1>2, <1>3 DEF LeaveRequests

LEMMA PageChanges ==
    ASSUME WebAssumption, IInv, NEW t \in Tab, NEW s \in Place,
           NEW p \in Page \cup {"login", "blank"},
           UNCHANGED <<token, version, faults>>,
           page' = [page EXCEPT ![t] = Mounted(p, version)],
           shown' = [shown EXCEPT ![t] = NothingShown],
           memory' \in [Tab -> Token \cup {NoToken}],
           \A u \in Tab : MemoryIssued(u),
           stored' \in Token \cup {NoToken}, Issued(stored)', lost' \in BOOLEAN,
           call' = [r \in Place |-> call'[r]], req' = [r \in Place |-> req'[r]],
           p \in DataPage => Starts(s, t, p),
           \A r \in Place : \/ Stays(r, t) \/ Drops(r, t) \/ Leaves(r, t)
                            \/ r = s /\ Starts(s, t, p)
    PROVE  IInv'
<1>1. TypeOK /\ TokensAge /\ t # NoTab
  BY AgeSame DEF IInv, WebAssumption
<1>2. /\ page'[t] = Mounted(p, version) /\ shown'[t] = NothingShown
      /\ \A u \in Tab : u # t => page'[u] = page[u] /\ shown'[u] = shown[u]
  BY <1>1 DEF TypeOK
<1>3. page'[t].at = p
  BY <1>2, MountedFields
<1>4. \A r \in Place : call[r] \in Call /\ req[r] \in [Endpoint -> Request]
  BY <1>1, Typed
<1>5. ASSUME NEW r \in Place
      PROVE  /\ CallMatches(r)'
             /\ call'[r] \in Call /\ req'[r] \in [Endpoint -> Request]
             /\ call'[r].tab \in {call[r].tab, t, NoTab}
             /\ call'[r].tab = t /\ call'[r].mounted => r = s /\ Starts(s, t, p)
             /\ call'[r].tab = t => call'[r].fn # "login"
  <2>1. CallMatches(r)
    BY DEF IInv
  <2>2. CASE Stays(r, t)
    <3>1. call[r].tab \in Tab => SamePage(r)
      BY <1>2, <2>2 DEF Stays, SamePage
    <3>2. CallMatches(r)'
      BY <1>1, <2>1, <2>2, <3>1, CallSame DEF Stays
    <3> QED
      BY <1>4, <2>2, <3>2 DEF Stays
  <2>3. CASE Drops(r, t)
    BY <1>1, <2>3, CallEnded, Constants DEF Drops, NoCall
  <2>4. CASE Leaves(r, t)
    <3>1. CallMatches(r)' /\ ~call'[r].mounted
      BY <1>1, <2>1, <2>4, CallLeft DEF Leaves
    <3>2. call'[r] \in Call /\ req'[r] \in [Endpoint -> Request]
      BY <1>1, <2>4, LeftTypes DEF Leaves
    <3>3. call'[r].tab = t /\ call'[r].fn = call[r].fn
      BY <1>4, <2>4 DEF Leaves, Leave, Call
    <3> QED
      BY <2>4, <3>1, <3>2, <3>3 DEF Leaves
  <2>5. CASE r = s /\ Starts(s, t, p)
    <3>1. Asks(p) \in SUBSET Endpoint
      BY Asking, Constants
    <3>2. CallMatches(r)'
      BY <1>3, <2>5, <3>1, CallSent DEF Starts
    <3>3. req'[r] \in [Endpoint -> Request]
      BY <2>5, Constants DEF Starts
    <3> QED
      BY <2>5, <3>2, <3>3 DEF Starts
  <2> QED
    BY <2>2, <2>3, <2>4, <2>5
<1>6. TabMatches(t)'
  <2>1. p \in DataPage => Loads(s, t)'
    BY DEF Starts, Loads
  <2>2. \A r \in Place : ~LogsIn(r, t)' /\ ~Syncs(r, t)'
    BY <1>5 DEF LogsIn, Syncs, Starts
  <2>3. \A r \in Place : Loads(r, t)' => r = s
    BY <1>5 DEF Loads
  <2>4. p \in DataPage => \A e \in Endpoint : req'[s][e].st # "ok"
    <3>1. Asks(p) \subseteq Endpoint
      BY Asking, Constants
    <3> QED
      BY <3>1, RequestsSent DEF Starts
  <2>5. p \notin DataPage => \A r \in Place : ~Loads(r, t)'
    BY <1>5 DEF Loads, Starts
  <2> QED
    BY <1>1, <1>2, <2>1, <2>2, <2>3, <2>4, <2>5, TabEntered
<1>7. ASSUME NEW u \in Tab, u # t PROVE TabMatches(u)'
  <2>1. ASSUME NEW r \in Place, call[r].tab = u \/ call'[r].tab = u
        PROVE  call'[r] = call[r] /\ req'[r] = req[r]
    <3>1. u # NoTab
      BY DEF WebAssumption
    <3>2. CASE Stays(r, t)
      BY <3>2 DEF Stays
    <3>3. CASE Drops(r, t)
      BY <1>7, <2>1, <3>1, <3>3 DEF Drops, NoCall
    <3>4. CASE Leaves(r, t)
      <4>1. call'[r].tab = t
        BY <1>4, <3>4 DEF Leaves, Leave, Call
      <4> QED
        BY <1>7, <2>1, <3>4, <4>1 DEF Leaves
    <3>5. CASE r = s /\ Starts(s, t, p)
      BY <1>7, <2>1, <3>1, <3>5 DEF Starts
    <3> QED
      BY <3>2, <3>3, <3>4, <3>5
  <2>2. version' \in Int /\ version <= version' /\ TabMatches(u)
    BY <1>1, Typed DEF IInv
  <2> QED
    BY <1>1, <1>2, <1>7, <2>1, <2>2, TabSame
<1>8. TypeOK'
  <2>1. Mounted(p, version) \in PageState /\ NothingShown \in [Shown -> Datum]
    BY <1>1, Typed, MountedPage, Constants
  <2>2. page' \in [Tab -> PageState] /\ shown' \in [Tab -> [Shown -> Datum]]
    BY <1>1, <2>1 DEF TypeOK
  <2>3. call' \in [Place -> Call] /\ req' \in [Place -> [Endpoint -> Request]]
    BY <1>5
  <2> QED
    BY <1>1, <2>2, <2>3 DEF TypeOK
<1> QED
  BY <1>5, <1>6, <1>7, <1>8 DEF IInv

LEMMA Entered ==
    ASSUME WebAssumption, IInv, NEW t \in Tab, NEW s \in Place, NEW p \in Page,
           NEW k \in Token \cup {NoToken}, IssuedNext(k),
           UNCHANGED <<token, version, faults>>, lost' \in BOOLEAN,
           memory' \in [Tab -> Token \cup {NoToken}],
           \A u \in Tab : MemoryIssued(u),
           stored' \in Token \cup {NoToken}, Issued(stored)',
           Enter(s, t, p, k),
           call[s].tab \in {t, NoTab},
           \A r \in Place : r # s /\ call[r].tab = t => call[r].fn # "login"
    PROVE  IInv'
<1>1. TypeOK /\ t # NoTab
  BY DEF IInv, WebAssumption
<1>2. /\ page' = [page EXCEPT ![t] = Mounted(p, version)]
      /\ shown' = [shown EXCEPT ![t] = NothingShown]
      /\ call' = [r \in Place |->
           IF r = s /\ p \in DataPage
           THEN [tab |-> t, fn |-> "fetch", mounted |-> TRUE, overlaps |-> FALSE,
                 token |-> k]
           ELSE IF r = s THEN NoCall
           ELSE Leave(r, t)]
      /\ req' = [r \in Place |-> IF r = s THEN Requests(Asks(p)) ELSE LeaveRequests(r, t)]
  BY DEF Enter, SetPage
<1>3. call' = [r \in Place |-> call'[r]] /\ req' = [r \in Place |-> req'[r]]
  BY <1>2
<1>4. ASSUME p \in DataPage PROVE Starts(s, t, p)
  <2>1. call'[s] = [tab |-> t, fn |-> "fetch", mounted |-> TRUE, overlaps |-> FALSE,
                    token |-> k]
    BY <1>2, <1>4
  <2>2. call'[s] \in Call
    BY <2>1 DEF Call
  <2>3. TokenIssued(s)
    BY <2>1 DEF TokenIssued, IssuedNext
  <2> QED
    BY <1>2, <1>4, <2>1, <2>2, <2>3 DEF Starts
<1>5. ASSUME p \notin DataPage PROVE Drops(s, t)
  <2>1. Requests({}) = NoRequests
    BY DEF Requests, NoRequests
  <2> QED
    BY <1>2, <1>5, <2>1, Asking DEF Drops
<1>6. ASSUME NEW r \in Place, r # s PROVE Stays(r, t) \/ Leaves(r, t)
  BY <1>2, <1>6 DEF Stays, Leaves, Leave, LeaveRequests
<1>7. p \in Page \cup {"login", "blank"}
  OBVIOUS
<1>8. ASSUME NEW r \in Place
      PROVE  \/ Stays(r, t) \/ Drops(r, t) \/ Leaves(r, t)
             \/ r = s /\ Starts(s, t, p)
  <2>1. CASE r = s
    BY <2>1, <1>4, <1>5
  <2>2. CASE r # s
    BY <2>2, <1>6
  <2> QED
    BY <2>1, <2>2
<1> QED
  BY <1>2, <1>3, <1>4, <1>7, <1>8, PageChanges

LEMMA Idle ==
    ASSUME WebAssumption, IInv, NEW s \in Place, call[s].fn = "none"
    PROVE  call[s] = NoCall /\ call[s].tab = NoTab /\ req[s] = NoRequests
<1>1. call[s] = NoCall /\ req[s] = NoRequests
  BY DEF IInv, CallMatches
<1> QED
  BY <1>1 DEF NoCall

(* ReadToken.                                                              *)
LEMMA TokenRead ==
    ASSUME WebAssumption, IInv, UNCHANGED token, NEW t \in Tab, ReadToken(t)
    PROVE  /\ Held(t) \in Token \cup {NoToken} /\ IssuedNext(Held(t))
           /\ memory' \in [Tab -> Token \cup {NoToken}]
           /\ \A u \in Tab : MemoryIssued(u)
<1>1. TypeOK /\ TokensAge
  BY AgeSame DEF IInv
<1>2. Held(t) \in Token \cup {NoToken}
  BY <1>1 DEF TypeOK, Held
<1>3. /\ memory' \in [Tab -> Token \cup {NoToken}]
      /\ \A u \in Tab : memory'[u] \in {memory[u], Held(u)}
  BY <1>1, <1>2 DEF TypeOK, ReadToken
<1> QED
  BY <1>1, <1>2, <1>3, MemoryKept

(* Tokens that are stored or cleared.                                      *)
LEMMA TokenSet ==
    ASSUME WebAssumption, IInv, UNCHANGED token, NEW t \in Tab,
           NEW k \in Token \cup {NoToken}, IssuedNext(k),
           memory' = [memory EXCEPT ![t] = k]
    PROVE  /\ memory' \in [Tab -> Token \cup {NoToken}]
           /\ \A u \in Tab : MemoryIssued(u)
<1>1. TypeOK /\ TokensAge
  BY AgeSame DEF IInv
<1>2. /\ memory' \in [Tab -> Token \cup {NoToken}]
      /\ memory'[t] = k /\ \A u \in Tab : u # t => memory'[u] = memory[u]
  BY <1>1 DEF TypeOK
<1>3. ASSUME NEW u \in Tab PROVE MemoryIssued(u)
  <2>1. CASE u = t
    BY <1>2, <2>1 DEF MemoryIssued, IssuedNext
  <2>2. CASE u # t
    BY <1>1, <1>2, <2>2, MemoryKept
  <2> QED
    BY <2>1, <2>2
<1> QED
  BY <1>2, <1>3

LEMMA Navigated ==
    ASSUME WebAssumption, IInv, NEW t \in Tab, NEW p \in Page, Navigate(t, p)
    PROVE  IInv'
<1>1. TypeOK /\ TokensAge /\ UNCHANGED <<token, version, lost, faults, stored>>
  BY AgeSame DEF IInv, Navigate, server
<1>2. PICK s \in Place : Spare(s) /\ Enter(s, t, p, Held(t)) /\ ReadToken(t)
  BY DEF Navigate
<1>3. call[s].tab = NoTab
  BY <1>2, Idle DEF Spare
<1>4. \A r \in Place : call[r].tab = t => call[r].fn # "login"
  BY Asking DEF Navigate, IInv, CallMatches
<1>5. Issued(stored)' /\ stored' \in Token \cup {NoToken} /\ lost' \in BOOLEAN
  BY <1>1, StoredKept DEF TypeOK
<1> QED
  BY <1>1, <1>2, <1>3, <1>4, <1>5, TokenRead, Entered

LEMMA LogInGoesOn ==
    ASSUME WebAssumption, IInv, NEW s \in Place, LoggedIn(s)
    PROVE  IInv'
<1>1. TypeOK /\ TokensAge /\ UNCHANGED <<token, version, lost, faults>>
  BY AgeSame DEF IInv, LoggedIn, server
<1>2. PICK t \in Tab : t = call[s].tab
  BY DEF LoggedIn, IInv, CallMatches
<1>3. PICK k \in Token \cup {NoToken} : k = call[s].token
  BY <1>1, Typed DEF Call
<1>4. /\ memory' = [memory EXCEPT ![t] = k] /\ stored' = k
      /\ Enter(s, t, "dashboard", k) /\ call[s].fn = "login"
  BY <1>2, <1>3 DEF LoggedIn, setAuthToken
<1>5. IssuedNext(k)
  BY <1>1, <1>3, Age DEF IInv, CallMatches
<1>6. \A r \in Place : r # s /\ call[r].tab = t => call[r].fn # "login"
  BY <1>2, <1>4 DEF IInv, TabMatches, Backed, LogsIn
<1>7. Issued(stored)' /\ stored' \in Token \cup {NoToken} /\ lost' \in BOOLEAN
  BY <1>1, <1>4, <1>5 DEF TypeOK, Issued, IssuedNext
<1>8. /\ memory' \in [Tab -> Token \cup {NoToken}]
      /\ \A u \in Tab : MemoryIssued(u)
  BY <1>1, <1>4, <1>5, TokenSet
<1>9. "dashboard" \in Page
  BY Asking
<1> QED
  BY <1>1, <1>2, <1>4, <1>5, <1>6, <1>7, <1>8, <1>9, Entered

(* Without its calls.                                                      *)
LEMMA SentToLogin ==
    ASSUME WebAssumption, IInv, NEW t \in Tab, ToLogin(t),
           shown' = [shown EXCEPT ![t] = NothingShown],
           UNCHANGED <<token, version, faults>>, lost' \in BOOLEAN,
           memory' \in [Tab -> Token \cup {NoToken}],
           \A u \in Tab : MemoryIssued(u),
           stored' \in Token \cup {NoToken}, Issued(stored)'
    PROVE  IInv'
<1>1. /\ page' = [page EXCEPT ![t] = Mounted("login", version)]
      /\ call' = [r \in Place |-> IF call[r].tab = t THEN NoCall ELSE call[r]]
      /\ req' = [r \in Place |-> IF call[r].tab = t THEN NoRequests ELSE req[r]]
  BY DEF ToLogin, Aborted, SetPage
<1>2. call' = [r \in Place |-> call'[r]] /\ req' = [r \in Place |-> req'[r]]
  BY <1>1
<1>3. ASSUME NEW r \in Place PROVE Stays(r, t) \/ Drops(r, t)
  BY <1>1 DEF Stays, Drops
<1>4. 1 \in Place /\ "login" \in Page \cup {"login", "blank"} /\ "login" \notin DataPage
  BY Asking DEF Place, WebAssumption
<1> QED
  BY <1>1, <1>2, <1>3, <1>4, PageChanges

LEMMA Loaded ==
    ASSUME WebAssumption, IInv, NEW t \in Tab, NEW p \in Page, Load(t, p)
    PROVE  IInv'
<1>1. TypeOK /\ TokensAge /\ UNCHANGED <<token, version, faults, stored>> /\ t # NoTab
  BY AgeSame DEF IInv, Load, WebAssumption
<1>2. PICK k \in Token \cup {NoToken} : k = stored
  BY <1>1 DEF TypeOK
<1>3. IssuedNext(k) /\ memory' = [memory EXCEPT ![t] = k]
  BY <1>1, <1>2, MemoryKept DEF Load
<1>4. /\ memory' \in [Tab -> Token \cup {NoToken}]
      /\ \A u \in Tab : MemoryIssued(u)
  BY <1>1, <1>3, TokenSet
<1>5. Issued(stored)' /\ stored' \in Token \cup {NoToken}
  BY <1>1, StoredKept DEF TypeOK
<1>6. shown' = [shown EXCEPT ![t] = NothingShown] /\ lost' \in BOOLEAN
  BY <1>1 DEF TypeOK, Load, Reset
<1>7. CASE ToLogin(t)
  BY <1>1, <1>4, <1>5, <1>6, <1>7, SentToLogin
<1>8. ASSUME NEW s \in Place, Spare(s), SetPage(t, Mounted(p, version)),
             call' = [r \in Place |->
                     IF r = s /\ p \in DataPage
                     THEN [NoCall EXCEPT !.tab = t, !.fn = "fetch", !.mounted = TRUE,
                                         !.token = stored]
                     ELSE IF Aborted(r, t) THEN NoCall ELSE call[r]],
             req' = [r \in Place |->
                     IF r = s THEN Requests(Asks(p))
                     ELSE IF Aborted(r, t) THEN NoRequests ELSE req[r]]
      PROVE  IInv'
  <2>1. page' = [page EXCEPT ![t] = Mounted(p, version)]
    BY <1>8 DEF SetPage
  <2>2. call' = [r \in Place |-> call'[r]] /\ req' = [r \in Place |-> req'[r]]
    BY <1>8
  <2>3. call[s] = NoCall /\ call[s].tab = NoTab /\ req[s] = NoRequests
    BY <1>8, Idle DEF Spare
  <2>4. ASSUME p \in DataPage PROVE Starts(s, t, p)
    <3>1. PICK c \in Call : c = call'[s] /\ c.tab = t /\ c.fn = "fetch" /\ c.mounted
                            /\ c.token = k
      <4> DEFINE c == [NoCall EXCEPT !.tab = t, !.fn = "fetch", !.mounted = TRUE,
                                     !.token = stored]
      <4>1. call'[s] = c
        BY <1>8, <2>4
      <4>2. NoCall \in Call
        BY Constants
      <4>3. c \in Call /\ c.tab = t /\ c.fn = "fetch" /\ c.mounted /\ c.token = k
        BY <1>2, <4>2 DEF Call
      <4> QED
        BY <4>1, <4>3
    <3>2. TokenIssued(s)
      BY <1>3, <3>1 DEF TokenIssued, IssuedNext
    <3> QED
      BY <1>8, <2>3, <2>4, <3>1, <3>2 DEF Starts
  <2>5. ASSUME p \notin DataPage PROVE Drops(s, t)
    <3>1. Requests({}) = NoRequests
      BY DEF Requests, NoRequests
    <3> QED
      BY <1>1, <1>8, <2>3, <2>5, <3>1, Asking DEF Drops, Aborted
  <2>6. ASSUME NEW r \in Place, r # s PROVE Stays(r, t) \/ Drops(r, t)
    BY <1>8, <2>6 DEF Stays, Drops, Aborted
  <2>7. p \in Page \cup {"login", "blank"}
    OBVIOUS
  <2>8. ASSUME NEW r \in Place
        PROVE  \/ Stays(r, t) \/ Drops(r, t) \/ Leaves(r, t)
               \/ r = s /\ Starts(s, t, p)
    <3>1. CASE r = s
      BY <3>1, <2>4, <2>5
    <3>2. CASE r # s
      BY <3>2, <2>6
    <3> QED
      BY <3>1, <3>2
  <2> QED
    BY <1>1, <1>4, <1>5, <1>6, <2>1, <2>2, <2>4, <2>7, <2>8, PageChanges
<1> QED
  BY <1>7, <1>8 DEF Load

LEMMA LoggedOut ==
    ASSUME WebAssumption, IInv, NEW t \in Tab, Logout(t)
    PROVE  IInv'
<1>1. TypeOK /\ TokensAge /\ UNCHANGED <<token, version, faults>>
  BY AgeSame DEF IInv, Logout
<1>2. stored' = NoToken /\ memory' = [memory EXCEPT ![t] = NoToken]
  BY DEF Logout, clearAuthToken, setAuthToken
<1>3. /\ memory' \in [Tab -> Token \cup {NoToken}]
      /\ \A u \in Tab : MemoryIssued(u)
  BY <1>1, <1>2, TokenSet, MemoryKept
<1>4. Issued(stored)' /\ stored' \in Token \cup {NoToken}
  BY <1>1, <1>2, StoredKept
<1>5. shown' = [shown EXCEPT ![t] = NothingShown] /\ lost' \in BOOLEAN
  BY <1>1 DEF TypeOK, Logout, Reset
<1> QED
  BY <1>1, <1>3, <1>4, <1>5, SentToLogin DEF Logout

-----------------------------------------------------------------------------
(***************************************************************************)
(* Requests that pages send.                                               *)
(***************************************************************************)
(* Call s starts, or goes on with the requests E.                          *)
LEMMA Sending ==
    ASSUME WebAssumption, IInv, UNCHANGED token, NEW t \in Tab, NEW s \in Place,
           NEW fn \in {"fetch", "sync", "refresh", "login"},
           NEW on \in BOOLEAN, NEW E \in SUBSET Endpoint, Send(s, t, fn, on, E)
    PROVE  /\ call' \in [Place -> Call] /\ req' \in [Place -> [Endpoint -> Request]]
           /\ req'[s] = Requests(E) /\ \A q \in Place : q # s => req'[q] = req[q]
           /\ call'[s].tab = t /\ call'[s].fn = fn /\ call'[s].mounted = on
           /\ TokenIssued(s)
           /\ \A q \in Place : q # s =>
                /\ call'[q].tab = call[q].tab /\ call'[q].fn = call[q].fn
                /\ call'[q].mounted = call[q].mounted /\ call'[q].token = call[q].token
                /\ call'[q] = call[q] \/ (Loads(q, t) /\ on /\ fn \in {"fetch", "refresh"})
                /\ Loads(q, t) /\ on /\ fn \in {"fetch", "refresh"} =>
                     call'[q].overlaps /\ call'[s].overlaps
           /\ memory' \in [Tab -> Token \cup {NoToken}]
           /\ \A u \in Tab : MemoryIssued(u)
<1> DEFINE others == {r \in Place \ {s} : Loads(r, t)}
           loads == on /\ fn \in {"fetch", "refresh"}
           new == [tab |-> t, fn |-> fn, mounted |-> on, token |-> Held(t),
                   overlaps |-> loads /\ others # {}]
<1>1. TypeOK
  BY DEF IInv
<1>2. call' = [r \in Place |->
              IF r = s THEN new
              ELSE IF loads /\ r \in others THEN [call[r] EXCEPT !.overlaps = TRUE]
              ELSE call[r]]
  BY DEF Send
<1>3. req' = [req EXCEPT ![s] = Requests(E)] /\ ReadToken(t)
  BY DEF Send
<1>4. /\ Held(t) \in Token \cup {NoToken} /\ IssuedNext(Held(t))
      /\ memory' \in [Tab -> Token \cup {NoToken}]
      /\ \A u \in Tab : MemoryIssued(u)
  BY <1>3, TokenRead
<1>5. call'[s] = new /\ new \in Call
  BY <1>2, <1>4 DEF Call
<1>6. TokenIssued(s)
  BY <1>4, <1>5 DEF TokenIssued, IssuedNext
<1>7. req' \in [Place -> [Endpoint -> Request]] /\ req'[s] = Requests(E)
      /\ \A q \in Place : q # s => req'[q] = req[q]
  BY <1>1, <1>3, Constants DEF TypeOK
<1>8. ASSUME NEW q \in Place, q # s
      PROVE  /\ call'[q] \in Call
             /\ call'[q].tab = call[q].tab /\ call'[q].fn = call[q].fn
             /\ call'[q].mounted = call[q].mounted /\ call'[q].token = call[q].token
             /\ call'[q] = call[q] \/ (Loads(q, t) /\ loads)
             /\ Loads(q, t) /\ loads => call'[q].overlaps /\ call'[s].overlaps
  <2>1. call[q] \in Call
    BY <1>1, Typed
  <2>2. CASE loads /\ Loads(q, t)
    <3>1. q \in others
      BY <1>8, <2>2
    <3>2. call'[q] = [call[q] EXCEPT !.overlaps = TRUE]
      BY <1>2, <1>8, <2>2, <3>1
    <3>3. call'[s].overlaps
      <4>1. others # {}
        BY <3>1
      <4>2. call'[s].overlaps = (loads /\ others # {})
        BY <1>5
      <4> QED
        BY <2>2, <4>1, <4>2
    <3> QED
      BY <2>1, <2>2, <3>2, <3>3 DEF Call
  <2>3. CASE ~(loads /\ Loads(q, t))
    <3>1. call'[q] = call[q]
      BY <1>2, <1>8, <2>3
    <3>2. call'[q] \in Call
      BY <2>1, <3>1
    <3>3. /\ call'[q].tab = call[q].tab /\ call'[q].fn = call[q].fn
          /\ call'[q].mounted = call[q].mounted /\ call'[q].token = call[q].token
      BY <3>1
    <3>4. ~(Loads(q, t) /\ loads)
      BY <2>3
    <3> QED
      BY <3>1, <3>2, <3>3, <3>4
  <2> QED
    BY <2>2, <2>3
<1>9. call' \in [Place -> Call]
  BY <1>2, <1>5, <1>8
<1>10. call'[s].tab = t /\ call'[s].fn = fn /\ call'[s].mounted = on
  BY <1>5
<1> QED
  BY <1>4, <1>6, <1>7, <1>8, <1>9, <1>10

(* What it takes for the invariant.                                        *)
LEMMA Sends ==
    ASSUME WebAssumption, IInv, UNCHANGED <<server, stored, shown>>,
           NEW t \in Tab, NEW s \in Place,
           NEW fn \in {"fetch", "sync", "refresh", "login"},
           NEW on \in BOOLEAN, NEW E \in SUBSET Endpoint, Send(s, t, fn, on, E),
           call[s].tab \in {t, NoTab}, ~Loads(s, t), ~LogsIn(s, t),
           page' \in [Tab -> PageState], \A u \in Tab : u # t => page'[u] = page[u],
           page'[t].at = page[t].at, page'[t].choice = page[t].choice,
           page'[t].rows = page[t].rows, page'[t].stale = page[t].stale,
           page'[t].entered = page[t].entered,
           page[t].loading => page'[t].loading, page[t].syncing => page'[t].syncing,
           page'[t].loading => page[t].loading \/ (page[t].at = "login" /\ fn = "login" /\ on),
           page'[t].syncing /\ page[t].at = "git" =>
             \/ on /\ fn \in {"sync", "refresh"}
             \/ page[t].syncing /\ ~Syncs(s, t),
           on /\ fn \in {"sync", "refresh"} =>
             \A q \in Place : q # s => ~Syncs(q, t),
           fn = "login" => \A q \in Place : ~LogsIn(q, t),
           \/ fn = "login" /\ on /\ E = {"login"} /\ page'[t].at = "login" /\ page'[t].loading
           \/ fn = "sync" /\ on /\ E = {"sync"} /\ page'[t].at = "git" /\ page'[t].syncing
           \/ /\ fn = "refresh" /\ E = GitRequests
              /\ on => page'[t].at = "git" /\ page'[t].syncing
           \/ fn = "fetch" /\ E = Asks(page'[t].at) /\ page'[t].at \in DataPage
    PROVE  IInv'
<1>1. TypeOK /\ TokensAge /\ t # NoTab /\ UNCHANGED <<token, version, lost, faults>>
  BY AgeSame DEF IInv, WebAssumption, server
<1>2. /\ call' \in [Place -> Call] /\ req' \in [Place -> [Endpoint -> Request]]
      /\ req'[s] = Requests(E) /\ \A q \in Place : q # s => req'[q] = req[q]
      /\ call'[s].tab = t /\ call'[s].fn = fn /\ call'[s].mounted = on
      /\ TokenIssued(s)
      /\ memory' \in [Tab -> Token \cup {NoToken}]
      /\ \A u \in Tab : MemoryIssued(u)
  BY <1>1, Sending
<1>3. ASSUME NEW q \in Place, q # s
      PROVE  /\ call'[q].tab = call[q].tab /\ call'[q].fn = call[q].fn
             /\ call'[q].mounted = call[q].mounted /\ call'[q].token = call[q].token
             /\ call'[q] = call[q] \/ (Loads(q, t) /\ on /\ fn \in {"fetch", "refresh"})
             /\ Loads(q, t) /\ on /\ fn \in {"fetch", "refresh"} =>
                  call'[q].overlaps /\ call'[s].overlaps
  BY <1>1, <1>3, Sending
<1>4. ASSUME NEW q \in Place PROVE CallMatches(q)'
  <2>1. CASE q = s
    BY <1>2, <2>1, CallSent
  <2>2. CASE q # s
    <3>1. CallMatches(q) /\ KeepsToken(q)
      BY <1>2, <1>3, <2>2 DEF IInv, KeepsToken
    <3>2. call[q].tab \in Tab => SamePage(q)
      BY DEF SamePage
    <3>3. call[q].fn = "none" => call'[q] = call[q] /\ req'[q] = req[q]
      BY <1>2, <1>3, <2>2 DEF Loads
    <3>4. \A e : req'[q][e] = req[q][e]
      BY <1>2, <2>2
    <3> QED
      BY <1>1, <1>3, <2>2, <3>1, <3>2, <3>3, <3>4, CallKept
  <2> QED
    BY <2>1, <2>2
<1>5. ASSUME NEW q \in Place, q # s
      PROVE  /\ Loads(q, t)' <=> Loads(q, t)
             /\ Syncs(q, t)' <=> Syncs(q, t)
             /\ LogsIn(q, t)' <=> LogsIn(q, t)
  BY <1>3, <1>5 DEF Loads, Syncs, LogsIn
<1>6. /\ Loads(s, t)' <=> on /\ fn \in {"fetch", "refresh"}
      /\ Syncs(s, t)' <=> on /\ fn \in {"sync", "refresh"}
      /\ LogsIn(s, t)' <=> fn = "login"
  BY <1>2 DEF Loads, Syncs, LogsIn
<1>7. TabMatches(t)
  BY DEF IInv
<1>8. Backed(t)'
  <2>1. ASSUME page'[t].loading
        PROVE  \E q \in Place : IF page'[t].at = "login" THEN LogsIn(q, t)' ELSE Loads(q, t)'
    BY <1>5, <1>6, <1>7, <2>1 DEF TabMatches, Backed
  <2>2. ASSUME page'[t].syncing, page'[t].at = "git"
        PROVE  \E q \in Place : Syncs(q, t)'
    BY <1>5, <1>6, <1>7, <2>2 DEF TabMatches, Backed
  <2>3. ASSUME NEW q \in Place, NEW r \in Place, Syncs(q, t)', Syncs(r, t)' PROVE q = r
    BY <1>5, <1>6, <1>7, <2>3 DEF TabMatches, Backed
  <2>4. ASSUME NEW q \in Place, NEW r \in Place, LogsIn(q, t)', LogsIn(r, t)' PROVE q = r
    BY <1>5, <1>6, <1>7, <2>4 DEF TabMatches, Backed
  <2> QED
    BY <2>1, <2>2, <2>3, <2>4 DEF Backed
<1>9. Filtered(t)' /\ DataInOrder(t)'
  BY <1>1, <1>7 DEF TabMatches, Filtered, DataInOrder, SinceMount
<1>10. ASSUME NEW q \in Place, Loads(q, t)' PROVE LoadInOrder(q, t)'
  <2>1. CASE q = s
    <3>1. \A e \in Endpoint : req'[s][e].st # "ok"
      BY <1>2, RequestsSent
    <3>2. call'[s].overlaps \/ \A r \in Place : Loads(r, t)' => r = s
      BY <1>3, <1>5, <1>6, <1>10, <2>1
    <3> QED
      BY <2>1, <3>1, <3>2, Constants DEF LoadInOrder
  <2>2. CASE q # s
    <3>1. Loads(q, t) /\ LoadInOrder(q, t) /\ req'[q] = req[q]
      BY <1>2, <1>5, <1>7, <1>10, <2>2 DEF TabMatches
    <3>2. CASE on /\ fn \in {"fetch", "refresh"}
      <4>1. call'[q].overlaps
        BY <1>3, <2>2, <3>1, <3>2
      <4> QED
        BY <1>1, <3>1, <4>1 DEF LoadInOrder
    <3>3. CASE ~(on /\ fn \in {"fetch", "refresh"})
      <4>1. call'[q] = call[q]
        BY <1>3, <2>2, <3>3
      <4>2. \A r \in Place : Loads(r, t)' => Loads(r, t)
        BY <1>5, <1>6, <3>3
      <4> QED
        BY <1>1, <3>1, <4>1, <4>2 DEF LoadInOrder
    <3> QED
      BY <3>2, <3>3
  <2> QED
    BY <2>1, <2>2
<1>11. TabMatches(t)'
  <2>1. Issued(memory[t])'
    BY <1>2 DEF MemoryIssued, IssuedNext, Issued
  <2> QED
    BY <1>8, <1>9, <1>10, <2>1 DEF TabMatches
<1>12. ASSUME NEW u \in Tab, u # t PROVE TabMatches(u)'
  <2>1. ASSUME NEW r \in Place, call[r].tab = u \/ call'[r].tab = u
        PROVE  call'[r] = call[r] /\ req'[r] = req[r]
    <3>1. r # s /\ call[r].tab # t
      BY <1>2, <1>3, <1>12, <2>1 DEF WebAssumption
    <3> QED
      BY <1>2, <1>3, <3>1 DEF Loads
  <2>2. version' \in Int /\ version <= version' /\ TabMatches(u)
    BY <1>1, Typed DEF IInv
  <2> QED
    BY <1>1, <1>2, <1>12, <2>1, <2>2, TabSame
<1>13. TypeOK'
  BY <1>1, <1>2 DEF TypeOK
<1>14. Issued(stored)'
  BY <1>1, StoredKept
<1> QED
  BY <1>4, <1>11, <1>12, <1>13, <1>14 DEF IInv

LEMMA IdleCall ==
    ASSUME WebAssumption, IInv, NEW s \in Place, call[s].fn = "none", NEW t \in Tab
    PROVE  call[s].tab = NoTab /\ ~Loads(s, t) /\ ~LogsIn(s, t) /\ ~Syncs(s, t)
BY Idle DEF Loads, LogsIn, Syncs, WebAssumption

LEMMA Submitted ==
    ASSUME WebAssumption, IInv, NEW t \in Tab, Submit(t)
    PROVE  IInv'
<1>1. TypeOK /\ UNCHANGED <<server, stored, shown>>
  BY DEF IInv, Submit
<1>2. PICK s \in Place : Spare(s) /\ Send(s, t, "login", TRUE, {"login"})
  BY DEF Submit
<1>3. /\ page[t].at = "login" /\ ~page[t].loading
      /\ page' = [page EXCEPT ![t] = [page[t] EXCEPT !.loading = TRUE]]
  BY DEF Submit, SetPage
<1>4. page[t] \in PageState /\ page \in [Tab -> PageState]
  BY <1>1 DEF TypeOK
<1>5. /\ page' \in [Tab -> PageState] /\ \A u \in Tab : u # t => page'[u] = page[u]
      /\ page'[t] = [page[t] EXCEPT !.loading = TRUE]
  BY <1>3, <1>4 DEF PageState
<1>6. /\ page'[t].at = page[t].at /\ page'[t].choice = page[t].choice
      /\ page'[t].rows = page[t].rows /\ page'[t].stale = page[t].stale
      /\ page'[t].entered = page[t].entered
      /\ page'[t].loading /\ page'[t].syncing = page[t].syncing
  BY <1>4, <1>5 DEF PageState
<1>7. call[s].tab = NoTab /\ ~Loads(s, t) /\ ~LogsIn(s, t)
  BY <1>2, IdleCall DEF Spare
<1>8. \A q \in Place : ~LogsIn(q, t)
  BY <1>3 DEF IInv, CallMatches, LogsIn
<1>9. {"login"} \in SUBSET Endpoint
  BY Constants
<1> QED
  BY <1>1, <1>2, <1>3, <1>5, <1>6, <1>7, <1>8, <1>9, Sends

LEMMA Ticked ==
    ASSUME WebAssumption, IInv, NEW t \in Tab, Tick(t)
    PROVE  IInv'
<1>1. TypeOK /\ UNCHANGED <<server, stored, shown, page>>
  BY DEF IInv, Tick
<1>2. PICK s \in Place : Spare(s) /\ Send(s, t, "fetch", TRUE, Asks(page[t].at))
  BY DEF Tick
<1>3. PICK E \in SUBSET Endpoint : E = Asks(page[t].at)
  BY Asking, Constants
<1>4. Send(s, t, "fetch", TRUE, E)
  BY <1>2, <1>3
<1>5. page[t].at \in DataPage
  BY DEF Tick, Polls
<1>6. page[t].at # "login"
  BY <1>5, Asking
<1>7. call[s].tab = NoTab /\ ~Loads(s, t) /\ ~LogsIn(s, t) /\ ~Syncs(s, t)
  BY <1>2, IdleCall DEF Spare
<1>8. page' \in [Tab -> PageState]
  BY <1>1 DEF TypeOK
<1> QED
  BY <1>1, <1>3, <1>4, <1>5, <1>6, <1>7, <1>8, Sends

LEMMA SyncStarts ==
    ASSUME WebAssumption, IInv, NEW t \in Tab, ManualSync(t)
    PROVE  IInv'
<1>1. TypeOK /\ UNCHANGED <<server, stored, shown>>
  BY DEF IInv, ManualSync
<1>2. PICK s \in Place : Spare(s) /\ Send(s, t, "sync", TRUE, {"sync"})
  BY DEF ManualSync
<1>3. /\ page[t].at = "git" /\ ~page[t].syncing
      /\ page' = [page EXCEPT ![t] = [page[t] EXCEPT !.syncing = TRUE]]
  BY DEF ManualSync, SetPage
<1>4. page[t] \in PageState /\ page \in [Tab -> PageState]
  BY <1>1 DEF TypeOK
<1>5. /\ page' \in [Tab -> PageState] /\ \A u \in Tab : u # t => page'[u] = page[u]
      /\ page'[t] = [page[t] EXCEPT !.syncing = TRUE]
  BY <1>3, <1>4 DEF PageState
<1>6. /\ page'[t].at = page[t].at /\ page'[t].choice = page[t].choice
      /\ page'[t].rows = page[t].rows /\ page'[t].stale = page[t].stale
      /\ page'[t].entered = page[t].entered
      /\ page'[t].syncing /\ page'[t].loading = page[t].loading
  BY <1>4, <1>5 DEF PageState
<1>7. call[s].tab = NoTab /\ ~Loads(s, t) /\ ~LogsIn(s, t)
  BY <1>2, IdleCall DEF Spare
<1>8. \A q \in Place : ~Syncs(q, t)
  BY <1>3 DEF IInv, CallMatches, Syncs
<1>9. {"sync"} \in SUBSET Endpoint
  BY Constants
<1> QED
  BY <1>1, <1>2, <1>3, <1>5, <1>6, <1>7, <1>8, <1>9, Sends

LEMMA SyncGoesOn ==
    ASSUME WebAssumption, IInv, NEW s \in Place, SyncAnswered(s)
    PROVE  IInv'
<1>1. TypeOK /\ UNCHANGED <<server, stored, shown, page>> /\ CallMatches(s)
  BY DEF IInv, SyncAnswered
<1>2. PICK t \in Tab : t = call[s].tab
  BY <1>1 DEF SyncAnswered, CallMatches
<1>3. PICK on \in BOOLEAN : on = call[s].mounted
  BY <1>1, Typed DEF Call
<1>4. call[s].fn = "sync" /\ Send(s, t, "refresh", on, GitRequests)
  BY <1>2, <1>3 DEF SyncAnswered
<1>5. GitRequests \in SUBSET Endpoint
  BY Asking, Constants
<1>6. /\ ~Loads(s, t) /\ ~LogsIn(s, t) /\ (on => Syncs(s, t))
      /\ page[t].syncing /\ Syncs(s, t) => on
      /\ on => page[t].at = "git" /\ page[t].syncing
  BY <1>1, <1>2, <1>3, <1>4 DEF Loads, LogsIn, Syncs, CallMatches
<1>7. on => \A q \in Place : q # s => ~Syncs(q, t)
  BY <1>6 DEF IInv, TabMatches, Backed
<1>8. page' \in [Tab -> PageState]
  BY <1>1 DEF TypeOK
<1> QED
  BY <1>1, <1>2, <1>4, <1>5, <1>6, <1>7, <1>8, Sends

-----------------------------------------------------------------------------
(***************************************************************************)
(* Steps of a page by itself, and ends of calls.                           *)
(***************************************************************************)
(* The filter, and the effect.                                             *)
LEMMA RowsChange ==
    ASSUME WebAssumption, IInv, UNCHANGED <<server, stored, memory, shown, call, req>>,
           NEW t \in Tab, NEW q \in PageState, page' = [page EXCEPT ![t] = q],
           q.at = page[t].at, q.loading = page[t].loading, q.syncing = page[t].syncing,
           q.entered = page[t].entered, q.rows.of \in {page[t].rows.of, shown[t]["leases"].v},
           q.at = "leases" /\ ~q.stale =>
             q.rows = [of |-> shown[t]["leases"].v, by |-> q.choice]
    PROVE  IInv'
<1>1. /\ TypeOK /\ TokensAge /\ UNCHANGED <<token, version, lost, faults>>
      /\ version' \in Int /\ version <= version'
  BY AgeSame, Typed DEF IInv, server
<1>2. page'[t] = q /\ (\A u \in Tab : u # t => page'[u] = page[u])
      /\ page' \in [Tab -> PageState]
  BY <1>1 DEF TypeOK
<1>3. ASSUME NEW s \in Place PROVE CallMatches(s)'
  <2>1. call[s].tab \in Tab => SamePage(s)
    BY <1>2 DEF SamePage
  <2> QED
    BY <1>1, <2>1, CallSame DEF IInv
<1>4. \A u \in Tab : MemoryIssued(u)
  BY <1>1, MemoryKept
<1>5. ASSUME NEW u \in Tab, u # t PROVE TabMatches(u)'
  BY <1>1, <1>2, <1>4, <1>5, TabSame DEF IInv
<1>6. TabMatches(t)'
  <2>1. TabMatches(t) /\ "leases" \in Shown
    BY DEF IInv, Shown
  <2>2. Issued(memory[t])'
    BY <1>4 DEF MemoryIssued, IssuedNext, Issued
  <2>3. Backed(t)'
    BY <1>2, <2>1 DEF TabMatches, Backed, Loads, LogsIn, Syncs
  <2>4. Filtered(t)'
    BY <1>2 DEF Filtered
  <2>5. DataInOrder(t)'
    BY <1>1, <1>2, <2>1 DEF TabMatches, DataInOrder, SinceMount
  <2>6. \A s \in Place : Loads(s, t)' => LoadInOrder(s, t)'
    BY <1>1, <1>2, <2>1 DEF TabMatches, LoadInOrder, Loads
  <2> QED
    BY <2>2, <2>3, <2>4, <2>5, <2>6 DEF TabMatches
<1>7. TypeOK' /\ Issued(stored)'
  BY <1>1, <1>2, StoredKept DEF TypeOK
<1> QED
  BY <1>3, <1>5, <1>6, <1>7 DEF IInv

LEMMA FilterChosen ==
    ASSUME WebAssumption, IInv, NEW t \in Tab, NEW f \in {"all", "active"}, Choose(t, f)
    PROVE  IInv'
<1>1. PICK q \in PageState :
        /\ q = [page[t] EXCEPT !.choice = f, !.stale = TRUE]
        /\ q.at = page[t].at /\ q.loading = page[t].loading /\ q.syncing = page[t].syncing
        /\ q.entered = page[t].entered /\ q.rows = page[t].rows /\ q.stale
  <2> DEFINE r == [page[t] EXCEPT !.choice = f, !.stale = TRUE]
  <2>1. page[t] \in PageState
    BY Typed DEF IInv
  <2>2. r \in PageState
    BY <2>1 DEF PageState
  <2>3. /\ r.at = page[t].at /\ r.loading = page[t].loading /\ r.syncing = page[t].syncing
        /\ r.entered = page[t].entered /\ r.rows = page[t].rows /\ r.stale
    BY <2>1 DEF PageState
  <2> QED
    BY <2>2, <2>3
<1>2. page' = [page EXCEPT ![t] = q] /\ UNCHANGED <<server, stored, memory, shown, call, req>>
  BY <1>1 DEF Choose, SetPage
<1> QED
  BY <1>1, <1>2, RowsChange

LEMMA Refiltered ==
    ASSUME WebAssumption, IInv, NEW t \in Tab, Refilter(t)
    PROVE  IInv'
<1>1. PICK of \in Version : of = shown[t]["leases"].v
  <2>1. TypeOK /\ "leases" \in Shown
    BY DEF IInv, Shown
  <2> QED
    BY <2>1 DEF TypeOK, Datum
<1>2. PICK q \in PageState :
        /\ q = [page[t] EXCEPT !.stale = FALSE,
                   !.rows = [of |-> shown[t]["leases"].v, by |-> page[t].choice]]
        /\ q.at = page[t].at /\ q.loading = page[t].loading /\ q.syncing = page[t].syncing
        /\ q.entered = page[t].entered /\ q.choice = page[t].choice
        /\ q.rows = [of |-> of, by |-> page[t].choice]
  <2> DEFINE r == [page[t] EXCEPT !.stale = FALSE,
                     !.rows = [of |-> shown[t]["leases"].v, by |-> page[t].choice]]
  <2>1. page[t] \in PageState
    BY Typed DEF IInv
  <2>2. r \in PageState
    BY <1>1, <2>1 DEF PageState
  <2>3. /\ r.at = page[t].at /\ r.loading = page[t].loading /\ r.syncing = page[t].syncing
        /\ r.entered = page[t].entered /\ r.choice = page[t].choice
        /\ r.rows = [of |-> of, by |-> page[t].choice]
    BY <1>1, <2>1 DEF PageState
  <2> QED
    BY <2>2, <2>3
<1>3. page' = [page EXCEPT ![t] = q] /\ UNCHANGED <<server, stored, memory, shown, call, req>>
  BY <1>2 DEF Refilter, SetPage
<1>4. /\ q.rows = [of |-> shown[t]["leases"].v, by |-> q.choice]
      /\ q.rows.of = shown[t]["leases"].v
  BY <1>1, <1>2
<1> QED
  BY <1>2, <1>3, <1>4, RowsChange

(* Call s ends, and its page may be told.                                  *)
LEMMA Ends ==
    ASSUME WebAssumption, IInv, UNCHANGED <<server, stored, memory, shown>>,
           NEW t \in Tab, NEW s \in Place, call[s].tab = t, ~Loads(s, t), End(s),
           page' \in [Tab -> PageState], \A u \in Tab : u # t => page'[u] = page[u],
           page'[t].at = page[t].at, page'[t].choice = page[t].choice,
           page'[t].rows = page[t].rows, page'[t].stale = page[t].stale,
           page'[t].entered = page[t].entered,
           page'[t].loading => page[t].loading /\ ~LogsIn(s, t),
           page[t].loading => page'[t].loading \/ LogsIn(s, t),
           page'[t].syncing /\ page[t].at = "git" => page[t].syncing /\ ~Syncs(s, t),
           page[t].syncing => page'[t].syncing \/ Syncs(s, t)
    PROVE  IInv'
<1>1. /\ TypeOK /\ TokensAge /\ UNCHANGED <<token, version, lost, faults>>
      /\ version' \in Int /\ version <= version' /\ t # NoTab
  BY AgeSame, Typed DEF IInv, server, WebAssumption
<1>2. /\ call'[s] = NoCall /\ req'[s] = NoRequests
      /\ \A q \in Place : q # s => call'[q] = call[q] /\ req'[q] = req[q]
      /\ call' \in [Place -> Call] /\ req' \in [Place -> [Endpoint -> Request]]
  BY <1>1, Constants DEF TypeOK, End
<1>3. TabMatches(t)
  BY DEF IInv
<1>4. ASSUME NEW q \in Place PROVE CallMatches(q)'
  <2>1. CASE q = s
    BY <1>2, <2>1, CallEnded
  <2>2. CASE q # s
    <3>1. call[q].tab \in Tab => SamePage(q)
      BY <1>3, <2>2 DEF SamePage, TabMatches, Backed, LogsIn, Syncs
    <3> QED
      BY <1>1, <1>2, <2>2, <3>1, CallSame DEF IInv
  <2> QED
    BY <2>1, <2>2
<1>5. \A u \in Tab : MemoryIssued(u)
  BY <1>1, MemoryKept
<1>6. ASSUME NEW q \in Place
      PROVE  /\ Loads(q, t)' <=> Loads(q, t) /\ q # s
             /\ Syncs(q, t)' <=> Syncs(q, t) /\ q # s
             /\ LogsIn(q, t)' <=> LogsIn(q, t) /\ q # s
  BY <1>1, <1>2 DEF Loads, Syncs, LogsIn, NoCall
<1>7. TabMatches(t)'
  <2>1. Issued(memory[t])'
    BY <1>5 DEF MemoryIssued, IssuedNext, Issued
  <2>2. Backed(t)'
    BY <1>3, <1>6 DEF TabMatches, Backed
  <2>3. Filtered(t)' /\ DataInOrder(t)'
    BY <1>1, <1>3 DEF TabMatches, Filtered, DataInOrder, SinceMount
  <2>4. \A q \in Place : Loads(q, t)' => LoadInOrder(q, t)'
    BY <1>1, <1>2, <1>3, <1>6 DEF TabMatches, LoadInOrder
  <2> QED
    BY <2>1, <2>2, <2>3, <2>4 DEF TabMatches
<1>8. ASSUME NEW u \in Tab, u # t PROVE TabMatches(u)'
  <2>1. ASSUME NEW q \in Place, call[q].tab = u \/ call'[q].tab = u
        PROVE  call'[q] = call[q] /\ req'[q] = req[q]
    <3>1. call'[s].tab # u
      BY <1>2 DEF NoCall, WebAssumption
    <3> QED
      BY <1>2, <1>8, <2>1, <3>1
  <2> QED
    BY <1>1, <1>5, <1>8, <2>1, TabSame DEF IInv
<1>9. TypeOK' /\ Issued(stored)'
  BY <1>1, <1>2, StoredKept DEF TypeOK
<1> QED
  BY <1>4, <1>7, <1>8, <1>9 DEF IInv

LEMMA LoginRefused ==
    ASSUME WebAssumption, IInv, NEW s \in Place, LoginFails(s)
    PROVE  IInv'
<1>1. TypeOK /\ CallMatches(s) /\ call[s].fn = "login"
  BY DEF IInv, LoginFails
<1>2. PICK t \in Tab : t = call[s].tab
  BY <1>1 DEF CallMatches
<1>3. /\ UNCHANGED <<server, stored, memory, shown>> /\ End(s)
      /\ page' = [page EXCEPT ![t] = [page[t] EXCEPT !.loading = FALSE]]
  BY <1>2 DEF LoginFails, SetPage
<1>4. page[t] \in PageState /\ page \in [Tab -> PageState]
  BY <1>1 DEF TypeOK
<1>5. /\ page' \in [Tab -> PageState] /\ \A u \in Tab : u # t => page'[u] = page[u]
      /\ page'[t] = [page[t] EXCEPT !.loading = FALSE]
  BY <1>3, <1>4 DEF PageState
<1>6. /\ page'[t].at = page[t].at /\ page'[t].choice = page[t].choice
      /\ page'[t].rows = page[t].rows /\ page'[t].stale = page[t].stale
      /\ page'[t].entered = page[t].entered
      /\ ~page'[t].loading /\ page'[t].syncing = page[t].syncing
  BY <1>4, <1>5 DEF PageState
<1>7. LogsIn(s, t) /\ ~Loads(s, t) /\ ~Syncs(s, t)
  BY <1>1, <1>2 DEF LogsIn, Loads, Syncs
<1> QED
  BY <1>2, <1>3, <1>5, <1>6, <1>7, Ends

LEMMA SyncRefused ==
    ASSUME WebAssumption, IInv, NEW s \in Place, SyncFails(s)
    PROVE  IInv'
<1>1. TypeOK /\ CallMatches(s) /\ call[s].fn = "sync"
  BY DEF IInv, SyncFails
<1>2. PICK t \in Tab : t = call[s].tab
  BY <1>1 DEF CallMatches
<1>3. UNCHANGED <<server, stored, memory, shown>> /\ End(s)
  BY DEF SyncFails
<1>4. page[t] \in PageState /\ page \in [Tab -> PageState]
  BY <1>1 DEF TypeOK
<1>5. LogsIn(s, t) <=> FALSE
  BY <1>1 DEF LogsIn
<1>6. ~Loads(s, t) /\ (Syncs(s, t) <=> call[s].mounted)
  BY <1>1, <1>2 DEF Loads, Syncs
<1>7. CASE call[s].mounted
  <2>1. page' = [page EXCEPT ![t] = [page[t] EXCEPT !.syncing = FALSE]]
    BY <1>2, <1>7 DEF SyncFails, SetPage
  <2>2. /\ page' \in [Tab -> PageState] /\ \A u \in Tab : u # t => page'[u] = page[u]
        /\ page'[t] = [page[t] EXCEPT !.syncing = FALSE]
    BY <1>4, <2>1 DEF PageState
  <2>3. /\ page'[t].at = page[t].at /\ page'[t].choice = page[t].choice
        /\ page'[t].rows = page[t].rows /\ page'[t].stale = page[t].stale
        /\ page'[t].entered = page[t].entered
        /\ ~page'[t].syncing /\ page'[t].loading = page[t].loading
    BY <1>4, <2>2 DEF PageState
  <2> QED
    BY <1>2, <1>3, <1>5, <1>6, <1>7, <2>2, <2>3, Ends
<1>8. CASE ~call[s].mounted
  <2>1. page' = page
    BY <1>8 DEF SyncFails
  <2> QED
    BY <1>2, <1>3, <1>4, <1>5, <1>6, <1>8, <2>1, Ends
<1> QED
  BY <1>7, <1>8

LEMMA Discarded ==
    ASSUME WebAssumption, IInv, NEW s \in Place, Discard(s)
    PROVE  IInv'
<1>1. TypeOK /\ CallMatches(s) /\ call[s].fn \in {"fetch", "refresh"} /\ ~call[s].mounted
  BY DEF IInv, Discard
<1>2. PICK t \in Tab : t = call[s].tab
  BY <1>1 DEF CallMatches
<1>3. UNCHANGED <<server, stored, memory, page, shown>> /\ End(s)
  BY DEF Discard
<1>4. ~LogsIn(s, t) /\ ~Loads(s, t) /\ ~Syncs(s, t)
  BY <1>1 DEF LogsIn, Loads, Syncs
<1>5. page' \in [Tab -> PageState]
  BY <1>1, <1>3 DEF TypeOK
<1> QED
  BY <1>2, <1>3, <1>4, <1>5, Ends

-----------------------------------------------------------------------------
(***************************************************************************)
(* A page gets its data.                                                   *)
(***************************************************************************)
LEMMA LoaderPage ==
    ASSUME WebAssumption, IInv, NEW t \in Tab, NEW s \in Place, Loads(s, t)
    PROVE  /\ page[t].at \in DataPage /\ page[t].at # "login"
           /\ page[t].at # "git" => Asked(s) = Asks(page[t].at)
           /\ \A r \in Place : call[r].tab = t => call[r].fn # "login"
<1>1. \A r \in Place : CallMatches(r)
  BY DEF IInv
<1>2. CallMatches(s) /\ call[s].tab = t /\ call[s].mounted /\ call[s].fn \in {"fetch", "refresh"}
  BY <1>1 DEF Loads
<1>3. page[t].at \in DataPage
  BY <1>2, Asking DEF CallMatches
<1>4. page[t].at # "git" => Asked(s) = Asks(page[t].at)
  BY <1>2 DEF CallMatches
<1>5. page[t].at # "login"
  BY <1>3, Asking
<1>6. \A r \in Place : call[r].tab = t => call[r].fn # "login"
  BY <1>1, <1>5 DEF CallMatches
<1> QED
  BY <1>3, <1>4, <1>5, <1>6

(* The versions of the new data.                                           *)
LEMMA GotVersions ==
    ASSUME WebAssumption, IInv, NEW t \in Tab, NEW s \in Place, Loads(s, t)
    PROVE  /\ Got(s, t) \in [Shown -> Datum]
           /\ \A e \in Shown : SinceMount(t, Got(s, t)[e].v)
           /\ page[t].at # "git" /\ Broken(s) => Got(s, t) = shown[t]
<1>1. TypeOK /\ LoadInOrder(s, t) /\ DataInOrder(t)
  BY DEF IInv, TabMatches
<1>2. shown[t] \in [Shown -> Datum] /\ \A e \in Shown : e \in Endpoint /\ req[s][e] \in Request
  BY <1>1, Typed, Constants
<1>3. NoDatum \in Datum /\ NoDatum.v = 0
  BY Versions DEF NoDatum, Datum
<1>4. ASSUME NEW e \in Shown
      PROVE  Got(s, t)[e] \in Datum /\ SinceMount(t, Got(s, t)[e].v)
  <2>1. CASE Got(s, t)[e] = shown[t][e]
    BY <1>1, <1>2, <2>1 DEF DataInOrder
  <2>2. CASE req[s][e].st = "ok" /\ Got(s, t)[e] = [v |-> req[s][e].v, null |-> req[s][e].null]
    <3>1. [v |-> req[s][e].v, null |-> req[s][e].null] \in Datum
      BY <1>2 DEF Request, Datum
    <3>2. Got(s, t)[e].v = req[s][e].v
      BY <2>2
    <3>3. SinceMount(t, req[s][e].v)
      BY <1>1, <2>2 DEF LoadInOrder, SinceMount
    <3> QED
      BY <2>2, <3>1, <3>2, <3>3
  <2>3. CASE Got(s, t)[e] = NoDatum
    BY <1>3, <2>3 DEF SinceMount
  <2> QED
    BY <2>1, <2>2, <2>3 DEF Got
<1>5. Got(s, t) = [e \in Shown |-> Got(s, t)[e]]
  BY DEF Got
<1>6. ASSUME page[t].at # "git", Broken(s) PROVE Got(s, t) = shown[t]
  <2>1. \A e \in Shown : Got(s, t)[e] = shown[t][e]
    BY <1>6 DEF Got
  <2> QED
    BY <1>2, <1>5, <2>1
<1> QED
  BY <1>4, <1>5, <1>6

(* The page after them.                                                    *)
LEMMA AfterPage ==
    ASSUME WebAssumption, IInv, NEW t \in Tab, NEW s \in Place, Loads(s, t),
           Waits(s) => Broken(s) \/ page[t].at = "git"
    PROVE  LET p == page[t]
               q == After(s, t)
               fresh == p.at = "leases" /\ ~Broken(s)
           IN  /\ q \in PageState
               /\ q.at = p.at /\ ~q.loading
               /\ q.syncing <=> p.syncing /\ call[s].fn # "refresh"
               /\ q.choice = p.choice /\ q.entered = p.entered
               /\ q.stale <=> p.stale \/ fresh
               /\ ~fresh => q.rows = p.rows
               /\ SinceMount(t, q.rows.of)
<1> DEFINE p == page[t]
           q == After(s, t)
           fresh == p.at = "leases" /\ ~Broken(s)
<1>1. TypeOK /\ LoadInOrder(s, t) /\ DataInOrder(t) /\ p \in PageState
  BY Typed DEF IInv, TabMatches
<1>2. "leases" \in Shown /\ "leases" \in Endpoint /\ req[s]["leases"] \in Request
  BY <1>1, Typed, Constants DEF Shown
<1>3. req[s]["leases"].v \in Version
  BY <1>2 DEF Request
<1>4. q = [p EXCEPT !.loading = FALSE,
                  !.syncing = p.syncing /\ call[s].fn # "refresh",
                  !.rows = IF fresh THEN [of |-> req[s]["leases"].v, by |-> "all"]
                                    ELSE p.rows,
                  !.stale = p.stale \/ fresh]
  BY DEF After
<1>5. q \in PageState
  <2>1. PICK a \in BOOLEAN : a = (p.syncing /\ call[s].fn # "refresh")
    OBVIOUS
  <2>2. PICK b \in BOOLEAN : b = (p.stale \/ fresh)
    OBVIOUS
  <2>3. PICK rows \in [of : Version, by : {"all", "active"}] :
          rows = IF fresh THEN [of |-> req[s]["leases"].v, by |-> "all"] ELSE p.rows
    BY <1>1, <1>3 DEF PageState
  <2>4. q = [p EXCEPT !.loading = FALSE, !.syncing = a, !.rows = rows, !.stale = b]
    BY <1>4, <2>1, <2>2, <2>3
  <2> HIDE DEF q
  <2> QED
    BY <1>1, <2>4 DEF PageState
<1>6. /\ q.at = p.at /\ ~q.loading
      /\ q.syncing <=> p.syncing /\ call[s].fn # "refresh"
      /\ q.choice = p.choice /\ q.entered = p.entered
      /\ q.stale <=> p.stale \/ fresh
  BY <1>1, <1>4 DEF PageState
<1>7. q.rows = IF fresh THEN [of |-> req[s]["leases"].v, by |-> "all"] ELSE p.rows
  BY <1>1, <1>4 DEF PageState
<1>8. SinceMount(t, q.rows.of)
  <2>1. CASE fresh
    <3>1. "leases" \in Asked(s)
      BY <1>2, <2>1, LoaderPage DEF Asks, LeasesRequests
    <3>2. req[s]["leases"].st = "ok"
      BY <1>2, <2>1, <3>1 DEF Asked, Waits, Broken, Request
    <3>3. SinceMount(t, req[s]["leases"].v)
      BY <1>1, <1>2, <3>2 DEF LoadInOrder, SinceMount
    <3>4. q.rows.of = req[s]["leases"].v
      BY <1>7, <2>1
    <3> QED
      BY <3>3, <3>4
  <2>2. CASE ~fresh
    BY <1>1, <1>7, <2>2 DEF DataInOrder
  <2> QED
    BY <2>1, <2>2
<1> QED
  BY <1>5, <1>6, <1>7, <1>8

LEMMA SettledBlank ==
    ASSUME WebAssumption, IInv, NEW t \in Tab, NEW s \in Place, t = call[s].tab,
           Settle(s), Throws(page[t].at, Got(s, t))
    PROVE  IInv'
<1>1. TypeOK /\ TokensAge /\ UNCHANGED <<token, version, lost, faults, stored, memory>>
  BY AgeSame DEF IInv, Settle, server
<1>2. Loads(s, t)
  BY DEF Settle
<1>3. /\ page' = [page EXCEPT ![t] = Mounted("blank", version)]
      /\ shown' = [shown EXCEPT ![t] = NothingShown]
      /\ call' = [r \in Place |->
              IF r # s THEN Leave(r, t)
              ELSE IF Waits(s) THEN Leave(s, t) ELSE NoCall]
      /\ req' = [r \in Place |->
              IF r # s THEN LeaveRequests(r, t)
              ELSE IF Waits(s) THEN LeaveRequests(s, t) ELSE NoRequests]
  BY DEF Settle, SetPage
<1>4. call' = [r \in Place |-> call'[r]] /\ req' = [r \in Place |-> req'[r]]
  BY <1>3
<1>5. \A r \in Place : call[r].tab = t => call[r].fn # "login"
  BY <1>2, LoaderPage
<1>6. ASSUME NEW r \in Place PROVE Stays(r, t) \/ Drops(r, t) \/ Leaves(r, t)
  <2>1. CASE call[r].tab # t
    <3>1. r # s /\ Leave(r, t) = call[r] /\ LeaveRequests(r, t) = req[r]
      BY <2>1 DEF Leave, LeaveRequests
    <3> QED
      BY <1>3, <2>1, <3>1 DEF Stays
  <2>2. CASE call[r].tab = t /\ (r # s \/ Waits(s))
    <3>1. call'[r] = Leave(r, t) /\ req'[r] = LeaveRequests(r, t)
      BY <1>3, <2>2
    <3> QED
      BY <1>5, <2>2, <3>1 DEF Leaves
  <2>3. CASE r = s /\ ~Waits(s)
    <3>1. call'[r] = NoCall /\ req'[r] = NoRequests
      BY <1>3, <2>3
    <3> QED
      BY <2>3, <3>1 DEF Drops
  <2> QED
    BY <2>1, <2>2, <2>3
<1>7. /\ memory' \in [Tab -> Token \cup {NoToken}] /\ \A u \in Tab : MemoryIssued(u)
      /\ stored' \in Token \cup {NoToken} /\ Issued(stored)' /\ lost' \in BOOLEAN
  BY <1>1, MemoryKept, StoredKept DEF TypeOK
<1>8. "blank" \in Page \cup {"login", "blank"} /\ "blank" \notin DataPage
  BY Asking
<1> QED
  BY <1>1, <1>3, <1>4, <1>6, <1>7, <1>8, PageChanges

LEMMA SettledShown ==
    ASSUME WebAssumption, IInv, NEW t \in Tab, NEW s \in Place, t = call[s].tab,
           Settle(s), ~Throws(page[t].at, Got(s, t))
    PROVE  IInv'
<1>1. /\ TypeOK /\ TokensAge /\ t # NoTab /\ TabMatches(t)
      /\ UNCHANGED <<token, version, lost, faults, stored, memory>>
      /\ version' \in Int /\ version <= version'
  BY AgeSame, Typed DEF IInv, Settle, server, WebAssumption
<1>2. Loads(s, t) /\ (Waits(s) => page[t].at # "git" /\ Broken(s))
  BY DEF Settle
<1>3. /\ page' = [page EXCEPT ![t] = After(s, t)]
      /\ shown' = [shown EXCEPT ![t] = Got(s, t)]
      /\ call' = [r \in Place |->
              IF r # s THEN call[r]
              ELSE IF Waits(s) THEN Leave(s, t) ELSE NoCall]
      /\ req' = [r \in Place |->
              IF r # s THEN req[r]
              ELSE IF Waits(s) THEN LeaveRequests(s, t) ELSE NoRequests]
  BY DEF Settle, SetPage
<1>4. /\ page[t].at \in DataPage /\ page[t].at # "login"
      /\ \A r \in Place : call[r].tab = t => call[r].fn # "login"
  BY <1>2, LoaderPage
<1>5. PICK d \in [Shown -> Datum] :
        /\ d = Got(s, t)
        /\ \A e \in Shown : SinceMount(t, d[e].v)
        /\ page[t].at # "git" /\ Broken(s) => d = shown[t]
  BY <1>2, GotVersions
<1>6. PICK q \in PageState :
        /\ q = After(s, t)
        /\ q.at = page[t].at /\ ~q.loading
        /\ q.syncing <=> page[t].syncing /\ call[s].fn # "refresh"
        /\ q.choice = page[t].choice /\ q.entered = page[t].entered
        /\ q.stale <=> page[t].stale \/ (page[t].at = "leases" /\ ~Broken(s))
        /\ ~(page[t].at = "leases" /\ ~Broken(s)) => q.rows = page[t].rows
        /\ SinceMount(t, q.rows.of)
  BY <1>2, AfterPage
<1>7. /\ page'[t] = q /\ shown'[t] = d
      /\ \A u \in Tab : u # t => page'[u] = page[u] /\ shown'[u] = shown[u]
      /\ page' \in [Tab -> PageState] /\ shown' \in [Tab -> [Shown -> Datum]]
  BY <1>1, <1>3, <1>5, <1>6 DEF TypeOK
<1>8. /\ \A r \in Place : r # s => call'[r] = call[r] /\ req'[r] = req[r]
      /\ Waits(s) => call'[s] = Leave(s, t) /\ req'[s] = LeaveRequests(s, t)
      /\ ~Waits(s) => call'[s] = NoCall /\ req'[s] = NoRequests
  BY <1>3
<1>9. /\ call[s].tab = t /\ call[s].fn # "login"
      /\ call'[s] \in Call /\ req'[s] \in [Endpoint -> Request]
      /\ ~call'[s].mounted /\ call'[s].tab \in {t, NoTab} /\ call'[s].fn # "login"
  <2>1. call[s].tab = t /\ call[s].fn # "login" /\ call[s] \in Call
    BY <1>1, <1>4, Typed
  <2>2. CASE Waits(s)
    <3>1. call'[s] \in Call /\ req'[s] \in [Endpoint -> Request]
      BY <1>1, <1>8, <2>2, LeftTypes
    <3>2. call'[s].tab = t /\ call'[s].fn = call[s].fn /\ ~call'[s].mounted
      BY <1>8, <2>1, <2>2 DEF Leave, Call
    <3> QED
      BY <2>1, <3>1, <3>2
  <2>3. CASE ~Waits(s)
    <3>1. NoCall.tab = NoTab /\ NoCall.fn = "none" /\ ~NoCall.mounted
      BY DEF NoCall
    <3> QED
      BY <1>8, <2>1, <2>3, <3>1, Constants
  <2> QED
    BY <2>2, <2>3
<1>10. ASSUME NEW r \in Place PROVE CallMatches(r)'
  <2>1. CASE r = s /\ Waits(s)
    BY <1>1, <1>8, <1>9, <2>1, CallLeft DEF IInv
  <2>2. CASE r = s /\ ~Waits(s)
    BY <1>8, <2>2, CallEnded
  <2>3. CASE r # s
    <3>1. ASSUME call[r].tab \in Tab PROVE SamePage(r)
      <4>1. CASE call[r].tab # t
        BY <1>7, <3>1, <4>1 DEF SamePage
      <4>2. CASE call[r].tab = t
        <5>1. page'[t].at = page[t].at /\ call[r].fn # "login"
          BY <1>4, <1>6, <1>7, <4>2
        <5>2. ASSUME call[r].fn \in {"sync", "refresh"}, call[r].mounted, page[t].syncing
              PROVE  page'[t].syncing
          <6>1. Syncs(r, t)
            BY <4>2, <5>2 DEF Syncs
          <6>2. ~Syncs(s, t)
            BY <1>1, <2>3, <6>1 DEF TabMatches, Backed
          <6>3. call[s].fn # "refresh"
            BY <1>2, <6>2 DEF Loads, Syncs
          <6> QED
            BY <1>6, <1>7, <5>2, <6>3
        <5> QED
          BY <4>2, <5>1, <5>2 DEF SamePage
      <4> QED
        BY <4>1, <4>2
    <3> QED
      BY <1>1, <1>8, <2>3, <3>1, CallSame DEF IInv
  <2> QED
    BY <2>1, <2>2, <2>3
<1>11. \A u \in Tab : MemoryIssued(u)
  BY <1>1, MemoryKept
<1>12. ASSUME NEW u \in Tab, u # t PROVE TabMatches(u)'
  <2>1. ASSUME NEW r \in Place, call[r].tab = u \/ call'[r].tab = u
        PROVE  call'[r] = call[r] /\ req'[r] = req[r]
    <3>1. call'[s].tab # u /\ call[s].tab # u
      BY <1>9, <1>12 DEF WebAssumption
    <3> QED
      BY <1>8, <2>1, <3>1
  <2> QED
    BY <1>1, <1>7, <1>11, <1>12, <2>1, TabSame DEF IInv
<1>13. ASSUME NEW r \in Place
       PROVE  /\ Loads(r, t)' <=> Loads(r, t) /\ r # s
              /\ Syncs(r, t)' <=> Syncs(r, t) /\ r # s
              /\ ~LogsIn(r, t)'
  BY <1>4, <1>8, <1>9 DEF Loads, Syncs, LogsIn
<1>14. Backed(t)'
  <2>1. ASSUME page'[t].syncing, page'[t].at = "git"
        PROVE  \E r \in Place : Syncs(r, t)'
    <3>1. ~Syncs(s, t) /\ page[t].syncing /\ page[t].at = "git"
      BY <1>2, <1>6, <1>7, <2>1 DEF Loads, Syncs
    <3> QED
      BY <1>1, <1>13, <3>1 DEF TabMatches, Backed
  <2>2. ASSUME NEW r \in Place, NEW u \in Place, Syncs(r, t)', Syncs(u, t)' PROVE r = u
    BY <1>1, <1>13, <2>2 DEF TabMatches, Backed
  <2>3. ~page'[t].loading
    BY <1>6, <1>7
  <2> QED
    BY <1>13, <2>1, <2>2, <2>3 DEF Backed
<1>15. Filtered(t)'
  <2> SUFFICES ASSUME q.at = "leases", ~q.stale
               PROVE  q.rows = [of |-> d["leases"].v, by |-> q.choice]
    BY <1>7 DEF Filtered
  <2>1. page[t].at = "leases" /\ ~page[t].stale /\ Broken(s)
    BY <1>6
  <2>2. d = shown[t] /\ q.rows = page[t].rows
    BY <1>5, <1>6, <2>1
  <2> QED
    BY <1>1, <1>6, <2>1, <2>2 DEF TabMatches, Filtered
<1>16. DataInOrder(t)'
  <2>1. /\ q.entered = page[t].entered /\ page[t].entered <= version
        /\ \A e \in Shown : SinceMount(t, d[e].v)
        /\ SinceMount(t, q.rows.of)
    BY <1>1, <1>5, <1>6 DEF TabMatches, DataInOrder
  <2> QED
    BY <1>1, <1>7, <2>1 DEF DataInOrder, SinceMount
<1>17. ASSUME NEW r \in Place, Loads(r, t)' PROVE LoadInOrder(r, t)'
  <2>1. Loads(r, t) /\ r # s
    BY <1>13, <1>17
  <2>2. LoadInOrder(r, t) /\ call[r].overlaps
    BY <1>1, <1>2, <2>1 DEF TabMatches, LoadInOrder
  <2>3. call'[r] = call[r] /\ req'[r] = req[r] /\ page'[t].entered = page[t].entered
    BY <1>6, <1>7, <1>8, <2>1
  <2> QED
    BY <1>1, <2>2, <2>3 DEF LoadInOrder
<1>18. TabMatches(t)'
  <2>1. Issued(memory[t])'
    BY <1>11 DEF MemoryIssued, IssuedNext, Issued
  <2> QED
    BY <1>14, <1>15, <1>16, <1>17, <2>1 DEF TabMatches
<1>19. TypeOK'
  <2>1. call' \in [Place -> Call] /\ req' \in [Place -> [Endpoint -> Request]]
    <3>1. \A r \in Place : call'[r] \in Call /\ req'[r] \in [Endpoint -> Request]
      BY <1>1, <1>8, <1>9, Typed
    <3>2. call' = [r \in Place |-> call'[r]] /\ req' = [r \in Place |-> req'[r]]
      BY <1>3
    <3> QED
      BY <3>1, <3>2
  <2> QED
    BY <1>1, <1>7, <2>1 DEF TypeOK
<1>20. Issued(stored)'
  BY <1>1, StoredKept
<1> QED
  BY <1>10, <1>12, <1>18, <1>19, <1>20 DEF IInv

LEMMA Settled ==
    ASSUME WebAssumption, IInv, NEW s \in Place, Settle(s)
    PROVE  IInv'
<1>1. PICK t \in Tab : t = call[s].tab
  BY DEF Settle
<1> QED
  BY <1>1, SettledBlank, SettledShown

-----------------------------------------------------------------------------
(***************************************************************************)
(* The theorems.                                                           *)
(***************************************************************************)
LEMMA Initial ==
    ASSUME WebAssumption, Init
    PROVE  IInv
<1>1. Mounted("login", 1) \in PageState /\ "login" \notin DataPage
  BY MountedPage, Versions, Asking
<1>2. TypeOK
  <2>1. page \in [Tab -> PageState] /\ shown \in [Tab -> [Shown -> Datum]]
    BY <1>1, Constants DEF Init
  <2>2. call \in [Place -> Call] /\ req \in [Place -> [Endpoint -> Request]]
    BY Constants DEF Init
  <2>3. version \in 1 .. MaxVersion /\ faults \in 0 .. MaxFaults
    BY DEF Init, WebAssumption
  <2> QED
    BY <2>1, <2>2, <2>3 DEF Init, TypeOK
<1>3. Issued(stored)
  BY DEF Init, Issued
<1>4. ASSUME NEW s \in Place PROVE CallMatches(s)
  BY DEF Init, CallMatches, NoCall, NoRequests, NoRequest, Issued, Shown, Endpoint
<1>5. ASSUME NEW t \in Tab PROVE TabMatches(t)
  <2>1. \A s \in Place : ~Loads(s, t) /\ ~Syncs(s, t) /\ ~LogsIn(s, t)
    BY DEF Init, Loads, Syncs, LogsIn, NoCall
  <2>2. page[t] = Mounted("login", 1) /\ shown[t] = NothingShown
    BY DEF Init
  <2>3. /\ page[t].at = "login" /\ ~page[t].loading /\ ~page[t].syncing
        /\ page[t].rows.of = 0 /\ page[t].entered \in {0, 1} /\ version = 1
    BY <1>1, <2>2, MountedFields DEF Init
  <2>4. \A e \in Shown : shown[t][e].v = 0
    BY <2>2 DEF NothingShown, NoDatum
  <2>5. Backed(t) /\ Filtered(t)
    BY <2>1, <2>3 DEF Backed, Filtered
  <2>6. DataInOrder(t)
    BY <2>3, <2>4 DEF DataInOrder, SinceMount
  <2>7. Issued(memory[t])
    BY DEF Init, Issued
  <2> QED
    BY <2>1, <2>5, <2>6, <2>7 DEF TabMatches
<1> QED
  BY <1>2, <1>3, <1>4, <1>5 DEF IInv

LEMMA Step ==
    ASSUME WebAssumption, IInv, Next
    PROVE  IInv'
<1>1. ASSUME NEW t \in Tab, User(t) PROVE IInv'
  BY <1>1, Navigated, Loaded, LoggedOut, Submitted, SyncStarts, FilterChosen DEF User
<1>2. ASSUME NEW t \in Tab, Tick(t) \/ Refilter(t) PROVE IInv'
  BY <1>2, Ticked, Refiltered
<1>3. ASSUME NEW s \in Place, Api(s) PROVE IInv'
  BY <1>3, Served, LoginAnswered, SyncAccepted, SyncEnded DEF Api
<1>4. ASSUME NEW s \in Place, Client(s) PROVE IInv'
  BY <1>4, Rejects401, LogInGoesOn, LoginRefused, SyncGoesOn, SyncRefused, Settled, Discarded
     DEF Client
<1>5. ASSUME NEW s \in Place, NEW e \in Endpoint, Fail(s, e) PROVE IInv'
  BY <1>5, RequestFails
<1>6. ASSUME NEW k \in Token, Expire(k) PROVE IInv'
  BY <1>6, TokenExpires
<1>7. CASE Change \/ Restart
  BY <1>7, DataChange, ServerRestarts
<1> QED
  BY <1>1, <1>2, <1>3, <1>4, <1>5, <1>6, <1>7 DEF Next

LEMMA Stutter ==
    ASSUME IInv, UNCHANGED vars
    PROVE  IInv'
<1>1. TypeOK'
  BY DEF IInv, TypeOK, vars, server
<1>2. Issued(stored)'
  BY DEF IInv, Issued, vars, server
<1>3. \A s \in Place : CallMatches(s)'
  BY DEF IInv, CallMatches, Asked, Issued, ValidateToken, vars, server
<1>4. ASSUME NEW t \in Tab PROVE TabMatches(t)'
  BY DEF IInv, TabMatches, Issued, Backed, Filtered, DataInOrder, SinceMount, LoadInOrder,
         Loads, Syncs, LogsIn, vars, server
<1> QED
  BY <1>1, <1>2, <1>3, <1>4 DEF IInv

(* Every reachable state of the browser and the server satisfies the       *)
(* inductive invariant.                                                    *)
THEOREM InvariantHolds == Spec => []IInv
<1>1. Init => IInv
  BY WebAssumption, Initial
<1>2. IInv /\ [Next]_vars => IInv'
  BY WebAssumption, Step, Stutter
<1> QED
  BY <1>1, <1>2, PTL DEF Spec

(* Whatever shows "Loading...", or disables a button, waits for a call     *)
(* that is in flight (setLoading and setSyncing in the pages).             *)
THEOREM SpinnersBacked == Spec => []SpinnerBacked
<1>1. IInv => SpinnerBacked
  BY DEF IInv, TabMatches, SpinnerBacked
<1> QED
  BY <1>1, InvariantHolds, PTL

(* The rows of the leases page are those of its latest load, filtered by   *)
(* its choice, unless the effect is still to run (Leases.tsx).             *)
THEOREM FilterStaysApplied == Spec => []FilterApplied
<1>1. IInv => FilterApplied
  BY DEF IInv, TabMatches, FilterApplied
<1> QED
  BY <1>1, InvariantHolds, PTL

(* No page shows data from before its own opening.                         *)
THEOREM NothingStale == Spec => []FreshSinceMount
<1>1. IInv => FreshSinceMount
  <2> SUFFICES ASSUME IInv, NEW t \in Tab, NEW v \in View(t)
               PROVE  v >= page[t].entered
    BY DEF FreshSinceMount
  <2>1. DataInOrder(t) /\ version \in Nat
    BY WebAssumption, Typed DEF IInv, TabMatches
  <2>2. v # 0 /\ (v = page[t].rows.of \/ \E e \in Shown : v = shown[t][e].v)
    BY DEF View, DashboardView, LeasesView, SubnetsView, ConfigView, GitView, Shown
  <2>3. v \in page[t].entered .. version
    BY <2>1, <2>2 DEF DataInOrder, SinceMount
  <2> QED
    BY <2>3
<1> QED
  BY <1>1, InvariantHolds, PTL

-----------------------------------------------------------------------------
(***************************************************************************)
(* What no step does.                                                      *)
(***************************************************************************)
(* The body of NeverBack.                                                  *)
Excused(t, e) ==
    \/ page'[t] = Mounted(page'[t].at, version)
    \/ page[t].at = "git" /\ shown'[t][e] = NoDatum
    \/ \E s \in Place : Loads(s, t) /\ call[s].overlaps /\ call'[s] # call[s]

ForwardOrExcused ==
    \A t \in Tab, e \in Shown : shown'[t][e].v < shown[t][e].v => Excused(t, e)

LEMMA DataKept ==
    ASSUME WebAssumption, IInv, UNCHANGED shown
    PROVE  ForwardOrExcused
BY Typed DEF IInv, ForwardOrExcused

LEMMA DataCleared ==
    ASSUME WebAssumption, IInv, NEW u \in Tab, NEW p,
           page' = [page EXCEPT ![u] = Mounted(p, version)],
           shown' = [shown EXCEPT ![u] = NothingShown]
    PROVE  ForwardOrExcused
<1>1. TypeOK
  BY DEF IInv
<1>2. page'[u] = Mounted(p, version) /\ page'[u].at = p
  BY <1>1, MountedFields DEF TypeOK
<1>3. \A t \in Tab : t # u => shown'[t] = shown[t]
  BY <1>1 DEF TypeOK
<1>4. ASSUME NEW t \in Tab, NEW e \in Shown, shown'[t][e].v < shown[t][e].v
      PROVE  Excused(t, e)
  <2>1. t = u
    BY <1>1, <1>3, <1>4, Typed
  <2> QED
    BY <1>2, <2>1 DEF Excused
<1> QED
  BY <1>4 DEF ForwardOrExcused

LEMMA DataGot ==
    ASSUME WebAssumption, IInv, NEW s \in Place, Settle(s)
    PROVE  ForwardOrExcused
<1>1. PICK u \in Tab : u = call[s].tab
  BY DEF Settle
<1>2. TypeOK /\ Loads(s, u) /\ (Waits(s) => page[u].at # "git" /\ Broken(s))
  BY <1>1 DEF IInv, Settle
<1>3. CASE Throws(page[u].at, Got(s, u))
  BY <1>1, <1>3, DataCleared DEF Settle, SetPage
<1>4. CASE ~Throws(page[u].at, Got(s, u))
  <2>1. shown' = [shown EXCEPT ![u] = Got(s, u)]
    BY <1>1, <1>4 DEF Settle
  <2>2. shown'[u] = Got(s, u) /\ \A t \in Tab : t # u => shown'[t] = shown[t]
    BY <1>2, <2>1 DEF TypeOK
  <2>3. call'[s] # call[s]
    <3>1. call'[s] = IF Waits(s) THEN Leave(s, u) ELSE NoCall
      BY <1>1 DEF Settle
    <3>2. call[s] \in Call
      BY <1>2, Typed
    <3>3. ~Leave(s, u).mounted /\ ~NoCall.mounted
      BY <1>2, <3>2 DEF Loads, Leave, NoCall, Call
    <3> QED
      BY <1>2, <3>1, <3>3 DEF Loads
  <2>4. ASSUME NEW t \in Tab, NEW e \in Shown, shown'[t][e].v < shown[t][e].v
        PROVE  Excused(t, e)
    <3>1. t = u
      BY <1>2, <2>2, <2>4, Typed
    <3>2. shown[u][e].v \in Int /\ e \in Endpoint /\ req[s][e] \in Request
      BY <1>2, Typed, Constants
    <3>3. Got(s, u)[e] # shown[u][e]
      BY <2>2, <2>4, <3>1, <3>2
    <3>4. CASE req[s][e].st = "ok"
      <4>1. Got(s, u)[e].v = req[s][e].v
        BY <3>3, <3>4 DEF Got
      <4>2. call[s].overlaps \/ req[s][e].v >= shown[u][e].v
        BY <1>2, <3>4 DEF IInv, TabMatches, LoadInOrder
      <4>3. req[s][e].v \in Int
        BY <1>2, <3>2, Typed
      <4>4. call[s].overlaps
        BY <2>2, <2>4, <3>1, <3>2, <4>1, <4>2, <4>3
      <4> QED
        BY <1>2, <2>3, <3>1, <4>4 DEF Excused
    <3>5. CASE req[s][e].st # "ok"
      <4>1. Got(s, u)[e] = NoDatum /\ e \in Asks(page[u].at)
            /\ (page[u].at = "git" \/ ~Broken(s))
        BY <3>3, <3>5 DEF Got
      <4>2. CASE page[u].at = "git"
        BY <2>2, <3>1, <4>1, <4>2 DEF Excused
      <4>3. CASE page[u].at # "git"
        <5>1. ~Broken(s) /\ ~Waits(s)
          BY <1>2, <4>1, <4>3
        <5>2. e \in Asked(s)
          BY <1>2, <4>1, <4>3, LoaderPage
        <5> QED
          BY <3>2, <3>5, <5>1, <5>2 DEF Asked, Waits, Broken, Request
      <4> QED
        BY <4>2, <4>3
    <3> QED
      BY <3>4, <3>5
  <2> QED
    BY <2>4 DEF ForwardOrExcused
<1> QED
  BY <1>3, <1>4

LEMMA StepForward ==
    ASSUME WebAssumption, IInv, Next
    PROVE  ForwardOrExcused
<1>1. ASSUME NEW t \in Tab, NEW p \in Page, Navigate(t, p) PROVE ForwardOrExcused
  BY <1>1, DataCleared DEF Navigate, Enter, SetPage
<1>2. ASSUME NEW t \in Tab, NEW p \in Page, Load(t, p) PROVE ForwardOrExcused
  BY <1>2, DataCleared DEF Load, Reset, ToLogin, SetPage
<1>3. ASSUME NEW t \in Tab, Logout(t) PROVE ForwardOrExcused
  BY <1>3, DataCleared DEF Logout, Reset, ToLogin, SetPage
<1>4. ASSUME NEW s \in Place, LoggedIn(s) PROVE ForwardOrExcused
  <2>1. PICK t \in Tab : t = call[s].tab
    BY <1>4 DEF LoggedIn, IInv, CallMatches
  <2> QED
    BY <1>4, <2>1, DataCleared DEF LoggedIn, Enter, SetPage
<1>5. ASSUME NEW t \in Tab, User(t) PROVE ForwardOrExcused
  BY <1>1, <1>2, <1>3, <1>5, DataKept DEF User, Submit, ManualSync, Choose
<1>6. ASSUME NEW t \in Tab, Tick(t) \/ Refilter(t) PROVE ForwardOrExcused
  BY <1>6, DataKept DEF Tick, Refilter
<1>7. ASSUME NEW s \in Place, Api(s) PROVE ForwardOrExcused
  <2>1. shown' = shown
    BY <1>7 DEF Api, Serve, handleLogin, handleGitSync, SyncEnds, Answer
  <2> QED
    BY <2>1, DataKept
<1>8. ASSUME NEW s \in Place, Client(s) PROVE ForwardOrExcused
  BY <1>4, <1>8, DataGot, DataKept
     DEF Client, Reject, LoginFails, SyncAnswered, SyncFails, Discard
<1>9. ASSUME NEW s \in Place, NEW e \in Endpoint, Fail(s, e) PROVE ForwardOrExcused
  BY <1>9, DataKept DEF Fail, Answer
<1>10. ASSUME NEW k \in Token, Expire(k) PROVE ForwardOrExcused
  BY <1>10, DataKept DEF Expire, browser
<1>11. CASE Change \/ Restart
  BY <1>11, DataKept DEF Change, Restart, browser
<1> QED
  BY <1>5, <1>6, <1>7, <1>8, <1>9, <1>10, <1>11 DEF Next

(* A page shows older data than before only if two of its loads were in    *)
(* flight together, or the page is new, or its request failed.             *)
THEOREM NeverGoesBack == Spec => NeverBack
<1>1. IInv /\ [Next]_vars =>
        [\A t \in Tab, e \in Shown : shown'[t][e].v < shown[t][e].v =>
          \/ page'[t] = Mounted(page'[t].at, version)
          \/ page[t].at = "git" /\ shown'[t][e] = NoDatum
          \/ \E s \in Place : Loads(s, t) /\ call[s].overlaps /\ call'[s] # call[s]]_vars
  BY WebAssumption, StepForward DEF ForwardOrExcused, Excused
<1> QED
  BY <1>1, InvariantHolds, PTL DEF Spec, NeverBack

(* The body of SessionKept.                                                *)
SessionStays ==
    /\ \A t \in Tab : /\ ValidateToken(memory[t]) /\ memory'[t] = NoToken
                      /\ page'[t].at # "login"
                      => Rejects(memory[t])
    /\ ValidateToken(stored) /\ stored' = NoToken /\ ~Rejects(stored) =>
         \E t \in Tab : page[t].at \in Page /\ page'[t].at = "login"

(* Tokens that are there stay.                                             *)
LEMMA TokensStay ==
    ASSUME WebAssumption, \A t \in Tab : memory[t] # NoToken => memory'[t] # NoToken,
           UNCHANGED stored
    PROVE  SessionStays
BY DEF SessionStays, ValidateToken, WebAssumption

LEMMA ReadingStays ==
    ASSUME WebAssumption, IInv, NEW t \in Tab, ReadToken(t), UNCHANGED stored
    PROVE  SessionStays
<1>1. \A u \in Tab : memory[u] # NoToken => memory'[u] = memory[u]
  BY DEF IInv, TypeOK, ReadToken, Held
<1> QED
  BY <1>1, TokensStay

LEMMA LoginPage ==
    ASSUME WebAssumption, IInv, NEW t \in Tab, ToLogin(t)
    PROVE  page'[t].at = "login"
BY MountedFields DEF IInv, TypeOK, ToLogin, SetPage

LEMMA LoadingStays ==
    ASSUME WebAssumption, IInv, NEW t \in Tab, NEW p \in Page, Load(t, p)
    PROVE  SessionStays
<1>1. /\ memory'[t] = stored /\ (\A u \in Tab : u # t => memory'[u] = memory[u])
      /\ stored' = stored
  BY DEF IInv, TypeOK, Load
<1>2. stored = NoToken => page'[t].at = "login"
  BY LoginPage DEF Load, ProtectedRoute
<1>3. ~ValidateToken(NoToken)
  BY DEF ValidateToken, WebAssumption
<1>4. ASSUME NEW u \in Tab, ValidateToken(memory[u]), memory'[u] = NoToken,
             page'[u].at # "login"
      PROVE  FALSE
  BY <1>1, <1>2, <1>3, <1>4
<1> QED
  BY <1>1, <1>3, <1>4 DEF SessionStays

LEMMA LogoutStays ==
    ASSUME WebAssumption, IInv, NEW t \in Tab, Logout(t)
    PROVE  SessionStays
<1>1. page[t].at \in Page /\ page'[t].at = "login"
  BY LoginPage DEF Logout
<1>2. \A u \in Tab : u # t => memory'[u] = memory[u]
  BY DEF IInv, TypeOK, Logout, clearAuthToken, setAuthToken
<1>3. ~ValidateToken(NoToken)
  BY DEF ValidateToken, WebAssumption
<1> QED
  BY <1>1, <1>2, <1>3 DEF SessionStays

LEMMA LoginStays ==
    ASSUME WebAssumption, IInv, NEW s \in Place, LoggedIn(s)
    PROVE  SessionStays
<1>1. PICK t \in Tab : t = call[s].tab
  BY DEF LoggedIn, IInv, CallMatches
<1>2. call[s].token # NoToken
  BY DEF LoggedIn, IInv, CallMatches
<1>3. stored' = call[s].token /\ memory' = [memory EXCEPT ![t] = call[s].token]
  BY <1>1 DEF LoggedIn, setAuthToken
<1>4. \A u \in Tab : memory[u] # NoToken => memory'[u] # NoToken
  BY <1>2, <1>3 DEF IInv, TypeOK
<1>5. ~ValidateToken(NoToken)
  BY DEF ValidateToken, WebAssumption
<1> QED
  BY <1>2, <1>3, <1>4, <1>5 DEF SessionStays

(* A 401 was meant for a token that is not valid, or for a login.          *)
LEMMA RejectStays ==
    ASSUME WebAssumption, IInv, NEW s \in Place, NEW e \in Endpoint, Reject(s, e)
    PROVE  SessionStays
<1>1. TypeOK /\ CallMatches(s)
  BY DEF IInv
<1>2. req[s][e].st = "unauthorized" /\ req'[s][e].st = "failed"
  BY <1>1, OneAnswer, Constants DEF Reject
<1>3. ASSUME NEW k, ValidateToken(k) PROVE Rejects(k)
  <2>1. CASE e = "login"
    BY <1>2, <2>1 DEF Rejects
  <2>2. CASE e # "login"
    <3>1. e \in Shown \cup {"sync"}
      BY <2>2 DEF Endpoint
    <3>2. ~ValidateToken(call[s].token)
      BY <1>1, <1>2, <3>1 DEF CallMatches
    <3>3. call[s].token # k
      BY <1>3, <3>2
    <3> QED
      BY <1>2, <3>3 DEF Rejects
  <2> QED
    BY <2>1, <2>2
<1> QED
  BY <1>3 DEF SessionStays

LEMMA StepStays ==
    ASSUME WebAssumption, IInv, Next
    PROVE  SessionStays
<1>1. ASSUME UNCHANGED <<memory, stored>> PROVE SessionStays
  BY <1>1, TokensStay
<1>2. ASSUME NEW t \in Tab, User(t) PROVE SessionStays
  <2>1. ASSUME NEW p \in Page, Navigate(t, p) PROVE SessionStays
    BY <2>1, ReadingStays DEF Navigate
  <2>2. CASE Submit(t) \/ ManualSync(t)
    BY <2>2, ReadingStays DEF Submit, ManualSync, Send
  <2>3. ASSUME NEW f \in {"all", "active"}, Choose(t, f) PROVE SessionStays
    BY <1>1, <2>3 DEF Choose
  <2> QED
    BY <1>2, <2>1, <2>2, <2>3, LoadingStays, LogoutStays DEF User
<1>3. ASSUME NEW t \in Tab, Tick(t) \/ Refilter(t) PROVE SessionStays
  <2>1. CASE Tick(t)
    BY <2>1, ReadingStays DEF Tick, Send
  <2>2. CASE Refilter(t)
    BY <1>1, <2>2 DEF Refilter
  <2> QED
    BY <1>3, <2>1, <2>2
<1>4. ASSUME NEW s \in Place, Api(s) PROVE SessionStays
  <2>1. UNCHANGED <<memory, stored>>
    BY <1>4 DEF Api, Serve, handleLogin, handleGitSync, SyncEnds, Answer
  <2> QED
    BY <1>1, <2>1
<1>5. ASSUME NEW s \in Place, Client(s) PROVE SessionStays
  <2>1. CASE SyncAnswered(s)
    <3>1. PICK t \in Tab : t = call[s].tab
      BY <2>1 DEF SyncAnswered, IInv, CallMatches
    <3> QED
      BY <2>1, <3>1, ReadingStays DEF SyncAnswered, Send
  <2>2. CASE LoginFails(s) \/ SyncFails(s) \/ Settle(s) \/ Discard(s)
    BY <1>1, <2>2 DEF LoginFails, SyncFails, Settle, Discard
  <2> QED
    BY <1>5, <2>1, <2>2, RejectStays, LoginStays DEF Client
<1>6. ASSUME NEW s \in Place, NEW e \in Endpoint, Fail(s, e) PROVE SessionStays
  BY <1>1, <1>6 DEF Fail, Answer
<1>7. ASSUME NEW k \in Token, Expire(k) PROVE SessionStays
  BY <1>1, <1>7 DEF Expire, browser
<1>8. CASE Change \/ Restart
  BY <1>1, <1>8 DEF Change, Restart, browser
<1> QED
  BY <1>2, <1>3, <1>4, <1>5, <1>6, <1>7, <1>8 DEF Next

(* Sessions end by a logout, or by a 401 to a login or to another token.   *)
THEOREM SessionsKept == Spec => SessionKept
<1>1. IInv /\ [Next]_vars =>
        [/\ \A t \in Tab : /\ ValidateToken(memory[t]) /\ memory'[t] = NoToken
                           /\ page'[t].at # "login"
                           => Rejects(memory[t])
         /\ ValidateToken(stored) /\ stored' = NoToken /\ ~Rejects(stored) =>
              \E t \in Tab : page[t].at \in Page /\ page'[t].at = "login"]_vars
  BY WebAssumption, StepStays DEF SessionStays
<1> QED
  BY <1>1, InvariantHolds, PTL DEF Spec, SessionKept

=============================================================================
