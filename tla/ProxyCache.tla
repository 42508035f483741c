----------------------------- MODULE ProxyCache -----------------------------
(***************************************************************************)
(* The pull-through cache of a forklift proxy repository, for one metadata *)
(* document: the request path (repo.rs serve, fetch_and_serve), the shared *)
(* fetch (fetch_and_store, revalidated), the coalescing of identical       *)
(* fetches (repo/flight.rs), the negative cache and the cooldown.          *)
(*                                                                         *)
(* A client reads the row, then waits for a fetch that may have begun      *)
(* before it came and that outlives the client that started it. The fetch  *)
(* reads the row and the validators, asks the upstream, and writes the row *)
(* and the validators in separate statements. Time passes while an         *)
(* upstream is waited for; the steps between are taken to be instant.      *)
(***************************************************************************)
EXTENDS Naturals

CONSTANTS
    Clients,      \* who asks for the document
    Contents,     \* what the upstream can answer with; its ETag is the content
    Fetches,      \* the identities of fetch tasks
    None,         \* no row, no validators, no call
    TTL,          \* metadata_ttl, in ticks
    StaleIfError, \* stale_if_error
    FetchBound,   \* FORKLIFT_PROXY_UPSTREAM_TIMEOUT: a fetch ends within it
    NegativeTTL,  \* negative_ttl
    Cooldown,     \* the upstream's Retry-After
    MaxChanges    \* bound: how often the upstream changes

ASSUME ProxyAssumption ==
    /\ None \notin Clients \cup Contents \cup Fetches
    /\ {TTL, StaleIfError, FetchBound, NegativeTTL, Cooldown, MaxChanges} \subseteq Nat

VARIABLES
    upstream, \* what the upstream has, how often it changed, ticks since it had each content
    row,      \* the artifact row: its blob and the age of cached_at
    asof,     \* history: the upstream change the row stems from
    vals,     \* artifact_validators: the blob the stored ETag is bound to
    neg,      \* ticks the negative entry has left
    cool,     \* ticks the cooldown has left
    calls,    \* the fetch registered under the key
    task,     \* the fetch tasks
    client,   \* the requests
    answer    \* what the last step answered a client, if it did

vars == <<upstream, row, asof, vals, neg, cool, calls, task, client, answer>>

Window == TTL + StaleIfError
Lags == 0..(Window + FetchBound + 1)
Rows == [blob: Contents, age: 0..Window] \cup {None}
Outcomes == {"stored", "notfound", "blocked", "retry", "error"}
Answers == [kind: {"fresh", "stale"}, lag: Lags]
           \cup [kind: {"notfound", "blocked", "retry", "error"}, lag: {0}]

TypeOK ==
    /\ upstream \in [has: Contents \cup {None}, changes: 0..MaxChanges, lag: [Contents -> Lags]]
    /\ row \in Rows
    /\ asof \in 0..MaxChanges
    /\ vals \in Contents \cup {None}
    /\ neg \in 0..NegativeTTL
    /\ cool \in 0..Cooldown
    /\ calls \in Fetches \cup {None}
    /\ task \in [Fetches -> [pc: {"none", "read", "ask", "store", "validators", "evict",
                                  "revalidate", "refresh", "publish"},
                             current: Contents \cup {None}, conditional: Contents \cup {None},
                             body: Contents \cup {None}, asof: 0..MaxChanges,
                             age: 0..FetchBound, out: Outcomes]]
    /\ client \in [Clients -> [pc: {"idle", "missed", "joining", "waiting", "outcome"},
                               stale: Rows, fetch: Fetches \cup {None}, out: Outcomes]]
    /\ answer \in Answers \cup {None}

NoTask == [pc |-> "none", current |-> None, conditional |-> None, body |-> None,
           asof |-> 0, age |-> 0, out |-> "error"]

Idle == [pc |-> "idle", stale |-> None, fetch |-> None, out |-> "error"]

Init ==
    /\ \E c \in Contents :
         upstream = [has |-> c, changes |-> 0,
                     lag |-> [d \in Contents |-> IF d = c THEN 0 ELSE Window + FetchBound + 1]]
    /\ row = None /\ asof = 0 /\ vals = None /\ neg = 0 /\ cool = 0 /\ calls = None
    /\ task = [t \in Fetches |-> NoTask]
    /\ client = [c \in Clients |-> Idle]
    /\ answer = None

-----------------------------------------------------------------------------
(* Freshness *)

\* fresh: a metadata document with no TTL is never fresh.
Fresh(r) == r # None /\ r.age < TTL

\* Mutant of WithinStaleWindow: the window is not measured.
StaleForEver(r) == r # None /\ StaleIfError > 0

\* within_stale_window, for the copy a request read before it waited.
WithinStaleWindow(r) == r # None /\ StaleIfError > 0 /\ r.age < Window

\* Mutant of Conditional: validators are sent whatever blob they were stored with.
ConditionalAnyBlob(r) == IF r = None THEN None ELSE vals

\* conditional_for: only validators bound to the blob the row references.
Conditional(r) == IF r # None /\ vals = r.blob THEN vals ELSE None

-----------------------------------------------------------------------------
(* Requests *)

\* An answer with a body, and how long ago the upstream had that body.
Body(kind, r) == [kind |-> kind, lag |-> upstream.lag[r.blob]]
Status(kind) == [kind |-> kind, lag |-> 0]

\* take_stale, or the answer for want of a copy.
StaleOr(r, kind) == IF WithinStaleWindow(r) THEN Body("stale", r) ELSE Status(kind)

Answered(c, a) == client' = [client EXCEPT ![c] = Idle] /\ answer' = a
GoesOn(c, cl) == client' = [client EXCEPT ![c] = cl] /\ answer' = None

\* serve: the row answers while it is fresh; an expired one is kept.
Serve(c) ==
    /\ client[c].pc = "idle"
    /\ IF Fresh(row) THEN Answered(c, Body("fresh", row))
       ELSE GoesOn(c, [Idle EXCEPT !.pc = "missed", !.stale = row])
    /\ UNCHANGED <<upstream, row, asof, vals, neg, cool, calls, task>>

\* serve, fetch_and_serve: the negative cache and the cooldown answer locally.
Miss(c) ==
    /\ client[c].pc = "missed"
    /\ \/ neg > 0 /\ Answered(c, Status("notfound"))
       \/ neg = 0 /\ cool > 0 /\ Answered(c, StaleOr(client[c].stale, "retry"))
       \/ neg = 0 /\ cool = 0 /\ GoesOn(c, [client[c] EXCEPT !.pc = "joining"])
    /\ UNCHANGED <<upstream, row, asof, vals, neg, cool, calls, task>>

\* do_call: wait for the registered call, or register one and spawn its task.
Join(c) ==
    LET t == IF calls # None THEN calls ELSE CHOOSE f \in Fetches : task[f].pc = "none" IN
    /\ client[c].pc = "joining"
    /\ calls # None \/ \E f \in Fetches : task[f].pc = "none"
    /\ GoesOn(c, [client[c] EXCEPT !.pc = "waiting", !.fetch = t])
    /\ calls' = t
    /\ task' = IF calls # None THEN task
               ELSE [task EXCEPT ![t] = [NoTask EXCEPT !.pc = "read"]]
    /\ UNCHANGED <<upstream, row, asof, vals, neg, cool>>

\* fetch_and_serve after the call: a failure may be answered by the copy, what
\* was stored is read again, and a row that is gone by then is an error.
Answer(c) ==
    LET out == client[c].out IN
    /\ client[c].pc = "outcome"
    /\ Answered(c, CASE out \in {"error", "retry"} -> StaleOr(client[c].stale, out)
                     [] out = "stored" /\ row = None -> Status("error")
                     [] out = "stored" /\ row # None -> Body("fresh", row)
                     [] OTHER -> Status(out))
    /\ UNCHANGED <<upstream, row, asof, vals, neg, cool, calls, task>>

\* Mutant of Disconnect: the fetch goes with the client and nothing deregisters it.
DisconnectAborts(c) ==
    /\ client[c].pc # "idle"
    /\ GoesOn(c, Idle)
    /\ task' = [t \in Fetches |-> IF t = client[c].fetch THEN NoTask ELSE task[t]]
    /\ UNCHANGED <<upstream, row, asof, vals, neg, cool, calls>>

\* The client goes away: its future is dropped, the spawned fetch is not.
Disconnect(c) ==
    /\ client[c].pc # "idle"
    /\ GoesOn(c, Idle)
    /\ UNCHANGED <<upstream, row, asof, vals, neg, cool, calls, task>>

-----------------------------------------------------------------------------
(* The shared fetch *)

Ends(t, out) == task' = [task EXCEPT ![t] = [NoTask EXCEPT !.pc = "publish", !.out = out]]

\* fetch_and_store, first part: another fetch may have just stored the document.
ReadRow(t) ==
    /\ task[t].pc = "read"
    /\ IF Fresh(row)
       THEN Ends(t, "stored")
       ELSE task' = [task EXCEPT ![t].pc = "ask", ![t].current = IF row = None THEN None ELSE row.blob,
                                 ![t].conditional = Conditional(row)]
    /\ UNCHANGED <<upstream, row, asof, vals, neg, cool, calls, client>> /\ answer' = None

\* 404: the negative cache takes the key, unless its TTL is zero.
AnswersNotFound(t) ==
    /\ task[t].pc = "ask" /\ upstream.has = None
    /\ neg' = IF NegativeTTL = 0 THEN neg ELSE NegativeTTL
    /\ Ends(t, "notfound")
    /\ UNCHANGED <<upstream, row, asof, vals, cool, calls, client>> /\ answer' = None

\* 429 and 503 start the cooldown.
AnswersRateLimited(t) ==
    /\ task[t].pc = "ask"
    /\ cool' = IF Cooldown = 0 THEN cool ELSE Cooldown
    /\ Ends(t, "retry")
    /\ UNCHANGED <<upstream, row, asof, vals, neg, calls, client>> /\ answer' = None

\* A transport error, a timeout, another status, a 304 to no condition; a body
\* that breaks off, a row that cannot be written; a panic, anywhere, which
\* unwinds through Publish and leaves it an explicit error.
Fails(t) ==
    /\ task[t].pc \notin {"none", "publish"}
    /\ Ends(t, "error")
    /\ UNCHANGED <<upstream, row, asof, vals, neg, cool, calls, client>> /\ answer' = None

\* 304 to the condition: the content is the one the validators name.
AnswersNotModified(t) ==
    /\ task[t].pc = "ask"
    /\ task[t].conditional # None /\ task[t].conditional = upstream.has
    /\ task' = [task EXCEPT ![t].pc = "revalidate", ![t].asof = upstream.changes]
    /\ UNCHANGED <<upstream, row, asof, vals, neg, cool, calls, client>> /\ answer' = None

\* 200: the age policy may refuse it, otherwise its body is streamed.
AnswersBody(t) ==
    /\ task[t].pc = "ask" /\ upstream.has # None
    /\ \/ Ends(t, "blocked")
       \/ task' = [task EXCEPT ![t].pc = "store", ![t].body = upstream.has,
                               ![t].asof = upstream.changes]
    /\ UNCHANGED <<upstream, row, asof, vals, neg, cool, calls, client>> /\ answer' = None

\* Mutant of StoreArtifact: the key is free before the row is written.
StoreArtifactReleases(t) ==
    /\ task[t].pc = "store"
    /\ \/ /\ calls = t /\ calls' = None
          /\ UNCHANGED <<row, asof, task>>
       \/ /\ row' = [blob |-> task[t].body, age |-> 0] /\ asof' = task[t].asof
          /\ task' = [task EXCEPT ![t].pc = "validators"]
          /\ UNCHANGED calls
    /\ UNCHANGED <<upstream, vals, neg, cool, client>> /\ answer' = None

\* store_artifact: the row is replaced, stamped with the time of the write.
StoreArtifact(t) ==
    /\ task[t].pc = "store"
    /\ row' = [blob |-> task[t].body, age |-> 0] /\ asof' = task[t].asof
    /\ task' = [task EXCEPT ![t].pc = "validators"]
    /\ UNCHANGED <<upstream, vals, neg, cool, calls, client>> /\ answer' = None

\* keep_validators: stored, removed when the upstream sent none, or kept as they
\* were when the write fails, which is only logged.
KeepValidators(t) ==
    /\ task[t].pc = "validators"
    /\ vals' \in {task[t].body, None, vals}
    /\ task' = [task EXCEPT ![t].pc = "evict"]
    /\ UNCHANGED <<upstream, row, asof, neg, cool, calls, client>> /\ answer' = None

\* maybe_evict: the size cap may take the row that has just been written.
MaybeEvict(t) ==
    /\ task[t].pc = "evict"
    /\ row' \in {row, None}
    /\ Ends(t, "stored")
    /\ UNCHANGED <<upstream, asof, vals, neg, cool, calls, client>> /\ answer' = None

\* revalidated: whatever row is at the path counts as cached now.
Revalidated(t) ==
    /\ task[t].pc = "revalidate"
    /\ row' = IF row = None THEN None ELSE [row EXCEPT !.age = 0]
    /\ asof' = task[t].asof
    /\ task' = [task EXCEPT ![t].pc = "refresh"]
    /\ UNCHANGED <<upstream, vals, neg, cool, calls, client>> /\ answer' = None

\* revalidated, second part: validators the 304 carried, bound to the blob read.
RefreshValidators(t) ==
    /\ task[t].pc = "refresh"
    /\ vals' \in {task[t].current, vals}
    /\ Ends(t, "stored")
    /\ UNCHANGED <<upstream, row, asof, neg, cool, calls, client>> /\ answer' = None

\* Dropping Publish: the key is removed and the outcome sent to who waits for it.
\* A call that takes the key in between does not see this one's channel.
Publish(t) ==
    /\ task[t].pc = "publish"
    /\ calls' = None
    /\ client' = [c \in Clients |->
         IF client[c].fetch = t
         THEN [client[c] EXCEPT !.pc = "outcome", !.fetch = None, !.out = task[t].out]
         ELSE client[c]]
    /\ task' = [task EXCEPT ![t] = NoTask]
    /\ UNCHANGED <<upstream, row, asof, vals, neg, cool>> /\ answer' = None

-----------------------------------------------------------------------------
(* The rest of the world *)

\* The row goes: another document's fetch evicts it, the idle reaper or an
\* administrator deletes it. The validators stay.
RowDeleted ==
    /\ row # None
    /\ row' = None
    /\ UNCHANGED <<upstream, asof, vals, neg, cool, calls, task, client>> /\ answer' = None

\* The pod restarts: what is not in the database is gone.
Restart ==
    /\ neg' = 0 /\ cool' = 0 /\ calls' = None
    /\ task' = [t \in Fetches |-> NoTask]
    /\ client' = [c \in Clients |-> Idle] /\ answer' = None
    /\ UNCHANGED <<upstream, row, asof, vals>>

\* The upstream publishes, reverts to or withdraws a content.
UpstreamChanges ==
    /\ upstream.changes < MaxChanges
    /\ \E c \in (Contents \cup {None}) \ {upstream.has} :
         upstream' = [has |-> c, changes |-> upstream.changes + 1,
                      lag |-> [d \in Contents |-> IF d = c THEN 0 ELSE upstream.lag[d]]]
    /\ UNCHANGED <<row, asof, vals, neg, cool, calls, task, client>> /\ answer' = None

Up(n, bound) == IF n < bound THEN n + 1 ELSE n
Down(n) == IF n > 0 THEN n - 1 ELSE 0
Older(r) == IF r = None THEN None ELSE [r EXCEPT !.age = Up(@, Window)]

\* Ticks for whoever waits: for the rows, the entries, the fetches and the copies.
TimePasses ==
    /\ upstream' = [upstream EXCEPT !.lag =
         [d \in Contents |-> IF d = upstream.has THEN 0
                             ELSE Up(upstream.lag[d], Window + FetchBound + 1)]]
    /\ row' = Older(row)
    /\ neg' = Down(neg) /\ cool' = Down(cool)
    /\ task' = [t \in Fetches |-> IF task[t].pc = "none" THEN NoTask
                                  ELSE [task[t] EXCEPT !.age = @ + 1]]
    /\ client' = [c \in Clients |-> [client[c] EXCEPT !.stale = Older(@)]]
    /\ answer' = None
    /\ UNCHANGED <<asof, vals, calls>>

\* A tick, while requests are waiting or idle and every fetch is upstream's turn,
\* for as long as the HTTP client's timeout lets it be.
Tick ==
    /\ \A c \in Clients : client[c].pc \in {"idle", "waiting"}
    /\ \A t \in Fetches : \/ task[t].pc = "none"
                          \/ task[t].pc \in {"ask", "store"} /\ task[t].age < FetchBound
    /\ TimePasses

Request(c) == Serve(c) \/ Miss(c) \/ Join(c) \/ Answer(c)

Progress(t) ==
    \/ ReadRow(t) \/ AnswersNotFound(t) \/ AnswersRateLimited(t) \/ Fails(t)
    \/ AnswersNotModified(t) \/ AnswersBody(t) \/ StoreArtifact(t) \/ KeepValidators(t)
    \/ MaybeEvict(t) \/ Revalidated(t) \/ RefreshValidators(t) \/ Publish(t)

Next ==
    \/ \E c \in Clients : Request(c) \/ Disconnect(c)
    \/ \E t \in Fetches : Progress(t)
    \/ RowDeleted \/ Restart \/ UpstreamChanges \/ Tick

Spec == Init /\ [][Next]_vars

-----------------------------------------------------------------------------
(* Properties *)

\* Every variable has its type, and what is answered without the stale mark
\* was the upstream's within the TTL and one fetch: revalidation, coalescing
\* and validators left behind by a failed write never present an older
\* document as fresh (fresh, conditional_for).
FreshIsRecent ==
    TypeOK /\ (answer # None => (answer.kind = "fresh" => answer.lag < TTL + FetchBound + 1))

\* An expired document answers only within stale_if_error of its TTL, whenever
\* the copy was read and however long the failing fetch took (take_stale).
StaleIsBounded ==
    answer # None => (answer.kind = "stale" => answer.lag < Window + FetchBound + 1)

\* The row never goes back to what the upstream had before: fetches of one
\* document do not overtake one another (do_call, Publish).
NoRollback == [][row # None /\ row' # None => asof' >= asof]_vars

\* Whoever waits, waits for a fetch that is still going to publish, and so does a
\* key that is taken: a call that fails, panics or loses the client that began it
\* leaves neither a waiter nor a key behind (do_call, Publish::drop).
NobodyWaitsInVain ==
    /\ \A c \in Clients : client[c].pc = "waiting" => task[client[c].fetch].pc # "none"
    /\ calls # None => task[calls].pc # "none"
=============================================================================
