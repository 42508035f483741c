-------------------------- MODULE ProxyCacheProofs --------------------------
(* Proofs about the proxy cache, for every number of clients, contents and  *)
(* fetches, and every setting of the TTLs: a key has one fetch at a time,   *)
(* and from that follows that nobody waits in vain, that the row never      *)
(* goes back, and how old what is answered can be.                          *)
EXTENDS ProxyCache, TLAPS

-----------------------------------------------------------------------------
(* The inductive invariant.                                                 *)

\* A fetch that is about to store has something to store.
Bodies == \A t \in Fetches : task[t].pc = "store" => task[t].body \in Contents

\* The fetch that runs is the one that is registered (do_call, Publish).
OneFlight == \A t \in Fetches : task[t].pc # "none" <=> calls = t

\* Who waits, waits for the registered call.
Registered == \A c \in Clients : client[c].pc = "waiting" => client[c].fetch = calls /\ calls # None

\* An answer of the upstream that is still to be written is no older than the
\* row, and neither is from the future.
Recent ==
    /\ asof <= upstream.changes
    /\ \A t \in Fetches : task[t].pc \in {"store", "revalidate"}
           => asof <= task[t].asof /\ task[t].asof <= upstream.changes

IInv == TypeOK /\ Bodies /\ OneFlight /\ Registered /\ Recent

Task == [pc: {"none", "read", "ask", "store", "validators", "evict",
              "revalidate", "refresh", "publish"},
         current: Contents \cup {None}, conditional: Contents \cup {None},
         body: Contents \cup {None}, asof: 0..MaxChanges,
         age: 0..FetchBound, out: Outcomes]
Client == [pc: {"idle", "missed", "joining", "waiting", "outcome"},
           stale: Rows, fetch: Fetches \cup {None}, out: Outcomes]

-----------------------------------------------------------------------------
(* Types.                                                                   *)

\* The bounds are numbers and None is none of the things it stands beside.
LEMMA Constants ==
    /\ TTL \in Nat /\ StaleIfError \in Nat /\ FetchBound \in Nat
    /\ NegativeTTL \in Nat /\ Cooldown \in Nat /\ MaxChanges \in Nat
    /\ Window \in Nat
    /\ None \notin Clients /\ None \notin Contents /\ None \notin Fetches
<1>1. /\ TTL \in Nat /\ StaleIfError \in Nat /\ FetchBound \in Nat
      /\ NegativeTTL \in Nat /\ Cooldown \in Nat /\ MaxChanges \in Nat
  BY ProxyAssumption
<1>2. None \notin Clients /\ None \notin Contents /\ None \notin Fetches
  BY ProxyAssumption
<1> QED BY <1>1, <1>2 DEF Window

\* The values things are reset to have their types.
LEMMA Resets == NoTask \in Task /\ Idle \in Client /\ None \in Rows
  BY Constants DEF NoTask, Task, Idle, Client, Rows, Outcomes

\* What is answered is an answer.
LEMMA AnswerTypes ==
    ASSUME TypeOK
    PROVE  /\ \A r \in Rows : r # None => /\ Body("fresh", r) \in Answers
                                          /\ Body("stale", r) \in Answers
           /\ \A k \in {"notfound", "blocked", "retry", "error"} : Status(k) \in Answers
           /\ \A r \in Rows : \A k \in {"notfound", "blocked", "retry", "error"} :
                 StaleOr(r, k) \in Answers
<1>1. upstream.lag \in [Contents -> Lags]
  BY DEF TypeOK
<1>2. \A r \in Rows : r # None => r.blob \in Contents
  BY DEF Rows
<1>3. \A r \in Rows : r # None => Body("fresh", r) \in Answers /\ Body("stale", r) \in Answers
  BY <1>1, <1>2 DEF Body, Answers
<1>4. \A k \in {"notfound", "blocked", "retry", "error"} : Status(k) \in Answers
  BY DEF Status, Answers
<1>5. \A r \in Rows : \A k \in {"notfound", "blocked", "retry", "error"} :
          StaleOr(r, k) \in Answers
  BY <1>3, <1>4 DEF StaleOr, WithinStaleWindow
<1> QED BY <1>3, <1>4, <1>5

\* A fetch that ends keeps the type of the tasks.
LEMMA EndsType ==
    ASSUME TypeOK, NEW t \in Fetches, NEW out \in Outcomes, Ends(t, out)
    PROVE  task' \in [Fetches -> Task]
<1>1. task \in [Fetches -> Task]
  BY DEF TypeOK, Task
<1>2. [NoTask EXCEPT !.pc = "publish", !.out = out] \in Task
  BY Resets DEF NoTask, Task
<1> QED BY <1>1, <1>2 DEF Ends

\* Requests keep the types.
LEMMA TypeRequest ==
    ASSUME TypeOK, NEW c \in Clients, Request(c) \/ Disconnect(c)
    PROVE  TypeOK'
<1> USE Constants, Resets
<1>0. /\ client \in [Clients -> Client] /\ client[c] \in Client /\ client[c].stale \in Rows
      /\ client[c].out \in Outcomes
      /\ row \in Rows /\ task \in [Fetches -> Task] /\ calls \in Fetches \cup {None}
  BY DEF TypeOK, Client, Task
<1>1. CASE Serve(c)
  <2>1. Fresh(row) => Body("fresh", row) \in Answers
    BY <1>0, AnswerTypes DEF Fresh
  <2>2. [Idle EXCEPT !.pc = "missed", !.stale = row] \in Client
    BY <1>0 DEF Idle, Client
  <2>3. client' \in [Clients -> Client] /\ answer' \in Answers \cup {None}
    BY <1>0, <1>1, <2>1, <2>2 DEF Serve, Answered, GoesOn
  <2> QED BY <1>1, <2>3 DEF Serve, TypeOK, Client
<1>2. CASE Miss(c)
  <2>1. Status("notfound") \in Answers /\ StaleOr(client[c].stale, "retry") \in Answers
    BY <1>0, AnswerTypes
  <2>2. [client[c] EXCEPT !.pc = "joining"] \in Client
    BY <1>0 DEF Client
  <2>3. client' \in [Clients -> Client] /\ answer' \in Answers \cup {None}
    BY <1>0, <1>2, <2>1, <2>2 DEF Miss, Answered, GoesOn
  <2> QED BY <1>2, <2>3 DEF Miss, TypeOK, Client
<1>3. CASE Join(c)
  <2> DEFINE t == IF calls # None THEN calls ELSE CHOOSE f \in Fetches : task[f].pc = "none"
  <2>1. t \in Fetches
    BY <1>0, <1>3 DEF Join
  <2>2. [client[c] EXCEPT !.pc = "waiting", !.fetch = t] \in Client
    BY <1>0, <2>1 DEF Client
  <2>3. [NoTask EXCEPT !.pc = "read"] \in Task
    BY DEF NoTask, Task
  <2>4. client' \in [Clients -> Client] /\ answer' = None /\ calls' \in Fetches \cup {None}
    BY <1>0, <1>3, <2>1, <2>2 DEF Join, GoesOn
  <2>5. task' \in [Fetches -> Task]
    BY <1>0, <1>3, <2>1, <2>3 DEF Join
  <2> QED BY <1>3, <2>4, <2>5 DEF Join, TypeOK, Client, Task
<1>4. CASE Answer(c)
  <2>1. client' \in [Clients -> Client]
    BY <1>0, <1>4 DEF Answer, Answered
  <2>2. answer' \in Answers
    <3>1. CASE client[c].out \in {"error", "retry"}
      BY <1>0, <1>4, <3>1, AnswerTypes DEF Answer, Answered
    <3>2. CASE client[c].out = "stored" /\ row = None
      BY <1>0, <1>4, <3>2, AnswerTypes DEF Answer, Answered
    <3>3. CASE client[c].out = "stored" /\ row # None
      BY <1>0, <1>4, <3>3, AnswerTypes DEF Answer, Answered
    <3>4. CASE client[c].out \in {"notfound", "blocked"}
      BY <1>0, <1>4, <3>4, AnswerTypes DEF Answer, Answered
    <3> QED BY <1>0, <3>1, <3>2, <3>3, <3>4 DEF Outcomes
  <2> QED BY <1>4, <2>1, <2>2 DEF Answer, TypeOK, Client
<1>5. CASE Disconnect(c)
  <2>1. client' \in [Clients -> Client] /\ answer' = None
    BY <1>0, <1>5 DEF Disconnect, GoesOn
  <2> QED BY <1>5, <2>1 DEF Disconnect, TypeOK, Client
<1> QED BY <1>1, <1>2, <1>3, <1>4, <1>5 DEF Request

\* The steps of a fetch keep the types.
LEMMA TypeProgress ==
    ASSUME TypeOK, Bodies, NEW t \in Fetches, Progress(t)
    PROVE  TypeOK'
<1> USE Constants, Resets
<1>0. /\ task \in [Fetches -> Task] /\ task[t] \in Task /\ row \in Rows
      /\ upstream.changes \in 0..MaxChanges /\ upstream.has \in Contents \cup {None}
      /\ vals \in Contents \cup {None}
  BY DEF TypeOK, Task
<1>1. CASE ReadRow(t)
  <2>1. CASE Fresh(row)
    <3>1. task' \in [Fetches -> Task]
      BY <1>1, <2>1, EndsType DEF ReadRow, Outcomes
    <3> QED BY <1>1, <3>1 DEF ReadRow, TypeOK, Task
  <2>2. CASE ~Fresh(row)
    <3>1. (IF row = None THEN None ELSE row.blob) \in Contents \cup {None}
      BY <1>0 DEF Rows
    <3>2. Conditional(row) \in Contents \cup {None}
      BY <1>0 DEF Conditional
    <3>3. task' \in [Fetches -> Task]
      BY <1>0, <1>1, <2>2, <3>1, <3>2 DEF ReadRow, Task
    <3> QED BY <1>1, <3>3 DEF ReadRow, TypeOK, Task
  <2> QED BY <2>1, <2>2
<1>2. CASE AnswersNotFound(t)
  <2>1. task' \in [Fetches -> Task]
    BY <1>2, EndsType DEF AnswersNotFound, Outcomes
  <2>2. neg' \in 0..NegativeTTL
    BY <1>2 DEF AnswersNotFound, TypeOK
  <2> QED BY <1>2, <2>1, <2>2 DEF AnswersNotFound, TypeOK, Task
<1>3. CASE AnswersRateLimited(t)
  <2>1. task' \in [Fetches -> Task]
    BY <1>3, EndsType DEF AnswersRateLimited, Outcomes
  <2>2. cool' \in 0..Cooldown
    BY <1>3 DEF AnswersRateLimited, TypeOK
  <2> QED BY <1>3, <2>1, <2>2 DEF AnswersRateLimited, TypeOK, Task
<1>4. CASE Fails(t)
  <2>1. task' \in [Fetches -> Task]
    BY <1>4, EndsType DEF Fails, Outcomes
  <2> QED BY <1>4, <2>1 DEF Fails, TypeOK, Task
<1>5. CASE AnswersNotModified(t)
  <2>1. task' \in [Fetches -> Task]
    BY <1>0, <1>5 DEF AnswersNotModified, Task
  <2> QED BY <1>5, <2>1 DEF AnswersNotModified, TypeOK, Task
<1>6. CASE AnswersBody(t)
  <2>1. task' \in [Fetches -> Task]
    <3>1. CASE Ends(t, "blocked")
      BY <3>1, EndsType DEF Outcomes
    <3>2. CASE task' = [task EXCEPT ![t].pc = "store", ![t].body = upstream.has,
                                    ![t].asof = upstream.changes]
      BY <1>0, <3>2 DEF Task
    <3> QED BY <1>6, <3>1, <3>2 DEF AnswersBody
  <2> QED BY <1>6, <2>1 DEF AnswersBody, TypeOK, Task
<1>7. CASE StoreArtifact(t)
  <2>1. task[t].body \in Contents
    BY <1>7 DEF StoreArtifact, Bodies
  <2>2. row' \in Rows /\ asof' \in 0..MaxChanges
    BY <1>0, <1>7, <2>1 DEF StoreArtifact, Rows, Task
  <2>3. task' \in [Fetches -> Task]
    BY <1>0, <1>7 DEF StoreArtifact, Task
  <2> QED BY <1>7, <2>2, <2>3 DEF StoreArtifact, TypeOK, Task
<1>8. CASE KeepValidators(t)
  <2>1. task' \in [Fetches -> Task]
    BY <1>0, <1>8 DEF KeepValidators, Task
  <2>2. vals' \in Contents \cup {None}
    BY <1>0, <1>8 DEF KeepValidators, Task
  <2> QED BY <1>8, <2>1, <2>2 DEF KeepValidators, TypeOK, Task
<1>9. CASE MaybeEvict(t)
  <2>1. task' \in [Fetches -> Task]
    BY <1>9, EndsType DEF MaybeEvict, Outcomes
  <2>2. row' \in Rows
    BY <1>0, <1>9 DEF MaybeEvict
  <2> QED BY <1>9, <2>1, <2>2 DEF MaybeEvict, TypeOK, Task
<1>10. CASE Revalidated(t)
  <2>1. row' \in Rows
    BY <1>0, <1>10 DEF Revalidated, Rows
  <2>2. task' \in [Fetches -> Task] /\ asof' \in 0..MaxChanges
    BY <1>0, <1>10 DEF Revalidated, Task
  <2> QED BY <1>10, <2>1, <2>2 DEF Revalidated, TypeOK, Task
<1>11. CASE RefreshValidators(t)
  <2>1. task' \in [Fetches -> Task]
    BY <1>11, EndsType DEF RefreshValidators, Outcomes
  <2>2. vals' \in Contents \cup {None}
    BY <1>0, <1>11 DEF RefreshValidators, Task
  <2> QED BY <1>11, <2>1, <2>2 DEF RefreshValidators, TypeOK, Task
<1>12. CASE Publish(t)
  <2>1. client \in [Clients -> Client]
    BY DEF TypeOK, Client
  <2>2. \A c \in Clients :
           [client[c] EXCEPT !.pc = "outcome", !.fetch = None, !.out = task[t].out] \in Client
    BY <1>0, <2>1 DEF Client, Task
  <2>3. client' \in [Clients -> Client]
    BY <1>12, <2>1, <2>2 DEF Publish
  <2>4. task' \in [Fetches -> Task]
    BY <1>0, <1>12 DEF Publish
  <2> QED BY <1>12, <2>3, <2>4 DEF Publish, TypeOK, Task, Client
<1> QED BY <1>1, <1>2, <1>3, <1>4, <1>5, <1>6, <1>7, <1>8, <1>9, <1>10, <1>11, <1>12 DEF Progress

\* So do the upstream, the clock, deletions and restarts.
LEMMA TypeWorld ==
    ASSUME TypeOK, RowDeleted \/ Restart \/ UpstreamChanges \/ Tick
    PROVE  TypeOK'
<1> USE Constants, Resets
<1>0. /\ task \in [Fetches -> Task] /\ client \in [Clients -> Client]
      /\ upstream \in [has: Contents \cup {None}, changes: 0..MaxChanges, lag: [Contents -> Lags]]
  BY DEF TypeOK, Task, Client
<1>1. CASE RowDeleted
  BY <1>1 DEF RowDeleted, TypeOK
<1>2. CASE Restart
  <2>1. task' \in [Fetches -> Task] /\ client' \in [Clients -> Client]
    BY <1>2 DEF Restart
  <2> QED BY <1>2, <2>1 DEF Restart, TypeOK, Task, Client
<1>3. CASE UpstreamChanges
  <2>1. 0 \in Lags
    BY DEF Lags
  <2>2. upstream' \in [has: Contents \cup {None}, changes: 0..MaxChanges, lag: [Contents -> Lags]]
    BY <1>0, <1>3, <2>1 DEF UpstreamChanges
  <2> QED BY <1>3, <2>2 DEF UpstreamChanges, TypeOK
<1>4. CASE Tick
  <2>1. \A n \in Lags : Up(n, Window + FetchBound + 1) \in Lags
    BY DEF Up, Lags
  <2>2. 0 \in Lags
    BY DEF Lags
  <2>3. upstream' \in [has: Contents \cup {None}, changes: 0..MaxChanges, lag: [Contents -> Lags]]
    BY <1>0, <1>4, <2>1, <2>2 DEF Tick, TimePasses
  <2>4. \A r \in Rows : Older(r) \in Rows
    BY DEF Older, Rows, Up
  <2>5. row' \in Rows
    BY <1>4, <2>4 DEF Tick, TimePasses, TypeOK
  <2>6. neg' \in 0..NegativeTTL /\ cool' \in 0..Cooldown
    BY <1>4 DEF Tick, TimePasses, TypeOK, Down
  <2>7. \A t \in Fetches : task[t].pc # "none" => [task[t] EXCEPT !.age = @ + 1] \in Task
    BY <1>0, <1>4 DEF Tick, Task
  <2>8. task' \in [Fetches -> Task]
    BY <1>4, <2>7 DEF Tick, TimePasses
  <2>9. \A c \in Clients : [client[c] EXCEPT !.stale = Older(@)] \in Client
    BY <1>0, <2>4 DEF Client
  <2>10. client' \in [Clients -> Client]
    BY <1>4, <2>9 DEF Tick, TimePasses
  <2> QED BY <1>4, <2>3, <2>5, <2>6, <2>8, <2>10 DEF Tick, TimePasses, TypeOK, Task, Client
<1> QED BY <1>1, <1>2, <1>3, <1>4

-----------------------------------------------------------------------------
(* One fetch at a time.                                                     *)

\* A request starts a fetch only under a free key, and waits for what is
\* registered; leaving takes nothing away from the others.
LEMMA RequestInv ==
    ASSUME IInv, NEW c \in Clients, Request(c) \/ Disconnect(c)
    PROVE  IInv'
<1> USE Constants DEF IInv
<1>0. TypeOK'
  BY TypeRequest
<1>1. /\ client \in [Clients -> Client] /\ task \in [Fetches -> Task]
      /\ calls \in Fetches \cup {None}
  BY DEF TypeOK, Client, Task
<1>2. CASE Join(c)
  <2> DEFINE t == IF calls # None THEN calls ELSE CHOOSE f \in Fetches : task[f].pc = "none"
  <2>1. t \in Fetches /\ calls' = t
    BY <1>1, <1>2 DEF Join
  <2>2. Registered'
    BY <1>1, <1>2, <2>1 DEF Registered, Join, GoesOn, Client
  <2>3. CASE calls # None
    <3>1. task' = task /\ calls' = calls
      BY <1>2, <2>3 DEF Join
    <3> QED BY <1>0, <1>2, <2>2, <3>1 DEF Join, Bodies, OneFlight, Recent
  <2>4. CASE calls = None
    <3>1. task' = [task EXCEPT ![t] = [NoTask EXCEPT !.pc = "read"]]
      BY <1>2, <2>4 DEF Join
    <3>2. task'[t].pc = "read" /\ \A u \in Fetches \ {t} : task'[u] = task[u]
      BY <1>1, <2>1, <3>1 DEF NoTask
    <3>3. OneFlight'
      BY <2>1, <2>4, <3>2 DEF OneFlight
    <3>4. Bodies' /\ Recent'
      BY <1>2, <2>1, <3>2 DEF Bodies, Recent, Join
    <3> QED BY <1>0, <2>2, <3>3, <3>4
  <2> QED BY <2>3, <2>4
<1>3. CASE Serve(c) \/ Miss(c) \/ Answer(c) \/ Disconnect(c)
  <2>1. \E x \in Client : x.pc # "waiting" /\ client' = [client EXCEPT ![c] = x]
    <3>1. Idle \in Client /\ Idle.pc # "waiting"
      BY Resets DEF Idle
    <3>2. /\ [Idle EXCEPT !.pc = "missed", !.stale = row] \in Client
          /\ [Idle EXCEPT !.pc = "missed", !.stale = row].pc # "waiting"
      BY <3>1 DEF Idle, Client, TypeOK
    <3>3. /\ [client[c] EXCEPT !.pc = "joining"] \in Client
          /\ [client[c] EXCEPT !.pc = "joining"].pc # "waiting"
      BY <1>1 DEF Client
    <3>4. CASE Serve(c)
      BY <3>1, <3>2, <3>4 DEF Serve, Answered, GoesOn
    <3>5. CASE Miss(c)
      BY <3>1, <3>3, <3>5 DEF Miss, Answered, GoesOn
    <3>6. CASE Answer(c) \/ Disconnect(c)
      BY <3>1, <3>6 DEF Answer, Disconnect, Answered, GoesOn
    <3> QED BY <1>3, <3>4, <3>5, <3>6
  <2>2. \A d \in Clients : client'[d].pc = "waiting" => client'[d] = client[d]
    BY <1>1, <2>1
  <2>3. UNCHANGED <<upstream, asof, calls, task>>
    BY <1>3 DEF Serve, Miss, Answer, Disconnect
  <2> QED BY <1>0, <2>2, <2>3 DEF Bodies, OneFlight, Registered, Recent
<1> QED BY <1>2, <1>3 DEF Request

\* A fetch that ends is still registered until it has published.
LEMMA EndsInv ==
    ASSUME IInv, NEW t \in Fetches, NEW out \in Outcomes, Ends(t, out),
           task[t].pc # "none", UNCHANGED <<upstream, asof, calls, client>>
    PROVE  Bodies' /\ OneFlight' /\ Registered' /\ Recent'
<1>1. task \in [Fetches -> Task]
  BY DEF IInv, TypeOK, Task
<1>2. task'[t].pc = "publish" /\ \A u \in Fetches \ {t} : task'[u] = task[u]
  BY <1>1 DEF Ends, NoTask
<1> QED BY <1>2 DEF IInv, Bodies, OneFlight, Registered, Recent

\* The steps of a fetch: only the registered one runs, so that what it writes
\* is never older than what another has written.
LEMMA ProgressInv ==
    ASSUME IInv, NEW t \in Fetches, Progress(t)
    PROVE  IInv'
<1> USE Constants
<1>0. TypeOK'
  BY TypeProgress DEF IInv
<1>1. /\ client \in [Clients -> Client] /\ task \in [Fetches -> Task]
      /\ upstream.changes \in Nat /\ asof \in Nat
  BY DEF IInv, TypeOK, Client, Task
<1> SUFFICES Bodies' /\ OneFlight' /\ Registered' /\ Recent'
  BY <1>0 DEF IInv
<1>2. CASE \/ (ReadRow(t) /\ Fresh(row)) \/ AnswersNotFound(t) \/ AnswersRateLimited(t) \/ Fails(t)
           \/ (AnswersBody(t) /\ Ends(t, "blocked")) \/ MaybeEvict(t) \/ RefreshValidators(t)
  <2>1. /\ \E out \in Outcomes : Ends(t, out)
        /\ task[t].pc # "none" /\ UNCHANGED <<upstream, asof, calls, client>>
    BY <1>2 DEF ReadRow, AnswersNotFound, AnswersRateLimited, Fails, AnswersBody, MaybeEvict,
                RefreshValidators, Outcomes
  <2> QED BY <2>1, EndsInv
<1>3. CASE (ReadRow(t) /\ ~Fresh(row)) \/ KeepValidators(t)
  <2>1. /\ task[t].pc # "none" /\ task'[t].pc \in {"ask", "evict"}
        /\ \A u \in Fetches \ {t} : task'[u] = task[u]
        /\ UNCHANGED <<upstream, asof, calls, client>>
    BY <1>1, <1>3 DEF ReadRow, KeepValidators, Task
  <2> QED BY <2>1 DEF IInv, Bodies, OneFlight, Registered, Recent
<1>4. CASE AnswersNotModified(t)
  <2>1. /\ task[t].pc # "none" /\ task'[t].pc = "revalidate" /\ task'[t].asof = upstream.changes
        /\ \A u \in Fetches \ {t} : task'[u] = task[u]
        /\ UNCHANGED <<upstream, asof, calls, client>>
    BY <1>1, <1>4 DEF AnswersNotModified, Task
  <2> QED BY <1>1, <2>1 DEF IInv, Bodies, OneFlight, Registered, Recent
<1>5. CASE AnswersBody(t) /\ ~Ends(t, "blocked")
  <2>1. /\ task[t].pc # "none" /\ task'[t].pc = "store" /\ task'[t].asof = upstream.changes
        /\ task'[t].body = upstream.has /\ upstream.has \in Contents
        /\ \A u \in Fetches \ {t} : task'[u] = task[u]
        /\ UNCHANGED <<upstream, asof, calls, client>>
    BY <1>1, <1>5 DEF AnswersBody, Task, IInv, TypeOK
  <2> QED BY <1>1, <2>1 DEF IInv, Bodies, OneFlight, Registered, Recent
<1>6. CASE StoreArtifact(t) \/ Revalidated(t)
  <2>1. /\ task[t].pc \in {"store", "revalidate"} /\ task'[t].pc \in {"validators", "refresh"}
        /\ asof' = task[t].asof
        /\ \A u \in Fetches \ {t} : task'[u] = task[u]
        /\ UNCHANGED <<upstream, calls, client>>
    BY <1>1, <1>6 DEF StoreArtifact, Revalidated, Task
  <2>2. \A u \in Fetches \ {t} : task[u].pc = "none"
    BY <2>1 DEF IInv, OneFlight
  <2> QED BY <2>1, <2>2 DEF IInv, Bodies, OneFlight, Registered, Recent
<1>7. CASE Publish(t)
  <2>1. /\ calls = t /\ calls' = None
        /\ task'[t].pc = "none" /\ \A u \in Fetches \ {t} : task'[u] = task[u]
        /\ UNCHANGED <<upstream, asof>>
    BY <1>1, <1>7 DEF Publish, NoTask, IInv, OneFlight
  <2>2. \A c \in Clients : client'[c].pc # "waiting"
    BY <1>1, <1>7, <2>1 DEF Publish, Client, IInv, Registered
  <2> QED BY <2>1, <2>2 DEF IInv, Bodies, OneFlight, Registered, Recent
<1> QED BY <1>2, <1>3, <1>4, <1>5, <1>6, <1>7 DEF Progress

\* The rest of the world registers nothing; a restart ends everything at once.
LEMMA WorldInv ==
    ASSUME IInv, RowDeleted \/ Restart \/ UpstreamChanges \/ Tick
    PROVE  IInv'
<1> USE Constants
<1>0. TypeOK'
  BY TypeWorld DEF IInv
<1>1. /\ client \in [Clients -> Client] /\ task \in [Fetches -> Task]
      /\ upstream.changes \in Nat /\ asof \in Nat
  BY DEF IInv, TypeOK, Client, Task
<1>2. CASE RowDeleted
  BY <1>0, <1>2 DEF RowDeleted, IInv, Bodies, OneFlight, Registered, Recent
<1>3. CASE Restart
  BY <1>0, <1>3 DEF Restart, IInv, Bodies, OneFlight, Registered, Recent, NoTask, Idle
<1>4. CASE UpstreamChanges
  <2>1. upstream'.changes = upstream.changes + 1 /\ UNCHANGED <<asof, calls, task, client>>
    BY <1>4 DEF UpstreamChanges
  <2>2. \A t \in Fetches : task[t].asof \in Nat
    BY <1>1 DEF Task
  <2> QED BY <1>0, <1>1, <2>1, <2>2 DEF IInv, Bodies, OneFlight, Registered, Recent
<1>5. CASE Tick
  <2>1. \A t \in Fetches : /\ task'[t].pc = task[t].pc
                           /\ task[t].pc # "none" => /\ task'[t].body = task[t].body
                                                     /\ task'[t].asof = task[t].asof
    BY <1>1, <1>5 DEF Tick, TimePasses, NoTask, Task
  <2>2. \A c \in Clients : client'[c].pc = client[c].pc /\ client'[c].fetch = client[c].fetch
    BY <1>1, <1>5 DEF Tick, TimePasses, Client
  <2>3. upstream'.changes = upstream.changes /\ UNCHANGED <<asof, calls>>
    BY <1>5 DEF Tick, TimePasses, IInv, TypeOK
  <2>4. Bodies' /\ OneFlight'
    BY <2>1, <2>3 DEF IInv, Bodies, OneFlight
  <2>5. Registered'
    BY <2>2, <2>3 DEF IInv, Registered
  <2>6. Recent'
    BY <2>1, <2>3 DEF IInv, Recent
  <2> QED BY <1>0, <2>4, <2>5, <2>6 DEF IInv
<1> QED BY <1>2, <1>3, <1>4, <1>5

-----------------------------------------------------------------------------
(* The theorems.                                                            *)

\* The invariant holds at the start ...
LEMMA InitInv == Init => IInv
<1> SUFFICES ASSUME Init PROVE IInv
  OBVIOUS
<1> USE Constants, Resets
<1>1. 0 \in Lags /\ Window + FetchBound + 1 \in Lags
  BY DEF Lags
<1>2. upstream \in [has: Contents \cup {None}, changes: 0..MaxChanges, lag: [Contents -> Lags]]
  BY <1>1 DEF Init
<1>3. task \in [Fetches -> Task] /\ client \in [Clients -> Client]
  BY DEF Init
<1>4. TypeOK
  BY <1>2, <1>3 DEF Init, TypeOK, Task, Client
<1> QED BY <1>4 DEF Init, IInv, Bodies, OneFlight, Registered, Recent, NoTask, Idle

\* ... and every step keeps it.
LEMMA NextInv == IInv /\ [Next]_vars => IInv'
<1> SUFFICES ASSUME IInv, [Next]_vars PROVE IInv'
  OBVIOUS
<1>1. CASE \E c \in Clients : Request(c) \/ Disconnect(c)
  BY <1>1, RequestInv
<1>2. CASE \E t \in Fetches : Progress(t)
  BY <1>2, ProgressInv
<1>3. CASE RowDeleted \/ Restart \/ UpstreamChanges \/ Tick
  BY <1>3, WorldInv
<1>4. CASE UNCHANGED vars
  BY <1>4 DEF vars, IInv, TypeOK, Bodies, OneFlight, Registered, Recent
<1> QED BY <1>1, <1>2, <1>3, <1>4 DEF Next

\* Every variable of the cache keeps its type (ProxyCache).
THEOREM TypeCorrect == Spec => []TypeOK
<1>1. IInv => TypeOK
  BY DEF IInv
<1> QED BY <1>1, InitInv, NextInv, PTL DEF Spec

\* Whoever waits, waits for a fetch that is still going to publish: whichever
\* clients leave, whichever fetches fail (do_call, Publish::drop).
THEOREM NoVainWait == Spec => []NobodyWaitsInVain
<1>1. IInv => NobodyWaitsInVain
  <2> SUFFICES ASSUME IInv PROVE NobodyWaitsInVain
    OBVIOUS
  <2>1. calls # None => calls \in Fetches /\ task[calls].pc # "none"
    BY DEF IInv, TypeOK, OneFlight
  <2> QED BY <2>1 DEF IInv, Registered, NobodyWaitsInVain
<1> QED BY <1>1, InitInv, NextInv, PTL DEF Spec

\* The row never goes back to what the upstream had before, however many
\* clients ask and however their fetches end (store_artifact, mark_revalidated).
THEOREM RowNeverGoesBack == Spec => NoRollback
<1>1. IInv /\ [Next]_vars => [row # None /\ row' # None => asof' >= asof]_vars
  <2> SUFFICES ASSUME IInv, Next PROVE asof' >= asof
    BY DEF vars
  <2>1. asof \in Nat
    BY Constants DEF IInv, TypeOK
  <2>2. CASE \E t \in Fetches : StoreArtifact(t) \/ Revalidated(t)
    BY <2>1, <2>2 DEF StoreArtifact, Revalidated, IInv, Recent
  <2>3. CASE ~\E t \in Fetches : StoreArtifact(t) \/ Revalidated(t)
    <3>1. asof' = asof
      BY <2>3 DEF Next, Request, Progress, Serve, Miss, Join, Answer, Disconnect, ReadRow,
                  AnswersNotFound, AnswersRateLimited, Fails, AnswersNotModified, AnswersBody,
                  KeepValidators, MaybeEvict, RefreshValidators, Publish, RowDeleted, Restart,
                  UpstreamChanges, Tick, TimePasses
    <3> QED BY <2>1, <3>1
  <2> QED BY <2>2, <2>3
<1> QED BY <1>1, InitInv, NextInv, PTL DEF Spec, NoRollback

-----------------------------------------------------------------------------
(* How old what is answered can be.                                         *)

\* A copy that was stored a ticks ago was the upstream's at most one fetch
\* before that; of one that is past every window nothing is said.
Aging(r) == r # None /\ r.age < Window => upstream.lag[r.blob] <= r.age + FetchBound

\* A row that may be answered with as it is.
Servable(r) == r # None => upstream.lag[r.blob] <= TTL + FetchBound

\* What the upstream has now, it has.
Current == upstream.has # None => upstream.lag[upstream.has] = 0

\* A body that is being streamed was the upstream's since the fetch began.
Streaming == \A t \in Fetches :
    task[t].pc = "store" => upstream.lag[task[t].body] <= task[t].age

\* A condition that is sent, or was confirmed, is about the row that is there;
\* once it was confirmed, the upstream had it just now.
Conditions == \A t \in Fetches :
    /\ task[t].pc \in {"ask", "revalidate"} /\ row # None /\ task[t].conditional # None
           => row.blob = task[t].conditional
    /\ task[t].pc = "revalidate" => /\ task[t].conditional \in Contents
                                    /\ upstream.lag[task[t].conditional] = 0

\* From the write of the row to the answer no time passes.
Written == \A t \in Fetches :
    \/ task[t].pc \in {"validators", "evict", "refresh"}
    \/ task[t].pc = "publish" /\ task[t].out = "stored"
    => Servable(row)
Told == \A c \in Clients : client[c].pc = "outcome" /\ client[c].out = "stored" => Servable(row)

Copies == Aging(row) /\ \A c \in Clients : Aging(client[c].stale)

AgeInv == Current /\ Streaming /\ Conditions /\ Written /\ Told /\ Copies

\* The answers themselves.
AnswersBounded ==
    /\ answer # None => (answer.kind = "fresh" => answer.lag < TTL + FetchBound + 1)
    /\ StaleIsBounded

\* Types, as far as ages need them.
LEMMA AgeTypes ==
    ASSUME TypeOK
    PROVE  /\ upstream.lag \in [Contents -> Nat]
           /\ \A d \in Contents : upstream.lag[d] \in Nat
           /\ row # None => row.blob \in Contents /\ row.age \in Nat
           /\ \A c \in Clients : client[c].stale # None
                  => client[c].stale.blob \in Contents /\ client[c].stale.age \in Nat
           /\ \A t \in Fetches : task[t].age \in 0..FetchBound
           /\ task \in [Fetches -> Task] /\ client \in [Clients -> Client]
<1>1. upstream.lag \in [Contents -> Lags] /\ Lags \subseteq Nat
  BY Constants DEF TypeOK, Lags
<1>2. \A r \in Rows : r # None => r.blob \in Contents /\ r.age \in Nat
  BY Constants DEF Rows
<1>3. row \in Rows /\ task \in [Fetches -> Task] /\ client \in [Clients -> Client]
  BY DEF TypeOK, Task, Client
<1>4. \A c \in Clients : client[c].stale \in Rows
  BY <1>3 DEF Client
<1>5. \A t \in Fetches : task[t].age \in 0..FetchBound
  BY <1>3 DEF Task
<1> QED BY <1>1, <1>2, <1>3, <1>4, <1>5

\* Requests read copies and answer with them.
LEMMA RequestAges ==
    ASSUME IInv, AgeInv, NEW c \in Clients, Request(c) \/ Disconnect(c)
    PROVE  AgeInv' /\ AnswersBounded'
<1> USE Constants
<1>0. TypeOK
  BY DEF IInv
<1>1. /\ task \in [Fetches -> Task] /\ client \in [Clients -> Client]
      /\ UNCHANGED <<upstream, row>>
  BY <1>0, AgeTypes DEF Request, Serve, Miss, Join, Answer, Disconnect
<1>2. \A k : Status(k).kind = k
  BY DEF Status
<1>3. /\ Idle.pc = "idle" /\ Idle.stale = None
      /\ [Idle EXCEPT !.pc = "missed", !.stale = row].pc = "missed"
      /\ [Idle EXCEPT !.pc = "missed", !.stale = row].stale = row
  BY DEF Idle
<1>4. \A k \in {"retry", "error"} :
         LET a == StaleOr(client[c].stale, k)
         IN  a.kind # "fresh" /\ (a.kind = "stale" => a.lag < Window + FetchBound + 1)
  <2> SUFFICES ASSUME NEW k \in {"retry", "error"}
               PROVE  LET a == StaleOr(client[c].stale, k)
                      IN  a.kind # "fresh" /\ (a.kind = "stale" => a.lag < Window + FetchBound + 1)
    OBVIOUS
  <2>1. CASE WithinStaleWindow(client[c].stale)
    <3>1. /\ client[c].stale # None /\ client[c].stale.age < Window
          /\ client[c].stale.blob \in Contents /\ client[c].stale.age \in Nat
      BY <1>0, <2>1, AgeTypes DEF WithinStaleWindow
    <3>2. /\ upstream.lag[client[c].stale.blob] <= client[c].stale.age + FetchBound
          /\ upstream.lag[client[c].stale.blob] \in Nat
      BY <1>0, <3>1, AgeTypes DEF AgeInv, Copies, Aging
    <3>3. StaleOr(client[c].stale, k) = [kind |-> "stale", lag |-> upstream.lag[client[c].stale.blob]]
      BY <2>1 DEF StaleOr, Body
    <3>4. upstream.lag[client[c].stale.blob] < Window + FetchBound + 1
      BY <3>1, <3>2
    <3> QED BY <3>3, <3>4
  <2>2. CASE ~WithinStaleWindow(client[c].stale)
    BY <1>2, <2>2 DEF StaleOr
  <2> QED BY <2>1, <2>2
<1>5. CASE Serve(c)
  <2>1. UNCHANGED task
    BY <1>5 DEF Serve
  <2>2. Current' /\ Streaming' /\ Conditions' /\ Written'
    BY <1>1, <2>1 DEF AgeInv, Current, Streaming, Conditions, Written, Servable
  <2>3. \A d \in Clients : client'[d] = client[d] \/ (client'[d].pc # "outcome" /\ client'[d].stale \in {None, row})
    BY <1>1, <1>3, <1>5 DEF Serve, Answered, GoesOn
  <2>4. Told' /\ Copies'
    BY <1>1, <2>3 DEF AgeInv, Told, Copies, Servable, Aging
  <2>5. CASE Fresh(row)
    <3>1. row # None /\ row.age < TTL /\ row.age \in Nat /\ row.blob \in Contents
      BY <1>0, <2>5, AgeTypes DEF Fresh
    <3>2. upstream.lag[row.blob] <= row.age + FetchBound /\ upstream.lag[row.blob] \in Nat
      BY <1>0, <3>1, AgeTypes DEF AgeInv, Copies, Aging, Window
    <3>3. answer' = [kind |-> "fresh", lag |-> upstream.lag[row.blob]]
      BY <1>5, <2>5 DEF Serve, Answered, Body
    <3>4. upstream.lag[row.blob] < TTL + FetchBound + 1
      BY <3>1, <3>2
    <3>5. answer'.kind = "fresh" /\ answer'.lag < TTL + FetchBound + 1
      BY <3>3, <3>4
    <3> QED BY <2>2, <2>4, <3>5 DEF AgeInv, AnswersBounded, StaleIsBounded
  <2>6. CASE ~Fresh(row)
    BY <1>5, <2>2, <2>4, <2>6 DEF Serve, GoesOn, AgeInv, AnswersBounded, StaleIsBounded
  <2> QED BY <2>5, <2>6
<1>6. CASE Miss(c)
  <2>1. UNCHANGED task
    BY <1>6 DEF Miss
  <2>2. Current' /\ Streaming' /\ Conditions' /\ Written'
    BY <1>1, <2>1 DEF AgeInv, Current, Streaming, Conditions, Written, Servable
  <2>3. \A d \in Clients : client'[d] = client[d]
            \/ (client'[d].pc # "outcome" /\ client'[d].stale \in {None, client[d].stale})
    BY <1>1, <1>6 DEF Miss, Answered, GoesOn, Idle, Client
  <2>4. Told' /\ Copies'
    BY <1>1, <2>3 DEF AgeInv, Told, Copies, Servable, Aging
  <2>5. answer' \in {None, Status("notfound"), StaleOr(client[c].stale, "retry")}
    BY <1>6 DEF Miss, Answered, GoesOn
  <2> QED BY <1>2, <1>4, <2>2, <2>4, <2>5 DEF AgeInv, AnswersBounded, StaleIsBounded
<1>7. CASE Join(c)
  <2> DEFINE t == IF calls # None THEN calls ELSE CHOOSE f \in Fetches : task[f].pc = "none"
  <2>1. \A d \in Clients : client'[d] = client[d]
            \/ (client'[d].pc # "outcome" /\ client'[d].stale = client[d].stale)
    BY <1>1, <1>7 DEF Join, GoesOn, Client
  <2>2. \A u \in Fetches : task'[u] = task[u] \/ task'[u].pc = "read"
    <3>1. [NoTask EXCEPT !.pc = "read"].pc = "read"
      BY DEF NoTask
    <3>2. task' = task \/ task' = [task EXCEPT ![t] = [NoTask EXCEPT !.pc = "read"]]
      BY <1>7 DEF Join
    <3> QED BY <1>1, <3>1, <3>2
  <2>3. Current' /\ Streaming' /\ Conditions' /\ Written'
    BY <1>1, <2>2 DEF AgeInv, Current, Streaming, Conditions, Written, Servable
  <2>4. Told' /\ Copies'
    BY <1>1, <2>1 DEF AgeInv, Told, Copies, Servable, Aging
  <2>5. answer' = None
    BY <1>7 DEF Join, GoesOn
  <2> QED BY <2>3, <2>4, <2>5 DEF AgeInv, AnswersBounded, StaleIsBounded
<1>8. CASE Answer(c) \/ Disconnect(c)
  <2>1. UNCHANGED task
    BY <1>8 DEF Answer, Disconnect
  <2>2. Current' /\ Streaming' /\ Conditions' /\ Written'
    BY <1>1, <2>1 DEF AgeInv, Current, Streaming, Conditions, Written, Servable
  <2>3. \A d \in Clients : client'[d] = client[d] \/ (client'[d].pc = "idle" /\ client'[d].stale = None)
    BY <1>1, <1>8 DEF Answer, Disconnect, Answered, GoesOn, Idle
  <2>4. Told' /\ Copies'
    BY <1>1, <2>3 DEF AgeInv, Told, Copies, Servable, Aging
  <2>5. CASE Disconnect(c)
    BY <2>2, <2>4, <2>5 DEF Disconnect, GoesOn, AgeInv, AnswersBounded, StaleIsBounded
  <2>6. CASE Answer(c)
    <3>1. client[c].out \in Outcomes
      BY <1>1 DEF Client
    <3>2. CASE client[c].out \in {"error", "retry"}
      <4>1. answer' = StaleOr(client[c].stale, client[c].out)
        BY <2>6, <3>2 DEF Answer, Answered
      <4> QED BY <1>4, <2>2, <2>4, <3>2, <4>1 DEF AgeInv, AnswersBounded, StaleIsBounded
    <3>3. CASE client[c].out = "stored" /\ row # None
      <4>1. answer' = [kind |-> "fresh", lag |-> upstream.lag[row.blob]]
        BY <2>6, <3>3 DEF Answer, Answered, Body
      <4>2. upstream.lag[row.blob] <= TTL + FetchBound /\ upstream.lag[row.blob] \in Nat
        BY <1>0, <2>6, <3>3, AgeTypes DEF Answer, AgeInv, Told, Servable
      <4>3. answer'.kind = "fresh" /\ answer'.lag < TTL + FetchBound + 1
        BY <4>1, <4>2
      <4> QED BY <2>2, <2>4, <4>3 DEF AgeInv, AnswersBounded, StaleIsBounded
    <3>4. CASE client[c].out \in {"notfound", "blocked"} \/ (client[c].out = "stored" /\ row = None)
      <4>1. answer' \in {Status("notfound"), Status("blocked"), Status("error")}
        <5>1. CASE client[c].out = "notfound"
          BY <2>6, <5>1 DEF Answer, Answered
        <5>2. CASE client[c].out = "blocked"
          BY <2>6, <5>2 DEF Answer, Answered
        <5>3. CASE client[c].out = "stored" /\ row = None
          BY <2>6, <5>3 DEF Answer, Answered
        <5> QED BY <3>4, <5>1, <5>2, <5>3
      <4> QED BY <1>2, <2>2, <2>4, <4>1 DEF AgeInv, AnswersBounded, StaleIsBounded
    <3>5. \/ client[c].out \in {"error", "retry"}
          \/ client[c].out = "stored" /\ row # None
          \/ client[c].out \in {"notfound", "blocked"} \/ (client[c].out = "stored" /\ row = None)
      BY <3>1 DEF Outcomes
    <3> QED BY <3>2, <3>3, <3>4, <3>5
  <2> QED BY <1>8, <2>5, <2>6
<1> QED BY <1>5, <1>6, <1>7, <1>8 DEF Request

\* A fetch that ends leaves the row, or the lack of one, and says that it is
\* stored only when it may be answered with.
LEMMA EndsAges ==
    ASSUME IInv, AgeInv, NEW t \in Fetches, NEW out \in Outcomes, Ends(t, out),
           UNCHANGED <<upstream, client>>, row' \in {row, None},
           out = "stored" => Servable(row)
    PROVE  AgeInv'
<1>1. task \in [Fetches -> Task]
  BY AgeTypes DEF IInv
<1>2. /\ task'[t].pc = "publish" /\ task'[t].out = out
      /\ \A u \in Fetches \ {t} : task'[u] = task[u]
  BY <1>1 DEF Ends, NoTask
<1>3. Servable(row) => Servable(row)'
  BY DEF Servable
<1>4. Current' /\ Streaming' /\ Conditions'
  BY <1>2 DEF AgeInv, Current, Streaming, Conditions
<1>5. Written'
  BY <1>2, <1>3 DEF AgeInv, Written
<1>6. Told' /\ Copies'
  BY <1>3 DEF AgeInv, Told, Copies, Aging
<1> QED BY <1>4, <1>5, <1>6 DEF AgeInv

\* A row that is fresh may be answered with: a metadata document is younger
\* than its TTL then.
LEMMA FreshServable ==
    ASSUME IInv, AgeInv, Fresh(row)
    PROVE  Servable(row)
<1>1. row # None /\ row.age < TTL /\ row.age \in Nat /\ row.blob \in Contents
  BY AgeTypes DEF IInv, Fresh
<1>2. upstream.lag[row.blob] <= row.age + FetchBound /\ upstream.lag[row.blob] \in Nat
  BY <1>1, AgeTypes, Constants DEF IInv, AgeInv, Copies, Aging, Window
<1> QED BY <1>1, <1>2, Constants DEF Servable

\* What a fetch writes, the upstream had while the fetch ran.
LEMMA ProgressAges ==
    ASSUME IInv, AgeInv, NEW t \in Fetches, Progress(t)
    PROVE  AgeInv' /\ AnswersBounded'
<1> USE Constants
<1>0. TypeOK
  BY DEF IInv
<1>1. /\ task \in [Fetches -> Task] /\ client \in [Clients -> Client] /\ task[t] \in Task
      /\ upstream' = upstream /\ answer' = None
  BY <1>0, AgeTypes DEF Progress, ReadRow, AnswersNotFound, AnswersRateLimited, Fails,
       AnswersNotModified, AnswersBody, StoreArtifact, KeepValidators, MaybeEvict, Revalidated,
       RefreshValidators, Publish
<1>2. AnswersBounded'
  BY <1>1 DEF AnswersBounded, StaleIsBounded
<1> SUFFICES AgeInv'
  BY <1>2
<1>3. CASE \/ AnswersNotFound(t) \/ AnswersRateLimited(t) \/ Fails(t)
           \/ (AnswersBody(t) /\ Ends(t, "blocked"))
  <2>1. /\ \E out \in Outcomes \ {"stored"} : Ends(t, out)
        /\ UNCHANGED <<upstream, client, row>>
    BY <1>3 DEF AnswersNotFound, AnswersRateLimited, Fails, AnswersBody, Outcomes
  <2> QED BY <2>1, EndsAges
<1>4. CASE (ReadRow(t) /\ Fresh(row)) \/ MaybeEvict(t) \/ RefreshValidators(t)
  <2>1. Ends(t, "stored") /\ UNCHANGED <<upstream, client>> /\ row' \in {row, None}
    BY <1>4 DEF ReadRow, MaybeEvict, RefreshValidators
  <2>2. Servable(row)
    BY <1>4, FreshServable DEF MaybeEvict, RefreshValidators, AgeInv, Written
  <2>3. "stored" \in Outcomes
    BY DEF Outcomes
  <2> QED BY <2>1, <2>2, <2>3, EndsAges
<1>5. CASE ReadRow(t) /\ ~Fresh(row)
  <2>1. /\ task'[t].pc = "ask" /\ task'[t].conditional = Conditional(row)
        /\ \A u \in Fetches \ {t} : task'[u] = task[u]
        /\ UNCHANGED <<row, client>>
    BY <1>1, <1>5 DEF ReadRow, Task
  <2>2. row # None /\ Conditional(row) # None => row.blob = Conditional(row)
    BY DEF Conditional
  <2>3. Conditions'
    BY <1>1, <2>1, <2>2 DEF AgeInv, Conditions
  <2> QED BY <1>1, <2>1, <2>3 DEF AgeInv, Current, Streaming, Written, Told, Copies, Aging, Servable
<1>6. CASE AnswersNotModified(t)
  <2>1. /\ task[t].pc = "ask" /\ task'[t].pc = "revalidate"
        /\ task'[t].conditional = task[t].conditional
        /\ task[t].conditional # None /\ task[t].conditional = upstream.has
        /\ \A u \in Fetches \ {t} : task'[u] = task[u]
        /\ UNCHANGED <<row, client>>
    BY <1>1, <1>6 DEF AnswersNotModified, Task
  <2>2. task[t].conditional \in Contents /\ upstream.lag[task[t].conditional] = 0
    BY <1>1, <2>1 DEF AgeInv, Current, Task
  <2>3. Conditions'
    BY <1>1, <2>1, <2>2 DEF AgeInv, Conditions
  <2> QED BY <1>1, <2>1, <2>3 DEF AgeInv, Current, Streaming, Written, Told, Copies, Aging, Servable
<1>7. CASE AnswersBody(t) /\ ~Ends(t, "blocked")
  <2>1. /\ task'[t].pc = "store" /\ task'[t].body = upstream.has /\ upstream.has # None
        /\ task'[t].age = task[t].age
        /\ \A u \in Fetches \ {t} : task'[u] = task[u]
        /\ UNCHANGED <<row, client>>
    BY <1>1, <1>7 DEF AnswersBody, Task
  <2>2. upstream.lag[upstream.has] = 0 /\ task[t].age \in Nat
    BY <1>0, <2>1, AgeTypes DEF AgeInv, Current
  <2>3. Streaming'
    BY <1>1, <2>1, <2>2 DEF AgeInv, Streaming
  <2> QED BY <1>1, <2>1, <2>3 DEF AgeInv, Current, Conditions, Written, Told, Copies, Aging, Servable
<1>8. CASE StoreArtifact(t)
  <2>1. /\ task[t].pc = "store" /\ task'[t].pc = "validators"
        /\ row' = [blob |-> task[t].body, age |-> 0]
        /\ \A u \in Fetches \ {t} : task'[u] = task[u]
        /\ UNCHANGED client
    BY <1>1, <1>8 DEF StoreArtifact, Task
  <2>2. \A u \in Fetches \ {t} : task'[u].pc = "none"
    BY <2>1 DEF IInv, OneFlight
  <2>3. /\ task[t].body \in Contents /\ upstream.lag[task[t].body] \in Nat
        /\ upstream.lag[task[t].body] <= FetchBound
    <3>1. task[t].age \in 0..FetchBound /\ task[t].body \in Contents
      BY <1>0, <2>1, AgeTypes DEF IInv, Bodies
    <3>2. upstream.lag[task[t].body] <= task[t].age /\ upstream.lag[task[t].body] \in Nat
      BY <1>0, <2>1, <3>1, AgeTypes DEF AgeInv, Streaming
    <3> QED BY <3>1, <3>2
  <2>4. row'.blob = task[t].body /\ row'.age = 0
    BY <2>1
  <2>5. Servable(row)' /\ Aging(row)'
    BY <1>1, <2>3, <2>4 DEF Servable, Aging
  <2>6. Current' /\ Streaming' /\ Conditions'
    BY <1>1, <2>1, <2>2 DEF AgeInv, Current, Streaming, Conditions
  <2>7. Written' /\ Told'
    BY <2>5 DEF Written, Told
  <2>8. Copies'
    BY <1>1, <2>1, <2>5 DEF AgeInv, Copies, Aging
  <2> QED BY <2>6, <2>7, <2>8 DEF AgeInv
<1>9. CASE KeepValidators(t)
  <2>1. /\ task[t].pc = "validators" /\ task'[t].pc = "evict"
        /\ \A u \in Fetches \ {t} : task'[u] = task[u]
        /\ UNCHANGED <<row, client>>
    BY <1>1, <1>9 DEF KeepValidators, Task
  <2>2. Current' /\ Streaming' /\ Conditions' /\ Told' /\ Copies'
    BY <1>1, <2>1 DEF AgeInv, Current, Streaming, Conditions, Told, Copies, Aging, Servable
  <2>3. Written'
    BY <1>1, <2>1 DEF AgeInv, Written, Servable
  <2> QED BY <2>2, <2>3 DEF AgeInv
<1>10. CASE Revalidated(t)
  <2>1. /\ task[t].pc = "revalidate" /\ task'[t].pc = "refresh"
        /\ row' = IF row = None THEN None ELSE [row EXCEPT !.age = 0]
        /\ \A u \in Fetches \ {t} : task'[u] = task[u]
        /\ UNCHANGED client
    BY <1>1, <1>10 DEF Revalidated, Task
  <2>2. \A u \in Fetches \ {t} : task'[u].pc = "none"
    BY <2>1 DEF IInv, OneFlight
  <2>3. row' # None => /\ row # None /\ row'.blob = row.blob /\ row'.age = 0
    BY <1>0, <2>1 DEF TypeOK, Rows
  <2>4. row # None => upstream.lag[row.blob] = 0
    BY <2>1 DEF AgeInv, Conditions
  <2>5. Servable(row)' /\ Aging(row)'
    BY <1>1, <2>3, <2>4 DEF Servable, Aging
  <2>6. Current' /\ Streaming' /\ Conditions'
    BY <1>1, <2>1, <2>2 DEF AgeInv, Current, Streaming, Conditions
  <2>7. Written' /\ Told'
    BY <2>5 DEF Written, Told
  <2>8. Copies'
    BY <1>1, <2>1, <2>5 DEF AgeInv, Copies, Aging
  <2> QED BY <2>6, <2>7, <2>8 DEF AgeInv
<1>11. CASE Publish(t)
  <2>1. /\ task[t].pc = "publish" /\ task'[t].pc = "none"
        /\ \A u \in Fetches \ {t} : task'[u] = task[u]
        /\ UNCHANGED row
    BY <1>1, <1>11 DEF Publish, NoTask
  <2>2. \A c \in Clients :
           /\ client'[c].stale = client[c].stale
           /\ client'[c] = client[c] \/ client'[c].out = task[t].out
    BY <1>1, <1>11 DEF Publish, Client
  <2>3. Current' /\ Streaming' /\ Conditions' /\ Written'
    BY <1>1, <2>1 DEF AgeInv, Current, Streaming, Conditions, Written, Servable
  <2>4. Told' /\ Copies'
    BY <1>1, <2>1, <2>2 DEF AgeInv, Written, Told, Copies, Aging, Servable
  <2> QED BY <2>3, <2>4 DEF AgeInv
<1> QED BY <1>3, <1>4, <1>5, <1>6, <1>7, <1>8, <1>9, <1>10, <1>11 DEF Progress

\* A tick makes a copy at most one tick older.
LEMMA OlderAging ==
    ASSUME TypeOK, TimePasses, NEW r \in Rows, Aging(r)
    PROVE  LET o == Older(r)
           IN  o # None /\ o.age < Window => upstream'.lag[o.blob] <= o.age + FetchBound
<1> USE Constants
<1> SUFFICES ASSUME Older(r) # None, Older(r).age < Window
             PROVE  upstream'.lag[Older(r).blob] <= Older(r).age + FetchBound
  OBVIOUS
<1>1. r # None
  BY DEF Older
<1>2. r.blob \in Contents /\ r.age \in 0..Window
  BY <1>1 DEF Rows
<1>3. Older(r).blob = r.blob /\ Older(r).age = Up(r.age, Window)
  BY <1>1 DEF Older, Rows
<1>4. r.age < Window /\ Older(r).age = r.age + 1
  BY <1>2, <1>3 DEF Up
<1>5. upstream.lag[r.blob] \in Nat /\ upstream.lag[r.blob] <= r.age + FetchBound
  BY <1>1, <1>2, <1>4, AgeTypes DEF Aging
<1>6. upstream'.lag[r.blob] = IF r.blob = upstream.has THEN 0
                              ELSE Up(upstream.lag[r.blob], Window + FetchBound + 1)
  BY <1>2 DEF TimePasses, TypeOK
<1>7. upstream'.lag[r.blob] <= upstream.lag[r.blob] + 1 /\ upstream'.lag[r.blob] \in Nat
  BY <1>5, <1>6 DEF Up
<1> QED BY <1>2, <1>3, <1>4, <1>5, <1>7

\* Time passes for the upstream and the copies alike, and not between a write
\* and the answers it gives rise to.
LEMMA TickAges ==
    ASSUME IInv, AgeInv, Tick
    PROVE  AgeInv'
<1> USE Constants
<1>0. TypeOK /\ TimePasses
  BY DEF IInv, Tick
<1>1. /\ task \in [Fetches -> Task] /\ client \in [Clients -> Client] /\ row \in Rows
      /\ \A c \in Clients : client[c].stale \in Rows
  BY <1>0, AgeTypes DEF TypeOK, Client
<1>2. /\ upstream'.has = upstream.has
      /\ \A d \in Contents : upstream'.lag[d] = IF d = upstream.has THEN 0
                                 ELSE Up(upstream.lag[d], Window + FetchBound + 1)
  BY <1>0 DEF TimePasses, TypeOK
<1>3. \A d \in Contents : /\ upstream.lag[d] \in Nat /\ upstream'.lag[d] \in Nat
                          /\ upstream'.lag[d] <= upstream.lag[d] + 1
  BY <1>0, <1>2, AgeTypes DEF Up
<1>4. \A t \in Fetches : /\ task[t].pc \in {"none", "ask", "store"}
                         /\ task'[t].pc = task[t].pc
                         /\ task[t].pc # "none" => /\ task'[t].body = task[t].body
                                                   /\ task'[t].conditional = task[t].conditional
                                                   /\ task'[t].age = task[t].age + 1
  BY <1>0, <1>1 DEF Tick, TimePasses, NoTask, Task
<1>5. \A c \in Clients : /\ client'[c].pc \in {"idle", "waiting"}
                         /\ client'[c].stale = Older(client[c].stale)
  BY <1>0, <1>1 DEF Tick, TimePasses, Client
<1>6. Current'
  BY <1>0, <1>2 DEF Current, TypeOK
<1>7. Streaming'
  <2> SUFFICES ASSUME NEW t \in Fetches, task'[t].pc = "store"
               PROVE  upstream'.lag[task'[t].body] <= task'[t].age
    BY DEF Streaming
  <2>1. task[t].pc = "store" /\ task[t].body \in Contents /\ task[t].age \in Nat
    BY <1>0, <1>4, AgeTypes DEF IInv, Bodies
  <2>2. upstream.lag[task[t].body] <= task[t].age
    BY <2>1 DEF AgeInv, Streaming
  <2> QED BY <1>3, <1>4, <2>1, <2>2
<1>8. Conditions'
  <2>1. row' # None => row # None /\ row'.blob = row.blob
    BY <1>0, <1>1 DEF TimePasses, Older, Rows
  <2> QED BY <1>4, <2>1 DEF AgeInv, Conditions
<1>9. Written' /\ Told'
  BY <1>4, <1>5 DEF Written, Told
<1>10. Copies'
  <2>1. Aging(row)'
    BY <1>0, <1>1, OlderAging DEF TimePasses, AgeInv, Copies, Aging
  <2>2. \A c \in Clients : Aging(client[c].stale)'
    BY <1>0, <1>1, <1>5, OlderAging DEF AgeInv, Copies, Aging
  <2> QED BY <2>1, <2>2 DEF Copies
<1> QED BY <1>6, <1>7, <1>8, <1>9, <1>10 DEF AgeInv

\* What the upstream publishes becomes younger, a restart forgets what is not
\* in the database, and a row that is gone cannot be too old.
LEMMA WorldAges ==
    ASSUME IInv, AgeInv, RowDeleted \/ Restart \/ UpstreamChanges \/ Tick
    PROVE  AgeInv' /\ AnswersBounded'
<1> USE Constants
<1>0. TypeOK
  BY DEF IInv
<1>1. answer' = None
  BY DEF RowDeleted, Restart, UpstreamChanges, Tick, TimePasses
<1>2. AnswersBounded'
  BY <1>1 DEF AnswersBounded, StaleIsBounded
<1>3. CASE RowDeleted
  <2>1. row' = None /\ UNCHANGED <<upstream, task, client>>
    BY <1>3 DEF RowDeleted
  <2> QED BY <1>2, <2>1 DEF AgeInv, Current, Streaming, Conditions, Written, Told, Copies,
                            Aging, Servable
<1>4. CASE Restart
  <2>1. /\ \A t \in Fetches : task'[t].pc = "none"
        /\ \A c \in Clients : client'[c].pc = "idle" /\ client'[c].stale = None
        /\ UNCHANGED <<upstream, row>>
    BY <1>4 DEF Restart, NoTask, Idle
  <2> QED BY <1>2, <2>1 DEF AgeInv, Current, Streaming, Conditions, Written, Told, Copies,
                            Aging, Servable
<1>5. CASE UpstreamChanges
  <2>1. /\ \A d \in Contents : upstream'.lag[d] \in {0, upstream.lag[d]}
        /\ upstream'.has # None => /\ upstream'.has \in Contents
                                   /\ upstream'.lag[upstream'.has] = 0
        /\ UNCHANGED <<row, task, client>>
    BY <1>5 DEF UpstreamChanges
  <2>2. \A d \in Contents : upstream.lag[d] \in Nat /\ upstream'.lag[d] \in Nat
                            /\ upstream'.lag[d] <= upstream.lag[d]
    BY <1>0, <2>1, AgeTypes
  <2>3. Current'
    BY <2>1 DEF Current
  <2>4. Streaming'
    BY <1>0, <2>1, <2>2, AgeTypes DEF IInv, Bodies, AgeInv, Streaming
  <2>5. Conditions'
    BY <1>0, <2>1, <2>2 DEF AgeInv, Conditions
  <2>6. Servable(row) => Servable(row)'
    BY <1>0, <2>1, <2>2, AgeTypes DEF Servable
  <2>7. Written' /\ Told'
    BY <2>1, <2>6 DEF AgeInv, Written, Told
  <2>8. Copies'
    BY <1>0, <2>1, <2>2, AgeTypes DEF AgeInv, Copies, Aging
  <2> QED BY <1>2, <2>3, <2>4, <2>5, <2>7, <2>8 DEF AgeInv
<1>6. CASE Tick
  BY <1>2, <1>6, TickAges
<1> QED BY <1>3, <1>4, <1>5, <1>6

\* Both invariants, and what is answered.
AgedInv == IInv /\ AgeInv /\ AnswersBounded

\* They hold at the start: there is no row and nobody has been answered ...
LEMMA InitAges == Init => AgedInv
<1> SUFFICES ASSUME Init PROVE AgedInv
  OBVIOUS
<1>1. IInv
  BY InitInv
<1>2. Current
  BY Constants DEF Init, Current
<1>3. /\ \A t \in Fetches : task[t].pc = "none"
      /\ \A c \in Clients : client[c].pc = "idle" /\ client[c].stale = None
      /\ row = None /\ answer = None
  BY DEF Init, NoTask, Idle
<1> QED BY <1>1, <1>2, <1>3 DEF AgedInv, AgeInv, Streaming, Conditions, Written, Told, Copies,
                                Aging, AnswersBounded, StaleIsBounded

\* ... and every step keeps them.
LEMMA NextAges == AgedInv /\ [Next]_vars => AgedInv'
<1> SUFFICES ASSUME AgedInv, [Next]_vars PROVE AgedInv'
  OBVIOUS
<1>0. IInv' /\ IInv /\ AgeInv
  BY NextInv DEF AgedInv
<1>1. CASE \E c \in Clients : Request(c) \/ Disconnect(c)
  BY <1>0, <1>1, RequestAges DEF AgedInv
<1>2. CASE \E t \in Fetches : Progress(t)
  BY <1>0, <1>2, ProgressAges DEF AgedInv
<1>3. CASE RowDeleted \/ Restart \/ UpstreamChanges \/ Tick
  BY <1>0, <1>3, WorldAges DEF AgedInv
<1>4. CASE UNCHANGED vars
  BY <1>0, <1>4 DEF vars, AgedInv, AgeInv, Current, Streaming, Conditions, Written, Told, Copies,
                    Aging, Servable, AnswersBounded, StaleIsBounded
<1> QED BY <1>1, <1>2, <1>3, <1>4 DEF Next

\* What is answered without the stale mark was the upstream's within the TTL
\* and one fetch, for every TTL and every bound on a fetch (fresh,
\* conditional_for, mark_revalidated).
THEOREM FreshAnswersAreRecent == Spec => []FreshIsRecent
<1>1. AgedInv => FreshIsRecent
  BY DEF AgedInv, IInv, AnswersBounded, FreshIsRecent
<1> QED BY <1>1, InitAges, NextAges, PTL DEF Spec

\* An expired document answers only within stale_if_error of its TTL, however
\* long its reader waited for the fetch that failed (within_stale_window).
THEOREM StaleAnswersAreBounded == Spec => []StaleIsBounded
<1>1. AgedInv => StaleIsBounded
  BY DEF AgedInv, AnswersBounded
<1> QED BY <1>1, InitAges, NextAges, PTL DEF Spec
=============================================================================
