--------------------------- MODULE CredentialQuota ---------------------------
(***************************************************************************)
(* CredentialQuotaManager: what is shown of the quota left to each         *)
(* credential.  Probes ask upstream, the usage of finished requests is     *)
(* deducted from the last answer, and whatever changes the account behind  *)
(* a credential invalidates what is known of it.                           *)
(*                                                                         *)
(* Amounts are abstracted to the requests deducted: an entry is the meter  *)
(* it was read from and the requests its remainder is known to leave out.  *)
(* Each step is what one coroutine does between two awaits; the lock of    *)
(* the code is held within such a step only.                               *)
(***************************************************************************)
EXTENDS Naturals, FiniteSets

CONSTANTS
    Creds,             \* credential ids of one user
    Manual,            \* meters of manual credentials (the probe modes)
    OAuth,             \* meters of signed-in credentials (the accounts)
    Requests,          \* chat requests that cost credits, each made once
    Tasks,             \* coroutines: handlers, scheduled tasks and probes
    MaxConcurrency,    \* QUOTA_MAX_CONCURRENCY
    MaxInvalidations,  \* bound on the invalidations of a credential
    MaxGen,            \* bound on the changes of account of a credential
    None

Meters == Manual \union OAuth

ASSUME ModesAndAccountsApart == Manual \intersect OAuth = {}
ASSUME NoneIsNothing == None \notin Meters \union Tasks \union {"todo"}
ASSUME TasksNotTodo == "todo" \notin Tasks
ASSUME ConcurrencyPositive == MaxConcurrency \in Nat \ {0}
ASSUME BoundsNatural == MaxInvalidations \in Nat /\ MaxGen \in Nat

VARIABLES
    meter,          \* what each credential is charged to, None without file
    qgen,           \* CodeBuddyTokenManager._quota_generations
    torn,           \* credentials whose last write failed after the rename
    mixed,          \* credentials that changed meter under one generation
    cache,          \* _cache
    applied,        \* _usage_totals: the requests in each total
    invalidations,  \* _invalidations
    inflight,       \* _inflight
    at,             \* where each coroutine is suspended and what it holds
    turn,           \* the probe that has the pacer's lock
    scan,           \* what the scan does about each credential
    pacing,         \* apply_background_pacing of the scan
    request,        \* state of each chat request
    running         \* _task is not None

credVars == <<meter, qgen, torn, mixed>>
quotaVars == <<cache, applied, invalidations, inflight>>
scanVars == <<scan, pacing>>
vars == <<credVars, quotaVars, at, turn, scanVars, request, running>>

Idle == [stage |-> "idle", cred |-> None, of |-> None, seen |-> None,
         base |-> {}, since |-> 0, made |-> 0, background |-> FALSE]

Is(p, place) == at[p].stage = place

At(place, k) ==
    [stage |-> place, cred |-> k, of |-> None, seen |-> None,
     base |-> {}, since |-> 0, made |-> invalidations[k], background |-> FALSE]

NotSent == [stage |-> "idle", cred |-> None, of |-> None, gen |-> 0]

Init ==
    /\ meter \in [Creds -> Meters]
    /\ qgen = [k \in Creds |-> 0]
    /\ torn = {}
    /\ mixed = {}
    /\ cache = [k \in Creds |-> None]
    /\ applied = [k \in Creds |-> {}]
    /\ invalidations = [k \in Creds |-> 0]
    /\ inflight = [k \in Creds |-> None]
    /\ at = [p \in Tasks |-> Idle]
    /\ turn = None
    /\ scan = [k \in Creds |-> None]
    /\ pacing = "no scan"
    /\ request = [r \in Requests |-> NotSent]
    /\ running = TRUE

-----------------------------------------------------------------------------
(* invalidate_credential: nothing known of ks remains, and who still       *)
(* fetches for them is no longer found.  The handler decides on cache.     *)
Forget(ks) ==
    /\ \A k \in ks : invalidations[k] < MaxInvalidations
    /\ invalidations' =
         [k \in Creds |-> invalidations[k] + (IF k \in ks THEN 1 ELSE 0)]
    /\ applied' = [k \in Creds |-> IF k \in ks THEN {} ELSE applied[k]]
    /\ inflight' = [k \in Creds |-> IF k \in ks THEN None ELSE inflight[k]]
    /\ torn' = torn \ ks

Invalidate(ks) ==
    /\ Forget(ks)
    /\ cache' = [k \in Creds |-> IF k \in ks THEN None ELSE cache[k]]

(* The credential k is replaced or deleted by the token manager.           *)
Recharge(k, m, quotaChanged) ==
    /\ meter' = [meter EXCEPT ![k] = m]
    /\ IF quotaChanged
         THEN qgen[k] < MaxGen /\ qgen' = [qgen EXCEPT ![k] = @ + 1]
         ELSE UNCHANGED qgen
    /\ mixed' = IF quotaChanged THEN mixed \ {k}
                ELSE IF m = meter[k] THEN mixed ELSE mixed \union {k}

(* The end of p's coroutine: the pacer's lock is released if it still has  *)
(* it, and a scan that waits for p goes on.                                *)
ScanGoesOn(p) == scan' = [k \in Creds |-> IF scan[k] = p THEN None ELSE scan[k]]

Releases(p) == turn' = IF turn = p THEN None ELSE turn

Ends(p, next) ==
    /\ at' = [at EXCEPT ![p] = next]
    /\ Releases(p)
    /\ ScanGoesOn(p)

-----------------------------------------------------------------------------
(* probe_credential: an existing probe is joined, which changes nothing;   *)
(* otherwise a task is made, which begins in a later turn of the loop.     *)
Created(p, k) ==
    /\ inflight[k] = None
    /\ inflight' = [inflight EXCEPT ![k] = p]
    /\ at' = [at EXCEPT ![p] = At("created", k)]

(* POST .../quota/refresh, and PUT .../quota-probe-mode with the same mode. *)
RefreshQuota(p, k) ==
    /\ running /\ Is(p, "idle") /\ meter[k] # None
    /\ Created(p, k)
    /\ UNCHANGED <<credVars, cache, applied, invalidations, turn, scanVars,
                   request, running>>

(* A task of schedule_probe begins.                                        *)
BeginScheduled(p) ==
    LET k == at[p].cred IN
    /\ Is(p, "asked")
    /\ \/ Created(p, k)
       \/ /\ inflight[k] # None
          /\ at' = [at EXCEPT ![p] = Idle]
          /\ UNCHANGED inflight
    /\ UNCHANGED <<credVars, cache, applied, invalidations, turn, scanVars,
                   request, running>>

(* _perform_probe up to its request.  A credential that is gone or expired *)
(* is not probed.                                                          *)
Fetching(p, k) ==
    [stage |-> "fetching", cred |-> k, of |-> meter[k], seen |-> None,
     base |-> applied[k], since |-> invalidations[k],
     made |-> IF Is(p, "created") THEN at[p].made ELSE invalidations[k],
     background |-> at[p].background]

Fetches(p, k) == meter[k] # None /\ at' = [at EXCEPT ![p] = Fetching(p, k)]

Done(p) == [Idle EXCEPT !.stage = "done", !.cred = at[p].cred]

BeginProbe(p) ==
    /\ Is(p, "created")
    /\ \/ Fetches(p, at[p].cred) /\ UNCHANGED <<turn, scan>>
       \/ Ends(p, Done(p))
    /\ UNCHANGED <<credVars, quotaVars, pacing, request, running>>

(* scan_once: the credentials that are not expired.  A scan begins when    *)
(* the one before has ended; all but the first are paced.                  *)
ScanOnce ==
    /\ running
    /\ \A k \in Creds : scan[k] = None
    /\ \E ks \in SUBSET {k \in Creds : meter[k] # None} \ {{}} :
         scan' = [k \in Creds |-> IF k \in ks THEN "todo" ELSE None]
    /\ pacing' = IF pacing = "no scan" THEN "unpaced" ELSE "paced"
    /\ UNCHANGED <<credVars, quotaVars, at, turn, request, running>>

(* _probe_with_semaphore                                                   *)
Busy == {k \in Creds : scan[k] \notin {None, "todo"}}

ProbeWithSemaphore(p, k) ==
    /\ running /\ scan[k] = "todo" /\ Is(p, "idle")
    /\ Cardinality(Busy) < MaxConcurrency
    /\ \/ /\ inflight[k] # None
          /\ scan' = [scan EXCEPT ![k] = inflight[k]]
          /\ UNCHANGED <<at, inflight>>
       \/ /\ pacing = "unpaced"
          /\ Created(p, k)
          /\ scan' = [scan EXCEPT ![k] = p]
       \/ /\ pacing = "paced" /\ inflight[k] = None
          /\ at' = [at EXCEPT ![p] = [At("waiting", k) EXCEPT !.background = TRUE]]
          /\ scan' = [scan EXCEPT ![k] = p]
          /\ UNCHANGED inflight
    /\ UNCHANGED <<credVars, cache, applied, invalidations, turn, pacing,
                   request, running>>

-----------------------------------------------------------------------------
(* BackgroundRequestPacer.turn: the lock, then the delay.                  *)
TakeTurn(p) ==
    /\ Is(p, "waiting") /\ turn = None
    /\ turn' = p
    /\ at' = [at EXCEPT ![p].stage = "pacing"]
    /\ UNCHANGED <<credVars, quotaVars, scanVars, request, running>>

(* _perform_background_probe after the delay: a probe made meanwhile is    *)
(* joined, outside the turn; the scan waits for that one.                  *)
DelayOver(p) ==
    LET k == at[p].cred IN
    /\ Is(p, "pacing")
    /\ \/ /\ inflight[k] # None
          /\ at' = [at EXCEPT ![p] = Idle]
          /\ Releases(p)
          /\ scan' = [j \in Creds |-> IF scan[j] = p THEN inflight[k] ELSE scan[j]]
          /\ UNCHANGED inflight
       \/ /\ inflight[k] = None
          /\ inflight' = [inflight EXCEPT ![k] = p]
          /\ \/ Fetches(p, k) /\ UNCHANGED <<turn, scan>>
             \/ Ends(p, Done(p))
    /\ UNCHANGED <<credVars, cache, applied, invalidations, pacing, request,
                   running>>

(* mark_started, once the client is there.                                 *)
MarkStarted(p) ==
    /\ Is(p, "fetching") /\ turn = p
    /\ turn' = None
    /\ UNCHANGED <<credVars, quotaVars, at, scanVars, request, running>>

-----------------------------------------------------------------------------
(* Upstream reads the meter: what was charged to it is left out.           *)
ChargedTo(m) == {r \in Requests : request[r].of = m
                                  /\ request[r].stage \notin {"idle", "sent"}}

Reads(p) ==
    /\ at[p].stage \in {"fetching", "candidate"} /\ at[p].seen = None
    /\ turn # p
    /\ at' = [at EXCEPT ![p].seen = ChargedTo(at[p].of)]
    /\ UNCHANGED <<credVars, quotaVars, turn, scanVars, request, running>>

(* The answer of a probe arrives: _perform_probe after its await.          *)
NoneConcurrent(p) == {}

Concurrent(p) == applied[at[p].cred] \ at[p].base

NeverStale(p) == FALSE

Stale(p) == invalidations[at[p].cred] # at[p].since

FreshEntry(p) == [of |-> at[p].of, deducted |-> at[p].seen \union Concurrent(p)]

Answered(p) ==
    /\ Is(p, "fetching") /\ at[p].seen # None
    /\ cache' = IF Stale(p) THEN cache
                ELSE [cache EXCEPT ![at[p].cred] = FreshEntry(p)]
    /\ Ends(p, Done(p))
    /\ UNCHANGED <<credVars, applied, invalidations, inflight, pacing, request,
                   running>>

(* _record_failure: the entry keeps its amounts.  Headers and the client   *)
(* may fail before the turn is given up.                                   *)
Failed(p) ==
    /\ Is(p, "fetching")
    /\ Ends(p, Done(p))
    /\ UNCHANGED <<credVars, quotaVars, pacing, request, running>>

(* _remove_completed_inflight, the callback of a finished probe.           *)
RemovedUnseen(p) == [inflight EXCEPT ![at[p].cred] = None]

Removed(p) == [k \in Creds |-> IF inflight[k] = p THEN None ELSE inflight[k]]

RemoveCompleted(p) ==
    /\ Is(p, "done")
    /\ inflight' = Removed(p)
    /\ at' = [at EXCEPT ![p] = Idle]
    /\ UNCHANGED <<credVars, cache, applied, invalidations, turn, scanVars,
                   request, running>>

-----------------------------------------------------------------------------
(* PUT .../quota-probe-mode with another mode: the candidate is probed,    *)
(* then replaced, invalidated and its answer published in one step.        *)
ChangeMode(p, k, m) ==
    /\ running /\ Is(p, "idle")
    /\ meter[k] \in Manual /\ m \in Manual /\ m # meter[k]
    /\ at' = [at EXCEPT ![p] =
         [At("candidate", k) EXCEPT !.of = m, !.since = qgen[k]]]
    /\ UNCHANGED <<credVars, quotaVars, turn, scanVars, request, running>>

CandidateAnswered(p) ==
    LET k == at[p].cred IN
    /\ Is(p, "candidate") /\ at[p].seen # None
    /\ meter[k] # None /\ qgen[k] = at[p].since
    /\ Recharge(k, at[p].of, TRUE)
    /\ Forget({k})
    /\ cache' = [cache EXCEPT ![k] = [of |-> at[p].of, deducted |-> at[p].seen]]
    /\ at' = [at EXCEPT ![p] = Idle]
    /\ UNCHANGED <<turn, scanVars, request, running>>

(* The probe failed, or the credential changed in any way meanwhile.       *)
CandidateRefused(p) ==
    /\ Is(p, "candidate")
    /\ at' = [at EXCEPT ![p] = Idle]
    /\ UNCHANGED <<credVars, quotaVars, turn, scanVars, request, running>>

(* switch_account replaced the credential in the refresh manager's task;   *)
(* the handler learns of it in a later turn of the loop.  Whether the      *)
(* account changes is judged by a snapshot, which a torn write outdates.   *)
SwitchReplaces(p, k, m) ==
    /\ running /\ Is(p, "idle")
    /\ meter[k] \in OAuth /\ m \in OAuth
    /\ \E quotaChanged \in BOOLEAN :
         /\ k \in torn \/ quotaChanged = (m # meter[k])
         /\ Recharge(k, m, quotaChanged)
    /\ at' = [at EXCEPT ![p] = At("selected", k)]
    /\ UNCHANGED <<torn, quotaVars, turn, scanVars, request, running>>

(* The handler goes on: schedule_probe_if_running after the invalidation.  *)
Scheduled(k) == [Idle EXCEPT !.stage = "asked", !.cred = k]

SelectAccount(p) ==
    /\ Is(p, "selected")
    /\ Invalidate({at[p].cred})
    /\ at' = [at EXCEPT ![p] = Scheduled(at[p].cred)]
    /\ UNCHANGED <<meter, qgen, mixed, turn, scanVars, request, running>>

(* Either replacement fails after its rename and the new content is read   *)
(* from the directory: no generation moved and nothing is invalidated.     *)
(* One such write for each invalidation is enough (a bound).               *)
ReplaceTorn(k, m) ==
    /\ running /\ k \notin torn
    /\ \/ {meter[k], m} \subseteq Manual
       \/ {meter[k], m} \subseteq OAuth
    /\ meter[k] # m
    /\ meter' = [meter EXCEPT ![k] = m]
    /\ torn' = torn \union {k}
    /\ mixed' = mixed \union {k}
    /\ UNCHANGED <<qgen, quotaVars, at, turn, scanVars, request, running>>

DeleteCredential(k) ==
    /\ running /\ meter[k] # None
    /\ Recharge(k, None, TRUE)
    /\ Invalidate({k})
    /\ UNCHANGED <<at, turn, scanVars, request, running>>

(* create_admin_credential and CodeBuddyTokenSaver.save                    *)
CreateCredential(p, k, m) ==
    /\ running /\ Is(p, "idle") /\ meter[k] = None
    /\ meter' = [meter EXCEPT ![k] = m]
    /\ at' = [at EXCEPT ![p] = Scheduled(k)]
    /\ UNCHANGED <<qgen, torn, mixed, quotaVars, turn, scanVars, request, running>>

(* A check-in of account m added credits: every credential of m is         *)
(* invalidated and probed.                                                 *)
RefreshAccountQuotas(m) ==
    LET ks == {k \in Creds : meter[k] = m} IN
    /\ running /\ ks # {}
    /\ Invalidate(ks)
    /\ \E task \in [ks -> {p \in Tasks : Is(p, "idle")}] :
         /\ \A j, k \in ks : task[j] = task[k] => j = k
         /\ at' = [p \in Tasks |->
                     IF \E k \in ks : task[k] = p
                       THEN Scheduled(CHOOSE k \in ks : task[k] = p)
                       ELSE at[p]]
    /\ UNCHANGED <<meter, qgen, mixed, turn, scanVars, request, running>>

-----------------------------------------------------------------------------
(* A chat request is sent, costs upstream its credits, and is reported     *)
(* with the generation it was sent under, or never.                        *)
SendRequest(r, k) ==
    /\ request[r].stage = "idle" /\ meter[k] # None
    /\ request' = [request EXCEPT ![r] =
         [stage |-> "sent", cred |-> k, of |-> meter[k], gen |-> qgen[k]]]
    /\ UNCHANGED <<credVars, quotaVars, at, turn, scanVars, running>>

Costs(r) ==
    /\ request[r].stage = "sent"
    /\ request' = [request EXCEPT ![r].stage = "spent"]
    /\ UNCHANGED <<credVars, quotaVars, at, turn, scanVars, running>>

(* apply_usage                                                             *)
ApplyWhenever(r) ==
    LET k == request[r].cred IN
    /\ request[r].stage = "spent"
    /\ request' = [request EXCEPT ![r].stage = "reported"]
    /\ applied' = [applied EXCEPT ![k] = @ \union {r}]
    /\ cache' = IF cache[k] = None THEN cache
                ELSE [cache EXCEPT ![k].deducted = @ \union {r}]
    /\ UNCHANGED <<credVars, invalidations, inflight, at, turn, scanVars, running>>

ApplyUsage(r) ==
    LET k == request[r].cred IN
    /\ request[r].stage = "spent"
    /\ request' = [request EXCEPT ![r].stage = "reported"]
    /\ IF qgen[k] = request[r].gen
         THEN /\ applied' = [applied EXCEPT ![k] = @ \union {r}]
              /\ cache' = IF cache[k] = None THEN cache
                          ELSE [cache EXCEPT ![k].deducted = @ \union {r}]
         ELSE UNCHANGED <<applied, cache>>
    /\ UNCHANGED <<credVars, invalidations, inflight, at, turn, scanVars, running>>

-----------------------------------------------------------------------------
(* shutdown, once the handlers are done: scheduled tasks, background       *)
(* probes and the probes in flight are cancelled, in this order; nothing   *)
(* can be added between, so that it is one step.                           *)
CancelledBackground == {p \in Tasks : Is(p, "asked") \/ at[p].background}

Cancelled == {p \in Tasks : \/ Is(p, "asked")
                            \/ at[p].background
                            \/ \E k \in Creds : inflight[k] = p}

Shutdown ==
    /\ running
    /\ \A p \in Tasks : at[p].stage \notin {"candidate", "selected"}
    /\ running' = FALSE
    /\ at' = [p \in Tasks |-> IF p \in Cancelled THEN Idle ELSE at[p]]
    /\ inflight' = [k \in Creds |-> None]
    /\ turn' = None
    /\ scan' = [k \in Creds |-> None]
    /\ UNCHANGED <<credVars, cache, applied, invalidations, pacing, request>>

TaskStep(p) ==
    \/ BeginScheduled(p) \/ BeginProbe(p) \/ TakeTurn(p) \/ DelayOver(p)
    \/ MarkStarted(p) \/ Reads(p) \/ Answered(p) \/ Failed(p)
    \/ RemoveCompleted(p) \/ CandidateAnswered(p) \/ CandidateRefused(p)
    \/ SelectAccount(p)

Next ==
    \/ \E p \in Tasks : TaskStep(p)
    \/ \E p \in Tasks, k \in Creds : RefreshQuota(p, k) \/ ProbeWithSemaphore(p, k)
    \/ \E p \in Tasks, k \in Creds, m \in Meters :
         ChangeMode(p, k, m) \/ SwitchReplaces(p, k, m) \/ CreateCredential(p, k, m)
    \/ \E k \in Creds, m \in Meters : ReplaceTorn(k, m)
    \/ \E k \in Creds : DeleteCredential(k)
    \/ \E m \in Meters : RefreshAccountQuotas(m)
    \/ \E r \in Requests, k \in Creds : SendRequest(r, k)
    \/ \E r \in Requests : Costs(r) \/ ApplyUsage(r)
    \/ ScanOnce \/ Shutdown

Spec == Init /\ [][Next]_vars

-----------------------------------------------------------------------------
Entries == [of : Meters, deducted : SUBSET Requests]

Coroutines ==
    [stage : {"idle", "asked", "created", "waiting", "pacing", "fetching", "done",
              "candidate", "selected"},
     cred : Creds \union {None}, of : Meters \union {None},
     seen : (SUBSET Requests) \union {None}, base : SUBSET Requests,
     since : Nat, made : Nat, background : BOOLEAN]

RequestStates ==
    [stage : {"idle", "sent", "spent", "reported"}, cred : Creds \union {None},
     of : Meters \union {None}, gen : Nat]

CredTypes ==
    /\ meter \in [Creds -> Meters \union {None}]
    /\ qgen \in [Creds -> Nat]
    /\ torn \in SUBSET Creds
    /\ mixed \in SUBSET Creds

QuotaTypes ==
    /\ cache \in [Creds -> Entries \union {None}]
    /\ applied \in [Creds -> SUBSET Requests]
    /\ invalidations \in [Creds -> Nat]
    /\ inflight \in [Creds -> Tasks \union {None}]

(* In particular no probe fetches for a credential that is gone.           *)
TaskTypes ==
    /\ at \in [Tasks -> Coroutines]
    /\ \A p \in Tasks :
         /\ at[p].stage # "idle" => at[p].cred \in Creds
         /\ at[p].stage \in {"fetching", "candidate"} => at[p].of \in Meters

(* The variables have their types.                                         *)
TypeOK ==
    /\ CredTypes /\ QuotaTypes /\ TaskTypes
    /\ turn \in Tasks \union {None}
    /\ scan \in [Creds -> Tasks \union {None, "todo"}]
    /\ pacing \in {"no scan", "unpaced", "paced"}
    /\ request \in [Requests -> RequestStates]
    /\ running \in BOOLEAN

(* The quota shown for a credential is of the meter its requests are       *)
(* charged to.  Excepted are the turns of the loop in which a switch has   *)
(* replaced the credential and its handler has not yet learnt of it, and a *)
(* write that failed after its rename.                                     *)
CachedForPresent ==
    \A k \in Creds : cache[k] # None =>
        \/ cache[k].of = meter[k]
        \/ k \in torn
        \/ \E p \in Tasks : Is(p, "selected") /\ at[p].cred = k

(* Usage that was reported under the present generation is not shown as    *)
(* still available, whatever probe ran when it was spent or reported.      *)
UsageDeducted ==
    \A r \in Requests : LET k == request[r].cred IN
        request[r].stage = "reported" /\ qgen[k] = request[r].gen
        /\ cache[k] # None /\ cache[k].of = request[r].of
        => r \in cache[k].deducted

(* Usage is deducted from the quota of the meter it was charged to only,   *)
(* however long the request took.  Excepted are a switch whose handler has *)
(* not yet learnt of it, and credentials that changed meter under the same *)
(* generation, which takes a torn write.                                   *)
DeductedWhereCharged ==
    \A k \in Creds : cache[k] # None =>
        \/ \A r \in cache[k].deducted : request[r].of = cache[k].of
        \/ k \in mixed
        \/ \E p \in Tasks : Is(p, "selected") /\ at[p].cred = k

(* The pacer's lock is held by a background probe that runs: none takes    *)
(* it to its end or to the callers who join it.                            *)
TurnHeld ==
    turn # None => at[turn].stage \in {"pacing", "fetching"} /\ at[turn].background

(* The probes of a credential made since it was last invalidated are one,  *)
(* and it is the one later callers join; of all background probes one has  *)
(* the turn, and it runs.                                                  *)
Live(p) == /\ at[p].stage \in {"created", "fetching"}
           /\ at[p].made = invalidations[at[p].cred]

SingleFlight ==
    /\ running => \A p \in Tasks : Live(p) => inflight[at[p].cred] = p
    /\ TurnHeld

(* After shutdown only probes that an invalidation had put out of reach    *)
(* are still running.                                                      *)
OnlyEvictedOutlive ==
    ~running => \A p \in Tasks :
        /\ ~Live(p)
        /\ at[p].stage \notin {"asked", "waiting", "pacing", "candidate", "selected"}
==============================================================================
