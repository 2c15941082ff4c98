----------------------------- MODULE ModelsCache -----------------------------
(***************************************************************************)
(* ModelsManager: the upstream model list of each credential, cached for   *)
(* ten minutes and fetched at most once at a time, beside the credentials  *)
(* that change while a fetch is under way.  A token stands for the bearer  *)
(* token a credential holds and for the list fetched with it.              *)
(*                                                                         *)
(* The lists are kept by user and credential; the model is one user's.     *)
(* Code between two awaits is one step: whoever replaces or deletes a      *)
(* credential evicts its list in the same step.                            *)
(***************************************************************************)
EXTENDS Naturals

CONSTANTS
    Files,     \* credential ids
    Tokens,    \* bearer tokens
    Fetches,   \* tasks of _fetch_and_cache
    Callers,   \* requests that ask for a model list
    Absent,    \* no such credential
    None

ASSUME TokensExist == Absent \notin Tokens
ASSUME FetchesExist == None \notin Fetches /\ None \notin Tokens
ASSUME RecordsDistinct == None \notin [file : Files, token : Tokens]

VARIABLES
    content,   \* the token of each credential in the token manager's list
    disk,      \* what the directory holds
    torn,      \* history: replaced on disk by a call that failed
    expired,   \* tokens past their expires_at
    cache,     \* _models_cache: the token its list was fetched with
    aged,      \* entries past _models_cache_expires_at
    inflight,  \* _inflight
    fetch,     \* what each running task fetches
    caller     \* the task each request waits for

credVars == <<content, disk, torn, expired>>
cacheVars == <<cache, aged, inflight>>
vars == <<credVars, cacheVars, fetch, caller>>

Init ==
    /\ content = [f \in Files |-> Absent]
    /\ disk = [f \in Files |-> Absent]
    /\ torn = {}
    /\ expired = {}
    /\ cache = [f \in Files |-> None]
    /\ aged = {}
    /\ inflight = [f \in Files |-> None]
    /\ fetch = [k \in Fetches |-> None]
    /\ caller = [c \in Callers |-> None]

-----------------------------------------------------------------------------
(* The entry of f without those evicted; and _invalidate_cache_key, which  *)
(* leaves a running fetch to those who wait for it.                        *)
Without(table, S) == [f \in Files |-> IF f \in S THEN None ELSE table[f]]

EvictListOnly(S) ==
    /\ cache' = Without(cache, S)
    /\ aged' = aged \ S
    /\ UNCHANGED inflight

Evict(S) ==
    /\ cache' = Without(cache, S)
    /\ aged' = aged \ S
    /\ inflight' = Without(inflight, S)

-----------------------------------------------------------------------------
(* What happens to the credentials.                                        *)

(* A credential is added and the directory read again.                     *)
Add(f, tok) ==
    /\ disk[f] = Absent
    /\ disk' = [disk EXCEPT ![f] = tok]
    /\ content' = disk'
    /\ UNCHANGED <<torn, expired, cacheVars, fetch, caller>>

(* DELETE of the admin page: the credential, then its list.                *)
Delete(f) ==
    /\ content[f] # Absent
    /\ disk' = [disk EXCEPT ![f] = Absent]
    /\ content' = disk'
    /\ torn' = torn \ {f}
    /\ Evict({f})
    /\ UNCHANGED <<expired, fetch, caller>>

(* A refresh or an account switch evicts, then replaces; the replacement   *)
(* may be refused, or raise once the file is already new.                  *)
Replace(f, tok) ==
    /\ content[f] # Absent
    /\ Evict({f})
    /\ \/ /\ content' = [content EXCEPT ![f] = tok]
          /\ disk' = [disk EXCEPT ![f] = tok]
          /\ torn' = torn \ {f}
       \/ /\ disk' = [disk EXCEPT ![f] = tok]
          /\ torn' = torn \union {f}
          /\ UNCHANGED content
       \/ UNCHANGED <<content, disk, torn>>
    /\ UNCHANGED <<expired, fetch, caller>>

Expire(tok) ==
    /\ tok \notin expired
    /\ expired' = expired \union {tok}
    /\ UNCHANGED <<content, disk, torn, cacheVars, fetch, caller>>

Age(f) ==
    /\ cache[f] # None
    /\ aged' = aged \union {f}
    /\ UNCHANGED <<credVars, cache, inflight, fetch, caller>>

-----------------------------------------------------------------------------
(* get_actual_models_for_credential on f, after get_actual_models has      *)
(* looked at the current credential p: what is expired or aged is evicted  *)
(* first.                                                                  *)
Stale(f, p) ==
    {g \in {f, p} : content[g] \in expired \union {Absent}}
        \union (aged \intersect {f, p})

Hit(f, p) ==
    /\ cache[f] # None /\ f \notin Stale(f, p)
    /\ Evict(Stale(f, p))
    /\ UNCHANGED <<credVars, fetch, caller>>

Join(c, f, p) ==
    /\ cache[f] = None \/ f \in Stale(f, p)
    /\ Evict(Stale(f, p))
    /\ inflight'[f] # None
    /\ caller' = [caller EXCEPT ![c] = inflight'[f]]
    /\ UNCHANGED <<credVars, fetch>>

Start(c, f, p) ==
    LET left == Without(inflight, Stale(f, p)) IN
    /\ cache[f] = None \/ f \in Stale(f, p)
    /\ left[f] = None
    /\ \E k \in Fetches :
          /\ fetch[k] = None
          /\ fetch' = [fetch EXCEPT ![k] = [file |-> f, token |-> content[f]]]
          /\ inflight' = [left EXCEPT ![f] = k]
          /\ caller' = [caller EXCEPT ![c] = k]
    /\ cache' = Without(cache, Stale(f, p))
    /\ aged' = aged \ Stale(f, p)
    /\ UNCHANGED credVars

Ask(c, f, p) ==
    /\ caller[c] = None
    /\ content[f] # Absent
    /\ Hit(f, p) \/ Join(c, f, p) \/ Start(c, f, p)

-----------------------------------------------------------------------------
(* The end of a task: it leaves _inflight if it is still there, and those  *)
(* who wait for it have their answer.                                      *)
Unanswered(k) ==
    /\ fetch' = [fetch EXCEPT ![k] = None]
    /\ inflight' = [f \in Files |->
          IF inflight[f] = k THEN None ELSE inflight[f]]
    /\ UNCHANGED <<caller, credVars>>

Completed(k) ==
    /\ fetch' = [fetch EXCEPT ![k] = None]
    /\ inflight' = [f \in Files |->
          IF inflight[f] = k THEN None ELSE inflight[f]]
    /\ caller' = [c \in Callers |-> IF caller[c] = k THEN None ELSE caller[c]]
    /\ UNCHANGED credVars

(* A list arrives: kept only by the task that is still the one in flight.  *)
KeptAnyway(k) ==
    /\ fetch[k] # None
    /\ cache' = [cache EXCEPT ![fetch[k].file] = fetch[k].token]
    /\ aged' = aged \ {fetch[k].file}
    /\ Completed(k)

FetchReturns(k) ==
    /\ fetch[k] # None
    /\ IF inflight[fetch[k].file] = k
         THEN /\ cache' = [cache EXCEPT ![fetch[k].file] = fetch[k].token]
              /\ aged' = aged \ {fetch[k].file}
         ELSE UNCHANGED <<cache, aged>>
    /\ Completed(k)

FetchFails(k) ==
    /\ fetch[k] # None
    /\ Completed(k)
    /\ UNCHANGED <<cache, aged>>

FetchEnds(k) == FetchReturns(k) \/ FetchFails(k)

Next ==
    \/ \E f \in Files, tok \in Tokens : Add(f, tok) \/ Replace(f, tok)
    \/ \E f \in Files : Delete(f) \/ Age(f)
    \/ \E tok \in Tokens : Expire(tok)
    \/ \E c \in Callers, f, p \in Files : Ask(c, f, p)
    \/ \E k \in Fetches : FetchEnds(k)

Spec == Init /\ [][Next]_vars

(* The request of a fetch has a timeout of 30 seconds.                     *)
FairSpec == Spec /\ \A k \in Fetches : WF_vars(FetchEnds(k))

-----------------------------------------------------------------------------
(* Types; a task in flight runs, and for that credential.                  *)
TypeOK ==
    /\ content \in [Files -> Tokens \union {Absent}]
    /\ disk \in [Files -> Tokens \union {Absent}]
    /\ torn \in SUBSET Files
    /\ expired \in SUBSET Tokens
    /\ cache \in [Files -> Tokens \union {None}]
    /\ aged \in SUBSET Files
    /\ inflight \in [Files -> Fetches \union {None}]
    /\ fetch \in [Fetches -> [file : Files, token : Tokens] \union {None}]
    /\ caller \in [Callers -> Fetches \union {None}]
    /\ \A f \in Files : inflight[f] # None =>
          fetch[inflight[f]] # None /\ fetch[inflight[f]].file = f

(* "Evicted at once when the credential is deleted or becomes invalid"     *)
(* (invalidate_credential): no list fetched with an earlier token of a     *)
(* credential is kept for its present one, however late it arrives and     *)
(* even if the name was deleted and used again.                            *)
CacheCurrent ==
    \A f \in Files \ torn : cache[f] # None => cache[f] = content[f]

(* Nor does a request that finds a fetch in flight wait for the list of an *)
(* earlier token.                                                          *)
JoinsCurrent ==
    \A f \in Files \ torn :
        inflight[f] # None => fetch[inflight[f]].token = content[f]

(* Eviction takes a task out of _inflight, but not the answer from those   *)
(* who wait for it.                                                        *)
Answered == \A c \in Callers : caller[c] # None ~> caller[c] = None
=============================================================================
