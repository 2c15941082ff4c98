-------------------------- MODULE ModelsCacheProofs --------------------------
(***************************************************************************)
(* Proofs about ModelsCache: for any credentials, tokens, fetches and      *)
(* requests, the list kept for a credential, and the fetch a request may   *)
(* join, are of the token the credential has now.                          *)
(***************************************************************************)
EXTENDS ModelsCache, TLAPS

(* Outside the torn credentials the list in memory is the directory, so a  *)
(* reload changes none of them.                                            *)
Synced == \A f \in Files \ torn : content[f] = disk[f]

IInv == TypeOK /\ Synced /\ CacheCurrent /\ JoinsCurrent

(* An eviction alone takes entries away and keeps what is said of others.  *)
LEMMA EvictKeeps ==
    ASSUME IInv, NEW S, Evict(S), UNCHANGED <<credVars, fetch>>,
           caller' \in [Callers -> Fetches \union {None}]
    PROVE  IInv'
  <1>1. /\ \A f \in Files : cache'[f] = IF f \in S THEN None ELSE cache[f]
        /\ \A f \in Files : inflight'[f] =
              IF f \in S THEN None ELSE inflight[f]
        /\ aged' \subseteq aged
        /\ cache' \in [Files -> Tokens \union {None}]
        /\ inflight' \in [Files -> Fetches \union {None}]
    BY DEF Evict, Without, IInv, TypeOK
  <1>2. TypeOK'
    BY <1>1, FetchesExist DEF IInv, TypeOK, credVars
  <1>3. CacheCurrent' /\ JoinsCurrent' /\ Synced'
    BY <1>1 DEF IInv, CacheCurrent, JoinsCurrent, Synced, credVars
  <1> QED BY <1>2, <1>3 DEF IInv

(* Adding a credential under a free name, of which nothing is kept.        *)
LEMMA AddKeeps ==
    ASSUME IInv, NEW f \in Files, NEW tok \in Tokens, Add(f, tok)
    PROVE  IInv'
  <1>1. /\ disk' \in [Files -> Tokens \union {Absent}]
        /\ content' = disk'
        /\ disk'[f] = tok /\ disk[f] = Absent
        /\ \A g \in Files \ {f} : disk'[g] = disk[g]
    BY DEF Add, IInv, TypeOK
  <1>2. UNCHANGED <<torn, expired, cache, aged, inflight, fetch, caller>>
    BY DEF Add, cacheVars
  <1>3. TypeOK'
    BY <1>1, <1>2 DEF IInv, TypeOK
  <1>4. Synced'
    BY <1>1 DEF Synced
  <1>5. ASSUME NEW g \in Files \ torn
        PROVE  /\ cache[g] # None => cache[g] = content'[g]
               /\ inflight[g] # None => fetch[inflight[g]].token = content'[g]
    <2>1. g # f => content'[g] = content[g]
      BY <1>1, <1>5 DEF IInv, Synced
    <2>2. g = f => content[g] = Absent
      BY <1>1, <1>5 DEF IInv, Synced
    <2>3. cache[g] # None => cache[g] \in Tokens /\ cache[g] = content[g]
      BY <1>5 DEF IInv, TypeOK, CacheCurrent
    <2>4. inflight[g] # None =>
             /\ fetch[inflight[g]].token \in Tokens
             /\ fetch[inflight[g]].token = content[g]
      <3>1. inflight[g] # None =>
               fetch[inflight[g]] \in [file : Files, token : Tokens]
        BY <1>5, FetchesExist DEF IInv, TypeOK
      <3> QED BY <3>1, <1>5 DEF IInv, JoinsCurrent
    <2> QED BY <2>1, <2>2, <2>3, <2>4, TokensExist
  <1> QED BY <1>2, <1>3, <1>4, <1>5 DEF IInv, CacheCurrent, JoinsCurrent

(* Deletion and replacement evict the list and the fetch of the one        *)
(* credential they change.                                                 *)
LEMMA ChangeKeeps ==
    ASSUME IInv, NEW f \in Files, Evict({f}),
           content' \in [Files -> Tokens \union {Absent}],
           disk' \in [Files -> Tokens \union {Absent}],
           torn' \in SUBSET Files,
           torn \ {f} \subseteq torn', UNCHANGED <<expired, fetch, caller>>,
           Synced',
           \A g \in Files \ ({f} \union torn') : content'[g] = content[g]
    PROVE  IInv'
  <1>1. /\ \A g \in Files : cache'[g] = IF g = f THEN None ELSE cache[g]
        /\ \A g \in Files : inflight'[g] = IF g = f THEN None ELSE inflight[g]
        /\ aged' \subseteq aged
        /\ cache' \in [Files -> Tokens \union {None}]
        /\ inflight' \in [Files -> Fetches \union {None}]
    BY DEF Evict, Without, IInv, TypeOK
  <1>2. TypeOK'
    BY <1>1, FetchesExist DEF IInv, TypeOK
  <1>3. CacheCurrent' /\ JoinsCurrent'
    BY <1>1 DEF IInv, CacheCurrent, JoinsCurrent
  <1> QED BY <1>2, <1>3 DEF IInv

(* A deletion evicts what was kept of the credential.                      *)
LEMMA DeleteKeeps ==
    ASSUME IInv, NEW f \in Files, Delete(f)
    PROVE  IInv'
  <1>1. /\ disk' \in [Files -> Tokens \union {Absent}]
        /\ content' = disk' /\ torn' = torn \ {f}
        /\ \A g \in Files \ {f} : disk'[g] = disk[g]
        /\ Evict({f})
        /\ UNCHANGED <<expired, fetch, caller>>
    BY DEF Delete, IInv, TypeOK
  <1>2. Synced'
    BY <1>1 DEF Synced
  <1>3. \A g \in Files \ ({f} \union torn') : content'[g] = content[g]
    BY <1>1 DEF IInv, Synced
  <1>4. torn' \in SUBSET Files /\ torn \ {f} \subseteq torn'
    BY <1>1 DEF IInv, TypeOK
  <1> QED BY <1>1, <1>2, <1>3, <1>4, ChangeKeeps

(* A replacement that succeeds, is refused, or raises half-way.            *)
LEMMA ReplaceKeeps ==
    ASSUME IInv, NEW f \in Files, NEW tok \in Tokens, Replace(f, tok)
    PROVE  IInv'
  <1>1. Evict({f}) /\ UNCHANGED <<expired, fetch, caller>>
    BY DEF Replace
  <1>2. CASE /\ content' = [content EXCEPT ![f] = tok]
             /\ disk' = [disk EXCEPT ![f] = tok]
             /\ torn' = torn \ {f}
    <2>1. /\ content' \in [Files -> Tokens \union {Absent}]
          /\ disk' \in [Files -> Tokens \union {Absent}]
          /\ torn' \in SUBSET Files /\ torn \ {f} \subseteq torn'
          /\ content'[f] = tok /\ disk'[f] = tok
          /\ \A g \in Files \ {f} :
                content'[g] = content[g] /\ disk'[g] = disk[g]
      BY <1>2 DEF IInv, TypeOK
    <2>2. Synced'
      BY <1>2, <2>1 DEF IInv, Synced
    <2> QED BY <1>1, <2>1, <2>2, ChangeKeeps
  <1>3. CASE /\ disk' = [disk EXCEPT ![f] = tok]
             /\ torn' = torn \union {f}
             /\ UNCHANGED content
    <2>1. /\ content' \in [Files -> Tokens \union {Absent}]
          /\ disk' \in [Files -> Tokens \union {Absent}]
          /\ torn' \in SUBSET Files /\ torn \ {f} \subseteq torn'
          /\ \A g \in Files \ {f} :
                content'[g] = content[g] /\ disk'[g] = disk[g]
      BY <1>3 DEF IInv, TypeOK
    <2>2. Synced'
      BY <1>3, <2>1 DEF IInv, Synced
    <2> QED BY <1>1, <2>1, <2>2, ChangeKeeps
  <1>4. CASE UNCHANGED <<content, disk, torn>>
    <2>1. /\ content' \in [Files -> Tokens \union {Absent}]
          /\ disk' \in [Files -> Tokens \union {Absent}]
          /\ torn' \in SUBSET Files /\ torn \ {f} \subseteq torn'
          /\ Synced'
      BY <1>4 DEF IInv, TypeOK, Synced
    <2> QED BY <1>1, <1>4, <2>1, ChangeKeeps
  <1> QED BY <1>2, <1>3, <1>4 DEF Replace

(* A hit, a joined fetch or a new one, which reads the present token.      *)
LEMMA AskKeeps ==
    ASSUME IInv, NEW c \in Callers, NEW f \in Files, NEW p \in Files,
           Ask(c, f, p)
    PROVE  IInv'
  <1> DEFINE S == Stale(f, p)
             left == Without(inflight, S)
  <1>1. ASSUME Hit(f, p) PROVE IInv'
    <2>1. Evict(S) /\ UNCHANGED <<credVars, fetch>> /\ caller' = caller
      BY <1>1 DEF Hit
    <2>2. caller' \in [Callers -> Fetches \union {None}]
      BY <2>1 DEF IInv, TypeOK
    <2> QED BY <2>1, <2>2, EvictKeeps
  <1>2. ASSUME Join(c, f, p) PROVE IInv'
    <2>1. Evict(S) /\ UNCHANGED <<credVars, fetch>>
      BY <1>2 DEF Join
    <2>2. inflight'[f] \in Fetches
      BY <1>2, <2>1 DEF Join, Evict, Without, IInv, TypeOK
    <2>3. caller' \in [Callers -> Fetches \union {None}]
      BY <1>2, <2>2 DEF Join, IInv, TypeOK
    <2> QED BY <2>1, <2>3, EvictKeeps
  <1>3. ASSUME Start(c, f, p) PROVE IInv'
    <2>1. PICK k \in Fetches :
             /\ fetch[k] = None
             /\ fetch' = [fetch EXCEPT ![k] =
                             [file |-> f, token |-> content[f]]]
             /\ inflight' = [left EXCEPT ![f] = k]
             /\ caller' = [caller EXCEPT ![c] = k]
      BY <1>3 DEF Start
    <2>2. /\ cache' = Without(cache, S) /\ aged' = aged \ S
          /\ UNCHANGED <<content, disk, torn, expired>>
      BY <1>3 DEF Start, credVars
    <2>3. /\ left \in [Files -> Fetches \union {None}]
          /\ \A g \in Files : left[g] # None => left[g] = inflight[g]
          /\ \A g \in Files : cache'[g] # None => cache'[g] = cache[g]
          /\ cache' \in [Files -> Tokens \union {None}]
      BY <2>2 DEF Without, IInv, TypeOK
    <2>4. content[f] \in Tokens
      BY DEF Ask, IInv, TypeOK
    <2>5. /\ fetch' \in [Fetches -> [file : Files, token : Tokens]
                                       \union {None}]
          /\ fetch'[k] = [file |-> f, token |-> content[f]]
          /\ \A j \in Fetches \ {k} : fetch'[j] = fetch[j]
      BY <2>1, <2>4 DEF IInv, TypeOK
    <2>6. /\ inflight' \in [Files -> Fetches \union {None}]
          /\ inflight'[f] = k
          /\ \A g \in Files \ {f} : inflight'[g] # None =>
                inflight'[g] = inflight[g] /\ inflight'[g] # k
      BY <2>1, <2>3 DEF IInv, TypeOK
    <2>7. caller' \in [Callers -> Fetches \union {None}]
      BY <2>1 DEF IInv, TypeOK
    <2>8. \A g \in Files : inflight'[g] # None =>
             /\ fetch'[inflight'[g]] # None
             /\ fetch'[inflight'[g]].file = g
      <3>1. [file |-> f, token |-> content[f]] # None
        BY <2>4, RecordsDistinct
      <3>2. ASSUME NEW g \in Files \ {f}, inflight'[g] # None
            PROVE  /\ fetch'[inflight'[g]] # None
                   /\ fetch'[inflight'[g]].file = g
        BY <2>5, <2>6, <3>2 DEF IInv, TypeOK
      <3> QED BY <2>5, <2>6, <3>1, <3>2
    <2>9. TypeOK'
      <3>1. aged' \in SUBSET Files
        BY <2>2 DEF IInv, TypeOK
      <3> QED BY <2>2, <2>3, <2>5, <2>6, <2>7, <2>8, <3>1 DEF IInv, TypeOK
    <2>10. JoinsCurrent'
      <3>1. ASSUME NEW g \in Files \ torn, g # f, inflight'[g] # None
            PROVE  fetch'[inflight'[g]].token = content[g]
        BY <2>5, <2>6, <3>1 DEF IInv, TypeOK, JoinsCurrent
      <3> QED BY <2>2, <2>5, <2>6, <3>1 DEF JoinsCurrent
    <2>11. CacheCurrent' /\ Synced'
      BY <2>2, <2>3 DEF IInv, CacheCurrent, Synced
    <2> QED BY <2>9, <2>10, <2>11 DEF IInv
  <1> QED BY <1>1, <1>2, <1>3 DEF Ask

(* A task that ends leaves the table; only one that was in flight has      *)
(* changed the cache, and its token is the present one.                    *)
LEMMA EndKeeps ==
    ASSUME IInv, NEW k \in Fetches, FetchEnds(k)
    PROVE  IInv'
  <1>1. /\ fetch[k] # None
        /\ fetch' = [fetch EXCEPT ![k] = None]
        /\ inflight' = [f \in Files |->
              IF inflight[f] = k THEN None ELSE inflight[f]]
        /\ caller' = [c \in Callers |->
              IF caller[c] = k THEN None ELSE caller[c]]
        /\ UNCHANGED <<content, disk, torn, expired>>
    BY DEF FetchEnds, FetchReturns, FetchFails, Completed, credVars
  <1>2. fetch[k].file \in Files /\ fetch[k].token \in Tokens
    BY <1>1 DEF IInv, TypeOK
  <1>3. /\ cache' \in [Files -> Tokens \union {None}]
        /\ aged' \in SUBSET Files
        /\ \A g \in Files \ torn :
              cache'[g] # None => cache'[g] = content[g]
    <2>1. CASE UNCHANGED <<cache, aged>>
      BY <2>1 DEF IInv, TypeOK, CacheCurrent
    <2>2. CASE /\ inflight[fetch[k].file] = k
               /\ cache' = [cache EXCEPT ![fetch[k].file] = fetch[k].token]
               /\ aged' = aged \ {fetch[k].file}
      <3>1. fetch[k].file \notin torn
               => fetch[k].token = content[fetch[k].file]
        BY <1>2, <2>2, FetchesExist DEF IInv, JoinsCurrent
      <3> QED BY <1>2, <2>2, <3>1 DEF IInv, TypeOK, CacheCurrent
    <2> QED BY <2>1, <2>2 DEF FetchEnds, FetchReturns, FetchFails
  <1>4. /\ fetch' \in [Fetches -> [file : Files, token : Tokens]
                                    \union {None}]
        /\ inflight' \in [Files -> Fetches \union {None}]
        /\ caller' \in [Callers -> Fetches \union {None}]
        /\ \A f \in Files : inflight'[f] # None =>
              /\ inflight'[f] = inflight[f]
              /\ fetch'[inflight'[f]] = fetch[inflight[f]]
    BY <1>1 DEF IInv, TypeOK
  <1>5. TypeOK'
    BY <1>1, <1>3, <1>4 DEF IInv, TypeOK
  <1>6. JoinsCurrent' /\ CacheCurrent' /\ Synced'
    BY <1>1, <1>3, <1>4 DEF IInv, JoinsCurrent, CacheCurrent, Synced
  <1> QED BY <1>5, <1>6 DEF IInv

(* Nothing is cached or in flight at the start.                            *)
LEMMA Start0 == Init => IInv
  BY DEF Init, IInv, TypeOK, Synced, CacheCurrent, JoinsCurrent

(* Every step, by its kind.                                                *)
LEMMA Step == IInv /\ [Next]_vars => IInv'
  <1> SUFFICES ASSUME IInv, [Next]_vars PROVE IInv'
    OBVIOUS
  <1>1. ASSUME NEW f \in Files, NEW tok \in Tokens,
               Add(f, tok) \/ Replace(f, tok)
        PROVE  IInv'
    BY <1>1, AddKeeps, ReplaceKeeps
  <1>2. ASSUME NEW f \in Files, Delete(f) PROVE IInv'
    BY <1>2, DeleteKeeps
  <1>3. ASSUME NEW f \in Files, Age(f) PROVE IInv'
    BY <1>3 DEF Age, credVars, IInv, TypeOK, Synced, CacheCurrent,
                JoinsCurrent
  <1>4. ASSUME NEW tok \in Tokens, Expire(tok) PROVE IInv'
    BY <1>4 DEF Expire, cacheVars, IInv, TypeOK, Synced, CacheCurrent,
                JoinsCurrent
  <1>5. ASSUME NEW c \in Callers, NEW f \in Files, NEW p \in Files,
               Ask(c, f, p)
        PROVE  IInv'
    BY <1>5, AskKeeps
  <1>6. ASSUME NEW k \in Fetches, FetchEnds(k) PROVE IInv'
    BY <1>6, EndKeeps
  <1>7. CASE UNCHANGED vars
    BY <1>7 DEF vars, credVars, cacheVars, IInv, TypeOK, Synced,
                CacheCurrent, JoinsCurrent
  <1> QED BY <1>1, <1>2, <1>3, <1>4, <1>5, <1>6, <1>7 DEF Next

(* The invariant of the three below.                                       *)
THEOREM Inductive == Spec => []IInv
  <1> QED BY Start0, Step, PTL DEF Spec

(* Types, and every task in flight runs for that credential.               *)
THEOREM TypeCorrect == Spec => []TypeOK
  <1>1. IInv => TypeOK
    BY DEF IInv
  <1> QED BY <1>1, Inductive, PTL

(* No list of an earlier token is kept for a credential, whenever the      *)
(* fetch that brought it was started.                                      *)
THEOREM CacheSafe == Spec => []CacheCurrent
  <1>1. IInv => CacheCurrent
    BY DEF IInv
  <1> QED BY <1>1, Inductive, PTL

(* No request joins a fetch for an earlier token.                          *)
THEOREM JoinSafe == Spec => []JoinsCurrent
  <1>1. IInv => JoinsCurrent
    BY DEF IInv
  <1> QED BY <1>1, Inductive, PTL
=============================================================================
