-------------------------- MODULE CheckinGateProofs --------------------------
(***************************************************************************)
(* Proofs about CheckinGate for any credentials, accounts and requests:    *)
(* the gate excludes, loses no wake-up where a cancelled wait forwards it, *)
(* and an account that is checked in is not asked again that day.          *)
(***************************************************************************)
EXTENDS CheckinGate, WellFoundedInduction, TLAPS

-----------------------------------------------------------------------------
(* Whoever waits for the gate of a, woken or not.                          *)
WaitsAt(c, a) == at[c].key = a /\ (Is(c, "waiting") \/ Is(c, "notified"))

PostsAt(c, a) == at[c].key = a /\ Is(c, "posting")

Types ==
    /\ owner \in [Creds -> Accounts \union {None}]
    /\ record \in [Accounts -> Answers \union {None}]
    /\ active \in [Accounts -> {"manual", "auto", None}]
    /\ manualWaiter \in [Accounts -> BOOLEAN]
    /\ autoWaiter \in [Accounts -> BOOLEAN]
    /\ at \in [Tasks -> [stage : Stages, cred : Creds \union {None},
                         key : Accounts \union {None}]]

(* What a coroutine needs where it is suspended.                           *)
Needs ==
    \A c \in Tasks :
        /\ at[c].stage \in {"waiting", "notified", "posting"} =>
              at[c].key \in Accounts
        /\ at[c].stage \in {"pacing", "waiting", "notified"} =>
              at[c].cred \in Creds

(* The gate is active for the one who posts, and only then.                *)
Posters ==
    /\ \A c \in Tasks, a \in Accounts : PostsAt(c, a) => active[a] = Source(c)
    /\ \A c, d \in Tasks, a \in Accounts :
          PostsAt(c, a) /\ PostsAt(d, a) => c = d
    /\ \A a \in Accounts : active[a] # None => \E c \in Tasks : PostsAt(c, a)

(* At most one of each source waits, with its flag up, and not for its own *)
(* source: an active request refuses a second one at once.                 *)
Waiters ==
    /\ \A c \in Tasks, a \in Accounts :
          WaitsAt(c, a) => /\ active[a] # Source(c)
                           /\ IF c \in Manuals THEN manualWaiter[a]
                                               ELSE autoWaiter[a]
    /\ \A c, d \in Tasks, a \in Accounts :
          WaitsAt(c, a) /\ WaitsAt(d, a) /\ Source(c) = Source(d) => c = d
    /\ \A a \in Accounts :
          /\ manualWaiter[a] => \E c \in Manuals : WaitsAt(c, a)
          /\ autoWaiter[a] => \E c \in Autos : WaitsAt(c, a)

Wakers ==
    \A c \in Tasks, a \in Accounts :
        at[c].key = a /\ Is(c, "waiting") =>
            \/ active[a] # None
            \/ \E d \in Autos : at[d].key = a /\ Is(d, "notified")

Gate == Types /\ Needs /\ Posters /\ Waiters

(* Flags that tell of the waiters but c.                                   *)
FlagsBut(c) ==
    /\ manualWaiter' \in [Accounts -> BOOLEAN]
    /\ autoWaiter' \in [Accounts -> BOOLEAN]
    /\ \A d \in Tasks \ {c}, a \in Accounts :
          WaitsAt(d, a) => IF d \in Manuals THEN manualWaiter'[a]
                                            ELSE autoWaiter'[a]
    /\ \A a \in Accounts :
          /\ manualWaiter'[a] => \E d \in Manuals \ {c} : WaitsAt(d, a)
          /\ autoWaiter'[a] => \E d \in Autos \ {c} : WaitsAt(d, a)

(* A coroutine has one of the two sources.                                 *)
LEMMA SourceIs ==
    \A c \in Tasks : /\ Source(c) \in {"manual", "auto"} /\ Source(c) # None
                     /\ Source(c) = "manual" <=> c \in Manuals
                     /\ Source(c) = "auto" <=> c \in Autos
BY NoneIsNothing, JobsApart DEF Source, Tasks

-----------------------------------------------------------------------------
(* The gate is released by its holder, or by one who has just claimed it.  *)
LEMMA ReleaseKeeps ==
    ASSUME Gate, NEW c \in Tasks, NEW a \in Accounts,
           NEW next \in [stage : {"idle", "barrier"}, cred : Creds \union {None},
                         key : Accounts \union {None}],
           Release(c, a, next),
           PostsAt(c, a) \/ (active[a] = None /\ ~Is(c, "posting")),
           \A b : WaitsAt(c, b) => b = a,
           FlagsBut(c), owner' = owner,
           record' \in [Accounts -> Answers \union {None}]
    PROVE  Gate' /\ (Wakers => Wakers')
<1> USE DEF Gate
<1>1. /\ at'[c] = next
      /\ next.stage \notin {"waiting", "notified", "posting", "pacing"}
  BY DEF Release
<1>2. \A d \in Tasks \ {c} :
        /\ at'[d].key = at[d].key /\ at'[d].cred = at[d].cred
        /\ at'[d].stage = IF WaitsFor(d, a) THEN "notified" ELSE at[d].stage
  BY DEF Release, Notified, Types
<1>3. \A b \in Accounts : active'[b] = IF b = a THEN None ELSE active[b]
  BY DEF Release, Types
<1>4. \A d \in Tasks \ {c} : \A b : WaitsAt(d, b)' <=> WaitsAt(d, b)
  BY <1>2 DEF WaitsAt, WaitsFor, Is
<1>5. \A d \in Tasks \ {c} : \A b : PostsAt(d, b)' <=> PostsAt(d, b)
  BY <1>2 DEF PostsAt, WaitsFor, Is
<1>6. \A b : ~WaitsAt(c, b)' /\ ~PostsAt(c, b)'
  BY <1>1 DEF WaitsAt, PostsAt, Is
<1>7. Types'
  <2>1. at' \in [Tasks -> [stage : Stages, cred : Creds \union {None},
                           key : Accounts \union {None}]]
    BY <1>1, <1>2 DEF Release, Notified, Types, Stages
  <2>2. active' \in [Accounts -> {"manual", "auto", None}]
    BY DEF Release, Types
  <2> QED
    BY <2>1, <2>2 DEF Types, FlagsBut
<1>8. Needs'
  BY <1>1, <1>2 DEF Needs, WaitsFor, Is
<1>9. \A d \in Tasks \ {c} : ~PostsAt(d, a)
  BY SourceIs DEF Posters
<1>10. Posters'
  <2>1. \A d \in Tasks, b \in Accounts : PostsAt(d, b)' => active'[b] = Source(d)
    BY <1>3, <1>5, <1>6, <1>9 DEF Posters
  <2>2. \A d, e \in Tasks, b \in Accounts :
          PostsAt(d, b)' /\ PostsAt(e, b)' => d = e
    BY <1>5, <1>6 DEF Posters
  <2>3. \A b \in Accounts : active'[b] # None => \E d \in Tasks : PostsAt(d, b)'
    <3> SUFFICES ASSUME NEW b \in Accounts, active'[b] # None
                 PROVE  \E d \in Tasks : PostsAt(d, b)'
      OBVIOUS
    <3>1. b # a /\ active[b] # None
      BY <1>3
    <3>2. PICK d \in Tasks : PostsAt(d, b)
      BY <3>1 DEF Posters
    <3>3. d # c
      BY <3>1, <3>2 DEF PostsAt
    <3> QED
      BY <3>2, <3>3, <1>5
  <2> QED
    BY <2>1, <2>2, <2>3 DEF Posters, Source
<1>11. Waiters'
  <2>1. \A d \in Tasks, b \in Accounts :
          WaitsAt(d, b)' => active'[b] # Source(d)
    BY <1>3, <1>4, <1>6, SourceIs DEF Waiters
  <2>2. \A d \in Tasks, b \in Accounts : WaitsAt(d, b)' =>
          IF d \in Manuals THEN manualWaiter'[b] ELSE autoWaiter'[b]
    BY <1>4, <1>6 DEF FlagsBut
  <2>3. \A d, e \in Tasks, b \in Accounts :
          WaitsAt(d, b)' /\ WaitsAt(e, b)' /\ Source(d) = Source(e) => d = e
    BY <1>4, <1>6 DEF Waiters
  <2>4. \A b \in Accounts :
          /\ manualWaiter'[b] => \E d \in Manuals : WaitsAt(d, b)'
          /\ autoWaiter'[b] => \E d \in Autos : WaitsAt(d, b)'
    BY <1>4 DEF FlagsBut, Tasks
  <2> QED
    BY <2>1, <2>2, <2>3, <2>4 DEF Waiters, Source
<1>12. Wakers => Wakers'
  <2> SUFFICES ASSUME Wakers, NEW d \in Tasks, NEW b \in Accounts,
                      at'[d].key = b, at'[d].stage = "waiting"
               PROVE  \/ active'[b] # None
                      \/ \E e \in Autos : at'[e].key = b
                                          /\ at'[e].stage = "notified"
    BY DEF Wakers, Is
  <2>1. d # c /\ at[d].key = b /\ at[d].stage = "waiting" /\ b # a
    BY <1>1, <1>2 DEF WaitsFor, Is
  <2>2. CASE active[b] # None
    BY <1>3, <2>1, <2>2
  <2>3. CASE active[b] = None
    <3>1. PICK e \in Autos : at[e].key = b /\ at[e].stage = "notified"
      BY <2>1, <2>3 DEF Wakers, Is
    <3>2. e # c /\ e \in Tasks
      BY <2>1, <3>1 DEF WaitsAt, Is, Tasks
    <3> QED
      BY <1>2, <3>1, <3>2 DEF WaitsFor, Is
  <2> QED
    BY <2>2, <2>3
<1> QED
  BY <1>7, <1>8, <1>10, <1>11, <1>12

(* A request is sent by one who has just claimed a free gate.              *)
LEMMA SendKeeps ==
    ASSUME Gate, NEW c \in Tasks, NEW a \in Accounts, Send(c, a),
           active[a] = None, ~Is(c, "posting"),
           \A b : WaitsAt(c, b) => b = a,
           \A d \in Tasks \ {c} : WaitsAt(d, a) => Source(d) # Source(c),
           FlagsBut(c), UNCHANGED <<owner, record>>
    PROVE  Gate' /\ (Wakers => Wakers')
<1> USE DEF Gate
<1>1. at'[c] = At("posting", None, a)
  BY DEF Send, Types
<1>2. \A d \in Tasks \ {c} : at'[d] = at[d]
  BY DEF Send, Types
<1>3. \A b \in Accounts : active'[b] = IF b = a THEN Source(c) ELSE active[b]
  BY DEF Send, Types
<1>4. \A d \in Tasks \ {c} : \A b :
        /\ WaitsAt(d, b)' <=> WaitsAt(d, b)
        /\ PostsAt(d, b)' <=> PostsAt(d, b)
  BY <1>2 DEF WaitsAt, PostsAt, Is
<1>5. \A b : ~WaitsAt(c, b)' /\ (PostsAt(c, b)' <=> b = a)
  BY <1>1 DEF WaitsAt, PostsAt, Is, At
<1>6. Types'
  <2>1. At("posting", None, a) \in [stage : Stages, cred : Creds \union {None},
                                    key : Accounts \union {None}]
    BY DEF At, Stages
  <2> QED
    BY <2>1, SourceIs DEF Send, Types, FlagsBut
<1>7. Needs'
  BY <1>1, <1>2 DEF Needs, At
<1>8. \A d \in Tasks : ~PostsAt(d, a) /\ \A b : ~PostsAt(c, b)
  BY SourceIs DEF Posters, PostsAt
<1>9. Posters'
  <2>1. \A d \in Tasks, b \in Accounts : PostsAt(d, b)' => active'[b] = Source(d)
    BY <1>3, <1>4, <1>5, <1>8 DEF Posters
  <2>2. \A d, e \in Tasks, b \in Accounts :
          PostsAt(d, b)' /\ PostsAt(e, b)' => d = e
    BY <1>4, <1>5, <1>8 DEF Posters
  <2>3. \A b \in Accounts : active'[b] # None => \E d \in Tasks : PostsAt(d, b)'
    BY <1>3, <1>4, <1>5, <1>8 DEF Posters
  <2> QED
    BY <2>1, <2>2, <2>3 DEF Posters, Source
<1>10. Waiters'
  <2>1. \A d \in Tasks, b \in Accounts :
          WaitsAt(d, b)' => active'[b] # Source(d)
    BY <1>3, <1>4, <1>5 DEF Waiters
  <2>2. \A d \in Tasks, b \in Accounts : WaitsAt(d, b)' =>
          IF d \in Manuals THEN manualWaiter'[b] ELSE autoWaiter'[b]
    BY <1>4, <1>5 DEF FlagsBut
  <2>3. \A d, e \in Tasks, b \in Accounts :
          WaitsAt(d, b)' /\ WaitsAt(e, b)' /\ Source(d) = Source(e) => d = e
    BY <1>4, <1>5 DEF Waiters
  <2>4. \A b \in Accounts :
          /\ manualWaiter'[b] => \E d \in Manuals : WaitsAt(d, b)'
          /\ autoWaiter'[b] => \E d \in Autos : WaitsAt(d, b)'
    BY <1>4 DEF FlagsBut, Tasks
  <2> QED
    BY <2>1, <2>2, <2>3, <2>4 DEF Waiters, Source
<1>11. Wakers => Wakers'
  <2> SUFFICES ASSUME Wakers, NEW d \in Tasks, NEW b \in Accounts,
                      at'[d].key = b, at'[d].stage = "waiting"
               PROVE  \/ active'[b] # None
                      \/ \E e \in Autos : at'[e].key = b
                                          /\ at'[e].stage = "notified"
    BY DEF Wakers, Is
  <2>1. CASE b = a
    BY <1>3, <2>1, SourceIs
  <2>2. CASE b # a
    <3>1. d # c /\ at[d].key = b /\ at[d].stage = "waiting"
      BY <1>1, <1>2, <2>2 DEF At
    <3>2. \A e \in Autos : at[e].key = b /\ at[e].stage = "notified" => e # c
      BY <2>2 DEF WaitsAt, Is
    <3> QED
      BY <1>2, <1>3, <2>2, <3>1, <3>2 DEF Wakers, Is, Tasks
  <2> QED
    BY <2>1, <2>2
<1> QED
  BY <1>6, <1>7, <1>9, <1>10, <1>11

(* What follows a claim is one of the two.                                 *)
LEMMA ProceedKeeps ==
    ASSUME Gate, NEW c \in Tasks, NEW k \in Creds, NEW a \in Accounts,
           Proceed(c, k, a), active[a] = None, ~Is(c, "posting"),
           \A b : WaitsAt(c, b) => b = a,
           \A d \in Tasks \ {c} : WaitsAt(d, a) => Source(d) # Source(c),
           FlagsBut(c), UNCHANGED <<owner, record>>
    PROVE  Gate' /\ (Wakers => Wakers')
<1>1. CASE Refused(c, k, a)
  <2>1. Seen(c, k, a) \in [stage : {"idle", "barrier"},
                           cred : Creds \union {None},
                           key : Accounts \union {None}]
    BY DEF Seen, Idle, At
  <2>2. Release(c, a, Seen(c, k, a)) /\ owner' = owner
        /\ record' \in [Accounts -> Answers \union {None}]
    BY <1>1 DEF Proceed, Gate, Types
  <2> QED
    BY <2>1, <2>2, ReleaseKeeps
<1>2. CASE ~Refused(c, k, a)
  BY <1>2, SendKeeps DEF Proceed
<1> QED
  BY <1>1, <1>2

(* A place apart from every gate.                                          *)
Apart(v) == v.stage \in {"idle", "pacing", "barrier"}

(* Coroutines that are apart from every gate may move as long as they stay *)
(* so.                                                                     *)
LEMMA ApartKeeps ==
    ASSUME Gate, UNCHANGED <<active, manualWaiter, autoWaiter>>,
           owner' \in [Creds -> Accounts \union {None}],
           record' \in [Accounts -> Answers \union {None}],
           at' \in [Tasks -> [stage : Stages, cred : Creds \union {None},
                              key : Accounts \union {None}]],
           \A c \in Tasks :
              at'[c] = at[c] \/ (Apart(at[c]) /\ Apart(at'[c])),
           \A c \in Tasks : at'[c].stage = "pacing" => at'[c].cred \in Creds
    PROVE  Gate' /\ (Wakers => Wakers')
<1> USE DEF Gate
<1>1. \A c \in Tasks : \A a :
        /\ WaitsAt(c, a)' <=> WaitsAt(c, a)
        /\ PostsAt(c, a)' <=> PostsAt(c, a)
  BY DEF WaitsAt, PostsAt, Is, Apart
<1>2. Types' /\ Needs'
  BY DEF Types, Needs, Apart
<1>3. Posters'
  BY <1>1 DEF Posters, Source
<1>4. Waiters'
  <2>1. \A c \in Tasks, a \in Accounts :
          WaitsAt(c, a)' => /\ active'[a] # Source(c)
                            /\ IF c \in Manuals THEN manualWaiter'[a]
                                                ELSE autoWaiter'[a]
    BY <1>1 DEF Waiters
  <2>2. \A d, e \in Tasks, b \in Accounts :
          WaitsAt(d, b)' /\ WaitsAt(e, b)' /\ Source(d) = Source(e) => d = e
    BY <1>1 DEF Waiters
  <2>3. \A b \in Accounts :
          /\ manualWaiter'[b] => \E d \in Manuals : WaitsAt(d, b)'
          /\ autoWaiter'[b] => \E d \in Autos : WaitsAt(d, b)'
    BY <1>1 DEF Waiters, Tasks
  <2> QED
    BY <2>1, <2>2, <2>3 DEF Waiters, Source
<1>5. Wakers => Wakers'
  <2> SUFFICES ASSUME Wakers, NEW d \in Tasks, NEW b \in Accounts,
                      at'[d].key = b, at'[d].stage = "waiting"
               PROVE  \/ active'[b] # None
                      \/ \E e \in Autos : at'[e].key = b
                                          /\ at'[e].stage = "notified"
    BY DEF Wakers, Is
  <2>1. at'[d] = at[d]
    BY DEF Apart
  <2>2. \A e \in Autos : at[e].stage = "notified" => at'[e] = at[e]
    BY DEF Apart, Tasks
  <2> QED
    BY <2>1, <2>2 DEF Wakers, Is
<1> QED
  BY <1>2, <1>3, <1>4, <1>5

(* One that is apart begins to wait, or a woken one goes on waiting, while *)
(* the gate is active or the other source is about to claim it.            *)
LEMMA WaitKeeps ==
    ASSUME Gate, NEW c \in Tasks, NEW k \in Creds, NEW a \in Accounts,
           at' = [at EXCEPT ![c] = At("waiting", k, a)],
           Apart(at[c]) \/ WaitsAt(c, a),
           \A d \in Tasks \ {c} : WaitsAt(d, a) => Source(d) # Source(c),
           active[a] # Source(c),
           UNCHANGED <<owner, record, active>>,
           c \in Manuals =>
              /\ manualWaiter' = [manualWaiter EXCEPT ![a] = TRUE]
              /\ UNCHANGED autoWaiter,
           c \notin Manuals =>
              /\ autoWaiter' = [autoWaiter EXCEPT ![a] = TRUE]
              /\ UNCHANGED manualWaiter
    PROVE  /\ Gate'
           /\ Wakers /\ (active[a] # None \/ (autoWaiter[a] /\ c \in Manuals))
                => Wakers'
<1> USE DEF Gate
<1>1. /\ at'[c] = At("waiting", k, a)
      /\ \A d \in Tasks \ {c} : at'[d] = at[d]
  BY DEF Types
<1>2. \A d \in Tasks \ {c} : \A b :
        /\ WaitsAt(d, b)' <=> WaitsAt(d, b)
        /\ PostsAt(d, b)' <=> PostsAt(d, b)
  BY <1>1 DEF WaitsAt, PostsAt, Is
<1>3. \A b : /\ WaitsAt(c, b)' <=> b = a
             /\ WaitsAt(c, b) => b = a
             /\ ~PostsAt(c, b)' /\ ~PostsAt(c, b)
  BY <1>1 DEF WaitsAt, PostsAt, Is, At, Apart
<1>4. Types'
  <2>1. At("waiting", k, a) \in [stage : Stages, cred : Creds \union {None},
                                 key : Accounts \union {None}]
    BY DEF At, Stages
  <2>2. manualWaiter' \in [Accounts -> BOOLEAN]
        /\ autoWaiter' \in [Accounts -> BOOLEAN]
    BY DEF Types
  <2> QED
    BY <2>1, <2>2 DEF Types
<1>5. Needs'
  BY <1>1 DEF Needs, At
<1>6. Posters'
  <2>1. \A d \in Tasks : \A b : PostsAt(d, b)' <=> PostsAt(d, b)
    BY <1>2, <1>3
  <2> QED
    BY <2>1 DEF Posters, Source
<1>7. Waiters'
  <2>1. \A d \in Tasks, b \in Accounts :
          WaitsAt(d, b)' => active'[b] # Source(d)
    BY <1>2, <1>3 DEF Waiters
  <2>2. \A d \in Tasks, b \in Accounts : WaitsAt(d, b)' =>
          IF d \in Manuals THEN manualWaiter'[b] ELSE autoWaiter'[b]
    BY <1>2, <1>3 DEF Waiters, Types
  <2>3. \A d, e \in Tasks, b \in Accounts :
          WaitsAt(d, b)' /\ WaitsAt(e, b)' /\ Source(d) = Source(e) => d = e
    BY <1>2, <1>3 DEF Waiters
  <2>4. \A b \in Accounts :
          /\ manualWaiter'[b] => \E d \in Manuals : WaitsAt(d, b)'
          /\ autoWaiter'[b] => \E d \in Autos : WaitsAt(d, b)'
    <3> SUFFICES ASSUME NEW b \in Accounts
                 PROVE  /\ manualWaiter'[b] => \E d \in Manuals : WaitsAt(d, b)'
                        /\ autoWaiter'[b] => \E d \in Autos : WaitsAt(d, b)'
      OBVIOUS
    <3>1. CASE b = a
      BY <3>1, <1>2, <1>3 DEF Waiters, Types, Tasks
    <3>2. CASE b # a
      <4>1. manualWaiter'[b] = manualWaiter[b] /\ autoWaiter'[b] = autoWaiter[b]
        BY <3>2 DEF Types
      <4> QED
        BY <3>2, <4>1, <1>2, <1>3 DEF Waiters, Tasks
    <3> QED
      BY <3>1, <3>2
  <2> QED
    BY <2>1, <2>2, <2>3, <2>4 DEF Waiters, Source
<1>8. ASSUME Wakers, active[a] # None \/ (autoWaiter[a] /\ c \in Manuals)
      PROVE  Wakers'
  <2> SUFFICES ASSUME NEW d \in Tasks, NEW b \in Accounts,
                      at'[d].key = b, at'[d].stage = "waiting",
                      active'[b] = None
               PROVE  \E e \in Autos : at'[e].key = b
                                       /\ at'[e].stage = "notified"
    BY DEF Wakers, Is
  <2>1. CASE b = a
    <3>1. PICK e \in Autos : WaitsAt(e, a)
      BY <1>8, <2>1 DEF Waiters
    <3>2. e # c /\ e \in Tasks /\ at'[e] = at[e] /\ at[e].key = a
      BY <1>1, <1>8, <2>1, <3>1, JobsApart DEF Tasks, WaitsAt
    <3>3. CASE Is(e, "notified")
      BY <2>1, <3>2, <3>3 DEF Is
    <3>4. CASE Is(e, "waiting")
      <4>1. PICK g \in Autos : at[g].key = a /\ Is(g, "notified")
        BY <1>8, <2>1, <3>2, <3>4 DEF Wakers
      <4>2. g # c /\ g \in Tasks
        BY <1>8, <2>1, <4>1, JobsApart DEF Tasks
      <4> QED
        BY <1>1, <2>1, <4>1, <4>2 DEF Is
    <3> QED
      BY <3>1, <3>3, <3>4 DEF WaitsAt
  <2>2. CASE b # a
    <3>1. d # c /\ at'[d] = at[d]
      BY <1>1, <2>2 DEF At
    <3>2. PICK e \in Autos : at[e].key = b /\ Is(e, "notified")
      BY <1>8, <3>1 DEF Wakers, Is
    <3>3. e # c /\ e \in Tasks
      BY <2>2, <3>2 DEF WaitsAt, Is, Apart, Tasks
    <3> QED
      BY <1>1, <3>2, <3>3 DEF Is
  <2> QED
    BY <2>1, <2>2
<1> QED
  BY <1>4, <1>5, <1>6, <1>7, <1>8

(* Flags that nobody changes tell of the others, when c does not wait.     *)
LEMMA FlagsKept ==
    ASSUME Gate, NEW c \in Tasks, \A b : ~WaitsAt(c, b),
           UNCHANGED <<manualWaiter, autoWaiter>>
    PROVE  FlagsBut(c)
BY DEF Gate, Types, Waiters, FlagsBut, Tasks

-----------------------------------------------------------------------------
(* A request is refused, waits or goes on with the gate.                   *)
LEMMA ManualKeeps ==
    ASSUME Gate, NEW c \in Manuals, NEW k \in Creds, ManualCheckin(c, k)
    PROVE  Gate' /\ (Wakers => Wakers')
<1> DEFINE a == owner[k]
<1>1. a \in Accounts /\ c \in Tasks
  BY DEF ManualCheckin, Gate, Types, Tasks
<1>2. \A d \in Tasks \ {c} : WaitsAt(d, a) => Source(d) # Source(c)
  BY <1>1, SourceIs DEF ManualCheckin, Gate, Waiters
<1>3. /\ Source(c) = "manual" /\ active[a] # Source(c)
      /\ active[a] \in {"manual", "auto", None}
  BY <1>1 DEF ManualCheckin, Source, Gate, Types
<1>4. \A b : ~WaitsAt(c, b)
  BY DEF ManualCheckin, WaitsAt, Is
<1>5. Apart(at[c]) /\ ~Is(c, "posting") /\ UNCHANGED <<owner, record>>
  BY DEF ManualCheckin, Apart, Is
<1>6. CASE active[a] = "auto" \/ autoWaiter[a]
  <2>1. /\ at' = [at EXCEPT ![c] = At("waiting", k, a)]
        /\ manualWaiter' = [manualWaiter EXCEPT ![a] = TRUE]
        /\ UNCHANGED <<autoWaiter, active>>
    BY <1>6 DEF ManualCheckin
  <2>2. active[a] # None \/ autoWaiter[a]
    BY <1>6, NoneIsNothing
  <2> HIDE DEF a
  <2> QED
    BY <1>1, <1>2, <1>3, <1>5, <2>1, <2>2, WaitKeeps
<1>7. CASE ~(active[a] = "auto" \/ autoWaiter[a])
  <2>1. /\ active[a] = None /\ Proceed(c, k, a)
        /\ UNCHANGED <<manualWaiter, autoWaiter>>
    BY <1>3, <1>7 DEF ManualCheckin
  <2>2. FlagsBut(c)
    BY <1>1, <1>4, <2>1, FlagsKept
  <2> HIDE DEF a
  <2> QED
    BY <1>1, <1>2, <1>4, <1>5, <2>1, <2>2, ProceedKeeps
<1> QED
  BY <1>6, <1>7

(* So does a job of the cycle that has the pacer.                          *)
LEMMA AutoKeeps ==
    ASSUME Gate, NEW c \in Autos, AutoCheckin(c)
    PROVE  Gate' /\ (Wakers => Wakers')
<1> DEFINE k == at[c].cred
           a == owner[k]
<1>1. c \in Tasks /\ c \notin Manuals /\ Source(c) = "auto" /\ k \in Creds
      /\ a \in Accounts \union {None}
  BY JobsApart DEF AutoCheckin, Gate, Needs, Is, Tasks, Types, Source
<1>2. \A b : ~WaitsAt(c, b)
  BY DEF AutoCheckin, WaitsAt, Is
<1>3. Apart(at[c]) /\ ~Is(c, "posting") /\ UNCHANGED <<owner, record>>
  BY DEF AutoCheckin, Apart, Is
<1>4. a \in Accounts /\ ~autoWaiter[a] =>
        \A d \in Tasks \ {c} : WaitsAt(d, a) => Source(d) # Source(c)
  BY <1>1, SourceIs DEF Gate, Waiters
<1>5. CASE at' = [at EXCEPT ![c] = Idle]
           /\ UNCHANGED <<active, manualWaiter, autoWaiter>>
  <2>1. Idle \in [stage : Stages, cred : Creds \union {None},
                  key : Accounts \union {None}]
    BY DEF Idle, Stages
  <2>2. at' \in [Tasks -> [stage : Stages, cred : Creds \union {None},
                           key : Accounts \union {None}]]
    BY <1>5, <2>1 DEF Gate, Types
  <2>3. \A d \in Tasks : at'[d] = IF d = c THEN Idle ELSE at[d]
    BY <1>5 DEF Gate, Types
  <2>4. Apart(Idle) /\ Idle.stage # "pacing"
    BY DEF Idle, Apart
  <2>5. \A d \in Tasks : at[d].stage = "pacing" => at[d].cred \in Creds
    BY DEF Gate, Needs
  <2>6. owner' \in [Creds -> Accounts \union {None}]
        /\ record' \in [Accounts -> Answers \union {None}]
    BY <1>3 DEF Gate, Types
  <2> QED
    BY <1>3, <1>5, <2>2, <2>3, <2>4, <2>5, <2>6, ApartKeeps
<1>6. CASE /\ a # None /\ active[a] = "manual" /\ ~autoWaiter[a]
           /\ autoWaiter' = [autoWaiter EXCEPT ![a] = TRUE]
           /\ at' = [at EXCEPT ![c] = At("waiting", k, a)]
           /\ UNCHANGED <<active, manualWaiter>>
  <2>1. a \in Accounts /\ active[a] # None /\ active[a] # Source(c)
    BY <1>1, <1>6, NoneIsNothing
  <2>2. /\ UNCHANGED <<owner, record, active>>
        /\ \A d \in Tasks \ {c} : WaitsAt(d, a) => Source(d) # Source(c)
    BY <1>3, <1>4, <1>6, <2>1
  <2>3. /\ c \in Manuals =>
              /\ manualWaiter' = [manualWaiter EXCEPT ![a] = TRUE]
              /\ UNCHANGED autoWaiter
        /\ c \notin Manuals =>
              /\ autoWaiter' = [autoWaiter EXCEPT ![a] = TRUE]
              /\ UNCHANGED manualWaiter
    BY <1>1, <1>6
  <2>4. at' = [at EXCEPT ![c] = At("waiting", k, a)]
    BY <1>6
  <2> HIDE DEF a, k
  <2> QED
    BY <1>1, <1>3, <2>1, <2>2, <2>3, <2>4, WaitKeeps
<1>7. CASE /\ a # None /\ active[a] = None /\ ~autoWaiter[a]
           /\ Proceed(c, k, a)
           /\ UNCHANGED <<manualWaiter, autoWaiter>>
  <2>1. a \in Accounts
    BY <1>1, <1>7
  <2>2. FlagsBut(c)
    BY <1>1, <1>2, <1>7, FlagsKept
  <2> HIDE DEF a, k
  <2> QED
    BY <1>1, <1>2, <1>3, <1>4, <1>7, <2>1, <2>2, ProceedKeeps
<1> QED
  BY <1>5, <1>6, <1>7 DEF AutoCheckin

(* One that is woken waits on, or stops waiting and goes on.               *)
LEMMA WakeUpKeeps ==
    ASSUME Gate, NEW c \in Tasks, WakeUp(c)
    PROVE  Gate' /\ (Wakers => Wakers')
<1> DEFINE k == at[c].cred
           a == at[c].key
<1>1. a \in Accounts /\ k \in Creds /\ Is(c, "notified") /\ WaitsAt(c, a)
  BY DEF WakeUp, Gate, Needs, Is, WaitsAt
<1>2. \A b : WaitsAt(c, b) => b = a
  BY DEF WaitsAt
<1>3. \A d \in Tasks \ {c} : WaitsAt(d, a) => Source(d) # Source(c)
  BY <1>1 DEF Gate, Waiters
<1>4. /\ active[a] # Source(c)
      /\ active[a] \in {"manual", "auto", None}
      /\ IF c \in Manuals THEN manualWaiter[a] ELSE autoWaiter[a]
  BY <1>1 DEF Gate, Waiters, Types
<1>5. UNCHANGED <<owner, record>> /\ ~Is(c, "posting")
  BY <1>1 DEF WakeUp, Is
<1>6. CASE MustWait(c)
  <2>1. at[c] = [stage |-> "notified", cred |-> k, key |-> a]
    BY <1>1 DEF Gate, Types, Is
  <2>2. at' = [at EXCEPT ![c] = At("waiting", k, a)]
    BY <1>6, <2>1 DEF WakeUp, At, Gate, Types
  <2>3. UNCHANGED <<active, manualWaiter, autoWaiter>>
    BY <1>6 DEF WakeUp
  <2>4. /\ c \in Manuals =>
              /\ manualWaiter' = [manualWaiter EXCEPT ![a] = TRUE]
              /\ UNCHANGED autoWaiter
        /\ c \notin Manuals =>
              /\ autoWaiter' = [autoWaiter EXCEPT ![a] = TRUE]
              /\ UNCHANGED manualWaiter
    BY <1>1, <1>4, <2>3 DEF Gate, Types
  <2>6. UNCHANGED <<owner, record, active>>
    BY <1>5, <2>3
  <2>5. active[a] # None \/ (autoWaiter[a] /\ c \in Manuals)
    BY <1>6, NoneIsNothing DEF MustWait
  <2> HIDE DEF a, k
  <2> QED
    BY <1>1, <1>3, <1>4, <2>2, <2>4, <2>5, <2>6, WaitKeeps
<1>7. CASE ~MustWait(c)
  <2>1. active[a] = None
    BY <1>4, <1>7 DEF MustWait, Source
  <2>2. StopsWaiting(c) /\ Proceed(c, k, a)
    BY <1>7 DEF WakeUp
  <2>3. FlagsBut(c)
    <3>1. manualWaiter' \in [Accounts -> BOOLEAN]
          /\ autoWaiter' \in [Accounts -> BOOLEAN]
      BY <2>2 DEF StopsWaiting, Gate, Types
    <3>2. \A d \in Tasks \ {c}, b \in Accounts : WaitsAt(d, b) =>
             IF d \in Manuals THEN manualWaiter'[b] ELSE autoWaiter'[b]
      BY <1>1, <1>3, <2>2, SourceIs DEF StopsWaiting, Gate, Types, Waiters, Tasks
    <3>3. \A b \in Accounts :
            /\ manualWaiter'[b] => manualWaiter[b] /\ (c \in Manuals => b # a)
            /\ autoWaiter'[b] => autoWaiter[b] /\ (c \in Autos => b # a)
      BY <1>1, <2>2, JobsApart DEF StopsWaiting, Gate, Types
    <3>4. \A b \in Accounts :
            /\ manualWaiter'[b] => \E d \in Manuals \ {c} : WaitsAt(d, b)
            /\ autoWaiter'[b] => \E d \in Autos \ {c} : WaitsAt(d, b)
      BY <1>2, <3>3 DEF Gate, Waiters
    <3> QED
      BY <3>1, <3>2, <3>4 DEF FlagsBut
  <2> HIDE DEF a, k
  <2> QED
    BY <1>1, <1>2, <1>3, <1>5, <2>1, <2>2, <2>3, ProceedKeeps
<1> QED
  BY <1>6, <1>7

(* The answer of a check-in frees its gate.                                *)
LEMMA PostEndsKeeps ==
    ASSUME Gate, NEW c \in Tasks, PostEnds(c)
    PROVE  Gate' /\ (Wakers => Wakers')
<1> DEFINE a == at[c].key
<1>1. a \in Accounts /\ PostsAt(c, a)
  BY DEF PostEnds, Gate, Needs, Is, PostsAt
<1>2. \A b : ~WaitsAt(c, b)
  BY DEF PostEnds, WaitsAt, Is
<1>3. FlagsBut(c) /\ owner' = owner
  BY <1>2, FlagsKept DEF PostEnds
<1>4. record' \in [Accounts -> Answers \union {None}]
  BY <1>1 DEF PostEnds, Gate, Types
<1>5. \E next \in [stage : {"idle", "barrier"}, cred : Creds \union {None},
                   key : Accounts \union {None}] : Release(c, a, next)
  <2>1. Idle \in [stage : {"idle", "barrier"}, cred : Creds \union {None},
                  key : Accounts \union {None}]
    BY DEF Idle
  <2>2. At("barrier", None, a) \in [stage : {"idle", "barrier"},
                  cred : Creds \union {None}, key : Accounts \union {None}]
    BY <1>1 DEF At
  <2> QED
    BY <2>1, <2>2 DEF PostEnds
<1> HIDE DEF a
<1> QED
  BY <1>1, <1>2, <1>3, <1>4, <1>5, ReleaseKeeps

(* The first credential of an account that has one.                        *)
LEMMA FirstIsOf ==
    ASSUME NEW a, \E k \in Creds : owner[k] = a
    PROVE  FirstOf(a) \in Creds /\ owner[FirstOf(a)] = a
<1> DEFINE less == {p \in Nat \X Nat : p[1] < p[2]}
           S == {k \in Creds : owner[k] = a}
<1>1. S \subseteq Nat /\ S # {}
  BY CredsOrdered
<1>2. IsWellFoundedOn(less, Nat)
  BY NatLessThanWellFounded DEF OpToRel
<1> HIDE DEF less
<1>3. PICK k \in S : \A j \in S : ~ (<<j, k>> \in less)
  BY <1>1, <1>2, WFMin
<1>4. \A j \in Creds : owner[j] = a => k <= j
  <2> SUFFICES ASSUME NEW j \in Creds, owner[j] = a PROVE k <= j
    OBVIOUS
  <2>1. j \in Nat /\ k \in Nat /\ <<j, k>> \notin less
    BY <1>1, <1>3
  <2> QED
    BY <2>1 DEF less
<1> QED
  BY <1>4 DEF FirstOf

(* The cycle begins its jobs apart from the gates.                         *)
LEMMA CycleKeeps ==
    ASSUME Gate, RunDailyCycle PROVE Gate' /\ (Wakers => Wakers')
<1>1. PICK answered \in SUBSET {a \in Accounts : record[a] = "failed"} :
        LET due == {a \in Accounts : Due(a)} \ answered
        IN  at' = [c \in Tasks |->
                     IF \E a \in due : c = Jobs[a]
                       THEN At("pacing",
                               FirstOf(CHOOSE a \in due : c = Jobs[a]), None)
                       ELSE at[c]]
  BY DEF RunDailyCycle
<1> DEFINE due == {a \in Accounts : Due(a)} \ answered
           begun(c) == At("pacing", FirstOf(CHOOSE a \in due : c = Jobs[a]), None)
<1>2. \A c \in Tasks :
        at'[c] = IF \E a \in due : c = Jobs[a] THEN begun(c) ELSE at[c]
  BY <1>1, Zenon
<1>3. \A a \in due : FirstOf(a) \in Creds
  BY FirstIsOf DEF Due
<1>4. ASSUME NEW c \in Tasks, \E a \in due : c = Jobs[a]
      PROVE  /\ begun(c) \in [stage : Stages, cred : Creds \union {None},
                              key : Accounts \union {None}]
             /\ begun(c).stage = "pacing" /\ begun(c).cred \in Creds
             /\ at[c].stage = "idle"
  <2>1. (CHOOSE a \in due : c = Jobs[a]) \in due
    BY <1>4
  <2>2. c \in Autos
    BY <1>4 DEF Autos
  <2> QED
    BY <1>3, <2>1, <2>2 DEF At, Stages, RunDailyCycle, Is
<1>5. DOMAIN at' = Tasks /\ at' = [c \in Tasks |-> at'[c]]
  BY <1>1, Zenon
<1> HIDE DEF due, begun
<1>6. at' \in [Tasks -> [stage : Stages, cred : Creds \union {None},
                         key : Accounts \union {None}]]
  <2>1. \A c \in Tasks : at'[c] \in [stage : Stages, cred : Creds \union {None},
                                     key : Accounts \union {None}]
    BY <1>2, <1>4 DEF Gate, Types
  <2> QED
    BY <1>5, <2>1
<1>7. \A c \in Tasks : at'[c] = at[c] \/ (Apart(at[c]) /\ Apart(at'[c]))
  BY <1>2, <1>4 DEF Apart
<1>8. \A c \in Tasks : at'[c].stage = "pacing" => at'[c].cred \in Creds
  BY <1>2, <1>4 DEF Gate, Needs
<1>9. UNCHANGED <<owner, record, active, manualWaiter, autoWaiter>>
  BY DEF RunDailyCycle, gateVars
<1> QED
  BY <1>6, <1>7, <1>8, <1>9, ApartKeeps DEF Gate, Types

(* The end of the probes releases only those who wait for them.            *)
LEMMA ProbesEndKeeps ==
    ASSUME Gate, NEW a \in Accounts, ProbesEnd(a)
    PROVE  Gate' /\ (Wakers => Wakers')
<1>1. at' = [c \in Tasks |-> IF at[c] = At("barrier", None, a) THEN Idle ELSE at[c]]
  BY DEF ProbesEnd
<1>2. Idle \in [stage : Stages, cred : Creds \union {None},
                key : Accounts \union {None}]
      /\ Apart(Idle) /\ Idle.stage = "idle" /\ Apart(At("barrier", None, a))
  BY DEF Idle, Stages, Apart, At
<1>3. at' \in [Tasks -> [stage : Stages, cred : Creds \union {None},
                         key : Accounts \union {None}]]
  BY <1>1, <1>2 DEF Gate, Types
<1>4. \A c \in Tasks : at'[c] = at[c] \/ (Apart(at[c]) /\ Apart(at'[c]))
  BY <1>1, <1>2
<1>5. \A c \in Tasks : at'[c].stage = "pacing" => at'[c].cred \in Creds
  BY <1>1, <1>2 DEF Gate, Needs
<1>6. UNCHANGED <<owner, record, active, manualWaiter, autoWaiter>>
  BY DEF ProbesEnd
<1> QED
  BY <1>3, <1>4, <1>5, <1>6, ApartKeeps DEF Gate, Types

(* The credentials change hands, midnight passes, or the manager is started *)
(* or has stopped: nobody moves.                                           *)
LEMMA StillKeeps ==
    ASSUME Gate, UNCHANGED <<at, active, manualWaiter, autoWaiter>>,
           owner' \in [Creds -> Accounts \union {None}],
           record' \in [Accounts -> Answers \union {None}]
    PROVE  Gate' /\ (Wakers => Wakers')
BY ApartKeeps DEF Gate, Types, Needs

(* Shutdown frees the gates that jobs held; a request that waits for such  *)
(* a gate, or for one whose job had been woken, is woken if a cancelled    *)
(* wait forwards its notification.                                         *)
LEMMA ShutdownKeeps ==
    ASSUME Gate, Shutdown PROVE Gate' /\ (ForwardsWakeup /\ Wakers => Wakers')
<1> USE DEF Gate
<1> DEFINE gone == {c \in Autos : ~Is(c, "idle")}
           freed == {at[c].key : c \in {d \in gone : Is(d, "posting")}}
           left == {at[c].key :
                     c \in {d \in gone : Is(d, "waiting") \/ Is(d, "notified")}}
           woken == freed \union (IF ForwardsWakeup THEN left ELSE {})
<1>1. /\ at' = [c \in Tasks |->
            IF c \in gone THEN Idle
            ELSE IF Is(c, "waiting") /\ at[c].key \in woken THEN Notified(c)
            ELSE at[c]]
      /\ active' = [a \in Accounts |-> IF a \in freed THEN None ELSE active[a]]
      /\ autoWaiter' = [a \in Accounts |-> FALSE]
      /\ UNCHANGED <<owner, record, manualWaiter>>
  BY DEF Shutdown
<1>2. \A a : a \in freed <=> \E c \in Autos : PostsAt(c, a)
  BY DEF PostsAt, Is
<1>3. \A a : ForwardsWakeup /\ (\E c \in Autos : WaitsAt(c, a)) => a \in woken
  BY DEF WaitsAt, Is
<1>4. freed \subseteq woken
  OBVIOUS
<1>5. \A c \in Autos : Idle = at'[c] \/ (at'[c] = at[c] /\ at[c].stage = "idle")
  BY <1>1 DEF Tasks, Is
<1> HIDE DEF freed, woken, left, gone
<1>6. \A c \in Autos : Is(c, "idle")'
  BY <1>5 DEF Is, Idle
<1>7. \A c \in Manuals :
        /\ at'[c].key = at[c].key /\ at'[c].cred = at[c].cred
        /\ at'[c].stage = IF at[c].stage = "waiting" /\ at[c].key \in woken
                          THEN "notified" ELSE at[c].stage
  BY <1>1, JobsApart DEF gone, Notified, Types, Tasks, Is
<1>8. \A c \in Tasks : \A b :
        /\ WaitsAt(c, b)' <=> c \in Manuals /\ WaitsAt(c, b)
        /\ PostsAt(c, b)' <=> c \in Manuals /\ PostsAt(c, b)
  BY <1>6, <1>7 DEF WaitsAt, PostsAt, Is, Tasks
<1>9. Types'
  <2>1. Idle \in [stage : Stages, cred : Creds \union {None},
                  key : Accounts \union {None}]
    BY DEF Idle, Stages
  <2>2. \A c \in Tasks : Notified(c) \in [stage : Stages, cred : Creds \union {None},
                                          key : Accounts \union {None}]
    BY DEF Notified, Types, Stages
  <2>3. at' \in [Tasks -> [stage : Stages, cred : Creds \union {None},
                           key : Accounts \union {None}]]
    BY <1>1, <2>1, <2>2 DEF Types
  <2>4. active' \in [Accounts -> {"manual", "auto", None}]
    BY <1>1 DEF Types
  <2> QED
    BY <1>1, <2>3, <2>4 DEF Types
<1>10. Needs'
  <2>1. \A c \in Autos : at'[c].stage = "idle"
    BY <1>6 DEF Is
  <2> QED
    BY <1>7, <2>1 DEF Needs, Tasks
<1>11. \A c \in Manuals, a \in Accounts : PostsAt(c, a) => a \notin freed
  BY <1>2, JobsApart DEF Posters, Tasks
<1>12. Posters'
  <2>1. \A c \in Tasks, a \in Accounts : PostsAt(c, a)' => active'[a] = Source(c)
    BY <1>1, <1>8, <1>11 DEF Posters
  <2>2. \A c, d \in Tasks, a \in Accounts : PostsAt(c, a)' /\ PostsAt(d, a)' => c = d
    BY <1>8 DEF Posters
  <2>3. \A a \in Accounts : active'[a] # None => \E c \in Tasks : PostsAt(c, a)'
    BY <1>1, <1>2, <1>8 DEF Posters, Tasks
  <2> QED
    BY <2>1, <2>2, <2>3 DEF Posters, Source
<1>13. Waiters'
  <2>1. \A c \in Tasks, a \in Accounts :
          WaitsAt(c, a)' => /\ active'[a] # Source(c)
                            /\ IF c \in Manuals THEN manualWaiter'[a]
                                                ELSE autoWaiter'[a]
    BY <1>1, <1>8, SourceIs DEF Waiters
  <2>2. \A c, d \in Tasks, a \in Accounts :
          WaitsAt(c, a)' /\ WaitsAt(d, a)' /\ Source(c) = Source(d) => c = d
    BY <1>8 DEF Waiters
  <2>3. \A a \in Accounts :
          /\ manualWaiter'[a] => \E c \in Manuals : WaitsAt(c, a)'
          /\ autoWaiter'[a] => \E c \in Autos : WaitsAt(c, a)'
    BY <1>1, <1>8 DEF Waiters, Tasks
  <2> QED
    BY <2>1, <2>2, <2>3 DEF Waiters, Source
<1>14. ForwardsWakeup /\ Wakers => Wakers'
  <2> SUFFICES ASSUME ForwardsWakeup, Wakers, NEW c \in Tasks, NEW a \in Accounts,
                      at'[c].key = a, at'[c].stage = "waiting"
               PROVE  active'[a] # None
    BY DEF Wakers, Is
  <2>1. c \in Manuals /\ at[c].key = a /\ at[c].stage = "waiting" /\ a \notin woken
    BY <1>6, <1>7 DEF Is, Tasks
  <2>2. a \notin freed
    BY <1>4, <2>1
  <2>3. active[a] # None
    BY <1>3, <2>1 DEF Wakers, WaitsAt, Is
  <2> QED
    BY <1>1, <2>2, <2>3
<1> QED
  BY <1>9, <1>10, <1>12, <1>13, <1>14

-----------------------------------------------------------------------------
(* Every step keeps the gate, and wakers where wake-ups are forwarded.     *)
LEMMA GateStep ==
    Gate /\ [Next]_vars => Gate' /\ (ForwardsWakeup /\ Wakers => Wakers')
<1> SUFFICES ASSUME Gate, [Next]_vars
             PROVE  Gate' /\ (ForwardsWakeup /\ Wakers => Wakers')
  OBVIOUS
<1>1. ASSUME NEW c \in Manuals, NEW k \in Creds, ManualCheckin(c, k)
      PROVE  Gate' /\ (Wakers => Wakers')
  BY <1>1, ManualKeeps
<1>2. ASSUME NEW c \in Autos, AutoCheckin(c)
      PROVE  Gate' /\ (Wakers => Wakers')
  BY <1>2, AutoKeeps
<1>3. ASSUME NEW c \in Tasks, TaskStep(c)
      PROVE  Gate' /\ (Wakers => Wakers')
  BY <1>3, WakeUpKeeps, PostEndsKeeps DEF TaskStep
<1>4. ASSUME NEW k \in Creds, NEW a \in Accounts \union {None}, Rebind(k, a)
      PROVE  Gate' /\ (Wakers => Wakers')
  BY <1>4, StillKeeps DEF Rebind, gateVars, taskVars, Gate, Types
<1>5. CASE ToggleAuto \/ Startup \/ ShutdownReturns \/ UNCHANGED vars
  <2>1. UNCHANGED <<at, active, manualWaiter, autoWaiter, owner, record>>
    BY <1>5 DEF ToggleAuto, Startup, ShutdownReturns, gateVars, taskVars, vars
  <2> QED
    BY <2>1, StillKeeps DEF Gate, Types
<1>6. CASE Midnight
  BY <1>6, StillKeeps DEF Midnight, gateVars, Gate, Types
<1> QED
  BY <1>1, <1>2, <1>3, <1>4, <1>5, <1>6, CycleKeeps, ProbesEndKeeps,
     ShutdownKeeps DEF Next

-----------------------------------------------------------------------------
(* The other variables.                                                    *)
Rest ==
    /\ enabled \in BOOLEAN
    /\ probing \in [Accounts -> BOOLEAN]
    /\ turn \in Autos \union {None}
    /\ late \in SUBSET Tasks
    /\ phase \in {"running", "stopping", "stopped"}

(* The rest of the type invariant is kept.                                 *)
LEMMA RestStep == Gate /\ Rest /\ [Next]_vars => Rest'
<1> SUFFICES ASSUME Gate, Rest, [Next]_vars PROVE Rest'
  OBVIOUS
<1> USE DEF Rest
<1>1. ASSUME NEW c \in Manuals, NEW k \in Creds, ManualCheckin(c, k) PROVE Rest'
  BY <1>1 DEF ManualCheckin
<1>2. CASE RunDailyCycle
  BY <1>2 DEF RunDailyCycle, gateVars
<1>3. ASSUME NEW c \in Autos, AutoCheckin(c) PROVE Rest'
  BY <1>3 DEF AutoCheckin
<1>4. ASSUME NEW c \in Tasks, WakeUp(c) PROVE Rest'
  BY <1>4 DEF WakeUp, StopsWaiting
<1>5. ASSUME NEW c \in Tasks, PostEnds(c) PROVE Rest'
  <2>1. probing' \in [Accounts -> BOOLEAN]
    BY <1>5 DEF PostEnds
  <2> QED
    BY <1>5, <2>1 DEF PostEnds
<1>6. ASSUME NEW a \in Accounts, ProbesEnd(a) PROVE Rest'
  BY <1>6 DEF ProbesEnd
<1>7. CASE Shutdown
  BY <1>7 DEF Shutdown
<1>8. CASE ShutdownReturns \/ Startup \/ ToggleAuto
  BY <1>8 DEF ShutdownReturns, Startup, ToggleAuto, gateVars, taskVars
<1>9. ASSUME NEW k \in Creds, NEW a \in Accounts \union {None}, Rebind(k, a)
      PROVE  Rest'
  BY <1>9 DEF Rebind, gateVars, taskVars
<1>10. CASE Midnight
  BY <1>10 DEF Midnight, gateVars
<1>11. CASE UNCHANGED vars
  BY <1>11 DEF vars, gateVars, taskVars
<1> QED
  BY <1>1, <1>2, <1>3, <1>4, <1>5, <1>6, <1>7, <1>8, <1>9, <1>10, <1>11
     DEF Next, TaskStep

(* Whoever goes on to ask has seen that the account is not checked in.     *)
LEMMA ProceedAsks ==
    ASSUME Gate, NEW c \in Tasks, NEW k \in Creds, NEW a \in Accounts,
           Proceed(c, k, a), OncePerDay, UNCHANGED <<record, late>>
    PROVE  OncePerDay'
<1> SUFFICES ASSUME NEW d \in Tasks, at'[d].stage = "posting", d \notin late
             PROVE  record[at'[d].key] # "success"
  BY DEF OncePerDay, Is
<1>1. CASE Refused(c, k, a)
  <2>1. at'[d].stage = "posting" => at'[d] = at[d]
    BY <1>1 DEF Proceed, Release, Seen, Idle, At, Notified, Gate, Types
  <2> QED
    BY <2>1 DEF OncePerDay, Is
<1>2. CASE ~Refused(c, k, a)
  <2>1. at'[d] = IF d = c THEN At("posting", None, a) ELSE at[d]
    BY <1>2 DEF Proceed, Send, Gate, Types
  <2>2. record[a] # "success"
    BY <1>2 DEF Refused
  <2> QED
    BY <2>1, <2>2 DEF OncePerDay, Is, At
<1> QED
  BY <1>1, <1>2

(* Nobody else asks whose place does not change.                           *)
LEMMA OthersAsk ==
    ASSUME OncePerDay, record' = record, late \subseteq late',
           \A d \in Tasks : at'[d].stage = "posting" => at'[d] = at[d]
    PROVE  OncePerDay'
BY DEF OncePerDay, Is

(* No step lets an account that is checked in be asked again.              *)
LEMMA OncePerDayStep == Gate /\ OncePerDay /\ [Next]_vars => OncePerDay'
<1> SUFFICES ASSUME Gate, OncePerDay, [Next]_vars PROVE OncePerDay'
  OBVIOUS
<1>1. ASSUME NEW c \in Manuals, NEW k \in Creds, ManualCheckin(c, k)
      PROVE  OncePerDay'
  <2>1. c \in Tasks /\ owner[k] \in Accounts /\ UNCHANGED <<record, late>>
    BY <1>1 DEF ManualCheckin, Gate, Types, Tasks
  <2>2. CASE at' = [at EXCEPT ![c] = At("waiting", k, owner[k])]
    BY <2>1, <2>2, OthersAsk DEF Gate, Types, At
  <2> QED
    BY <1>1, <2>1, <2>2, ProceedAsks DEF ManualCheckin
<1>2. ASSUME NEW c \in Autos, AutoCheckin(c) PROVE OncePerDay'
  <2>1. /\ c \in Tasks /\ at[c].cred \in Creds /\ UNCHANGED <<record, late>>
        /\ owner[at[c].cred] \in Accounts \union {None}
    BY <1>2 DEF AutoCheckin, Gate, Types, Tasks, Needs, Is
  <2>2. CASE \/ at' = [at EXCEPT ![c] = Idle]
             \/ at' = [at EXCEPT ![c] = At("waiting", at[c].cred, owner[at[c].cred])]
    BY <2>1, <2>2, OthersAsk DEF Gate, Types, At, Idle
  <2> QED
    BY <1>2, <2>1, <2>2, ProceedAsks DEF AutoCheckin
<1>3. ASSUME NEW c \in Tasks, WakeUp(c) PROVE OncePerDay'
  <2>1. at[c].cred \in Creds /\ at[c].key \in Accounts /\ UNCHANGED <<record, late>>
    BY <1>3 DEF WakeUp, Gate, Needs, Is
  <2>2. CASE at' = [at EXCEPT ![c].stage = "waiting"]
    BY <2>1, <2>2, OthersAsk DEF Gate, Types
  <2> QED
    BY <1>3, <2>1, <2>2, ProceedAsks DEF WakeUp
<1>4. ASSUME NEW c \in Tasks, PostEnds(c) PROVE OncePerDay'
  <2> DEFINE a == at[c].key
  <2>1. a \in Accounts /\ PostsAt(c, a) /\ late' = late \ {c}
    BY <1>4 DEF PostEnds, Gate, Needs, PostsAt, Is
  <2>2. \A d \in Tasks : at'[d].stage = "posting" => d # c /\ at'[d] = at[d]
    BY <1>4 DEF PostEnds, Release, Idle, At, Notified, Gate, Types
  <2>3. \A b \in Accounts : b # a => record'[b] = record[b]
    BY <1>4 DEF PostEnds, Gate, Types
  <2>4. \A d \in Tasks \ {c} : at[d].stage = "posting" =>
           at[d].key \in Accounts /\ at[d].key # a
    BY <2>1 DEF Gate, Posters, PostsAt, Needs, Is
  <2> HIDE DEF a
  <2> QED
    BY <2>1, <2>2, <2>3, <2>4 DEF OncePerDay, Is
<1>5. ASSUME NEW a \in Accounts, ProbesEnd(a) PROVE OncePerDay'
  BY <1>5, OthersAsk DEF ProbesEnd, Idle
<1>6. CASE RunDailyCycle
  <2>1. \A c \in Tasks : at'[c] = at[c] \/ at'[c].stage = "pacing"
    BY <1>6 DEF RunDailyCycle, At
  <2> QED
    BY <1>6, <2>1, OthersAsk DEF RunDailyCycle
<1>7. CASE Shutdown
  <2>1. \A d \in Tasks : at'[d].stage = "posting" =>
           /\ at'[d] = at[d]
           /\ d \notin late' => d \notin late
    BY <1>7 DEF Shutdown, Idle, Notified, Is, Gate, Types
  <2>2. record' = record
    BY <1>7 DEF Shutdown
  <2> QED
    BY <2>1, <2>2 DEF OncePerDay, Is
<1>8. CASE Midnight
  <2>1. \A d \in Tasks : Is(d, "posting")' => at[d].key \in Accounts
    BY <1>8 DEF Midnight, Gate, Needs, Is
  <2> QED
    BY <1>8, <2>1, NoneIsNothing DEF Midnight, OncePerDay, Is
<1>9. CASE \/ ShutdownReturns \/ Startup \/ ToggleAuto \/ UNCHANGED vars
           \/ \E k \in Creds, a \in Accounts \union {None} : Rebind(k, a)
  BY <1>9 DEF ShutdownReturns, Startup, ToggleAuto, Rebind, vars, gateVars,
              taskVars, OncePerDay, Is
<1> QED
  BY <1>1, <1>2, <1>3, <1>4, <1>5, <1>6, <1>7, <1>8, <1>9 DEF Next, TaskStep

-----------------------------------------------------------------------------
(* All of this holds at first.                                             *)
LEMMA Initially == Init => Gate /\ Wakers /\ Rest /\ OncePerDay
<1> SUFFICES ASSUME Init PROVE Gate /\ Wakers /\ Rest /\ OncePerDay
  OBVIOUS
<1>1. \A c \in Tasks : at[c] = Idle
  BY DEF Init
<1>2. \A c \in Tasks : at[c].stage = "idle"
  BY <1>1 DEF Idle
<1>3. Types
  <2>1. Idle \in [stage : Stages, cred : Creds \union {None},
                  key : Accounts \union {None}]
    BY DEF Idle, Stages
  <2> QED
    BY <2>1 DEF Init, Types
<1>4. Needs /\ Wakers /\ OncePerDay
  BY <1>2 DEF Needs, Wakers, OncePerDay, Is
<1>5. Posters
  BY <1>2 DEF Init, Posters, PostsAt, Is
<1>6. Waiters
  BY <1>2 DEF Init, Waiters, WaitsAt, Is
<1>7. Rest
  BY DEF Init, Rest
<1> QED
  BY <1>3, <1>4, <1>5, <1>6, <1>7 DEF Gate

(* The parts make up the type invariant.                                   *)
LEMMA GateTypes == Gate /\ Rest => TypeOK
<1> SUFFICES ASSUME Gate, Rest PROVE TypeOK
  OBVIOUS
<1>1. ASSUME NEW a \in Accounts
      PROVE  /\ manualWaiter[a] = \E c \in Manuals : WaitsAt(c, a)
             /\ autoWaiter[a] = \E c \in Autos : WaitsAt(c, a)
  <2>1. manualWaiter[a] \in BOOLEAN /\ autoWaiter[a] \in BOOLEAN
    BY DEF Gate, Types
  <2>2. manualWaiter[a] <=> \E c \in Manuals : WaitsAt(c, a)
    BY DEF Gate, Waiters, Tasks
  <2>3. autoWaiter[a] <=> \E c \in Autos : WaitsAt(c, a)
    BY JobsApart DEF Gate, Waiters, Tasks
  <2> QED
    BY <2>1, <2>2, <2>3
<1> QED
  BY <1>1 DEF TypeOK, Gate, Types, Rest, WaitsAt

(* The gate is always kept.                                                *)
THEOREM GateAlways == Spec => [](Gate /\ Rest)
<1>1. Init => Gate /\ Rest
  BY Initially
<1>2. Gate /\ Rest /\ [Next]_vars => (Gate /\ Rest)'
  BY GateStep, RestStep
<1> QED
  BY <1>1, <1>2, PTL DEF Spec

(* No wake-up is lost where a cancelled Condition.wait forwards it.        *)
THEOREM WakersAlways == ForwardsWakeup => (Spec => []Wakers)
<1>1. Init => Wakers
  BY Initially
<1>2. ASSUME ForwardsWakeup
      PROVE  Gate /\ Wakers /\ [Next]_vars => Wakers'
  BY <1>2, GateStep
<1>3. ASSUME ForwardsWakeup PROVE Spec => []Wakers
  <2>1. Gate /\ Wakers /\ [Next]_vars => Wakers'
    BY <1>2, <1>3
  <2> QED
    BY <1>1, <2>1, GateAlways, PTL DEF Spec
<1> QED
  BY <1>3

(* Types; a waiter's flag is up exactly while one waits.                   *)
THEOREM TypeCorrect == Spec => []TypeOK
BY GateAlways, GateTypes, PTL

(* One at a time asks the check-in of an account, through all of its       *)
(* credentials, and whoever waits for the gate will be notified; from      *)
(* Python 3.13 on, where a cancelled wait forwards its notification.       *)
THEOREM Exclusive == ForwardsWakeup => (Spec => []OneAtATime)
<1>1. Gate /\ Rest /\ Wakers => OneAtATime
  <2> SUFFICES ASSUME Gate, Rest, Wakers PROVE OneAtATime
    OBVIOUS
  <2>1. \A c \in Tasks : Is(c, "posting") => at[c].key \in Accounts
    BY DEF Gate, Needs, Is
  <2>2. \A c \in Tasks : Is(c, "waiting") => at[c].key \in Accounts
    BY DEF Gate, Needs, Is
  <2>3. \A c, d \in Tasks :
          Is(c, "posting") =>
              /\ active[at[c].key] = Source(c)
              /\ Is(d, "posting") /\ at[d].key = at[c].key => d = c
    BY <2>1 DEF Gate, Posters, PostsAt
  <2>4. WaiterHasWaker
    BY <2>2 DEF Wakers, WaiterHasWaker
  <2> QED
    BY <2>3, <2>4, GateTypes DEF OneAtATime
<1>2. ASSUME ForwardsWakeup PROVE Spec => []OneAtATime
  <2>1. Spec => []Wakers
    BY <1>2, WakersAlways
  <2> QED
    BY <1>1, <2>1, GateAlways, PTL
<1> QED
  BY <1>2

(* An account that is checked in is not asked again that day.              *)
THEOREM AskedOnce == Spec => []OncePerDay
<1>1. Init => OncePerDay
  BY Initially
<1>2. Gate /\ OncePerDay /\ [Next]_vars => OncePerDay'
  BY OncePerDayStep
<1> QED
  BY <1>1, <1>2, GateAlways, PTL DEF Spec
=============================================================================
