------------------------ MODULE CredentialQuotaProofs ------------------------
(***************************************************************************)
(* Proofs about CredentialQuota, for any credentials, meters, requests and *)
(* coroutines: the types, that the quota kept is of the present meter and  *)
(* has reported usage deducted from it, that probes are made one at a time *)
(* and end with the manager, and that usage is deducted where it was       *)
(* charged.                                                                *)
(***************************************************************************)
EXTENDS CredentialQuota, TLAPS

-----------------------------------------------------------------------------
(* A coroutine's state is well-formed: what TaskTypes says of each.        *)
WellFormed(v) ==
    /\ v \in Coroutines
    /\ v.stage # "idle" => v.cred \in Creds
    /\ v.stage \in {"fetching", "candidate"} => v.of \in Meters

(* The places a coroutine moves to are well-formed.                        *)
LEMMA Places ==
    ASSUME TypeOK, NEW p \in Tasks, NEW k \in Creds
    PROVE  /\ WellFormed(Idle)
           /\ \A place \in {"created", "waiting", "selected"} :
                WellFormed(At(place, k))
           /\ \A m \in Meters :
                WellFormed([At("candidate", k) EXCEPT !.of = m, !.since = qgen[k]])
           /\ WellFormed([At("waiting", k) EXCEPT !.background = TRUE])
           /\ meter[k] # None => WellFormed(Fetching(p, k))
           /\ WellFormed(Scheduled(k))
           /\ at[p].stage # "idle" => WellFormed(Done(p)) /\ at[p].cred \in Creds
           /\ WellFormed(at[p])
<1>1. invalidations[k] \in Nat /\ meter[k] \in Meters \union {None}
      /\ applied[k] \in SUBSET Requests /\ qgen[k] \in Nat
  BY DEF TypeOK, CredTypes, QuotaTypes
<1>2. WellFormed(at[p])
  BY DEF TypeOK, TaskTypes, WellFormed
<1>3. at[p].made \in Nat /\ at[p].background \in BOOLEAN
      /\ at[p].cred \in Creds \union {None}
  BY <1>2 DEF Coroutines, WellFormed
<1>4. WellFormed(Idle)
  BY DEF Idle, Coroutines, WellFormed
<1>5. \A place \in {"created", "waiting", "selected"} :
        WellFormed(At(place, k))
  BY <1>1 DEF At, Coroutines, WellFormed
<1>6. ASSUME NEW m \in Meters
      PROVE  WellFormed([At("candidate", k) EXCEPT !.of = m, !.since = qgen[k]])
  BY <1>1 DEF At, Coroutines, WellFormed
<1>7. WellFormed([At("waiting", k) EXCEPT !.background = TRUE])
  BY <1>1 DEF At, Coroutines, WellFormed
<1>8. meter[k] # None => WellFormed(Fetching(p, k))
  BY <1>1, <1>3 DEF Fetching, Coroutines, WellFormed
<1>9. WellFormed(Scheduled(k))
  BY DEF Scheduled, Idle, Coroutines, WellFormed
<1>10. at[p].stage # "idle" => WellFormed(Done(p)) /\ at[p].cred \in Creds
  BY <1>2 DEF Done, Idle, Coroutines, WellFormed
<1>11. QED
  BY <1>2, <1>4, <1>5, <1>6, <1>7, <1>8, <1>9, <1>10

(* One coroutine moves to a well-formed place.                             *)
LEMMA Moves ==
    ASSUME TypeOK, NEW p \in Tasks, NEW v, WellFormed(v),
           at' = [at EXCEPT ![p] = v]
    PROVE  TaskTypes'
BY DEF TypeOK, TaskTypes, WellFormed

(* Init satisfies the type invariant.                                      *)
LEMMA TypeInit == Init => TypeOK
<1> SUFFICES ASSUME Init PROVE TypeOK
  OBVIOUS
<1>1. Idle \in Coroutines /\ NotSent \in RequestStates
  BY DEF Idle, NotSent, Coroutines, RequestStates
<1>2. Idle.stage = "idle"
  BY DEF Idle
<1>3. CredTypes /\ QuotaTypes
  BY DEF Init, CredTypes, QuotaTypes
<1>4. TaskTypes
  BY <1>1, <1>2 DEF Init, TaskTypes
<1>5. QED
  BY <1>1, <1>3, <1>4 DEF Init, TypeOK

(* What invalidation leaves is of its type.                                *)
LEMMA ForgetTyped ==
    ASSUME CredTypes, QuotaTypes, NEW ks, Forget(ks)
    PROVE  /\ invalidations' \in [Creds -> Nat]
           /\ applied' \in [Creds -> SUBSET Requests]
           /\ inflight' \in [Creds -> Tasks \union {None}]
           /\ torn' \in SUBSET Creds
BY DEF CredTypes, QuotaTypes, Forget

(* What a finished coroutine leaves of turn and scan is of its type.       *)
LEMMA EndsTyped ==
    ASSUME TypeOK, NEW p \in Tasks, Releases(p), ScanGoesOn(p)
    PROVE  /\ turn' \in Tasks \union {None}
           /\ scan' \in [Creds -> Tasks \union {None, "todo"}]
BY DEF TypeOK, Releases, ScanGoesOn

(* What a replacement or a deletion leaves is of its type.                 *)
LEMMA RechargeTyped ==
    ASSUME CredTypes, NEW k \in Creds, NEW m \in Meters \union {None},
           NEW q \in BOOLEAN, Recharge(k, m, q)
    PROVE  /\ meter' \in [Creds -> Meters \union {None}]
           /\ qgen' \in [Creds -> Nat]
           /\ mixed' \in SUBSET Creds
<1>1. meter' \in [Creds -> Meters \union {None}]
  BY DEF CredTypes, Recharge
<1>2. qgen' = qgen \/ qgen' = [qgen EXCEPT ![k] = qgen[k] + 1]
  BY DEF Recharge
<1>3. qgen' \in [Creds -> Nat]
  BY <1>2 DEF CredTypes
<1>4. mixed' \in {mixed, mixed \ {k}, mixed \union {k}}
  BY DEF Recharge
<1>5. mixed' \in SUBSET Creds
  BY <1>4 DEF CredTypes
<1>6. QED
  BY <1>1, <1>3, <1>5

(* A coroutine whose request upstream has answered stays well-formed.      *)
LEMMA SeenTyped ==
    ASSUME NEW v, WellFormed(v), NEW S \in SUBSET Requests
    PROVE  WellFormed([v EXCEPT !.seen = S])
BY DEF WellFormed, Coroutines

-----------------------------------------------------------------------------
(* Each action preserves the type invariant, part by part; here a          *)
(* scheduled task that begins.                                             *)
LEMMA BeginScheduledTyped ==
    ASSUME TypeOK, NEW p \in Tasks, BeginScheduled(p)
    PROVE  TypeOK'
<1>1. CredTypes'
  BY DEF TypeOK, BeginScheduled, CredTypes, credVars
<1>2. at[p].stage # "idle" => at[p].cred \in Creds
  BY DEF TypeOK, TaskTypes
<1>3. QuotaTypes'
  BY <1>2 DEF TypeOK, BeginScheduled, QuotaTypes, quotaVars, Created, Is
<1>4. TaskTypes'
  BY <1>2, Places, Moves DEF BeginScheduled, Created, TypeOK, TaskTypes, Is
<1>5. QED
  BY <1>1, <1>3, <1>4 DEF TypeOK, BeginScheduled, scanVars, Is

(* The begin of a probe preserves the type invariant.                      *)
LEMMA BeginProbeTyped ==
    ASSUME TypeOK, NEW p \in Tasks, BeginProbe(p)
    PROVE  TypeOK'
<1>1. CredTypes'
  BY DEF TypeOK, BeginProbe, CredTypes, credVars
<1>2. at[p].stage # "idle" => at[p].cred \in Creds
  BY DEF TypeOK, TaskTypes
<1>3. QuotaTypes'
  BY <1>2 DEF TypeOK, BeginProbe, QuotaTypes, quotaVars, Is
<1>4. TaskTypes'
  <2>1. at[p].stage # "idle" /\ at[p].cred \in Creds
    BY <1>2 DEF BeginProbe, Is
  <2>2. CASE Fetches(p, at[p].cred)
    BY <2>1, <2>2, Places, Moves DEF Fetches
  <2>3. CASE Ends(p, Done(p))
    BY <2>1, <2>3, Places, Moves DEF Ends
  <2>4. QED
    BY <2>2, <2>3 DEF BeginProbe
<1>5. QED
  BY <1>1, <1>3, <1>4, EndsTyped DEF TypeOK, BeginProbe, scanVars, Ends, Is

(* Taking the pacer's turn preserves the type invariant.                   *)
LEMMA TakeTurnTyped ==
    ASSUME TypeOK, NEW p \in Tasks, TakeTurn(p)
    PROVE  TypeOK'
<1>1. CredTypes'
  BY DEF TypeOK, TakeTurn, CredTypes, credVars
<1>2. at[p].stage # "idle" => at[p].cred \in Creds
  BY DEF TypeOK, TaskTypes
<1>3. QuotaTypes'
  BY <1>2 DEF TypeOK, TakeTurn, QuotaTypes, quotaVars, Is
<1>4. TaskTypes'
  <2>1. WellFormed([at[p] EXCEPT !.stage = "pacing"])
    BY <1>2 DEF TypeOK, TaskTypes, Coroutines, WellFormed, ChargedTo, TakeTurn, Is
  <2>2. QED
    BY <2>1, Moves DEF TakeTurn
<1>5. QED
  BY <1>1, <1>3, <1>4 DEF TypeOK, TakeTurn, scanVars, Is

(* The end of a delay preserves the type invariant.                        *)
LEMMA DelayOverTyped ==
    ASSUME TypeOK, NEW p \in Tasks, DelayOver(p)
    PROVE  TypeOK'
<1>1. CredTypes'
  BY DEF TypeOK, DelayOver, CredTypes, credVars
<1>2. at[p].stage # "idle" => at[p].cred \in Creds
  BY DEF TypeOK, TaskTypes
<1>3. QuotaTypes'
  BY <1>2 DEF TypeOK, DelayOver, QuotaTypes, quotaVars, Created, Is
<1>4. TaskTypes'
  BY <1>2, Places, Moves DEF DelayOver, Fetches, Ends, TypeOK, TaskTypes, Is
<1>5. QED
  <2> DEFINE k == at[p].cred
  <2>1. k \in Creds
    BY <1>2 DEF DelayOver, Is
  <2>2. turn' \in Tasks \union {None}
    BY DEF TypeOK, DelayOver, Ends, Releases
  <2>3. inflight[k] # None => inflight[k] \in Tasks
    BY <2>1 DEF TypeOK, QuotaTypes
  <2>4. scan' \in [Creds -> Tasks \union {None, "todo"}]
    <3>1. CASE inflight[k] # None
      BY <2>3, <3>1 DEF TypeOK, DelayOver
    <3>2. CASE inflight[k] = None
      BY <3>2 DEF TypeOK, DelayOver, Ends, ScanGoesOn
    <3>3. QED
      BY <3>1, <3>2
  <2>5. QED
    BY <1>1, <1>3, <1>4, <2>2, <2>4 DEF TypeOK, DelayOver

(* mark_started preserves the type invariant.                              *)
LEMMA MarkStartedTyped ==
    ASSUME TypeOK, NEW p \in Tasks, MarkStarted(p)
    PROVE  TypeOK'
<1>1. CredTypes'
  BY DEF TypeOK, MarkStarted, CredTypes, credVars
<1>2. at[p].stage # "idle" => at[p].cred \in Creds
  BY DEF TypeOK, TaskTypes
<1>3. QuotaTypes'
  BY <1>2 DEF TypeOK, MarkStarted, QuotaTypes, quotaVars, Is
<1>4. TaskTypes'
  BY DEF TypeOK, MarkStarted, TaskTypes
<1>5. QED
  BY <1>1, <1>3, <1>4 DEF TypeOK, MarkStarted, scanVars, Is

(* Upstream's reading of a meter preserves the type invariant.             *)
LEMMA ReadsTyped ==
    ASSUME TypeOK, NEW p \in Tasks, Reads(p)
    PROVE  TypeOK'
<1>1. CredTypes'
  BY DEF TypeOK, Reads, CredTypes, credVars
<1>2. at[p].stage # "idle" => at[p].cred \in Creds
  BY DEF TypeOK, TaskTypes
<1>3. QuotaTypes'
  BY <1>2 DEF TypeOK, Reads, QuotaTypes, quotaVars, Is
<1>4. TaskTypes'
  <2>1. WellFormed([at[p] EXCEPT !.seen = ChargedTo(at[p].of)])
    BY SeenTyped DEF TypeOK, TaskTypes, WellFormed, ChargedTo
  <2>2. QED
    BY <2>1, Moves DEF Reads
<1>5. QED
  BY <1>1, <1>3, <1>4 DEF TypeOK, Reads, scanVars, Is

(* The answer of a probe preserves the type invariant.                     *)
LEMMA AnsweredTyped ==
    ASSUME TypeOK, NEW p \in Tasks, Answered(p)
    PROVE  TypeOK'
<1>1. CredTypes'
  BY DEF TypeOK, Answered, CredTypes, credVars
<1>2. at[p].stage # "idle" => at[p].cred \in Creds
  BY DEF TypeOK, TaskTypes
<1>3. FreshEntry(p) \in Entries
  BY <1>2 DEF TypeOK, TaskTypes, QuotaTypes, Coroutines, Entries, FreshEntry, Concurrent, Answered, Is
<1>4. QuotaTypes'
  BY <1>2, <1>3 DEF TypeOK, Answered, QuotaTypes, quotaVars, Is
<1>5. TaskTypes'
  BY <1>2, Places, Moves DEF Answered, Ends, Is
<1>6. QED
  BY <1>1, <1>4, <1>5, EndsTyped DEF TypeOK, Answered, scanVars, Ends, Is

(* The failure of a probe preserves the type invariant.                    *)
LEMMA FailedTyped ==
    ASSUME TypeOK, NEW p \in Tasks, Failed(p)
    PROVE  TypeOK'
<1>1. CredTypes'
  BY DEF TypeOK, Failed, CredTypes, credVars
<1>2. at[p].stage # "idle" => at[p].cred \in Creds
  BY DEF TypeOK, TaskTypes
<1>3. QuotaTypes'
  BY <1>2 DEF TypeOK, Failed, QuotaTypes, quotaVars, Is
<1>4. TaskTypes'
  BY <1>2, Places, Moves DEF Failed, Ends, Is
<1>5. QED
  BY <1>1, <1>3, <1>4, EndsTyped DEF TypeOK, Failed, scanVars, Ends, Is

(* The callback of a probe preserves the type invariant.                   *)
LEMMA RemoveCompletedTyped ==
    ASSUME TypeOK, NEW p \in Tasks, RemoveCompleted(p)
    PROVE  TypeOK'
<1>1. CredTypes'
  BY DEF TypeOK, RemoveCompleted, CredTypes, credVars
<1>2. at[p].stage # "idle" => at[p].cred \in Creds
  BY DEF TypeOK, TaskTypes
<1>3. QuotaTypes'
  BY <1>2 DEF TypeOK, RemoveCompleted, QuotaTypes, quotaVars, Removed, Is
<1>4. TaskTypes'
  BY <1>2, Places, Moves DEF RemoveCompleted, Is
<1>5. QED
  BY <1>1, <1>3, <1>4 DEF TypeOK, RemoveCompleted, scanVars, Is

(* The answer for a candidate mode preserves the type invariant.           *)
LEMMA CandidateAnsweredTyped ==
    ASSUME TypeOK, NEW p \in Tasks, CandidateAnswered(p)
    PROVE  TypeOK'
<1>1. at[p].stage # "idle" => at[p].cred \in Creds
  BY DEF TypeOK, TaskTypes
<1>2. CredTypes'
  <2>1. at[p].of \in Meters
    BY DEF TypeOK, TaskTypes, CandidateAnswered, Is
  <2>2. QED
    BY <1>1, <2>1, ForgetTyped, RechargeTyped
       DEF TypeOK, CandidateAnswered, CredTypes, Is
<1>3. [of |-> at[p].of, deducted |-> at[p].seen] \in Entries
  BY DEF TypeOK, TaskTypes, Coroutines, Entries, CandidateAnswered, Is
<1>4. QuotaTypes'
  BY ForgetTyped, <1>1, <1>3 DEF TypeOK, CandidateAnswered, QuotaTypes, quotaVars, Is
<1>5. TaskTypes'
  BY <1>1, Places, Moves DEF CandidateAnswered, Is
<1>6. QED
  BY <1>2, <1>4, <1>5 DEF TypeOK, CandidateAnswered, scanVars, Is

(* The refusal of a candidate mode preserves the type invariant.           *)
LEMMA CandidateRefusedTyped ==
    ASSUME TypeOK, NEW p \in Tasks, CandidateRefused(p)
    PROVE  TypeOK'
<1>1. CredTypes'
  BY DEF TypeOK, CandidateRefused, CredTypes, credVars
<1>2. at[p].stage # "idle" => at[p].cred \in Creds
  BY DEF TypeOK, TaskTypes
<1>3. QuotaTypes'
  BY <1>2 DEF TypeOK, CandidateRefused, QuotaTypes, quotaVars, Is
<1>4. TaskTypes'
  BY <1>2, Places, Moves DEF CandidateRefused, Is
<1>5. QED
  BY <1>1, <1>3, <1>4 DEF TypeOK, CandidateRefused, scanVars, Is

(* A switch's handler preserves the type invariant.                        *)
LEMMA SelectAccountTyped ==
    ASSUME TypeOK, NEW p \in Tasks, SelectAccount(p)
    PROVE  TypeOK'
<1>1. CredTypes'
  BY ForgetTyped DEF TypeOK, SelectAccount, CredTypes, credVars, Invalidate
<1>2. at[p].stage # "idle" => at[p].cred \in Creds
  BY DEF TypeOK, TaskTypes
<1>3. QuotaTypes'
  BY ForgetTyped, <1>2 DEF TypeOK, SelectAccount, QuotaTypes, quotaVars, Invalidate, Is
<1>4. TaskTypes'
  BY <1>2, Places, Moves DEF SelectAccount, Is
<1>5. QED
  BY <1>1, <1>3, <1>4 DEF TypeOK, SelectAccount, scanVars, Is

(* A requested refresh preserves the type invariant.                       *)
LEMMA RefreshQuotaTyped ==
    ASSUME TypeOK, NEW p \in Tasks, NEW k \in Creds, RefreshQuota(p, k)
    PROVE  TypeOK'
<1>1. CredTypes'
  BY DEF TypeOK, RefreshQuota, CredTypes, credVars
<1>2. QuotaTypes'
  BY DEF TypeOK, RefreshQuota, QuotaTypes, quotaVars, Created, Is
<1>3. TaskTypes'
  BY Places, Moves DEF RefreshQuota, Created, Is
<1>4. QED
  BY <1>1, <1>2, <1>3 DEF TypeOK, RefreshQuota, scanVars, Is

(* The scan's probe of a credential preserves the type invariant.          *)
LEMMA ProbeWithSemaphoreTyped ==
    ASSUME TypeOK, NEW p \in Tasks, NEW k \in Creds, ProbeWithSemaphore(p, k)
    PROVE  TypeOK'
<1>1. CredTypes'
  BY DEF TypeOK, ProbeWithSemaphore, CredTypes, credVars
<1>2. QuotaTypes'
  BY DEF TypeOK, ProbeWithSemaphore, QuotaTypes, quotaVars, Created, Is
<1>3. TaskTypes'
  <2>1. CASE at' = at
    BY <2>1 DEF TypeOK, TaskTypes
  <2>2. CASE at' = [at EXCEPT ![p] = At("created", k)]
    <3>1. WellFormed(At("created", k))
      BY Places
    <3>2. QED
      BY <2>2, <3>1, Moves
  <2>3. CASE at' = [at EXCEPT ![p] = [At("waiting", k) EXCEPT !.background = TRUE]]
    <3>1. WellFormed([At("waiting", k) EXCEPT !.background = TRUE])
      BY Places
    <3>2. QED
      BY <2>3, <3>1, Moves
  <2>4. QED
    BY <2>1, <2>2, <2>3 DEF ProbeWithSemaphore, Created
<1>4. QED
  BY <1>1, <1>2, <1>3 DEF TypeOK, ProbeWithSemaphore, scanVars, Created, QuotaTypes, Is

(* A change of mode preserves the type invariant.                          *)
LEMMA ChangeModeTyped ==
    ASSUME TypeOK, NEW p \in Tasks, NEW k \in Creds, NEW m \in Meters, ChangeMode(p, k, m)
    PROVE  TypeOK'
<1>1. CredTypes'
  BY DEF TypeOK, ChangeMode, CredTypes, credVars
<1>2. QuotaTypes'
  BY DEF TypeOK, ChangeMode, QuotaTypes, quotaVars, Is
<1>3. TaskTypes'
  BY Places, Moves DEF ChangeMode, Is
<1>4. QED
  BY <1>1, <1>2, <1>3 DEF TypeOK, ChangeMode, scanVars, Is

(* A switch of account preserves the type invariant.                       *)
LEMMA SwitchReplacesTyped ==
    ASSUME TypeOK, NEW p \in Tasks, NEW k \in Creds, NEW m \in Meters, SwitchReplaces(p, k, m)
    PROVE  TypeOK'
<1>1. CredTypes'
  <2>1. CredTypes /\ torn' = torn
    BY DEF TypeOK, SwitchReplaces
  <2>2. PICK quotaChanged \in BOOLEAN : Recharge(k, m, quotaChanged)
    BY DEF SwitchReplaces
  <2>3. QED
    BY <2>1, <2>2, RechargeTyped DEF CredTypes
<1>2. QuotaTypes'
  BY DEF TypeOK, SwitchReplaces, QuotaTypes, quotaVars, Is
<1>3. TaskTypes'
  BY Places, Moves DEF SwitchReplaces, Is
<1>4. QED
  BY <1>1, <1>2, <1>3 DEF TypeOK, SwitchReplaces, scanVars, Is

(* A new credential preserves the type invariant.                          *)
LEMMA CreateCredentialTyped ==
    ASSUME TypeOK, NEW p \in Tasks, NEW k \in Creds, NEW m \in Meters, CreateCredential(p, k, m)
    PROVE  TypeOK'
<1>1. CredTypes'
  BY DEF TypeOK, CreateCredential, CredTypes, credVars
<1>2. QuotaTypes'
  BY DEF TypeOK, CreateCredential, QuotaTypes, quotaVars, Is
<1>3. TaskTypes'
  BY Places, Moves DEF CreateCredential, Is
<1>4. QED
  BY <1>1, <1>2, <1>3 DEF TypeOK, CreateCredential, scanVars, Is

(* A torn write preserves the type invariant.                              *)
LEMMA ReplaceTornTyped ==
    ASSUME TypeOK, NEW k \in Creds, NEW m \in Meters, ReplaceTorn(k, m)
    PROVE  TypeOK'
<1>1. CredTypes'
  BY DEF TypeOK, ReplaceTorn, CredTypes, credVars
<1>2. QuotaTypes'
  BY DEF TypeOK, ReplaceTorn, QuotaTypes, quotaVars
<1>3. TaskTypes'
  BY DEF TypeOK, ReplaceTorn, TaskTypes
<1>4. QED
  BY <1>1, <1>2, <1>3 DEF TypeOK, ReplaceTorn, scanVars

(* A deletion preserves the type invariant.                                *)
LEMMA DeleteCredentialTyped ==
    ASSUME TypeOK, NEW k \in Creds, DeleteCredential(k)
    PROVE  TypeOK'
<1>1. CredTypes'
  BY ForgetTyped, RechargeTyped DEF TypeOK, DeleteCredential, CredTypes, Invalidate
<1>2. QuotaTypes'
  BY ForgetTyped DEF TypeOK, DeleteCredential, QuotaTypes, quotaVars, Invalidate
<1>3. TaskTypes'
  BY DEF TypeOK, DeleteCredential, TaskTypes
<1>4. QED
  BY <1>1, <1>2, <1>3 DEF TypeOK, DeleteCredential, scanVars

(* A check-in that added credits preserves the type invariant.             *)
LEMMA RefreshAccountQuotasTyped ==
    ASSUME TypeOK, NEW m \in Meters, RefreshAccountQuotas(m)
    PROVE  TypeOK'
<1>1. CredTypes'
  BY ForgetTyped DEF TypeOK, RefreshAccountQuotas, CredTypes, credVars, Invalidate
<1>2. QuotaTypes'
  BY ForgetTyped DEF TypeOK, RefreshAccountQuotas, QuotaTypes, quotaVars, Invalidate
<1>3. TaskTypes'
  <2> DEFINE ks == {k \in Creds : meter[k] = m}
  <2>1. \A k \in Creds : WellFormed(Scheduled(k))
    BY DEF Scheduled, Idle, Coroutines, WellFormed
  <2>2. PICK task \in [ks -> {p \in Tasks : Is(p, "idle")}] :
          at' = [p \in Tasks |->
                   IF \E k \in ks : task[k] = p
                     THEN Scheduled(CHOOSE k \in ks : task[k] = p)
                     ELSE at[p]]
    BY DEF RefreshAccountQuotas
  <2>3. ASSUME NEW p \in Tasks PROVE WellFormed(at'[p])
    <3>1. CASE \E k \in ks : task[k] = p
      <4>1. (CHOOSE k \in ks : task[k] = p) \in Creds
        BY <3>1
      <4>2. QED
        BY <2>1, <2>2, <3>1, <4>1
    <3>2. CASE ~\E k \in ks : task[k] = p
      BY <2>2, <3>2 DEF TypeOK, TaskTypes, WellFormed
    <3>3. QED
      BY <3>1, <3>2
  <2>4. QED
    BY <2>2, <2>3 DEF TaskTypes, WellFormed
<1>4. QED
  BY <1>1, <1>2, <1>3 DEF TypeOK, RefreshAccountQuotas, scanVars

(* A chat request preserves the type invariant.                            *)
LEMMA SendRequestTyped ==
    ASSUME TypeOK, NEW r \in Requests, NEW k \in Creds, SendRequest(r, k)
    PROVE  TypeOK'
<1>1. CredTypes'
  BY DEF TypeOK, SendRequest, CredTypes, credVars
<1>2. QuotaTypes'
  BY DEF TypeOK, SendRequest, QuotaTypes, quotaVars
<1>3. TaskTypes'
  BY DEF TypeOK, SendRequest, TaskTypes
<1>4. request' \in [Requests -> RequestStates]
  BY DEF TypeOK, SendRequest, CredTypes, RequestStates
<1>5. QED
  BY <1>1, <1>2, <1>3, <1>4 DEF TypeOK, SendRequest, scanVars

(* The cost of a request preserves the type invariant.                     *)
LEMMA CostsTyped ==
    ASSUME TypeOK, NEW r \in Requests, Costs(r)
    PROVE  TypeOK'
<1>1. CredTypes'
  BY DEF TypeOK, Costs, CredTypes, credVars
<1>2. QuotaTypes'
  BY DEF TypeOK, Costs, QuotaTypes, quotaVars
<1>3. TaskTypes'
  BY DEF TypeOK, Costs, TaskTypes
<1>4. request' \in [Requests -> RequestStates]
  BY DEF TypeOK, Costs, CredTypes, RequestStates
<1>5. QED
  BY <1>1, <1>2, <1>3, <1>4 DEF TypeOK, Costs, scanVars

(* A report of usage preserves the type invariant.                         *)
LEMMA ApplyUsageTyped ==
    ASSUME TypeOK, NEW r \in Requests, ApplyUsage(r)
    PROVE  TypeOK'
<1>1. CredTypes'
  BY DEF TypeOK, ApplyUsage, CredTypes, credVars
<1>2. ASSUME NEW e \in Entries
      PROVE  [e EXCEPT !.deducted = @ \union {r}] \in Entries
  BY DEF Entries
<1>3. QuotaTypes'
  <2> DEFINE k == request[r].cred
  <2>1. applied' \in [Creds -> SUBSET Requests]
    <3>1. CASE qgen[k] = request[r].gen
      <4>1. applied' = [applied EXCEPT ![k] = applied[k] \union {r}]
        BY <3>1 DEF ApplyUsage
      <4>2. k \in Creds => applied[k] \union {r} \in SUBSET Requests
        BY DEF TypeOK, QuotaTypes
      <4>3. QED
        BY <4>1, <4>2 DEF TypeOK, QuotaTypes
    <3>2. CASE qgen[k] # request[r].gen
      BY <3>2 DEF TypeOK, ApplyUsage, QuotaTypes
    <3>3. QED
      BY <3>1, <3>2
  <2>2. CASE qgen[k] = request[r].gen /\ cache[k] # None /\ k \in Creds
    <3>1. cache[k] \in Entries
      BY <2>2 DEF TypeOK, QuotaTypes
    <3>2. cache' = [cache EXCEPT ![k] = [cache[k] EXCEPT !.deducted = @ \union {r}]]
      BY <2>2 DEF ApplyUsage
    <3>3. QED
      BY <1>2, <2>1, <2>2, <3>1, <3>2 DEF TypeOK, ApplyUsage, QuotaTypes
  <2>3. CASE ~(qgen[k] = request[r].gen /\ cache[k] # None /\ k \in Creds)
    <3>1. cache' = cache \/ k \notin Creds
      BY <2>3 DEF ApplyUsage
    <3>2. cache' \in [Creds -> Entries \union {None}]
      BY <3>1 DEF TypeOK, ApplyUsage, QuotaTypes
    <3>3. QED
      BY <2>1, <3>2 DEF TypeOK, ApplyUsage, QuotaTypes
  <2>4. QED
    BY <2>2, <2>3
<1>4. TaskTypes'
  BY DEF TypeOK, ApplyUsage, TaskTypes
<1>5. request' \in [Requests -> RequestStates]
  BY DEF TypeOK, ApplyUsage, CredTypes, RequestStates
<1>6. QED
  BY <1>1, <1>3, <1>4, <1>5 DEF TypeOK, ApplyUsage, scanVars

(* The begin of a scan preserves the type invariant.                       *)
LEMMA ScanOnceTyped ==
    ASSUME TypeOK, ScanOnce
    PROVE  TypeOK'
<1>1. CredTypes'
  BY DEF TypeOK, ScanOnce, CredTypes, credVars
<1>2. QuotaTypes'
  BY DEF TypeOK, ScanOnce, QuotaTypes, quotaVars
<1>3. TaskTypes'
  BY DEF TypeOK, ScanOnce, TaskTypes
<1>4. QED
  BY <1>1, <1>2, <1>3 DEF TypeOK, ScanOnce, scanVars

(* Shutdown preserves the type invariant.                                  *)
LEMMA ShutdownTyped ==
    ASSUME TypeOK, Shutdown
    PROVE  TypeOK'
<1>1. CredTypes'
  BY DEF TypeOK, Shutdown, CredTypes, credVars
<1>2. QuotaTypes'
  BY DEF TypeOK, Shutdown, QuotaTypes, quotaVars
<1>3. TaskTypes'
  <2>1. WellFormed(Idle)
    BY DEF Idle, Coroutines, WellFormed
  <2>2. QED
    BY <2>1 DEF TypeOK, Shutdown, TaskTypes, WellFormed
<1>4. QED
  BY <1>1, <1>2, <1>3 DEF TypeOK, Shutdown, scanVars

-----------------------------------------------------------------------------
(* Every step preserves the type invariant.                                *)
LEMMA TypeStep == TypeOK /\ [Next]_vars => TypeOK'
<1> SUFFICES ASSUME TypeOK, [Next]_vars PROVE TypeOK'
  OBVIOUS
<1>1. ASSUME NEW p \in Tasks, TaskStep(p) PROVE TypeOK'
  BY <1>1, BeginScheduledTyped, BeginProbeTyped, TakeTurnTyped, DelayOverTyped,
     MarkStartedTyped, ReadsTyped, AnsweredTyped, FailedTyped, RemoveCompletedTyped,
     CandidateAnsweredTyped, CandidateRefusedTyped, SelectAccountTyped
     DEF TaskStep
<1>2. ASSUME NEW p \in Tasks, NEW k \in Creds,
             RefreshQuota(p, k) \/ ProbeWithSemaphore(p, k)
      PROVE  TypeOK'
  BY <1>2, RefreshQuotaTyped, ProbeWithSemaphoreTyped
<1>3. ASSUME NEW p \in Tasks, NEW k \in Creds, NEW m \in Meters,
             ChangeMode(p, k, m) \/ SwitchReplaces(p, k, m) \/ CreateCredential(p, k, m)
      PROVE  TypeOK'
  BY <1>3, ChangeModeTyped, SwitchReplacesTyped, CreateCredentialTyped
<1>4. ASSUME NEW k \in Creds, NEW m \in Meters,
             ReplaceTorn(k, m) \/ DeleteCredential(k) \/ RefreshAccountQuotas(m)
      PROVE  TypeOK'
  BY <1>4, ReplaceTornTyped, DeleteCredentialTyped, RefreshAccountQuotasTyped
<1>5. ASSUME NEW r \in Requests, NEW k \in Creds,
             SendRequest(r, k) \/ Costs(r) \/ ApplyUsage(r)
      PROVE  TypeOK'
  BY <1>5, SendRequestTyped, CostsTyped, ApplyUsageTyped
<1>6. CASE ScanOnce \/ Shutdown
  BY <1>6, ScanOnceTyped, ShutdownTyped
<1>7. CASE UNCHANGED vars
  BY <1>7 DEF vars, credVars, quotaVars, scanVars, TypeOK, CredTypes, QuotaTypes,
              TaskTypes
<1>8. QED
  BY <1>1, <1>2, <1>3, <1>4, <1>5, <1>6, <1>7, DeleteCredentialTyped,
     RefreshAccountQuotasTyped, CostsTyped, ApplyUsageTyped
     DEF Next

(* The variables keep their types, whatever the constants: a probe fetches *)
(* for a credential that exists, and what it brings is of a real meter.    *)
THEOREM TypeCorrect == Spec => []TypeOK
<1>1. Init => TypeOK
  BY TypeInit
<1>2. TypeOK /\ [Next]_vars => TypeOK'
  BY TypeStep
<1>3. QED
  BY <1>1, <1>2, PTL DEF Spec

-----------------------------------------------------------------------------
(* The inductive invariant under CachedForPresent: a probe that no         *)
(* invalidation outdates reads the present meter, with the same exceptions *)
(* as what is kept of it, and no probe has seen an invalidation to come.   *)
Excused(k) == k \in torn \/ \E p \in Tasks : Is(p, "selected") /\ at[p].cred = k

SinceBehind ==
    \A p \in Tasks : Is(p, "fetching") => at[p].since <= invalidations[at[p].cred]

FetchPresent ==
    \A p \in Tasks : Is(p, "fetching") /\ ~Stale(p) =>
        at[p].of = meter[at[p].cred] \/ Excused(at[p].cred)

PresentInv == SinceBehind /\ FetchPresent /\ CachedForPresent

(* A step that changes no meter and invalidates nothing: a probe may begin *)
(* for the present meter, and an answer that is not outdated may be kept.  *)
Began(p) ==
    /\ at'[p].since = invalidations[at'[p].cred]
    /\ at'[p].of = meter[at'[p].cred]

WentOn(p) ==
    /\ Is(p, "fetching")
    /\ at'[p].cred = at[p].cred
    /\ at'[p].of = at[p].of
    /\ at'[p].since = at[p].since

(* PresentInv is preserved by a step that moves no meter and keeps only   *)
(* entries it had, or answers that are not outdated.                       *)
LEMMA QuietPresent ==
    ASSUME TypeOK, TypeOK', PresentInv,
           UNCHANGED <<meter, torn, invalidations>>,
           \A p \in Tasks : Is(p, "selected") => at'[p] = at[p],
           \A p \in Tasks : Is(p, "fetching")' => Began(p) \/ WentOn(p),
           \A k \in Creds : cache'[k] # None =>
              \/ cache[k] # None /\ cache'[k].of = cache[k].of
              \/ \E p \in Tasks : /\ Is(p, "fetching") /\ ~Stale(p)
                                  /\ at[p].cred = k /\ cache'[k].of = at[p].of
    PROVE  PresentInv'
<1>1. \A k \in Creds : Excused(k) => Excused(k)'
  BY DEF Excused, Is
<1>2. \A p \in Tasks : Is(p, "fetching")' => at'[p].cred \in Creds
  BY DEF TypeOK, TaskTypes, Is
<1>3. SinceBehind'
  <2> SUFFICES ASSUME NEW p \in Tasks, Is(p, "fetching")'
               PROVE  at'[p].since <= invalidations'[at'[p].cred]
    BY DEF SinceBehind
  <2>1. invalidations[at'[p].cred] \in Nat
    BY <1>2 DEF TypeOK, QuotaTypes
  <2>2. CASE Began(p)
    BY <2>1, <2>2 DEF Began
  <2>3. CASE WentOn(p)
    BY <2>3 DEF PresentInv, SinceBehind, WentOn
  <2>4. QED
    BY <2>2, <2>3
<1>4. FetchPresent'
  BY <1>1, <1>2 DEF PresentInv, FetchPresent, Is, Stale, Began, WentOn
<1>5. CachedForPresent'
  <2> SUFFICES ASSUME NEW k \in Creds, cache'[k] # None
               PROVE  cache'[k].of = meter'[k] \/ Excused(k)'
    BY DEF CachedForPresent, Excused
  <2>1. CASE cache[k] # None /\ cache'[k].of = cache[k].of
    BY <1>1, <2>1 DEF PresentInv, CachedForPresent, Excused
  <2>2. CASE \E p \in Tasks : /\ Is(p, "fetching") /\ ~Stale(p)
                              /\ at[p].cred = k /\ cache'[k].of = at[p].of
    BY <1>1, <2>2 DEF PresentInv, FetchPresent
  <2>3. QED
    BY <2>1, <2>2
<1>6. QED
  BY <1>3, <1>4, <1>5 DEF PresentInv

(* A step that forgets ks, and outside ks changes neither meter nor entry. *)
LEMMA ForgetPresent ==
    ASSUME TypeOK, TypeOK', PresentInv, NEW ks \in SUBSET Creds, Forget(ks),
           \A k \in Creds \ ks : meter'[k] = meter[k] /\ cache'[k] = cache[k],
           \A k \in ks : cache'[k] # None => cache'[k].of = meter'[k],
           \A p \in Tasks : Is(p, "selected") => at'[p] = at[p] \/ at[p].cred \in ks,
           \A p \in Tasks : Is(p, "fetching")' => at'[p] = at[p]
    PROVE  PresentInv'
<1>1. \A k \in Creds \ ks : Excused(k) => Excused(k)'
  BY DEF Excused, Is, Forget
<1>2. \A p \in Tasks : Is(p, "fetching")' => Is(p, "fetching") /\ at[p].cred \in Creds
  BY DEF TypeOK, TaskTypes, Is
<1>3. \A k \in Creds : invalidations'[k] = invalidations[k] + (IF k \in ks THEN 1 ELSE 0)
  BY DEF Forget
<1>4. \A k \in Creds : invalidations[k] \in Nat
  BY DEF TypeOK, QuotaTypes
<1>5. \A p \in Tasks : Is(p, "fetching") => at[p].since \in Nat
  BY DEF TypeOK, TaskTypes, Coroutines
<1>6. SinceBehind'
  BY <1>2, <1>3, <1>4, <1>5 DEF PresentInv, SinceBehind, Is
<1>7. FetchPresent'
  <2> SUFFICES ASSUME NEW p \in Tasks, Is(p, "fetching")', ~Stale(p)'
               PROVE  (at[p].of = meter[at[p].cred] \/ Excused(at[p].cred))'
    BY DEF FetchPresent
  <2>1. at'[p] = at[p] /\ Is(p, "fetching") /\ at[p].cred \in Creds
    BY <1>2
  <2>2. at[p].cred \notin ks
    BY <1>3, <1>4, <1>5, <2>1 DEF PresentInv, SinceBehind, Stale
  <2>3. QED
    <3>1. ~Stale(p)
      BY <1>3, <1>4, <2>1, <2>2 DEF Stale
    <3>2. meter'[at[p].cred] = meter[at[p].cred]
      BY <2>1, <2>2
    <3>3. at[p].of = meter[at[p].cred] \/ Excused(at[p].cred)
      BY <2>1, <3>1 DEF PresentInv, FetchPresent
    <3>4. QED
      BY <1>1, <2>1, <2>2, <3>2, <3>3
<1>8. CachedForPresent'
  BY <1>1 DEF PresentInv, CachedForPresent, Excused
<1>9. QED
  BY <1>6, <1>7, <1>8 DEF PresentInv

(* A step that changes the meter of k, which the step excuses or of which  *)
(* nothing is kept.                                                        *)
LEMMA ChangePresent ==
    ASSUME TypeOK, TypeOK', PresentInv, NEW k \in Creds,
           \A j \in Creds \ {k} : meter'[j] = meter[j],
           Excused(k)', torn \subseteq torn',
           UNCHANGED <<cache, invalidations>>,
           \A q \in Tasks : Is(q, "selected") => at'[q] = at[q],
           \A q \in Tasks : Is(q, "fetching")' => at'[q] = at[q]
    PROVE  PresentInv'
<1>1. \A j \in Creds : Excused(j) => Excused(j)'
  BY DEF Excused, Is
<1>2. \A q \in Tasks : Is(q, "fetching")' => Is(q, "fetching") /\ at[q].cred \in Creds
  BY DEF TypeOK, TaskTypes, Is
<1>3. SinceBehind'
  BY <1>2 DEF PresentInv, SinceBehind, Is
<1>4. FetchPresent'
  BY <1>1, <1>2 DEF PresentInv, FetchPresent, Is, Stale
<1>5. CachedForPresent'
  BY <1>1 DEF PresentInv, CachedForPresent, Excused
<1>6. QED
  BY <1>3, <1>4, <1>5 DEF PresentInv

(* Coroutine p leaves a place other than a switch's, and what it moves to  *)
(* is no running probe: the rest of QuietPresent follows.                  *)
LEMMA MovesQuietly ==
    ASSUME TypeOK, NEW p \in Tasks, NEW v, at' = [at EXCEPT ![p] = v],
           v.stage # "fetching", ~Is(p, "selected")
    PROVE  /\ \A q \in Tasks : Is(q, "selected") => at'[q] = at[q]
           /\ \A q \in Tasks : Is(q, "fetching")' => at'[q] = at[q] /\ WentOn(q)
BY DEF TypeOK, TaskTypes, Is, WentOn

(* Coroutine p begins to fetch.                                            *)
LEMMA FetchesQuietly ==
    ASSUME TypeOK, NEW p \in Tasks, NEW k \in Creds, Fetches(p, k), ~Is(p, "selected"),
           UNCHANGED <<meter, invalidations>>
    PROVE  /\ \A q \in Tasks : Is(q, "selected") => at'[q] = at[q]
           /\ \A q \in Tasks : Is(q, "fetching")' => Began(q) \/ WentOn(q)
<1>1. /\ Fetching(p, k).cred = k
      /\ Fetching(p, k).of = meter[k]
      /\ Fetching(p, k).since = invalidations[k]
  BY DEF Fetching
<1>2. at' = [at EXCEPT ![p] = Fetching(p, k)]
  BY DEF Fetches
<1>3. Began(p)
  BY <1>1, <1>2 DEF Began, TypeOK, TaskTypes
<1>4. \A q \in Tasks : q # p => at'[q] = at[q]
  BY <1>2 DEF TypeOK, TaskTypes
<1>5. QED
  BY <1>3, <1>4 DEF Is, WentOn

(* The places without a request under way.                                 *)
LEMMA Stages ==
    /\ Idle.stage = "idle"
    /\ \A p, k : Done(p).stage = "done" /\ Scheduled(k).stage = "asked"
    /\ \A place, k : At(place, k).stage = place
    /\ \A k : [At("waiting", k) EXCEPT !.background = TRUE].stage = "waiting"
    /\ \A k, m : [At("candidate", k) EXCEPT !.of = m, !.since = qgen[k]].stage
                   = "candidate"
BY DEF Idle, Done, Scheduled, At

(* Nothing is known at first, so that it is of the present meter.          *)
LEMMA PresentInit == Init => PresentInv
BY Stages, ZenonT(60) DEF Init, PresentInv, SinceBehind, FetchPresent, CachedForPresent, Is

(* The steps of a coroutine other than the ends of a switch and of a       *)
(* candidate.                                                              *)
LEMMA PresentTaskStep ==
    ASSUME TypeOK, TypeOK', PresentInv, NEW p \in Tasks, TaskStep(p)
    PROVE  PresentInv'
<1>1. at[p].stage # "idle" => at[p].cred \in Creds
  BY DEF TypeOK, TaskTypes
<1>2. CASE BeginScheduled(p)
  <2>1. PICK v : at' = [at EXCEPT ![p] = v] /\ v.stage # "fetching"
    BY <1>2, Stages DEF BeginScheduled, Created
  <2>2. QED
    BY <1>2, <2>1, MovesQuietly, QuietPresent DEF BeginScheduled, Created, credVars, Is
<1>3. CASE BeginProbe(p)
  <2>1. CASE Fetches(p, at[p].cred)
    BY <1>1, <1>3, <2>1, FetchesQuietly, QuietPresent
       DEF BeginProbe, credVars, quotaVars, Is
  <2>2. CASE Ends(p, Done(p))
    BY <1>3, <2>2, Stages, MovesQuietly, QuietPresent
       DEF BeginProbe, Ends, credVars, quotaVars, Is
  <2>3. QED
    BY <1>3, <2>1, <2>2 DEF BeginProbe
<1>4. CASE TakeTurn(p)
  <2>1. [at[p] EXCEPT !.stage = "pacing"].stage = "pacing"
    BY DEF TypeOK, TaskTypes, Coroutines
  <2>2. QED
    BY <1>4, <2>1, MovesQuietly, QuietPresent DEF TakeTurn, credVars, quotaVars, Is
<1>5. CASE DelayOver(p)
  <2>1. CASE at' = [at EXCEPT ![p] = Idle] \/ at' = [at EXCEPT ![p] = Done(p)]
    BY <1>5, <2>1, Stages, MovesQuietly, QuietPresent DEF DelayOver, credVars, Is
  <2>2. CASE Fetches(p, at[p].cred)
    BY <1>1, <1>5, <2>2, FetchesQuietly, QuietPresent DEF DelayOver, credVars, Is
  <2>3. QED
    BY <1>5, <2>1, <2>2 DEF DelayOver, Ends
<1>6. CASE MarkStarted(p)
  BY <1>6, QuietPresent DEF MarkStarted, credVars, quotaVars, Is, WentOn
<1>7. CASE Reads(p)
  <2>1. [at[p] EXCEPT !.seen = ChargedTo(at[p].of)].stage = at[p].stage
        /\ [at[p] EXCEPT !.seen = ChargedTo(at[p].of)].cred = at[p].cred
        /\ [at[p] EXCEPT !.seen = ChargedTo(at[p].of)].of = at[p].of
        /\ [at[p] EXCEPT !.seen = ChargedTo(at[p].of)].since = at[p].since
    BY ZenonT(60) DEF TypeOK, TaskTypes, Coroutines
  <2>2. \A q \in Tasks : Is(q, "selected") => at'[q] = at[q]
    BY <1>7 DEF Reads, Is, TypeOK, TaskTypes
  <2>3. \A q \in Tasks : Is(q, "fetching")' => WentOn(q)
    BY <1>7, <2>1 DEF Reads, Is, WentOn, TypeOK, TaskTypes
  <2>4. QED
    BY <1>7, <2>2, <2>3, QuietPresent DEF Reads, credVars, quotaVars
<1>8. CASE Answered(p)
  <2>1. at[p].cred \in Creds /\ FreshEntry(p).of = at[p].of
    BY <1>1, <1>8 DEF Answered, Is, FreshEntry
  <2>2. \A k \in Creds : cache'[k] # None =>
          \/ cache[k] # None /\ cache'[k].of = cache[k].of
          \/ \E q \in Tasks : /\ Is(q, "fetching") /\ ~Stale(q)
                              /\ at[q].cred = k /\ cache'[k].of = at[q].of
    BY <1>8, <2>1 DEF Answered, TypeOK, QuotaTypes
  <2>3. QED
    BY <1>8, <2>2, Stages, MovesQuietly, QuietPresent DEF Answered, Ends, credVars, Is
<1>9. CASE Failed(p)
  BY <1>9, Stages, MovesQuietly, QuietPresent
     DEF Failed, Ends, credVars, quotaVars, Is
<1>10. CASE RemoveCompleted(p)
  BY <1>10, Stages, MovesQuietly, QuietPresent DEF RemoveCompleted, credVars, Is
<1>11. CASE CandidateAnswered(p)
  <2> DEFINE k == at[p].cred
  <2>1. k \in Creds /\ ~Is(p, "selected")
    BY <1>1, <1>11 DEF CandidateAnswered, Is
  <2>2. meter'[k] = at[p].of /\ cache'[k].of = at[p].of
    BY <1>11, <2>1 DEF CandidateAnswered, Recharge, TypeOK, CredTypes, QuotaTypes
  <2>3. \A j \in Creds \ {k} : meter'[j] = meter[j] /\ cache'[j] = cache[j]
    BY <1>11, <2>1 DEF CandidateAnswered, Recharge, TypeOK, CredTypes, QuotaTypes
  <2>4. at' = [at EXCEPT ![p] = Idle] /\ Forget({k})
    BY <1>11 DEF CandidateAnswered
  <2>5. \A q \in Tasks : Is(q, "selected") => at'[q] = at[q] \/ at[q].cred \in {k}
    BY <2>1, <2>4, Stages, MovesQuietly
  <2>6. \A q \in Tasks : Is(q, "fetching")' => at'[q] = at[q]
    BY <2>1, <2>4, Stages, MovesQuietly
  <2>7. QED
    BY <2>1, <2>2, <2>3, <2>4, <2>5, <2>6, ForgetPresent
<1>12. CASE CandidateRefused(p)
  BY <1>12, Stages, MovesQuietly, QuietPresent
     DEF CandidateRefused, credVars, quotaVars, Is
<1>13. CASE SelectAccount(p)
  <2> DEFINE k == at[p].cred
  <2>1. k \in Creds
    BY <1>1, <1>13 DEF SelectAccount, Is
  <2>2. \A j \in Creds : IF j = k THEN cache'[j] = None
                         ELSE meter'[j] = meter[j] /\ cache'[j] = cache[j]
    BY <1>13 DEF SelectAccount, Invalidate
  <2>3. \A q \in Tasks : q # p => at'[q] = at[q]
    BY <1>13 DEF SelectAccount, TypeOK, TaskTypes
  <2>4. at'[p].stage = "asked"
    BY <1>13, Stages DEF SelectAccount, TypeOK, TaskTypes
  <2>5. Forget({k})
    BY <1>13 DEF SelectAccount, Invalidate
  <2>6. \A q \in Tasks : Is(q, "selected") => at'[q] = at[q] \/ at[q].cred \in {k}
    BY <2>3
  <2>7. \A q \in Tasks : Is(q, "fetching")' => at'[q] = at[q]
    BY <2>3, <2>4 DEF Is
  <2>8. QED
    BY <2>1, <2>2, <2>5, <2>6, <2>7, ForgetPresent
<1>14. QED
  BY <1>2, <1>3, <1>4, <1>5, <1>6, <1>7, <1>8, <1>9, <1>10, <1>11, <1>12, <1>13
     DEF TaskStep

(* Handlers, the scan, the changes of credentials, requests and shutdown.  *)
LEMMA PresentStep == TypeOK /\ PresentInv /\ [Next]_vars => PresentInv'
<1> SUFFICES ASSUME TypeOK, PresentInv, [Next]_vars PROVE PresentInv'
  OBVIOUS
<1>1. TypeOK'
  BY TypeStep
<1>2. ASSUME NEW p \in Tasks, TaskStep(p) PROVE PresentInv'
  BY <1>1, <1>2, PresentTaskStep
<1>3. ASSUME NEW p \in Tasks, NEW k \in Creds, RefreshQuota(p, k) PROVE PresentInv'
  <2>1. at' = [at EXCEPT ![p] = At("created", k)] /\ Is(p, "idle")
    BY <1>3 DEF RefreshQuota, Created
  <2>2. At("created", k).stage # "fetching"
    BY Stages
  <2>3. /\ \A q \in Tasks : Is(q, "selected") => at'[q] = at[q]
        /\ \A q \in Tasks : Is(q, "fetching")' => WentOn(q)
    BY <2>1, <2>2, MovesQuietly DEF Is
  <2>4. QED
    BY <1>1, <1>3, <2>3, QuietPresent DEF RefreshQuota, credVars
<1>4. ASSUME NEW p \in Tasks, NEW k \in Creds, ProbeWithSemaphore(p, k)
      PROVE  PresentInv'
  <2>1. CASE at' = at
    BY <1>1, <1>4, <2>1, QuietPresent DEF ProbeWithSemaphore, credVars, Is, WentOn
  <2>2. CASE at' # at
    <3>1. PICK v : at' = [at EXCEPT ![p] = v] /\ v.stage # "fetching"
      <4>1. \/ at' = [at EXCEPT ![p] = At("created", k)]
            \/ at' = [at EXCEPT ![p] = [At("waiting", k) EXCEPT !.background = TRUE]]
        BY <1>4, <2>2 DEF ProbeWithSemaphore, Created
      <4>2. /\ At("created", k).stage # "fetching"
            /\ [At("waiting", k) EXCEPT !.background = TRUE].stage # "fetching"
        BY DEF At
      <4>3. QED
        BY <4>1, <4>2
    <3>2. QED
      BY <1>1, <1>4, <3>1, MovesQuietly, QuietPresent
         DEF ProbeWithSemaphore, credVars, Is
  <2>3. QED
    BY <2>1, <2>2
<1>5. ASSUME NEW p \in Tasks, NEW k \in Creds, NEW m \in Meters, ChangeMode(p, k, m)
      PROVE  PresentInv'
  BY <1>1, <1>5, Stages, MovesQuietly, QuietPresent
     DEF ChangeMode, credVars, quotaVars, Is
<1>6. ASSUME NEW p \in Tasks, NEW k \in Creds, NEW m \in Meters, SwitchReplaces(p, k, m)
      PROVE  PresentInv'
  <2>1. at' = [at EXCEPT ![p] = At("selected", k)] /\ Is(p, "idle")
    BY <1>6 DEF SwitchReplaces
  <2>2. at'[p].stage = "selected" /\ at'[p].cred = k
    BY <2>1 DEF At, TypeOK, TaskTypes
  <2>3. Excused(k)'
    BY <2>2 DEF Excused, Is
  <2>4. \A j \in Creds \ {k} : meter'[j] = meter[j]
    BY <1>6 DEF SwitchReplaces, Recharge, TypeOK, CredTypes
  <2>5. \A q \in Tasks : Is(q, "selected") => at'[q] = at[q]
    BY <2>1, Stages, MovesQuietly DEF Is
  <2>6. \A q \in Tasks : Is(q, "fetching")' => at'[q] = at[q]
    BY <2>1, Stages, MovesQuietly DEF Is
  <2>7. UNCHANGED <<torn, cache, invalidations>>
    BY <1>6 DEF SwitchReplaces, quotaVars
  <2>8. QED
    BY <1>1, <2>3, <2>4, <2>5, <2>6, <2>7, ChangePresent
<1>7. ASSUME NEW p \in Tasks, NEW k \in Creds, NEW m \in Meters,
             CreateCredential(p, k, m)
      PROVE  PresentInv'
  <2>1. at' = [at EXCEPT ![p] = Scheduled(k)] /\ Is(p, "idle")
    BY <1>7 DEF CreateCredential
  <2>2. \A q \in Tasks : Is(q, "selected") => at'[q] = at[q]
    BY <2>1, Stages, MovesQuietly DEF Is
  <2>3. \A q \in Tasks : Is(q, "fetching")' => at'[q] = at[q] /\ WentOn(q)
    BY <2>1, Stages, MovesQuietly DEF Is
  <2>4. \A j \in Creds : Excused(j) => Excused(j)'
    BY <1>7, <2>2 DEF CreateCredential, Excused, Is
  <2>5. \A q \in Tasks : Is(q, "fetching")' => at[q].cred \in Creds /\ at[q].of \in Meters
    BY <2>3 DEF WentOn, TypeOK, TaskTypes, Is
  <2>6. meter[k] = None /\ \A j \in Creds \ {k} : meter'[j] = meter[j]
    BY <1>7 DEF CreateCredential, TypeOK, CredTypes
  <2>7. UNCHANGED <<cache, invalidations>>
    BY <1>7 DEF CreateCredential, quotaVars
  <2>8. SinceBehind'
    BY <2>3, <2>7 DEF PresentInv, SinceBehind, WentOn, Is
  <2>9. FetchPresent'
    <3> SUFFICES ASSUME NEW q \in Tasks, Is(q, "fetching")', ~Stale(q)'
                 PROVE  (at[q].of = meter[at[q].cred] \/ Excused(at[q].cred))'
      BY DEF FetchPresent
    <3>1. at'[q] = at[q] /\ Is(q, "fetching") /\ ~Stale(q)
      BY <2>3, <2>7 DEF WentOn, Stale
    <3>2. at[q].of = meter[at[q].cred] \/ Excused(at[q].cred)
      BY <3>1 DEF PresentInv, FetchPresent
    <3>3. QED
      BY <2>4, <2>5, <2>6, <3>1, <3>2, NoneIsNothing
  <2>10. CachedForPresent'
    <3> SUFFICES ASSUME NEW j \in Creds, cache[j] # None
                 PROVE  cache[j].of = meter'[j] \/ Excused(j)'
      BY <2>7 DEF CachedForPresent, Excused
    <3>1. cache[j].of \in Meters
      BY DEF TypeOK, QuotaTypes, Entries
    <3>2. cache[j].of = meter[j] \/ Excused(j)
      BY DEF PresentInv, CachedForPresent, Excused
    <3>3. QED
      BY <2>4, <2>6, <3>1, <3>2, NoneIsNothing
  <2>11. QED
    BY <2>8, <2>9, <2>10 DEF PresentInv
<1>8. ASSUME NEW k \in Creds, NEW m \in Meters, ReplaceTorn(k, m) PROVE PresentInv'
  <2>1. Excused(k)' /\ torn \subseteq torn'
    BY <1>8 DEF ReplaceTorn, Excused
  <2>2. \A j \in Creds \ {k} : meter'[j] = meter[j]
    BY <1>8 DEF ReplaceTorn, TypeOK, CredTypes
  <2>3. UNCHANGED <<at, cache, invalidations>>
    BY <1>8 DEF ReplaceTorn, quotaVars
  <2>4. QED
    BY <1>1, <2>1, <2>2, <2>3, ChangePresent DEF Is
<1>9. ASSUME NEW k \in Creds, DeleteCredential(k) PROVE PresentInv'
  <2>1. Forget({k}) /\ cache' = [j \in Creds |-> IF j = k THEN None ELSE cache[j]]
    BY <1>9 DEF DeleteCredential, Invalidate
  <2>2. \A j \in Creds \ {k} : meter'[j] = meter[j]
    BY <1>9 DEF DeleteCredential, Recharge, TypeOK, CredTypes
  <2>3. at' = at
    BY <1>9 DEF DeleteCredential
  <2>4. QED
    BY <1>1, <2>1, <2>2, <2>3, ForgetPresent DEF Is
<1>10. ASSUME NEW m \in Meters, RefreshAccountQuotas(m) PROVE PresentInv'
  <2> DEFINE ks == {k \in Creds : meter[k] = m}
  <2>1. Forget(ks) /\ cache' = [j \in Creds |-> IF j \in ks THEN None ELSE cache[j]]
        /\ meter' = meter
    BY <1>10 DEF RefreshAccountQuotas, Invalidate
  <2>2. PICK task \in [ks -> {p \in Tasks : Is(p, "idle")}] :
          at' = [p \in Tasks |->
                   IF \E k \in ks : task[k] = p
                     THEN Scheduled(CHOOSE k \in ks : task[k] = p)
                     ELSE at[p]]
    BY <1>10 DEF RefreshAccountQuotas
  <2>3. \A p \in Tasks : \/ at'[p] = at[p]
                         \/ Is(p, "idle") /\ at'[p].stage = "asked"
    BY <2>2, Stages
  <2>4. \A q \in Tasks : Is(q, "selected") => at'[q] = at[q] \/ at[q].cred \in ks
    BY <2>3 DEF Is
  <2>5. \A q \in Tasks : Is(q, "fetching")' => at'[q] = at[q]
    BY <2>3 DEF Is
  <2> HIDE DEF ks
  <2>6. ks \in SUBSET Creds
    BY DEF ks
  <2>7. QED
    BY <1>1, <2>1, <2>4, <2>5, <2>6, ForgetPresent
<1>11. ASSUME NEW r \in Requests, Costs(r) \/ \E k \in Creds : SendRequest(r, k)
       PROVE  PresentInv'
  BY <1>1, <1>11, QuietPresent
     DEF SendRequest, Costs, credVars, quotaVars, Is, WentOn
<1>12. ASSUME NEW r \in Requests, ApplyUsage(r) PROVE PresentInv'
  <2> DEFINE j == request[r].cred
  <2>1. \A k \in Creds : cache'[k] = cache[k] \/ (cache[k] # None /\ k = j
          /\ cache'[k] = [cache[k] EXCEPT !.deducted = @ \union {r}])
    <3>1. CASE cache' = cache
      BY <3>1
    <3>2. CASE cache' # cache
      <4>1. cache[j] # None
            /\ cache' = [cache EXCEPT ![j].deducted = @ \union {r}]
        BY <1>12, <3>2 DEF ApplyUsage
      <4>2. QED
        BY <4>1 DEF TypeOK, QuotaTypes
    <3>3. QED
      BY <3>1, <3>2
  <2>2. ASSUME NEW e \in Entries PROVE [e EXCEPT !.deducted = @ \union {r}].of = e.of
    BY DEF Entries
  <2>3. \A k \in Creds : cache'[k] # None => cache[k] # None /\ cache'[k].of = cache[k].of
    BY <2>1, <2>2 DEF TypeOK, QuotaTypes
  <2>4. QED
    BY <1>1, <1>12, <2>3, QuietPresent DEF ApplyUsage, credVars, Is, WentOn
<1>13. CASE ScanOnce
  BY <1>1, <1>13, QuietPresent DEF ScanOnce, credVars, quotaVars, Is, WentOn
<1>14. CASE Shutdown
  <2>1. \A q \in Tasks : ~Is(q, "selected")
    BY <1>14 DEF Shutdown, Is
  <2>2. \A q \in Tasks : Is(q, "fetching")' => WentOn(q)
    BY <1>14, Stages DEF Shutdown, Is, WentOn
  <2>3. QED
    BY <1>1, <1>14, <2>1, <2>2, QuietPresent DEF Shutdown, credVars
<1>15. CASE UNCHANGED vars
  BY <1>1, <1>15, QuietPresent DEF vars, credVars, quotaVars, Is, WentOn
<1>16. ASSUME NEW k \in Creds, NEW m \in Meters,
              ReplaceTorn(k, m) \/ DeleteCredential(k) \/ RefreshAccountQuotas(m)
       PROVE  PresentInv'
  BY <1>8, <1>9, <1>10, <1>16
<1>17. ASSUME NEW p \in Tasks, NEW k \in Creds, NEW m \in Meters,
              ChangeMode(p, k, m) \/ SwitchReplaces(p, k, m) \/ CreateCredential(p, k, m)
       PROVE  PresentInv'
  BY <1>5, <1>6, <1>7, <1>17
<1>18. QED
  BY <1>2, <1>3, <1>4, <1>9, <1>10, <1>11, <1>12, <1>13, <1>14, <1>15, <1>16, <1>17
     DEF Next

(* What is shown of a credential's quota is of the meter its requests are  *)
(* charged to, up to the turns before a switch is known and torn writes:   *)
(* invalidate_credential outdates every probe of the earlier meter.        *)
THEOREM QuotaPresent == Spec => []CachedForPresent
<1>1. Init => TypeOK /\ PresentInv
  BY TypeInit, PresentInit
<1>2. TypeOK /\ PresentInv /\ [Next]_vars => (TypeOK /\ PresentInv)'
  BY TypeStep, PresentStep
<1>3. PresentInv => CachedForPresent
  BY DEF PresentInv
<1>4. QED
  BY <1>1, <1>2, <1>3, PTL DEF Spec

-----------------------------------------------------------------------------
(* The inductive invariant under UsageDeducted: an answer that is not      *)
(* outdated, with the usage applied since its probe began, leaves out all  *)
(* usage reported under the present generation; no generation runs ahead.  *)
Reported(r, k) ==
    request[r].stage = "reported" /\ request[r].cred = k /\ request[r].gen = qgen[k]

ReqBehind ==
    \A r \in Requests : request[r].stage # "idle" =>
        request[r].cred \in Creds /\ request[r].gen <= qgen[request[r].cred]

AppliedReported ==
    /\ \A k \in Creds : \A r \in applied[k] : request[r].stage = "reported"
    /\ \A p \in Tasks : Is(p, "fetching") =>
         \A r \in at[p].base : request[r].stage = "reported"

FetchDeducts ==
    \A p \in Tasks : Is(p, "fetching") /\ ~Stale(p) /\ at[p].seen # None =>
        \A r \in Requests :
            Reported(r, at[p].cred) /\ request[r].of = at[p].of
            => r \in at[p].seen \union Concurrent(p)

UsageInv == ReqBehind /\ AppliedReported /\ FetchDeducts /\ UsageDeducted

(* What a step may do to a probe that fetches after it.                    *)
Goes(q) ==
    \/ Is(q, "fetching") /\ at'[q] = at[q]
    \/ at'[q].seen = None /\ at'[q].base = applied[at'[q].cred]
    \/ Is(q, "fetching") /\ at'[q] = [at[q] EXCEPT !.seen = ChargedTo(at[q].of)]

(* A step of no request: generations and invalidations move on, probes     *)
(* begin, read and answer.                                                 *)
LEMMA QuietUsage ==
    ASSUME TypeOK, TypeOK', SinceBehind, UsageInv,
           UNCHANGED request,
           \A k \in Creds : qgen'[k] = qgen[k] \/ qgen'[k] = qgen[k] + 1,
           \A k \in Creds :
              \/ applied'[k] = applied[k] /\ invalidations'[k] = invalidations[k]
              \/ applied'[k] = {} /\ invalidations'[k] = invalidations[k] + 1,
           \A q \in Tasks : Is(q, "fetching")' => Goes(q),
           \A k \in Creds : cache'[k] # None =>
              \/ cache'[k] = cache[k]
              \/ qgen'[k] = qgen[k] + 1
              \/ \E p \in Tasks : /\ Is(p, "fetching") /\ ~Stale(p)
                                  /\ at[p].seen # None /\ at[p].cred = k
                                  /\ cache'[k] = FreshEntry(p)
    PROVE  UsageInv'
<1>1. \A k \in Creds : qgen[k] \in Nat /\ invalidations[k] \in Nat
  BY DEF TypeOK, CredTypes, QuotaTypes
<1>2. \A r \in Requests : request[r].gen \in Nat
  BY DEF TypeOK, RequestStates
<1>3. \A q \in Tasks : Is(q, "fetching")' => at'[q].cred \in Creds
  BY DEF TypeOK, TaskTypes, Is
<1>4. ReqBehind'
  BY <1>1, <1>2 DEF UsageInv, ReqBehind
<1>5. \A r \in Requests, k \in Creds :
        Reported(r, k)' => Reported(r, k) /\ qgen'[k] = qgen[k]
  BY <1>1, <1>2 DEF UsageInv, ReqBehind, Reported
<1>6. ASSUME NEW q \in Tasks, at'[q] = [at[q] EXCEPT !.seen = ChargedTo(at[q].of)]
      PROVE  /\ at'[q].cred = at[q].cred /\ at'[q].of = at[q].of
             /\ at'[q].base = at[q].base /\ at'[q].since = at[q].since
             /\ at'[q].seen = ChargedTo(at[q].of)
  <2>1. at[q] \in Coroutines
    BY DEF TypeOK, TaskTypes
  <2>2. ASSUME NEW v \in Coroutines, NEW S
        PROVE  /\ [v EXCEPT !.seen = S].cred = v.cred /\ [v EXCEPT !.seen = S].of = v.of
               /\ [v EXCEPT !.seen = S].base = v.base
               /\ [v EXCEPT !.seen = S].since = v.since
               /\ [v EXCEPT !.seen = S].seen = S
    BY DEF Coroutines
  <2>3. QED
    BY <1>6, <2>1, <2>2
<1>7. AppliedReported'
  <2>1. \A k \in Creds : \A r \in applied'[k] : request'[r].stage = "reported"
    BY DEF UsageInv, AppliedReported
  <2>2. \A q \in Tasks : Is(q, "fetching")' =>
          \/ at'[q].base = at[q].base /\ Is(q, "fetching")
          \/ at'[q].base = applied[at'[q].cred]
    BY <1>6 DEF Goes
  <2>3. \A q \in Tasks : Is(q, "fetching")' =>
          \A r \in at'[q].base : request'[r].stage = "reported"
    BY <1>3, <2>2 DEF UsageInv, AppliedReported
  <2>4. QED
    BY <2>1, <2>3 DEF AppliedReported
<1>8. FetchDeducts'
  <2> SUFFICES ASSUME NEW q \in Tasks, Is(q, "fetching")', ~Stale(q)', at'[q].seen # None,
                      NEW r \in Requests, Reported(r, at[q].cred)',
                      request'[r].of = at'[q].of
               PROVE  r \in at'[q].seen \union Concurrent(q)'
    BY DEF FetchDeducts
  <2> DEFINE k == at'[q].cred
  <2>1. k \in Creds
    BY <1>3
  <2>2. /\ Is(q, "fetching") /\ at'[q].since = at[q].since /\ at[q].cred = k
        /\ at'[q].of = at[q].of /\ at'[q].base = at[q].base
        /\ \/ at'[q].seen = at[q].seen
           \/ at'[q].seen = ChargedTo(at[q].of)
    BY <1>6 DEF Goes
  <2>3. at[q].since <= invalidations[k] /\ at[q].since \in Nat
    BY <2>2 DEF SinceBehind, TypeOK, TaskTypes, Coroutines
  <2>4. applied'[k] = applied[k] /\ invalidations'[k] = invalidations[k]
    BY <1>1, <2>1, <2>2, <2>3 DEF Stale
  <2>5. Concurrent(q)' = Concurrent(q) /\ ~Stale(q)
    BY <2>2, <2>4 DEF Concurrent, Stale
  <2>6. Reported(r, k) /\ request[r].of = at[q].of
    <3>1. PICK j \in Creds : j = k
      BY <2>1
    <3>2. Reported(r, j)'
      BY <3>1 DEF Reported
    <3>3. QED
      BY <1>5, <2>2, <3>1, <3>2
  <2>7. CASE at'[q].seen = at[q].seen
    BY <2>2, <2>5, <2>6, <2>7 DEF UsageInv, FetchDeducts
  <2>8. CASE at'[q].seen = ChargedTo(at[q].of)
    BY <2>6, <2>8 DEF ChargedTo, Reported
  <2>9. QED
    BY <2>2, <2>7, <2>8
<1>9. UsageDeducted'
  <2> SUFFICES ASSUME NEW r \in Requests, NEW k \in Creds, Reported(r, k)',
                      cache'[k] # None, cache'[k].of = request'[r].of
               PROVE  r \in cache'[k].deducted
    BY <1>4 DEF UsageDeducted, Reported, ReqBehind
  <2>1. Reported(r, k) /\ qgen'[k] = qgen[k]
    BY <1>5
  <2>2. CASE cache'[k] = cache[k]
    BY <2>1, <2>2 DEF UsageInv, UsageDeducted, Reported
  <2>3. CASE \E p \in Tasks : /\ Is(p, "fetching") /\ ~Stale(p)
                              /\ at[p].seen # None /\ at[p].cred = k
                              /\ cache'[k] = FreshEntry(p)
    BY <2>1, <2>3 DEF UsageInv, FetchDeducts, FreshEntry
  <2>4. QED
    BY <1>1, <2>1, <2>2, <2>3
<1>10. QED
  BY <1>4, <1>7, <1>8, <1>9 DEF UsageInv

(* Coroutine p begins to fetch, with the usage applied so far.             *)
LEMMA FetchesGoes ==
    ASSUME TypeOK, NEW p \in Tasks, NEW k \in Creds, Fetches(p, k)
    PROVE  \A q \in Tasks : Is(q, "fetching")' => Goes(q)
<1>1. /\ Fetching(p, k).cred = k
      /\ Fetching(p, k).seen = None
      /\ Fetching(p, k).base = applied[k]
  BY DEF Fetching
<1>2. at' = [at EXCEPT ![p] = Fetching(p, k)]
  BY DEF Fetches
<1>3. Goes(p)
  BY <1>1, <1>2 DEF Goes, TypeOK, TaskTypes
<1>4. \A q \in Tasks : q # p => at'[q] = at[q]
  BY <1>2 DEF TypeOK, TaskTypes
<1>5. QED
  BY <1>3, <1>4 DEF Is, Goes

(* Coroutine p moves to a place without a request under way.               *)
LEMMA MovesGoes ==
    ASSUME TypeOK, NEW p \in Tasks, NEW v, at' = [at EXCEPT ![p] = v],
           v.stage # "fetching"
    PROVE  \A q \in Tasks : Is(q, "fetching")' => Goes(q)
BY DEF TypeOK, TaskTypes, Is, Goes

(* A step that leaves generations, usage and entries alone.                *)
LEMMA ApartUsage ==
    ASSUME TypeOK, TypeOK', SinceBehind, UsageInv,
           UNCHANGED <<request, qgen, applied, invalidations, cache>>,
           \A q \in Tasks : Is(q, "fetching")' => Goes(q)
    PROVE  UsageInv'
BY QuietUsage

(* A step that forgets ks: what is kept of ks is of a new generation.      *)
LEMMA ForgetUsage ==
    ASSUME TypeOK, TypeOK', SinceBehind, UsageInv, NEW ks, Forget(ks),
           UNCHANGED request,
           \A k \in Creds : qgen'[k] = qgen[k] \/ qgen'[k] = qgen[k] + 1,
           \A k \in Creds : cache'[k] # None =>
              cache'[k] = cache[k] \/ qgen'[k] = qgen[k] + 1,
           \A q \in Tasks : Is(q, "fetching")' => Goes(q)
    PROVE  UsageInv'
<1>1. \A k \in Creds :
         \/ applied'[k] = applied[k] /\ invalidations'[k] = invalidations[k]
         \/ applied'[k] = {} /\ invalidations'[k] = invalidations[k] + 1
  <2> SUFFICES ASSUME NEW k \in Creds
               PROVE  \/ applied'[k] = applied[k] /\ invalidations'[k] = invalidations[k]
                      \/ applied'[k] = {} /\ invalidations'[k] = invalidations[k] + 1
    OBVIOUS
  <2>1. invalidations[k] \in Nat
    BY DEF TypeOK, QuotaTypes
  <2>2. CASE k \in ks
    BY <2>2 DEF Forget
  <2>3. CASE k \notin ks
    BY <2>1, <2>3 DEF Forget
  <2>4. QED
    BY <2>2, <2>3
<1>2. QED
  BY <1>1, QuietUsage

(* No request is made at first, so that none is missing.                   *)
LEMMA UsageInit == Init => UsageInv
<1> SUFFICES ASSUME Init PROVE UsageInv
  OBVIOUS
<1>1. \A r \in Requests : request[r].stage = "idle"
  BY DEF Init, NotSent
<1>2. \A p \in Tasks : ~Is(p, "fetching")
  BY Stages DEF Init, Is
<1>3. ReqBehind /\ FetchDeducts /\ UsageDeducted
  BY <1>1, <1>2 DEF ReqBehind, FetchDeducts, UsageDeducted
<1>4. AppliedReported
  BY <1>2 DEF Init, AppliedReported
<1>5. QED
  BY <1>3, <1>4 DEF UsageInv

(* The steps of the coroutines preserve UsageInv.                          *)
LEMMA UsageTaskStep ==
    ASSUME TypeOK, TypeOK', SinceBehind, UsageInv, NEW p \in Tasks, TaskStep(p)
    PROVE  UsageInv'
<1>1. at[p].stage # "idle" => at[p].cred \in Creds
  BY DEF TypeOK, TaskTypes
<1>2. CASE BeginScheduled(p)
  <2>1. PICK v : at' = [at EXCEPT ![p] = v] /\ v.stage # "fetching"
    BY <1>2, Stages DEF BeginScheduled, Created
  <2>2. QED
    BY <1>2, <2>1, MovesGoes, ApartUsage DEF BeginScheduled, credVars
<1>3. CASE BeginProbe(p)
  <2>1. CASE Fetches(p, at[p].cred)
    BY <1>1, <1>3, <2>1, FetchesGoes, ApartUsage DEF BeginProbe, credVars, quotaVars, Is
  <2>2. CASE Ends(p, Done(p))
    BY <1>3, <2>2, Stages, MovesGoes, ApartUsage DEF BeginProbe, Ends, credVars, quotaVars
  <2>3. QED
    BY <1>3, <2>1, <2>2 DEF BeginProbe
<1>4. CASE TakeTurn(p)
  <2>1. [at[p] EXCEPT !.stage = "pacing"].stage = "pacing"
    BY DEF TypeOK, TaskTypes, Coroutines
  <2>2. QED
    BY <1>4, <2>1, MovesGoes, ApartUsage DEF TakeTurn, credVars, quotaVars
<1>5. CASE DelayOver(p)
  <2>1. CASE at' = [at EXCEPT ![p] = Idle] \/ at' = [at EXCEPT ![p] = Done(p)]
    BY <1>5, <2>1, Stages, MovesGoes, ApartUsage DEF DelayOver, credVars
  <2>2. CASE Fetches(p, at[p].cred)
    BY <1>1, <1>5, <2>2, FetchesGoes, ApartUsage DEF DelayOver, credVars, Is
  <2>3. QED
    BY <1>5, <2>1, <2>2 DEF DelayOver, Ends
<1>6. CASE MarkStarted(p)
  BY <1>6, ApartUsage DEF MarkStarted, credVars, quotaVars, Is, Goes
<1>7. CASE Reads(p)
  <2>1. at' = [at EXCEPT ![p] = [at[p] EXCEPT !.seen = ChargedTo(at[p].of)]]
    BY <1>7 DEF Reads
  <2>2. [at[p] EXCEPT !.seen = ChargedTo(at[p].of)].stage = at[p].stage
    BY DEF TypeOK, TaskTypes, Coroutines
  <2>3. \A q \in Tasks : Is(q, "fetching")' => Goes(q)
    BY <2>1, <2>2 DEF Goes, Is, TypeOK, TaskTypes
  <2>4. QED
    BY <1>7, <2>3, ApartUsage DEF Reads, credVars, quotaVars
<1>8. CASE Answered(p)
  <2>1. at[p].cred \in Creds
    BY <1>1, <1>8 DEF Answered, Is
  <2>2. \A k \in Creds : cache'[k] # None =>
          \/ cache'[k] = cache[k]
          \/ \E q \in Tasks : /\ Is(q, "fetching") /\ ~Stale(q)
                              /\ at[q].seen # None /\ at[q].cred = k
                              /\ cache'[k] = FreshEntry(q)
    BY <1>8, <2>1 DEF Answered, TypeOK, QuotaTypes
  <2>3. \A q \in Tasks : Is(q, "fetching")' => Goes(q)
    BY <1>8, Stages, MovesGoes DEF Answered, Ends
  <2>4. UNCHANGED <<request, qgen, applied, invalidations>>
    BY <1>8 DEF Answered, credVars
  <2>5. QED
    BY <2>2, <2>3, <2>4, QuietUsage
<1>9. CASE Failed(p)
  BY <1>9, Stages, MovesGoes, ApartUsage DEF Failed, Ends, credVars, quotaVars
<1>10. CASE RemoveCompleted(p)
  BY <1>10, Stages, MovesGoes, ApartUsage DEF RemoveCompleted, credVars
<1>11. CASE CandidateAnswered(p)
  <2> DEFINE k == at[p].cred
  <2>1. k \in Creds
    BY <1>1, <1>11 DEF CandidateAnswered, Is
  <2>2. \A j \in Creds : IF j = k THEN qgen'[j] = qgen[j] + 1
                         ELSE qgen'[j] = qgen[j] /\ cache'[j] = cache[j]
    <3>1. qgen' = [qgen EXCEPT ![k] = qgen[k] + 1]
      BY <1>11 DEF CandidateAnswered, Recharge
    <3>2. \A j \in Creds \ {k} : cache'[j] = cache[j]
      BY <1>11 DEF CandidateAnswered, TypeOK, QuotaTypes
    <3>3. QED
      BY <2>1, <3>1, <3>2 DEF TypeOK, CredTypes
  <2>3. \A q \in Tasks : Is(q, "fetching")' => Goes(q)
    BY <1>11, Stages, MovesGoes DEF CandidateAnswered
  <2>4. Forget({k}) /\ UNCHANGED request
    BY <1>11 DEF CandidateAnswered
  <2>5. QED
    BY <2>2, <2>3, <2>4, ForgetUsage
<1>12. CASE CandidateRefused(p)
  BY <1>12, Stages, MovesGoes, ApartUsage DEF CandidateRefused, credVars, quotaVars
<1>13. CASE SelectAccount(p)
  <2>1. \A q \in Tasks : Is(q, "fetching")' => Goes(q)
    BY <1>13, Stages, MovesGoes DEF SelectAccount
  <2>2. Forget({at[p].cred}) /\ UNCHANGED <<request, qgen>>
        /\ \A k \in Creds : cache'[k] # None => cache'[k] = cache[k]
    BY <1>13 DEF SelectAccount, Invalidate
  <2>3. QED
    BY <2>1, <2>2, ForgetUsage
<1>14. QED
  BY <1>2, <1>3, <1>4, <1>5, <1>6, <1>7, <1>8, <1>9, <1>10, <1>11, <1>12, <1>13
     DEF TaskStep

(* A request goes on: it is behind its credential's generation, and only   *)
(* apply_usage makes it reported.                                          *)
LEMMA RequestUsage ==
    ASSUME TypeOK, TypeOK', UsageInv, NEW r \in Requests,
           Costs(r) \/ \E k \in Creds : SendRequest(r, k)
    PROVE  UsageInv'
<1>1. /\ \A s \in Requests : s # r => request'[s] = request[s]
      /\ request[r].stage \in {"idle", "sent"}
      /\ request'[r].stage \in {"sent", "spent"}
  <2>1. CASE Costs(r)
    <3>1. request' = [request EXCEPT ![r] = [request[r] EXCEPT !.stage = "spent"]]
          /\ request[r].stage = "sent"
      BY <2>1 DEF Costs
    <3>2. [request[r] EXCEPT !.stage = "spent"].stage = "spent"
      BY DEF TypeOK, RequestStates
    <3>3. QED
      BY <3>1, <3>2 DEF TypeOK
  <2>2. ASSUME NEW k \in Creds, SendRequest(r, k)
        PROVE  /\ \A s \in Requests : s # r => request'[s] = request[s]
               /\ request[r].stage = "idle" /\ request'[r].stage = "sent"
    BY <2>2 DEF SendRequest, TypeOK
  <2>3. QED
    BY <2>1, <2>2
<1>2. UNCHANGED <<qgen, applied, invalidations, cache, at>>
  BY DEF Costs, SendRequest, credVars, quotaVars
<1>3. request'[r].cred \in Creds /\ request'[r].gen <= qgen[request'[r].cred]
  <2>1. CASE Costs(r)
    BY <2>1 DEF Costs, UsageInv, ReqBehind, TypeOK, RequestStates
  <2>2. ASSUME NEW k \in Creds, SendRequest(r, k)
        PROVE  request'[r].cred = k /\ request'[r].gen = qgen[k]
    BY <2>2 DEF SendRequest, TypeOK
  <2>3. \A k \in Creds : qgen[k] \in Nat
    BY DEF TypeOK, CredTypes
  <2>4. QED
    BY <2>1, <2>2, <2>3
<1>4. \A s \in Requests, k \in Creds : Reported(s, k)' => Reported(s, k) /\ s # r
  BY <1>1, <1>2 DEF Reported
<1>5. ReqBehind'
  BY <1>1, <1>2, <1>3 DEF UsageInv, ReqBehind
<1>6. AppliedReported'
  <2>1. \A s \in Requests : request[s].stage = "reported" =>
                            request'[s].stage = "reported"
    BY <1>1
  <2>2. \A k \in Creds : applied[k] \subseteq Requests
    BY DEF TypeOK, QuotaTypes
  <2>3. \A q \in Tasks : at[q].base \subseteq Requests
    BY DEF TypeOK, TaskTypes, Coroutines
  <2>4. QED
    BY <1>2, <2>1, <2>2, <2>3 DEF UsageInv, AppliedReported, Is
<1>7. FetchDeducts'
  <2> SUFFICES ASSUME NEW q \in Tasks, Is(q, "fetching"), ~Stale(q), at[q].seen # None,
                      NEW s \in Requests, Reported(s, at[q].cred)',
                      request'[s].of = at[q].of
               PROVE  s \in at[q].seen \union Concurrent(q)
    BY <1>2 DEF FetchDeducts, Is, Stale, Concurrent
  <2>1. at[q].cred \in Creds
    BY DEF TypeOK, TaskTypes, Is
  <2>2. Reported(s, at[q].cred) /\ request[s].of = at[q].of
    BY <1>1, <1>2, <1>4, <2>1
  <2>3. QED
    BY <2>2 DEF UsageInv, FetchDeducts
<1>8. UsageDeducted'
  <2> SUFFICES ASSUME NEW s \in Requests, NEW k \in Creds, Reported(s, k)',
                      cache[k] # None, cache[k].of = request'[s].of
               PROVE  s \in cache[k].deducted
    BY <1>2, <1>5 DEF UsageDeducted, Reported, ReqBehind
  <2>1. QED
    BY <1>1, <1>4 DEF UsageInv, UsageDeducted, Reported
<1>9. QED
  BY <1>5, <1>6, <1>7, <1>8 DEF UsageInv

(* apply_usage: a report of the present generation enters the total and    *)
(* the entry; one of an earlier generation changes neither.                *)
LEMMA ReportUsage ==
    ASSUME TypeOK, TypeOK', UsageInv, NEW r \in Requests, ApplyUsage(r)
    PROVE  UsageInv'
<1> DEFINE j == request[r].cred
<1>1. /\ \A s \in Requests : s # r => request'[s] = request[s]
      /\ request[r].stage = "spent" /\ request'[r].stage = "reported"
      /\ request'[r].cred = j /\ request'[r].gen = request[r].gen
      /\ request'[r].of = request[r].of
  <2>1. request' = [request EXCEPT ![r] = [request[r] EXCEPT !.stage = "reported"]]
        /\ request[r].stage = "spent"
    BY DEF ApplyUsage
  <2>2. /\ [request[r] EXCEPT !.stage = "reported"].stage = "reported"
        /\ [request[r] EXCEPT !.stage = "reported"].cred = request[r].cred
        /\ [request[r] EXCEPT !.stage = "reported"].gen = request[r].gen
        /\ [request[r] EXCEPT !.stage = "reported"].of = request[r].of
    BY DEF TypeOK, RequestStates
  <2>3. QED
    BY <2>1, <2>2 DEF TypeOK
<1>2. j \in Creds
  BY <1>1 DEF UsageInv, ReqBehind
<1>3. UNCHANGED <<qgen, invalidations, at>>
  BY DEF ApplyUsage, credVars
<1>4. /\ \A k \in Creds : \/ applied'[k] = applied[k]
                            \/ (k = j /\ applied'[k] = applied[k] \union {r})
      /\ qgen[j] = request[r].gen => r \in applied'[j]
  <2>1. CASE qgen[j] = request[r].gen
    <3>1. applied' = [applied EXCEPT ![j] = applied[j] \union {r}]
      BY <2>1 DEF ApplyUsage
    <3>2. applied \in [Creds -> SUBSET Requests]
      BY DEF TypeOK, QuotaTypes
    <3> HIDE DEF j
    <3>3. applied'[j] = applied[j] \union {r}
      BY <1>2, <3>1, <3>2
    <3>4. \A k \in Creds : k # j => applied'[k] = applied[k]
      BY <3>1, <3>2
    <3>5. QED
      BY <3>3, <3>4
  <2>2. CASE qgen[j] # request[r].gen
    <3>1. applied' = applied
      BY <2>2 DEF ApplyUsage
    <3>2. QED
      BY <2>2, <3>1
  <2>3. QED
    BY <2>1, <2>2
<1>5. \A s \in Requests : request[s].stage = "reported" => request'[s].stage = "reported"
  BY <1>1
<1>6. \A s \in Requests, k \in Creds :
        Reported(s, k)' => Reported(s, k) \/ (s = r /\ k = j /\ qgen[j] = request[r].gen)
  <2> SUFFICES ASSUME NEW s \in Requests, NEW k \in Creds, Reported(s, k)'
               PROVE  Reported(s, k) \/ (s = r /\ k = j /\ qgen[j] = request[r].gen)
    OBVIOUS
  <2>1. /\ request'[s].stage = "reported" /\ request'[s].cred = k
        /\ request'[s].gen = qgen[k]
    BY <1>3 DEF Reported
  <2>2. CASE s = r
    BY <1>1, <2>1, <2>2
  <2>3. CASE s # r
    <3>1. request'[s] = request[s]
      BY <1>1, <2>3
    <3>2. Reported(s, k)
      BY <2>1, <3>1 DEF Reported
    <3>3. QED
      BY <3>2
  <2>4. QED
    BY <2>2, <2>3
<1>7. ReqBehind'
  BY <1>1, <1>3 DEF UsageInv, ReqBehind
<1>8. \A q \in Tasks : Is(q, "fetching") => r \notin at[q].base
  BY <1>1 DEF UsageInv, AppliedReported
<1>9. AppliedReported'
  <2>1. \A k \in Creds : applied[k] \subseteq Requests
    BY DEF TypeOK, QuotaTypes
  <2>2. \A q \in Tasks : at[q].base \subseteq Requests
    BY DEF TypeOK, TaskTypes, Coroutines
  <2>3. \A k \in Creds : \A s \in applied'[k] : request'[s].stage = "reported"
    BY <1>1, <1>4, <1>5, <2>1 DEF UsageInv, AppliedReported
  <2>4. \A q \in Tasks : Is(q, "fetching") =>
          \A s \in at[q].base : request'[s].stage = "reported"
    BY <1>5, <2>2 DEF UsageInv, AppliedReported
  <2>5. QED
    BY <1>3, <2>3, <2>4 DEF AppliedReported, Is
<1>10. FetchDeducts'
  <2> SUFFICES ASSUME NEW q \in Tasks, Is(q, "fetching"), ~Stale(q), at[q].seen # None,
                      NEW s \in Requests, Reported(s, at[q].cred)',
                      request'[s].of = at[q].of
               PROVE  s \in at[q].seen \union (applied'[at[q].cred] \ at[q].base)
    BY <1>3 DEF FetchDeducts, Is, Stale, Concurrent
  <2>1. at[q].cred \in Creds
    BY DEF TypeOK, TaskTypes, Is
  <2>2. CASE Reported(s, at[q].cred)
    <3>1. request[s].of = at[q].of
      BY <1>1
    <3>2. s \in at[q].seen \union (applied[at[q].cred] \ at[q].base)
      BY <2>2, <3>1 DEF UsageInv, FetchDeducts, Concurrent
    <3>3. QED
      BY <1>4, <2>1, <3>2
  <2>3. CASE s = r /\ at[q].cred = j /\ qgen[j] = request[r].gen
    BY <1>4, <1>8, <2>3
  <2>4. QED
    BY <1>3, <1>6, <2>1, <2>2, <2>3
<1>11. UsageDeducted'
  <2> SUFFICES ASSUME NEW s \in Requests, NEW k \in Creds, Reported(s, k)',
                      cache'[k] # None, cache'[k].of = request'[s].of
               PROVE  s \in cache'[k].deducted
    BY <1>7 DEF UsageDeducted, Reported, ReqBehind
  <2>1. ASSUME NEW e \in Entries
        PROVE  /\ [e EXCEPT !.deducted = e.deducted \union {r}].of = e.of
               /\ [e EXCEPT !.deducted = e.deducted \union {r}].deducted
                    = e.deducted \union {r}
    BY DEF Entries
  <2>2. cache[k] # None => cache[k] \in Entries
    BY DEF TypeOK, QuotaTypes
  <2>3. /\ cache[k] # None
        /\ cache'[k].of = cache[k].of
        /\ cache[k].deducted \subseteq cache'[k].deducted
        /\ k = j /\ qgen[j] = request[r].gen => r \in cache'[k].deducted
    <3>1. CASE qgen[j] = request[r].gen /\ cache[j] # None
      <4>1. cache' = [cache EXCEPT ![j] =
                        [cache[j] EXCEPT !.deducted = cache[j].deducted \union {r}]]
        BY <3>1 DEF ApplyUsage
      <4>2. cache[j] \in Entries
        BY <1>2, <3>1 DEF TypeOK, QuotaTypes
      <4>3. CASE k = j
        BY <1>2, <2>1, <3>1, <4>1, <4>2, <4>3, ZenonT(60) DEF TypeOK, QuotaTypes
      <4>4. CASE k # j
        BY <4>1, <4>4 DEF TypeOK, QuotaTypes
      <4>5. QED
        BY <4>3, <4>4
    <3>2. CASE ~(qgen[j] = request[r].gen /\ cache[j] # None)
      <4>1. cache' = cache
        BY <3>2 DEF ApplyUsage
      <4>2. QED
        BY <3>2, <4>1
    <3>3. QED
      BY <3>1, <3>2
  <2>4. CASE Reported(s, k)
    BY <1>1, <2>3, <2>4 DEF UsageInv, UsageDeducted, Reported
  <2>5. CASE s = r /\ k = j /\ qgen[j] = request[r].gen
    BY <2>3, <2>5
  <2>6. QED
    BY <1>6, <2>4, <2>5
<1>12. QED
  BY <1>7, <1>9, <1>10, <1>11 DEF UsageInv

(* Every step preserves UsageInv.                                          *)
LEMMA UsageStep == TypeOK /\ PresentInv /\ UsageInv /\ [Next]_vars => UsageInv'
<1> SUFFICES ASSUME TypeOK, PresentInv, UsageInv, [Next]_vars PROVE UsageInv'
  OBVIOUS
<1>1. TypeOK' /\ SinceBehind
  BY TypeStep DEF PresentInv
<1>2. ASSUME NEW p \in Tasks, TaskStep(p) PROVE UsageInv'
  BY <1>1, <1>2, UsageTaskStep
<1>3. ASSUME NEW p \in Tasks, NEW k \in Creds, RefreshQuota(p, k) PROVE UsageInv'
  <2>1. At("created", k).stage # "fetching"
    BY DEF At
  <2>2. \A q \in Tasks : Is(q, "fetching")' => Goes(q)
    BY <1>3, <2>1, MovesGoes DEF RefreshQuota, Created
  <2>3. QED
    BY <1>1, <1>3, <2>2, ApartUsage DEF RefreshQuota, credVars
<1>4. ASSUME NEW p \in Tasks, NEW k \in Creds, ProbeWithSemaphore(p, k)
      PROVE  UsageInv'
  <2>1. CASE at' = at
    BY <1>1, <1>4, <2>1, ApartUsage DEF ProbeWithSemaphore, credVars, Is, Goes
  <2>2. CASE at' # at
    <3>1. \/ at' = [at EXCEPT ![p] = At("created", k)]
          \/ at' = [at EXCEPT ![p] = [At("waiting", k) EXCEPT !.background = TRUE]]
      BY <1>4, <2>2 DEF ProbeWithSemaphore, Created
    <3>2. /\ At("created", k).stage # "fetching"
          /\ [At("waiting", k) EXCEPT !.background = TRUE].stage # "fetching"
      BY DEF At
    <3>3. \A q \in Tasks : Is(q, "fetching")' => Goes(q)
      BY <3>1, <3>2, MovesGoes
    <3>4. QED
      BY <1>1, <1>4, <3>3, ApartUsage DEF ProbeWithSemaphore, credVars
  <2>3. QED
    BY <2>1, <2>2
<1>5. ASSUME NEW p \in Tasks, NEW k \in Creds, NEW m \in Meters, ChangeMode(p, k, m)
      PROVE  UsageInv'
  BY <1>1, <1>5, Stages, MovesGoes, ApartUsage DEF ChangeMode, credVars, quotaVars
<1>6. ASSUME NEW p \in Tasks, NEW k \in Creds, NEW m \in Meters, SwitchReplaces(p, k, m)
      PROVE  UsageInv'
  <2>1. \A j \in Creds : qgen'[j] = qgen[j] \/ qgen'[j] = qgen[j] + 1
    BY <1>6, ZenonT(60) DEF SwitchReplaces, Recharge, TypeOK, CredTypes
  <2>2. \A q \in Tasks : Is(q, "fetching")' => Goes(q)
    <3>1. At("selected", k).stage # "fetching"
      BY DEF At
    <3>2. QED
      BY <1>6, <3>1, MovesGoes DEF SwitchReplaces
  <2>3. UNCHANGED <<request, applied, invalidations, cache>>
    BY <1>6 DEF SwitchReplaces, quotaVars
  <2>4. QED
    BY <1>1, <2>1, <2>2, <2>3, QuietUsage
<1>7. ASSUME NEW p \in Tasks, NEW k \in Creds, NEW m \in Meters,
             CreateCredential(p, k, m)
      PROVE  UsageInv'
  BY <1>1, <1>7, Stages, MovesGoes, ApartUsage DEF CreateCredential, quotaVars
<1>8. ASSUME NEW k \in Creds, NEW m \in Meters, ReplaceTorn(k, m) PROVE UsageInv'
  BY <1>1, <1>8, ApartUsage DEF ReplaceTorn, quotaVars, Is, Goes
<1>9. ASSUME NEW k \in Creds, DeleteCredential(k) PROVE UsageInv'
  <2>1. \A j \in Creds : qgen'[j] = qgen[j] \/ qgen'[j] = qgen[j] + 1
    BY <1>9 DEF DeleteCredential, Recharge, TypeOK, CredTypes
  <2>2. Forget({k}) /\ UNCHANGED <<request, at>>
        /\ \A j \in Creds : cache'[j] # None => cache'[j] = cache[j]
    BY <1>9 DEF DeleteCredential, Invalidate
  <2>3. QED
    BY <1>1, <2>1, <2>2, ForgetUsage DEF Is, Goes
<1>10. ASSUME NEW m \in Meters, RefreshAccountQuotas(m) PROVE UsageInv'
  <2> DEFINE ks == {k \in Creds : meter[k] = m}
  <2>1. Forget(ks) /\ UNCHANGED <<request, qgen>>
        /\ \A j \in Creds : cache'[j] # None => cache'[j] = cache[j]
    BY <1>10 DEF RefreshAccountQuotas, Invalidate
  <2>2. PICK task \in [ks -> {p \in Tasks : Is(p, "idle")}] :
          at' = [p \in Tasks |->
                   IF \E k \in ks : task[k] = p
                     THEN Scheduled(CHOOSE k \in ks : task[k] = p)
                     ELSE at[p]]
    BY <1>10 DEF RefreshAccountQuotas
  <2>3. \A p \in Tasks : at'[p] = at[p] \/ at'[p].stage = "asked"
    BY <2>2, Stages
  <2>4. \A q \in Tasks : Is(q, "fetching")' => Goes(q)
    BY <2>3 DEF Is, Goes
  <2> HIDE DEF ks
  <2>5. QED
    BY <1>1, <2>1, <2>4, ForgetUsage
<1>11. ASSUME NEW r \in Requests, Costs(r) \/ \E k \in Creds : SendRequest(r, k)
       PROVE  UsageInv'
  BY <1>1, <1>11, RequestUsage
<1>12. ASSUME NEW r \in Requests, ApplyUsage(r) PROVE UsageInv'
  BY <1>1, <1>12, ReportUsage
<1>13. CASE ScanOnce
  BY <1>1, <1>13, ApartUsage DEF ScanOnce, credVars, quotaVars, Is, Goes
<1>14. CASE Shutdown
  <2>1. \A q \in Tasks : Is(q, "fetching")' => Goes(q)
    BY <1>14, Stages DEF Shutdown, Is, Goes
  <2>2. QED
    BY <1>1, <1>14, <2>1, ApartUsage DEF Shutdown, credVars
<1>15. CASE UNCHANGED vars
  BY <1>1, <1>15, ApartUsage DEF vars, credVars, quotaVars, Is, Goes
<1>16. ASSUME NEW k \in Creds, NEW m \in Meters,
              ReplaceTorn(k, m) \/ DeleteCredential(k) \/ RefreshAccountQuotas(m)
       PROVE  UsageInv'
  BY <1>8, <1>9, <1>10, <1>16
<1>17. ASSUME NEW p \in Tasks, NEW k \in Creds, NEW m \in Meters,
              ChangeMode(p, k, m) \/ SwitchReplaces(p, k, m) \/ CreateCredential(p, k, m)
       PROVE  UsageInv'
  BY <1>5, <1>6, <1>7, <1>17
<1>18. QED
  BY <1>2, <1>3, <1>4, <1>9, <1>10, <1>11, <1>12, <1>13, <1>14, <1>15, <1>16, <1>17
     DEF Next

(* Usage reported under the present generation is never shown as still     *)
(* available: _perform_probe and apply_usage together forget none of it.   *)
THEOREM UsageNeverShown == Spec => []UsageDeducted
<1>1. Init => TypeOK /\ PresentInv /\ UsageInv
  BY TypeInit, PresentInit, UsageInit
<1>2. TypeOK /\ PresentInv /\ UsageInv /\ [Next]_vars
        => (TypeOK /\ PresentInv /\ UsageInv)'
  BY TypeStep, PresentStep, UsageStep
<1>3. UsageInv => UsageDeducted
  BY DEF UsageInv
<1>4. QED
  BY <1>1, <1>2, <1>3, PTL DEF Spec

-----------------------------------------------------------------------------
(* The inductive invariant under SingleFlight and OnlyEvictedOutlive: no   *)
(* probe was made under an invalidation to come, and whoever waits for the *)
(* pacer is a background probe.                                            *)
MadeBehind ==
    \A p \in Tasks : at[p].stage \in {"created", "fetching"} =>
        at[p].made <= invalidations[at[p].cred]

PacedBackground ==
    \A p \in Tasks : at[p].stage \in {"waiting", "pacing"} => at[p].background

FlightInv == MadeBehind /\ PacedBackground /\ SingleFlight /\ OnlyEvictedOutlive

(* What a coroutine may do in a step that invalidates nothing: stay the    *)
(* probe it is, end, begin what a handler begins, or wait for the pacer,   *)
(* and become the probe of its credential.                                 *)
Same(q) ==
    /\ at'[q].cred = at[q].cred
    /\ at'[q].made = at[q].made
    /\ at'[q].background = at[q].background
    /\ \/ at'[q].stage = at[q].stage
       \/ at[q].stage = "created" /\ at'[q].stage = "fetching"
       \/ at[q].stage = "waiting" /\ at'[q].stage = "pacing"

Quits(q) == at'[q].stage \in {"idle", "done"}

Begins(q) ==
    /\ running
    /\ at'[q].stage \in {"asked", "waiting", "candidate", "selected"}
    /\ at'[q].stage = "waiting" => at'[q].background

Joins(q) ==
    /\ running
    /\ at'[q].stage \in {"created", "fetching"}
    /\ at'[q].made = invalidations[at'[q].cred]
    /\ inflight'[at'[q].cred] = q

Held == turn' # None => at'[turn'].stage \in {"pacing", "fetching"} /\ at'[turn'].background

(* Such steps preserve the invariant, if the probes that stay are still in *)
(* flight and the turn is with a background probe.                         *)
LEMMA QuietFlight ==
    ASSUME TypeOK, TypeOK', FlightInv, UNCHANGED <<invalidations, running>>, Held,
           \A q \in Tasks : Same(q) \/ Quits(q) \/ Begins(q) \/ Joins(q),
           \A q \in Tasks : inflight[at[q].cred] = q /\ at[q].cred \in Creds
              => inflight'[at[q].cred] = q \/ Quits(q)
    PROVE  FlightInv'
<1>1. \A q \in Tasks : at'[q].stage \in {"created", "fetching"} => at'[q].cred \in Creds
  BY DEF TypeOK, TaskTypes
<1>2. \A q \in Tasks : at'[q].stage \in {"created", "fetching"} =>
         invalidations[at'[q].cred] \in Nat
  BY <1>1 DEF TypeOK, QuotaTypes
<1>3. MadeBehind'
  BY <1>2 DEF FlightInv, MadeBehind, Same, Quits, Begins, Joins
<1>4. PacedBackground'
  BY DEF FlightInv, PacedBackground, Same, Quits, Begins, Joins
<1>5. ASSUME NEW q \in Tasks, Live(q)'
      PROVE  (Same(q) /\ Live(q)) \/ Joins(q)
  BY <1>5 DEF Live, Same, Quits, Begins, Joins
<1>6. SingleFlight'
  <2>1. TurnHeld'
    BY DEF Held, TurnHeld
  <2>2. ASSUME running, NEW q \in Tasks, Live(q)'
        PROVE  inflight'[at'[q].cred] = q
    <3>1. CASE Joins(q)
      BY <3>1 DEF Joins
    <3>2. CASE Same(q) /\ Live(q)
      BY <1>1, <2>2, <3>2 DEF FlightInv, SingleFlight, Same, Live, Quits
    <3>3. QED
      BY <1>5, <2>2, <3>1, <3>2
  <2>3. QED
    BY <2>1, <2>2 DEF SingleFlight
<1>7. OnlyEvictedOutlive'
  <2> SUFFICES ASSUME ~running, NEW q \in Tasks
               PROVE  /\ ~Live(q)'
                      /\ at'[q].stage \notin {"asked", "waiting", "pacing", "candidate", "selected"}
    BY DEF OnlyEvictedOutlive
  <2>1. ~Live(q) /\ at[q].stage \notin {"asked", "waiting", "pacing", "candidate", "selected"}
    BY DEF FlightInv, OnlyEvictedOutlive
  <2>2. Same(q) \/ Quits(q)
    BY DEF Begins, Joins
  <2>3. QED
    BY <1>5, <2>1, <2>2 DEF Same, Quits, Joins
<1>8. QED
  BY <1>3, <1>4, <1>6, <1>7 DEF FlightInv

(* An invalidation leaves no probe of the credentials it forgets alive.    *)
LEMMA ForgetFlight ==
    ASSUME TypeOK, TypeOK', FlightInv, NEW ks \in SUBSET Creds, Forget(ks),
           running, UNCHANGED <<turn, running>>,
           \A q \in Tasks :
              \/ at'[q] = at[q]
              \/ at[q].stage \notin {"pacing", "fetching"} /\ (Quits(q) \/ Begins(q))
    PROVE  FlightInv'
<1>1. ASSUME NEW k \in Creds
      PROVE  /\ invalidations[k] \in Nat
             /\ k \in ks => invalidations'[k] = invalidations[k] + 1
             /\ k \notin ks => /\ invalidations'[k] = invalidations[k]
                              /\ inflight'[k] = inflight[k]
  <2>1. invalidations[k] \in Nat
    BY DEF TypeOK, QuotaTypes
  <2>2. QED
    BY <2>1 DEF Forget
<1>2. \A q \in Tasks : at[q].made \in Nat
                       /\ (at[q].stage # "idle" => at[q].cred \in Creds)
  BY DEF TypeOK, TaskTypes, Coroutines
<1>3. MadeBehind'
  BY <1>1, <1>2 DEF FlightInv, MadeBehind, Quits, Begins
<1>4. PacedBackground'
  BY DEF FlightInv, PacedBackground, Quits, Begins
<1>5. TurnHeld'
  BY DEF TypeOK, FlightInv, SingleFlight, TurnHeld
<1>6. ASSUME NEW q \in Tasks, Live(q)' PROVE inflight'[at'[q].cred] = q
  <2>1. at'[q] = at[q]
    BY <1>6 DEF Live, Quits, Begins
  <2>2. at[q].cred \in Creds /\ at[q].made <= invalidations[at[q].cred]
    BY <1>2, <1>6, <2>1 DEF Live, FlightInv, MadeBehind
  <2>3. at[q].made = invalidations'[at[q].cred]
        /\ at[q].stage \in {"created", "fetching"}
    BY <1>6, <2>1 DEF Live
  <2>4. at[q].cred \notin ks /\ Live(q)
    BY <1>1, <1>2, <2>2, <2>3 DEF Live
  <2>5. QED
    BY <1>1, <2>1, <2>2, <2>4 DEF FlightInv, SingleFlight
<1>7. QED
  BY <1>3, <1>4, <1>5, <1>6 DEF FlightInv, SingleFlight, OnlyEvictedOutlive

(* A coroutine that is scheduled, waits, or has a handler behind it is one *)
(* of a manager that runs.                                                 *)
LEMMA RunningFor ==
    ASSUME FlightInv, NEW p \in Tasks,
           at[p].stage \in {"asked", "waiting", "pacing", "candidate", "selected"}
    PROVE  running
BY DEF FlightInv, OnlyEvictedOutlive

(* The state of one coroutine, when only that changes.                     *)
LEMMA Others ==
    ASSUME TypeOK, NEW p \in Tasks, NEW v, at' = [at EXCEPT ![p] = v]
    PROVE  at'[p] = v /\ \A q \in Tasks : q # p => at'[q] = at[q] /\ Same(q)
BY DEF TypeOK, TaskTypes, Same

(* A coroutine that ends, or has ended, keeps the turn from nobody else.   *)
LEMMA EndsHeld ==
    ASSUME TypeOK, FlightInv, NEW p \in Tasks, NEW v, at' = [at EXCEPT ![p] = v],
           Releases(p)
    PROVE  Held
BY Others DEF TypeOK, FlightInv, SingleFlight, TurnHeld, Releases, Held

(* The turn is not with a coroutine that is in another place.              *)
LEMMA ApartHeld ==
    ASSUME TypeOK, FlightInv, NEW p \in Tasks, NEW v, at' = [at EXCEPT ![p] = v],
           UNCHANGED turn,
           \/ at[p].stage \notin {"pacing", "fetching"}
           \/ v.stage \in {"pacing", "fetching"} /\ v.background = at[p].background
    PROVE  Held
<1> SUFFICES ASSUME turn # None
             PROVE  at'[turn].stage \in {"pacing", "fetching"} /\ at'[turn].background
  BY DEF Held
<1>1. turn \in Tasks /\ at[turn].stage \in {"pacing", "fetching"} /\ at[turn].background
  BY DEF TypeOK, FlightInv, SingleFlight, TurnHeld
<1>2. at'[p] = v /\ \A q \in Tasks : q # p => at'[q] = at[q]
  BY Others
<1>3. CASE turn = p
  <2>1. v.stage \in {"pacing", "fetching"} /\ v.background = at[p].background
    BY <1>1, <1>3
  <2>2. QED
    BY <1>1, <1>2, <1>3, <2>1
<1>4. QED
  BY <1>1, <1>2, <1>3

(* A probe is made, by a handler or a scheduled task.                      *)
LEMMA CreatedFlight ==
    ASSUME TypeOK, TypeOK', FlightInv, NEW p \in Tasks, NEW k \in Creds, Created(p, k),
           running, at[p].stage \notin {"pacing", "fetching"},
           UNCHANGED <<invalidations, running, turn>>
    PROVE  FlightInv'
<1> DEFINE v == At("created", k)
<1>1. v.stage = "created" /\ v.made = invalidations[k] /\ v.cred = k
  BY DEF At
<1>2. at' = [at EXCEPT ![p] = v] /\ inflight[k] = None
      /\ inflight' = [inflight EXCEPT ![k] = p]
  BY DEF Created
<1>3. inflight'[k] = p /\ \A j \in Creds : j # k => inflight'[j] = inflight[j]
  BY <1>2 DEF TypeOK, QuotaTypes
<1>4. at'[p] = v /\ \A q \in Tasks : q # p => at'[q] = at[q] /\ Same(q)
  BY <1>2, Others
<1>5. Joins(p)
  BY <1>1, <1>3, <1>4 DEF Joins
<1>6. Held
  BY <1>2, ApartHeld
<1>7. \A q \in Tasks : inflight[at[q].cred] = q /\ at[q].cred \in Creds
         => inflight'[at[q].cred] = q
  BY <1>2, <1>3, NoneIsNothing
<1>8. QED
  BY <1>4, <1>5, <1>6, <1>7, QuietFlight

(* A coroutine that is in no stage of a probe, or ends one, moves: what is *)
(* in flight does not change, but for its own entry.                       *)
LEMMA MovesFlight ==
    ASSUME TypeOK, TypeOK', FlightInv, NEW p \in Tasks, NEW v,
           at' = [at EXCEPT ![p] = v], Same(p) \/ Quits(p) \/ Begins(p) \/ Joins(p),
           UNCHANGED <<invalidations, running>>, Held,
           \/ UNCHANGED inflight
           \/ Quits(p) /\ inflight' = Removed(p)
           \/ \E k \in Creds : inflight[k] = None /\ inflight' = [inflight EXCEPT ![k] = p]
    PROVE  FlightInv'
<1>1. \A q \in Tasks : q # p => at'[q] = at[q] /\ Same(q)
  BY Others
<1>2. ASSUME NEW q \in Tasks, inflight[at[q].cred] = q, at[q].cred \in Creds
      PROVE  inflight'[at[q].cred] = q \/ Quits(q)
  <2> DEFINE k == at[q].cred
  <2>1. CASE UNCHANGED inflight
    BY <1>2, <2>1
  <2>2. CASE Quits(p) /\ inflight' = Removed(p)
    BY <1>2, <2>2 DEF Removed
  <2>3. ASSUME NEW j \in Creds, inflight[j] = None, inflight' = [inflight EXCEPT ![j] = p]
        PROVE  inflight'[k] = q
    <3>1. j # k
      BY <1>2, <2>3, NoneIsNothing
    <3>2. QED
      BY <1>2, <2>3, <3>1
  <2>4. QED
    BY <2>1, <2>2, <2>3
<1>3. \A q \in Tasks : Same(q) \/ Quits(q) \/ Begins(q) \/ Joins(q)
  BY <1>1
<1>4. QED
  BY <1>2, <1>3, QuietFlight

(* The steps of a coroutine that no invalidation comes with.               *)
LEMMA FlightTaskStep ==
    ASSUME TypeOK, TypeOK', FlightInv, NEW p \in Tasks, TaskStep(p),
           ~CandidateAnswered(p), ~SelectAccount(p)
    PROVE  FlightInv'
<1> DEFINE k == at[p].cred
<1>1. at[p].stage # "idle" => k \in Creds
  BY DEF TypeOK, TaskTypes
<1>2. Idle.stage = "idle" /\ Done(p).stage = "done"
  BY Stages
<1>3. CASE BeginScheduled(p)
  <2>1. running /\ at[p].stage = "asked" /\ UNCHANGED <<invalidations, running, turn>>
    BY <1>3, RunningFor DEF BeginScheduled, Is
  <2>2. CASE Created(p, k)
    BY <1>1, <2>1, <2>2, CreatedFlight
  <2>3. CASE at' = [at EXCEPT ![p] = Idle] /\ UNCHANGED inflight
    BY <1>2, <2>1, <2>3, Others, ApartHeld, MovesFlight DEF Quits
  <2>4. QED
    BY <1>3, <2>2, <2>3 DEF BeginScheduled
<1>4. CASE BeginProbe(p)
  <2>1. at[p].stage = "created" /\ UNCHANGED <<invalidations, inflight, running>>
    BY <1>4 DEF BeginProbe, Is, quotaVars
  <2>2. CASE Fetches(p, k) /\ UNCHANGED turn
    <3> DEFINE v == Fetching(p, k)
    <3>1. v.stage = "fetching" /\ v.cred = k /\ v.made = at[p].made
          /\ v.background = at[p].background
      BY <2>1 DEF Fetching, Is
    <3>2. at' = [at EXCEPT ![p] = v]
      BY <2>2 DEF Fetches
    <3>3. Same(p)
      BY <2>1, <3>1, <3>2, Others DEF Same
    <3>4. Held
      BY <2>1, <2>2, <3>2, ApartHeld
    <3>5. QED
      BY <2>1, <3>2, <3>3, <3>4, MovesFlight
  <2>3. CASE Ends(p, Done(p))
    BY <1>2, <2>1, <2>3, Others, EndsHeld, MovesFlight DEF Ends, Quits
  <2>4. QED
    BY <1>4, <2>2, <2>3 DEF BeginProbe
<1>5. CASE TakeTurn(p)
  <2> DEFINE v == [at[p] EXCEPT !.stage = "pacing"]
  <2>1. at[p].stage = "waiting" /\ turn' = p
        /\ UNCHANGED <<invalidations, inflight, running>>
        /\ at' = [at EXCEPT ![p] = v]
    BY <1>5 DEF TakeTurn, Is, quotaVars
  <2>2. at[p] \in Coroutines /\ at[p].background
    BY <2>1 DEF TypeOK, TaskTypes, FlightInv, PacedBackground
  <2>3. v.stage = "pacing" /\ v.cred = at[p].cred /\ v.made = at[p].made
        /\ v.background = at[p].background
    BY <2>2 DEF Coroutines
  <2>4. Same(p) /\ at'[p] = v
    BY <2>1, <2>3, Others DEF Same
  <2>5. Held
    BY <2>1, <2>2, <2>3, <2>4 DEF Held
  <2>6. QED
    BY <2>1, <2>4, <2>5, MovesFlight
<1>6. CASE DelayOver(p)
  <2>1. at[p].stage = "pacing" /\ running /\ k \in Creds
        /\ UNCHANGED <<invalidations, running>>
    BY <1>1, <1>6, RunningFor DEF DelayOver, Is
  <2>2. CASE at' = [at EXCEPT ![p] = Idle] /\ Releases(p) /\ UNCHANGED inflight
    BY <1>2, <2>1, <2>2, Others, EndsHeld, MovesFlight DEF Quits
  <2>3. CASE /\ inflight[k] = None
             /\ inflight' = [inflight EXCEPT ![k] = p]
             /\ Fetches(p, k) /\ UNCHANGED turn
    <3> DEFINE v == Fetching(p, k)
    <3>1. v.stage = "fetching" /\ v.cred = k /\ v.made = invalidations[k]
          /\ v.background = at[p].background
      BY <2>1 DEF Fetching, Is
    <3>2. at' = [at EXCEPT ![p] = v]
      BY <2>3 DEF Fetches
    <3>3. Joins(p)
      <4>1. inflight'[k] = p
        BY <2>1, <2>3 DEF TypeOK, QuotaTypes
      <4>2. at'[p] = v
        BY <3>2, Others
      <4>3. QED
        BY <2>1, <3>1, <4>1, <4>2 DEF Joins
    <3>4. Held
      BY <2>3, <3>1, <3>2, ApartHeld
    <3>5. QED
      BY <2>1, <2>3, <3>2, <3>3, <3>4, MovesFlight
  <2>4. CASE /\ inflight[k] = None
             /\ inflight' = [inflight EXCEPT ![k] = p]
             /\ Ends(p, Done(p))
    BY <1>2, <2>1, <2>4, Others, EndsHeld, MovesFlight DEF Ends, Quits
  <2>5. QED
    BY <1>6, <2>2, <2>3, <2>4 DEF DelayOver
<1>7. CASE MarkStarted(p)
  <2>1. turn' = None /\ UNCHANGED <<at, inflight, invalidations, running>>
    BY <1>7 DEF MarkStarted, quotaVars
  <2>2. QED
    BY <2>1, QuietFlight DEF Held, Same
<1>8. CASE Reads(p)
  <2> DEFINE v == [at[p] EXCEPT !.seen = ChargedTo(at[p].of)]
  <2>1. at' = [at EXCEPT ![p] = v]
        /\ UNCHANGED <<inflight, invalidations, running, turn>>
    BY <1>8 DEF Reads, quotaVars
  <2>2. at[p].stage \in {"candidate", "fetching"}
    BY <1>8 DEF Reads
  <2>3. v.stage = at[p].stage /\ v.cred = at[p].cred /\ v.made = at[p].made
        /\ v.background = at[p].background
    BY DEF TypeOK, TaskTypes, Coroutines
  <2>4. Same(p)
    BY <2>1, <2>3, Others DEF Same
  <2>5. Held
    <3>1. \/ at[p].stage \notin {"pacing", "fetching"}
          \/ v.stage \in {"pacing", "fetching"} /\ v.background = at[p].background
      BY <2>2, <2>3
    <3> HIDE DEF v
    <3>2. QED
      BY <2>1, <3>1, ApartHeld
  <2>6. QED
    BY <2>1, <2>4, <2>5, MovesFlight
<1>9. CASE Answered(p) \/ Failed(p)
  <2>1. Ends(p, Done(p)) /\ UNCHANGED <<inflight, invalidations, running>>
    BY <1>9 DEF Answered, Failed, quotaVars
  <2>2. QED
    BY <1>2, <2>1, Others, EndsHeld, MovesFlight DEF Ends, Quits
<1>10. CASE RemoveCompleted(p) \/ CandidateRefused(p)
  <2>1. /\ at[p].stage \in {"done", "candidate"}
        /\ at' = [at EXCEPT ![p] = Idle]
        /\ inflight' = Removed(p) \/ UNCHANGED inflight
        /\ UNCHANGED <<invalidations, running, turn>>
    BY <1>10 DEF RemoveCompleted, CandidateRefused, Is, quotaVars
  <2>2. QED
    BY <1>2, <2>1, Others, ApartHeld, MovesFlight DEF Quits
<1>11. QED
  BY <1>3, <1>4, <1>5, <1>6, <1>7, <1>8, <1>9, <1>10 DEF TaskStep

(* The steps that invalidate.                                              *)
LEMMA FlightForgets ==
    ASSUME TypeOK, TypeOK', FlightInv,
           \/ \E p \in Tasks : CandidateAnswered(p) \/ SelectAccount(p)
           \/ \E k \in Creds : DeleteCredential(k)
           \/ \E m \in Meters : RefreshAccountQuotas(m)
    PROVE  FlightInv'
<1>0. Idle.stage = "idle" /\ \A k : Scheduled(k).stage = "asked"
  BY Stages
<1>1. ASSUME NEW p \in Tasks, CandidateAnswered(p) \/ SelectAccount(p)
      PROVE  FlightInv'
  <2>1. at[p].stage \in {"candidate", "selected"} /\ Forget({at[p].cred})
        /\ UNCHANGED <<turn, running>>
    BY <1>1 DEF CandidateAnswered, SelectAccount, Invalidate, Is
  <2>2. {at[p].cred} \in SUBSET Creds /\ running
    BY <2>1, RunningFor DEF TypeOK, TaskTypes
  <2>3. at' = [at EXCEPT ![p] = Idle] \/ at' = [at EXCEPT ![p] = Scheduled(at[p].cred)]
    BY <1>1 DEF CandidateAnswered, SelectAccount
  <2>4. \A q \in Tasks : q # p => at'[q] = at[q]
    BY <2>3, Others
  <2>5. at'[p] = Idle \/ at'[p] = Scheduled(at[p].cred)
    BY <2>3, Others
  <2>6. Quits(p) \/ Begins(p)
    BY <1>0, <2>2, <2>5 DEF Quits, Begins
  <2>7. QED
    BY <2>1, <2>2, <2>4, <2>6, ForgetFlight
<1>2. ASSUME NEW k \in Creds, DeleteCredential(k) PROVE FlightInv'
  <2>1. Forget({k}) /\ running /\ UNCHANGED <<at, turn, running>>
    BY <1>2 DEF DeleteCredential, Invalidate
  <2>2. QED
    BY <2>1, ForgetFlight
<1>3. ASSUME NEW m \in Meters, RefreshAccountQuotas(m) PROVE FlightInv'
  <2> DEFINE ks == {k \in Creds : meter[k] = m}
  <2>1. ks \in SUBSET Creds /\ Forget(ks) /\ running /\ UNCHANGED <<turn, running>>
    BY <1>3 DEF RefreshAccountQuotas, Invalidate
  <2>2. PICK task \in [ks -> {p \in Tasks : Is(p, "idle")}] :
          at' = [p \in Tasks |->
                     IF \E k \in ks : task[k] = p
                       THEN Scheduled(CHOOSE k \in ks : task[k] = p)
                       ELSE at[p]]
    BY <1>3 DEF RefreshAccountQuotas
  <2>3. ASSUME NEW q \in Tasks
        PROVE  at'[q] = at[q] \/ (at[q].stage \notin {"pacing", "fetching"} /\ Begins(q))
    <3>1. CASE \E k \in ks : task[k] = q
      <4>1. Is(q, "idle")
        BY <2>2, <3>1
      <4>2. at'[q] = Scheduled(CHOOSE k \in ks : task[k] = q)
        BY <2>2, <3>1
      <4>3. QED
        BY <1>0, <2>1, <4>1, <4>2 DEF Begins, Is
    <3>2. CASE ~ \E k \in ks : task[k] = q
      BY <2>2, <3>2
    <3>3. QED
      BY <3>1, <3>2
  <2> HIDE DEF ks
  <2>4. QED
    BY <2>1, <2>3, ForgetFlight
<1>4. QED
  BY <1>1, <1>2, <1>3

(* What handlers and the scan begin.                                       *)
LEMMA FlightBegins ==
    ASSUME TypeOK, TypeOK', FlightInv, NEW p \in Tasks, NEW k \in Creds,
           \/ RefreshQuota(p, k) \/ ProbeWithSemaphore(p, k)
           \/ \E m \in Meters : \/ ChangeMode(p, k, m) \/ SwitchReplaces(p, k, m)
                                \/ CreateCredential(p, k, m)
    PROVE  FlightInv'
<1>1. running /\ at[p].stage = "idle" /\ UNCHANGED <<invalidations, running, turn>>
  BY DEF RefreshQuota, ProbeWithSemaphore, ChangeMode, SwitchReplaces, CreateCredential,
         Is, quotaVars
<1>2. \/ Created(p, k)
      \/ at' = at /\ UNCHANGED inflight
      \/ \E v : /\ at' = [at EXCEPT ![p] = v] /\ UNCHANGED inflight
                /\ v.stage \in {"asked", "waiting", "candidate", "selected"}
                /\ v.stage = "waiting" => v.background
  <2>1. /\ \A j : Scheduled(j).stage = "asked"
        /\ At("selected", k).stage = "selected"
        /\ \A m : [At("candidate", k) EXCEPT !.of = m, !.since = qgen[k]].stage
                   = "candidate"
    BY Stages
  <2>2. [At("waiting", k) EXCEPT !.background = TRUE].background = TRUE
        /\ [At("waiting", k) EXCEPT !.background = TRUE].stage = "waiting"
    BY DEF At
  <2>3. CASE RefreshQuota(p, k)
    BY <2>3 DEF RefreshQuota
  <2>4. CASE ProbeWithSemaphore(p, k)
    BY <2>2, <2>4 DEF ProbeWithSemaphore
  <2>5. CASE \E m \in Meters : \/ ChangeMode(p, k, m) \/ SwitchReplaces(p, k, m)
                               \/ CreateCredential(p, k, m)
    BY <2>1, <2>5 DEF ChangeMode, SwitchReplaces, CreateCredential, quotaVars
  <2>6. QED
    BY <2>3, <2>4, <2>5
<1>3. CASE Created(p, k)
  BY <1>1, <1>3, CreatedFlight
<1>4. CASE at' = at /\ UNCHANGED inflight
  <2>1. \A q \in Tasks : Same(q)
    BY <1>4 DEF Same
  <2>2. Held
    BY <1>1, <1>4 DEF Held, FlightInv, SingleFlight, TurnHeld
  <2>3. QED
    BY <1>1, <1>4, <2>1, <2>2, QuietFlight
<1>5. ASSUME NEW v, at' = [at EXCEPT ![p] = v], UNCHANGED inflight,
             v.stage \in {"asked", "waiting", "candidate", "selected"},
             v.stage = "waiting" => v.background
      PROVE  FlightInv'
  <2>1. Begins(p)
    BY <1>1, <1>5, Others DEF Begins
  <2>2. Held
    BY <1>1, <1>5, ApartHeld
  <2>3. QED
    BY <1>1, <1>5, <2>1, <2>2, MovesFlight
<1>6. QED
  BY <1>2, <1>3, <1>4, <1>5

(* Shutdown cancels every probe that is in flight and whatever waits.      *)
LEMMA FlightShutdown ==
    ASSUME TypeOK, FlightInv, Shutdown
    PROVE  FlightInv'
<1>1. ASSUME NEW q \in Tasks PROVE at'[q] = IF q \in Cancelled THEN Idle ELSE at[q]
  BY DEF Shutdown
<1>2. turn' = None /\ ~running' /\ running /\ invalidations' = invalidations
  BY DEF Shutdown
<1>3. Idle.stage = "idle"
  BY Stages
<1>4. MadeBehind' /\ PacedBackground'
  BY <1>1, <1>2, <1>3 DEF FlightInv, MadeBehind, PacedBackground
<1>5. ASSUME NEW q \in Tasks, Live(q)' PROVE FALSE
  <2>1. at'[q] = at[q] /\ q \notin Cancelled
    BY <1>1, <1>3, <1>5 DEF Live
  <2>2. Live(q) /\ at[q].cred \in Creds
    BY <1>2, <1>5, <2>1 DEF Live, TypeOK, TaskTypes
  <2>3. inflight[at[q].cred] = q
    BY <1>2, <2>2 DEF FlightInv, SingleFlight
  <2>4. QED
    BY <2>1, <2>2, <2>3 DEF Cancelled
<1>6. ASSUME NEW q \in Tasks
      PROVE  at'[q].stage \notin {"asked", "waiting", "pacing", "candidate", "selected"}
  <2>1. CASE q \in Cancelled
    BY <1>1, <1>3, <2>1
  <2>2. CASE q \notin Cancelled
    BY <1>1, <2>2 DEF Shutdown, Cancelled, Is, FlightInv, PacedBackground
  <2>3. QED
    BY <2>1, <2>2
<1>7. QED
  BY <1>2, <1>4, <1>5, <1>6 DEF FlightInv, SingleFlight, OnlyEvictedOutlive, TurnHeld

(* Every step preserves the invariant.                                     *)
LEMMA FlightStep == TypeOK /\ FlightInv /\ [Next]_vars => FlightInv'
<1> SUFFICES ASSUME TypeOK, FlightInv, [Next]_vars PROVE FlightInv'
  OBVIOUS
<1>1. TypeOK'
  BY TypeStep
<1>2. CASE UNCHANGED <<at, inflight, invalidations, turn, running>>
  <2>1. \A q \in Tasks : Same(q)
    BY <1>2 DEF Same
  <2>2. Held
    BY <1>2 DEF Held, FlightInv, SingleFlight, TurnHeld
  <2>3. QED
    BY <1>1, <1>2, <2>1, <2>2, QuietFlight
<1>3. ASSUME NEW p \in Tasks, TaskStep(p) PROVE FlightInv'
  BY <1>1, <1>3, FlightTaskStep, FlightForgets
<1>4. ASSUME NEW p \in Tasks, NEW k \in Creds,
             \/ RefreshQuota(p, k) \/ ProbeWithSemaphore(p, k)
             \/ \E m \in Meters : \/ ChangeMode(p, k, m) \/ SwitchReplaces(p, k, m)
                                  \/ CreateCredential(p, k, m)
      PROVE  FlightInv'
  BY <1>1, <1>4, FlightBegins
<1>5. ASSUME \/ \E k \in Creds, m \in Meters : ReplaceTorn(k, m)
             \/ \E r \in Requests, k \in Creds : SendRequest(r, k)
             \/ \E r \in Requests : Costs(r) \/ ApplyUsage(r)
             \/ ScanOnce \/ UNCHANGED vars
      PROVE  UNCHANGED <<at, inflight, invalidations, turn, running>>
  BY <1>5 DEF ReplaceTorn, SendRequest, Costs, ApplyUsage, ScanOnce, vars, quotaVars
<1>6. CASE (\E k \in Creds : DeleteCredential(k))
           \/ (\E m \in Meters : RefreshAccountQuotas(m))
  BY <1>1, <1>6, FlightForgets
<1>7. CASE Shutdown
  BY <1>7, FlightShutdown
<1>8. QED
  BY <1>2, <1>3, <1>4, <1>5, <1>6, <1>7 DEF Next

(* Nothing is in flight at first.                                          *)
LEMMA FlightInit == Init => FlightInv
BY Stages, NoneIsNothing DEF Init, FlightInv, MadeBehind, PacedBackground, SingleFlight,
   OnlyEvictedOutlive, TurnHeld, Live

(* The probes of a credential since it was last invalidated are one, and   *)
(* later callers join it; the turn is with a background probe that runs    *)
(* (_inflight, BackgroundRequestPacer).                                    *)
THEOREM OneProbe == Spec => []SingleFlight
<1>1. TypeOK /\ FlightInv /\ [Next]_vars => (TypeOK /\ FlightInv)'
  BY TypeStep, FlightStep
<1>2. FlightInv => SingleFlight
  BY DEF FlightInv
<1>3. QED
  BY <1>1, <1>2, TypeInit, FlightInit, PTL DEF Spec

(* After shutdown only a probe that an invalidation had put out of reach   *)
(* still runs, and nothing that could begin another.                       *)
THEOREM EvictedOutlive == Spec => []OnlyEvictedOutlive
<1>1. TypeOK /\ FlightInv /\ [Next]_vars => (TypeOK /\ FlightInv)'
  BY TypeStep, FlightStep
<1>2. FlightInv => OnlyEvictedOutlive
  BY DEF FlightInv
<1>3. QED
  BY <1>1, <1>2, TypeInit, FlightInit, PTL DEF Spec

-----------------------------------------------------------------------------
(* The inductive invariant under DeductedWhereCharged: a request that may  *)
(* still be reported was charged to the present meter, and so was all that *)
(* is in the totals, with the same exceptions; what a probe has seen was   *)
(* charged to the meter it asks; nothing is kept of a deleted credential.  *)
Selected(k) == \E p \in Tasks : Is(p, "selected") /\ at[p].cred = k

Covered(k) == k \in mixed \/ Selected(k)

SentPresent ==
    \A r \in Requests : request[r].stage # "idle" =>
        /\ request[r].of # None
        /\ qgen[request[r].cred] = request[r].gen =>
              \/ request[r].of = meter[request[r].cred]
              \/ request[r].cred \in mixed

GoneForgotten ==
    \A k \in Creds : meter[k] = None =>
        /\ k \notin mixed /\ k \notin torn
        /\ applied[k] = {} /\ cache[k] = None
        /\ \A p \in Tasks : Is(p, "fetching") /\ at[p].cred = k => Stale(p)

TornCovered == \A k \in Creds : k \in torn => Covered(k)

AppliedPresent ==
    \A k \in Creds : \A r \in applied[k] : request[r].of = meter[k] \/ Covered(k)

ChargedAs(S, m) == \A r \in S : request[r].stage # "idle" /\ request[r].of = m

SeenCharged ==
    \A p \in Tasks : at[p].stage \in {"fetching", "candidate"} /\ at[p].seen # None =>
        ChargedAs(at[p].seen, at[p].of)

DeductedCharged ==
    \A k \in Creds : cache[k] # None =>
        /\ \A r \in cache[k].deducted : request[r].stage # "idle"
        /\ ChargedAs(cache[k].deducted, cache[k].of) \/ Covered(k)

ChargeInv == /\ SentPresent /\ GoneForgotten /\ TornCovered
             /\ AppliedPresent /\ SeenCharged /\ DeductedCharged

(* What a coroutine asks upstream for and has seen, after a step.          *)
Asks(q) ==
    at'[q].stage \in {"fetching", "candidate"} /\ at'[q].seen # None =>
        /\ at[q].stage \in {"fetching", "candidate"} /\ at'[q].of = at[q].of
        /\ at'[q].seen = at[q].seen \/ at'[q].seen = ChargedTo(at[q].of)

(* The answer of a probe that is not outdated is charged to the meter it   *)
(* asked, with what was applied since it began.                            *)
LEMMA FreshCharged ==
    ASSUME TypeOK, PresentInv, UsageInv, ChargeInv, NEW p \in Tasks, Is(p, "fetching"),
           ~Stale(p), at[p].seen # None, at[p].cred \in Creds
    PROVE  /\ \A r \in FreshEntry(p).deducted : request[r].stage # "idle"
           /\ \/ ChargedAs(FreshEntry(p).deducted, FreshEntry(p).of)
              \/ Covered(at[p].cred)
<1> DEFINE k == at[p].cred
<1>1. FreshEntry(p).of = at[p].of /\ FreshEntry(p).deducted = at[p].seen \union Concurrent(p)
  BY DEF FreshEntry
<1>2. ChargedAs(at[p].seen, at[p].of)
  BY DEF ChargeInv, SeenCharged, Is
<1>3. \A r \in Concurrent(p) : r \in applied[k] /\ request[r].stage # "idle"
  BY DEF Concurrent, UsageInv, AppliedReported
<1>4. at[p].of = meter[k] \/ Covered(k)
  BY DEF PresentInv, FetchPresent, Excused, ChargeInv, TornCovered, Covered, Selected
<1>5. \A r \in Concurrent(p) : request[r].of = at[p].of \/ Covered(k)
  BY <1>3, <1>4 DEF ChargeInv, AppliedPresent
<1>6. QED
  BY <1>1, <1>2, <1>3, <1>5 DEF ChargedAs

(* A step that moves coroutines and keeps what is charged where it is.     *)
LEMMA QuietCharge ==
    ASSUME TypeOK, TypeOK', PresentInv, UsageInv, ChargeInv,
           UNCHANGED <<meter, qgen, mixed, torn, request, applied, invalidations>>,
           \A q \in Tasks : Is(q, "selected") => at'[q] = at[q],
           \A q \in Tasks : Is(q, "fetching")' => Began(q) \/ WentOn(q),
           \A q \in Tasks : Asks(q),
           \A k \in Creds : cache'[k] # None =>
              \/ cache'[k] = cache[k]
              \/ \E p \in Tasks : /\ Is(p, "fetching") /\ ~Stale(p)
                                  /\ at[p].seen # None /\ at[p].cred = k
                                  /\ cache'[k] = FreshEntry(p)
    PROVE  ChargeInv'
<1>1. \A k : Covered(k) => Covered(k)'
  BY DEF Covered, Selected, Is
<1>2. SentPresent'
  BY DEF ChargeInv, SentPresent
<1>3. ASSUME NEW k \in Creds, meter[k] = None
      PROVE  cache'[k] = None
             /\ \A p \in Tasks : Is(p, "fetching")' /\ at'[p].cred = k => Stale(p)'
  <2>1. cache'[k] = None
    BY <1>3 DEF ChargeInv, GoneForgotten
  <2>2. ASSUME NEW p \in Tasks, Is(p, "fetching")', at'[p].cred = k PROVE Stale(p)'
    <3>1. at'[p].of \in Meters
      BY <2>2 DEF TypeOK, TaskTypes, Is
    <3>2. WentOn(p)
      BY <1>3, <2>2, <3>1, NoneIsNothing DEF Began
    <3>3. Stale(p)
      BY <1>3, <2>2, <3>2 DEF ChargeInv, GoneForgotten, WentOn
    <3>4. QED
      BY <3>2, <3>3 DEF WentOn, Stale
  <2>3. QED
    BY <2>1, <2>2
<1>4. GoneForgotten'
  BY <1>3 DEF ChargeInv, GoneForgotten
<1>5. TornCovered' /\ AppliedPresent'
  BY <1>1 DEF ChargeInv, TornCovered, AppliedPresent
<1>6. SeenCharged'
  BY DEF ChargeInv, SeenCharged, Asks, ChargedAs, ChargedTo
<1>7. ASSUME NEW k \in Creds, cache'[k] # None
      PROVE  /\ \A r \in cache'[k].deducted : request'[r].stage # "idle"
             /\ ChargedAs(cache[k].deducted, cache[k].of)' \/ Covered(k)'
  <2>1. CASE cache'[k] = cache[k]
    BY <1>1, <1>7, <2>1 DEF ChargeInv, DeductedCharged, ChargedAs
  <2>2. CASE \E p \in Tasks : /\ Is(p, "fetching") /\ ~Stale(p)
                              /\ at[p].seen # None /\ at[p].cred = k
                              /\ cache'[k] = FreshEntry(p)
    BY <1>1, <2>2, FreshCharged DEF ChargedAs
  <2>3. QED
    BY <1>7, <2>1, <2>2
<1>8. DeductedCharged'
  BY <1>7 DEF DeductedCharged
<1>9. QED
  BY <1>2, <1>4, <1>5, <1>6, <1>8 DEF ChargeInv

(* A step that forgets ks: of ks only what was charged to the meter is     *)
(* kept, and a meter or a mark that changes takes a new generation.        *)
LEMMA ForgetCharge ==
    ASSUME TypeOK, TypeOK', PresentInv, UsageInv, ChargeInv, NEW ks \in SUBSET Creds,
           Forget(ks), UNCHANGED request,
           \A k \in Creds \ ks : /\ meter'[k] = meter[k] /\ qgen'[k] = qgen[k]
                                 /\ cache'[k] = cache[k] /\ (k \in mixed' <=> k \in mixed),
           \A k \in ks :
              \/ meter'[k] = meter[k] /\ qgen'[k] = qgen[k] /\ (k \in mixed' <=> k \in mixed)
              \/ qgen'[k] = qgen[k] + 1 /\ k \notin mixed',
           \A k \in ks : cache'[k] # None =>
              /\ meter'[k] # None
              /\ ChargedAs(cache'[k].deducted, cache'[k].of),
           \A q \in Tasks : Is(q, "selected") => at'[q] = at[q] \/ at[q].cred \in ks,
           \A q \in Tasks : at'[q].stage \in {"fetching", "candidate"} => at'[q] = at[q]
    PROVE  ChargeInv'
<1>0. \A k \in Creds : qgen[k] \in Nat /\ invalidations[k] \in Nat
  BY DEF TypeOK, CredTypes, QuotaTypes
<1>1. \A k \in Creds \ ks : Covered(k) => Covered(k)'
  BY DEF Covered, Selected, Is
<1>2. \A k \in Creds : /\ k \in ks => applied'[k] = {} /\ k \notin torn'
                                      /\ invalidations'[k] = invalidations[k] + 1
                       /\ k \notin ks => /\ applied'[k] = applied[k]
                                         /\ (k \in torn' <=> k \in torn)
                                         /\ invalidations'[k] = invalidations[k]
  <2> SUFFICES ASSUME NEW k \in Creds
               PROVE  /\ k \in ks => applied'[k] = {} /\ k \notin torn'
                                     /\ invalidations'[k] = invalidations[k] + 1
                      /\ k \notin ks => /\ applied'[k] = applied[k]
                                        /\ (k \in torn' <=> k \in torn)
                                        /\ invalidations'[k] = invalidations[k]
    OBVIOUS
  <2>1. QED
    BY <1>0 DEF Forget
<1>3. SentPresent'
  <2> SUFFICES ASSUME NEW r \in Requests, request[r].stage # "idle",
                      NEW k \in Creds, k = request[r].cred
               PROVE  /\ request[r].of # None
                      /\ qgen'[k] = request[r].gen => request[r].of = meter'[k] \/ k \in mixed'
    BY DEF UsageInv, ReqBehind, SentPresent
  <2>1. request[r].of # None /\ request[r].gen <= qgen[k] /\ request[r].gen \in Nat
        /\ (qgen[k] = request[r].gen => request[r].of = meter[k] \/ k \in mixed)
    BY DEF ChargeInv, SentPresent, UsageInv, ReqBehind, TypeOK, RequestStates
  <2>2. CASE qgen'[k] = qgen[k] + 1
    BY <1>0, <2>1, <2>2
  <2>3. CASE meter'[k] = meter[k] /\ qgen'[k] = qgen[k] /\ (k \in mixed' <=> k \in mixed)
    BY <2>1, <2>3
  <2>4. QED
    BY <2>2, <2>3
<1>4. GoneForgotten'
  <2> SUFFICES ASSUME NEW k \in Creds, meter'[k] = None
               PROVE  /\ k \notin mixed' /\ k \notin torn'
                      /\ applied'[k] = {} /\ cache'[k] = None
                      /\ \A p \in Tasks : Is(p, "fetching")' /\ at'[p].cred = k => Stale(p)'
    BY DEF GoneForgotten
  <2>1. ASSUME NEW p \in Tasks, Is(p, "fetching")', at'[p].cred = k
        PROVE  /\ Is(p, "fetching") /\ at[p].cred = k /\ at'[p].since = at[p].since
               /\ at[p].since <= invalidations[k] /\ at[p].since \in Nat
    <3>1. at'[p] = at[p]
      BY <2>1 DEF Is
    <3>2. Is(p, "fetching") /\ at[p].cred = k /\ at'[p].since = at[p].since
      BY <2>1, <3>1 DEF Is
    <3>3. QED
      BY <3>2 DEF PresentInv, SinceBehind, TypeOK, TaskTypes, Coroutines
  <2>2. CASE k \in ks
    <3>1. \A p \in Tasks : Is(p, "fetching")' /\ at'[p].cred = k => Stale(p)'
      BY <1>0, <1>2, <2>1, <2>2 DEF Stale
    <3>2. k \notin mixed'
      BY <2>2 DEF ChargeInv, GoneForgotten
    <3>3. QED
      BY <1>2, <2>2, <3>1, <3>2
  <2>3. CASE k \notin ks
    <3>1. \A p \in Tasks : Is(p, "fetching")' /\ at'[p].cred = k => Stale(p)'
      BY <1>2, <2>1, <2>3 DEF ChargeInv, GoneForgotten, Stale
    <3>2. QED
      BY <1>2, <2>3, <3>1 DEF ChargeInv, GoneForgotten
  <2>4. QED
    BY <2>2, <2>3
<1>5. TornCovered'
  BY <1>1, <1>2 DEF ChargeInv, TornCovered
<1>6. AppliedPresent'
  BY <1>1, <1>2 DEF ChargeInv, AppliedPresent
<1>7. SeenCharged'
  BY DEF ChargeInv, SeenCharged, ChargedAs
<1>8. DeductedCharged'
  BY <1>1 DEF ChargeInv, DeductedCharged, ChargedAs
<1>9. QED
  BY <1>3, <1>4, <1>5, <1>6, <1>7, <1>8 DEF ChargeInv

(* A step that leaves what is charged, known and reported alone.           *)
LEMMA ApartCharge ==
    ASSUME TypeOK, TypeOK', PresentInv, UsageInv, ChargeInv,
           UNCHANGED <<credVars, request, applied, invalidations, cache>>,
           \A q \in Tasks : Is(q, "selected") => at'[q] = at[q],
           \A q \in Tasks : Is(q, "fetching")' => Began(q) \/ WentOn(q),
           \A q \in Tasks : Asks(q)
    PROVE  ChargeInv'
BY QuietCharge DEF credVars

(* Coroutine p moves to a place where it has seen nothing.                 *)
LEMMA MovesAsks ==
    ASSUME TypeOK, NEW p \in Tasks, NEW v, at' = [at EXCEPT ![p] = v],
           v.stage \in {"fetching", "candidate"} => v.seen = None
    PROVE  \A q \in Tasks : Asks(q)
BY DEF TypeOK, TaskTypes, Asks

(* The places a coroutine moves to have seen nothing.                      *)
LEMMA UnseenPlaces ==
    /\ \A p, k : Fetching(p, k).seen = None
    /\ \A k, m : [At("candidate", k) EXCEPT !.of = m, !.since = qgen[k]].seen = None
BY DEF Fetching, At

(* A credential k is replaced in a way its handler learns of later, with a *)
(* new generation or marked, or is created: then nothing is known of it.   *)
LEMMA ChangeCharge ==
    ASSUME TypeOK, TypeOK', UsageInv, ChargeInv, NEW k \in Creds,
           UNCHANGED <<request, applied, cache, invalidations>>,
           meter'[k] # None,
           \A j \in Creds \ {k} : /\ meter'[j] = meter[j] /\ qgen'[j] = qgen[j]
                                  /\ (j \in mixed' <=> j \in mixed)
                                  /\ (j \in torn' <=> j \in torn),
           \/ /\ Covered(k)'
              /\ \/ qgen'[k] = qgen[k] + 1
                 \/ qgen'[k] = qgen[k] /\ k \in mixed'
                 \/ qgen'[k] = qgen[k] /\ meter'[k] = meter[k] /\ mixed' = mixed
           \/ meter[k] = None /\ qgen' = qgen /\ mixed' = mixed /\ torn' = torn,
           \A q \in Tasks : Is(q, "selected") => at'[q] = at[q],
           \A q \in Tasks : at'[q].stage \in {"fetching", "candidate"} => at'[q] = at[q]
    PROVE  ChargeInv'
<1>1. \A j \in Creds \ {k} : Covered(j) => Covered(j)'
  BY DEF Covered, Selected, Is
<1>2. SentPresent'
  <2> SUFFICES ASSUME NEW r \in Requests, request[r].stage # "idle",
                      NEW j \in Creds, j = request[r].cred
               PROVE  /\ request[r].of # None
                      /\ qgen'[j] = request[r].gen => request[r].of = meter'[j] \/ j \in mixed'
    BY DEF UsageInv, ReqBehind, SentPresent
  <2>1. request[r].of # None /\ request[r].gen <= qgen[j] /\ request[r].gen \in Nat
        /\ (qgen[j] = request[r].gen => request[r].of = meter[j] \/ j \in mixed)
    BY DEF ChargeInv, SentPresent, UsageInv, ReqBehind, TypeOK, RequestStates
  <2>2. CASE j # k
    BY <2>1, <2>2
  <2>3. CASE j = k /\ meter[k] = None
    <3>1. k \notin mixed
      BY <2>3 DEF ChargeInv, GoneForgotten
    <3>2. qgen[j] # request[r].gen
      BY <2>1, <2>3, <3>1
    <3>3. qgen[k] \in Nat
      BY DEF TypeOK, CredTypes
    <3>4. CASE qgen'[k] = qgen[k] + 1
      BY <2>1, <2>3, <3>3, <3>4
    <3>5. CASE qgen'[k] = qgen[k]
      BY <2>1, <2>3, <3>2, <3>5
    <3>6. QED
      BY <3>4, <3>5
  <2>4. CASE j = k /\ meter[k] # None
    <3>1. qgen[k] \in Nat
      BY DEF TypeOK, CredTypes
    <3>2. CASE qgen'[k] = qgen[k] + 1
      BY <2>1, <2>4, <3>1, <3>2
    <3>3. CASE qgen'[k] = qgen[k] /\ k \in mixed'
      BY <2>1, <2>4, <3>3
    <3>4. CASE qgen'[k] = qgen[k] /\ meter'[k] = meter[k] /\ mixed' = mixed
      BY <2>1, <2>4, <3>4
    <3>5. QED
      BY <2>4, <3>2, <3>3, <3>4
  <2>5. QED
    BY <2>2, <2>3, <2>4
<1>3. GoneForgotten'
  <2> SUFFICES ASSUME NEW j \in Creds, meter'[j] = None
               PROVE  /\ j \notin mixed' /\ j \notin torn'
                      /\ applied[j] = {} /\ cache[j] = None
                      /\ \A p \in Tasks : Is(p, "fetching")' /\ at'[p].cred = j => Stale(p)'
    BY DEF GoneForgotten
  <2>1. j # k /\ meter[j] = None
    OBVIOUS
  <2>2. QED
    BY <2>1 DEF ChargeInv, GoneForgotten, Is, Stale
<1>4. meter[k] = None => /\ k \notin torn /\ applied[k] = {} /\ cache[k] = None
  BY DEF ChargeInv, GoneForgotten
<1>5. TornCovered'
  BY <1>1, <1>4 DEF ChargeInv, TornCovered
<1>6. AppliedPresent'
  BY <1>1, <1>4 DEF ChargeInv, AppliedPresent
<1>7. SeenCharged'
  BY DEF ChargeInv, SeenCharged, ChargedAs
<1>8. DeductedCharged'
  BY <1>1, <1>4 DEF ChargeInv, DeductedCharged, ChargedAs
<1>9. QED
  BY <1>2, <1>3, <1>5, <1>6, <1>7, <1>8 DEF ChargeInv

(* A request that goes on is charged where it was, and is added to what is *)
(* known of its credential only if that is there it was charged.           *)
AddsTo(r, k) == meter[k] # None /\ (request[r].of = meter[k] \/ Covered(k))

LEMMA RequestCharge ==
    ASSUME TypeOK, TypeOK', PresentInv, UsageInv, ChargeInv, NEW r \in Requests,
           UNCHANGED <<credVars, at, invalidations>>,
           \A s \in Requests : s # r => request'[s] = request[s],
           request'[r].stage # "idle", request'[r].of # None,
           request[r].stage # "idle" => request'[r].of = request[r].of,
           qgen[request'[r].cred] = request'[r].gen =>
              \/ request'[r].of = meter[request'[r].cred]
              \/ request'[r].cred \in mixed,
           \A k \in Creds :
              \/ applied'[k] = applied[k]
              \/ /\ applied'[k] = applied[k] \union {r}
                 /\ request[r].stage # "idle" /\ AddsTo(r, k),
           \A k \in Creds :
              \/ cache'[k] = cache[k]
              \/ /\ cache'[k].deducted = cache[k].deducted \union {r}
                 /\ cache[k] # None /\ cache'[k].of = cache[k].of
                 /\ request[r].stage # "idle" /\ AddsTo(r, k)
    PROVE  ChargeInv'
<1>1. \A k : Covered(k)' <=> Covered(k)
  BY DEF Covered, Selected, Is, credVars
<1>2. \A s \in Requests : request[s].stage # "idle" =>
        request'[s].stage # "idle" /\ request'[s].of = request[s].of
  OBVIOUS
<1>3. SentPresent'
  BY DEF ChargeInv, SentPresent, credVars
<1>4. GoneForgotten'
  BY DEF ChargeInv, GoneForgotten, AddsTo, Is, Stale, credVars
<1>5. TornCovered'
  BY <1>1 DEF ChargeInv, TornCovered, credVars
<1>6. AppliedPresent'
  <2> SUFFICES ASSUME NEW k \in Creds, NEW s \in applied'[k]
               PROVE  request'[s].of = meter[k] \/ Covered(k)
    BY <1>1 DEF AppliedPresent, credVars
  <2>1. applied[k] \subseteq Requests
    BY DEF TypeOK, QuotaTypes
  <2>2. CASE s \in applied[k]
    <3>1. request[s].stage # "idle"
      BY <2>2 DEF UsageInv, AppliedReported
    <3>2. request'[s].of = request[s].of
      BY <1>2, <2>1, <2>2, <3>1
    <3>3. QED
      BY <2>2, <3>2 DEF ChargeInv, AppliedPresent
  <2>3. CASE s \notin applied[k]
    BY <2>3 DEF AddsTo
  <2>4. QED
    BY <2>2, <2>3
<1>8. SeenCharged'
  <2> SUFFICES ASSUME NEW p \in Tasks, at[p].stage \in {"fetching", "candidate"},
                      at[p].seen # None
               PROVE  ChargedAs(at[p].seen, at[p].of)'
    BY DEF SeenCharged
  <2>1. at[p].seen \in SUBSET Requests
    BY DEF TypeOK, TaskTypes, Coroutines
  <2>2. ChargedAs(at[p].seen, at[p].of)
    BY DEF ChargeInv, SeenCharged
  <2>3. QED
    BY <1>2, <2>1, <2>2 DEF ChargedAs
<1>9. DeductedCharged'
  <2> SUFFICES ASSUME NEW k \in Creds, cache'[k] # None
               PROVE  /\ \A s \in cache'[k].deducted : request'[s].stage # "idle"
                      /\ \/ \A s \in cache'[k].deducted : request'[s].of = cache'[k].of
                         \/ Covered(k)
    BY <1>1 DEF DeductedCharged, ChargedAs
  <2>1. cache[k] # None
    OBVIOUS
  <2>2. cache[k].deducted \subseteq Requests
    BY <2>1 DEF TypeOK, QuotaTypes, Entries
  <2>3. /\ \A s \in cache[k].deducted : request[s].stage # "idle"
        /\ \/ \A s \in cache[k].deducted : request[s].of = cache[k].of
           \/ Covered(k)
    BY <2>1 DEF ChargeInv, DeductedCharged, ChargedAs
  <2>4. CASE cache'[k] = cache[k]
    BY <1>2, <2>2, <2>3, <2>4
  <2>5. CASE cache'[k] # cache[k]
    <3>1. cache'[k].deducted = cache[k].deducted \union {r} /\ cache'[k].of = cache[k].of
          /\ request[r].stage # "idle" /\ (request[r].of = meter[k] \/ Covered(k))
      BY <2>5 DEF AddsTo
    <3>2. cache[k].of = meter[k] \/ Covered(k)
      BY <2>1 DEF PresentInv, CachedForPresent, ChargeInv, TornCovered, Covered, Selected
    <3>3. QED
      BY <1>2, <2>2, <2>3, <3>1, <3>2
  <2>6. QED
    BY <2>4, <2>5
<1>10. QED
  BY <1>3, <1>4, <1>5, <1>6, <1>8, <1>9 DEF ChargeInv

(* Init satisfies ChargeInv: nothing was sent and nothing is known.        *)
LEMMA ChargeInit == Init => ChargeInv
<1> SUFFICES ASSUME Init PROVE ChargeInv
  OBVIOUS
<1>1. NotSent.stage = "idle"
  BY DEF NotSent
<1>2. \A k \in Creds : meter[k] # None
  BY NoneIsNothing DEF Init
<1>3. SentPresent
  BY <1>1 DEF Init, SentPresent
<1>4. GoneForgotten /\ TornCovered /\ AppliedPresent /\ DeductedCharged
  BY <1>2 DEF Init, GoneForgotten, TornCovered, AppliedPresent, DeductedCharged
<1>5. SeenCharged
  BY Stages DEF Init, SeenCharged
<1>6. QED
  BY <1>3, <1>4, <1>5 DEF ChargeInv

(* The steps of a coroutine.                                               *)
LEMMA ChargeTaskStep ==
    ASSUME TypeOK, TypeOK', PresentInv, UsageInv, ChargeInv, NEW p \in Tasks, TaskStep(p)
    PROVE  ChargeInv'
<1>1. at[p].stage # "idle" => at[p].cred \in Creds
  BY DEF TypeOK, TaskTypes
<1>2. CASE BeginScheduled(p)
  <2>1. PICK v : at' = [at EXCEPT ![p] = v] /\ v.stage \notin {"fetching", "candidate"}
    BY <1>2, Stages DEF BeginScheduled, Created
  <2>2. QED
    BY <1>2, <2>1, MovesQuietly, MovesAsks, ApartCharge DEF BeginScheduled, Is
<1>3. CASE BeginProbe(p)
  <2>1. CASE Fetches(p, at[p].cred)
    <3>1. \A q \in Tasks : Asks(q)
      BY <2>1, MovesAsks, UnseenPlaces DEF Fetches
    <3>2. QED
      BY <1>1, <1>3, <2>1, <3>1, FetchesQuietly, ApartCharge
         DEF BeginProbe, credVars, quotaVars, Is
  <2>2. CASE Ends(p, Done(p))
    BY <1>3, <2>2, Stages, MovesQuietly, MovesAsks, ApartCharge
       DEF BeginProbe, Ends, quotaVars, Is
  <2>3. QED
    BY <1>3, <2>1, <2>2 DEF BeginProbe
<1>4. CASE TakeTurn(p)
  <2>1. [at[p] EXCEPT !.stage = "pacing"].stage = "pacing"
    BY DEF TypeOK, TaskTypes, Coroutines
  <2>2. QED
    BY <1>4, <2>1, MovesQuietly, MovesAsks, ApartCharge DEF TakeTurn, quotaVars, Is
<1>5. CASE DelayOver(p)
  <2>1. CASE at' = [at EXCEPT ![p] = Idle] \/ at' = [at EXCEPT ![p] = Done(p)]
    <3>1. PICK v : at' = [at EXCEPT ![p] = v] /\ v.stage \notin {"fetching", "candidate"}
      BY <2>1, Stages
    <3>2. QED
      BY <1>5, <3>1, MovesQuietly, MovesAsks, ApartCharge DEF DelayOver, Is
  <2>2. CASE Fetches(p, at[p].cred)
    <3>1. \A q \in Tasks : Asks(q)
      BY <2>2, MovesAsks, UnseenPlaces DEF Fetches
    <3>2. QED
      BY <1>1, <1>5, <2>2, <3>1, FetchesQuietly, ApartCharge
         DEF DelayOver, credVars, Is
  <2>3. QED
    BY <1>5, <2>1, <2>2 DEF DelayOver, Ends
<1>6. CASE MarkStarted(p)
  BY <1>6, ApartCharge DEF MarkStarted, quotaVars, Is, WentOn, Asks
<1>7. CASE Reads(p)
  <2>1. [at[p] EXCEPT !.seen = ChargedTo(at[p].of)].stage = at[p].stage
        /\ [at[p] EXCEPT !.seen = ChargedTo(at[p].of)].cred = at[p].cred
        /\ [at[p] EXCEPT !.seen = ChargedTo(at[p].of)].of = at[p].of
        /\ [at[p] EXCEPT !.seen = ChargedTo(at[p].of)].seen = ChargedTo(at[p].of)
        /\ [at[p] EXCEPT !.seen = ChargedTo(at[p].of)].since = at[p].since
    BY ZenonT(60) DEF TypeOK, TaskTypes, Coroutines
  <2>2. at'[p] = [at[p] EXCEPT !.seen = ChargedTo(at[p].of)]
        /\ \A q \in Tasks : q # p => at'[q] = at[q]
    BY <1>7 DEF Reads, TypeOK, TaskTypes
  <2>3. \A q \in Tasks : Is(q, "selected") => at'[q] = at[q]
    BY <1>7, <2>2 DEF Reads, Is
  <2>4. \A q \in Tasks : Is(q, "fetching")' => WentOn(q)
    BY <1>7, <2>1, <2>2 DEF Reads, Is, WentOn
  <2>5. \A q \in Tasks : Asks(q)
    BY <1>7, <2>1, <2>2 DEF Reads, Asks
  <2>6. QED
    BY <1>7, <2>3, <2>4, <2>5, ApartCharge DEF Reads, quotaVars
<1>8. CASE Answered(p)
  <2>1. \A k \in Creds : cache'[k] # None =>
          \/ cache'[k] = cache[k]
          \/ \E q \in Tasks : /\ Is(q, "fetching") /\ ~Stale(q)
                              /\ at[q].seen # None /\ at[q].cred = k
                              /\ cache'[k] = FreshEntry(q)
    BY <1>8 DEF Answered, TypeOK, QuotaTypes
  <2>2. at' = [at EXCEPT ![p] = Done(p)] /\ ~Is(p, "selected")
    BY <1>8 DEF Answered, Ends, Is
  <2>3. /\ \A q \in Tasks : Is(q, "selected") => at'[q] = at[q]
        /\ \A q \in Tasks : Is(q, "fetching")' => WentOn(q)
        /\ \A q \in Tasks : Asks(q)
    BY <2>2, Stages, MovesQuietly, MovesAsks
  <2>4. QED
    BY <1>8, <2>1, <2>3, QuietCharge DEF Answered, credVars
<1>9. CASE Failed(p)
  BY <1>9, Stages, MovesQuietly, MovesAsks, ApartCharge
     DEF Failed, Ends, quotaVars, Is
<1>10. CASE RemoveCompleted(p)
  BY <1>10, Stages, MovesQuietly, MovesAsks, ApartCharge DEF RemoveCompleted, Is
<1>11. CASE CandidateAnswered(p)
  <2> DEFINE k == at[p].cred
  <2>1. k \in Creds /\ ~Is(p, "selected") /\ at[p].of \in Meters
    BY <1>1, <1>11 DEF CandidateAnswered, Is, TypeOK, TaskTypes
  <2>2. /\ meter'[k] = at[p].of /\ qgen'[k] = qgen[k] + 1 /\ mixed' = mixed \ {k}
        /\ cache'[k] = [of |-> at[p].of, deducted |-> at[p].seen]
    BY <1>11, <2>1, ZenonT(60) DEF CandidateAnswered, Recharge, TypeOK, CredTypes, QuotaTypes
  <2>3. \A j \in Creds \ {k} : /\ meter'[j] = meter[j] /\ cache'[j] = cache[j]
                               /\ qgen'[j] = qgen[j] /\ (j \in mixed' <=> j \in mixed)
    BY <1>11, <2>1 DEF CandidateAnswered, Recharge, TypeOK, CredTypes, QuotaTypes
  <2>4. at' = [at EXCEPT ![p] = Idle] /\ Forget({k}) /\ request' = request
    BY <1>11 DEF CandidateAnswered
  <2>5. ChargedAs(at[p].seen, at[p].of)
    BY <1>11 DEF CandidateAnswered, ChargeInv, SeenCharged, Is
  <2>6. meter'[k] # None /\ ChargedAs(cache'[k].deducted, cache'[k].of)
    BY <2>1, <2>2, <2>5, NoneIsNothing
  <2>7. \A q \in Tasks : at'[q] = at[q] \/ (q = p /\ at'[q].stage = "idle")
    BY <2>4, Stages DEF TypeOK, TaskTypes
  <2>8. /\ \A q \in Tasks : Is(q, "selected") => at'[q] = at[q]
        /\ \A q \in Tasks : at'[q].stage \in {"fetching", "candidate"} => at'[q] = at[q]
    BY <2>1, <2>7
  <2> HIDE DEF k
  <2>9. QED
    BY <2>1, <2>2, <2>3, <2>4, <2>6, <2>8, ForgetCharge
<1>12. CASE CandidateRefused(p)
  BY <1>12, Stages, MovesQuietly, MovesAsks, ApartCharge
     DEF CandidateRefused, quotaVars, Is
<1>13. CASE SelectAccount(p)
  <2> DEFINE k == at[p].cred
  <2>1. k \in Creds
    BY <1>1, <1>13 DEF SelectAccount, Is
  <2>2. \A j \in Creds : IF j = k THEN cache'[j] = None ELSE cache'[j] = cache[j]
    BY <1>13 DEF SelectAccount, Invalidate
  <2>3. \A q \in Tasks : at'[q] = at[q] \/ (q = p /\ at'[q].stage = "asked")
    BY <1>13, Stages DEF SelectAccount, TypeOK, TaskTypes
  <2>4. Forget({k}) /\ UNCHANGED <<request, meter, qgen, mixed>>
    BY <1>13 DEF SelectAccount, Invalidate
  <2>5. /\ \A q \in Tasks : Is(q, "selected") => at'[q] = at[q] \/ at[q].cred \in {k}
        /\ \A q \in Tasks : at'[q].stage \in {"fetching", "candidate"} => at'[q] = at[q]
    BY <2>3
  <2> HIDE DEF k
  <2>6. QED
    BY <2>1, <2>2, <2>4, <2>5, ForgetCharge
<1>14. QED
  BY <1>2, <1>3, <1>4, <1>5, <1>6, <1>7, <1>8, <1>9, <1>10, <1>11, <1>12, <1>13
     DEF TaskStep

(* Requests: sent to the present meter, and reported where they were sent. *)
LEMMA ChargeRequestStep ==
    ASSUME TypeOK, TypeOK', PresentInv, UsageInv, ChargeInv, NEW r \in Requests,
           Costs(r) \/ ApplyUsage(r) \/ \E k \in Creds : SendRequest(r, k)
    PROVE  ChargeInv'
<1>1. request \in [Requests -> RequestStates]
  BY DEF TypeOK
<1>2. ASSUME NEW k \in Creds, SendRequest(r, k) PROVE ChargeInv'
  <2>1. /\ \A s \in Requests : s # r => request'[s] = request[s]
        /\ request'[r].stage = "sent" /\ request'[r].of = meter[k] /\ meter[k] # None
        /\ request'[r].cred = k /\ request[r].stage = "idle"
    BY <1>1, <1>2 DEF SendRequest
  <2>2. UNCHANGED <<credVars, at, invalidations, applied, cache>>
    BY <1>2 DEF SendRequest, quotaVars
  <2>3. QED
    BY <2>1, <2>2, RequestCharge
<1>3. ASSUME NEW place, request' = [request EXCEPT ![r].stage = place],
             request[r].stage # "idle", place # "idle"
      PROVE  /\ \A s \in Requests : s # r => request'[s] = request[s]
             /\ request'[r].stage # "idle" /\ request'[r].of = request[r].of
             /\ request'[r].cred = request[r].cred /\ request'[r].gen = request[r].gen
  <2>1. request' = [request EXCEPT ![r] = [request[r] EXCEPT !.stage = place]]
    BY <1>3
  <2>2. /\ [request[r] EXCEPT !.stage = place].stage = place
        /\ [request[r] EXCEPT !.stage = place].cred = request[r].cred
        /\ [request[r] EXCEPT !.stage = place].gen = request[r].gen
        /\ [request[r] EXCEPT !.stage = place].of = request[r].of
    BY <1>1 DEF RequestStates
  <2>3. QED
    BY <1>1, <1>3, <2>1, <2>2
<1>4. request[r].stage # "idle" =>
        /\ request[r].of # None /\ request[r].cred \in Creds
        /\ qgen[request[r].cred] = request[r].gen =>
             \/ request[r].of = meter[request[r].cred]
             \/ request[r].cred \in mixed
  BY DEF ChargeInv, SentPresent, UsageInv, ReqBehind
<1>5. CASE Costs(r)
  <2>1. /\ request' = [request EXCEPT ![r].stage = "spent"] /\ request[r].stage # "idle"
        /\ UNCHANGED <<credVars, at, invalidations, applied, cache>>
    BY <1>5 DEF Costs, quotaVars
  <2>2. QED
    BY <1>3, <1>4, <2>1, RequestCharge
<1>6. CASE ApplyUsage(r)
  <2> DEFINE j == request[r].cred
  <2>1. /\ request' = [request EXCEPT ![r].stage = "reported"]
        /\ request[r].stage # "idle"
        /\ UNCHANGED <<credVars, at, invalidations>>
    BY <1>6 DEF ApplyUsage
  <2>2. qgen[j] = request[r].gen => AddsTo(r, j)
    BY <1>4, <2>1 DEF AddsTo, Covered, ChargeInv, GoneForgotten
  <2>3. j \in Creds
    BY <1>4, <2>1
  <2>4. \A k \in Creds :
          \/ applied'[k] = applied[k]
          \/ applied'[k] = applied[k] \union {r} /\ AddsTo(r, k)
    <3>1. CASE qgen[j] = request[r].gen
      <4>1. applied' = [applied EXCEPT ![j] = applied[j] \union {r}] /\ AddsTo(r, j)
        BY <1>6, <2>2, <3>1 DEF ApplyUsage
      <4> HIDE DEF j
      <4>2. QED
        BY <4>1 DEF TypeOK, QuotaTypes
    <3>2. CASE qgen[j] # request[r].gen
      BY <1>6, <3>2 DEF ApplyUsage
    <3>3. QED
      BY <3>1, <3>2
  <2>5. \A k \in Creds :
          \/ cache'[k] = cache[k]
          \/ /\ cache'[k].deducted = cache[k].deducted \union {r}
             /\ cache[k] # None /\ cache'[k].of = cache[k].of /\ AddsTo(r, k)
    <3>1. CASE qgen[j] = request[r].gen /\ cache[j] # None
      <4>1. /\ cache' = [cache EXCEPT ![j] =
                           [cache[j] EXCEPT !.deducted = cache[j].deducted \union {r}]]
            /\ AddsTo(r, j)
        BY <1>6, <2>2, <3>1 DEF ApplyUsage
      <4>2. cache[j] \in Entries
        BY <2>3, <3>1 DEF TypeOK, QuotaTypes
      <4>3. /\ [cache[j] EXCEPT !.deducted = cache[j].deducted \union {r}].of
                 = cache[j].of
            /\ [cache[j] EXCEPT !.deducted = cache[j].deducted \union {r}].deducted
                 = cache[j].deducted \union {r}
        BY <4>2 DEF Entries
      <4> HIDE DEF j
      <4>4. QED
        BY <2>3, <3>1, <4>1, <4>3 DEF TypeOK, QuotaTypes
    <3>2. CASE ~(qgen[j] = request[r].gen /\ cache[j] # None)
      BY <1>6, <3>2 DEF ApplyUsage
    <3>3. QED
      BY <3>1, <3>2
  <2>6. QED
    BY <1>3, <1>4, <2>1, <2>4, <2>5, RequestCharge
<1>7. QED
  BY <1>2, <1>5, <1>6

(* Every step preserves ChargeInv.                                         *)
LEMMA ChargeStep ==
    TypeOK /\ PresentInv /\ UsageInv /\ ChargeInv /\ [Next]_vars => ChargeInv'
<1> SUFFICES ASSUME TypeOK, PresentInv, UsageInv, ChargeInv, [Next]_vars
             PROVE  ChargeInv'
  OBVIOUS
<1>1. TypeOK'
  BY TypeStep
<1>2. ASSUME NEW p \in Tasks, TaskStep(p) PROVE ChargeInv'
  BY <1>1, <1>2, ChargeTaskStep
<1>3. ASSUME NEW p \in Tasks, NEW k \in Creds, RefreshQuota(p, k) PROVE ChargeInv'
  <2>1. at' = [at EXCEPT ![p] = At("created", k)] /\ ~Is(p, "selected")
    BY <1>3 DEF RefreshQuota, Created, Is
  <2>2. At("created", k).stage = "created"
    BY DEF At
  <2>3. QED
    BY <1>1, <1>3, <2>1, <2>2, MovesQuietly, MovesAsks, ApartCharge DEF RefreshQuota
<1>4. ASSUME NEW p \in Tasks, NEW k \in Creds, ProbeWithSemaphore(p, k)
      PROVE  ChargeInv'
  <2>1. CASE at' = at
    BY <1>1, <1>4, <2>1, ApartCharge DEF ProbeWithSemaphore, Is, WentOn, Asks
  <2>2. CASE at' # at
    <3>1. PICK v : at' = [at EXCEPT ![p] = v] /\ v.stage \notin {"fetching", "candidate"}
      <4>1. \/ at' = [at EXCEPT ![p] = At("created", k)]
            \/ at' = [at EXCEPT ![p] = [At("waiting", k) EXCEPT !.background = TRUE]]
        BY <1>4, <2>2 DEF ProbeWithSemaphore, Created
      <4>2. /\ At("created", k).stage = "created"
            /\ [At("waiting", k) EXCEPT !.background = TRUE].stage = "waiting"
        BY DEF At
      <4>3. QED
        BY <4>1, <4>2
    <3>2. QED
      BY <1>1, <1>4, <3>1, MovesQuietly, MovesAsks, ApartCharge
         DEF ProbeWithSemaphore, Is
  <2>3. QED
    BY <2>1, <2>2
<1>5. ASSUME NEW p \in Tasks, NEW k \in Creds, NEW m \in Meters, ChangeMode(p, k, m)
      PROVE  ChargeInv'
  <2> DEFINE v == [At("candidate", k) EXCEPT !.of = m, !.since = qgen[k]]
  <2>1. at' = [at EXCEPT ![p] = v] /\ ~Is(p, "selected")
    BY <1>5 DEF ChangeMode, Is
  <2>2. v.stage = "candidate" /\ v.seen = None
    BY DEF At
  <2> HIDE DEF v
  <2>3. QED
    BY <1>1, <1>5, <2>1, <2>2, MovesQuietly, MovesAsks, ApartCharge
       DEF ChangeMode, quotaVars
<1>6. ASSUME NEW p \in Tasks, NEW k \in Creds, NEW m \in Meters, SwitchReplaces(p, k, m)
      PROVE  ChargeInv'
  <2>1. at' = [at EXCEPT ![p] = At("selected", k)] /\ Is(p, "idle")
    BY <1>6 DEF SwitchReplaces
  <2>2. at'[p].stage = "selected" /\ at'[p].cred = k
        /\ \A q \in Tasks : q # p => at'[q] = at[q]
    BY <2>1 DEF At, TypeOK, TaskTypes
  <2>3. Covered(k)'
    BY <2>2 DEF Covered, Selected, Is
  <2>4. PICK quotaChanged \in BOOLEAN : Recharge(k, m, quotaChanged)
    BY <1>6 DEF SwitchReplaces
  <2>5. /\ meter'[k] # None
        /\ \/ qgen'[k] = qgen[k] + 1
           \/ qgen'[k] = qgen[k] /\ k \in mixed'
           \/ qgen'[k] = qgen[k] /\ meter'[k] = meter[k] /\ mixed' = mixed
    BY <2>4, NoneIsNothing DEF Recharge, TypeOK, CredTypes
  <2>6. \A j \in Creds \ {k} : /\ meter'[j] = meter[j] /\ qgen'[j] = qgen[j]
                               /\ (j \in mixed' <=> j \in mixed)
    BY <2>4 DEF Recharge, TypeOK, CredTypes
  <2>7. /\ \A q \in Tasks : Is(q, "selected") => at'[q] = at[q]
        /\ \A q \in Tasks : at'[q].stage \in {"fetching", "candidate"} => at'[q] = at[q]
    BY <2>1, <2>2 DEF Is
  <2>8. UNCHANGED <<request, applied, cache, invalidations, torn>>
    BY <1>6 DEF SwitchReplaces, quotaVars
  <2>9. QED
    BY <1>1, <2>3, <2>5, <2>6, <2>7, <2>8, ChangeCharge
<1>7. ASSUME NEW p \in Tasks, NEW k \in Creds, NEW m \in Meters,
             CreateCredential(p, k, m)
      PROVE  ChargeInv'
  <2>1. at' = [at EXCEPT ![p] = Scheduled(k)] /\ Is(p, "idle")
    BY <1>7 DEF CreateCredential
  <2>2. at'[p].stage = "asked" /\ \A q \in Tasks : q # p => at'[q] = at[q]
    BY <2>1, Stages DEF TypeOK, TaskTypes
  <2>3. /\ \A q \in Tasks : Is(q, "selected") => at'[q] = at[q]
        /\ \A q \in Tasks : at'[q].stage \in {"fetching", "candidate"} => at'[q] = at[q]
    BY <2>1, <2>2 DEF Is
  <2>4. /\ meter[k] = None /\ meter'[k] # None
        /\ \A j \in Creds \ {k} : meter'[j] = meter[j]
    BY <1>7, NoneIsNothing DEF CreateCredential, TypeOK, CredTypes
  <2>5. UNCHANGED <<request, applied, cache, invalidations, torn, mixed, qgen>>
    BY <1>7 DEF CreateCredential, quotaVars
  <2>6. QED
    BY <1>1, <2>3, <2>4, <2>5, ChangeCharge
<1>8. ASSUME NEW k \in Creds, NEW m \in Meters, ReplaceTorn(k, m) PROVE ChargeInv'
  <2>1. Covered(k)' /\ k \in mixed'
    BY <1>8 DEF ReplaceTorn, Covered
  <2>2. /\ meter'[k] # None /\ qgen' = qgen
        /\ \A j \in Creds \ {k} : /\ meter'[j] = meter[j]
                                  /\ (j \in mixed' <=> j \in mixed)
                                  /\ (j \in torn' <=> j \in torn)
    BY <1>8, NoneIsNothing DEF ReplaceTorn, TypeOK, CredTypes
  <2>3. UNCHANGED <<at, request, applied, cache, invalidations>>
    BY <1>8 DEF ReplaceTorn, quotaVars
  <2>4. QED
    BY <1>1, <2>1, <2>2, <2>3, ChangeCharge
<1>9. ASSUME NEW k \in Creds, DeleteCredential(k) PROVE ChargeInv'
  <2>1. Forget({k}) /\ cache' = [j \in Creds |-> IF j = k THEN None ELSE cache[j]]
        /\ UNCHANGED <<request, at>>
    BY <1>9 DEF DeleteCredential, Invalidate
  <2>2. /\ qgen'[k] = qgen[k] + 1 /\ k \notin mixed'
        /\ \A j \in Creds \ {k} : /\ meter'[j] = meter[j] /\ qgen'[j] = qgen[j]
                                  /\ (j \in mixed' <=> j \in mixed)
    BY <1>9 DEF DeleteCredential, Recharge, TypeOK, CredTypes
  <2>3. QED
    BY <1>1, <2>1, <2>2, ForgetCharge
<1>10. ASSUME NEW m \in Meters, RefreshAccountQuotas(m) PROVE ChargeInv'
  <2> DEFINE ks == {k \in Creds : meter[k] = m}
  <2>1. Forget(ks) /\ cache' = [j \in Creds |-> IF j \in ks THEN None ELSE cache[j]]
        /\ UNCHANGED <<meter, qgen, mixed, request>>
    BY <1>10 DEF RefreshAccountQuotas, Invalidate
  <2>2. PICK task \in [ks -> {p \in Tasks : Is(p, "idle")}] :
          at' = [p \in Tasks |->
                   IF \E k \in ks : task[k] = p
                     THEN Scheduled(CHOOSE k \in ks : task[k] = p)
                     ELSE at[p]]
    BY <1>10 DEF RefreshAccountQuotas
  <2>3. \A p \in Tasks : \/ at'[p] = at[p]
                         \/ Is(p, "idle") /\ at'[p].stage = "asked"
    BY <2>2, Stages
  <2>4. /\ \A q \in Tasks : Is(q, "selected") => at'[q] = at[q]
        /\ \A q \in Tasks : at'[q].stage \in {"fetching", "candidate"} => at'[q] = at[q]
    BY <2>3 DEF Is
  <2> HIDE DEF ks
  <2>5. ks \in SUBSET Creds
    BY DEF ks
  <2>6. QED
    BY <1>1, <2>1, <2>4, <2>5, ForgetCharge
<1>11. ASSUME NEW r \in Requests,
              Costs(r) \/ ApplyUsage(r) \/ \E k \in Creds : SendRequest(r, k)
       PROVE  ChargeInv'
  BY <1>1, <1>11, ChargeRequestStep
<1>12. CASE ScanOnce
  BY <1>1, <1>12, ApartCharge DEF ScanOnce, quotaVars, Is, WentOn, Asks
<1>13. CASE Shutdown
  <2>1. \A q \in Tasks : ~Is(q, "selected")
    BY <1>13 DEF Shutdown, Is
  <2>2. \A q \in Tasks : at'[q] = at[q] \/ at'[q].stage = "idle"
    BY <1>13, Stages DEF Shutdown
  <2>3. \A q \in Tasks : (Is(q, "fetching")' => WentOn(q)) /\ Asks(q)
    BY <2>2 DEF Is, WentOn, Asks
  <2>4. QED
    BY <1>1, <1>13, <2>1, <2>3, ApartCharge DEF Shutdown
<1>14. CASE UNCHANGED vars
  BY <1>1, <1>14, ApartCharge DEF vars, quotaVars, Is, WentOn, Asks
<1>15. ASSUME NEW k \in Creds, NEW m \in Meters,
              ReplaceTorn(k, m) \/ DeleteCredential(k) \/ RefreshAccountQuotas(m)
       PROVE  ChargeInv'
  BY <1>8, <1>9, <1>10, <1>15
<1>16. ASSUME NEW p \in Tasks, NEW k \in Creds, NEW m \in Meters,
              ChangeMode(p, k, m) \/ SwitchReplaces(p, k, m) \/ CreateCredential(p, k, m)
       PROVE  ChargeInv'
  BY <1>5, <1>6, <1>7, <1>16
<1>17. QED
  BY <1>2, <1>3, <1>4, <1>9, <1>10, <1>11, <1>12, <1>13, <1>14, <1>15, <1>16
     DEF Next

(* Usage is deducted only from quota of the meter it was charged to, up to *)
(* a switch not yet known and torn writes: apply_usage compares the        *)
(* generation, and a probe adds only what was applied since it began.      *)
THEOREM WhereCharged == Spec => []DeductedWhereCharged
<1>1. Init => TypeOK /\ PresentInv /\ UsageInv /\ ChargeInv
  BY TypeInit, PresentInit, UsageInit, ChargeInit
<1>2. TypeOK /\ PresentInv /\ UsageInv /\ ChargeInv /\ [Next]_vars
        => (TypeOK /\ PresentInv /\ UsageInv /\ ChargeInv)'
  BY TypeStep, PresentStep, UsageStep, ChargeStep
<1>3. ChargeInv => DeductedWhereCharged
  BY DEF ChargeInv, DeductedCharged, ChargedAs, Covered, Selected, DeductedWhereCharged
<1>4. QED
  BY <1>1, <1>2, <1>3, PTL DEF Spec
==============================================================================
