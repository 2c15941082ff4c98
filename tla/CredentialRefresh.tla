-------------------------- MODULE CredentialRefresh --------------------------
(***************************************************************************)
(* The coroutines that update credentials across awaits: the hourly scan's *)
(* refresh jobs, the account switches and the probe-mode updates, on top   *)
(* of the token manager they share.  Every write goes through              *)
(* replace_credential_by_id; between awaits nothing else runs.             *)
(*                                                                         *)
(* An upstream answer is a choice of its outcome.  The scan's semaphore is *)
(* a job that stays queued; its window of 24 hours is any moment.          *)
(***************************************************************************)
EXTENDS TokenManager

CONSTANTS
    Jobs,         \* the scan's job of each file: [Files -> Tasks]
    Switches,     \* coroutines of POST .../switch-account
    ModeUpdates,  \* coroutines of PUT .../quota-probe-mode
    Pending,      \* contents with refresh_accounts_pending
    Switchable,   \* contents with a refresh token
    Refreshable,  \* contents whose refresh token has not expired
    MaxAttempts   \* 1 + len(retry_delays)

ASSUME JobsTyped ==
    /\ Jobs \in [Files -> Tasks]
    /\ \A f, g \in Files : Jobs[f] = Jobs[g] => f = g
ASSUME KindsTyped ==
    /\ Switches \subseteq Tasks /\ ModeUpdates \subseteq Tasks
    /\ Switches \cap ModeUpdates = {}
    /\ \A f \in Files : Jobs[f] \notin Switches \union ModeUpdates
ASSUME PendingTyped == Pending \subseteq Tokens
ASSUME RefreshTokensTyped == Refreshable \subseteq Switchable
ASSUME AttemptsTyped == MaxAttempts \in Nat \ {0}
ASSUME NoneIsNothing == None \notin Tasks /\ None \notin Snapshot

VARIABLES
    stage,      \* where each coroutine is suspended, or how its task ended
    target,     \* the file it works on
    awaits,     \* the task in flight it waits for
    attempt,    \* attempts of _perform_refresh so far
    refreshed,  \* the current attempt has refreshed the access token
    inflight,   \* self._inflight, by file
    stopped,    \* shutdown() has returned
    displaced   \* history: running tasks that another replaced in inflight

taskVars == <<target, awaits, attempt, refreshed>>
refreshVars == <<stage, taskVars, inflight, stopped, displaced>>
allVars == <<vars, refreshVars>>

(* A task in flight runs, and has ended, with a result or an exception,    *)
(* before the coroutine that registered it resumes and takes notice.       *)
Running == {"retry", "post", "accounts", "switch"}
Ended == {"done", "failed"}

(* A refresh keeps the account.  That of a credential which names none is  *)
(* the account the upstream answer then gives it.                          *)
SameAccount(tok, old) == AccountOf[tok] = AccountOf[old]

RefreshInit ==
    /\ Init
    /\ stage = [c \in Tasks |-> "idle"]
    /\ target = [c \in Tasks |-> None]
    /\ awaits = [c \in Tasks |-> None]
    /\ attempt = [c \in Tasks |-> 0]
    /\ refreshed = [c \in Tasks |-> FALSE]
    /\ inflight = [f \in Files |-> None]
    /\ stopped = FALSE
    /\ displaced = {}

-----------------------------------------------------------------------------
(* Helpers: where coroutine c goes next.                                   *)

Move(c, place) ==
    /\ stage' = [stage EXCEPT ![c] = place]
    /\ UNCHANGED <<inflight, displaced>>

(* The task of c is over; its entry stays until Drop.  A probe-mode update *)
(* is no task of its own.                                                  *)
End(c, outcome) ==
    /\ stage' = [stage EXCEPT ![c] = IF c \in ModeUpdates THEN "idle"
                                                          ELSE outcome]
    /\ displaced' = displaced \ {c}
    /\ UNCHANGED <<inflight, taskVars>>

Fail(c) == DropSnapshots({c}) /\ End(c, "failed")

(* Those who waited for the task of c resume in the loop turn of c itself: *)
(* the joined jobs have its result, the switches go on, or fail with it.   *)
Wake(c) ==
    /\ stage' = [d \in Tasks |->
          IF d = c \/ (awaits[d] = c /\ stage[d] = "joined") THEN "idle"
          ELSE IF awaits[d] # c THEN stage[d]
          ELSE IF stage[c] = "done" THEN "woken" ELSE "idle"]
    /\ awaits' = [d \in Tasks |-> IF awaits[d] = c THEN None ELSE awaits[d]]
    /\ UNCHANGED <<vars, target, attempt, refreshed, stopped, displaced>>

(* The finally of the coroutine that registered c, once it resumes: the    *)
(* entry goes if it is still its own.                                      *)
EntryDropped(c) ==
    /\ stage[c] \in Ended
    /\ Wake(c)
    /\ inflight' = [inflight EXCEPT ![target[c]] = None]

Drop(c) ==
    /\ stage[c] \in Ended
    /\ Wake(c)
    /\ inflight' = [f \in Files |->
          IF inflight[f] = c THEN None ELSE inflight[f]]

Free(f) == inflight[f] = None
Occupied(f) == ~Free(f) /\ stage[inflight[f]] \in Running

(* Registers c for its file; a task that still runs there goes on          *)
(* unregistered.                                                           *)
Register(c, f) ==
    /\ inflight' = [inflight EXCEPT ![f] = c]
    /\ displaced' = IF Occupied(f) THEN displaced \union {inflight[f]}
                                   ELSE displaced

(* The first call of an attempt on content tok: the token endpoint, which  *)
(* is not asked without a valid refresh token, or the accounts when only   *)
(* these are missing.                                                      *)
FirstCall(tok) == IF tok \in Pending \ expired THEN "accounts" ELSE "post"

-----------------------------------------------------------------------------
(* scan_once: _should_refresh holds of the snapshot; the job is queued     *)
(* with it until the semaphore lets it run.                                *)
ShouldRefresh(tok) ==
    tok \in Pending \ expired \/ tok \in Expirable \cap Refreshable

Scan(f) ==
    LET c == Jobs[f] IN
    /\ ~stopped /\ stage[c] = "idle"
    /\ TakeSnapshot(c, f)
    /\ ShouldRefresh(data[f])
    /\ Move(c, "queued")
    /\ target' = [target EXCEPT ![c] = f]
    /\ UNCHANGED <<awaits, attempt, refreshed, stopped>>

(* refresh_credential: join the task in flight, or become it.  The task    *)
(* found may be over: then its outcome is there at once.                   *)
JoinJob(c) ==
    LET f == target[c] IN
    /\ stage[c] = "queued" /\ ~Free(f)
    /\ DropSnapshots({c})
    /\ IF Occupied(f)
         THEN /\ Move(c, "joined")
              /\ awaits' = [awaits EXCEPT ![c] = inflight[f]]
         ELSE Move(c, "idle") /\ UNCHANGED awaits
    /\ UNCHANGED <<target, attempt, refreshed, stopped>>

StartJob(c) ==
    LET f == target[c] IN
    /\ stage[c] = "queued" /\ Free(f)
    /\ stage' = [stage EXCEPT ![c] = FirstCall(snap[c].token)]
    /\ attempt' = [attempt EXCEPT ![c] = 1]
    /\ refreshed' = [refreshed EXCEPT ![c] = FALSE]
    /\ Register(c, f)
    /\ UNCHANGED <<vars, target, awaits, stopped>>

(* A temporary failure: another attempt after a delay, or the end.         *)
RetryTooOften(c) ==
    IF attempt[c] <= MaxAttempts
      THEN /\ attempt' = [attempt EXCEPT ![c] = @ + 1]
           /\ Move(c, "retry")
           /\ UNCHANGED <<vars, target, awaits, refreshed>>
      ELSE Fail(c)

Retry(c) ==
    IF attempt[c] < MaxAttempts
      THEN /\ attempt' = [attempt EXCEPT ![c] = @ + 1]
           /\ Move(c, "retry")
           /\ UNCHANGED <<vars, target, awaits, refreshed>>
      ELSE Fail(c)

NextAttempt(c) ==
    /\ stage[c] = "retry"
    /\ Move(c, FirstCall(snap[c].token))
    /\ refreshed' = [refreshed EXCEPT ![c] = FALSE]
    /\ UNCHANGED <<vars, target, awaits, attempt, stopped>>

(* _refresh_access_token: "refresh_unavailable" and "unauthorized" end the *)
(* task, so does an error of the file system.                              *)
TokenRefused(c) ==
    /\ stage[c] = "post"
    /\ Fail(c) \/ (snap[c].token \in Refreshable /\ Retry(c))
    /\ UNCHANGED stopped

(* New tokens arrive: they are stored, marked pending, before the accounts *)
(* are asked for; a credential changed meanwhile keeps what it has.        *)
TokenStored(c, tok) ==
    /\ stage[c] = "post" /\ snap[c].token \in Refreshable
    /\ SameAccount(tok, snap[c].token)
    /\ \/ /\ ReplaceCredential(c, tok)
          /\ snap'[c] # None /\ quotaGen' = quotaGen
          /\ Move(c, "accounts")
          /\ refreshed' = [refreshed EXCEPT ![c] = TRUE]
          /\ UNCHANGED <<target, awaits, attempt>>
       \/ ReplaceRefused(c) /\ End(c, "done")
       \/ ReplaceFailsAfterRename(c, tok) /\ End(c, "failed")
    /\ UNCHANGED stopped

TokenStoredUnmarked(c) == \E tok \in Tokens \ Pending : TokenStored(c, tok)

TokenReturned(c) == \E tok \in Pending : TokenStored(c, tok)

(* The accounts request fails: an unauthorized token that this attempt has *)
(* not refreshed is refreshed once.                                        *)
AccountsRefused(c) ==
    LET tok == snap[c].token IN
    /\ stage[c] = "accounts"
    /\ \/ /\ ~refreshed[c] /\ tok \in Expirable \cap Refreshable
          /\ Move(c, "post")
          /\ UNCHANGED <<vars, taskVars>>
       \/ /\ refreshed[c] \/ tok \notin Expirable \cap Refreshable
          /\ Fail(c)
       \/ Retry(c)
    /\ UNCHANGED stopped

(* A last write of a coroutine, whatever replace_credential_by_id says; a  *)
(* refusal is a result of a refresh and an exception of a switch.          *)
FinalWrite(c, tok, quotaChanged) ==
    \/ /\ ReplaceCredential(c, tok)
       /\ snap'[c] = None
       /\ quotaGen' = IF quotaChanged
                        THEN Bumped(quotaGen, target[c]) ELSE quotaGen
       /\ End(c, "done")
    \/ ReplaceRefused(c) /\ End(c, IF c \in Switches THEN "failed" ELSE "done")
    \/ ReplaceFailsAfterRename(c, tok) /\ End(c, "failed")

AccountsReturned(c) ==
    /\ stage[c] = "accounts"
    /\ \E tok \in Tokens \ Pending :
          SameAccount(tok, snap[c].token) /\ FinalWrite(c, tok, FALSE)
    /\ UNCHANGED stopped

-----------------------------------------------------------------------------
(* switch_account: waits for the task in flight, if any.                   *)
WaitToSwitch(c, f) ==
    /\ ~stopped /\ stage[c] = "idle"
    /\ Occupied(f)
    /\ Move(c, "waiting")
    /\ target' = [target EXCEPT ![c] = f]
    /\ awaits' = [awaits EXCEPT ![c] = inflight[f]]
    /\ UNCHANGED <<vars, attempt, refreshed, stopped>>

BeginSwitch(c, f) ==
    /\ TakeSnapshot(c, f)
    /\ stage' = [stage EXCEPT ![c] = "switch"]
    /\ target' = [target EXCEPT ![c] = f]
    /\ Register(c, f)

(* A task found done is not waited for, and one found failed fails the     *)
(* switch before it has done anything.                                     *)
StartSwitch(c, f) ==
    /\ ~stopped /\ stage[c] = "idle"
    /\ ~Free(f) => stage[inflight[f]] = "done"
    /\ BeginSwitch(c, f)
    /\ UNCHANGED <<awaits, attempt, refreshed, stopped>>

(* After the wait it looks at _stopping and at the credential, and not at  *)
(* inflight again.                                                         *)
ResumeUnstopped(c) ==
    LET f == target[c] IN
    /\ stage[c] = "woken"
    /\ IF f \in Listed
         THEN BeginSwitch(c, f)
         ELSE Move(c, "idle") /\ UNCHANGED <<vars, target>>
    /\ UNCHANGED <<awaits, attempt, refreshed, stopped>>

ResumeSwitch(c) ==
    LET f == target[c] IN
    /\ stage[c] = "woken"
    /\ IF ~stopped /\ f \in Listed
         THEN BeginSwitch(c, f)
         ELSE Move(c, "idle") /\ UNCHANGED <<vars, target>>
    /\ UNCHANGED <<awaits, attempt, refreshed, stopped>>

SwitchEnds(c) ==
    /\ stage[c] = "switch"
    /\ \/ Fail(c)
       \/ /\ snap[c].token \in Switchable
          /\ \E tok \in Tokens \ Pending :
                FinalWrite(c, tok, ~SameAccount(tok, snap[c].token))
    /\ UNCHANGED stopped

-----------------------------------------------------------------------------
(* update_admin_credential_quota_probe_mode: not registered in inflight;   *)
(* the copy it writes is of the same account and keeps the mark.           *)
StartModeUpdate(c, f) ==
    /\ stage[c] = "idle"
    /\ TakeSnapshot(c, f)
    /\ Move(c, "probe")
    /\ target' = [target EXCEPT ![c] = f]
    /\ UNCHANGED <<awaits, attempt, refreshed, stopped>>

WriteUnchecked(c) ==
    /\ stage[c] = "probe" /\ gen[target[c]] < MaxGen
    /\ target[c] \in Listed
    /\ \E tok \in Tokens :
          /\ data' = [data EXCEPT ![target[c]] = tok]
          /\ disk' = [disk EXCEPT ![target[c]] = tok]
    /\ gen' = Bumped(gen, target[c])
    /\ snap' = [snap EXCEPT ![c] = None]
    /\ UNCHANGED <<stateFile, settings, current, usage, quotaGen, expired, req,
                   history>>
    /\ End(c, "done") /\ UNCHANGED stopped

ModeUpdateEnds(c) ==
    /\ stage[c] = "probe"
    /\ \/ Fail(c)
       \/ \E tok \in Tokens :
             /\ SameAccount(tok, snap[c].token)
             /\ tok \in Pending <=> snap[c].token \in Pending
             /\ FinalWrite(c, tok, TRUE)
    /\ UNCHANGED stopped

-----------------------------------------------------------------------------
(* shutdown: the scan with its jobs and whatever is registered in inflight *)
(* are cancelled and awaited; a switch waiting for one of these fails.     *)
(* What is over already is not cancelled: those who waited for it resume.  *)
Shutdown ==
    LET cancelled == {inflight[f] : f \in {g \in Files : Occupied(g)}}
        jobs == {Jobs[f] : f \in Files}
        gone == cancelled
                \union {c \in jobs : stage[c] \in {"queued", "joined"}}
                \union {c \in Switches : awaits[c] \in cancelled}
    IN  /\ ~stopped
        /\ stopped' = TRUE
        /\ DropSnapshots(gone)
        /\ stage' = [c \in Tasks |-> IF c \in gone THEN "idle" ELSE stage[c]]
        /\ awaits' = [c \in Tasks |-> IF c \in gone THEN None ELSE awaits[c]]
        /\ inflight' = [f \in Files |-> None]
        /\ UNCHANGED <<target, attempt, refreshed, displaced>>

RestartAll ==
    /\ Restart
    /\ stage' = [c \in Tasks |-> "idle"]
    /\ awaits' = [c \in Tasks |-> None]
    /\ inflight' = [f \in Files |-> None]
    /\ stopped' = FALSE
    /\ displaced' = {}
    /\ UNCHANGED <<target, attempt, refreshed>>

(* What the rest of the program does to the token manager meanwhile.       *)
Elsewhere ==
    /\ \/ \E f \in Files, tok \in Tokens \ Pending :
             AddCredential(f, tok) \/ AddCredentialFails(f, tok)
       \/ \E f \in Files : DeleteCredential(f) \/ SetCurrentCredential(f)
       \/ \E r \in Requests : SelectNextCredential(r)
       \/ ToggleAutoRotation
       \/ \E enabled \in BOOLEAN, count \in 1..MaxRotation :
             UpdateSettings(enabled, count)
       \/ \E tok \in Expirable : Expire(tok)
    /\ UNCHANGED refreshVars

(* One coroutine's own steps once it is suspended.                         *)
TaskStep(c) ==
    \/ JoinJob(c) \/ StartJob(c) \/ NextAttempt(c)
    \/ TokenRefused(c) \/ TokenReturned(c)
    \/ AccountsRefused(c) \/ AccountsReturned(c)
    \/ SwitchEnds(c) \/ ModeUpdateEnds(c) \/ Drop(c)

(* The switches a finished task has woken are next in the event loop:      *)
(* nothing comes between them but the end of the process.                  *)
Waking == \E c \in Switches : stage[c] = "woken"

RefreshNext ==
    \/ \E c \in Switches : ResumeSwitch(c)
    \/ \E f \in Files : ~Waking /\ Scan(f)
    \/ \E c \in Tasks : ~Waking /\ TaskStep(c)
    \/ \E c \in Switches, f \in Files :
          ~Waking /\ (WaitToSwitch(c, f) \/ StartSwitch(c, f))
    \/ \E c \in ModeUpdates, f \in Files : ~Waking /\ StartModeUpdate(c, f)
    \/ ~Waking /\ Elsewhere
    \/ ~Waking /\ Shutdown
    \/ RestartAll

RefreshSpec == RefreshInit /\ [][RefreshNext]_allVars

-----------------------------------------------------------------------------
Stages == Running \union Ended
              \union {"idle", "queued", "joined", "waiting", "woken", "probe"}

(* Types of the coroutines' own variables.                                 *)
RefreshTypeOK ==
    /\ TypeOK
    /\ stage \in [Tasks -> Stages]
    /\ target \in [Tasks -> Files \union {None}]
    /\ awaits \in [Tasks -> Tasks \union {None}]
    /\ attempt \in [Tasks -> 0..MaxAttempts]
    /\ refreshed \in [Tasks -> BOOLEAN]
    /\ inflight \in [Files -> Tasks \union {None}]
    /\ stopped \in BOOLEAN
    /\ displaced \in SUBSET Tasks

(* An entry of inflight is a task of that credential, which runs or has    *)
(* just ended: it does not outlive the coroutine that registered it, so no *)
(* refresh or switch gets the outcome of a task long gone.                 *)
InflightFresh ==
    \A f \in Files : ~Free(f) =>
        stage[inflight[f]] \in Running \union Ended /\ target[inflight[f]] = f

(* "singleflight" (tests/test_credential_refresh.py): of the tasks that    *)
(* run on one credential all but the displaced ones are the one in flight, *)
(* also when an earlier one's coroutine removes its entry late.            *)
SingleFlight ==
    /\ InflightFresh
    /\ \A c \in Tasks :
          stage[c] \in Running => inflight[target[c]] = c \/ c \in displaced

(* A refresh asks for the accounts only of content that the directory      *)
(* holds with the pending mark, so that a crash between the two calls      *)
(* leaves something the next scan repairs; unless the credential was       *)
(* changed by somebody else, and the write will be refused.                *)
CrashKeepsMark ==
    \A c \in Tasks :
        stage[c] = "accounts" /\ ~Conflict(snap[c])
                              /\ target[c] \notin torn
            => disk[target[c]] \in Pending

(* "switch waiting for refresh does not escape shutdown", and what runs    *)
(* when shutdown starts is cancelled and awaited: nothing runs afterwards. *)
NothingEscapesShutdown ==
    stopped => \A c \in Tasks : stage[c] \notin Running

(* Nothing but a displaced task does.                                      *)
OnlyDisplacedEscape ==
    stopped => \A c \in Tasks : stage[c] \in Running => c \in displaced

=============================================================================
