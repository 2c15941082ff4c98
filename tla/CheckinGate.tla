----------------------------- MODULE CheckinGate -----------------------------
(***************************************************************************)
(* CredentialCheckinManager: the daily check-in of each upstream account,  *)
(* asked for by requests and by the daily cycle, serialised by one gate    *)
(* per account (an asyncio.Condition), and the shutdown that cancels the   *)
(* cycle and waits for the requests.                                       *)
(*                                                                         *)
(* The lock of the condition is never held across an await other than its  *)
(* own wait(), so a claim, all that follows it up to the next await, and a *)
(* release are one step each.  The model is one user's.                    *)
(***************************************************************************)
EXTENDS Naturals

CONSTANTS
    Creds,       \* credentials, in the order of the list
    Accounts,    \* account keys
    Manuals,     \* coroutines of POST .../daily-checkin
    Jobs,        \* the daily cycle's job for each account: [Accounts -> ...]
    ForwardsWakeup,  \* a cancelled Condition.wait notifies somebody else
                     \* (Python 3.13 and later)
    None

Autos == {Jobs[a] : a \in Accounts}

Tasks == Manuals \union Autos

ASSUME CredsOrdered == Creds \subseteq Nat
ASSUME JobsApart ==
    /\ \A a, b \in Accounts : Jobs[a] = Jobs[b] => a = b
    /\ Manuals \intersect Autos = {}
ASSUME NoneIsNothing ==
    None \notin Accounts \union {"manual", "auto", "success", "failed"}
ASSUME ForwardsTyped == ForwardsWakeup \in BOOLEAN

VARIABLES
    owner,         \* the account of each credential, None if not eligible
    enabled,       \* CODEBUDDY_AUTO_CHECKIN_ENABLED of the user
    record,        \* today's record of each account
    active,        \* gate.active, by account
    manualWaiter,  \* gate.manual_waiter
    autoWaiter,    \* gate.auto_waiter
    probing,       \* gate.quota_refresh_barrier is pending
    at,            \* where each coroutine is suspended, with what it still
                   \* needs: its credential, the account it waits for or has
    turn,          \* the job that holds the background pacer
    late,          \* tasks that posted before midnight
    phase          \* of the manager

gateVars == <<active, manualWaiter, autoWaiter, probing>>
taskVars == <<at, turn, late>>
vars == <<owner, enabled, record, gateVars, taskVars, phase>>

Source(c) == IF c \in Manuals THEN "manual" ELSE "auto"

Idle == [stage |-> "idle", cred |-> None, key |-> None]

At(place, k, a) == [stage |-> place, cred |-> k, key |-> a]

Is(c, place) == at[c].stage = place
Init ==
    /\ owner \in [Creds -> Accounts]
    /\ enabled = TRUE
    /\ record = [a \in Accounts |-> None]
    /\ active = [a \in Accounts |-> None]
    /\ manualWaiter = [a \in Accounts |-> FALSE]
    /\ autoWaiter = [a \in Accounts |-> FALSE]
    /\ probing = [a \in Accounts |-> FALSE]
    /\ at = [c \in Tasks |-> Idle]
    /\ turn = None
    /\ late = {}
    /\ phase = "running"

-----------------------------------------------------------------------------
(* _release by c, which goes on to next: everybody who waits is notified.  *)
WaitsFor(d, a) == Is(d, "waiting") /\ at[d].key = a

Notified(d) == [at[d] EXCEPT !.stage = "notified"]

ReleaseUnnotified(c, a, next) ==
    /\ active' = [active EXCEPT ![a] = None]
    /\ at' = [at EXCEPT ![c] = next]

Release(c, a, next) ==
    /\ active' = [active EXCEPT ![a] = None]
    /\ at' = [d \in Tasks |-> IF d = c THEN next
                              ELSE IF WaitsFor(d, a) THEN Notified(d)
                              ELSE at[d]]

(* After the claim of account a for credential k: what was true before the *)
(* wait is looked at again, then the request is sent or the gate released. *)
(* A request that finds the account checked in waits for the quotas.       *)
Refused(c, k, a) ==
    owner[k] # a \/ record[a] = "success" \/ (c \in Autos /\ ~enabled)

Seen(c, k, a) ==
    IF c \in Manuals /\ owner[k] = a /\ probing[a]
      THEN At("barrier", None, a) ELSE Idle

Send(c, a) ==
    /\ active' = [active EXCEPT ![a] = Source(c)]
    /\ at' = [at EXCEPT ![c] = At("posting", None, a)]

SentWithoutLooking(c, k, a) == Send(c, a)

ReturnedAtOnce(c, k, a) ==
    IF Refused(c, k, a) THEN Release(c, a, Idle) ELSE Send(c, a)

Proceed(c, k, a) ==
    IF Refused(c, k, a) THEN Release(c, a, Seen(c, k, a)) ELSE Send(c, a)

-----------------------------------------------------------------------------
(* manual_checkin, _claim: a second request for the account is refused, and *)
(* one waits while a job has the gate or is next.                          *)
ManualCheckin(c, k) ==
    LET a == owner[k] IN
    /\ phase = "running" /\ Is(c, "idle")
    /\ a # None
    /\ active[a] # "manual" /\ ~manualWaiter[a]
    /\ IF active[a] = "auto" \/ autoWaiter[a]
         THEN /\ manualWaiter' = [manualWaiter EXCEPT ![a] = TRUE]
              /\ at' = [at EXCEPT ![c] = At("waiting", k, a)]
              /\ UNCHANGED active
         ELSE Proceed(c, k, a) /\ UNCHANGED manualWaiter
    /\ UNCHANGED <<owner, enabled, record, autoWaiter, probing, turn, late,
                   phase>>

(* run_daily_cycle: one job for each account that is not checked in; after *)
(* a restart accounts that got an answer today may be left out.            *)
Due(a) == (\E k \in Creds : owner[k] = a) /\ record[a] # "success"

FirstOf(a) ==
    CHOOSE k \in Creds : owner[k] = a /\ \A j \in Creds : owner[j] = a => k <= j

RunDailyCycle ==
    /\ phase = "running" /\ enabled
    /\ \A c \in Autos : Is(c, "idle")
    /\ \E answered \in SUBSET {a \in Accounts : record[a] = "failed"} :
         LET due == {a \in Accounts : Due(a)} \ answered
         IN  at' = [c \in Tasks |->
                      IF \E a \in due : c = Jobs[a]
                        THEN At("pacing",
                                FirstOf(CHOOSE a \in due : c = Jobs[a]), None)
                        ELSE at[c]]
    /\ UNCHANGED <<owner, enabled, record, gateVars, turn, late, phase>>

(* automatic_checkin once it has the pacer, which it keeps while it waits  *)
(* for the gate; a job finds the account of its credential anew.           *)
AutoCheckin(c) ==
    LET k == at[c].cred
        a == owner[k]
    IN  /\ Is(c, "pacing") /\ turn = None
        /\ \/ /\ IF a = None THEN TRUE ELSE active[a] = "auto" \/ autoWaiter[a]
              /\ at' = [at EXCEPT ![c] = Idle]
              /\ UNCHANGED <<active, autoWaiter, turn>>
           \/ /\ a # None
              /\ active[a] = "manual" /\ ~autoWaiter[a]
              /\ autoWaiter' = [autoWaiter EXCEPT ![a] = TRUE]
              /\ at' = [at EXCEPT ![c] = At("waiting", k, a)]
              /\ turn' = c
              /\ UNCHANGED active
           \/ /\ a # None
              /\ active[a] = None /\ ~autoWaiter[a]
              /\ Proceed(c, k, a)
              /\ UNCHANGED <<autoWaiter, turn>>
        /\ UNCHANGED <<owner, enabled, record, manualWaiter, probing, late,
                       phase>>

(* A notified coroutine looks again at what it waited for.                 *)
NeverMustWait(c) == FALSE

MustWait(c) ==
    LET a == at[c].key IN
    IF c \in Manuals THEN active[a] = "auto" \/ autoWaiter[a]
                     ELSE active[a] = "manual"

StopsWaiting(c) ==
    /\ IF c \in Manuals
         THEN /\ manualWaiter' = [manualWaiter EXCEPT ![at[c].key] = FALSE]
              /\ UNCHANGED <<autoWaiter, turn>>
         ELSE /\ autoWaiter' = [autoWaiter EXCEPT ![at[c].key] = FALSE]
              /\ turn' = None
              /\ UNCHANGED manualWaiter

WakeUp(c) ==
    /\ Is(c, "notified")
    /\ IF MustWait(c)
         THEN /\ at' = [at EXCEPT ![c].stage = "waiting"]
              /\ UNCHANGED <<active, manualWaiter, autoWaiter, turn>>
         ELSE StopsWaiting(c) /\ Proceed(c, at[c].cred, at[c].key)
    /\ UNCHANGED <<owner, enabled, record, probing, late, phase>>

-----------------------------------------------------------------------------
(* _perform_checkin: the answer is recorded under the day the request was  *)
(* made, a new credit starts the account's quota probes, and the gate is   *)
(* released; saving the record may raise.                                  *)
Answers == {"success", "failed"}

PostEnds(c) ==
    LET a == at[c].key IN
    /\ Is(c, "posting")
    /\ late' = late \ {c}
    /\ \/ /\ UNCHANGED <<record, probing>>
          /\ Release(c, a, Idle)
       \/ \E answer \in Answers, credit \in BOOLEAN :
             /\ credit => answer = "success"
             /\ record' = [record EXCEPT ![a] =
                              IF c \in late THEN None ELSE answer]
             /\ probing' = [probing EXCEPT ![a] = @ \/ credit]
             /\ Release(c, a, IF c \in Manuals /\ credit
                                THEN At("barrier", None, a) ELSE Idle)
    /\ UNCHANGED <<owner, enabled, manualWaiter, autoWaiter, turn, phase>>

(* The account's quota probes are done.                                    *)
ProbesEnd(a) ==
    /\ probing[a]
    /\ probing' = [probing EXCEPT ![a] = FALSE]
    /\ at' = [c \in Tasks |->
          IF at[c] = At("barrier", None, a) THEN Idle ELSE at[c]]
    /\ UNCHANGED <<owner, enabled, record, active, manualWaiter, autoWaiter,
                   turn, late, phase>>

-----------------------------------------------------------------------------
(* shutdown: the cycle and its jobs are cancelled, a job that posts        *)
(* releases its gate; then the requests are waited for.                    *)
Shutdown ==
    LET gone == {c \in Autos : ~Is(c, "idle")}
        freed == {at[c].key : c \in {d \in gone : Is(d, "posting")}}
        left == {at[c].key :
                   c \in {d \in gone : Is(d, "waiting") \/ Is(d, "notified")}}
        woken == freed \union (IF ForwardsWakeup THEN left ELSE {})
    IN  /\ phase = "running"
        /\ phase' = "stopping"
        /\ at' = [c \in Tasks |->
              IF c \in gone THEN Idle
              ELSE IF Is(c, "waiting") /\ at[c].key \in woken THEN Notified(c)
              ELSE at[c]]
        /\ active' = [a \in Accounts |-> IF a \in freed THEN None ELSE active[a]]
        /\ autoWaiter' = [a \in Accounts |-> FALSE]
        /\ turn' = None
        /\ late' = late \ gone
        /\ UNCHANGED <<owner, enabled, record, manualWaiter, probing>>

ShutdownReturns ==
    /\ phase = "stopping"
    /\ \A c \in Tasks : Is(c, "idle")
    /\ phase' = "stopped"
    /\ probing' = [a \in Accounts |-> FALSE]
    /\ UNCHANGED <<owner, enabled, record, active, manualWaiter, autoWaiter,
                   taskVars>>

Startup ==
    /\ phase = "stopped"
    /\ phase' = "running"
    /\ UNCHANGED <<owner, enabled, record, gateVars, taskVars>>

-----------------------------------------------------------------------------
(* A credential is switched to another account, deleted, expires or is     *)
(* refreshed; the user turns the cycle on or off; midnight.                *)
Rebind(k, a) ==
    /\ owner' = [owner EXCEPT ![k] = a]
    /\ UNCHANGED <<enabled, record, gateVars, taskVars, phase>>

ToggleAuto ==
    /\ enabled' = ~enabled
    /\ UNCHANGED <<owner, record, gateVars, taskVars, phase>>

Midnight ==
    /\ record' = [a \in Accounts |-> None]
    /\ late' = {c \in Tasks : Is(c, "posting")}
    /\ UNCHANGED <<owner, enabled, gateVars, at, turn, phase>>

TaskStep(c) == WakeUp(c) \/ PostEnds(c)

Next ==
    \/ \E c \in Manuals, k \in Creds : ManualCheckin(c, k)
    \/ RunDailyCycle
    \/ \E c \in Autos : AutoCheckin(c)
    \/ \E c \in Tasks : TaskStep(c)
    \/ \E a \in Accounts : ProbesEnd(a)
    \/ Shutdown \/ ShutdownReturns \/ Startup
    \/ \E k \in Creds, a \in Accounts \union {None} : Rebind(k, a)
    \/ ToggleAuto
    \/ Midnight

Spec == Init /\ [][Next]_vars

(* The event loop runs what is ready; requests upstream have timeouts.     *)
FairSpec ==
    /\ Spec
    /\ \A c \in Tasks : WF_vars(TaskStep(c))
    /\ \A a \in Accounts : WF_vars(ProbesEnd(a))
    /\ WF_vars(ShutdownReturns)

-----------------------------------------------------------------------------
Stages == {"idle", "pacing", "waiting", "notified", "posting", "barrier"}

(* Types; a waiter's flag is up exactly while one waits.                   *)
TypeOK ==
    /\ owner \in [Creds -> Accounts \union {None}]
    /\ enabled \in BOOLEAN
    /\ record \in [Accounts -> Answers \union {None}]
    /\ active \in [Accounts -> {"manual", "auto", None}]
    /\ probing \in [Accounts -> BOOLEAN]
    /\ at \in [Tasks -> [stage : Stages, cred : Creds \union {None},
                        key : Accounts \union {None}]]
    /\ turn \in Autos \union {None}
    /\ late \in SUBSET Tasks
    /\ phase \in {"running", "stopping", "stopped"}
    /\ \A a \in Accounts :
          LET waits(c) ==
                at[c].key = a /\ (Is(c, "waiting") \/ Is(c, "notified"))
          IN  /\ manualWaiter[a] = \E c \in Manuals : waits(c)
              /\ autoWaiter[a] = \E c \in Autos : waits(c)

(* Whoever waits for the gate has somebody who will notify it: one that    *)
(* holds the gate or that is about to.                                     *)
WaiterHasWaker ==
    \A c \in Tasks :
        Is(c, "waiting") =>
            \/ active[at[c].key] # None
            \/ \E d \in Autos : at[d].key = at[c].key /\ Is(d, "notified")

(* "Serialised by upstream account": of the requests and jobs, through all *)
(* their credentials, one at a time asks the account's check-in, and the   *)
(* gate says whose it is; and no wake-up is lost.                          *)
OneAtATime ==
    /\ TypeOK
    /\ \A c, d \in Tasks :
          Is(c, "posting") =>
              /\ active[at[c].key] = Source(c)
              /\ Is(d, "posting") /\ at[d].key = at[c].key => d = c
    /\ WaiterHasWaker

(* An account that is checked in is not asked again that day, whatever was *)
(* waiting when it was.                                                    *)
OncePerDay ==
    \A c \in Tasks :
        Is(c, "posting") /\ c \notin late => record[at[c].key] # "success"

(* "Manual waiting for successful auto waits for its quota refresh": a     *)
(* request that waited and finds the account checked in ends only when the *)
(* account's quotas have been refreshed.                                   *)
AnswersAfterProbes ==
    [][\A c \in Manuals :
          /\ Is(c, "notified") /\ at'[c] = Idle
          /\ record[at[c].key] = "success"
          /\ owner[at[c].cred] = at[c].key
          => ~probing[at[c].key]]_vars

(* "Shutdown waits for public checkin before clearing gates", and returns. *)
ShutdownEnds == phase = "stopping" ~> phase = "stopped"
=============================================================================
