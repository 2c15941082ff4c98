----------------------------- MODULE OAuthLogin ------------------------------
(***************************************************************************)
(* The server's side of the CodeBuddy login: AuthStateStore and the        *)
(* handlers /auth/start, /auth/poll and /auth/cancel.  A handler is one    *)
(* coroutine; each step is what it does between two awaits.                *)
(*                                                                         *)
(* Times are ages: what was written t ticks ago has age t, counted up to   *)
(* where the code no longer distinguishes it.                              *)
(***************************************************************************)
EXTENDS Naturals, Sequences, FiniteSets

CONSTANTS
    Users,
    States,          \* names upstream gives to logins (auth_state)
    Calls,           \* HTTP requests to /auth/start and /auth/poll
    MaxActive,       \* AUTH_MAX_ACTIVE_PER_USER
    MaxAttempts,     \* AUTH_MAX_START_ATTEMPTS
    Ttl,             \* AUTH_STATE_TTL_SECONDS
    Window,          \* AUTH_START_WINDOW_SECONDS
    None

ASSUME LimitsPositive ==
    /\ MaxActive \in Nat \ {0} /\ MaxAttempts \in Nat \ {0}
    /\ Ttl \in Nat \ {0} /\ Window \in Nat \ {0}
ASSUME SetsFinite == IsFiniteSet(States) /\ IsFiniteSet(Calls)
ASSUME CallsNumbered == Calls \subseteq Nat   \* only to take the first idle one

(* The owner of a login. *)
Owner == [user : Users, age : 0..Ttl, consumed : BOOLEAN, progress : BOOLEAN]

ASSUME NoneIsNothing ==
    None \notin States \union Users \union 0..Ttl \union Owner

VARIABLES
    owners,     \* _owners: user, age, consumed, progress of each state
    starting,   \* _starting: age of the reservation of each call
    attempts,   \* _start_attempts: ages of the recent starts of each user
    call,       \* where each request is, whose, about which login, and
                \* whether anybody waits for the answer
    cancels,    \* requests to /auth/cancel under way
    outcome     \* history: credentials stored of each login, and for whom

storeVars == <<owners, starting, attempts>>
vars == <<owners, starting, attempts, call, cancels, outcome>>

NoCall == [at |-> "none", user |-> None, state |-> None, heard |-> FALSE]
NoOutcome == [saves |-> 0, for |-> None]

Init ==
    /\ owners = [s \in States |-> None]
    /\ starting = [c \in Calls |-> None]
    /\ attempts = [u \in Users |-> <<>>]
    /\ call = [c \in Calls |-> NoCall]
    /\ cancels = {}
    /\ outcome = [s \in States |-> NoOutcome]
------------------------------------------------------------------------------
(* The attempts that will still be in the window a second later: they are  *)
(* kept in the order they came in, so that the first ones go.              *)
Aged(u) == {i \in DOMAIN attempts[u] : attempts[u][i] + 1 >= Window}

Recent(u) == SubSeq(attempts[u], Cardinality(Aged(u)) + 1, Len(attempts[u]))

Pending(u, s) ==
    /\ owners[s] # None
    /\ owners[s].user = u
    /\ ~owners[s].consumed

ActiveOf(u) ==
    Cardinality({s \in States : Pending(u, s)})
        + Cardinality({c \in Calls : starting[c] # None /\ call[c].user = u})

ConsumeNothing(s) == UNCHANGED owners

Consume(s) ==
    owners' = [owners EXCEPT ![s].consumed = TRUE,
                             ![s].progress = FALSE, ![s].age = 0]

(* A second passes.  cleanup_expired is the first thing every method of    *)
(* the store does, so that nothing is seen past its age: it goes here.     *)
Older(age, last) == IF age = None \/ age >= last THEN None ELSE age + 1

Tick ==
    LET expired == {s \in States : owners[s] # None /\ owners[s].age >= Ttl}
    IN /\ owners' = [s \in States |->
                       IF owners[s] = None \/ s \in expired THEN None
                       ELSE [owners[s] EXCEPT !.age = @ + 1]]
       /\ outcome' = [s \in States |->
                        IF s \in expired THEN NoOutcome ELSE outcome[s]]
       /\ starting' = [c \in Calls |-> Older(starting[c], Ttl)]
       /\ attempts' = [u \in Users |->
              [i \in DOMAIN Recent(u) |-> Recent(u)[i] + 1]]
       /\ UNCHANGED <<call, cancels>>
------------------------------------------------------------------------------
(* A request comes from the tab, which sent it before, or from a client    *)
(* that calls the API as it likes and need not hear the answer.            *)
Idle(c) == call[c].at = "none" /\ \A d \in Calls : call[d].at = "none" => c <= d

Arrives(c, what, u, s) ==
    \/ call[c].at = what /\ call[c].user = u /\ call[c].state = s
    \/ Idle(c)

Goes(c, where, u, s) ==
    call' = [call EXCEPT ![c] = [at |-> where, user |-> u, state |-> s,
                                 heard |-> call[c].heard]]

Reply(c, answer, s) ==
    call' = [call EXCEPT ![c] =
        IF call[c].heard
        THEN [call[c] EXCEPT !.at = answer, !.state = s] ELSE NoCall]

(* /auth/start.  A refused start is an attempt too, unless it was refused  *)
(* for the attempts.                                                       *)
BeginStart(c, u) ==
    /\ Arrives(c, "start sent", u, None)
    /\ \/ /\ Len(attempts[u]) >= MaxAttempts
          /\ Reply(c, "limited", None)
          /\ UNCHANGED storeVars
       \/ /\ Len(attempts[u]) < MaxAttempts
          /\ attempts' = [attempts EXCEPT ![u] = Append(@, 0)]
          /\ IF ActiveOf(u) >= MaxActive
             THEN /\ Reply(c, "limited", None)
                  /\ UNCHANGED starting
             ELSE /\ Goes(c, "starting", u, None)
                  /\ starting' = [starting EXCEPT ![c] = 0]
          /\ UNCHANGED owners
    /\ UNCHANGED <<cancels, outcome>>

(* Upstream has named the login; the reservation becomes its owner.  The   *)
(* reservation may have expired and the name may still be taken.           *)
FinishStart(c, s) ==
    /\ call[c].at = "starting"
    /\ starting' = [starting EXCEPT ![c] = None]
    /\ IF starting[c] = None \/ owners[s] # None
       THEN /\ Reply(c, "not started", None)
            /\ UNCHANGED owners
       ELSE /\ owners' = [owners EXCEPT ![s] =
                    [user |-> call[c].user, age |-> 0,
                     consumed |-> FALSE, progress |-> FALSE]]
            /\ Reply(c, "started", s)
    /\ UNCHANGED <<attempts, cancels, outcome>>

(* Upstream refuses or does not answer, or the handler is cancelled. *)
StartFails(c) ==
    /\ call[c].at = "starting"
    /\ starting' = [starting EXCEPT ![c] = None]
    /\ Reply(c, "not started", None)
    /\ UNCHANGED <<owners, attempts, cancels, outcome>>
------------------------------------------------------------------------------
(* /auth/poll.  The progress is read together with the check of the owner. *)
BeginPoll(c, u, s) ==
    /\ Arrives(c, "poll sent", u, s)
    /\ IF Pending(u, s)
       THEN Goes(c, IF owners[s].progress THEN "account" ELSE "token", u, s)
       ELSE Reply(c, "refused", s)
    /\ UNCHANGED <<storeVars, cancels, outcome>>

(* Upstream gives the token, or the account: the next request is sent. *)
StageOk(c) ==
    /\ \/ /\ call[c].at = "token"
          /\ call' = [call EXCEPT ![c].at = "account"]
       \/ /\ call[c].at = "account"
          /\ call' = [call EXCEPT ![c].at = "accounts"]
    /\ UNCHANGED <<storeVars, cancels, outcome>>

(* What poll_status may answer short of success, and whether it brings     *)
(* progress to keep: "refused" stands for the business errors (403),       *)
(* "failed" for 502 and 503.                                               *)
Unsuccessful(stage) ==
    CASE stage = "token"    -> {"pending", "refused", "failed"} \X {FALSE}
      [] stage = "account"  -> {<<"pending", TRUE>>, <<"failed", TRUE>>,
                                <<"failed", FALSE>>, <<"refused", FALSE>>}
      [] stage = "accounts" -> {<<"pending", TRUE>>, <<"failed", TRUE>>,
                                <<"failed", FALSE>>, <<"refused", FALSE>>}
      [] OTHER              -> {}

(* set_progress: only for a login that is still pending. *)
ProgressAnyway(u, s) == owners[s] # None

MayProgress(u, s) == Pending(u, s)

PollEnds(c, answer, progress) ==
    LET s == call[c].state
    IN /\ <<answer, progress>> \in Unsuccessful(call[c].at)
       /\ owners' = IF progress /\ MayProgress(call[c].user, s)
                    THEN [owners EXCEPT ![s].progress = TRUE] ELSE owners
       /\ Reply(c, answer, s)
       /\ UNCHANGED <<starting, attempts, cancels, outcome>>

(* The last answer has come: consume, then save, without an await between  *)
(* them.  The save may fail; the login is consumed all the same.           *)
PollSucceeds(c, stored) ==
    LET u == call[c].user
        s == call[c].state
    IN /\ call[c].at = "accounts"
       /\ IF Pending(u, s)
          THEN /\ Consume(s)
               /\ outcome' = [outcome EXCEPT ![s] =
                     IF stored THEN [saves |-> @.saves + 1, for |-> u] ELSE @]
               /\ Reply(c, IF stored THEN "saved" ELSE "failed", s)
          ELSE /\ Reply(c, "refused", s)
               /\ UNCHANGED <<owners, outcome>>
       /\ UNCHANGED <<starting, attempts, cancels>>

(* /auth/cancel consumes the login without storing anything. *)
CancelAuth(u, s) ==
    /\ IF Pending(u, s) THEN Consume(s) ELSE UNCHANGED owners
    /\ UNCHANGED <<starting, attempts, call, outcome>>

CancelArrives(u, s) ==
    /\ <<u, s>> \in cancels
    /\ cancels' = cancels \ {<<u, s>>}
    /\ CancelAuth(u, s)
------------------------------------------------------------------------------
(* The network: a request may be lost, and so may the answer. *)
RequestLost(c) ==
    /\ call[c].heard /\ call[c].at \in {"start sent", "poll sent"}
    /\ Reply(c, "lost", None)
    /\ UNCHANGED <<storeVars, cancels, outcome>>

CancelLost(u, s) ==
    /\ <<u, s>> \in cancels
    /\ cancels' = cancels \ {<<u, s>>}
    /\ UNCHANGED <<storeVars, call, outcome>>

Answers == {"limited", "not started", "started", "pending", "refused",
            "failed", "saved", "lost"}

AnswerLost(c) ==
    /\ call[c].heard /\ call[c].at \in Answers \ {"lost"}
    /\ Reply(c, "lost", None)
    /\ UNCHANGED <<storeVars, cancels, outcome>>


Upstream(c) ==
    \/ \E s \in States : FinishStart(c, s)
    \/ StartFails(c)
    \/ StageOk(c)
    \/ \E answer \in {"pending", "refused", "failed"}, progress \in BOOLEAN :
           PollEnds(c, answer, progress)
    \/ \E stored \in BOOLEAN : PollSucceeds(c, stored)

ClientCancels(u, s) == CancelAuth(u, s) /\ UNCHANGED cancels

Server(starters) ==
    \/ \E c \in Calls, u \in starters : BeginStart(c, u)
    \/ \E c \in Calls, u \in Users, s \in States : BeginPoll(c, u, s)
    \/ \E c \in Calls : Upstream(c) \/ RequestLost(c) \/ AnswerLost(c)
    \/ \E u \in Users, s \in States :
          CancelArrives(u, s) \/ CancelLost(u, s) \/ ClientCancels(u, s)
------------------------------------------------------------------------------
(* What became of each login.  A credential stored twice is no state of    *)
(* LoginOnce.                                                              *)
LoginOf(s) ==
    IF owners[s] = None THEN [phase |-> "none", user |-> "nobody"]
    ELSE IF outcome[s].saves > 0
    THEN [phase |-> IF outcome[s].saves = 1 THEN "saved" ELSE "saved again",
          user  |-> outcome[s].for]
    ELSE [phase |-> IF owners[s].consumed THEN "dropped" ELSE "open",
          user  |-> owners[s].user]

Once == INSTANCE LoginOnce WITH login <- [s \in States |-> LoginOf(s)]
------------------------------------------------------------------------------
Stages == {"none", "start sent", "starting", "poll sent", "token",
           "account", "accounts"} \union Answers

(* Types. *)
TypeOK ==
    /\ owners \in [States -> {None} \union Owner]
    /\ starting \in [Calls -> {None} \union 0..Ttl]
    /\ attempts \in [Users -> Seq(0..(Window - 1))]
    /\ call \in [Calls -> [at : Stages, user : Users \union {None},
                           state : States \union {None}, heard : BOOLEAN]]
    /\ cancels \subseteq Users \X States
    /\ outcome \in [States -> [saves : Nat, for : Users \union {None}]]

(* Never more than MaxActive logins of a user are open or being started,   *)
(* and never more than MaxAttempts of its starts are in a window; a        *)
(* consumed login keeps no token (begin_start, consume, set_progress).     *)
LimitsHold ==
    /\ \A u \in Users :
          /\ ActiveOf(u) <= MaxActive
          /\ Len(attempts[u]) <= MaxAttempts
    /\ \A s \in States :
          owners[s] # None /\ owners[s].consumed => ~owners[s].progress

(* A login ends once: in one credential, of the user who opened it, or in  *)
(* none, however polls, cancellations, expiry and names used again         *)
(* interleave (consume before save, the tombstones of consumed logins).    *)
LoginEndsOnce == Once!Spec
==============================================================================
