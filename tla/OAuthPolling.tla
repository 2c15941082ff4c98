---------------------------- MODULE OAuthPolling -----------------------------
(***************************************************************************)
(* useOAuthPolling: the login dialog of one tab, over the server's         *)
(* handlers and beside other clients of the same users.  What the tab asks *)
(* may be answered after it has given up; AbortController tells it which   *)
(* answers are still its own.                                              *)
(***************************************************************************)
EXTENDS OAuthLogin

CONSTANTS
    TabUser,      \* the user signed in to the tab
    Starters      \* users who start logins

ASSUME TabIsUser == TabUser \in Users
ASSUME StartersAreUsers == Starters \subseteq Users

VARIABLES
    tab,        \* refs and timers of the composable
    promise     \* requests of the tab: "own", or answered and then aborted

tabVars == <<tab, promise>>
allVars == <<vars, tabVars>>

(* reset(): no state, no timers, nothing in flight. *)
Reset == [mode |-> "idle", state |-> None, age |-> 0,
          inFlight |-> FALSE, timer |-> FALSE]

TabInit ==
    /\ Init
    /\ tab = Reset
    /\ promise = [c \in Calls |-> "none"]

(* clearRuntime aborts what is awaited.  An answer that is already there   *)
(* comes all the same; otherwise nobody hears of it, but the server goes   *)
(* on.  The call c, whose answer is being taken, is over.                  *)
Answered(c) == call[c].at \in Answers

AbortNothing(ended) ==
    /\ call' = [c \in Calls |-> IF c \in ended THEN NoCall ELSE call[c]]
    /\ promise' = [c \in Calls |-> IF c \in ended THEN "none" ELSE promise[c]]

Abort(ended) ==
    /\ call' = [c \in Calls |->
          IF c \in ended THEN NoCall
          ELSE IF promise[c] = "own" /\ ~Answered(c)
               THEN [call[c] EXCEPT !.heard = FALSE] ELSE call[c]]
    /\ promise' = [c \in Calls |->
          IF c \in ended \/ promise[c] = "none" \/ ~Answered(c)
          THEN "none" ELSE "aborted"]

(* cancelAndReset: the login the tab followed is to be cancelled. *)
CancelAndReset(mode) ==
    /\ tab' = [Reset EXCEPT !.mode = mode]
    /\ cancels' = cancels \union
         (IF tab.state = None THEN {} ELSE {<<TabUser, tab.state>>})

ResetOnly ==
    /\ tab' = Reset
    /\ UNCHANGED cancels

(* The tab sends a request, in the place of one that is over or anew. *)
Sends(c, what, s) ==
    /\ call' = [call EXCEPT ![c] = [at |-> what, user |-> TabUser,
                                 state |-> s, heard |-> TRUE]]
    /\ promise' = [promise EXCEPT ![c] = "own"]

CurrentOrAborted(c) == promise[c] # "none"

(* isCurrentController: the answer is to a request not aborted since. *)
Current(c) == promise[c] = "own"

Deadline == Ttl   \* expires_in, counted from the answer to start
------------------------------------------------------------------------------
StartLogin(c) ==
    /\ tab.mode = "idle"
    /\ Idle(c)
    /\ tab' = [Reset EXCEPT !.mode = "starting"]
    /\ Sends(c, "start sent", None)
    /\ UNCHANGED <<storeVars, cancels, outcome>>

(* The answer to start: poll at once, reject the answer, or give up. *)
Started(c) ==
    /\ Answered(c) /\ Current(c)
    /\ tab.mode = "starting"
    /\ \/ /\ call[c].at = "started"
          /\ tab' = [Reset EXCEPT !.mode = "polling",
                                  !.state = call[c].state, !.inFlight = TRUE]
          /\ Sends(c, "poll sent", call[c].state)
          /\ UNCHANGED cancels
       \/ /\ call[c].at = "started"
          /\ tab' = Reset
          /\ cancels' = cancels \union {<<TabUser, call[c].state>>}
          /\ Abort({c})
       \/ /\ call[c].at # "started"
          /\ ResetOnly
          /\ Abort({c})
    /\ UNCHANGED <<storeVars, outcome>>

(* The finally of poll(): the next poll, unless the time is up. *)
ScheduleNextPoll ==
    IF tab.age >= Deadline
    THEN CancelAndReset("idle")
    ELSE /\ tab' = [tab EXCEPT !.inFlight = FALSE, !.timer = TRUE]
         /\ UNCHANGED cancels

PollTimer(c) ==
    /\ tab.timer
    /\ tab.mode = "polling" /\ ~tab.inFlight
    /\ IF tab.age >= Deadline
       THEN /\ CancelAndReset("idle")
            /\ Abort({})
       ELSE /\ Idle(c)
            /\ tab' = [tab EXCEPT !.timer = FALSE, !.inFlight = TRUE]
            /\ Sends(c, "poll sent", tab.state)
            /\ UNCHANGED cancels
    /\ UNCHANGED <<storeVars, outcome>>

Settled(c) ==
    /\ call' = [call EXCEPT ![c] = NoCall]
    /\ promise' = [promise EXCEPT ![c] = "none"]

Polled(c) ==
    /\ Answered(c) /\ Current(c)
    /\ tab.mode = "polling"
    /\ \/ /\ call[c].at \in {"saved", "failed"}
          /\ ResetOnly
          /\ Abort({c})
       \/ /\ call[c].at \in {"pending", "lost"}
          /\ ScheduleNextPoll
          /\ Settled(c)
       \/ /\ call[c].at = "refused"
          /\ CancelAndReset("idle")
          /\ Abort({c})
    /\ UNCHANGED <<storeVars, outcome>>

(* The timer of each second finds the time up, also while a poll hangs. *)
Expires ==
    /\ tab.mode = "polling" /\ tab.age >= Deadline
    /\ CancelAndReset("idle")
    /\ Abort({})
    /\ UNCHANGED <<storeVars, outcome>>

(* The user cancels, or leaves the page. *)
GivesUp ==
    /\ \/ tab.mode \in {"starting", "polling"} /\ CancelAndReset("idle")
       \/ tab.mode # "closed" /\ CancelAndReset("closed")
    /\ Abort({})
    /\ UNCHANGED <<storeVars, outcome>>

(* An answer nobody waits for any more. *)
Ignored(c) ==
    /\ promise[c] = "aborted"
    /\ Settled(c)
    /\ UNCHANGED <<tab, storeVars, cancels, outcome>>

TabTick ==
    /\ Tick
    /\ tab' = [tab EXCEPT !.age = IF tab.mode = "polling" /\ @ < Deadline
                                  THEN @ + 1 ELSE @]
    /\ UNCHANGED promise

TabStep ==
    \/ Expires \/ GivesUp
    \/ \E c \in Calls :
          StartLogin(c) \/ Started(c) \/ PollTimer(c) \/ Polled(c) \/ Ignored(c)

TabNext ==
    \/ TabStep
    \/ Server(Starters) /\ UNCHANGED tabVars
    \/ TabTick

TabSpec == TabInit /\ [][TabNext]_allVars
------------------------------------------------------------------------------
(* Types; the tab polls a login exactly while it has its name.             *)
TabTypeOK ==
    /\ TypeOK
    /\ tab \in [mode : {"idle", "starting", "polling", "closed"},
                state : States \union {None}, age : 0..Deadline,
                inFlight : BOOLEAN, timer : BOOLEAN]
    /\ promise \in [Calls -> {"none", "own", "aborted"}]
    /\ (tab.mode = "polling") = (tab.state # None)

(* While it polls the tab has one request under way or one timer running,  *)
(* not both and not neither; otherwise it has no timer and, unless it is   *)
(* starting, awaits nothing (pollInFlight, clearRuntime).                  *)
OnePollAtATime ==
    LET own == {c \in Calls : promise[c] = "own"}
    IN /\ TabTypeOK
       /\ Cardinality(own) =
             IF tab.inFlight \/ tab.mode = "starting" THEN 1 ELSE 0
       /\ tab.mode = "polling" => tab.inFlight # tab.timer
       /\ tab.mode # "polling" => ~tab.inFlight /\ ~tab.timer

(* An answer the tab acts upon is about the login it shows, whatever       *)
(* answers to an earlier one come in late (isCurrentController).           *)
AnswersAreOwn ==
    [][\A c \in Calls :
          Polled(c) /\ call[c].at # "lost" => call[c].state = tab.state]_allVars
==============================================================================
