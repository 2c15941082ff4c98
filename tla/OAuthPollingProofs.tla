-------------------------- MODULE OAuthPollingProofs --------------------------
(***************************************************************************)
(* Proofs about the OAuth login for any users, logins, requests and limits: *)
(* the server and its clients implement LoginOnce, whatever the tab does.  *)
(***************************************************************************)
EXTENDS OAuthPolling, FiniteSetTheorems, SequenceTheorems, TLAPS

-----------------------------------------------------------------------------
(* Where a request is before its first answer from the store, or from      *)
(* upstream.                                                               *)
Busy == {"starting", "token", "account", "accounts"}

Types ==
    /\ owners \in [States -> {None} \union Owner]
    /\ starting \in [Calls -> {None} \union 0..Ttl]
    /\ call \in [Calls -> [at : Stages, user : Users \union {None},
                           state : States \union {None}, heard : BOOLEAN]]
    /\ outcome \in [States -> [saves : Nat, for : Users \union {None}]]
    /\ tab \in [mode : {"idle", "starting", "polling", "closed"},
                state : States \union {None}, age : 0..Deadline,
                inFlight : BOOLEAN, timer : BOOLEAN]
    /\ promise \in [Calls -> {"none", "own", "aborted"}]

(* Only a start under way has a reservation; what waits for upstream is    *)
(* somebody's, and a poll about some login.                                *)
Named ==
    \A c \in Calls :
        /\ starting[c] # None => call[c].at = "starting"
        /\ call[c].at \in Busy => call[c].user \in Users
        /\ call[c].at \in Busy \ {"starting"} => call[c].state \in States
        /\ promise[c] = "aborted" => Answered(c)

(* A credential is stored at most once of each login, of one that has been *)
(* consumed, and for its user.                                             *)
Stored ==
    \A s \in States :
        /\ owners[s] = None => outcome[s] = NoOutcome
        /\ outcome[s].saves \in {0, 1}
        /\ outcome[s].saves = 1 =>
              owners[s].consumed /\ outcome[s].for = owners[s].user

(* The places of a user that are taken.                                    *)
Opens(u) == {s \in States : Pending(u, s)}

Starts(u) == {c \in Calls : starting[c] # None /\ call[c].user = u}

Limited == \A u \in Users : ActiveOf(u) <= MaxActive

LoginInv == Types /\ Named /\ Stored /\ Limited

(* What the assumptions say of the limits.                                 *)
LEMMA LimitsAre ==
    MaxActive \in Nat /\ Ttl \in Nat /\ 0 \in 0..Ttl /\ 0 # None
<1>1. MaxActive \in Nat /\ Ttl \in Nat
  BY LimitsPositive
<1>2. 0 \in 0..Ttl
  BY <1>1
<1> QED
  BY <1>1, <1>2, NoneIsNothing

(* There is room for one more below a limit.                               *)
LEMMA OneMoreFits ==
    ASSUME NEW m \in Nat, NEW n \in Nat, NEW limit \in Nat, m + n < limit
    PROVE  m + (n + 1) <= limit
OBVIOUS

(* They are finitely many.                                                 *)
LEMMA Places ==
    ASSUME NEW u
    PROVE  /\ IsFiniteSet(Opens(u)) /\ Cardinality(Opens(u)) \in Nat
           /\ IsFiniteSet(Starts(u)) /\ Cardinality(Starts(u)) \in Nat
           /\ ActiveOf(u) = Cardinality(Opens(u)) + Cardinality(Starts(u))
<1>1. Opens(u) \in SUBSET States /\ Starts(u) \in SUBSET Calls
  BY DEF Opens, Starts
<1>2. IsFiniteSet(Opens(u)) /\ IsFiniteSet(Starts(u))
  BY <1>1, SetsFinite, FS_Subset
<1> QED
  BY <1>2, FS_CardinalityType DEF ActiveOf, Opens, Starts

(* A user who has no place more than before is within the limit.           *)
LEMMA FewerPlaces ==
    ASSUME Limited,
           \A u \in Users : Opens(u)' \subseteq Opens(u)
                            /\ Starts(u)' \subseteq Starts(u)
    PROVE  Limited'
<1> SUFFICES ASSUME NEW u \in Users PROVE (ActiveOf(u) <= MaxActive)'
  BY DEF Limited
<1>1. Cardinality(Opens(u)') <= Cardinality(Opens(u))
  BY Places, FS_Subset
<1>2. Cardinality(Starts(u)') <= Cardinality(Starts(u))
  BY Places, FS_Subset
<1>3. /\ Cardinality(Opens(u)') \in Nat /\ Cardinality(Starts(u)') \in Nat
      /\ ActiveOf(u)' = Cardinality(Opens(u)') + Cardinality(Starts(u)')
  BY <1>1, Places, SetsFinite, FS_Subset, FS_CardinalityType
     DEF ActiveOf, Opens, Starts
<1>4. ActiveOf(u) <= MaxActive
  BY DEF Limited
<1> QED
  BY <1>1, <1>2, <1>3, <1>4, Places, LimitsPositive

-----------------------------------------------------------------------------
(* What LoginOnce sees of the logins.                                      *)
Login == [s \in States |-> LoginOf(s)]

CallType == [at : Stages, user : Users \union {None},
             state : States \union {None}, heard : BOOLEAN]

TabType == [mode : {"idle", "starting", "polling", "closed"},
            state : States \union {None}, age : 0..Deadline,
            inFlight : BOOLEAN, timer : BOOLEAN]

(* Requests move, reservations end, owners stay.                           *)
LEMMA RequestsMove ==
    ASSUME LoginInv, UNCHANGED <<owners, outcome>>,
           call' \in [Calls -> CallType], tab' \in TabType,
           promise' \in [Calls -> {"none", "own", "aborted"}],
           starting' \in [Calls -> {None} \union 0..Ttl],
           \A c \in Calls :
              /\ starting'[c] # None => /\ starting[c] # None
                                        /\ call'[c].at = "starting"
                                        /\ call'[c].user = call[c].user
              /\ call'[c].at \in Busy => call'[c].user \in Users
              /\ call'[c].at \in Busy \ {"starting"} => call'[c].state \in States
              /\ promise'[c] = "aborted" => call'[c].at \in Answers
    PROVE  LoginInv' /\ Login' = Login
<1> USE DEF LoginInv
<1>1. Types'
  BY DEF Types, CallType, TabType
<1>2. Named'
  BY DEF Named, Answered
<1>3. Stored'
  BY DEF Stored
<1>4. Limited'
  <2>1. ASSUME NEW u \in Users
        PROVE  Opens(u)' \subseteq Opens(u) /\ Starts(u)' \subseteq Starts(u)
    BY DEF Opens, Starts, Pending
  <2> QED
    BY <2>1, FewerPlaces
<1>5. Login' = Login
  BY DEF Login, LoginOf
<1> QED
  BY <1>1, <1>2, <1>3, <1>4, <1>5

(* One request moves, and the tab does nothing.                            *)
LEMMA OneMoves ==
    ASSUME LoginInv, NEW c \in Calls, UNCHANGED <<owners, outcome, tabVars>>,
           NEW v \in CallType, call' = [call EXCEPT ![c] = v],
           starting' \in {starting, [starting EXCEPT ![c] = None]},
           call[c].at = "starting" => starting' # starting \/ starting[c] = None,
           v.at # "starting",
           v.at \in Busy => v.user \in Users /\ v.state \in States,
           call[c].at \in Answers => v.at \in Answers
    PROVE  LoginInv' /\ Login' = Login
<1> USE DEF LoginInv
<1>1. \A d \in Calls : call'[d] = IF d = c THEN v ELSE call[d]
  BY DEF Types
<1>2. /\ call' \in [Calls -> CallType]
      /\ starting' \in [Calls -> {None} \union 0..Ttl]
  BY DEF Types, CallType
<1>3. starting'[c] = None
  BY DEF Types, Named
<1>4. \A d \in Calls : d # c => starting'[d] = starting[d]
  BY DEF Types
<1>5. tab' \in TabType /\ promise' \in [Calls -> {"none", "own", "aborted"}]
  BY DEF Types, TabType, tabVars
<1>6. \A d \in Calls : promise'[d] = "aborted" => call'[d].at \in Answers
  BY <1>1 DEF Named, Answered, tabVars
<1>7. \A d \in Calls :
        /\ starting'[d] # None => /\ starting[d] # None
                                  /\ call'[d].at = "starting"
                                  /\ call'[d].user = call[d].user
        /\ call'[d].at \in Busy => call'[d].user \in Users
        /\ call'[d].at \in Busy \ {"starting"} => call'[d].state \in States
  BY <1>1, <1>3, <1>4 DEF Named
<1> QED
  BY <1>2, <1>5, <1>6, <1>7, RequestsMove

(* What a request that is answered becomes.                                *)
Replied(c, answer, s) ==
    IF call[c].heard THEN [call[c] EXCEPT !.at = answer, !.state = s] ELSE NoCall

(* An answer, whether or not anybody hears it.                             *)
LEMMA ReplyIs ==
    ASSUME LoginInv, NEW c \in Calls, NEW answer \in Answers,
           NEW s \in States \union {None}
    PROVE  /\ Replied(c, answer, s) \in CallType
           /\ Replied(c, answer, s).at \in Answers \union {"none"}
           /\ Replied(c, answer, s).at \notin Busy
           /\ call[c].heard => Replied(c, answer, s).at = answer
<1>1. call[c] \in CallType
  BY DEF LoginInv, Types, CallType
<1>2. answer \notin Busy /\ "none" \notin Busy
  BY DEF Answers, Busy
<1>3. NoCall \in CallType
  BY DEF NoCall, CallType, Stages
<1> QED
  BY <1>1, <1>2, <1>3 DEF Replied, CallType, NoCall, Stages

(* A request is answered and nothing else happens.                         *)
LEMMA ReplyKeeps ==
    ASSUME LoginInv, NEW c \in Calls, NEW answer \in Answers,
           NEW s \in States \union {None}, Reply(c, answer, s),
           UNCHANGED <<owners, outcome, tabVars>>,
           starting' \in {starting, [starting EXCEPT ![c] = None]},
           call[c].at = "starting" => starting' # starting \/ starting[c] = None,
           call[c].at \in Answers => call[c].heard
    PROVE  LoginInv' /\ Login' = Login
<1> DEFINE v == Replied(c, answer, s)
<1>1. call' = [call EXCEPT ![c] = v]
  BY DEF Reply, Replied
<1>2. /\ v \in CallType /\ v.at \notin Busy
      /\ call[c].heard => v.at = answer
  BY ReplyIs
<1>3. v.at # "starting" /\ (call[c].at \in Answers => v.at \in Answers)
  BY <1>2 DEF Busy
<1> HIDE DEF v
<1> QED
  BY <1>1, <1>2, <1>3, OneMoves

-----------------------------------------------------------------------------
(* The tab: its requests are none that the server works on, or stay where  *)
(* they are.                                                               *)
TabMove(v, w) ==
    \/ v.at = w.at /\ v.user = w.user /\ v.state = w.state
    \/ v.at \notin Busy /\ w.at \notin Busy

(* A step of the tab as far as the server knows.                           *)
LEMMA TabMoves ==
    ASSUME LoginInv, UNCHANGED <<storeVars, outcome>>,
           call' \in [Calls -> CallType], tab' \in TabType,
           promise' \in [Calls -> {"none", "own", "aborted"}],
           \A c \in Calls : /\ TabMove(call[c], call'[c])
                            /\ promise'[c] = "aborted" => Answered(c)'
    PROVE  LoginInv' /\ Login' = Login
<1>1. \A c \in Calls :
        /\ starting'[c] # None => /\ starting[c] # None
                                  /\ call'[c].at = "starting"
                                  /\ call'[c].user = call[c].user
        /\ call'[c].at \in Busy => call'[c].user \in Users
        /\ call'[c].at \in Busy \ {"starting"} => call'[c].state \in States
  BY DEF LoginInv, Named, TabMove, Busy, storeVars
<1>2. starting' \in [Calls -> {None} \union 0..Ttl]
  BY DEF LoginInv, Types, storeVars
<1> QED
  BY <1>1, <1>2, RequestsMove DEF storeVars, Answered

(* What the tab does with its requests.                                    *)
Touched ==
    /\ call' \in [Calls -> CallType]
    /\ promise' \in [Calls -> {"none", "own", "aborted"}]
    /\ \A c \in Calls : /\ TabMove(call[c], call'[c])
                        /\ promise'[c] = "aborted" => Answered(c)'

(* It aborts them.                                                         *)
LEMMA AbortTouches ==
    ASSUME LoginInv, NEW ended \in SUBSET Calls, Abort(ended),
           \A c \in ended : Answered(c)
    PROVE  Touched
<1> USE DEF LoginInv, Types
<1>1. NoCall \in CallType /\ NoCall.at \notin Busy /\ "none" \notin Busy
  BY DEF NoCall, CallType, Stages, Busy
<1>2. \A c \in Calls : call[c] \in CallType
  BY DEF CallType
<1>3. \A c \in Calls : [call[c] EXCEPT !.heard = FALSE] \in CallType
  BY <1>2, Zenon DEF CallType
<1>4. call' \in [Calls -> CallType]
  BY <1>1, <1>2, <1>3 DEF Abort
<1>5. promise' \in [Calls -> {"none", "own", "aborted"}]
  BY DEF Abort
<1>6. \A c \in Answers : c \notin Busy
  BY DEF Answers, Busy
<1>7. ASSUME NEW c \in Calls PROVE TabMove(call[c], call'[c])
  <2>1. CASE c \in ended
    BY <2>1, <1>1, <1>6 DEF Abort, TabMove, Answered
  <2>2. CASE c \notin ended
    BY <2>2, <1>2 DEF Abort, TabMove, CallType
  <2> QED
    BY <2>1, <2>2
<1>8. ASSUME NEW c \in Calls, promise'[c] = "aborted" PROVE Answered(c)'
  <2>1. c \notin ended /\ Answered(c)
    BY <1>8 DEF Abort
  <2> QED
    BY <2>1 DEF Abort, Answered
<1> QED
  BY <1>4, <1>5, <1>7, <1>8 DEF Touched

(* It sends one.                                                           *)
LEMMA SendTouches ==
    ASSUME LoginInv, NEW c \in Calls, NEW what \in {"start sent", "poll sent"},
           NEW s \in States \union {None}, Sends(c, what, s),
           call[c].at \notin Busy
    PROVE  Touched
<1> USE DEF LoginInv, Types
<1> DEFINE v == [at |-> what, user |-> TabUser, state |-> s, heard |-> TRUE]
<1>1. v \in CallType /\ v.at \notin Busy
  BY TabIsUser DEF CallType, Stages, Busy
<1>2. call' = [call EXCEPT ![c] = v] /\ promise' = [promise EXCEPT ![c] = "own"]
  BY DEF Sends
<1> HIDE DEF v
<1>3. call' \in [Calls -> CallType]
  BY <1>1, <1>2 DEF CallType
<1>4. promise' \in [Calls -> {"none", "own", "aborted"}]
  BY <1>2
<1>5. \A d \in Calls : TabMove(call[d], call'[d])
  BY <1>1, <1>2 DEF TabMove
<1>6. \A d \in Calls : promise'[d] = "aborted" => Answered(d)'
  BY <1>2 DEF Answered, Named
<1> QED
  BY <1>3, <1>4, <1>5, <1>6 DEF Touched

(* It takes an answer and asks nothing more.                               *)
LEMMA SettledTouches ==
    ASSUME LoginInv, NEW c \in Calls, Answered(c), Settled(c)
    PROVE  Touched
<1> USE DEF LoginInv, Types
<1>1. NoCall \in CallType /\ NoCall.at \notin Busy /\ call[c].at \notin Busy
  BY DEF NoCall, CallType, Stages, Busy, Answered, Answers
<1>2. call' = [call EXCEPT ![c] = NoCall]
      /\ promise' = [promise EXCEPT ![c] = "none"]
  BY DEF Settled
<1>3. call' \in [Calls -> CallType]
  BY <1>1, <1>2 DEF CallType
<1>4. \A d \in Calls : TabMove(call[d], call'[d])
  BY <1>1, <1>2 DEF TabMove
<1>5. \A d \in Calls : promise'[d] = "aborted" => Answered(d)'
  BY <1>2 DEF Answered, Named
<1> QED
  BY <1>2, <1>3, <1>4, <1>5 DEF Touched

(* What the tab goes back to.                                              *)
LEMMA ResetTyped ==
    /\ Reset \in TabType
    /\ \A mode \in {"idle", "starting", "polling", "closed"} :
          [Reset EXCEPT !.mode = mode] \in TabType
<1>1. Reset \in TabType
  BY LimitsPositive DEF Reset, TabType, Deadline
<1>2. ASSUME NEW r \in TabType,
             NEW mode \in {"idle", "starting", "polling", "closed"}
      PROVE  [r EXCEPT !.mode = mode] \in TabType
  BY DEF TabType
<1> QED
  BY <1>1, <1>2

(* It cancels what it followed.                                            *)
LEMMA CancelTyped ==
    ASSUME NEW mode \in {"idle", "closed"}, CancelAndReset(mode)
    PROVE  tab' \in TabType
BY ResetTyped DEF CancelAndReset

(* A request that is idle or answered is none the server works on.         *)
LEMMA NotBusy ==
    ASSUME NEW c, Idle(c) \/ Answered(c)
    PROVE  call[c].at \notin Busy
BY DEF Idle, Answered, Answers, Busy

(* No step of the tab is seen by LoginOnce.                                *)
LEMMA TabKeeps ==
    ASSUME LoginInv, TabStep
    PROVE  LoginInv' /\ Login' = Login
<1>1. tab \in TabType
  BY DEF LoginInv, Types, TabType
<1>2. SUFFICES Touched /\ tab' \in TabType /\ UNCHANGED <<storeVars, outcome>>
  BY TabMoves DEF Touched
<1>3. CASE Expires
  BY <1>3, AbortTouches, CancelTyped DEF Expires
<1>4. CASE GivesUp
  BY <1>4, AbortTouches, CancelTyped DEF GivesUp
<1>5. ASSUME NEW c \in Calls, StartLogin(c)
      PROVE  Touched /\ tab' \in TabType /\ UNCHANGED <<storeVars, outcome>>
  BY <1>5, SendTouches, NotBusy, ResetTyped DEF StartLogin
<1>6. ASSUME NEW c \in Calls, Started(c)
      PROVE  Touched /\ tab' \in TabType /\ UNCHANGED <<storeVars, outcome>>
  <2>1. Answered(c) /\ UNCHANGED <<storeVars, outcome>>
    BY <1>6 DEF Started
  <2>2. call[c].state \in States \union {None}
    BY DEF LoginInv, Types
  <2>3. CASE Sends(c, "poll sent", call[c].state)
             /\ tab' = [Reset EXCEPT !.mode = "polling",
                                     !.state = call[c].state, !.inFlight = TRUE]
    <3>1. ASSUME NEW r \in TabType, NEW s \in States \union {None}
          PROVE  [r EXCEPT !.mode = "polling", !.state = s, !.inFlight = TRUE]
                    \in TabType
      BY DEF TabType
    <3>2. tab' \in TabType
      BY <2>2, <2>3, <3>1, ResetTyped
    <3> QED
      BY <2>1, <2>2, <2>3, <3>2, SendTouches, NotBusy
  <2>4. CASE tab' = Reset /\ Abort({c})
    BY <2>1, <2>4, AbortTouches, ResetTyped
  <2> QED
    BY <1>6, <2>3, <2>4 DEF Started, ResetOnly
<1>7. ASSUME NEW c \in Calls, PollTimer(c)
      PROVE  Touched /\ tab' \in TabType /\ UNCHANGED <<storeVars, outcome>>
  <2>1. CASE tab.age >= Deadline
    BY <1>7, <2>1, AbortTouches, CancelTyped DEF PollTimer
  <2>2. CASE ~(tab.age >= Deadline)
    <3>1. tab' = [tab EXCEPT !.timer = FALSE, !.inFlight = TRUE]
      BY <1>7, <2>2 DEF PollTimer
    <3>2. tab' \in TabType /\ tab.state \in States \union {None}
      BY <1>1, <3>1 DEF TabType
    <3> QED
      BY <1>7, <2>2, <3>2, SendTouches, NotBusy DEF PollTimer
  <2> QED
    BY <2>1, <2>2
<1>8. ASSUME NEW c \in Calls, Polled(c)
      PROVE  Touched /\ tab' \in TabType /\ UNCHANGED <<storeVars, outcome>>
  <2>1. Answered(c) /\ UNCHANGED <<storeVars, outcome>>
    BY <1>8 DEF Polled
  <2>2. CASE Abort({c}) /\ (ResetOnly \/ CancelAndReset("idle"))
    BY <2>1, <2>2, AbortTouches, CancelTyped, ResetTyped DEF ResetOnly
  <2>3. CASE ScheduleNextPoll /\ Settled(c)
    <3>1. CASE CancelAndReset("idle")
      BY <2>1, <2>3, <3>1, SettledTouches, CancelTyped
    <3>2. CASE tab' = [tab EXCEPT !.inFlight = FALSE, !.timer = TRUE]
      <4>1. tab' \in TabType
        BY <1>1, <3>2 DEF TabType
      <4> QED
        BY <2>1, <2>3, <4>1, SettledTouches
    <3> QED
      BY <2>3, <3>1, <3>2 DEF ScheduleNextPoll
  <2> QED
    BY <1>8, <2>2, <2>3 DEF Polled
<1>9. ASSUME NEW c \in Calls, Ignored(c)
      PROVE  Touched /\ tab' \in TabType /\ UNCHANGED <<storeVars, outcome>>
  <2>1. Answered(c)
    BY <1>9 DEF Ignored, LoginInv, Named
  <2> QED
    BY <1>1, <1>9, <2>1, SettledTouches DEF Ignored
<1> QED
  BY <1>3, <1>4, <1>5, <1>6, <1>7, <1>8, <1>9 DEF TabStep

-----------------------------------------------------------------------------
(* A request is answered, as far as it is concerned.                       *)
LEMMA ReplyParts ==
    ASSUME LoginInv, NEW c \in Calls, NEW answer \in Answers,
           NEW s \in States \union {None}, Reply(c, answer, s),
           call[c].at \in Busy, call[c].at # "starting",
           UNCHANGED <<starting, tabVars>>
    PROVE  /\ call' \in [Calls -> CallType] /\ Named'
           /\ \A u \in Users : Starts(u)' \subseteq Starts(u)
<1> USE DEF LoginInv
<1> DEFINE v == Replied(c, answer, s)
<1>1. call' = [call EXCEPT ![c] = v]
  BY DEF Reply, Replied
<1>2. v \in CallType /\ v.at \notin Busy
  BY ReplyIs
<1> HIDE DEF v
<1>3. \A d \in Calls : call'[d] = IF d = c THEN v ELSE call[d]
  BY <1>1 DEF Types
<1>4. call' \in [Calls -> CallType]
  BY <1>1, <1>2 DEF Types, CallType
<1>5. starting[c] = None /\ call[c].at \notin Answers
  BY DEF Named, Types, Busy, Answers
<1>6. Named'
  BY <1>2, <1>3, <1>5 DEF Named, Answered, tabVars
<1>7. \A u \in Users : Starts(u)' \subseteq Starts(u)
  BY <1>3, <1>5 DEF Starts
<1> QED
  BY <1>4, <1>6, <1>7

(* An unconsumed login is open, and the others are not.                    *)
LEMMA OpenIs ==
    ASSUME LoginInv, NEW u \in Users
    PROVE  Opens(u) = {s \in States : Login[s] = [phase |-> "open", user |-> u]}
<1> SUFFICES ASSUME NEW s \in States
             PROVE  Pending(u, s) <=> LoginOf(s) = [phase |-> "open", user |-> u]
  BY DEF Opens, Login
<1>1. outcome[s].saves > 0 => owners[s].consumed
  BY DEF LoginInv, Stored
<1>2. CASE owners[s] = None
  BY <1>2 DEF Pending, LoginOf
<1>3. CASE owners[s] # None
  <2>1. owners[s].consumed \in BOOLEAN
    BY <1>3 DEF LoginInv, Types, Owner
  <2>2. CASE outcome[s].saves > 0
    BY <1>1, <1>3, <2>2 DEF Pending, LoginOf
  <2>3. CASE ~(outcome[s].saves > 0)
    BY <1>3, <2>1, <2>3 DEF Pending, LoginOf
  <2> QED
    BY <2>2, <2>3
<1> QED
  BY <1>2, <1>3

(* Progress is kept of a login that is open.                               *)
LEMMA ProgressKeeps ==
    ASSUME LoginInv, NEW s \in States, owners[s] # None, ~owners[s].consumed,
           owners' = [owners EXCEPT ![s].progress = TRUE],
           UNCHANGED <<starting, outcome, tabVars>>,
           call' \in [Calls -> CallType], Named',
           \A u \in Users : Starts(u)' \subseteq Starts(u)
    PROVE  LoginInv' /\ Login' = Login
<1> USE DEF LoginInv
<1>1. owners[s] \in Owner
  BY DEF Types
<1>2. [owners[s] EXCEPT !.progress = TRUE] \in Owner
  BY <1>1 DEF Owner
<1>3. [owners[s] EXCEPT !.progress = TRUE] # None
  BY <1>2, NoneIsNothing
<1>4. /\ owners'[s] = [owners[s] EXCEPT !.progress = TRUE]
      /\ \A r \in States : r # s => owners'[r] = owners[r]
  BY DEF Types
<1>5. /\ owners'[s].user = owners[s].user
      /\ owners'[s].consumed = owners[s].consumed
  BY <1>1, <1>4 DEF Owner
<1>6. \A r \in States : /\ owners'[r] = None <=> owners[r] = None
                        /\ owners'[r].user = owners[r].user
                        /\ owners'[r].consumed = owners[r].consumed
  BY <1>3, <1>4, <1>5
<1>7. Types'
  BY <1>2, <1>4 DEF Types, CallType, tabVars
<1>8. Stored'
  BY <1>6 DEF Stored
<1>9. Limited'
  <2>1. \A u \in Users : Opens(u)' \subseteq Opens(u)
    BY <1>6 DEF Opens, Pending
  <2> QED
    BY <2>1, FewerPlaces
<1>10. Login' = Login
  BY <1>6 DEF Login, LoginOf
<1> QED
  BY <1>7, <1>8, <1>9, <1>10

(* A login that is open is consumed: its credential is stored, or none is. *)
LEMMA ConsumeKeeps ==
    ASSUME LoginInv, NEW u \in Users, NEW s \in States, Pending(u, s),
           Consume(s), NEW stored \in BOOLEAN,
           outcome' = [outcome EXCEPT ![s] =
                         IF stored THEN [saves |-> @.saves + 1, for |-> u] ELSE @],
           UNCHANGED <<starting, tabVars>>,
           call' \in [Calls -> CallType], Named',
           \A w \in Users : Starts(w)' \subseteq Starts(w)
    PROVE  LoginInv' /\ (Once!Save(s) \/ Once!Drop(s))
<1> USE DEF LoginInv
<1> DEFINE o == [owners[s] EXCEPT !.consumed = TRUE, !.progress = FALSE, !.age = 0]
<1>1. owners[s] \in Owner /\ owners[s].user = u /\ ~owners[s].consumed
  BY DEF Types, Pending
<1>2. o \in Owner /\ o.consumed /\ o.user = u
  <2>1. ASSUME NEW r \in Owner
        PROVE  [r EXCEPT !.consumed = TRUE, !.progress = FALSE, !.age = 0]
                  \in Owner
    <3>1. [r EXCEPT !.consumed = TRUE] \in Owner
      BY DEF Owner
    <3>2. \A q \in Owner : [q EXCEPT !.progress = FALSE] \in Owner
      BY DEF Owner
    <3>3. 0 \in 0..Ttl
      BY LimitsPositive
    <3>4. \A q \in Owner : [q EXCEPT !.age = 0] \in Owner
      BY <3>3 DEF Owner
    <3> QED
      BY <3>1, <3>2, <3>4
  <2>2. ASSUME NEW r \in Owner
        PROVE  [r EXCEPT !.consumed = TRUE, !.progress = FALSE, !.age = 0].user
                  = r.user
    BY DEF Owner
  <2>3. ASSUME NEW r \in Owner
        PROVE  [r EXCEPT !.consumed = TRUE, !.progress = FALSE, !.age = 0].consumed
    BY DEF Owner
  <2> QED
    BY <1>1, <2>1, <2>2, <2>3
<1>3. o # None
  BY <1>2, NoneIsNothing
<1>4. owners' = [owners EXCEPT ![s] = o]
  BY DEF Consume
<1> HIDE DEF o
<1>5. \A r \in States : owners'[r] = IF r = s THEN o ELSE owners[r]
  BY <1>4 DEF Types
<1>6. outcome[s].saves = 0
  BY <1>1 DEF Stored
<1> DEFINE e == IF stored THEN [saves |-> 1, for |-> u] ELSE outcome[s]
<1>7. e \in [saves : Nat, for : Users \union {None}]
  BY DEF Types
<1>8. \A r \in States : outcome'[r] = IF r = s THEN e ELSE outcome[r]
  BY <1>6 DEF Types
<1>9. outcome' \in [States -> [saves : Nat, for : Users \union {None}]]
  BY <1>7, <1>8 DEF Types
<1>10. e.saves = (IF stored THEN 1 ELSE 0) /\ (stored => e.for = u)
  BY <1>6
<1> HIDE DEF e
<1>11. Types'
  BY <1>2, <1>4, <1>9 DEF Types, CallType, tabVars
<1>12. Stored'
  BY <1>2, <1>3, <1>5, <1>8, <1>10 DEF Stored
<1>13. Limited'
  <2>1. \A w \in Users : Opens(w)' \subseteq Opens(w)
    BY <1>2, <1>5 DEF Opens, Pending
  <2> QED
    BY <2>1, FewerPlaces
<1>14. Login[s] = [phase |-> "open", user |-> u]
  BY OpenIs DEF Opens
<1>15. \A r \in States : r # s => Login'[r] = Login[r]
  BY <1>5, <1>8 DEF Login, LoginOf
<1>16. Login'[s] = [phase |-> IF stored THEN "saved" ELSE "dropped", user |-> u]
  <2>1. Login'[s] = LoginOf(s)'
    BY DEF Login
  <2>2. owners'[s] # None /\ owners'[s].consumed /\ owners'[s].user = u
    BY <1>2, <1>3, <1>5
  <2>3. CASE stored
    <3>1. outcome'[s].saves = 1 /\ outcome'[s].for = u
      BY <1>8, <1>10, <2>3
    <3> QED
      BY <2>1, <2>2, <2>3, <3>1 DEF LoginOf
  <2>4. CASE ~stored
    <3>1. ~(outcome'[s].saves > 0)
      BY <1>8, <1>10, <2>4
    <3>2. LoginOf(s)' = [phase |-> "dropped", user |-> u]
      BY <2>2, <3>1, Zenon DEF LoginOf
    <3> QED
      BY <2>1, <2>4, <3>2
  <2> QED
    BY <2>3, <2>4
<1>17. Once!Save(s) \/ Once!Drop(s)
  <2>1. Login[s].phase = "open"
    BY <1>14
  <2>2. ASSUME NEW phase, Login'[s] = [phase |-> phase, user |-> u]
        PROVE  Login' = [Login EXCEPT ![s].phase = phase]
    <3>1. [[phase |-> "open", user |-> u] EXCEPT !.phase = phase]
             = [phase |-> phase, user |-> u]
      OBVIOUS
    <3> QED
      BY <1>14, <1>15, <2>2, <3>1 DEF Login
  <2>3. CASE stored
    <3>1. Login' = [Login EXCEPT ![s].phase = "saved"]
      BY <1>16, <2>2, <2>3
    <3> QED
      BY <2>1, <3>1 DEF Login, Once!Save
  <2>4. CASE ~stored
    <3>1. Login' = [Login EXCEPT ![s].phase = "dropped"]
      BY <1>16, <2>2, <2>4
    <3> QED
      BY <2>1, <3>1 DEF Login, Once!Drop
  <2> QED
    BY <2>3, <2>4
<1> QED
  BY <1>11, <1>12, <1>13, <1>17

(* A reservation becomes a login: the place of the one is the other's.     *)
LEMMA OpenKeeps ==
    ASSUME LoginInv, NEW c \in Calls, NEW s \in States,
           call[c].at = "starting", starting[c] # None, owners[s] = None,
           FinishStart(c, s), UNCHANGED tabVars
    PROVE  LoginInv' /\ \E u \in Users : Once!Open(u, s)
<1> USE DEF LoginInv
<1>1. PICK u \in Users : u = call[c].user
  BY DEF Named, Busy
<1> DEFINE o == [user |-> u, age |-> 0, consumed |-> FALSE, progress |-> FALSE]
           v == Replied(c, "started", s)
<1>2. o \in Owner /\ ~o.consumed /\ o.user = u
  BY <1>1, LimitsPositive DEF Owner
<1>3. o # None
  BY <1>2, NoneIsNothing
<1>4. /\ owners' = [owners EXCEPT ![s] = o]
      /\ starting' = [starting EXCEPT ![c] = None]
      /\ Reply(c, "started", s)
      /\ UNCHANGED <<attempts, cancels, outcome>>
  BY <1>1 DEF FinishStart
<1>5. call' = [call EXCEPT ![c] = v]
  BY <1>4 DEF Reply, Replied
<1>6. v \in CallType /\ v.at \notin Busy
  BY ReplyIs DEF Answers
<1> HIDE DEF o, v
<1>7. \A r \in States : owners'[r] = IF r = s THEN o ELSE owners[r]
  BY <1>4 DEF Types
<1>8. \A d \in Calls : /\ call'[d] = IF d = c THEN v ELSE call[d]
                       /\ starting'[d] = IF d = c THEN None ELSE starting[d]
  BY <1>4, <1>5 DEF Types
<1>9. Types'
  BY <1>2, <1>4, <1>5, <1>6 DEF Types, CallType, tabVars
<1>10. Named'
  <2>1. call[c].at \notin Answers
    BY DEF Answers
  <2> QED
    BY <1>6, <1>8, <2>1 DEF Named, Answered, tabVars, Busy
<1>11. outcome[s] = NoOutcome /\ outcome' = outcome
  BY <1>4 DEF Stored
<1>12. Stored'
  BY <1>3, <1>7, <1>11 DEF Stored, NoOutcome
<1>13. Opens(u)' = Opens(u) \union {s} /\ s \notin Opens(u)
  BY <1>2, <1>3, <1>7 DEF Opens, Pending
<1>14. Starts(u)' = Starts(u) \ {c} /\ c \in Starts(u)
  BY <1>1, <1>8 DEF Starts
<1>15. /\ Cardinality(Opens(u)') = Cardinality(Opens(u)) + 1
       /\ Cardinality(Starts(u)') = Cardinality(Starts(u)) - 1
  <2>1. IsFiniteSet(Opens(u)) /\ IsFiniteSet(Starts(u))
    BY Places
  <2>2. Cardinality(Opens(u) \union {s}) = Cardinality(Opens(u)) + 1
    BY <1>13, <2>1, FS_AddElement
  <2>3. Cardinality(Starts(u) \ {c}) = Cardinality(Starts(u)) - 1
    BY <1>14, <2>1, FS_RemoveElement
  <2> QED
    BY <1>13, <1>14, <2>2, <2>3
<1>16. Limited'
  <2> SUFFICES ASSUME NEW w \in Users PROVE (ActiveOf(w) <= MaxActive)'
    BY DEF Limited
  <2>1. ActiveOf(w) <= MaxActive
    BY DEF Limited
  <2>2. CASE w = u
    <3>1. ActiveOf(w)' = Cardinality(Opens(u)') + Cardinality(Starts(u)')
      BY <2>2 DEF ActiveOf, Opens, Starts
    <3>2. ActiveOf(w)' = ActiveOf(w)
      BY <1>15, <2>2, <3>1, Places
    <3> QED
      BY <2>1, <3>2
  <2>3. CASE w # u
    <3>1. Opens(w)' = Opens(w)
      BY <1>2, <1>7, <2>3 DEF Opens, Pending
    <3>2. Starts(w)' = Starts(w)
      BY <1>1, <1>8, <2>3 DEF Starts
    <3>3. ActiveOf(w)' = ActiveOf(w)
      BY <3>1, <3>2 DEF ActiveOf, Opens, Starts
    <3> QED
      BY <2>1, <3>3
  <2> QED
    BY <2>2, <2>3
<1>17. Once!Open(u, s)
  <2>1. Login[s] = [phase |-> "none", user |-> "nobody"]
    BY DEF Login, LoginOf
  <2>2. Login'[s] = [phase |-> "open", user |-> u]
    <3>1. ~(outcome'[s].saves > 0)
      BY <1>11 DEF NoOutcome
    <3>2. LoginOf(s)' = [phase |-> "open", user |-> u]
      BY <1>2, <1>3, <1>7, <3>1, Zenon DEF LoginOf
    <3> QED
      BY <3>2 DEF Login
  <2>3. \A r \in States : r # s => Login'[r] = Login[r]
    BY <1>7, <1>11 DEF Login, LoginOf
  <2>4. Login' = [Login EXCEPT ![s] = [phase |-> "open", user |-> u]]
    BY <2>2, <2>3 DEF Login
  <2>5. Cardinality(Opens(u)) < MaxActive
    <3>1. ActiveOf(u) <= MaxActive
      BY <1>1 DEF Limited
    <3>2. Cardinality(Starts(u)) # 0
      BY <1>14, Places, FS_EmptySet
    <3> QED
      BY <3>1, <3>2, Places, LimitsPositive
  <2>6. Once!OpenOf(u) = {r \in States : Login[r] = [phase |-> "open", user |-> u]}
    BY DEF Once!OpenOf, Login
  <2>7. Cardinality(Once!OpenOf(u)) < MaxActive
    BY <1>1, <2>5, <2>6, OpenIs
  <2>8. Login[s] = Once!Unknown
    BY <2>1 DEF Once!Unknown
  <2>9. Once!Cardinality(Once!OpenOf(u)) = Cardinality(Once!OpenOf(u))
    BY Zenon DEF Cardinality, Once!Cardinality
  <2> QED
    BY <2>4, <2>7, <2>8, <2>9 DEF Login, Once!Open
<1> QED
  BY <1>1, <1>9, <1>10, <1>12, <1>16, <1>17

(* A start takes a place that is free.                                     *)
LEMMA ReserveKeeps ==
    ASSUME LoginInv, NEW c \in Calls, NEW u \in Users,
           call[c].at \in {"start sent", "none"}, ActiveOf(u) < MaxActive,
           Goes(c, "starting", u, None), starting' = [starting EXCEPT ![c] = 0],
           UNCHANGED <<owners, outcome, tabVars>>
    PROVE  LoginInv' /\ Login' = Login
<1> USE DEF LoginInv
<1> DEFINE v == [at |-> "starting", user |-> u, state |-> None,
                 heard |-> call[c].heard]
<1>1. v \in CallType /\ v.at = "starting" /\ v.user = u
  BY DEF Types, CallType, Stages
<1>2. call' = [call EXCEPT ![c] = v]
  BY DEF Goes
<1> HIDE DEF v
<1>3. \A d \in Calls : /\ call'[d] = IF d = c THEN v ELSE call[d]
                       /\ starting'[d] = IF d = c THEN 0 ELSE starting[d]
  BY <1>2 DEF Types
<1>7. starting' \in [Calls -> {None} \union 0..Ttl] /\ 0 # None
  BY LimitsAre DEF Types
<1>4. Types'
  BY <1>1, <1>2, <1>7 DEF Types, CallType, tabVars
<1>5. starting[c] = None /\ call[c].at \notin Answers
  BY DEF Named, Types, Answers
<1>6. Named'
  BY <1>1, <1>3, <1>5 DEF Named, Answered, tabVars
<1>8. Starts(u)' = Starts(u) \union {c} /\ c \notin Starts(u)
  BY <1>1, <1>3, <1>5, <1>7 DEF Starts
<1>9. Limited'
  <2> SUFFICES ASSUME NEW w \in Users PROVE (ActiveOf(w) <= MaxActive)'
    BY DEF Limited
  <2>1. Opens(w)' = Opens(w)
    BY DEF Opens, Pending
  <2>2. ActiveOf(w)' = Cardinality(Opens(w)) + Cardinality(Starts(w)')
    BY <2>1 DEF ActiveOf, Opens, Starts
  <2>3. CASE w = u
    <3>1. Cardinality(Starts(u)') = Cardinality(Starts(u)) + 1
      BY <1>8, Places, FS_AddElement
    <3>2. /\ ActiveOf(u) = Cardinality(Opens(u)) + Cardinality(Starts(u))
          /\ Cardinality(Opens(u)) \in Nat /\ Cardinality(Starts(u)) \in Nat
      BY Places
    <3>3. Cardinality(Opens(u)) + Cardinality(Starts(u)) < MaxActive
      BY <3>2
    <3>5. Cardinality(Opens(u)) + Cardinality(Starts(u)') <= MaxActive
      BY <3>1, <3>2, <3>3, LimitsAre, OneMoreFits
    <3>4. ActiveOf(w)' = Cardinality(Opens(u)) + Cardinality(Starts(u)')
      BY <2>1, <2>3 DEF ActiveOf, Opens, Starts
    <3> QED
      BY <3>4, <3>5
  <2>4. CASE w # u
    <3>1. Starts(w)' = Starts(w)
      BY <1>1, <1>3, <1>5, <2>4 DEF Starts
    <3> QED
      BY <2>2, <3>1, Places DEF Limited
  <2> QED
    BY <2>3, <2>4
<1>10. Stored' /\ Login' = Login
  BY DEF Stored, Login, LoginOf
<1> QED
  BY <1>4, <1>6, <1>9, <1>10

(* Nothing happens to the logins or the requests.                          *)
LEMMA Unchanged ==
    ASSUME LoginInv, UNCHANGED <<owners, starting, call, outcome, tabVars>>
    PROVE  LoginInv' /\ Login' = Login
<1> USE DEF LoginInv
<1>1. Types' /\ Named' /\ Stored' /\ Login' = Login
  BY DEF Types, Named, Answered, Stored, Login, LoginOf, tabVars
<1>2. \A u \in Users : Opens(u)' \subseteq Opens(u)
                        /\ Starts(u)' \subseteq Starts(u)
  BY DEF Opens, Starts, Pending
<1> QED
  BY <1>1, <1>2, FewerPlaces

(* Time passes: logins of an age are forgotten, whatever became of them.   *)
LEMMA TickKeeps ==
    ASSUME LoginInv, TabTick
    PROVE  LoginInv' /\ (Once!Expire \/ Login' = Login)
<1> USE DEF LoginInv
<1> DEFINE expired == {s \in States : owners[s] # None /\ owners[s].age >= Ttl}
<1>1. /\ owners' = [s \in States |->
                       IF owners[s] = None \/ s \in expired THEN None
                       ELSE [owners[s] EXCEPT !.age = @ + 1]]
      /\ outcome' = [s \in States |->
                        IF s \in expired THEN NoOutcome ELSE outcome[s]]
      /\ starting' = [c \in Calls |-> Older(starting[c], Ttl)]
      /\ call' = call
  BY DEF TabTick, Tick
<1>2. ASSUME NEW s \in States, owners[s] # None, s \notin expired
      PROVE  /\ owners'[s] \in Owner /\ owners'[s] # None
             /\ owners'[s].user = owners[s].user
             /\ owners'[s].consumed = owners[s].consumed
  <2>1. owners[s] \in Owner /\ ~(owners[s].age >= Ttl)
    BY <1>2 DEF Types
  <2>2. owners[s].age \in 0..Ttl /\ owners[s].age + 1 \in 0..Ttl
    <3>1. owners[s].age \in 0..Ttl
      BY <2>1 DEF Owner
    <3> QED
      BY <2>1, <3>1, LimitsAre
  <2>3. ASSUME NEW r \in Owner, NEW n \in 0..Ttl
        PROVE  /\ [r EXCEPT !.age = n] \in Owner
               /\ [r EXCEPT !.age = n].user = r.user
               /\ [r EXCEPT !.age = n].consumed = r.consumed
    BY DEF Owner
  <2>4. owners'[s] = [owners[s] EXCEPT !.age = owners[s].age + 1]
    BY <1>1, <1>2
  <2> QED
    BY <2>1, <2>2, <2>3, <2>4, NoneIsNothing
<1>3. ASSUME NEW s \in States, owners[s] = None \/ s \in expired
      PROVE  owners'[s] = None
  BY <1>1, <1>3
<1> HIDE DEF expired
<1>4. owners' \in [States -> {None} \union Owner]
  <2>1. \A s \in States : owners'[s] \in {None} \union Owner
    BY <1>2, <1>3
  <2>2. DOMAIN owners' = States /\ owners' = [s \in States |-> owners'[s]]
    BY <1>1
  <2> QED
    BY <2>1, <2>2
<1>5. outcome' \in [States -> [saves : Nat, for : Users \union {None}]]
  BY <1>1 DEF Types, NoOutcome
<1>6. \A c \in Calls : /\ starting'[c] \in {None} \union 0..Ttl
                       /\ starting[c] = None => starting'[c] = None
  <2> SUFFICES ASSUME NEW c \in Calls
               PROVE  /\ Older(starting[c], Ttl) \in {None} \union 0..Ttl
                      /\ starting[c] = None => Older(starting[c], Ttl) = None
    BY <1>1
  <2>1. starting[c] \in {None} \union 0..Ttl
    BY DEF Types
  <2>2. CASE starting[c] = None
    BY <2>2 DEF Older
  <2>3. CASE starting[c] # None
    <3>1. starting[c] \in 0..Ttl
      BY <2>1, <2>3
    <3> QED
      BY <2>3, <3>1, LimitsAre DEF Older
  <2> QED
    BY <2>2, <2>3
<1>7. starting' \in [Calls -> {None} \union 0..Ttl]
  BY <1>1, <1>6
<1>8. tab' \in TabType /\ promise' = promise
  <2>1. tab \in TabType /\ tab.age \in 0..Ttl
    BY DEF Types, TabType, Deadline
  <2>2. (IF tab.mode = "polling" /\ tab.age < Deadline
         THEN tab.age + 1 ELSE tab.age) \in 0..Ttl
    BY <2>1, LimitsAre DEF Deadline
  <2>3. ASSUME NEW t \in TabType, NEW n \in 0..Ttl
        PROVE  [t EXCEPT !.age = n] \in TabType
    BY DEF TabType, Deadline
  <2> QED
    BY <2>1, <2>2, <2>3 DEF TabTick
<1>9. Types'
  BY <1>1, <1>4, <1>5, <1>7, <1>8 DEF Types, TabType
<1>10. Named'
  BY <1>1, <1>6, <1>8 DEF Named, Answered
<1>11. Stored'
  <2> SUFFICES ASSUME NEW s \in States
               PROVE  /\ owners'[s] = None => outcome'[s] = NoOutcome
                      /\ outcome'[s].saves \in {0, 1}
                      /\ outcome'[s].saves = 1 =>
                            owners'[s].consumed /\ outcome'[s].for = owners'[s].user
    BY DEF Stored
  <2>1. CASE owners[s] = None \/ s \in expired
    <3>1. outcome'[s] = NoOutcome
      BY <1>1, <2>1 DEF Stored
    <3> QED
      BY <3>1 DEF NoOutcome
  <2>2. CASE owners[s] # None /\ s \notin expired
    <3>1. outcome'[s] = outcome[s]
      BY <1>1, <2>2
    <3> QED
      BY <1>2, <2>2, <3>1 DEF Stored
  <2> QED
    BY <2>1, <2>2
<1>12. Limited'
  <2>1. ASSUME NEW u \in Users
        PROVE  Opens(u)' \subseteq Opens(u) /\ Starts(u)' \subseteq Starts(u)
    BY <1>1, <1>2, <1>3, <1>6 DEF Opens, Starts, Pending
  <2> QED
    BY <2>1, FewerPlaces
<1>13. \A s \in States : Login'[s] =
          IF s \in expired THEN [phase |-> "none", user |-> "nobody"] ELSE Login[s]
  <2> SUFFICES ASSUME NEW s \in States
               PROVE  LoginOf(s)' =
                         IF s \in expired THEN [phase |-> "none", user |-> "nobody"]
                         ELSE LoginOf(s)
    BY DEF Login
  <2>1. CASE s \in expired
    BY <1>3, <2>1 DEF LoginOf
  <2>2. CASE owners[s] = None
    BY <1>3, <2>2 DEF LoginOf
  <2>3. CASE owners[s] # None /\ s \notin expired
    <3>1. outcome'[s] = outcome[s]
      BY <1>1, <2>3
    <3> QED
      BY <1>2, <2>3, <3>1 DEF LoginOf
  <2> QED
    BY <2>1, <2>2, <2>3
<1>14. expired \in SUBSET States
  BY DEF expired
<1>15. CASE expired = {}
  <2>1. Login' = Login
    BY <1>13, <1>15 DEF Login
  <2> QED
    BY <1>9, <1>10, <1>11, <1>12, <2>1
<1>16. CASE expired # {}
  <2>1. Login' = [s \in States |-> IF s \in expired THEN Once!Unknown ELSE Login[s]]
    BY <1>13 DEF Login, Once!Unknown
  <2>2. expired \in (SUBSET States) \ {{}}
    BY <1>14, <1>16
  <2>3. Once!Expire
    BY <2>1, <2>2, Zenon DEF Once!Expire, Login
  <2> QED
    BY <1>9, <1>10, <1>11, <1>12, <2>3
<1> QED
  BY <1>15, <1>16

-----------------------------------------------------------------------------
(* What happens to a request in the server, upstream or on the way.        *)
LEMMA RequestKeeps ==
    ASSUME LoginInv, NEW c \in Calls, UNCHANGED tabVars,
           \/ \E u \in Users : BeginStart(c, u)
           \/ \E u \in Users, s \in States : BeginPoll(c, u, s)
           \/ Upstream(c) \/ RequestLost(c) \/ AnswerLost(c)
    PROVE  LoginInv' /\ (Login' = Login \/ Once!Next)
<1> USE DEF LoginInv
<1>1. ASSUME NEW u \in Users, BeginStart(c, u)
      PROVE  LoginInv' /\ Login' = Login
  <2>1. call[c].at \in {"start sent", "none"}
    BY <1>1 DEF BeginStart, Arrives, Idle
  <2>2. call[c].at \notin Answers
    BY <2>1 DEF Answers
  <2>3. CASE Reply(c, "limited", None) /\ UNCHANGED <<owners, starting>>
    BY <1>1, <2>1, <2>2, <2>3, ReplyKeeps DEF BeginStart, Answers
  <2>4. CASE /\ Goes(c, "starting", u, None) /\ ~(ActiveOf(u) >= MaxActive)
             /\ starting' = [starting EXCEPT ![c] = 0]
             /\ UNCHANGED owners
    <3>1. ActiveOf(u) < MaxActive
      BY <2>4, Places, LimitsAre
    <3> QED
      BY <1>1, <2>1, <2>4, <3>1, ReserveKeeps DEF BeginStart
  <2> QED
    BY <1>1, <2>3, <2>4 DEF BeginStart, storeVars
<1>2. ASSUME NEW u \in Users, NEW s \in States, BeginPoll(c, u, s)
      PROVE  LoginInv' /\ Login' = Login
  <2>1. call[c].at \in {"poll sent", "none"}
    BY <1>2 DEF BeginPoll, Arrives, Idle
  <2>2. call[c].at \notin Answers
    BY <2>1 DEF Answers
  <2>3. CASE Reply(c, "refused", s)
    BY <1>2, <2>1, <2>2, <2>3, ReplyKeeps DEF BeginPoll, Answers, storeVars
  <2>4. ASSUME NEW where \in {"account", "token"}, Goes(c, where, u, s)
        PROVE  LoginInv' /\ Login' = Login
    <3> DEFINE v == [at |-> where, user |-> u, state |-> s,
                     heard |-> call[c].heard]
    <3>1. v \in CallType /\ v.at = where /\ v.user = u /\ v.state = s
      BY DEF Types, CallType, Stages
    <3>2. call' = [call EXCEPT ![c] = v]
      BY <2>4 DEF Goes
    <3> HIDE DEF v
    <3> QED
      BY <1>2, <2>1, <2>2, <3>1, <3>2, OneMoves DEF BeginPoll, storeVars
  <2> QED
    BY <1>2, <2>3, <2>4 DEF BeginPoll
<1>3. ASSUME NEW s \in States, FinishStart(c, s)
      PROVE  LoginInv' /\ (Login' = Login \/ Once!Next)
  <2>1. call[c].at = "starting" /\ call[c].at \notin Answers
        /\ starting' = [starting EXCEPT ![c] = None]
    BY <1>3 DEF FinishStart, Answers
  <2>2. CASE starting[c] = None \/ owners[s] # None
    <3>1. Reply(c, "not started", None) /\ UNCHANGED <<owners, outcome>>
      BY <1>3, <2>2 DEF FinishStart
    <3>2. starting' # starting \/ starting[c] = None
      BY <2>1 DEF Types
    <3> QED
      BY <2>1, <3>1, <3>2, ReplyKeeps DEF Answers
  <2>3. CASE ~(starting[c] = None \/ owners[s] # None)
    BY <1>3, <2>1, <2>3, OpenKeeps DEF Once!Next
  <2> QED
    BY <2>2, <2>3
<1>4. ASSUME StartFails(c) PROVE LoginInv' /\ Login' = Login
  <2>1. /\ call[c].at = "starting" /\ call[c].at \notin Answers
        /\ starting' = [starting EXCEPT ![c] = None]
        /\ Reply(c, "not started", None) /\ UNCHANGED <<owners, outcome>>
    BY <1>4 DEF StartFails, Answers
  <2>2. starting' # starting \/ starting[c] = None
    BY <2>1 DEF Types
  <2> QED
    BY <2>1, <2>2, ReplyKeeps DEF Answers
<1>5. ASSUME StageOk(c) PROVE LoginInv' /\ Login' = Login
  <2>1. PICK where \in {"account", "accounts"} :
           call' = [call EXCEPT ![c].at = where]
    BY <1>5 DEF StageOk
  <2>2. /\ call[c].at \in {"token", "account"} /\ call[c].at \notin Answers
        /\ UNCHANGED <<storeVars, outcome>>
    BY <1>5 DEF StageOk, Answers
  <2>3. call[c].user \in Users /\ call[c].state \in States
    BY <2>2 DEF Named, Busy
  <2> DEFINE v == [call[c] EXCEPT !.at = where]
  <2>4. ASSUME NEW r \in CallType
        PROVE  /\ [r EXCEPT !.at = where] \in CallType
               /\ [r EXCEPT !.at = where].at = where
               /\ [r EXCEPT !.at = where].user = r.user
               /\ [r EXCEPT !.at = where].state = r.state
    BY DEF CallType, Stages
  <2>5. v \in CallType /\ v.at = where /\ v.user \in Users /\ v.state \in States
    BY <2>3, <2>4 DEF Types, CallType
  <2>6. call' = [call EXCEPT ![c] = v]
    BY <2>1
  <2> HIDE DEF v
  <2> QED
    BY <2>2, <2>5, <2>6, OneMoves DEF storeVars
<1>6. ASSUME NEW answer \in {"pending", "refused", "failed"},
             NEW progress \in BOOLEAN, PollEnds(c, answer, progress)
      PROVE  LoginInv' /\ Login' = Login
  <2>1. /\ call[c].at \in {"token", "account", "accounts"}
        /\ Reply(c, answer, call[c].state) /\ UNCHANGED <<starting, outcome>>
    BY <1>6 DEF PollEnds, Unsuccessful
  <2>2. /\ call[c].at \notin Answers /\ call[c].at \in Busy
        /\ call[c].at # "starting" /\ answer \in Answers
    BY <2>1 DEF Answers, Busy
  <2>3. call[c].state \in States
    BY <2>1 DEF Named, Busy
  <2>4. CASE progress /\ MayProgress(call[c].user, call[c].state)
    <3>1. owners' = [owners EXCEPT ![call[c].state].progress = TRUE]
      BY <1>6, <2>4 DEF PollEnds
    <3>2. owners[call[c].state] # None /\ ~owners[call[c].state].consumed
      BY <2>4 DEF MayProgress, Pending
    <3>3. /\ call' \in [Calls -> CallType] /\ Named'
          /\ \A u \in Users : Starts(u)' \subseteq Starts(u)
      BY <2>1, <2>2, <2>3, ReplyParts
    <3> QED
      BY <2>1, <2>3, <3>1, <3>2, <3>3, ProgressKeeps
  <2>5. CASE ~(progress /\ MayProgress(call[c].user, call[c].state))
    <3>1. owners' = owners
      BY <1>6, <2>5 DEF PollEnds
    <3> QED
      BY <2>1, <2>2, <2>3, <3>1, ReplyKeeps
  <2> QED
    BY <2>4, <2>5
<1>7. ASSUME NEW stored \in BOOLEAN, PollSucceeds(c, stored)
      PROVE  LoginInv' /\ (Login' = Login \/ Once!Next)
  <2>1. /\ call[c].at = "accounts" /\ UNCHANGED starting
        /\ call[c].at \notin Answers /\ call[c].at \in Busy
    BY <1>7 DEF PollSucceeds, Answers, Busy
  <2>2. PICK u \in Users, s \in States : u = call[c].user /\ s = call[c].state
    BY <2>1 DEF Named, Busy
  <2>3. CASE Pending(u, s)
    <3>1. /\ Consume(s)
          /\ outcome' = [outcome EXCEPT ![s] =
                IF stored THEN [saves |-> @.saves + 1, for |-> u] ELSE @]
          /\ Reply(c, IF stored THEN "saved" ELSE "failed", s)
      BY <1>7, <2>2, <2>3 DEF PollSucceeds
    <3>2. /\ call' \in [Calls -> CallType] /\ Named'
          /\ \A w \in Users : Starts(w)' \subseteq Starts(w)
      <4>1. (IF stored THEN "saved" ELSE "failed") \in Answers
        BY DEF Answers
      <4> QED
        BY <2>1, <3>1, <4>1, ReplyParts
    <3> QED
      BY <2>1, <2>3, <3>1, <3>2, ConsumeKeeps DEF Once!Next
  <2>4. CASE ~Pending(u, s)
    <3>1. Reply(c, "refused", s) /\ UNCHANGED <<owners, outcome>>
      BY <1>7, <2>2, <2>4 DEF PollSucceeds
    <3> QED
      BY <2>1, <3>1, ReplyKeeps DEF Answers
  <2> QED
    BY <2>3, <2>4
<1>8. ASSUME RequestLost(c) \/ AnswerLost(c) PROVE LoginInv' /\ Login' = Login
  <2>1. /\ call[c].heard /\ Reply(c, "lost", None)
        /\ UNCHANGED <<storeVars, outcome>> /\ call[c].at # "starting"
    BY <1>8 DEF RequestLost, AnswerLost, Answers
  <2> QED
    BY <2>1, ReplyKeeps DEF Answers, storeVars
<1> QED
  BY <1>1, <1>2, <1>3, <1>4, <1>5, <1>6, <1>7, <1>8 DEF Upstream

(* A login is cancelled, by request or through the API, or it was over.    *)
LEMMA CancelKeeps ==
    ASSUME LoginInv, NEW u \in Users, NEW s \in States, CancelAuth(u, s),
           UNCHANGED tabVars
    PROVE  LoginInv' /\ (Login' = Login \/ Once!Next)
<1>1. UNCHANGED <<starting, call, outcome>>
  BY DEF CancelAuth
<1>2. CASE Pending(u, s)
  <2>1. Consume(s)
    BY <1>2 DEF CancelAuth
  <2>2. outcome' = [outcome EXCEPT ![s] =
            IF FALSE THEN [saves |-> @.saves + 1, for |-> u] ELSE @]
    BY <1>1 DEF LoginInv, Types
  <2>3. call' \in [Calls -> CallType] /\ Named'
    BY <1>1 DEF LoginInv, Types, Named, Answered, CallType, tabVars
  <2>4. \A w \in Users : Starts(w)' \subseteq Starts(w)
    BY <1>1 DEF Starts
  <2>5. LoginInv' /\ (Once!Save(s) \/ Once!Drop(s))
    BY <1>1, <1>2, <2>1, <2>2, <2>3, <2>4, ConsumeKeeps
  <2> QED
    BY <2>5 DEF Once!Next
<1>3. CASE ~Pending(u, s)
  <2>1. UNCHANGED <<owners, starting, call, outcome, tabVars>>
    BY <1>1, <1>3 DEF CancelAuth
  <2> QED
    BY <2>1, Unchanged
<1> QED
  BY <1>2, <1>3

(* Every step of the login is one of LoginOnce, or none.                   *)
LEMMA LoginStep ==
    ASSUME LoginInv, [TabNext]_allVars
    PROVE  LoginInv' /\ (Login' = Login \/ Once!Next)
<1>1. CASE TabStep
  BY <1>1, TabKeeps
<1>2. CASE Server(Starters) /\ UNCHANGED tabVars
  <2>1. ASSUME NEW c \in Calls, NEW u \in Starters, BeginStart(c, u)
        PROVE  LoginInv' /\ (Login' = Login \/ Once!Next)
    BY <1>2, <2>1, RequestKeeps, StartersAreUsers
  <2>2. ASSUME NEW c \in Calls, NEW u \in Users, NEW s \in States,
               BeginPoll(c, u, s)
        PROVE  LoginInv' /\ (Login' = Login \/ Once!Next)
    BY <1>2, <2>2, RequestKeeps
  <2>3. ASSUME NEW c \in Calls, Upstream(c) \/ RequestLost(c) \/ AnswerLost(c)
        PROVE  LoginInv' /\ (Login' = Login \/ Once!Next)
    BY <1>2, <2>3, RequestKeeps
  <2>4. ASSUME NEW u \in Users, NEW s \in States,
               CancelArrives(u, s) \/ ClientCancels(u, s)
        PROVE  LoginInv' /\ (Login' = Login \/ Once!Next)
    BY <1>2, <2>4, CancelKeeps DEF CancelArrives, ClientCancels
  <2>5. ASSUME NEW u \in Users, NEW s \in States, CancelLost(u, s)
        PROVE  LoginInv' /\ (Login' = Login \/ Once!Next)
    BY <1>2, <2>5, Unchanged DEF CancelLost, storeVars
  <2> QED
    BY <1>2, <2>1, <2>2, <2>3, <2>4, <2>5 DEF Server
<1>3. CASE TabTick
  BY <1>3, TickKeeps DEF Once!Next
<1>4. CASE UNCHANGED allVars
  BY <1>4, Unchanged DEF allVars, vars, storeVars
<1> QED
  BY <1>1, <1>2, <1>3, <1>4 DEF TabNext

(* At first no login is known.                                             *)
LEMMA LoginInit == TabInit => LoginInv /\ Once!Init
<1> SUFFICES ASSUME TabInit PROVE LoginInv /\ Once!Init
  OBVIOUS
<1> USE DEF TabInit, Init
<1>1. tab \in TabType
  BY ResetTyped
<1>2. Types
  BY <1>1 DEF Types, TabType, NoCall, NoOutcome, Stages
<1>3. Named
  BY DEF Named, NoCall, Busy, Answered
<1>4. Stored
  BY DEF Stored, NoOutcome
<1>5. Limited
  <2> SUFFICES ASSUME NEW u \in Users PROVE ActiveOf(u) <= MaxActive
    BY DEF Limited
  <2>1. Opens(u) = {} /\ Starts(u) = {}
    BY DEF Opens, Starts, Pending
  <2>2. Cardinality(Opens(u)) = 0 /\ Cardinality(Starts(u)) = 0
    BY <2>1, FS_EmptySet
  <2> QED
    BY <2>2, Places, LimitsAre
<1>6. Once!Init
  BY DEF Once!Init, Once!Unknown, LoginOf
<1> QED
  BY <1>2, <1>3, <1>4, <1>5, <1>6 DEF LoginInv

-----------------------------------------------------------------------------
(* A credential is stored at most once of a login, for the user who opened *)
(* it, and nobody has more logins open or being started than the limit.    *)
THEOREM Inductive == TabSpec => []LoginInv
<1>1. LoginInv /\ [TabNext]_allVars => LoginInv'
  BY LoginStep
<1> QED
  BY <1>1, LoginInit, PTL DEF TabSpec

(* The login keeps its promise: the store, the handlers, the network and   *)
(* the tab together implement LoginOnce.                                   *)
THEOREM EndsOnce == TabSpec => LoginEndsOnce
<1>1. LoginInv /\ [TabNext]_allVars =>
         [Once!Next]_([s \in States |-> LoginOf(s)])
  BY LoginStep DEF Login
<1> QED
  BY <1>1, LoginInit, Inductive, PTL DEF TabSpec, LoginEndsOnce, Once!Spec

-----------------------------------------------------------------------------
(* A consumed login keeps no token.                                        *)
Forgetful ==
    \A s \in States : owners[s] # None /\ owners[s].consumed => ~owners[s].progress

(* One owner is written.                                                   *)
LEMMA ForgetfulKeeps ==
    ASSUME Forgetful, NEW s \in States, owners \in [States -> {None} \union Owner],
           NEW o, owners' = [owners EXCEPT ![s] = o], o.consumed => ~o.progress
    PROVE  Forgetful'
BY DEF Forgetful

(* A login that is consumed forgets its token.                             *)
LEMMA ConsumeForgets ==
    ASSUME LoginInv, Forgetful, NEW u \in Users, NEW s \in States, Pending(u, s),
           Consume(s)
    PROVE  Forgetful'
<1>1. owners[s] \in Owner /\ owners \in [States -> {None} \union Owner]
  BY DEF LoginInv, Types, Pending
<1> DEFINE o == [owners[s] EXCEPT !.consumed = TRUE, !.progress = FALSE, !.age = 0]
<1>2. owners' = [owners EXCEPT ![s] = o]
  BY DEF Consume
<1>3. ASSUME NEW r \in Owner
      PROVE  ~[r EXCEPT !.consumed = TRUE, !.progress = FALSE, !.age = 0].progress
  BY DEF Owner
<1>4. ~o.progress
  BY <1>1, <1>3
<1> HIDE DEF o
<1> QED BY <1>1, <1>2, <1>4, ForgetfulKeeps

(* Progress comes only to a login that is pending (set_progress).          *)
LEMMA ForgetfulStep ==
    ASSUME LoginInv, Forgetful, [TabNext]_allVars
    PROVE  Forgetful'
<1> USE DEF LoginInv, Types
<1>1. CASE UNCHANGED owners
  BY <1>1 DEF Forgetful
<1>2. ASSUME NEW c \in Calls, NEW s \in States, FinishStart(c, s)
      PROVE  Forgetful'
  <2>1. CASE UNCHANGED owners
    BY <2>1, <1>1
  <2>2. CASE ~(starting[c] = None \/ owners[s] # None)
    <3> DEFINE o == [user |-> call[c].user, age |-> 0,
                     consumed |-> FALSE, progress |-> FALSE]
    <3>1. owners' = [owners EXCEPT ![s] = o] /\ ~o.consumed
      BY <1>2, <2>2 DEF FinishStart
    <3> HIDE DEF o
    <3> QED BY <3>1, ForgetfulKeeps
  <2> QED BY <1>2, <2>1, <2>2 DEF FinishStart
<1>3. ASSUME NEW c \in Calls, NEW answer, NEW progress, PollEnds(c, answer, progress)
      PROVE  Forgetful'
  <2> DEFINE s == call[c].state
             o == [owners[s] EXCEPT !.progress = TRUE]
  <2>1. CASE UNCHANGED owners
    BY <2>1, <1>1
  <2>2. CASE progress /\ MayProgress(call[c].user, s)
    <3>1. owners' = [owners EXCEPT ![s] = o] /\ owners[s] # None /\ ~owners[s].consumed
      BY <1>3, <2>2 DEF PollEnds, MayProgress, Pending
    <3>2. s \in States
      BY <1>3 DEF PollEnds, Unsuccessful, Named, Busy
    <3>3. ASSUME NEW r \in Owner PROVE [r EXCEPT !.progress = TRUE].consumed = r.consumed
      BY DEF Owner
    <3>4. ~o.consumed
      BY <3>1, <3>2, <3>3
    <3> HIDE DEF o
    <3> QED BY <3>1, <3>2, <3>4, ForgetfulKeeps
  <2> QED BY <1>3, <2>1, <2>2 DEF PollEnds
<1>4. ASSUME NEW c \in Calls, NEW stored, PollSucceeds(c, stored)
      PROVE  Forgetful'
  <2>1. PICK u \in Users, s \in States : u = call[c].user /\ s = call[c].state
    BY <1>4 DEF PollSucceeds, Named, Busy
  <2>2. CASE Pending(u, s)
    BY <1>4, <2>1, <2>2, ConsumeForgets DEF PollSucceeds
  <2>3. CASE UNCHANGED owners
    BY <2>3, <1>1
  <2> QED BY <1>4, <2>1, <2>2, <2>3 DEF PollSucceeds
<1>5. ASSUME NEW u \in Users, NEW s \in States, CancelAuth(u, s) PROVE Forgetful'
  BY <1>1, <1>5, ConsumeForgets DEF CancelAuth
<1>6. CASE TabTick
  <2>1. ASSUME NEW s \in States, owners'[s] # None, owners'[s].consumed
        PROVE  ~owners'[s].progress
    <3>1. owners[s] # None /\ owners'[s] = [owners[s] EXCEPT !.age = @ + 1]
      BY <1>6, <2>1 DEF TabTick, Tick
    <3>2. ASSUME NEW r \in Owner
          PROVE  LET q == [r EXCEPT !.age = @ + 1]
                 IN q.consumed = r.consumed /\ q.progress = r.progress
      BY DEF Owner
    <3> QED BY <2>1, <3>1, <3>2 DEF Forgetful
  <2> QED BY <2>1 DEF Forgetful
<1>7. ASSUME NEW c \in Calls, Upstream(c) PROVE Forgetful'
  BY <1>1, <1>2, <1>3, <1>4, <1>7 DEF Upstream, StartFails, StageOk, storeVars
<1>8. CASE Server(Starters)
  <2>1. ASSUME NEW u \in Users, NEW s \in States,
               CancelArrives(u, s) \/ CancelLost(u, s) \/ ClientCancels(u, s)
        PROVE  Forgetful'
    BY <1>1, <1>5, <2>1 DEF CancelArrives, CancelLost, ClientCancels, storeVars
  <2>2. ASSUME NEW c \in Calls,
               \/ \E u \in Starters : BeginStart(c, u)
               \/ \E u \in Users, s \in States : BeginPoll(c, u, s)
               \/ RequestLost(c) \/ AnswerLost(c)
        PROVE  Forgetful'
    BY <1>1, <2>2 DEF BeginStart, BeginPoll, RequestLost, AnswerLost, storeVars
  <2> QED BY <1>7, <1>8, <2>1, <2>2 DEF Server
<1>9. CASE TabStep
  BY <1>1, <1>9 DEF TabStep, Expires, GivesUp, StartLogin, Started, PollTimer, Polled,
                    Ignored, storeVars
<1>10. CASE UNCHANGED allVars
  BY <1>1, <1>10 DEF allVars, vars
<1> QED BY <1>6, <1>8, <1>9, <1>10 DEF TabNext

-----------------------------------------------------------------------------
(* The attempts of a user are in the order they came in and never too many. *)
AttemptsOk(a) ==
    /\ a \in Seq(0..(Window - 1)) /\ Len(a) <= MaxAttempts
    /\ \A i, j \in 1..Len(a) : i <= j => a[j] <= a[i]

(* The same of all users.                                                  *)
Attempts ==
    /\ attempts \in [Users -> Seq(0..(Window - 1))]
    /\ \A u \in Users : AttemptsOk(attempts[u])

(* One more attempt.                                                       *)
LEMMA OneMoreAttempt ==
    ASSUME NEW a, AttemptsOk(a), Len(a) < MaxAttempts
    PROVE  AttemptsOk(Append(a, 0))
<1>1. 0 \in 0..(Window - 1) /\ MaxAttempts \in Nat
  BY LimitsPositive
<1>2. a \in Seq(0..(Window - 1)) /\ Len(a) \in Nat
  BY DEF AttemptsOk
<1> DEFINE b == Append(a, 0)
<1>3. /\ b \in Seq(0..(Window - 1)) /\ Len(b) = Len(a) + 1
      /\ \A i \in 1..Len(a) : b[i] = a[i]
      /\ b[Len(a) + 1] = 0
  BY <1>1, <1>2, AppendProperties
<1> HIDE DEF b
<1>4. \A i \in 1..Len(b) : b[i] \in Nat
  BY <1>3, LimitsPositive
<1>5. ASSUME NEW i \in 1..Len(b), NEW j \in 1..Len(b), i <= j PROVE b[j] <= b[i]
  <2>1. CASE j = Len(a) + 1
    BY <1>3, <1>4, <2>1
  <2>2. CASE j # Len(a) + 1
    <3>1. i \in 1..Len(a) /\ j \in 1..Len(a)
      BY <1>2, <1>3, <1>5, <2>2
    <3> QED BY <1>3, <1>5, <3>1 DEF AttemptsOk
  <2> QED BY <2>1, <2>2
<1>6. Len(b) <= MaxAttempts
  BY <1>1, <1>2, <1>3
<1> QED BY <1>3, <1>5, <1>6 DEF AttemptsOk, b

(* Those that leave the window are the first ones.                         *)
LEMMA AgedAreFirst ==
    ASSUME NEW u \in Users, Attempts
    PROVE  /\ Cardinality(Aged(u)) \in 0..Len(attempts[u])
           /\ \A i \in 1..Len(attempts[u]) : i > Cardinality(Aged(u)) => i \notin Aged(u)
<1> DEFINE a == attempts[u]
           n == Len(a)
           A == Aged(u)
<1>1. a \in Seq(0..(Window - 1)) /\ n \in Nat /\ DOMAIN a = 1..n
  BY DEF Attempts
<1>2. A \subseteq 1..n
  BY <1>1 DEF Aged
<1>3. IsFiniteSet(1..n) /\ Cardinality(1..n) = n
  BY <1>1, FS_Interval
<1>4. IsFiniteSet(A) /\ Cardinality(A) <= n /\ Cardinality(A) \in Nat
  BY <1>2, <1>3, FS_Subset, FS_CardinalityType
<1>5. ASSUME NEW i \in A PROVE i <= Cardinality(A)
  <2>1. 1..i \subseteq A
    <3> SUFFICES ASSUME NEW j \in 1..i PROVE j \in A
      OBVIOUS
    <3>1. i \in 1..n /\ j \in 1..n /\ j <= i
      BY <1>1, <1>2
    <3>2. a[i] <= a[j] /\ a[i] \in Nat /\ a[j] \in Nat /\ a[i] + 1 >= Window /\ Window \in Nat
      BY <1>1, <3>1, LimitsPositive, SMTT(30) DEF Attempts, AttemptsOk, Aged
    <3>3. a[j] + 1 >= Window
      BY <3>2
    <3> QED BY <1>1, <3>1, <3>3 DEF Aged
  <2>2. i \in Nat /\ IsFiniteSet(1..i) /\ Cardinality(1..i) = i
    <3>1. i \in 1..n
      BY <1>2
    <3>2. i \in Nat /\ i >= 1
      BY <1>1, <3>1
    <3> QED BY <3>2, FS_Interval
  <2>3. Cardinality(1..i) <= Cardinality(A)
    BY <1>4, <2>1, FS_Subset
  <2> QED BY <2>2, <2>3
<1> HIDE DEF A
<1>6. Cardinality(A) \in 0..n
  BY <1>1, <1>4
<1>7. ASSUME NEW i \in 1..n, i > Cardinality(A) PROVE i \notin A
  BY <1>1, <1>4, <1>5, <1>7
<1> QED BY <1>6, <1>7 DEF A

(* A second later.                                                         *)
LEMMA AttemptsAge ==
    ASSUME NEW u \in Users, Attempts
    PROVE  AttemptsOk([i \in DOMAIN Recent(u) |-> Recent(u)[i] + 1])
<1> DEFINE a == attempts[u]
           n == Len(a)
           k == Cardinality(Aged(u))
           r == Recent(u)
           b == [i \in DOMAIN r |-> r[i] + 1]
<1>1. a \in Seq(0..(Window - 1)) /\ n \in Nat /\ DOMAIN a = 1..n /\ n <= MaxAttempts
  BY DEF Attempts, AttemptsOk
<1>2. k \in 0..n /\ \A i \in 1..n : i > k => i \notin Aged(u)
  BY AgedAreFirst
<1>3. k \in Nat /\ k <= n
  BY <1>1, <1>2
<1>10. \A i \in 1..n : a[i] \in 0..(Window - 1)
  BY <1>1, ElementOfSeq
<1>4. /\ r \in Seq(0..(Window - 1)) /\ Len(r) = n - k
      /\ \A i \in 1..(n - k) : r[i] = a[k + i]
  <2>1. r = SubSeq(a, k + 1, n)
    BY DEF Recent
  <2> HIDE DEF k, r, a, n
  <2>2. CASE k < n
    <3>1. \A i \in (k + 1)..n : i \in 1..n
      BY <1>1, <1>3
    <3>2. \A i \in (k + 1)..n : a[i] \in 0..(Window - 1)
      BY <1>10, <3>1
    <3> QED BY <1>1, <1>3, <2>1, <2>2, <3>2, SubSeqProperties
  <2>3. CASE k = n
    BY <1>1, <1>3, <2>1, <2>3, SubSeqProperties
  <2> QED BY <1>3, <1>1, <2>2, <2>3
<1>5. ASSUME NEW i \in 1..(n - k)
      PROVE  r[i] \in Nat /\ r[i] + 1 \in 0..(Window - 1)
  <2>1. k + i \in 1..n /\ k + i > k
    BY <1>1, <1>3
  <2>2. ~(a[k + i] + 1 >= Window) /\ a[k + i] \in 0..(Window - 1)
    <3>1. k + i \notin Aged(u)
      BY <1>2, <2>1
    <3>2. a[k + i] \in 0..(Window - 1) /\ k + i \in DOMAIN a
      BY <1>1, <1>10, <2>1
    <3> HIDE DEF k
    <3> QED BY <3>1, <3>2 DEF Aged
  <2>3. Window \in Nat
    BY LimitsPositive
  <2> HIDE DEF a, k, n, r
  <2> QED BY <1>4, <2>2, <2>3
<1>6. ASSUME NEW i \in 1..(n - k), NEW j \in 1..(n - k), i <= j
      PROVE  r[j] + 1 <= r[i] + 1
  <2>1. k + i \in 1..n /\ k + j \in 1..n /\ k + i <= k + j
    BY <1>1, <1>3, <1>6
  <2>2. a[k + j] <= a[k + i]
    BY <2>1 DEF Attempts, AttemptsOk
  <2>3. r[j] <= r[i] /\ r[i] \in Nat /\ r[j] \in Nat
    BY <1>4, <1>5, <2>2
  <2> QED BY <2>3
<1>7. DOMAIN r = 1..(n - k) /\ n - k \in Nat
  BY <1>1, <1>3, <1>4
<1> HIDE DEF a, n, k, r
<1>8. b \in Seq(0..(Window - 1)) /\ Len(b) = n - k
  <2>1. b \in [1..(n - k) -> 0..(Window - 1)]
    BY <1>5, <1>7
  <2>2. ASSUME NEW m \in Nat, NEW q \in [1..m -> 0..(Window - 1)]
        PROVE  q \in Seq(0..(Window - 1)) /\ Len(q) = m
    <3>1. q \in Seq(0..(Window - 1))
      BY SeqDef, Zenon
    <3>2. Len(q) \in Nat /\ 1..Len(q) = 1..m
      BY <3>1, LenProperties
    <3> QED BY <3>1, <3>2
  <2> HIDE DEF b
  <2> QED BY <1>7, <2>1, <2>2
<1>9. n - k <= MaxAttempts
  BY <1>1, <1>3, LimitsPositive
<1> QED BY <1>6, <1>7, <1>8, <1>9 DEF AttemptsOk, r

(* Only a start and the clock touch the attempts.                          *)
LEMMA AttemptsStep ==
    ASSUME Attempts, [TabNext]_allVars
    PROVE  Attempts'
<1>1. CASE UNCHANGED attempts
  BY <1>1 DEF Attempts, AttemptsOk
<1>2. ASSUME NEW c \in Calls, NEW u \in Users, BeginStart(c, u) PROVE Attempts'
  <2>1. CASE Len(attempts[u]) < MaxAttempts
             /\ attempts' = [attempts EXCEPT ![u] = Append(@, 0)]
    <3>1. AttemptsOk(Append(attempts[u], 0))
      BY <2>1, OneMoreAttempt DEF Attempts
    <3>2. \A w \in Users : AttemptsOk(attempts'[w])
      BY <2>1, <3>1 DEF Attempts
    <3> QED BY <2>1, <3>2 DEF Attempts, AttemptsOk
  <2> QED BY <1>1, <1>2, <2>1 DEF BeginStart, storeVars
<1>3. CASE TabTick
  <2>1. attempts' = [u \in Users |-> [i \in DOMAIN Recent(u) |-> Recent(u)[i] + 1]]
    BY <1>3 DEF TabTick, Tick
  <2>2. \A u \in Users : AttemptsOk(attempts'[u])
    BY <2>1, AttemptsAge
  <2> QED BY <2>1, <2>2 DEF Attempts, AttemptsOk
<1>4. CASE Server(Starters)
  <2>1. ASSUME NEW c \in Calls, Upstream(c) PROVE Attempts'
    BY <1>1, <2>1 DEF Upstream, FinishStart, StartFails, StageOk, PollEnds, PollSucceeds,
                      storeVars
  <2>2. ASSUME NEW u \in Users, NEW s \in States,
               CancelArrives(u, s) \/ CancelLost(u, s) \/ ClientCancels(u, s)
        PROVE  Attempts'
    BY <1>1, <2>2 DEF CancelArrives, CancelLost, ClientCancels, CancelAuth, storeVars
  <2>3. ASSUME NEW c \in Calls,
               \/ \E u \in Users, s \in States : BeginPoll(c, u, s)
               \/ RequestLost(c) \/ AnswerLost(c)
        PROVE  Attempts'
    BY <1>1, <2>3 DEF BeginPoll, RequestLost, AnswerLost, storeVars
  <2> QED BY <1>2, <1>4, <2>1, <2>2, <2>3, StartersAreUsers DEF Server
<1>5. CASE TabStep
  BY <1>1, <1>5 DEF TabStep, Expires, GivesUp, StartLogin, Started, PollTimer, Polled,
                    Ignored, storeVars
<1>6. CASE UNCHANGED allVars
  BY <1>1, <1>6 DEF allVars, vars
<1> QED BY <1>3, <1>4, <1>5, <1>6 DEF TabNext

-----------------------------------------------------------------------------
(* Where a poll can be, and what its answer can be.                        *)
PollPlaces == {"poll sent", "token", "account", "accounts",
               "pending", "refused", "failed", "saved", "lost"}

(* What the call v tells of its login.                                     *)
Tells(v) ==
    /\ v.at = "started" => v.state \in States
    /\ v.at = "starting" => v.state = None

(* A request v that the tab awaits is the one that the tab t sent.         *)
Awaited(v, t) ==
    /\ v.heard /\ v.at # "none"
    /\ t.inFlight \/ t.mode = "starting"
    /\ t.mode = "polling" =>
          /\ v.at \in PollPlaces
          /\ v.at # "lost" => v.state = t.state

(* The tab by itself: when it polls it knows the login, and either has a   *)
(* request under way or a timer running.                                   *)
TabShape ==
    /\ cancels \subseteq Users \X States
    /\ tab.mode = "polling" <=> tab.state # None
    /\ tab.mode = "polling" => (tab.inFlight <=> ~tab.timer)
    /\ tab.mode # "polling" => ~tab.inFlight /\ ~tab.timer

(* ... and its requests: it awaits one when it should, and no other.       *)
TabInv ==
    /\ TabShape
    /\ \A c \in Calls : /\ Tells(call[c])
                        /\ promise[c] = "own" => Awaited(call[c], tab)
    /\ tab.inFlight \/ tab.mode = "starting" => \E c \in Calls : promise[c] = "own"
    /\ \A c, d \in Calls : promise[c] = "own" /\ promise[d] = "own" => c = d

(* A request of the server moves, the tab does nothing.                    *)
LEMMA OneTells ==
    ASSUME LoginInv, TabInv, NEW c \in Calls, UNCHANGED <<tabVars, cancels>>,
           NEW v, call' = [call EXCEPT ![c] = v], Tells(v),
           promise[c] = "own" => Awaited(v, tab)
    PROVE  TabInv'
<1>1. \A d \in Calls : call'[d] = IF d = c THEN v ELSE call[d]
  BY DEF LoginInv, Types
<1>2. tab' = tab /\ promise' = promise /\ cancels' = cancels
  BY DEF tabVars
<1>3. \A d \in Calls : Tells(call'[d])
  BY <1>1 DEF TabInv
<1>4. \A d \in Calls : promise[d] = "own" => Awaited(call'[d], tab)
  BY <1>1 DEF TabInv
<1>5. TabShape'
  BY <1>2 DEF TabInv, TabShape
<1> QED BY <1>2, <1>3, <1>4, <1>5 DEF TabInv, Tells, Awaited

(* An answer: a poll of the tab is answered about its login, or lost.      *)
LEMMA ReplyTells ==
    ASSUME LoginInv, TabInv, NEW c \in Calls, NEW answer \in Answers,
           NEW s \in States \union {None}, Reply(c, answer, s),
           UNCHANGED <<tabVars, cancels>>,
           answer = "started" => s \in States,
           call[c].at \in PollPlaces =>
              answer \in PollPlaces /\ (answer # "lost" => s = call[c].state),
           answer # "lost" => call[c].at # "lost"
    PROVE  TabInv'
<1> DEFINE v == Replied(c, answer, s)
<1>1. call' = [call EXCEPT ![c] = v]
  BY DEF Reply, Replied
<1>2. call[c] \in CallType
  BY DEF LoginInv, Types, CallType
<1>3. CASE ~call[c].heard
  <2>1. v = NoCall /\ promise[c] # "own"
    BY <1>3 DEF Replied, TabInv, Awaited
  <2>2. Tells(NoCall)
    BY DEF Tells, NoCall
  <2> HIDE DEF v
  <2> QED BY <1>1, <2>1, <2>2, OneTells
<1>4. CASE call[c].heard
  <2>1. ASSUME NEW r \in CallType
        PROVE  LET q == [r EXCEPT !.at = answer, !.state = s]
               IN q.at = answer /\ q.state = s /\ q.heard = r.heard
    BY DEF CallType
  <2>2. v.at = answer /\ v.state = s /\ v.heard
    BY <1>2, <1>4, <2>1 DEF Replied
  <2> HIDE DEF v
  <2>3. Tells(v)
    BY <2>2 DEF Tells, Answers
  <2>4. ASSUME promise[c] = "own" PROVE Awaited(v, tab)
    <3>1. Awaited(call[c], tab)
      BY <2>4 DEF TabInv
    <3>2. answer # "none"
      BY DEF Answers
    <3> QED BY <2>2, <3>1, <3>2 DEF Awaited
  <2> QED BY <1>1, <2>3, <2>4, OneTells
<1> QED BY <1>3, <1>4

(* The server and the network answer what they were asked.                 *)
LEMMA RequestTells ==
    ASSUME LoginInv, TabInv, NEW c \in Calls, UNCHANGED tabVars,
           \/ \E u \in Users : BeginStart(c, u)
           \/ \E u \in Users, s \in States : BeginPoll(c, u, s)
           \/ Upstream(c) \/ RequestLost(c) \/ AnswerLost(c)
    PROVE  TabInv'
<1> USE DEF LoginInv
<1>1. ASSUME NEW u \in Users, BeginStart(c, u) PROVE TabInv'
  <2>1. call[c].at \in {"start sent", "none"} /\ cancels' = cancels
    BY <1>1 DEF BeginStart, Arrives, Idle
  <2>2. call[c].at \notin PollPlaces
    BY <2>1 DEF PollPlaces
  <2>3. CASE Reply(c, "limited", None)
    BY <2>1, <2>2, <2>3, ReplyTells DEF Answers
  <2>4. CASE Goes(c, "starting", u, None)
    <3> DEFINE v == [at |-> "starting", user |-> u, state |-> None,
                     heard |-> call[c].heard]
    <3>1. call' = [call EXCEPT ![c] = v] /\ Tells(v)
      BY <2>4 DEF Goes, Tells
    <3>2. ASSUME promise[c] = "own" PROVE Awaited(v, tab)
      <4>1. Awaited(call[c], tab)
        BY <3>2 DEF TabInv
      <4> QED BY <2>2, <4>1 DEF Awaited
    <3> HIDE DEF v
    <3> QED BY <2>1, <3>1, <3>2, OneTells
  <2> QED BY <1>1, <2>3, <2>4 DEF BeginStart
<1>2. ASSUME NEW u \in Users, NEW s \in States, BeginPoll(c, u, s) PROVE TabInv'
  <2>1. /\ call[c].at \in {"poll sent", "none"} /\ cancels' = cancels
        /\ call[c].at = "poll sent" => call[c].state = s
    BY <1>2 DEF BeginPoll, Arrives, Idle
  <2>2. CASE Reply(c, "refused", s)
    BY <2>1, <2>2, ReplyTells DEF Answers, PollPlaces
  <2>3. ASSUME NEW where \in {"account", "token"}, Goes(c, where, u, s)
        PROVE  TabInv'
    <3> DEFINE v == [at |-> where, user |-> u, state |-> s, heard |-> call[c].heard]
    <3>1. call' = [call EXCEPT ![c] = v] /\ Tells(v)
      BY <2>3 DEF Goes, Tells
    <3>2. ASSUME promise[c] = "own" PROVE Awaited(v, tab)
      <4>1. Awaited(call[c], tab)
        BY <3>2 DEF TabInv
      <4> QED BY <2>1, <4>1 DEF Awaited, PollPlaces
    <3> HIDE DEF v
    <3> QED BY <2>1, <3>1, <3>2, OneTells
  <2> QED BY <1>2, <2>2, <2>3 DEF BeginPoll
<1>3. ASSUME NEW s \in States, FinishStart(c, s) PROVE TabInv'
  <2>1. call[c].at = "starting" /\ call[c].at \notin PollPlaces /\ cancels' = cancels
    BY <1>3 DEF FinishStart, PollPlaces
  <2> QED BY <1>3, <2>1, ReplyTells DEF FinishStart, Answers
<1>4. ASSUME StartFails(c) PROVE TabInv'
  BY <1>4, ReplyTells DEF StartFails, Answers, PollPlaces
<1>5. ASSUME StageOk(c) PROVE TabInv'
  <2>1. PICK where \in {"account", "accounts"} :
           call' = [call EXCEPT ![c].at = where]
    BY <1>5 DEF StageOk
  <2>2. call[c].at \in {"token", "account"} /\ cancels' = cancels
    BY <1>5 DEF StageOk
  <2> DEFINE v == [call[c] EXCEPT !.at = where]
  <2>3. ASSUME NEW r \in CallType
        PROVE  LET q == [r EXCEPT !.at = where]
               IN q.at = where /\ q.state = r.state /\ q.heard = r.heard
    BY DEF CallType
  <2>4. v.at = where /\ v.state = call[c].state /\ v.heard = call[c].heard
    BY <2>3 DEF Types, CallType
  <2>5. call' = [call EXCEPT ![c] = v]
    BY <2>1
  <2> HIDE DEF v
  <2>6. Tells(v)
    BY <2>4 DEF Tells
  <2>7. ASSUME promise[c] = "own" PROVE Awaited(v, tab)
    <3>1. Awaited(call[c], tab)
      BY <2>7 DEF TabInv
    <3> QED BY <2>2, <2>4, <3>1 DEF Awaited, PollPlaces
  <2> QED BY <2>2, <2>5, <2>6, <2>7, OneTells
<1>6. ASSUME NEW answer \in {"pending", "refused", "failed"},
             NEW progress \in BOOLEAN, PollEnds(c, answer, progress)
      PROVE  TabInv'
  <2>1. /\ call[c].at \in {"token", "account", "accounts"}
        /\ Reply(c, answer, call[c].state) /\ cancels' = cancels
    BY <1>6 DEF PollEnds, Unsuccessful
  <2>2. call[c].state \in States \union {None}
    BY DEF Types
  <2> QED BY <2>1, <2>2, ReplyTells DEF Answers, PollPlaces
<1>7. ASSUME NEW stored \in BOOLEAN, PollSucceeds(c, stored) PROVE TabInv'
  <2>1. PICK answer \in {"saved", "failed", "refused"} :
           /\ call[c].at = "accounts" /\ cancels' = cancels
           /\ Reply(c, answer, call[c].state)
    BY <1>7 DEF PollSucceeds
  <2>2. call[c].state \in States \union {None}
    BY DEF Types
  <2> QED BY <2>1, <2>2, ReplyTells DEF Answers, PollPlaces
<1>8. ASSUME RequestLost(c) \/ AnswerLost(c) PROVE TabInv'
  BY <1>8, ReplyTells DEF RequestLost, AnswerLost, Answers, PollPlaces
<1> QED BY <1>1, <1>2, <1>3, <1>4, <1>5, <1>6, <1>7, <1>8 DEF Upstream

-----------------------------------------------------------------------------
(* The tab gives up: it awaits nothing any more.                           *)
LEMMA AbortTells ==
    ASSUME LoginInv, TabInv, NEW ended \in SUBSET Calls, Abort(ended), TabShape',
           ~tab'.inFlight, tab'.mode # "starting"
    PROVE  TabInv'
<1>1. \A c \in Calls : promise'[c] # "own"
  BY DEF Abort
<1>2. ASSUME NEW c \in Calls PROVE Tells(call'[c])
  <2>1. call[c] \in CallType /\ Tells(call[c])
    BY DEF LoginInv, Types, CallType, TabInv
  <2>2. Tells(NoCall)
    BY DEF Tells, NoCall
  <2>3. ASSUME NEW r \in CallType
        PROVE  LET q == [r EXCEPT !.heard = FALSE]
               IN q.at = r.at /\ q.state = r.state
    BY DEF CallType
  <2>4. Tells([call[c] EXCEPT !.heard = FALSE])
    BY <2>1, <2>3 DEF Tells
  <2> QED BY <2>1, <2>2, <2>4 DEF Abort
<1> QED BY <1>1, <1>2 DEF TabInv, Tells

(* The tab as reset, and with what it is to follow.                        *)
LEMMA ResetShape ==
    /\ Reset.mode = "idle" /\ Reset.state = None /\ ~Reset.inFlight /\ ~Reset.timer
    /\ \A mode : LET t == [Reset EXCEPT !.mode = mode]
                 IN t.mode = mode /\ t.state = None /\ ~t.inFlight /\ ~t.timer
    /\ \A s : LET t == [Reset EXCEPT !.mode = "polling", !.state = s, !.inFlight = TRUE]
              IN t.mode = "polling" /\ t.state = s /\ t.inFlight /\ ~t.timer
BY DEF Reset

(* It gives up the login it follows.                                       *)
LEMMA CancelShape ==
    ASSUME LoginInv, TabInv, NEW mode \in {"idle", "closed"}, CancelAndReset(mode)
    PROVE  TabShape' /\ ~tab'.inFlight /\ tab'.mode # "starting"
<1>1. tab'.mode = mode /\ tab'.state = None /\ ~tab'.inFlight /\ ~tab'.timer
  BY ResetShape DEF CancelAndReset
<1>2. cancels' \subseteq Users \X States
  <2>1. tab.state \in States \union {None}
    BY DEF LoginInv, Types
  <2> QED BY <2>1, TabIsUser DEF CancelAndReset, TabInv, TabShape
<1> QED BY <1>1, <1>2 DEF TabShape

(* It sends a request and has no other.                                    *)
LEMMA SendTells ==
    ASSUME LoginInv, TabInv, NEW c \in Calls, NEW what \in {"start sent", "poll sent"},
           NEW s, Sends(c, what, s), TabShape',
           \A d \in Calls : promise[d] = "own" => d = c,
           IF what = "poll sent" THEN tab'.inFlight /\ tab'.state = s
           ELSE tab'.mode = "starting"
    PROVE  TabInv'
<1> DEFINE v == [at |-> what, user |-> TabUser, state |-> s, heard |-> TRUE]
<1>1. \A d \in Calls : call'[d] = IF d = c THEN v ELSE call[d]
  BY DEF Sends, LoginInv, Types
<1>2. \A d \in Calls : promise'[d] = IF d = c THEN "own" ELSE promise[d]
  BY DEF Sends, LoginInv, Types
<1>3. Tells(v) /\ Awaited(v, tab')
  BY DEF Tells, Awaited, PollPlaces
<1> HIDE DEF v
<1>4. \A d \in Calls : Tells(call'[d]) /\ (promise'[d] = "own" => Awaited(call'[d], tab'))
  BY <1>1, <1>2, <1>3 DEF TabInv
<1>5. promise'[c] = "own" /\ \A d \in Calls : promise'[d] = "own" => d = c
  BY <1>2
<1> QED BY <1>4, <1>5 DEF TabInv, Tells, Awaited

(* It takes an answer; what else it awaits is as before.                   *)
LEMMA SettledTells ==
    ASSUME LoginInv, TabInv, NEW c \in Calls, Settled(c), TabShape',
           \/ promise[c] # "own" /\ tab' = tab
           \/ promise[c] = "own" /\ ~tab'.inFlight /\ tab'.mode # "starting"
    PROVE  TabInv'
<1>1. \A d \in Calls : /\ call'[d] = IF d = c THEN NoCall ELSE call[d]
                       /\ promise'[d] = IF d = c THEN "none" ELSE promise[d]
  BY DEF Settled, LoginInv, Types
<1>2. Tells(NoCall)
  BY DEF Tells, NoCall
<1>3. \A d \in Calls : Tells(call'[d])
  BY <1>1, <1>2 DEF TabInv
<1>4. CASE promise[c] # "own" /\ tab' = tab
  <2>1. \A d \in Calls : promise'[d] = "own" <=> promise[d] = "own"
    BY <1>1, <1>4
  <2>2. \A d \in Calls : promise'[d] = "own" => Awaited(call'[d], tab')
    BY <1>1, <1>4 DEF TabInv
  <2> QED BY <1>3, <1>4, <2>1, <2>2 DEF TabInv, Tells, Awaited
<1>5. CASE promise[c] = "own" /\ ~tab'.inFlight /\ tab'.mode # "starting"
  <2>1. \A d \in Calls : promise'[d] # "own"
    BY <1>1, <1>5 DEF TabInv
  <2> QED BY <1>3, <1>5, <2>1 DEF TabInv, Tells, Awaited
<1> QED BY <1>4, <1>5

(* Every step of the tab.                                                  *)
LEMMA TabTells ==
    ASSUME LoginInv, TabInv, TabStep
    PROVE  TabInv'
<1>1. /\ tab \in TabType /\ cancels \subseteq Users \X States
      /\ tab.inFlight \in BOOLEAN /\ tab.timer \in BOOLEAN
  BY DEF LoginInv, Types, TabType, TabInv, TabShape
<1>2. CASE Expires
  BY <1>2, CancelShape, AbortTells DEF Expires
<1>3. CASE GivesUp
  BY <1>3, CancelShape, AbortTells DEF GivesUp
<1>4. ASSUME NEW c \in Calls, StartLogin(c) PROVE TabInv'
  <2>1. tab.mode = "idle" /\ Sends(c, "start sent", None) /\ cancels' = cancels
        /\ tab' = [Reset EXCEPT !.mode = "starting"]
    BY <1>4 DEF StartLogin
  <2>2. tab'.mode = "starting" /\ tab'.state = None /\ ~tab'.inFlight /\ ~tab'.timer
    BY <2>1, ResetShape
  <2>3. TabShape'
    BY <1>1, <2>1, <2>2 DEF TabShape
  <2>4. \A d \in Calls : promise[d] # "own"
    BY <2>1 DEF TabInv, TabShape, Awaited
  <2> QED BY <2>1, <2>2, <2>3, <2>4, SendTells
<1>5. ASSUME NEW c \in Calls, Started(c) PROVE TabInv'
  <2>1. /\ promise[c] = "own" /\ \A d \in Calls : promise[d] = "own" => d = c
        /\ call[c].at = "started" => call[c].state \in States /\ call[c].state # None
    BY <1>5, NoneIsNothing DEF Started, Current, TabInv, Tells
  <2>2. CASE /\ call[c].at = "started"
             /\ tab' = [Reset EXCEPT !.mode = "polling",
                                     !.state = call[c].state, !.inFlight = TRUE]
             /\ Sends(c, "poll sent", call[c].state)
             /\ UNCHANGED cancels
    <3>1. /\ tab'.mode = "polling" /\ tab'.state = call[c].state
          /\ tab'.inFlight /\ ~tab'.timer
      BY <2>2, ResetShape
    <3>2. TabShape'
      BY <1>1, <2>1, <2>2, <3>1 DEF TabShape
    <3> QED BY <2>1, <2>2, <3>1, <3>2, SendTells
  <2>3. CASE tab' = Reset /\ Abort({c}) /\ cancels' \subseteq Users \X States
    <3>1. TabShape' /\ ~tab'.inFlight /\ tab'.mode # "starting"
      BY <2>3, ResetShape DEF TabShape
    <3> QED BY <2>3, <3>1, AbortTells
  <2>4. cancels \union {<<TabUser, call[c].state>>} \subseteq Users \X States
        \/ call[c].at # "started"
    BY <1>1, <2>1, TabIsUser
  <2> QED BY <1>1, <1>5, <2>2, <2>3, <2>4 DEF Started, ResetOnly
<1>6. ASSUME NEW c \in Calls, PollTimer(c) PROVE TabInv'
  <2>1. CASE tab.age >= Deadline
    BY <1>6, <2>1, CancelShape, AbortTells DEF PollTimer
  <2>2. CASE ~(tab.age >= Deadline)
    <3>1. /\ tab.mode = "polling" /\ ~tab.inFlight /\ cancels' = cancels
          /\ tab' = [tab EXCEPT !.timer = FALSE, !.inFlight = TRUE]
          /\ Sends(c, "poll sent", tab.state)
      BY <1>6, <2>2 DEF PollTimer
    <3>2. ASSUME NEW t \in TabType
          PROVE  LET q == [t EXCEPT !.timer = FALSE, !.inFlight = TRUE]
                 IN q.mode = t.mode /\ q.state = t.state /\ q.inFlight /\ ~q.timer
      BY DEF TabType
    <3>3. tab'.mode = "polling" /\ tab'.state = tab.state /\ tab'.inFlight /\ ~tab'.timer
      BY <1>1, <3>1, <3>2
    <3>4. TabShape'
      BY <1>1, <3>1, <3>3 DEF TabInv, TabShape
    <3>5. \A d \in Calls : promise[d] # "own"
      BY <3>1 DEF TabInv, Awaited
    <3> QED BY <3>1, <3>3, <3>4, <3>5, SendTells
  <2> QED BY <2>1, <2>2
<1>7. ASSUME NEW c \in Calls, Polled(c) PROVE TabInv'
  <2>1. promise[c] = "own" /\ tab.mode = "polling"
    BY <1>7 DEF Polled, Current
  <2>2. CASE Abort({c}) /\ ResetOnly
    <3>1. TabShape' /\ ~tab'.inFlight /\ tab'.mode # "starting"
      BY <1>1, <2>2, ResetShape DEF ResetOnly, TabShape
    <3> QED BY <2>2, <3>1, AbortTells
  <2>3. CASE Abort({c}) /\ CancelAndReset("idle")
    BY <2>3, CancelShape, AbortTells
  <2>4. CASE Settled(c) /\ CancelAndReset("idle")
    BY <2>1, <2>4, CancelShape, SettledTells
  <2>5. CASE /\ Settled(c) /\ cancels' = cancels
             /\ tab' = [tab EXCEPT !.inFlight = FALSE, !.timer = TRUE]
    <3>1. ASSUME NEW t \in TabType
          PROVE  LET q == [t EXCEPT !.inFlight = FALSE, !.timer = TRUE]
                 IN q.mode = t.mode /\ q.state = t.state /\ ~q.inFlight /\ q.timer
      BY DEF TabType
    <3>2. tab'.mode = "polling" /\ tab'.state = tab.state /\ ~tab'.inFlight /\ tab'.timer
      BY <1>1, <2>1, <2>5, <3>1
    <3>3. TabShape'
      BY <1>1, <2>1, <2>5, <3>2 DEF TabInv, TabShape
    <3> QED BY <2>1, <2>5, <3>2, <3>3, SettledTells
  <2> QED BY <1>7, <2>2, <2>3, <2>4, <2>5 DEF Polled, ScheduleNextPoll
<1>8. ASSUME NEW c \in Calls, Ignored(c) PROVE TabInv'
  <2>1. promise[c] # "own" /\ Settled(c) /\ tab' = tab /\ cancels' = cancels
    BY <1>8 DEF Ignored
  <2>2. TabShape'
    BY <2>1 DEF TabInv, TabShape
  <2> QED BY <2>1, <2>2, SettledTells
<1> QED BY <1>2, <1>3, <1>4, <1>5, <1>6, <1>7, <1>8 DEF TabStep

(* Nothing that the tab or its requests show changes but the age.          *)
LEMMA SameTells ==
    ASSUME LoginInv, TabInv, UNCHANGED <<call, promise>>, cancels' \subseteq Users \X States,
           tab'.mode = tab.mode, tab'.state = tab.state,
           tab'.inFlight = tab.inFlight, tab'.timer = tab.timer
    PROVE  TabInv'
<1>1. TabShape'
  BY DEF TabInv, TabShape
<1> QED BY <1>1 DEF TabInv, Tells, Awaited

(* Every step of the tab, the server and the clock keeps it.               *)
LEMMA TabInvStep ==
    ASSUME LoginInv, TabInv, [TabNext]_allVars
    PROVE  TabInv'
<1>1. cancels \subseteq Users \X States
  BY DEF TabInv, TabShape
<1>2. CASE TabStep
  BY <1>2, TabTells
<1>3. CASE Server(Starters) /\ UNCHANGED tabVars
  <2>1. ASSUME NEW u \in Users, NEW s \in States,
               CancelArrives(u, s) \/ CancelLost(u, s) \/ ClientCancels(u, s)
        PROVE  TabInv'
    BY <1>1, <1>3, <2>1, SameTells
       DEF CancelArrives, CancelLost, ClientCancels, CancelAuth, tabVars
  <2>2. ASSUME NEW c \in Calls,
               \/ \E u \in Starters : BeginStart(c, u)
               \/ \E u \in Users, s \in States : BeginPoll(c, u, s)
               \/ Upstream(c) \/ RequestLost(c) \/ AnswerLost(c)
        PROVE  TabInv'
    BY <1>3, <2>2, RequestTells, StartersAreUsers
  <2> QED BY <1>3, <2>1, <2>2 DEF Server
<1>4. CASE TabTick
  <2>1. /\ UNCHANGED <<call, promise, cancels>>
        /\ tab' = [tab EXCEPT !.age = tab'.age]
    BY <1>4 DEF TabTick, Tick
  <2>2. ASSUME NEW t \in TabType, NEW n
        PROVE  LET q == [t EXCEPT !.age = n]
               IN q.mode = t.mode /\ q.state = t.state
                  /\ q.inFlight = t.inFlight /\ q.timer = t.timer
    BY DEF TabType
  <2>3. tab \in TabType
    BY DEF LoginInv, Types, TabType
  <2> QED BY <1>1, <2>1, <2>2, <2>3, SameTells, ZenonT(60)
<1>5. CASE UNCHANGED allVars
  BY <1>1, <1>5, SameTells DEF allVars, vars, tabVars
<1> QED BY <1>2, <1>3, <1>4, <1>5 DEF TabNext

-----------------------------------------------------------------------------
(* All that is known of the login and of the tab.                          *)
PollInv == LoginInv /\ Forgetful /\ Attempts /\ TabInv

(* At first the tab shows nothing and nobody has tried.                    *)
LEMMA PollInit == TabInit => PollInv
<1> SUFFICES ASSUME TabInit PROVE PollInv
  OBVIOUS
<1>1. LoginInv
  BY LoginInit
<1>2. Forgetful
  BY DEF TabInit, Init, Forgetful
<1>3. Attempts
  <2>1. AttemptsOk(<< >>)
    BY EmptySeq, LimitsPositive DEF AttemptsOk
  <2>2. attempts = [u \in Users |-> << >>]
    BY DEF TabInit, Init
  <2> QED BY <2>1, <2>2 DEF Attempts, AttemptsOk
<1>4. TabInv
  <2>1. /\ tab = Reset /\ \A c \in Calls : promise[c] = "none" /\ call[c] = NoCall
        /\ cancels = {}
    BY DEF TabInit, Init
  <2>2. Tells(NoCall)
    BY DEF Tells, NoCall
  <2> QED BY <2>1, <2>2, ResetShape DEF TabInv, TabShape
<1> QED BY <1>1, <1>2, <1>3, <1>4 DEF PollInv

(* Every step keeps it.                                                    *)
LEMMA PollStep == PollInv /\ [TabNext]_allVars => PollInv'
BY LoginStep, ForgetfulStep, AttemptsStep, TabInvStep DEF PollInv

(* It always holds.                                                        *)
LEMMA PollAlways == TabSpec => []PollInv
<1>1. PollInv /\ [TabNext]_allVars => PollInv'
  BY PollStep
<1> QED BY PollInit, <1>1, PTL DEF TabSpec

(* Never more than MaxActive logins of a user are open or being started,   *)
(* and never more than MaxAttempts of its starts are in a window; a        *)
(* consumed login keeps no token (begin_start, consume, set_progress).     *)
THEOREM HoldsLimits == TabSpec => []LimitsHold
<1>1. PollInv => LimitsHold
  BY DEF PollInv, LoginInv, Limited, Forgetful, Attempts, AttemptsOk, LimitsHold
<1> QED BY <1>1, PollAlways, PTL

(* While it polls the tab has one request under way or one timer running,  *)
(* not both and not neither; otherwise it has no timer and, unless it is   *)
(* starting, awaits nothing (pollInFlight, clearRuntime).                  *)
THEOREM PollsOneAtATime == TabSpec => []OnePollAtATime
<1>1. ASSUME PollInv PROVE OnePollAtATime
  <2> USE <1>1 DEF PollInv
  <2> DEFINE own == {c \in Calls : promise[c] = "own"}
  <2>1. TabTypeOK
    BY DEF LoginInv, Types, Attempts, TabInv, TabShape, TabTypeOK, TypeOK
  <2>2. Cardinality(own) = IF tab.inFlight \/ tab.mode = "starting" THEN 1 ELSE 0
    <3>1. CASE tab.inFlight \/ tab.mode = "starting"
      <4>1. PICK c \in Calls : promise[c] = "own"
        BY <3>1 DEF TabInv
      <4>2. own = {c}
        BY <4>1 DEF TabInv
      <4> HIDE DEF own
      <4> QED BY <3>1, <4>2, FS_Singleton
    <3>2. CASE ~(tab.inFlight \/ tab.mode = "starting")
      <4>1. own = {}
        BY <3>2 DEF TabInv, Awaited
      <4> HIDE DEF own
      <4> QED BY <3>2, <4>1, FS_EmptySet
    <3> QED BY <3>1, <3>2
  <2>3. /\ tab.mode = "polling" => tab.inFlight # tab.timer
        /\ tab.mode # "polling" => ~tab.inFlight /\ ~tab.timer
    BY DEF TabInv, TabShape
  <2> QED BY <2>1, <2>2, <2>3 DEF OnePollAtATime
<1>2. PollInv => OnePollAtATime
  BY <1>1
<1> QED BY <1>2, PollAlways, PTL

(* An answer the tab acts upon is about the login it shows, whatever       *)
(* answers to an earlier one come in late (isCurrentController).           *)
THEOREM ActsOnItsOwn == TabSpec => AnswersAreOwn
<1> DEFINE Own == \A c \in Calls :
                     Polled(c) /\ call[c].at # "lost" => call[c].state = tab.state
<1>1. PollInv => Own
  BY DEF PollInv, TabInv, Awaited, Polled, Current
<1>2. PollInv /\ [TabNext]_allVars => [Own]_allVars
  BY <1>1
<1> QED BY <1>2, PollAlways, PTL DEF TabSpec, AnswersAreOwn
=============================================================================
