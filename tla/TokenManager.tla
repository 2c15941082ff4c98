---------------------------- MODULE TokenManager ----------------------------
(***************************************************************************)
(* One user's CodeBuddyTokenManager: the credential directory, the list    *)
(* held in memory, the rotation position, the generations that guard       *)
(* asynchronous updates, and the process that restarts underneath them.    *)
(*                                                                         *)
(* A file name is its rank in the sorted directory listing, so the index   *)
(* the code keeps and the file it denotes determine each other; the model  *)
(* keeps the file.  The content of a credential is a token; AccountOf says *)
(* which upstream account a token spends.                                  *)
(***************************************************************************)
EXTENDS Naturals

CONSTANTS
    Files,          \* file names of the directory, ordered as sorted() does
    Tokens,         \* credential contents
    Expirable,      \* contents that carry an expiry; the others never expire
    AccountOf,      \* the upstream account behind each content
    Tasks,          \* coroutines that hold a snapshot across an await
    Requests,       \* chat requests whose usage is attributed later
    MaxRotation,    \* the largest CODEBUDDY_ROTATION_COUNT a user sets
    MaxGen,         \* bound: generations per file (explored, not in the code)
    Fixing,         \* bound: whether selecting and settings are explored
    Absent,         \* no such file, or not in the list
    Corrupt,        \* a file that does not parse
    None

ASSUME FilesOrdered == Files \subseteq Nat /\ None \notin Files
ASSUME ContentsDistinct ==
    Absent \notin Tokens /\ Corrupt \notin Tokens /\ Absent # Corrupt
ASSUME CorruptIsNoName == Corrupt \notin Files /\ Corrupt # None
ASSUME TokensTyped == Expirable \subseteq Tokens
ASSUME RotationPositive == MaxRotation \in Nat \ {0}

VARIABLES
    disk,       \* credential files
    stateFile,  \* current_filename in manager_state.json
    auto,       \* CODEBUDDY_AUTO_ROTATION_ENABLED, in the settings database
    rotationCount,  \* CODEBUDDY_ROTATION_COUNT, in the settings database
    data,       \* self.credentials, by file name
    current,    \* the file self.current_index denotes, None for -1
    usage,      \* self.usage_count
    gen,        \* self._generations
    quotaGen,   \* self._quota_generations
    expired,    \* tokens whose expires_at has passed
    snap,       \* snapshot_credential_by_id results held by coroutines
    req,        \* file, account and quota generation captured by a request
    pin,        \* history: the file last fixed by a completed selection
    lapsed,     \* history: a request found that file expired
    torn        \* history: files replaced on disk by a call that failed

settings == <<auto, rotationCount>>
dirVars == <<disk, stateFile, settings>>
listVars == <<data, current, usage, gen, quotaGen>>
history == <<pin, lapsed, torn>>
vars == <<dirVars, listVars, expired, snap, req, history>>

-----------------------------------------------------------------------------
(* The directory listing and the rotation policy.                          *)

First(S) == CHOOSE f \in S : \A g \in S : f <= g

Loaded(d) == [f \in Files |-> IF d[f] \in Tokens THEN d[f] ELSE Absent]

ListedIn(d) == {f \in Files : d[f] \in Tokens}

Listed == ListedIn(data)

Usable(f) == f \in Listed /\ data[f] \notin expired

UsableFiles == {f \in Files : Usable(f)}

(* The next usable file after f, wrapping around.                          *)
FirstAgain(f) == First(UsableFiles)
NextUsable(f) ==
    LET later == {g \in UsableFiles : g > f}
    IN  IF later # {} THEN First(later) ELSE First(UsableFiles)

(* CredentialRotationPolicy.select for a non-empty UsableFiles: an unusable *)
(* position falls back to the first usable file, a fixed selection stays,  *)
(* a used-up one moves on.                                                 *)
Selection ==
    LET start == IF current \in UsableFiles
                   THEN [file |-> current, usage |-> usage]
                   ELSE [file |-> First(UsableFiles), usage |-> 0]
        turn  == IF start.usage >= rotationCount
                   THEN [file |-> NextUsable(start.file), usage |-> 0]
                   ELSE start
    IN  IF ~auto THEN start
                 ELSE [turn EXCEPT !.usage = @ + 1]

(* bump_quota_generation, and the same of the other generation.            *)
NotBumped(g, f) == g
Bumped(g, f) == [g EXCEPT ![f] = @ + 1]

(* load_all_tokens after the directory became d: the position follows its  *)
(* file, and is the first file when that one is gone.                      *)
ListNotReread(d) == UNCHANGED <<data, current, usage>>

PositionReset(d) ==
    /\ data' = Loaded(d)
    /\ current' = IF ListedIn(d) = {} THEN None ELSE First(ListedIn(d))
    /\ usage' = 0

LoadAllTokens(d) ==
    /\ data' = Loaded(d)
    /\ IF current \in ListedIn(d)
         THEN UNCHANGED <<current, usage>>
         ELSE /\ current' = IF ListedIn(d) = {} THEN None
                                                ELSE First(ListedIn(d))
              /\ usage' = 0

-----------------------------------------------------------------------------
Init ==
    /\ disk = [f \in Files |-> Absent]
    /\ stateFile = None
    /\ auto = TRUE
    /\ rotationCount \in 1..MaxRotation
    /\ data = [f \in Files |-> Absent]
    /\ current = None
    /\ usage = 0
    /\ gen = [f \in Files |-> 0]
    /\ quotaGen = [f \in Files |-> 0]
    /\ expired = {}
    /\ snap = [t \in Tasks |-> None]
    /\ req = [r \in Requests |-> None]
    /\ pin = None
    /\ lapsed = FALSE
    /\ torn = {}

(* add_credential_with_data: the file is created exclusively under a free  *)
(* name, then the directory is read again.                                 *)
AddCredential(f, tok) ==
    /\ disk[f] = Absent
    /\ disk' = [disk EXCEPT ![f] = tok]
    /\ LoadAllTokens(disk')
    /\ UNCHANGED <<stateFile, settings, gen, quotaGen, expired, snap, req,
                   history>>

(* The same call failing after the exclusive create: write_json_file leaves *)
(* what it wrote, and no reload happens.                                   *)
AddCredentialFails(f, tok) ==
    /\ disk[f] = Absent
    /\ \E left \in {tok, Corrupt} : disk' = [disk EXCEPT ![f] = left]
    /\ UNCHANGED <<stateFile, settings, listVars, expired, snap, req, history>>

(* delete_credential_by_id: both generations move so that whoever still    *)
(* holds a snapshot or an attribution of this file is refused.             *)
DeleteCredential(f) ==
    /\ f \in Listed
    /\ gen[f] < MaxGen /\ quotaGen[f] < MaxGen
    /\ disk' = [disk EXCEPT ![f] = Absent]
    /\ gen' = Bumped(gen, f)
    /\ quotaGen' = Bumped(quotaGen, f)
    /\ LoadAllTokens(disk')
    /\ pin' = IF pin = f THEN None ELSE pin
    /\ lapsed' = (lapsed /\ pin # f)
    /\ torn' = torn \ {f}
    /\ UNCHANGED <<stateFile, settings, expired, snap, req>>

(* snapshot_credential_by_id before an await.                              *)
TakeSnapshot(t, f) ==
    /\ f \in Listed
    /\ snap' = [snap EXCEPT ![t] =
                   [file |-> f, token |-> data[f], gen |-> gen[f]]]
    /\ UNCHANGED <<dirVars, listVars, expired, req, history>>

(* The refusal of replace_credential_by_id.                                *)
Conflict(s) == s.file \notin Listed \/ gen[s.file] # s.gen

ReplaceRefused(t) ==
    /\ snap[t] # None
    /\ Conflict(snap[t])
    /\ snap' = [snap EXCEPT ![t] = None]
    /\ UNCHANGED <<dirVars, listVars, expired, req, history>>

(* Coroutines end, by an error or cancelled, without having replaced.      *)
DropSnapshots(T) ==
    /\ snap' = [t \in Tasks |-> IF t \in T THEN None ELSE snap[t]]
    /\ UNCHANGED <<dirVars, listVars, expired, req, history>>

(* replace_credential_by_id: the caller flags a change of account, and may *)
(* flag a change of probe mode that keeps it.  A refresh goes on with the  *)
(* content and generation it has just written.                             *)
ReplaceCredential(t, tok) ==
    LET s == snap[t]
        f == s.file
    IN  /\ s # None
        /\ ~Conflict(s)
        /\ gen[f] < MaxGen /\ quotaGen[f] < MaxGen
        /\ disk' = [disk EXCEPT ![f] = tok]
        /\ data' = [data EXCEPT ![f] = tok]
        /\ gen' = [gen EXCEPT ![f] = s.gen + 1]
        /\ \E quotaChanged \in {AccountOf[tok] # AccountOf[s.token], TRUE} :
              quotaGen' = IF quotaChanged
                            THEN Bumped(quotaGen, f) ELSE quotaGen
        /\ \E goesOn \in BOOLEAN :
              snap' = [snap EXCEPT ![t] =
                  IF goesOn
                    THEN [file |-> f, token |-> tok, gen |-> s.gen + 1]
                    ELSE None]
        /\ UNCHANGED <<stateFile, settings, current, usage, expired, req,
                       history>>

(* The same call raising after os.replace, when the directory cannot be    *)
(* opened or synced: the file is new, the list and its generation are not. *)
ReplaceFailsAfterRename(t, tok) ==
    LET s == snap[t] IN
        /\ s # None
        /\ ~Conflict(s)
        /\ disk' = [disk EXCEPT ![s.file] = tok]
        /\ snap' = [snap EXCEPT ![t] = None]
        /\ torn' = torn \union {s.file}
        /\ UNCHANGED <<stateFile, settings, listVars, expired, req, pin, lapsed>>

-----------------------------------------------------------------------------
(* select_next_credential for a request; it captures the quota generation. *)
SelectNextCredential(r) ==
    /\ UsableFiles # {}
    /\ current' = Selection.file
    /\ usage' = Selection.usage
    /\ req' = [req EXCEPT ![r] =
                  [file    |-> Selection.file,
                   account |-> AccountOf[data[Selection.file]],
                   gen     |-> quotaGen[Selection.file]]]
    /\ lapsed' = (lapsed \/ (pin # None /\ ~Usable(pin)))
    /\ UNCHANGED <<dirVars, data, gen, quotaGen, expired, snap, pin, torn>>

(* save_state swallows every error: the file keeps its old content or is   *)
(* left truncated.                                                         *)
SaveState(file) == stateFile' \in {file, stateFile, Corrupt}

(* set_current_credential_by_id: fixes the file and turns rotation off; if *)
(* the settings database refuses, only the memory has changed.             *)
SetCurrentCredential(f) ==
    /\ Fixing
    /\ f \in Listed
    /\ current' = f
    /\ usage' = 0
    /\ \/ /\ auto' = FALSE
          /\ SaveState(f)
       \/ UNCHANGED <<auto, stateFile>>
    /\ UNCHANGED rotationCount
    /\ pin' = IF ~auto' /\ stateFile' = f THEN f ELSE None
    /\ lapsed' = FALSE
    /\ UNCHANGED <<disk, data, gen, quotaGen, expired, snap, req, torn>>

EnableAutoRotation ==
    /\ ~auto
    /\ usage' = 0
    /\ \/ /\ auto' = TRUE
          /\ SaveState(current)
          /\ pin' = None
          /\ lapsed' = FALSE
       \/ UNCHANGED <<auto, stateFile, pin, lapsed>>
    /\ UNCHANGED <<disk, rotationCount, data, current, gen, quotaGen, expired,
                   snap, req, torn>>

DisableAutoRotation ==
    /\ auto
    /\ auto' = FALSE
    /\ SaveState(current)
    /\ pin' = IF stateFile' = current THEN current ELSE None
    /\ lapsed' = FALSE
    /\ UNCHANGED <<disk, rotationCount, listVars, expired, snap, req, torn>>

(* toggle_auto_rotation; turning it on keeps the position and starts a new *)
(* count.                                                                  *)
ToggleAutoRotation == Fixing /\ (EnableAutoRotation \/ DisableAutoRotation)

(* save_admin_settings, which writes both settings past the manager: the   *)
(* position, its count and the state file stay, so turning rotation off    *)
(* here fixes nothing.  A selection reads the settings anew.               *)
UpdateSettings(enabled, count) ==
    /\ Fixing
    /\ auto' = enabled
    /\ rotationCount' = count
    /\ pin' = IF enabled THEN None ELSE pin
    /\ lapsed' = (lapsed /\ ~enabled)
    /\ UNCHANGED <<disk, stateFile, listVars, expired, snap, req, torn>>

-----------------------------------------------------------------------------
(* A token reaches its expires_at.                                         *)
Expire(tok) ==
    /\ tok \notin expired
    /\ expired' = expired \union {tok}
    /\ UNCHANGED <<dirVars, listVars, snap, req, history>>

(* The process stops at any point and a new manager is built: __init__     *)
(* reads the directory, then load_state moves to the saved file if it is   *)
(* still there.  Coroutines and requests are gone, generations restart.  A *)
(* crash inside a selection leaves what a selection that lost its state    *)
(* file leaves, so the two steps together cover it.                        *)
Restart ==
    /\ data' = Loaded(disk)
    /\ current' = IF stateFile \in ListedIn(disk) THEN stateFile
                  ELSE IF ListedIn(disk) = {} THEN None
                  ELSE First(ListedIn(disk))
    /\ usage' = 0
    /\ gen' = [f \in Files |-> 0]
    /\ quotaGen' = [f \in Files |-> 0]
    /\ snap' = [t \in Tasks |-> None]
    /\ req' = [r \in Requests |-> None]
    /\ torn' = {}
    /\ lapsed' = FALSE
    /\ UNCHANGED <<dirVars, expired, pin>>

Next ==
    \/ \E f \in Files, tok \in Tokens :
          AddCredential(f, tok) \/ AddCredentialFails(f, tok)
    \/ \E f \in Files : DeleteCredential(f) \/ SetCurrentCredential(f)
    \/ \E t \in Tasks, f \in Files : TakeSnapshot(t, f)
    \/ \E t \in Tasks : ReplaceRefused(t)
    \/ \E T \in SUBSET Tasks : DropSnapshots(T)
    \/ \E t \in Tasks, tok \in Tokens :
          ReplaceCredential(t, tok) \/ ReplaceFailsAfterRename(t, tok)
    \/ \E r \in Requests : SelectNextCredential(r)
    \/ ToggleAutoRotation
    \/ \E enabled \in BOOLEAN, count \in 1..MaxRotation :
          UpdateSettings(enabled, count)
    \/ \E tok \in Expirable : Expire(tok)
    \/ Restart

Spec == Init /\ [][Next]_vars

(* Chat requests keep coming.                                              *)
Traffic == WF_vars(\E r \in Requests : SelectNextCredential(r))

FairSpec == Spec /\ Traffic

-----------------------------------------------------------------------------
Snapshot == [file : Files, token : Tokens, gen : Nat]

Attribution == [file : Files, account : {AccountOf[tok] : tok \in Tokens},
                gen : Nat]

(* Every variable stays in the set the code keeps it in.  usage_count may   *)
(* be above the rotation count after the user has lowered that, and is     *)
(* never above the largest count that was set.                             *)
TypeOK ==
    /\ disk \in [Files -> Tokens \union {Absent, Corrupt}]
    /\ stateFile \in Files \union {None, Corrupt}
    /\ auto \in BOOLEAN
    /\ data \in [Files -> Tokens \union {Absent}]
    /\ current \in Files \union {None}
    /\ rotationCount \in 1..MaxRotation
    /\ usage \in 0..MaxRotation
    /\ gen \in [Files -> Nat]
    /\ quotaGen \in [Files -> Nat]
    /\ expired \subseteq Expirable
    /\ snap \in [Tasks -> Snapshot \union {None}]
    /\ req \in [Requests -> Attribution \union {None}]
    /\ pin \in Files \union {None}
    /\ lapsed \in BOOLEAN
    /\ torn \in SUBSET Files

(* The position denotes a listed credential, and is -1 exactly when there  *)
(* is none: add, delete, refresh, selection and restart all keep it, so    *)
(* the repairs in get_current_credential_info never happen.                *)
CurrentListed == IF Listed = {} THEN current = None ELSE current \in Listed

(* The list in memory is what the directory holds, except for a file that  *)
(* a failed replacement already renamed: a restart loses nothing.          *)
MemoryOnDisk ==
    \A f \in Files : data[f] # Absent => disk[f] = data[f] \/ f \in torn

(* replace_credential_by_id, "only when not concurrently modified": a      *)
(* snapshot whose generation still matches a listed credential was taken   *)
(* of the content now in the list, across deletions and re-creations of    *)
(* the same file name; torn files are the exception.                       *)
NoLostUpdate ==
    \A t \in Tasks :
        LET s == snap[t] IN
        s # None /\ ~Conflict(s) /\ s.file \notin torn
            => data[s.file] = s.token

(* Usage captured by a request is charged to the account that spent it:    *)
(* while the quota generation of its file still matches, the file holds    *)
(* the same account.                                                       *)
ChargedToSpender ==
    \A r \in Requests :
        LET q == req[r] IN
        q # None /\ q.file \in Listed \ torn /\ quotaGen[q.file] = q.gen
            => AccountOf[data[q.file]] = q.account

(* With rotation off, the file last fixed stays the current one through    *)
(* additions, deletions of others, refreshes and restarts, unless a        *)
(* request came while it was expired.                                      *)
PinKept == ~auto /\ pin # None /\ ~lapsed => current = pin

(* A usable credential is not starved: if rotation stays on and from some  *)
(* moment only requests move the position, they come to every credential.  *)
RotationServesAll ==
    \A f \in Files :
        (/\ <>[](auto /\ Usable(f))
         /\ <>[][\E r \in Requests :
                     SelectNextCredential(r)]_<<auto, listVars>>)
        => []<>(current = f)
=============================================================================
